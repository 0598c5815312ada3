--------------------------- MODULE ObservedProofs ----------------------------
(***************************************************************************)
(* What holds of the system monitor and of the web page's tree for any     *)
(* processes, any adoption of orphans, any reuse of pids, any order of the *)
(* reads of /proc among the kernel's steps, and any width of the integers  *)
(* that the clock does not exceed: what the shares may claim, the types,   *)
(* who is drawn, who is counted, and who is counted once.                  *)
(***************************************************************************)
EXTENDS Observed, SequenceTheorems, FiniteSetTheorems, WellFoundedInduction, TLAPS

\* A set of natural numbers has a least one.
LEMMA LeastNumber ==
  ASSUME NEW S \in SUBSET Nat, S # {}
  PROVE  \E x \in S : \A y \in S : x <= y
<1> DEFINE R == OpToRel(<, Nat)
<1>1. IsWellFoundedOn(R, Nat)
  BY NatLessThanWellFounded
<1>2. \E x \in S : \A y \in S : <<y, x>> \notin R
  <2> HIDE DEF R
  <2> QED
    BY <1>1, WFMin
<1>3. PICK x \in S : \A y \in S : ~(y < x)
  BY <1>2 DEF OpToRel
<1> QED
  BY <1>3

\* What the arithmetic needs of the kernel's table.  Of the CPU time no bound is
\* known: a process found at the start may have used any amount.
Counters == [live : BOOLEAN, ppid : Pids \union {Reaper}, comm : Comms, cpu : Nat, life : Nat]

Readings == [seen : BOOLEAN, cpu : Nat, timestamp : Nat, life : Nat, exact : BOOLEAN]

Typed ==
  /\ procs \in [Pids -> Counters]
  /\ previous_stats \in [Pids -> Readings]
  /\ clock \in Nat /\ clock <= MaxClock
  /\ timestamp \in Nat /\ timestamp <= clock
  /\ target_pids \in Seq(Pids)
  /\ all_pids \in Seq(Pids)
  /\ sampled \in Nat

\* There is a pid left to look at.
PidLeft == doing \in {"walk", "sample"} => sampled < Len(all_pids)

\* A reading of p that is still of p's process is behind it, and if it was of the
\* CPU time by no more than the time since: a thread uses at most the time there is.
Behind(prev, proc) ==
  /\ prev.timestamp <= clock
  /\ prev.life <= proc.life
  /\ prev.exact /\ prev.life = proc.life =>
       prev.cpu <= proc.cpu /\ proc.cpu + prev.timestamp <= clock + prev.cpu

ReadingsBehind == \A p \in Pids : previous_stats[p].seen => Behind(previous_stats[p], procs[p])

IInv == Typed /\ PidLeft /\ ReadingsBehind /\ SoundShares

USE ProcessesAssumption, MonitorAssumption

LEMMA InitHolds == Init => IInv
<1> SUFFICES ASSUME Init
             PROVE  IInv
  OBVIOUS
<1> USE DEF Init, ProcessesInit, MonitorInit
<1>1. Process \subseteq Counters
  BY DEF Process, Counters
<1>2. Typed
  <2>1. procs \in [Pids -> Process]
    BY ExistingAssumption
  <2>2. NoStats \in Readings
    BY DEF NoStats, Readings
  <2> QED
    BY <1>1, <2>1, <2>2 DEF Typed
<1>3. PidLeft
  BY DEF PidLeft
<1>4. ReadingsBehind
  BY DEF ReadingsBehind, NoStats
<1>5. SoundShares
  BY DEF SoundShares, NoShare
<1> QED
  BY <1>2, <1>3, <1>4, <1>5 DEF IInv

\* Steps that leave the readings and the shares alone: the reading of a process
\* stays behind it if the process does not lose CPU time or life, and gains CPU
\* time only as time goes by.
Ahead(p) ==
  \/ procs'[p].life = procs[p].life /\ procs'[p].cpu = procs[p].cpu
  \/ procs'[p].life = procs[p].life + 1
  \/ procs'[p].life = procs[p].life /\ procs'[p].cpu = procs[p].cpu + 1 /\ clock' = clock + 1

LEMMA StaysBehind ==
  ASSUME Typed, ReadingsBehind, procs' \in [Pids -> Counters], clock' \in {clock, clock + 1},
         \A p \in Pids : Ahead(p), UNCHANGED previous_stats
  PROVE  ReadingsBehind'
<1> SUFFICES ASSUME NEW p \in Pids, previous_stats[p].seen
             PROVE  Behind(previous_stats[p], procs[p])'
  BY DEF ReadingsBehind
<1>1. Behind(previous_stats[p], procs[p])
  BY DEF ReadingsBehind
<1>2. /\ previous_stats[p] \in Readings
      /\ procs[p] \in Counters /\ procs'[p] \in Counters
      /\ clock \in Nat
  BY DEF Typed
<1>3. /\ previous_stats[p].cpu \in Nat /\ previous_stats[p].timestamp \in Nat /\ previous_stats[p].life \in Nat
      /\ procs[p].cpu \in Nat /\ procs[p].life \in Nat
      /\ procs'[p].cpu \in Nat /\ procs'[p].life \in Nat
  BY <1>2 DEF Readings, Counters
<1>4. Ahead(p)
  OBVIOUS
<1> QED
  BY <1>1, <1>2, <1>3, <1>4 DEF Behind, Ahead

\* A kernel step of a process that comes, changes its name, goes or runs.
LEMMA KernelTyped ==
  ASSUME Typed, procs' \in [Pids -> Counters], clock' \in Nat, clock <= clock', clock' <= MaxClock, UNCHANGED scanVars
  PROVE  Typed'
BY DEF Typed, scanVars

LEMMA ForkAhead ==
  ASSUME Typed, NEW p \in Pids, NEW c \in Pids, Fork(p, c)
  PROVE  procs' \in [Pids -> Counters] /\ clock' = clock /\ \A q \in Pids : Ahead(q)
<1> DEFINE child == [live |-> TRUE, ppid |-> p, comm |-> procs[p].comm, cpu |-> 0, life |-> procs[c].life + 1]
<1>1. procs' = [procs EXCEPT ![c] = child] /\ clock' = clock
  BY DEF Fork
<1>2. procs \in [Pids -> Counters] /\ procs[p] \in Counters /\ procs[c] \in Counters
  BY DEF Typed
<1>3. child \in Counters /\ child.life = procs[c].life + 1
  BY <1>2 DEF Counters
<1> HIDE DEF child
<1>4. procs' \in [Pids -> Counters]
  BY <1>1, <1>2, <1>3
<1>5. \A q \in Pids : Ahead(q)
  BY <1>1, <1>2, <1>3 DEF Ahead
<1> QED
  BY <1>1, <1>4, <1>5

LEMMA ExecAhead ==
  ASSUME Typed, NEW p \in Pids, NEW comm \in Comms, Exec(p, comm)
  PROVE  procs' \in [Pids -> Counters] /\ clock' = clock /\ \A q \in Pids : Ahead(q)
<1>1. procs' = [procs EXCEPT ![p].comm = comm] /\ clock' = clock
  BY DEF Exec
<1>2. procs \in [Pids -> Counters]
  BY DEF Typed
<1>3. procs' \in [Pids -> Counters]
  BY <1>1, <1>2 DEF Counters
<1>4. \A q \in Pids : procs'[q].life = procs[q].life /\ procs'[q].cpu = procs[q].cpu
  BY <1>1, <1>2 DEF Counters
<1> QED
  BY <1>1, <1>3, <1>4 DEF Ahead

LEMMA ExitAhead ==
  ASSUME Typed, NEW p \in Pids, Exit(p)
  PROVE  procs' \in [Pids -> Counters] /\ clock' = clock /\ \A q \in Pids : Ahead(q)
<1>1. /\ procs' = [q \in Pids |->
             IF q = p THEN [procs[q] EXCEPT !.live = FALSE]
             ELSE IF q \in Children(p) THEN [procs[q] EXCEPT !.ppid = Guardian(p)]
             ELSE procs[q]]
      /\ clock' = clock
  BY DEF Exit
<1>2. procs \in [Pids -> Counters]
  BY DEF Typed
<1>3. Guardian(p) \in Pids \union {Reaper}
  BY DEF Guardian
<1>4. ASSUME NEW q \in Pids
      PROVE  procs'[q] \in Counters /\ procs'[q].life = procs[q].life /\ procs'[q].cpu = procs[q].cpu
  <2>1. procs[q] \in Counters
    BY <1>2
  <2>2. procs'[q] \in {[procs[q] EXCEPT !.live = FALSE], [procs[q] EXCEPT !.ppid = Guardian(p)], procs[q]}
    BY <1>1
  <2> QED
    BY <1>3, <2>1, <2>2 DEF Counters
<1>5. procs' \in [Pids -> Counters]
  BY <1>1, <1>4
<1> QED
  BY <1>1, <1>4, <1>5 DEF Ahead

LEMMA ElapseAhead ==
  ASSUME Typed, NEW busy \in SUBSET Live, Elapse(busy)
  PROVE  /\ procs' \in [Pids -> Counters]
         /\ clock' = clock + 1 /\ clock' <= MaxClock
         /\ \A q \in Pids : Ahead(q)
<1>1. /\ procs' = [p \in Pids |-> IF p \in busy THEN [procs[p] EXCEPT !.cpu = procs[p].cpu + 1] ELSE procs[p]]
      /\ clock < MaxClock /\ clock' = clock + 1
  BY DEF Elapse
<1>2. procs \in [Pids -> Counters] /\ clock \in Nat
  BY DEF Typed
<1>3. ASSUME NEW q \in Pids
      PROVE  procs'[q] \in Counters /\ Ahead(q)
  <2>1. procs[q] \in Counters /\ procs[q].cpu + 1 \in Nat
    BY <1>2 DEF Counters
  <2>2. procs'[q] = [procs[q] EXCEPT !.cpu = procs[q].cpu + 1] \/ procs'[q] = procs[q]
    BY <1>1
  <2> QED
    BY <1>1, <2>1, <2>2 DEF Counters, Ahead
<1>4. procs' \in [Pids -> Counters]
  BY <1>1, <1>3
<1>5. clock' = clock + 1 /\ clock' <= MaxClock
  BY <1>1, <1>2
<1> QED
  BY <1>3, <1>4, <1>5

-----------------------------------------------------------------------------

\* Unsigned subtraction, for what it is used on here.
LEMMA MinusFacts ==
  ASSUME NEW a \in Nat, NEW b \in Nat
  PROVE  /\ b <= a /\ a - b < Word => Minus(a, b) = a - b
         /\ a < b /\ b < Word => Minus(a, b) = a + Word - b
<1>1. Word \in Nat \ {0}
  OBVIOUS
<1>2. ASSUME b <= a, a - b < Word
      PROVE  Minus(a, b) = a - b
  <2> DEFINE d == a - b
  <2>1. d \in 0 .. Word - 1 /\ a + Word - b = d + Word
    BY <1>1, <1>2
  <2> HIDE DEF d
  <2>2. (d + Word) % Word = d
    BY <1>1, <2>1
  <2> QED
    BY <2>1, <2>2 DEF Minus, d
<1>3. ASSUME a < b, b < Word
      PROVE  Minus(a, b) = a + Word - b
  BY <1>1, <1>3 DEF Minus
<1> QED
  BY <1>2, <1>3

\* What calculate_cpu_percentage makes of a reading that is behind its process.
LEMMA ShareSound ==
  ASSUME Typed, ReadingsBehind, NEW p \in Pids, NEW cpu \in CpuRead(p)
  PROVE  LET s == Share(p, cpu)
         IN  /\ ~s.old => s.cpu = 0
             /\ s.alike => s.cpu <= s.elapsed /\ s.elapsed <= s.time + s.late
<1> DEFINE prev == previous_stats[p]
           time == Minus(timestamp, prev.timestamp)
           late == clock - timestamp
           elapsed == clock - prev.timestamp
           used == IF time > 0 THEN Minus(cpu, prev.cpu) ELSE 0
           alike == prev.life = procs[p].life /\ prev.exact /\ FieldsInPlace(p)
           s == [cpu |-> used, time |-> time, old |-> TRUE, late |-> late, elapsed |-> elapsed, alike |-> alike]
<1>1. /\ prev.cpu \in Nat /\ prev.timestamp \in Nat /\ prev.life \in Nat
      /\ procs[p].cpu \in Nat /\ procs[p].life \in Nat
      /\ clock \in Nat /\ timestamp \in Nat /\ timestamp <= clock /\ clock < Word /\ Word \in Nat
  <2>1. previous_stats[p] \in Readings /\ procs[p] \in Counters
    BY DEF Typed
  <2>2. /\ prev.cpu \in Nat /\ prev.timestamp \in Nat /\ prev.life \in Nat
        /\ procs[p].cpu \in Nat /\ procs[p].life \in Nat
    BY <2>1 DEF Readings, Counters
  <2>3. clock \in Nat /\ clock <= MaxClock /\ timestamp \in Nat /\ timestamp <= clock
    BY DEF Typed
  <2>4. MaxClock \in Nat /\ Word \in Nat /\ MaxClock < Word
    BY DEF Typed
  <2>5. clock < Word
    BY <2>3, <2>4
  <2> QED
    BY <2>2, <2>3, <2>4, <2>5
<1>2. CASE ~prev.seen
  <2>1. Share(p, cpu) = NoShare
    BY <1>2 DEF Share
  <2>2. NoShare.cpu = 0 /\ NoShare.alike = FALSE
    BY DEF NoShare
  <2> QED
    BY <2>1, <2>2
<1>3. CASE prev.seen
  <2>1. Share(p, cpu) = s
    BY <1>3 DEF Share
  <2>2. Behind(prev, procs[p])
    BY <1>3 DEF ReadingsBehind
  <2>3. ASSUME prev.life = procs[p].life, prev.exact, FieldsInPlace(p)
        PROVE  used <= elapsed /\ elapsed <= time + late
    <3>1. /\ prev.timestamp <= clock
          /\ prev.cpu <= procs[p].cpu
          /\ procs[p].cpu - prev.cpu <= clock - prev.timestamp
      BY <1>1, <2>2, <2>3 DEF Behind
    <3>2. cpu = procs[p].cpu
      BY <2>3 DEF CpuRead
    <3>3. Minus(cpu, prev.cpu) = procs[p].cpu - prev.cpu
      BY <1>1, <3>1, <3>2, MinusFacts
    <3>4. time = IF prev.timestamp <= timestamp THEN timestamp - prev.timestamp ELSE timestamp + Word - prev.timestamp
      BY <1>1, <3>1, MinusFacts
    <3>5. time \in Nat /\ elapsed <= time + late
      BY <1>1, <3>1, <3>4
    <3>6. used \in {0, procs[p].cpu - prev.cpu}
      BY <3>3
    <3> HIDE DEF time, used
    <3> QED
      BY <1>1, <3>1, <3>5, <3>6
  <2>4. /\ s.cpu = used /\ s.time = time /\ s.old = TRUE /\ s.late = late /\ s.elapsed = elapsed
        /\ s.alike = alike
    <3> HIDE DEF used, time, late, elapsed, alike
    <3> QED
      OBVIOUS
  <2>5. alike => used <= elapsed /\ elapsed <= time + late
    BY <2>3
  <2> HIDE DEF used, time, late, elapsed, alike, s
  <2> QED
    BY <2>1, <2>4, <2>5
<1> QED
  BY <1>2, <1>3

-----------------------------------------------------------------------------

LEMMA TickStep == ASSUME IInv, Tick, UNCHANGED kernelVars PROVE IInv'
<1> USE DEF Tick, kernelVars
<1>1. Typed'
  <2>1. target_pids' \in Seq(Pids)
    <3>1. config.pid \in Live => config.pid \in Pids
      BY DEF Live
    <3> QED
      BY <3>1
  <2> QED
    BY <2>1 DEF IInv, Typed
<1>2. PidLeft'
  BY DEF PidLeft
<1>3. ReadingsBehind' /\ SoundShares'
  BY DEF IInv, ReadingsBehind, Behind, SoundShares
<1> QED
  BY <1>1, <1>2, <1>3 DEF IInv

LEMMA FindTargetStep == ASSUME IInv, FindTarget, UNCHANGED kernelVars PROVE IInv'
<1> USE DEF FindTarget, kernelVars
<1>1. Typed'
  <2>1. Visited \in Live => Visited \in Pids
    BY DEF Live
  <2>2. target_pids' \in {target_pids, Append(target_pids, Visited)} /\ (target_pids' = Append(target_pids, Visited) => target_pids' = target_pids \/ Visited \in Live)
    OBVIOUS
  <2>3. target_pids' \in Seq(Pids)
    BY <2>1, <2>2 DEF IInv, Typed
  <2> QED
    BY <2>3 DEF IInv, Typed
<1>2. PidLeft'
  BY DEF PidLeft
<1>3. ReadingsBehind' /\ SoundShares'
  BY DEF IInv, ReadingsBehind, Behind, SoundShares
<1> QED
  BY <1>1, <1>2, <1>3 DEF IInv

LEMMA StartTargetStep == ASSUME IInv, StartTarget, UNCHANGED kernelVars PROVE IInv'
<1> USE DEF StartTarget, kernelVars
<1>1. Head(target_pids) \in Pids /\ Tail(target_pids) \in Seq(Pids)
  BY DEF IInv, Typed
<1>2. /\ target_pids' = Tail(target_pids) /\ all_pids' = <<Head(target_pids)>>
      /\ sampled' = 0 /\ share' = NoShare
  OBVIOUS
<1>3. Typed'
  BY <1>1, <1>2 DEF IInv, Typed
<1>4. PidLeft'
  BY <1>1, <1>2 DEF PidLeft
<1>5. ReadingsBehind' /\ SoundShares'
  BY DEF IInv, ReadingsBehind, Behind, SoundShares, NoShare
<1> QED
  BY <1>3, <1>4, <1>5 DEF IInv

LEMMA FindChildStep == ASSUME IInv, FindChild, UNCHANGED kernelVars PROVE IInv'
<1>1. all_pids' = all_pids \/ (Visited \in Pids /\ all_pids' = Append(all_pids, Visited))
  BY DEF FindChild, Live
<1>2. all_pids' \in Seq(Pids) /\ Len(all_pids) <= Len(all_pids')
  <2>1. all_pids \in Seq(Pids)
    BY DEF IInv, Typed
  <2> QED
    BY <1>1, <2>1
<1> USE DEF FindChild, kernelVars
<1>3. Typed'
  BY <1>2 DEF IInv, Typed
<1>4. PidLeft'
  BY <1>2 DEF IInv, Typed, PidLeft
<1>5. ReadingsBehind' /\ SoundShares'
  BY DEF IInv, ReadingsBehind, Behind, SoundShares
<1> QED
  BY <1>3, <1>4, <1>5 DEF IInv

LEMMA TakeSampleStep == ASSUME IInv, TakeSample, UNCHANGED kernelVars PROVE IInv'
<1> USE DEF TakeSample, kernelVars
<1> DEFINE p == all_pids[sampled + 1]
<1>1. p \in Pids
  BY DEF IInv, Typed, PidLeft
<1>2. ASSUME NEW cpu \in CpuRead(p), p \in Live,
             share' = Share(p, cpu), previous_stats' = [previous_stats EXCEPT ![p] = Current(p, cpu)]
      PROVE  IInv'
  <2>1. Current(p, cpu) \in Readings /\ Behind(Current(p, cpu), procs[p])
    <3>1. procs[p] \in Counters /\ clock \in Nat
      BY <1>1 DEF IInv, Typed
    <3>2. cpu \in Nat /\ (FieldsInPlace(p) => cpu = procs[p].cpu)
      <4>1. procs[p].cpu \in Nat /\ Misread \subseteq Nat
        BY <3>1 DEF Counters
      <4>2. CpuRead(p) = IF FieldsInPlace(p) THEN {procs[p].cpu} ELSE Misread
        BY DEF CpuRead
      <4> HIDE DEF p
      <4> QED
        BY <1>2, <4>1, <4>2
    <3>3. FieldsInPlace(p) \in BOOLEAN
      BY DEF FieldsInPlace
    <3> HIDE DEF p
    <3> QED
      BY <3>1, <3>2, <3>3 DEF Current, Readings, Counters, Behind
  <2>2. previous_stats' \in [Pids -> Readings]
    BY <1>2, <2>1 DEF IInv, Typed
  <2>3. ReadingsBehind'
    BY <1>1, <1>2, <2>1 DEF IInv, Typed, ReadingsBehind, Behind
  <2>4. SoundShares'
    BY <1>1, <1>2, ShareSound DEF IInv, SoundShares
  <2> QED
    BY <2>2, <2>3, <2>4 DEF IInv, Typed, PidLeft
<1>3. CASE UNCHANGED <<share, previous_stats>>
  <2>1. Typed' /\ PidLeft'
    BY <1>3 DEF IInv, Typed, PidLeft
  <2> QED
    BY <1>3, <2>1 DEF IInv, ReadingsBehind, Behind, SoundShares
<1> QED
  BY <1>2, <1>3

\* A step of the kernel, seen by the monitor or not.
LEMMA KernelStep ==
  ASSUME IInv, procs' \in [Pids -> Counters], clock' \in {clock, clock + 1}, clock' <= MaxClock,
         \A p \in Pids : Ahead(p), UNCHANGED scanVars
  PROVE  IInv'
<1>1. Typed'
  BY KernelTyped DEF IInv, Typed
<1>2. UNCHANGED previous_stats
  BY DEF scanVars
<1>3. ReadingsBehind'
  BY <1>2, StaysBehind DEF IInv
<1>4. PidLeft' /\ SoundShares'
  BY DEF IInv, PidLeft, SoundShares, scanVars
<1> QED
  BY <1>1, <1>3, <1>4 DEF IInv

\* Of a process sampled before, without a space in its name at either sample, no
\* share that the monitor reports is more than a thread can have used in between:
\* whatever processes come and go while the samples are taken, no subtraction of
\* its CPU times wraps, and the time divided by is short of the time in between
\* by at most what had passed since the tick.
THEOREM SharesAreSound == Spec => []SoundShares
<1>1. Init => IInv
  BY InitHolds
<1>2. IInv /\ [Next]_vars => IInv'
  <2> SUFFICES ASSUME IInv, [Next]_vars
               PROVE  IInv'
    OBVIOUS
  <2>0. Typed /\ clock <= MaxClock
    BY DEF IInv, Typed
  <2>1. CASE Forks
    <3>1. PICK p \in Pids, c \in Pids : Fork(p, c) /\ ForkSeen(p, c)
      BY <2>1 DEF Forks
    <3>2. UNCHANGED scanVars
      BY <3>1 DEF ForkSeen
    <3> QED
      BY <2>0, <3>1, <3>2, ForkAhead, KernelStep
  <2>2. CASE Execs
    <3>1. PICK p \in Pids, comm \in Comms : Exec(p, comm) /\ ExecSeen(p, comm)
      BY <2>2 DEF Execs
    <3>2. UNCHANGED scanVars
      BY <3>1 DEF ExecSeen
    <3> QED
      BY <2>0, <3>1, <3>2, ExecAhead, KernelStep
  <2>3. CASE Exits
    <3>1. PICK p \in Pids : Exit(p) /\ ExitSeen(p)
      BY <2>3 DEF Exits
    <3>2. UNCHANGED scanVars
      BY <3>1 DEF ExitSeen
    <3> QED
      BY <2>0, <3>1, <3>2, ExitAhead, KernelStep
  <2>4. CASE Names
    BY <2>4 DEF Names, kernelVars, monitorVars, scanVars, IInv, Typed, PidLeft, ReadingsBehind, Behind, SoundShares
  <2>5. CASE Elapses
    <3>1. PICK busy \in SUBSET Live : Elapse(busy)
      BY <2>5 DEF Elapses
    <3>2. UNCHANGED scanVars
      BY <2>5 DEF Elapses, monitorVars
    <3> QED
      BY <2>0, <3>1, <3>2, ElapseAhead, KernelStep
  <2>6. CASE Monitors
    <3>1. Tick \/ FindTarget \/ StartTarget \/ FindChild \/ TakeSample
      BY <2>6 DEF Monitors, MonitorStep
    <3>2. UNCHANGED kernelVars
      BY <2>6 DEF Monitors, MonitorStep
    <3> QED
      BY <3>1, <3>2, TickStep, FindTargetStep, StartTargetStep, FindChildStep, TakeSampleStep
  <2>7. CASE UNCHANGED vars
    BY <2>7 DEF vars, kernelVars, monitorVars, scanVars, IInv, Typed, PidLeft, ReadingsBehind, Behind, SoundShares
  <2> QED
    BY <2>1, <2>2, <2>3, <2>4, <2>5, <2>6, <2>7 DEF Next
<1>3. IInv => SoundShares
  BY DEF IInv
<1> QED
  BY <1>1, <1>2, <1>3, PTL DEF Spec

-----------------------------------------------------------------------------
\* Reading a directory

LEMMA PidNumbers == Pids \subseteq Nat /\ NoPid \in Nat /\ \A p \in Pids : p > NoPid /\ p # Reaper
BY DEF NoPid, Reaper

LEMMA NextPidFacts ==
  ASSUME NEW at \in Nat, PidsAfter(at) # {}
  PROVE  NextPid(at) \in Pids /\ at < NextPid(at) /\ \A q \in Pids : at < q => NextPid(at) <= q
<1>1. PidsAfter(at) \in SUBSET Nat /\ PidsAfter(at) \subseteq Pids
  BY DEF PidsAfter
<1>2. \E p \in PidsAfter(at) : \A q \in PidsAfter(at) : p <= q
  BY <1>1, LeastNumber
<1>3. NextPid(at) \in PidsAfter(at) /\ \A q \in PidsAfter(at) : NextPid(at) <= q
  BY <1>2 DEF NextPid
<1> QED
  BY <1>1, <1>3 DEF PidsAfter

LEMMA ListingFacts ==
  ASSUME NEW of \in Pids \union {NoPid}
  PROVE  Listing(of) \in Frame /\ Listing(of).of = of /\ Listing(of).at = NoPid /\ PidsAfter(NoPid) # {}
<1>1. \A p \in Pids : p > NoPid
  BY DEF NoPid
<1>2. PidsAfter(NoPid) # {}
  BY <1>1 DEF PidsAfter
<1>3. Listing(of) \in Frame /\ Listing(of).of = of /\ Listing(of).at = NoPid
  BY DEF Listing, Frame
<1> QED
  BY <1>2, <1>3

\* A stack of listings none of which has come to its end.
Open(frames) == frames \in Seq(Frame) /\ \A i \in 1 .. Len(frames) : PidsAfter(frames[i].at) # {}

LEMMA VisitedFacts ==
  ASSUME Open(stack), stack # <<>>
  PROVE  /\ Len(stack) \in 1 .. Len(stack) /\ Top \in Frame
         /\ Visited \in Pids /\ Top.at < Visited /\ \A q \in Pids : Top.at < q => Visited <= q
<1>1. Len(stack) \in 1 .. Len(stack)
  BY EmptySeq, LenProperties DEF Open
<1>2. Top \in Frame /\ PidsAfter(Top.at) # {}
  BY <1>1, ElementOfSeq DEF Open, Top
<1>3. Top.at \in Nat
  <2>1. Top.at \in Pids \union {NoPid}
    BY <1>2 DEF Frame
  <2> QED
    BY <2>1, PidNumbers
<1> QED
  BY <1>1, <1>2, <1>3, NextPidFacts DEF Visited

\* Reading on, only the last of the listings changes, or goes.
LEMMA RemainingFacts ==
  ASSUME Open(stack), stack # <<>>
  PROVE  /\ Open(Remaining)
         /\ Len(Remaining) = IF PidsAfter(Visited) = {} THEN Len(stack) - 1 ELSE Len(stack)
         /\ \A i \in 1 .. Len(Remaining) :
              IF i = Len(stack) THEN Remaining[i].of = Top.of /\ Remaining[i].at = Visited ELSE Remaining[i] = stack[i]
<1> DEFINE n == Len(stack)
<1>1. n \in Nat \ {0} /\ stack \in Seq(Frame) /\ Visited \in Pids /\ n \in 1 .. n /\ Top = stack[n] /\ Top \in Frame
  BY VisitedFacts, LenProperties DEF Open, Top
<1>2. CASE PidsAfter(Visited) = {}
  <2>1. Remaining = SubSeq(stack, 1, n - 1)
    BY <1>2 DEF Remaining, Front
  <2>2. Remaining \in Seq(Frame) /\ Len(Remaining) = n - 1 /\ \A i \in 1 .. n - 1 : Remaining[i] = stack[i]
    <3>1. n - 1 \in 1 - 1 .. n /\ 1 \in 1 .. n + 1 /\ (n - 1) - 1 + 1 = n - 1
      BY <1>1
    <3>2. \A i \in 1 .. n - 1 : 1 + i - 1 = i
      OBVIOUS
    <3> HIDE DEF n
    <3> QED
      BY <1>1, <2>1, <3>1, <3>2, SubSeqProperties DEF n
  <2>3. \A i \in 1 .. n - 1 : i \in 1 .. n /\ i # n
    BY <1>1
  <2> HIDE DEF n
  <2> QED
    BY <1>2, <2>2, <2>3 DEF Open, n
<1>3. CASE PidsAfter(Visited) # {}
  <2> DEFINE top == [Top EXCEPT !.at = Visited]
  <2>1. Remaining = [stack EXCEPT ![n] = top]
    BY <1>3 DEF Remaining, Top
  <2>2. top \in Frame /\ top.of = Top.of /\ top.at = Visited
    BY <1>1 DEF Frame
  <2> HIDE DEF top
  <2>3. /\ Remaining \in Seq(Frame) /\ Len(Remaining) = n
        /\ \A i \in 1 .. n : Remaining[i] = IF i = n THEN top ELSE stack[i]
    BY <1>1, <2>1, <2>2, ExceptSeq
  <2> HIDE DEF n
  <2>4. \A i \in 1 .. n : PidsAfter(Remaining[i].at) # {}
    <3>1. \A i \in 1 .. n : i # n => PidsAfter(stack[i].at) # {}
      BY DEF Open, n
    <3> QED
      BY <1>3, <2>2, <2>3, <3>1
  <2>5. \A i \in 1 .. Len(Remaining) :
          IF i = n THEN Remaining[i].of = Top.of /\ Remaining[i].at = Visited ELSE Remaining[i] = stack[i]
    BY <2>2, <2>3
  <2> QED
    BY <1>3, <2>3, <2>4, <2>5 DEF Open, n
<1> QED
  BY <1>2, <1>3

\* A listing for a child comes after what remains.
LEMMA PushFacts ==
  ASSUME NEW frames, Open(frames), NEW of \in Pids
  PROVE  /\ Open(Append(frames, Listing(of)))
         /\ Len(Append(frames, Listing(of))) = Len(frames) + 1
         /\ Append(frames, Listing(of))[Len(frames) + 1] = Listing(of)
         /\ \A i \in 1 .. Len(frames) : Append(frames, Listing(of))[i] = frames[i]
<1> DEFINE l == Listing(of)
           s == Append(frames, l)
<1>1. l \in Frame /\ PidsAfter(l.at) # {} /\ frames \in Seq(Frame) /\ Len(frames) \in Nat
  BY ListingFacts, LenProperties DEF Open
<1> HIDE DEF l
<1>2. s \in Seq(Frame) /\ Len(s) = Len(frames) + 1 /\ s[Len(frames) + 1] = l /\ \A i \in 1 .. Len(frames) : s[i] = frames[i]
  BY <1>1, AppendProperties
<1> HIDE DEF s
<1>3. \A i \in 1 .. Len(s) : PidsAfter(s[i].at) # {}
  <2>1. \A i \in 1 .. Len(frames) : PidsAfter(frames[i].at) # {}
    BY DEF Open
  <2>2. \A i \in 1 .. Len(s) : i \in 1 .. Len(frames) \/ i = Len(frames) + 1
    BY <1>1, <1>2
  <2> QED
    BY <1>1, <1>2, <2>1, <2>2
<1> QED
  BY <1>2, <1>3 DEF Open, s, l

-----------------------------------------------------------------------------
\* What the kernel's steps do to each process

LEMMA ForkFacts ==
  ASSUME ProcessesTypeOK, NEW p \in Pids, NEW c \in Pids, Fork(p, c)
  PROVE  /\ ProcessesTypeOK' /\ clock' = clock
         /\ p \in Live /\ c \notin Live /\ p # c /\ Live' = Live \union {c}
         /\ procs'[c].live /\ procs'[c].ppid = p /\ procs'[c].life = procs[c].life + 1 /\ procs'[c].cpu = 0
         /\ \A q \in Pids \ {c} : procs'[q] = procs[q]
<1> DEFINE child == [live |-> TRUE, ppid |-> p, comm |-> procs[p].comm, cpu |-> 0, life |-> procs[c].life + 1]
<1>1. /\ procs' = [procs EXCEPT ![c] = child] /\ clock' = clock
      /\ ops < MaxOps /\ ops' = ops + 1
      /\ p \in Live /\ c \notin Live /\ procs[c].life < MaxLives
  BY DEF Fork, Operation
<1>2. /\ procs \in [Pids -> Process] /\ procs[p].comm \in Comms /\ procs[c].life \in Nat
      /\ ops \in Nat /\ MaxOps \in Nat /\ MaxLives \in Nat
  BY DEF ProcessesTypeOK, Process
<1>3. child \in Process
  BY <1>1, <1>2 DEF Process
<1>4. child.live = TRUE /\ child.ppid = p /\ child.life = procs[c].life + 1 /\ child.cpu = 0
  OBVIOUS
<1> HIDE DEF child
<1>5. procs' \in [Pids -> Process] /\ procs'[c] = child /\ \A q \in Pids \ {c} : procs'[q] = procs[q]
  BY <1>1, <1>2, <1>3
<1>6. Live' = Live \union {c}
  BY <1>4, <1>5 DEF Live
<1>7. ProcessesTypeOK'
  BY <1>1, <1>2, <1>5 DEF ProcessesTypeOK
<1> QED
  BY <1>1, <1>4, <1>5, <1>6, <1>7

LEMMA ExecFacts ==
  ASSUME ProcessesTypeOK, NEW p \in Pids, NEW comm \in Comms, Exec(p, comm)
  PROVE  /\ ProcessesTypeOK' /\ clock' = clock /\ p \in Live
         /\ \A q \in Pids : /\ procs'[q].live = procs[q].live /\ procs'[q].ppid = procs[q].ppid
                            /\ procs'[q].life = procs[q].life /\ procs'[q].cpu = procs[q].cpu
         /\ procs'[p].comm = comm /\ \A q \in Pids \ {p} : procs'[q] = procs[q]
<1>1. /\ procs' = [procs EXCEPT ![p] = [procs[p] EXCEPT !.comm = comm]] /\ clock' = clock
      /\ ops < MaxOps /\ ops' = ops + 1 /\ p \in Live
  BY DEF Exec, Operation
<1>2. procs \in [Pids -> Process] /\ ops \in Nat /\ MaxOps \in Nat
  BY DEF ProcessesTypeOK
<1> DEFINE new == [procs[p] EXCEPT !.comm = comm]
<1>3. /\ new \in Process /\ new.live = procs[p].live /\ new.ppid = procs[p].ppid
      /\ new.life = procs[p].life /\ new.cpu = procs[p].cpu /\ new.comm = comm
  BY <1>2 DEF Process
<1> HIDE DEF new
<1>4. procs' \in [Pids -> Process] /\ procs'[p] = new /\ \A q \in Pids \ {p} : procs'[q] = procs[q]
  BY <1>1, <1>2, <1>3 DEF new
<1>5. ProcessesTypeOK'
  BY <1>1, <1>2, <1>4 DEF ProcessesTypeOK
<1> QED
  BY <1>1, <1>3, <1>4, <1>5

LEMMA ExitFacts ==
  ASSUME ProcessesTypeOK, NEW p \in Pids, Exit(p)
  PROVE  /\ ProcessesTypeOK' /\ clock' = clock
         /\ p \in Live /\ Live' = Live \ {p}
         /\ \A q \in Pids : /\ procs'[q].life = procs[q].life /\ procs'[q].cpu = procs[q].cpu
                            /\ procs'[q].comm = procs[q].comm
         /\ \A q \in Live' : procs'[q].ppid = IF procs[q].ppid = p THEN Guardian(p) ELSE procs[q].ppid
<1> DEFINE dead == [procs[p] EXCEPT !.live = FALSE]
           moved(q) == [procs[q] EXCEPT !.ppid = Guardian(p)]
<1>1. /\ procs' = [q \in Pids |-> IF q = p THEN dead ELSE IF q \in Children(p) THEN moved(q) ELSE procs[q]]
      /\ clock' = clock /\ ops < MaxOps /\ ops' = ops + 1 /\ p \in Live
  BY DEF Exit, Operation
<1>2. procs \in [Pids -> Process] /\ ops \in Nat /\ MaxOps \in Nat
  BY DEF ProcessesTypeOK
<1>3. Guardian(p) \in Pids \union {Reaper}
  BY DEF Guardian
<1>4. /\ dead \in Process /\ dead.live = FALSE /\ dead.life = procs[p].life /\ dead.cpu = procs[p].cpu
      /\ dead.comm = procs[p].comm
  BY <1>2 DEF Process
<1>5. ASSUME NEW q \in Pids
      PROVE  /\ moved(q) \in Process /\ moved(q).live = procs[q].live /\ moved(q).ppid = Guardian(p)
             /\ moved(q).life = procs[q].life /\ moved(q).cpu = procs[q].cpu /\ moved(q).comm = procs[q].comm
  <2>1. procs[q] \in Process
    BY <1>2
  <2> QED
    BY <1>3, <2>1 DEF Process
<1> HIDE DEF dead, moved
<1>6. procs' \in [Pids -> Process]
  BY <1>1, <1>2, <1>4, <1>5
<1>7. \A q \in Pids : procs'[q].life = procs[q].life /\ procs'[q].cpu = procs[q].cpu /\ procs'[q].comm = procs[q].comm
  BY <1>1, <1>4, <1>5
<1>8. \A q \in Pids : procs'[q].live = (q # p /\ procs[q].live)
  <2>1. \A q \in Pids : procs[q].live \in BOOLEAN
    BY <1>2 DEF Process
  <2>2. ASSUME NEW q \in Pids
        PROVE  procs'[q].live = (q # p /\ procs[q].live)
    <3>1. CASE q = p
      BY <1>1, <1>4, <3>1
    <3>2. CASE q # p
      <4>1. procs'[q].live = procs[q].live
        BY <1>1, <1>5, <3>2
      <4> QED
        BY <2>1, <3>2, <4>1
    <3> QED
      BY <3>1, <3>2
  <2> QED
    BY <2>2
<1>9. Live' = Live \ {p}
  BY <1>8 DEF Live
<1>10. ASSUME NEW q \in Live'
       PROVE  procs'[q].ppid = IF procs[q].ppid = p THEN Guardian(p) ELSE procs[q].ppid
  <2>1. q \in Live /\ q # p /\ q \in Pids /\ (q \in Children(p) <=> procs[q].ppid = p)
    BY <1>9 DEF Live, Children
  <2> QED
    BY <1>1, <1>5, <2>1
<1>11. ProcessesTypeOK'
  BY <1>1, <1>2, <1>6 DEF ProcessesTypeOK
<1> QED
  BY <1>1, <1>7, <1>9, <1>10, <1>11

LEMMA ElapseFacts ==
  ASSUME ProcessesTypeOK, \A p \in Pids : procs[p].cpu <= clock, NEW busy \in SUBSET Live, Elapse(busy)
  PROVE  /\ ProcessesTypeOK' /\ clock' = clock + 1
         /\ \A q \in Pids : /\ procs'[q].live = procs[q].live /\ procs'[q].ppid = procs[q].ppid
                            /\ procs'[q].life = procs[q].life /\ procs'[q].cpu <= clock'
                            /\ procs'[q].comm = procs[q].comm
<1> DEFINE ran(q) == [procs[q] EXCEPT !.cpu = procs[q].cpu + 1]
<1>1. /\ procs' = [q \in Pids |-> IF q \in busy THEN ran(q) ELSE procs[q]]
      /\ clock < MaxClock /\ clock' = clock + 1 /\ ops' = ops
  BY DEF Elapse
<1>2. procs \in [Pids -> Process] /\ clock \in 1 .. MaxClock /\ ops \in 0 .. MaxOps /\ MaxClock \in Nat
  BY DEF ProcessesTypeOK
<1>3. ASSUME NEW q \in Pids
      PROVE  /\ procs'[q] \in Process
             /\ procs'[q].live = procs[q].live /\ procs'[q].ppid = procs[q].ppid
             /\ procs'[q].life = procs[q].life /\ procs'[q].cpu <= clock' /\ procs'[q].comm = procs[q].comm
  <2>1. procs[q] \in Process /\ procs[q].cpu \in Nat /\ procs[q].cpu <= clock
    BY <1>2 DEF Process
  <2>2. procs[q].cpu + 1 \in 0 .. MaxClock
    BY <1>1, <1>2, <2>1
  <2>3. /\ ran(q) \in Process /\ ran(q).live = procs[q].live /\ ran(q).ppid = procs[q].ppid
        /\ ran(q).life = procs[q].life /\ ran(q).cpu = procs[q].cpu + 1 /\ ran(q).comm = procs[q].comm
    BY <2>1, <2>2 DEF Process
  <2> HIDE DEF ran
  <2> QED
    BY <1>1, <1>2, <2>1, <2>3
<1>4. procs' \in [Pids -> Process]
  BY <1>1, <1>3
<1>5. ProcessesTypeOK'
  BY <1>1, <1>2, <1>4 DEF ProcessesTypeOK
<1> QED
  BY <1>1, <1>3, <1>5

-----------------------------------------------------------------------------
\* Types

\* How far a walk is, and which processes it can know.
Shape ==
  /\ Open(stack)
  /\ doing \in {"targets", "walk"} => stack # <<>>
  /\ doing = "walk" =>
       /\ config.include_children
       /\ sampled = 0 /\ all_pids # <<>>
       /\ \A i \in 1 .. Len(stack) : stack[i].of \in ToSet(all_pids)
  /\ doing = "sample" => sampled < Len(all_pids)

\* A pid that was found somewhere is that of a process that was there.
Lived ==
  /\ \A p \in Live : procs[p].life > 0
  /\ \A i \in 1 .. Len(target_pids) : procs[target_pids[i]].life > 0
  /\ \A i \in 1 .. Len(all_pids) : procs[all_pids[i]].life > 0

Timely ==
  /\ timestamp <= clock
  /\ \A p \in Pids : procs[p].cpu <= clock /\ previous_stats[p].timestamp <= clock

Sane == TypeOK /\ Shape /\ Lived /\ Timely

LEMMA MinusTyped ==
  ASSUME NEW a \in 0 .. Word - 1, NEW b \in 0 .. Word - 1
  PROVE  Minus(a, b) \in 0 .. Word - 1
<1>1. a + Word - b \in Nat /\ Word \in Nat \ {0}
  BY DEF MonitorTypeOK
<1> DEFINE x == a + Word - b
<1> HIDE DEF x
<1>2. \A y \in Nat : y % Word \in 0 .. Word - 1
  BY <1>1
<1> QED
  BY <1>1, <1>2 DEF Minus, x

LEMMA ShareTyped ==
  ASSUME TypeOK, Timely, NEW p \in Pids, NEW cpu \in CpuRead(p)
  PROVE  Share(p, cpu) \in ShareOf /\ Current(p, cpu) \in Stats
<1> DEFINE prev == previous_stats[p]
           time == Minus(timestamp, prev.timestamp)
           used == IF time > 0 THEN Minus(cpu, prev.cpu) ELSE 0
           alike == prev.life = procs[p].life /\ prev.exact /\ FieldsInPlace(p)
<1>1. /\ prev.cpu \in 0 .. Word - 1 /\ prev.timestamp \in 0 .. MaxClock /\ prev.exact \in BOOLEAN
      /\ procs[p].cpu \in 0 .. MaxClock /\ procs[p].life \in 0 .. MaxLives
      /\ clock \in 1 .. MaxClock /\ timestamp \in 0 .. MaxClock /\ timestamp <= clock /\ Word \in Nat \ {0}
      /\ MaxClock \in Nat /\ MaxClock < Word /\ prev.timestamp <= clock
  <2>1. prev \in Stats /\ procs[p] \in Process
    BY DEF TypeOK, ProcessesTypeOK, MonitorTypeOK
  <2>2. clock \in 1 .. MaxClock /\ timestamp \in 0 .. MaxClock /\ timestamp <= clock /\ prev.timestamp <= clock
    BY DEF TypeOK, ProcessesTypeOK, MonitorTypeOK, Timely
  <2> HIDE DEF prev
  <2> QED
    BY <2>1, <2>2 DEF Process, Stats
<1>2. cpu \in 0 .. Word - 1 /\ FieldsInPlace(p) \in BOOLEAN
  <2>1. procs[p].cpu \in 0 .. Word - 1 /\ Misread \subseteq 0 .. Word - 1
    BY <1>1
  <2>2. CpuRead(p) = IF FieldsInPlace(p) THEN {procs[p].cpu} ELSE Misread
    BY DEF CpuRead
  <2>3. FieldsInPlace(p) \in BOOLEAN
    BY DEF FieldsInPlace
  <2> QED
    BY <2>1, <2>2, <2>3
<1>3. time \in 0 .. Word - 1 /\ used \in 0 .. Word - 1
  <2>1. timestamp \in 0 .. Word - 1 /\ prev.timestamp \in 0 .. Word - 1 /\ 0 \in 0 .. Word - 1
    BY <1>1
  <2> QED
    BY <1>1, <1>2, <2>1, MinusTyped
<1>4. clock - timestamp \in 0 .. MaxClock /\ clock \in 0 .. MaxClock
  BY <1>1
<1>5. Current(p, cpu) \in Stats
  <2> DEFINE place == FieldsInPlace(p)
  <2>1. Current(p, cpu) = [seen |-> TRUE, cpu |-> cpu, timestamp |-> clock, life |-> procs[p].life, exact |-> place]
    BY DEF Current
  <2>2. place \in BOOLEAN
    BY <1>2
  <2> HIDE DEF place
  <2> QED
    BY <1>1, <1>2, <1>4, <2>1, <2>2 DEF Stats
<1>6. CASE ~prev.seen
  <2>1. Share(p, cpu) = NoShare
    BY <1>6 DEF Share
  <2> QED
    BY <1>1, <1>5, <2>1 DEF NoShare, ShareOf
<1>7. CASE prev.seen
  <2>1. Share(p, cpu) = [cpu |-> used, time |-> time, old |-> TRUE, late |-> clock - timestamp,
                         elapsed |-> clock - prev.timestamp, alike |-> alike]
    BY <1>7 DEF Share
  <2>2. alike \in BOOLEAN
    OBVIOUS
  <2>3. clock - prev.timestamp \in 0 .. MaxClock
    BY <1>1, <1>7
  <2> HIDE DEF used, time, alike, prev
  <2> QED
    BY <1>3, <1>4, <1>5, <2>1, <2>2, <2>3 DEF ShareOf
<1> QED
  BY <1>6, <1>7

LEMMA FamilyLive ==
  \A root : Family(root) \subseteq Pids /\ Findable(root) \subseteq Pids
BY DEF Family, Findable, FamilyAmong, Live

LEMMA SaneInit == Init => Sane
<1> SUFFICES ASSUME Init PROVE Sane
  OBVIOUS
<1> USE DEF Init, ProcessesInit, MonitorInit, TreeInit
<1>1. procs \in [Pids -> Process] /\ Forest(procs) /\ \A p \in Pids : procs[p].cpu <= 1
  BY ExistingAssumption
<1>2. ProcessesTypeOK
  BY <1>1 DEF ProcessesTypeOK
<1>3. MonitorTypeOK
  <2>1. NoStats \in Stats /\ NoShare \in ShareOf
    BY DEF NoStats, Stats, NoShare, ShareOf
  <2> QED
    BY <2>1 DEF MonitorTypeOK
<1>4. TreeTypeOK
  BY DEF TreeTypeOK, Node
<1>5. Shape
  BY DEF Shape, Open
<1>6. Lived
  <2>1. \A p \in Live : procs[p].life > 0
    BY <1>1 DEF Live, Forest
  <2> QED
    BY <2>1 DEF Lived
<1>7. Timely
  <2>1. \A p \in Pids : previous_stats[p].timestamp = 0
    BY DEF NoStats
  <2> QED
    BY <1>1, <2>1 DEF Timely
<1> QED
  BY <1>2, <1>3, <1>4, <1>5, <1>6, <1>7 DEF Sane, TypeOK

\* A step of the kernel, to which the monitor only adds history.
LEMMA SaneKernel ==
  ASSUME Sane, ProcessesTypeOK', clock' \in {clock, clock + 1},
         \A p \in Pids : procs'[p].cpu <= clock' /\ procs[p].life <= procs'[p].life,
         \A p \in Live' : procs'[p].life > 0,
         UNCHANGED <<command, config, scanVars>>,
         stable' \subseteq Pids, born' \subseteq Pids, adopted' \subseteq Pids, TreeTypeOK'
  PROVE  Sane'
<1>1. MonitorTypeOK'
  BY DEF Sane, TypeOK, MonitorTypeOK, scanVars
<1>2. TypeOK'
  BY <1>1 DEF Sane, TypeOK
<1>3. Shape'
  BY DEF Sane, Shape, Open, scanVars
<1>4. Lived'
  <2>1. target_pids' = target_pids /\ all_pids' = all_pids
    BY DEF scanVars
  <2>2. \A p \in Pids : procs[p].life > 0 => procs'[p].life > 0
    <3>1. \A p \in Pids : procs[p].life \in Nat /\ procs'[p].life \in Nat
      BY DEF Sane, TypeOK, ProcessesTypeOK, Process
    <3> QED
      BY <3>1
  <2>3. /\ \A i \in 1 .. Len(target_pids) : target_pids[i] \in Pids
        /\ \A i \in 1 .. Len(all_pids) : all_pids[i] \in Pids
    BY ElementOfSeq DEF Sane, TypeOK, MonitorTypeOK
  <2> QED
    BY <2>1, <2>2, <2>3 DEF Sane, Lived
<1>5. Timely'
  <2>1. clock \in Nat /\ timestamp \in Nat /\ timestamp' = timestamp /\ previous_stats' = previous_stats
    BY DEF Sane, TypeOK, ProcessesTypeOK, MonitorTypeOK, scanVars
  <2>2. \A p \in Pids : previous_stats[p].timestamp \in Nat
    BY DEF Sane, TypeOK, MonitorTypeOK, Stats
  <2>3. clock <= clock'
    BY <2>1
  <2>4. \A p \in Pids : previous_stats'[p].timestamp <= clock'
    BY <2>1, <2>2, <2>3 DEF Sane, Timely
  <2>5. timestamp' <= clock'
    BY <2>1, <2>3 DEF Sane, Timely
  <2> QED
    BY <2>4, <2>5 DEF Timely
<1> QED
  BY <1>2, <1>3, <1>4, <1>5 DEF Sane

\* A step of the monitor.
LEMMA SaneMonitor ==
  ASSUME Sane, UNCHANGED <<command, kernelVars, treeVars>>, MonitorTypeOK', Shape', timestamp' <= clock,
         \A i \in 1 .. Len(target_pids') : procs[target_pids'[i]].life > 0,
         \A i \in 1 .. Len(all_pids') : procs[all_pids'[i]].life > 0,
         \A q \in Pids : previous_stats'[q].timestamp <= clock
  PROVE  Sane'
<1>1. TypeOK'
  BY DEF Sane, TypeOK, ProcessesTypeOK, TreeTypeOK, kernelVars, treeVars
<1>2. Live' = Live
  BY DEF Live, kernelVars
<1>3. Lived' /\ Timely'
  BY <1>2 DEF Sane, Lived, Timely, kernelVars
<1> QED
  BY <1>1, <1>3 DEF Sane

LEMMA SaneTick == ASSUME Sane, Tick, UNCHANGED <<command, kernelVars, treeVars>> PROVE Sane'
<1>1. /\ doing = "wait" /\ timestamp' = clock
      /\ target_pids' = IF config.pid \in Live THEN <<config.pid>> ELSE <<>>
      /\ IF config.pid # NoPid THEN UNCHANGED <<doing, stack>> ELSE doing' = "targets" /\ stack' = <<Listing(NoPid)>>
      /\ UNCHANGED <<config, all_pids, sampled, share, previous_stats, stable, born, adopted>>
  BY DEF Tick, historyVars
<1>2. /\ MonitorTypeOK /\ Shape /\ Lived /\ clock \in 1 .. MaxClock
  BY DEF Sane, TypeOK, ProcessesTypeOK
<1>3. target_pids' \in Seq(Pids) /\ \A i \in 1 .. Len(target_pids') : procs[target_pids'[i]].life > 0
  <2>1. CASE config.pid \in Live
    <3>1. config.pid \in Pids /\ procs[config.pid].life > 0 /\ target_pids' = <<config.pid>>
      BY <1>1, <1>2, <2>1 DEF Live, Lived
    <3> QED
      BY <3>1
  <2>2. CASE config.pid \notin Live
    BY <1>1, <2>2
  <2> QED
    BY <2>1, <2>2
<1>4. Open(stack') /\ (doing' \in {"targets", "walk"} => stack' # <<>>) /\ doing' \in {"wait", "targets"}
  <2>1. Open(stack)
    BY <1>2 DEF Shape
  <2>2. CASE config.pid # NoPid
    BY <1>1, <2>1, <2>2
  <2>3. CASE config.pid = NoPid
    <3> DEFINE l == Listing(NoPid)
    <3>1. l \in Frame /\ PidsAfter(l.at) # {}
      BY ListingFacts
    <3>2. stack' = <<l>> /\ doing' = "targets"
      BY <1>1, <2>3
    <3> HIDE DEF l
    <3> QED
      BY <3>1, <3>2 DEF Open
  <2> QED
    BY <2>2, <2>3
<1>5. Shape'
  BY <1>4 DEF Shape, Open
<1>6. MonitorTypeOK'
  BY <1>1, <1>2, <1>3, <1>4 DEF MonitorTypeOK, Open
<1>7. \A i \in 1 .. Len(all_pids') : procs[all_pids'[i]].life > 0
  BY <1>1, <1>2 DEF Lived
<1>8. timestamp' <= clock /\ \A q \in Pids : previous_stats'[q].timestamp <= clock
  BY <1>1, <1>2 DEF Sane, Timely
<1> QED
  BY <1>3, <1>5, <1>6, <1>7, <1>8, SaneMonitor

LEMMA SaneFindTarget == ASSUME Sane, FindTarget, UNCHANGED <<command, kernelVars, treeVars>> PROVE Sane'
<1>1. /\ doing = "targets" /\ stack' = Remaining
      /\ doing' = IF stack' = <<>> THEN "wait" ELSE doing
      /\ target_pids' = IF Visited \in Live /\ procs[Visited].comm \in Matching THEN Append(target_pids, Visited) ELSE target_pids
      /\ UNCHANGED <<config, timestamp, all_pids, sampled, share, previous_stats, stable, born, adopted>>
  BY DEF FindTarget, historyVars
<1>2. MonitorTypeOK /\ Shape /\ Lived /\ Timely
  BY DEF Sane, TypeOK
<1>3. Open(stack')
  BY <1>1, <1>2, RemainingFacts DEF Shape
<1>4. Visited \in Pids
  BY <1>1, <1>2, VisitedFacts DEF Shape
<1>5. target_pids' \in Seq(Pids) /\ \A i \in 1 .. Len(target_pids') : procs[target_pids'[i]].life > 0
  <2>1. target_pids \in Seq(Pids) /\ \A i \in 1 .. Len(target_pids) : procs[target_pids[i]].life > 0
    BY <1>2 DEF MonitorTypeOK, Lived
  <2>2. CASE target_pids' = target_pids
    BY <2>1, <2>2
  <2>3. CASE Visited \in Live /\ target_pids' = Append(target_pids, Visited)
    <3>1. procs[Visited].life > 0
      BY <1>2, <2>3 DEF Lived
    <3> QED
      BY <1>4, <2>1, <2>3, <3>1, AppendProperties, LenProperties
  <2> QED
    BY <1>1, <2>2, <2>3
<1>6. doing' \in {"wait", "targets"} /\ (doing' = "targets" => stack' # <<>>)
  BY <1>1
<1>7. Shape'
  BY <1>3, <1>6 DEF Shape, Open
<1>8. MonitorTypeOK'
  BY <1>1, <1>2, <1>3, <1>5, <1>6 DEF MonitorTypeOK, Open
<1>9. /\ timestamp' <= clock /\ \A i \in 1 .. Len(all_pids') : procs[all_pids'[i]].life > 0
      /\ \A q \in Pids : previous_stats'[q].timestamp <= clock
  BY <1>1, <1>2 DEF Lived, Timely
<1> QED
  BY <1>5, <1>7, <1>8, <1>9, SaneMonitor

LEMMA SaneStartTarget == ASSUME Sane, StartTarget, UNCHANGED <<command, kernelVars, treeVars>> PROVE Sane'
<1> DEFINE main == Head(target_pids)
<1>1. /\ doing = "wait" /\ target_pids # <<>>
      /\ target_pids' = Tail(target_pids) /\ all_pids' = <<main>>
      /\ IF config.include_children THEN doing' = "walk" /\ stack' = <<Listing(main)>>
         ELSE doing' = "sample" /\ UNCHANGED stack
      /\ stable' = Findable(main) /\ born' = Family(main) /\ adopted' = {}
      /\ sampled' = 0 /\ share' = NoShare
      /\ UNCHANGED <<config, timestamp, previous_stats>>
  BY DEF StartTarget
<1>2. MonitorTypeOK /\ Shape /\ Lived /\ Timely
  BY DEF Sane, TypeOK
<1>3. /\ main \in Pids /\ procs[main].life > 0 /\ Tail(target_pids) \in Seq(Pids)
      /\ \A i \in 1 .. Len(Tail(target_pids)) : procs[Tail(target_pids)[i]].life > 0
  <2>1. target_pids \in Seq(Pids) /\ \A i \in 1 .. Len(target_pids) : procs[target_pids[i]].life > 0
    BY <1>2 DEF MonitorTypeOK, Lived
  <2>2. Len(target_pids) \in Nat \ {0} /\ main = target_pids[1]
    BY <1>1, <2>1, EmptySeq, LenProperties
  <2>3. /\ Tail(target_pids) \in Seq(Pids) /\ Len(Tail(target_pids)) = Len(target_pids) - 1
        /\ \A i \in 1 .. Len(Tail(target_pids)) : Tail(target_pids)[i] = target_pids[i + 1]
    BY <1>1, <2>1, HeadTailProperties
  <2>4. \A i \in 1 .. Len(Tail(target_pids)) : i + 1 \in 1 .. Len(target_pids)
    BY <2>2, <2>3
  <2> HIDE DEF main
  <2> QED
    BY <2>1, <2>2, <2>3, <2>4, ElementOfSeq
<1> HIDE DEF main
<1>4. all_pids' \in Seq(Pids) /\ Len(all_pids') = 1 /\ all_pids'[1] = main /\ all_pids' # <<>> /\ main \in ToSet(all_pids')
  BY <1>1, <1>3 DEF ToSet
<1>5. Shape'
  <2>1. CASE config.include_children
    <3> DEFINE l == Listing(main)
    <3>1. l \in Frame /\ l.of = main /\ PidsAfter(l.at) # {}
      BY <1>3, ListingFacts
    <3>2. doing' = "walk" /\ stack' = <<l>>
      BY <1>1, <2>1
    <3> HIDE DEF l
    <3>3. Open(stack') /\ stack' # <<>> /\ \A i \in 1 .. Len(stack') : stack'[i].of = main
      BY <3>1, <3>2 DEF Open
    <3> QED
      BY <1>1, <1>4, <2>1, <3>2, <3>3 DEF Shape, Open
  <2>2. CASE ~config.include_children
    BY <1>1, <1>2, <1>4, <2>2 DEF Shape, Open
  <2> QED
    BY <2>1, <2>2
<1>6. MonitorTypeOK'
  <2>1. stack' \in Seq(Frame) /\ doing' \in {"wait", "targets", "walk", "sample"}
    BY <1>1, <1>5 DEF Shape, Open
  <2>2. share' \in ShareOf
    BY <1>1 DEF NoShare, ShareOf
  <2>3. stable' \subseteq Pids /\ born' \subseteq Pids /\ adopted' \subseteq Pids
    BY <1>1, FamilyLive
  <2>4. target_pids' \in Seq(Pids) /\ sampled' \in 0 .. Len(all_pids')
    BY <1>1, <1>3, <1>4
  <2> QED
    BY <1>1, <1>2, <1>4, <2>1, <2>2, <2>3, <2>4 DEF MonitorTypeOK
<1>7. timestamp' <= clock /\ \A q \in Pids : previous_stats'[q].timestamp <= clock
  BY <1>1, <1>2 DEF Timely
<1>8. \A i \in 1 .. Len(all_pids') : procs[all_pids'[i]].life > 0
  BY <1>3, <1>4
<1>9. \A i \in 1 .. Len(target_pids') : procs[target_pids'[i]].life > 0
  BY <1>1, <1>3
<1> QED
  BY <1>5, <1>6, <1>7, <1>8, <1>9, SaneMonitor

-----------------------------------------------------------------------------
\* What a walk does with the pid that it looks at

Main == all_pids[1]

Counted == ToSet(all_pids)

\* The pid is that of a child.
Found == Visited \in Live /\ FieldsInPlace(Visited) /\ procs[Visited].ppid = Top.of

LEMMA AppendToSet ==
  ASSUME NEW S, NEW s \in Seq(S), NEW x \in S
  PROVE  /\ Append(s, x) \in Seq(S) /\ Len(Append(s, x)) = Len(s) + 1
         /\ Append(s, x)[Len(s) + 1] = x /\ \A i \in 1 .. Len(s) : Append(s, x)[i] = s[i]
         /\ ToSet(Append(s, x)) = ToSet(s) \union {x}
<1> DEFINE t == Append(s, x)
           n == Len(s)
<1>1. /\ t \in Seq(S) /\ Len(t) = n + 1 /\ t[n + 1] = x /\ \A i \in 1 .. n : t[i] = s[i]
      /\ n \in Nat /\ DOMAIN s = 1 .. n /\ DOMAIN t = 1 .. n + 1
  BY AppendProperties, LenProperties
<1> HIDE DEF t, n
<1>2. ToSet(t) = ToSet(s) \union {x}
  <2>1. \A i : i \in 1 .. n + 1 <=> i \in 1 .. n \/ i = n + 1
    BY <1>1
  <2> QED
    BY <1>1, <2>1 DEF ToSet
<1> QED
  BY <1>1, <1>2 DEF t, n

LEMMA WalkFacts ==
  ASSUME TypeOK, Shape, FindChild
  PROVE  /\ doing = "walk" /\ doing' \in {"walk", "sample"} /\ (doing' = "sample" <=> stack' = <<>>)
         /\ Top \in Frame /\ Top.of \in Counted
         /\ Visited \in Pids /\ Top.at < Visited /\ \A q \in Pids : Top.at < q => Visited <= q
         /\ Open(stack') /\ all_pids' \in Seq(Pids) /\ all_pids' # <<>> /\ all_pids'[1] = Main
         /\ Found => all_pids' = Append(all_pids, Visited) /\ Counted' = Counted \union {Visited}
                     /\ stack' = Append(Remaining, Listing(Visited))
         /\ ~Found => all_pids' = all_pids /\ Counted' = Counted /\ stack' = Remaining
         /\ \A i \in 1 .. Len(stack') : stack'[i].of \in Counted'
         /\ Main \in Counted /\ Main \in Pids /\ Counted \subseteq Pids
<1>1. /\ doing = "walk" /\ doing' = IF stack' = <<>> THEN "sample" ELSE doing
      /\ Found => all_pids' = Append(all_pids, Visited) /\ stack' = Append(Remaining, Listing(Visited))
      /\ ~Found => all_pids' = all_pids /\ stack' = Remaining
  BY DEF FindChild, Found
<1>2. /\ Open(stack) /\ stack # <<>> /\ all_pids \in Seq(Pids) /\ all_pids # <<>>
      /\ \A i \in 1 .. Len(stack) : stack[i].of \in Counted
  BY <1>1 DEF TypeOK, MonitorTypeOK, Shape, Counted
<1>3. /\ Len(stack) \in 1 .. Len(stack) /\ Top \in Frame /\ Top = stack[Len(stack)]
      /\ Visited \in Pids /\ Top.at < Visited /\ \A q \in Pids : Top.at < q => Visited <= q
  BY <1>2, VisitedFacts DEF Top
<1>4. Top.of \in Counted
  BY <1>2, <1>3
<1>5. /\ Open(Remaining)
      /\ \A i \in 1 .. Len(Remaining) : Remaining[i].of \in Counted
  <2>1. /\ Open(Remaining)
        /\ \A i \in 1 .. Len(Remaining) :
             IF i = Len(stack) THEN Remaining[i].of = Top.of /\ Remaining[i].at = Visited ELSE Remaining[i] = stack[i]
        /\ Len(Remaining) = IF PidsAfter(Visited) = {} THEN Len(stack) - 1 ELSE Len(stack)
    BY <1>2, RemainingFacts
  <2>2. \A i \in 1 .. Len(Remaining) : i \in 1 .. Len(stack)
    BY <1>3, <2>1
  <2> QED
    BY <1>2, <1>4, <2>1, <2>2
<1>6. 1 \in 1 .. Len(all_pids) /\ Main \in Counted /\ Main \in Pids /\ Counted \subseteq Pids
  <2>1. Len(all_pids) \in Nat \ {0} /\ DOMAIN all_pids = 1 .. Len(all_pids) /\ \A i \in 1 .. Len(all_pids) : all_pids[i] \in Pids
    BY <1>2, EmptySeq, LenProperties, ElementOfSeq
  <2> QED
    BY <2>1 DEF Main, Counted, ToSet
<1>7. CASE Found
  <2>1. /\ all_pids' \in Seq(Pids) /\ all_pids'[1] = Main /\ all_pids' # <<>>
        /\ Counted' = Counted \union {Visited}
    <3>1. all_pids' = Append(all_pids, Visited)
      BY <1>1, <1>7
    <3>2. Append(all_pids, Visited) # <<>>
      BY <1>2, <1>3
    <3>3. ToSet(all_pids') = ToSet(all_pids) \union {Visited} /\ all_pids' \in Seq(Pids) /\ all_pids'[1] = all_pids[1]
      BY <1>2, <1>3, <1>6, <3>1, AppendToSet
    <3> QED
      BY <3>1, <3>2, <3>3 DEF Counted, Main
  <2>2. /\ Open(stack') /\ Len(stack') = Len(Remaining) + 1
        /\ stack'[Len(Remaining) + 1] = Listing(Visited) /\ \A i \in 1 .. Len(Remaining) : stack'[i] = Remaining[i]
    <3>1. stack' = Append(Remaining, Listing(Visited))
      BY <1>1, <1>7
    <3> HIDE DEF Remaining, Visited
    <3> QED
      BY <1>3, <1>5, <3>1, PushFacts
  <2>3. stack' # <<>>
    <3>1. Len(Remaining) \in Nat /\ Len(<<>>) = 0
      BY <1>5, LenProperties DEF Open
    <3> QED
      BY <2>2, <3>1
  <2>4. \A i \in 1 .. Len(stack') : stack'[i].of \in Counted'
    <3>1. Len(Remaining) \in Nat /\ Listing(Visited).of = Visited
      BY <1>3, <1>5, ListingFacts, LenProperties DEF Open
    <3>2. \A i \in 1 .. Len(Remaining) + 1 : i \in 1 .. Len(Remaining) \/ i = Len(Remaining) + 1
      BY <3>1
    <3> QED
      BY <1>5, <2>1, <2>2, <3>1, <3>2
  <2> QED
    BY <1>1, <1>3, <1>4, <1>6, <1>7, <2>1, <2>2, <2>3, <2>4
<1>8. CASE ~Found
  <2>1. all_pids' = all_pids /\ Counted' = Counted /\ stack' = Remaining
    BY <1>1, <1>8 DEF Counted
  <2> QED
    BY <1>1, <1>2, <1>3, <1>4, <1>5, <1>6, <1>8, <2>1 DEF Main
<1> QED
  BY <1>7, <1>8

LEMMA SaneFindChild == ASSUME Sane, FindChild, UNCHANGED <<command, kernelVars, treeVars>> PROVE Sane'
<1>1. MonitorTypeOK /\ TypeOK /\ Shape /\ Lived /\ Timely
  BY DEF Sane, TypeOK
<1>2. UNCHANGED <<config, timestamp, target_pids, sampled, share, previous_stats, stable, born, adopted>>
  BY DEF FindChild, historyVars
<1>3. /\ doing = "walk" /\ doing' \in {"walk", "sample"} /\ (doing' = "sample" <=> stack' = <<>>)
      /\ Open(stack') /\ all_pids' \in Seq(Pids) /\ all_pids' # <<>>
      /\ \A i \in 1 .. Len(stack') : stack'[i].of \in Counted'
      /\ Visited \in Pids
      /\ all_pids' = all_pids \/ (Visited \in Live /\ all_pids' = Append(all_pids, Visited))
  BY <1>1, WalkFacts DEF Found
<1>4. config.include_children /\ sampled = 0 /\ all_pids \in Seq(Pids)
  BY <1>1, <1>3 DEF Shape, MonitorTypeOK
<1>5. Len(all_pids') \in Nat \ {0}
  BY <1>3, EmptySeq, LenProperties
<1>6. \A i \in 1 .. Len(all_pids') : procs[all_pids'[i]].life > 0
  <2>1. \A i \in 1 .. Len(all_pids) : procs[all_pids[i]].life > 0
    BY <1>1 DEF Lived
  <2>2. CASE all_pids' = all_pids
    BY <2>1, <2>2
  <2>3. CASE Visited \in Live /\ all_pids' = Append(all_pids, Visited)
    <3>1. procs[Visited].life > 0
      BY <1>1, <2>3 DEF Lived
    <3>2. /\ Len(all_pids') = Len(all_pids) + 1 /\ all_pids'[Len(all_pids) + 1] = Visited
          /\ \A i \in 1 .. Len(all_pids) : all_pids'[i] = all_pids[i]
      BY <1>3, <1>4, <2>3, AppendToSet
    <3>3. \A i \in 1 .. Len(all_pids') : i \in 1 .. Len(all_pids) \/ i = Len(all_pids) + 1
      BY <1>4, <3>2, LenProperties
    <3> QED
      BY <2>1, <3>1, <3>2, <3>3
  <2> QED
    BY <1>3, <2>2, <2>3
<1>7. Shape'
  <2>1. \A i \in 1 .. Len(stack') : stack'[i].of \in ToSet(all_pids')
    BY <1>3 DEF Counted
  <2> QED
    BY <1>2, <1>3, <1>4, <1>5, <2>1 DEF Shape, Open
<1>8. MonitorTypeOK'
  <2>1. stack' \in Seq(Frame) /\ sampled' \in 0 .. Len(all_pids')
    BY <1>2, <1>3, <1>4, <1>5 DEF Open
  <2> QED
    BY <1>1, <1>2, <1>3, <2>1 DEF MonitorTypeOK
<1>9. /\ timestamp' <= clock /\ \A i \in 1 .. Len(target_pids') : procs[target_pids'[i]].life > 0
      /\ \A q \in Pids : previous_stats'[q].timestamp <= clock
  BY <1>1, <1>2 DEF Lived, Timely
<1> QED
  BY <1>6, <1>7, <1>8, <1>9, SaneMonitor

LEMMA SaneTakeSample == ASSUME Sane, TakeSample, UNCHANGED <<command, kernelVars, treeVars>> PROVE Sane'
<1> DEFINE p == all_pids[sampled + 1]
<1>1. MonitorTypeOK /\ TypeOK /\ Shape /\ Lived /\ Timely
  BY DEF Sane, TypeOK
<1>2. /\ doing = "sample" /\ sampled' = sampled + 1
      /\ doing' = IF sampled' = Len(all_pids) THEN "wait" ELSE doing
      /\ \/ \E cpu \in CpuRead(p) :
              share' = Share(p, cpu) /\ previous_stats' = [previous_stats EXCEPT ![p] = Current(p, cpu)]
         \/ UNCHANGED <<share, previous_stats>>
      /\ UNCHANGED <<config, timestamp, target_pids, all_pids, stack, stable, born, adopted>>
  BY DEF TakeSample, historyVars
<1>3. all_pids \in Seq(Pids) /\ Len(all_pids) \in Nat /\ sampled \in Nat /\ sampled < Len(all_pids)
  BY <1>1, <1>2, LenProperties DEF MonitorTypeOK, Shape
<1>4. p \in Pids
  <2>1. sampled + 1 \in 1 .. Len(all_pids)
    BY <1>3
  <2> QED
    BY <1>3, <2>1, ElementOfSeq
<1> HIDE DEF p
<1>5. /\ share' \in ShareOf /\ previous_stats' \in [Pids -> Stats]
      /\ \A q \in Pids : previous_stats'[q].timestamp <= clock
  <2>1. share \in ShareOf /\ previous_stats \in [Pids -> Stats] /\ \A q \in Pids : previous_stats[q].timestamp <= clock
    BY <1>1 DEF MonitorTypeOK, Timely
  <2>2. ASSUME NEW cpu \in CpuRead(p),
               share' = Share(p, cpu), previous_stats' = [previous_stats EXCEPT ![p] = Current(p, cpu)]
        PROVE  /\ share' \in ShareOf /\ previous_stats' \in [Pids -> Stats]
               /\ \A q \in Pids : previous_stats'[q].timestamp <= clock
    <3>1. Share(p, cpu) \in ShareOf /\ Current(p, cpu) \in Stats
      BY <1>1, <1>4, ShareTyped
    <3>2. Current(p, cpu).timestamp <= clock
      BY <1>1 DEF Current, TypeOK, ProcessesTypeOK
    <3>3. share' \in ShareOf /\ previous_stats' \in [Pids -> Stats]
      BY <1>4, <2>1, <2>2, <3>1
    <3>4. \A q \in Pids : previous_stats'[q].timestamp <= clock
      BY <1>4, <2>1, <2>2, <3>2
    <3> QED
      BY <3>3, <3>4
  <2>3. CASE UNCHANGED <<share, previous_stats>>
    BY <2>1, <2>3
  <2> QED
    BY <1>2, <2>2, <2>3
<1>6. doing' \in {"wait", "sample"} /\ (doing' = "sample" => sampled' < Len(all_pids)) /\ sampled' \in 0 .. Len(all_pids)
  BY <1>2, <1>3
<1>7. Shape'
  BY <1>1, <1>2, <1>6 DEF Shape, Open
<1>8. MonitorTypeOK'
  BY <1>1, <1>2, <1>5, <1>6 DEF MonitorTypeOK
<1>9. /\ timestamp' <= clock
      /\ \A i \in 1 .. Len(target_pids') : procs[target_pids'[i]].life > 0
      /\ \A i \in 1 .. Len(all_pids') : procs[all_pids'[i]].life > 0
  BY <1>1, <1>2 DEF Lived, Timely
<1> QED
  BY <1>5, <1>7, <1>8, <1>9, SaneMonitor

\* What a line of p tells.
LEMMA ToldFacts ==
  ASSUME TypeOK, NEW p \in Pids, Told(p)
  PROVE  /\ TreeTypeOK'
         /\ \A q \in Pids : processMap'[q].ppid = processMap[q].ppid \/ (q = p /\ processMap'[p].ppid = procs[p].ppid)
         /\ command = "system" => processMap' = processMap
<1> DEFINE line == [seen |-> TRUE, ppid |-> procs[p].ppid]
<1>1. processMap \in [Pids -> Node] /\ line \in Node
  BY DEF TypeOK, TreeTypeOK, ProcessesTypeOK, Process, Node
<1>2. CASE command = "process"
  <2>1. processMap' = [processMap EXCEPT ![p] = line]
    BY <1>2 DEF Told, ToldParent
  <2>2. line.ppid = procs[p].ppid
    OBVIOUS
  <2> HIDE DEF line
  <2> QED
    BY <1>1, <1>2, <2>1, <2>2 DEF TreeTypeOK
<1>3. CASE command # "process"
  BY <1>1, <1>3 DEF Told, TreeTypeOK, treeVars
<1> QED
  BY <1>2, <1>3

LEMMA SaneForks == ASSUME Sane, Forks PROVE Sane'
<1>1. PICK p \in Pids, c \in Pids : Fork(p, c) /\ ForkSeen(p, c)
  BY DEF Forks
<1>2. /\ ProcessesTypeOK' /\ clock' = clock /\ Live' = Live \union {c}
      /\ procs'[c].life = procs[c].life + 1 /\ procs'[c].cpu = 0
      /\ \A q \in Pids \ {c} : procs'[q] = procs[q]
  BY <1>1, ForkFacts DEF Sane, TypeOK
<1>3. /\ UNCHANGED <<command, processMap, config, scanVars>>
      /\ stable' \subseteq Pids /\ born' \subseteq Pids /\ adopted' \subseteq Pids
  BY <1>1 DEF Forks, treeVars, ForkSeen, Sane, TypeOK, MonitorTypeOK
<1>4. \A q \in Pids : procs[q].life \in Nat /\ procs[q].cpu <= clock /\ clock \in Nat
  BY DEF Sane, Timely, TypeOK, ProcessesTypeOK, Process
<1>5. \A q \in Pids : procs'[q].cpu <= clock' /\ procs[q].life <= procs'[q].life
  BY <1>2, <1>4
<1>6. \A q \in Live' : procs'[q].life > 0
  <2>1. \A q \in Live : q \in Pids /\ procs[q].life > 0
    BY DEF Sane, Lived, Live
  <2>2. procs'[c].life > 0
    BY <1>2, <1>4
  <2>3. \A q \in Live \ {c} : procs'[q].life > 0
    BY <1>2, <2>1
  <2> QED
    BY <1>2, <2>2, <2>3
<1>7. TreeTypeOK'
  BY <1>3 DEF Sane, TypeOK, TreeTypeOK
<1> QED
  BY <1>2, <1>3, <1>5, <1>6, <1>7, SaneKernel

LEMMA SaneExecs == ASSUME Sane, Execs PROVE Sane'
<1>1. PICK p \in Pids, comm \in Comms : Exec(p, comm) /\ ExecSeen(p, comm) /\ Told(p)
  BY DEF Execs
<1>2. /\ ProcessesTypeOK' /\ clock' = clock
      /\ \A q \in Pids : /\ procs'[q].live = procs[q].live /\ procs'[q].life = procs[q].life
                         /\ procs'[q].cpu = procs[q].cpu
  BY <1>1, ExecFacts DEF Sane, TypeOK
<1>3. /\ UNCHANGED <<command, config, scanVars>>
      /\ stable' \subseteq Pids /\ born' \subseteq Pids /\ adopted' \subseteq Pids
  BY <1>1 DEF Execs, ExecSeen, Sane, TypeOK, MonitorTypeOK
<1>4. TreeTypeOK'
  BY <1>1, ToldFacts DEF Sane
<1>5. \A q \in Pids : procs'[q].cpu <= clock' /\ procs[q].life <= procs'[q].life
  <2>1. \A q \in Pids : procs[q].life \in Nat /\ procs[q].cpu <= clock
    BY DEF Sane, Timely, TypeOK, ProcessesTypeOK, Process
  <2> QED
    BY <1>2, <2>1
<1>6. \A q \in Live' : procs'[q].life > 0
  BY <1>2 DEF Live, Sane, Lived
<1> QED
  BY <1>2, <1>3, <1>4, <1>5, <1>6, SaneKernel

LEMMA SaneExits == ASSUME Sane, Exits PROVE Sane'
<1>1. PICK p \in Pids : Exit(p) /\ ExitSeen(p) /\ Told(p)
  BY DEF Exits
<1>2. /\ ProcessesTypeOK' /\ clock' = clock /\ Live' = Live \ {p}
      /\ \A q \in Pids : procs'[q].life = procs[q].life /\ procs'[q].cpu = procs[q].cpu
  BY <1>1, ExitFacts DEF Sane, TypeOK
<1>3. /\ UNCHANGED <<command, config, scanVars>>
      /\ stable' \subseteq Pids /\ born' \subseteq Pids /\ adopted' \subseteq Pids
  <2>1. UNCHANGED <<command, config, scanVars, born>>
    BY <1>1 DEF Exits, ExitSeen
  <2>2. stable' \in {stable \ Family(p), stable}
        /\ adopted' \in {adopted \union UNION {Family(c) : c \in Children(p)}, adopted}
    BY <1>1 DEF ExitSeen
  <2> QED
    BY <2>1, <2>2, FamilyLive DEF Sane, TypeOK, MonitorTypeOK
<1>4. TreeTypeOK'
  BY <1>1, ToldFacts DEF Sane
<1>5. \A q \in Pids : procs'[q].cpu <= clock' /\ procs[q].life <= procs'[q].life
  <2>1. \A q \in Pids : procs[q].life \in Nat /\ procs[q].cpu <= clock
    BY DEF Sane, Timely, TypeOK, ProcessesTypeOK, Process
  <2> QED
    BY <1>2, <2>1
<1>6. \A q \in Live' : procs'[q].life > 0
  BY <1>2 DEF Live, Sane, Lived
<1> QED
  BY <1>2, <1>3, <1>4, <1>5, <1>6, SaneKernel

LEMMA SaneNames == ASSUME Sane, Names PROVE Sane'
<1>1. PICK p \in Pids : ToldName(p)
  BY DEF Names
<1>2. UNCHANGED <<command, kernelVars, monitorVars>>
  BY DEF Names
<1> DEFINE named == [processMap[p] EXCEPT !.seen = TRUE]
<1>3. processMap' = [processMap EXCEPT ![p] = named] /\ processMap \in [Pids -> Node]
  BY <1>1 DEF ToldName, Sane, TypeOK, TreeTypeOK
<1>4. named \in Node
  BY <1>3 DEF Node
<1> HIDE DEF named
<1>5. TreeTypeOK'
  BY <1>3, <1>4 DEF TreeTypeOK
<1>6. TypeOK'
  BY <1>2, <1>5 DEF Sane, TypeOK, ProcessesTypeOK, MonitorTypeOK, kernelVars, monitorVars, scanVars, historyVars
<1>7. Live' = Live
  BY <1>2 DEF Live, kernelVars
<1>8. Shape' /\ Lived' /\ Timely'
  BY <1>2, <1>7 DEF Sane, Shape, Open, Lived, Timely, kernelVars, monitorVars, scanVars
<1> QED
  BY <1>6, <1>8 DEF Sane

LEMMA SaneElapses == ASSUME Sane, Elapses PROVE Sane'
<1>1. PICK busy \in SUBSET Live : Elapse(busy)
  BY DEF Elapses
<1>2. /\ ProcessesTypeOK' /\ clock' = clock + 1
      /\ \A q \in Pids : /\ procs'[q].live = procs[q].live /\ procs'[q].life = procs[q].life
                         /\ procs'[q].cpu <= clock'
  BY <1>1, ElapseFacts DEF Sane, TypeOK, Timely
<1>3. /\ UNCHANGED <<command, config, scanVars, processMap>>
      /\ stable' \subseteq Pids /\ born' \subseteq Pids /\ adopted' \subseteq Pids
  BY DEF Elapses, monitorVars, historyVars, treeVars, Sane, TypeOK, MonitorTypeOK
<1>4. TreeTypeOK'
  BY <1>3 DEF Sane, TypeOK, TreeTypeOK
<1>5. \A q \in Pids : procs'[q].cpu <= clock' /\ procs[q].life <= procs'[q].life
  <2>1. \A q \in Pids : procs[q].life \in Nat
    BY DEF Sane, TypeOK, ProcessesTypeOK, Process
  <2> QED
    BY <1>2, <2>1
<1>6. \A q \in Live' : procs'[q].life > 0
  BY <1>2 DEF Live, Sane, Lived
<1> QED
  BY <1>2, <1>3, <1>4, <1>5, <1>6, SaneKernel

LEMMA SaneNext == ASSUME Sane, [Next]_vars PROVE Sane'
<1>1. CASE Monitors
  <2>1. UNCHANGED <<command, kernelVars, treeVars>> /\ (Tick \/ FindTarget \/ StartTarget \/ FindChild \/ TakeSample)
    BY <1>1 DEF Monitors, MonitorStep
  <2> QED
    BY <2>1, SaneTick, SaneFindTarget, SaneStartTarget, SaneFindChild, SaneTakeSample
<1>2. CASE UNCHANGED vars
  <2>1. Live' = Live
    BY <1>2 DEF Live, vars, kernelVars
  <2> QED
    BY <1>2, <2>1 DEF Sane, TypeOK, ProcessesTypeOK, MonitorTypeOK, TreeTypeOK, Shape, Open, Lived, Timely,
                      vars, kernelVars, monitorVars, scanVars, historyVars, treeVars
<1> QED
  BY <1>1, <1>2, SaneForks, SaneExecs, SaneExits, SaneNames, SaneElapses DEF Next

\* Every variable keeps its type: in particular no CPU time exceeds the clock, so
\* that the shares are words, and no walk visits what is not a pid or reads a
\* listing that has come to its end.
THEOREM ObservedTypes == Spec => []TypeOK
<1>1. Init => Sane
  BY SaneInit
<1>2. Sane /\ [Next]_vars => Sane'
  BY SaneNext
<1>3. Sane => TypeOK
  BY DEF Sane
<1> QED
  BY <1>1, <1>2, <1>3, PTL DEF Spec

-----------------------------------------------------------------------------
\* Families

LEMMA FamilyFacts ==
  ASSUME NEW root
  PROVE  /\ Family(root) \subseteq Live
         /\ root \in Live => root \in Family(root)
         /\ root \notin Live => Family(root) = {}
         /\ \A p \in Live : procs[p].ppid \in Family(root) => p \in Family(root)
BY DEF Family, FamilyAmong

LEMMA FamilyLeast ==
  ASSUME NEW root, NEW F \in SUBSET Live, root \in F, \A p \in Live : procs[p].ppid \in F => p \in F
  PROVE  Family(root) \subseteq F
BY DEF Family, FamilyAmong

\* Who is in a family is its root or the child of one of it.
LEMMA FamilyParent ==
  ASSUME NEW root, NEW p \in Family(root), p # root
  PROVE  procs[p].ppid \in Family(root)
<1> DEFINE F == {q \in Family(root) : q = root \/ procs[q].ppid \in Family(root)}
<1>1. root \in Live
  BY FamilyFacts
<1>2. F \in SUBSET Live /\ root \in F
  BY <1>1, FamilyFacts
<1>3. \A q \in Live : procs[q].ppid \in F => q \in F
  BY FamilyFacts
<1>4. Family(root) \subseteq F
  <2> HIDE DEF F
  <2> QED
    BY <1>2, <1>3, FamilyLeast
<1> QED
  BY <1>4

\* Who can be found is alive, and is the root or has its fields in place and a
\* parent who can be found.
LEMMA FindableFacts ==
  ASSUME NEW root, NEW p \in Findable(root)
  PROVE  p \in Live /\ (p = root \/ (procs[p].ppid \in Findable(root) /\ FieldsInPlace(p)))
<1> DEFINE some == {q \in Live : FieldsInPlace(q)}
           found == FamilyAmong(root, some)
           F == {q \in found : q = root \/ (procs[q].ppid \in found /\ FieldsInPlace(q))}
<1>1. found \subseteq Live /\ root \in Live /\ p \in found
  BY DEF Findable, FamilyAmong
<1>2. root \in found /\ \A q \in some : procs[q].ppid \in found => q \in found
  BY <1>1 DEF FamilyAmong
<1>3. F \in SUBSET Live /\ root \in F /\ \A q \in some : procs[q].ppid \in F => q \in F
  BY <1>1, <1>2
<1>4. p \in F
  <2> HIDE DEF F, some
  <2> QED
    BY <1>1, <1>3 DEF FamilyAmong
<1> QED
  BY <1>1, <1>4 DEF Findable

-----------------------------------------------------------------------------
\* The order of the processes by their age

\* Parents live as long as their children have them, and nothing was told of a
\* pid that was never given.
Kin ==
  /\ \A p \in Live : procs[p].ppid = Reaper \/ procs[p].ppid \in Live
  /\ \A p \in Pids : procs[p].life = 0 =>
       processMap[p].ppid = NoPid /\ \A q \in Pids : processMap[q].ppid # p

\* Children are after their parents.
After(rank) == \A p \in Live : procs[p].ppid # Reaper => rank[procs[p].ppid] < rank[p]

\* So are they after the parents told of them, and the target's descendants
\* after the target.
Ranks(rank) ==
  /\ After(rank)
  /\ ~Reused =>
       /\ \A p \in Pids : processMap[p].ppid \in Pids => rank[processMap[p].ppid] < rank[p]
       /\ doing = "walk" => \A b \in born \ {Main} : rank[Main] < rank[b]

Ordered == \E n \in Nat : \E rank \in [Pids -> 0 .. n] : Ranks(rank)

LEMMA FamilyBelow ==
  ASSUME TypeOK, Kin, NEW n \in Nat, NEW rank \in [Pids -> 0 .. n], After(rank),
         NEW root \in Pids, NEW p \in Family(root)
  PROVE  p = root \/ rank[root] < rank[p]
<1> DEFINE F == {q \in Live : q = root \/ rank[root] < rank[q]}
<1>1. root \in Live
  BY FamilyFacts
<1>2. F \in SUBSET Live /\ root \in F
  BY <1>1
<1>3. ASSUME NEW q \in Live, procs[q].ppid \in F
      PROVE  q \in F
  <2>1. q \in Pids /\ procs[q].ppid \in Pids /\ procs[q].ppid # Reaper
    BY <1>3, PidNumbers DEF Live
  <2>2. rank[procs[q].ppid] < rank[q]
    BY <1>3, <2>1 DEF After
  <2>3. rank[q] \in Nat /\ rank[procs[q].ppid] \in Nat /\ rank[root] \in Nat
    <3>1. \A x \in Pids : rank[x] \in 0 .. n
      OBVIOUS
    <3>2. \A x \in Pids : rank[x] \in Nat
      BY <3>1
    <3> QED
      BY <2>1, <3>2
  <2>4. procs[q].ppid = root \/ rank[root] < rank[procs[q].ppid]
    BY <1>3
  <2>5. rank[root] < rank[q]
    BY <2>2, <2>3, <2>4
  <2> QED
    BY <1>3, <2>5
<1>4. Family(root) \subseteq F
  <2> HIDE DEF F
  <2> QED
    BY <1>2, <1>3, FamilyLeast
<1> QED
  BY <1>4

\* The orphans of p go to a process that was before it.
LEMMA GuardianFacts ==
  ASSUME TypeOK, Kin, NEW p \in Live
  PROVE  /\ Guardian(p) = Reaper \/ (Guardian(p) \in Live \ {p} /\ p \in Family(Guardian(p)))
         /\ \A n \in Nat : \A rank \in [Pids -> 0 .. n] :
              After(rank) /\ Guardian(p) # Reaper => rank[Guardian(p)] < rank[p]
<1>1. Guardian(p) = Reaper \/ (Guardian(p) = Adopter /\ Adopter \in Pids /\ p # Adopter /\ p \in Family(Adopter))
  BY DEF Guardian
<1>2. Guardian(p) = Reaper \/ (Guardian(p) \in Live \ {p} /\ p \in Family(Guardian(p)))
  BY <1>1, FamilyFacts
<1>3. ASSUME NEW n \in Nat, NEW rank \in [Pids -> 0 .. n], After(rank), Guardian(p) # Reaper
      PROVE  rank[Guardian(p)] < rank[p]
  BY <1>1, <1>3, FamilyBelow
<1> QED
  BY <1>2, <1>3

-----------------------------------------------------------------------------
\* What is told goes by the kernel's parents, or was told before.
Tells ==
  \A q \in Pids :
    \/ processMap'[q].ppid = processMap[q].ppid
    \/ q \in Live /\ processMap'[q].ppid = procs[q].ppid

LEMMA KinInit == Init => Kin /\ Ordered
<1> SUFFICES ASSUME Init PROVE Kin /\ Ordered
  OBVIOUS
<1>1. /\ Forest(procs) /\ doing = "wait"
      /\ \A p \in Pids : processMap[p].ppid = NoPid
  <2>1. procs \in Existing /\ doing = "wait" /\ processMap = [p \in Pids |-> [seen |-> FALSE, ppid |-> NoPid]]
    BY DEF Init, ProcessesInit, MonitorInit, TreeInit
  <2> QED
    BY <2>1, ExistingAssumption
<1>2. Kin
  <2>1. \A p \in Pids : procs[p].ppid \in Pids \union {Reaper}
    BY SaneInit DEF Sane, TypeOK, ProcessesTypeOK, Process
  <2>2. \A p \in Live : procs[p].ppid = Reaper \/ procs[p].ppid \in Live
    BY <1>1, <2>1 DEF Forest, Live
  <2>3. \A p \in Pids : processMap[p].ppid = NoPid /\ \A q \in Pids : processMap[q].ppid # p
    BY <1>1, PidNumbers
  <2> QED
    BY <2>2, <2>3 DEF Kin
<1>3. PICK depth \in [Pids -> 0 .. Cardinality(Pids)] :
        \A p \in Pids : procs[p].live /\ procs[p].ppid # Reaper => depth[procs[p].ppid] < depth[p]
  BY <1>1 DEF Forest
<1>4. Cardinality(Pids) \in Nat
  BY FS_CardinalityType
<1>5. Ranks(depth)
  BY <1>1, <1>3, PidNumbers DEF Ranks, After, Live
<1> QED
  BY <1>2, <1>3, <1>4, <1>5 DEF Ordered

LEMMA KinKept ==
  ASSUME Sane, Kin, Tells, \A q \in Pids : procs'[q].life \in Nat /\ procs[q].life <= procs'[q].life,
         \A q \in Live' : procs'[q].ppid = Reaper \/ procs'[q].ppid \in Live'
  PROVE  Kin'
<1>1. ASSUME NEW p \in Pids, procs'[p].life = 0
      PROVE  processMap'[p].ppid = NoPid /\ \A q \in Pids : processMap'[q].ppid # p
  <2>1. procs[p].life \in Nat
    BY DEF Sane, TypeOK, ProcessesTypeOK, Process
  <2>2. procs[p].life = 0
    BY <1>1, <2>1
  <2>3. p \notin Live /\ p # Reaper
    BY <2>2, PidNumbers DEF Sane, Lived
  <2>4. \A q \in Live : procs[q].ppid # p
    BY <2>3 DEF Kin
  <2> QED
    BY <2>2, <2>3, <2>4 DEF Kin, Tells
<1> QED
  BY <1>1 DEF Kin

\* Whether a pid was reused is a matter of the lives only.
LEMMA ReusedKept ==
  ASSUME \A q \in Pids : procs'[q].life = procs[q].life
  PROVE  Reused' <=> Reused
BY DEF Reused

\* The order of the ages stays if nobody is born and no walk begins.
LEMMA RanksKept ==
  ASSUME Sane, Kin, Tells, NEW n \in Nat, NEW rank \in [Pids -> 0 .. n], Ranks(rank), After(rank)',
         \A q \in Pids : procs'[q].life = procs[q].life,
         doing' = "walk" => doing = "walk" /\ Main' = Main /\ born' = born
  PROVE  Ordered'
<1>1. ASSUME ~Reused, NEW p \in Pids, processMap'[p].ppid \in Pids
      PROVE  rank[processMap'[p].ppid] < rank[p]
  <2>1. CASE processMap'[p].ppid = processMap[p].ppid
    BY <1>1, <2>1 DEF Ranks
  <2>2. CASE p \in Live /\ processMap'[p].ppid = procs[p].ppid
    BY <1>1, <2>2, PidNumbers DEF Ranks, After
  <2> QED
    BY <2>1, <2>2 DEF Tells
<1>2. ~Reused' => ~Reused
  BY ReusedKept
<1>3. Ranks(rank)'
  BY <1>1, <1>2 DEF Ranks
<1> QED
  BY <1>3 DEF Ordered

LEMMA KinForks == ASSUME Sane, Kin, Ordered, Forks PROVE Kin' /\ Ordered'
<1>1. PICK p \in Pids, c \in Pids : Fork(p, c) /\ ForkSeen(p, c)
  BY DEF Forks
<1>2. /\ p \in Live /\ c \notin Live /\ p # c /\ Live' = Live \union {c}
      /\ procs'[c].ppid = p /\ procs'[c].life = procs[c].life + 1
      /\ \A q \in Pids \ {c} : procs'[q] = procs[q]
  BY <1>1, ForkFacts DEF Sane, TypeOK
<1>3. /\ UNCHANGED <<processMap, doing, all_pids>>
      /\ born' \in {born, born \union {c}}
  BY <1>1 DEF Forks, treeVars, ForkSeen, scanVars
<1>4. \A q \in Pids : procs[q].life \in Nat /\ procs[q].ppid \in Pids \union {Reaper}
  BY DEF Sane, TypeOK, ProcessesTypeOK, Process
<1>5. \A q \in Live : q \in Pids /\ q # c /\ procs'[q].ppid = procs[q].ppid /\ procs[q].ppid # c
  <2>1. \A q \in Live : q \in Pids /\ q # c
    BY <1>2 DEF Live
  <2>2. \A q \in Live : procs[q].ppid # c
    BY <1>2, PidNumbers DEF Kin
  <2> QED
    BY <1>2, <2>1, <2>2
<1>6. Kin'
  <2>1. Tells
    BY <1>3 DEF Tells
  <2>2. \A q \in Pids : procs'[q].life \in Nat /\ procs[q].life <= procs'[q].life
    BY <1>2, <1>4
  <2>3. \A q \in Live' : procs'[q].ppid = Reaper \/ procs'[q].ppid \in Live'
    BY <1>2, <1>5 DEF Kin
  <2> QED
    BY <2>1, <2>2, <2>3, KinKept
<1>0. PICK n \in Nat : \E rank \in [Pids -> 0 .. n] : Ranks(rank)
  BY DEF Ordered
<1>7. PICK rank \in [Pids -> 0 .. n] : Ranks(rank)
  BY <1>0
<1> DEFINE new == [rank EXCEPT ![c] = n + 1]
<1>8. \A q \in Pids : rank[q] \in 0 .. n
  OBVIOUS
<1>9. /\ new \in [Pids -> 0 .. n + 1] /\ new[c] = n + 1 /\ \A q \in Pids : rank[q] < n + 1
      /\ \A q \in Pids \ {c} : new[q] = rank[q]
  <2>1. \A q \in Pids : new[q] = IF q = c THEN n + 1 ELSE rank[q]
    OBVIOUS
  <2>2. \A q \in Pids : new[q] \in 0 .. n + 1 /\ rank[q] < n + 1
    BY <1>8, <2>1
  <2>3. new = [q \in Pids |-> new[q]]
    OBVIOUS
  <2> HIDE DEF new
  <2> QED
    BY <2>1, <2>2, <2>3
<1> HIDE DEF new
<1>10. After(new)'
  <2>1. new[p] < new[c]
    BY <1>2, <1>9
  <2>2. ASSUME NEW q \in Live, procs[q].ppid # Reaper
        PROVE  new[procs[q].ppid] < new[q]
    <3>1. procs[q].ppid \in Pids \ {c} /\ q \in Pids \ {c}
      BY <1>4, <1>5, <2>2
    <3>2. rank[procs[q].ppid] < rank[q]
      BY <1>7, <2>2 DEF Ranks, After
    <3> QED
      BY <1>9, <3>1, <3>2
  <2> QED
    BY <1>2, <1>5, <2>1, <2>2 DEF After
<1>11. ~Reused' => ~Reused /\ procs[c].life = 0
  <2>1. ASSUME ~Reused' PROVE ~Reused /\ procs[c].life = 0
    <3>1. \A q \in Pids : ~(procs'[q].life > 1)
      BY <2>1 DEF Reused
    <3>2. procs[c].life = 0
      <4>1. ~(procs[c].life + 1 > 1) /\ procs[c].life \in Nat
        BY <1>2, <1>4, <3>1
      <4> QED
        BY <4>1
    <3>3. \A q \in Pids : ~(procs[q].life > 1)
      BY <1>2, <3>1, <3>2
    <3> QED
      BY <3>2, <3>3 DEF Reused
  <2> QED
    BY <2>1
<1>12. ASSUME ~Reused', NEW q \in Pids, processMap[q].ppid \in Pids
       PROVE  new[processMap[q].ppid] < new[q]
  <2>1. processMap[q].ppid # c /\ q # c
    BY <1>11, <1>12, PidNumbers DEF Kin
  <2>2. rank[processMap[q].ppid] < rank[q]
    BY <1>7, <1>11, <1>12 DEF Ranks
  <2> QED
    BY <1>9, <1>12, <2>1, <2>2
<1>13. ASSUME ~Reused', doing = "walk", NEW b \in born' \ {Main}
       PROVE  new[Main] < new[b]
  <2>1. all_pids \in Seq(Pids) /\ all_pids # <<>>
    BY <1>13 DEF Sane, Shape, TypeOK, MonitorTypeOK
  <2>2. 1 \in 1 .. Len(all_pids)
    BY <2>1, EmptySeq, LenProperties
  <2>3. Main \in Pids /\ procs[Main].life > 0
    BY <2>1, <2>2, ElementOfSeq DEF Main, Sane, Lived
  <2>4. Main # c
    BY <1>4, <1>11, <1>13, <2>3
  <2>5. born \subseteq Pids
    BY DEF Sane, TypeOK, MonitorTypeOK
  <2>6. CASE b = c
    BY <1>9, <2>3, <2>4, <2>6
  <2>7. CASE b # c
    <3>1. b \in born \ {Main} /\ b \in Pids
      BY <1>3, <1>13, <2>5, <2>7
    <3>2. rank[Main] < rank[b]
      BY <1>7, <1>11, <1>13, <3>1 DEF Ranks
    <3> QED
      BY <1>9, <2>3, <2>4, <2>7, <3>1, <3>2
  <2> QED
    BY <2>6, <2>7
<1>14. Ranks(new)'
  <2>1. Main' = Main
    BY <1>3 DEF Main
  <2> QED
    BY <1>3, <1>10, <1>12, <1>13, <2>1 DEF Ranks
<1>15. n + 1 \in Nat
  OBVIOUS
<1> QED
  BY <1>6, <1>9, <1>14, <1>15 DEF Ordered

\* Steps in which every process keeps its parent.
LEMMA KinSameParents ==
  ASSUME Sane, Kin, Ordered, Tells,
         \A q \in Pids : /\ procs'[q].live = procs[q].live /\ procs'[q].ppid = procs[q].ppid
                         /\ procs'[q].life = procs[q].life,
         doing' = "walk" => doing = "walk" /\ Main' = Main /\ born' = born
  PROVE  Kin' /\ Ordered'
<1>1. Live' = Live /\ \A q \in Live : q \in Pids
  BY DEF Live
<1>2. \A q \in Pids : procs[q].life \in Nat
  BY DEF Sane, TypeOK, ProcessesTypeOK, Process
<1>3. Kin'
  <2>1. \A q \in Pids : procs'[q].life \in Nat /\ procs[q].life <= procs'[q].life
    BY <1>2
  <2>2. \A q \in Live' : procs'[q].ppid = Reaper \/ procs'[q].ppid \in Live'
    BY <1>1 DEF Kin
  <2> QED
    BY <2>1, <2>2, KinKept
<1>4. PICK n \in Nat : \E rank \in [Pids -> 0 .. n] : Ranks(rank)
  BY DEF Ordered
<1>5. PICK rank \in [Pids -> 0 .. n] : Ranks(rank)
  BY <1>4
<1>6. After(rank)'
  BY <1>1, <1>5 DEF Ranks, After
<1> QED
  BY <1>3, <1>5, <1>6, RanksKept

LEMMA KinExecs == ASSUME Sane, Kin, Ordered, Execs PROVE Kin' /\ Ordered'
<1>1. PICK p \in Pids, comm \in Comms : Exec(p, comm) /\ ExecSeen(p, comm) /\ Told(p)
  BY DEF Execs
<1>2. /\ p \in Live
      /\ \A q \in Pids : /\ procs'[q].live = procs[q].live /\ procs'[q].ppid = procs[q].ppid
                         /\ procs'[q].life = procs[q].life
  BY <1>1, ExecFacts DEF Sane, TypeOK
<1>3. Tells
  BY <1>1, <1>2, ToldFacts DEF Tells, Sane
<1>4. doing' = doing /\ born' = born /\ Main' = Main
  BY <1>1 DEF ExecSeen, scanVars, Main
<1> QED
  BY <1>2, <1>3, <1>4, KinSameParents

LEMMA KinExits == ASSUME Sane, Kin, Ordered, Exits PROVE Kin' /\ Ordered'
<1>1. PICK p \in Pids : Exit(p) /\ ExitSeen(p) /\ Told(p)
  BY DEF Exits
<1>2. /\ p \in Live /\ Live' = Live \ {p}
      /\ \A q \in Pids : procs'[q].life = procs[q].life
      /\ \A q \in Live' : procs'[q].ppid = IF procs[q].ppid = p THEN Guardian(p) ELSE procs[q].ppid
  BY <1>1, ExitFacts DEF Sane, TypeOK
<1>3. Tells
  BY <1>1, <1>2, ToldFacts DEF Tells, Sane
<1>4. doing' = doing /\ born' = born /\ Main' = Main
  BY <1>1 DEF ExitSeen, scanVars, Main
<1>5. /\ Guardian(p) = Reaper \/ Guardian(p) \in Live \ {p}
      /\ \A n \in Nat : \A rank \in [Pids -> 0 .. n] :
           After(rank) /\ Guardian(p) # Reaper => rank[Guardian(p)] < rank[p]
  BY <1>2, GuardianFacts DEF Sane
<1>6. Kin'
  <2>1. \A q \in Pids : procs'[q].life \in Nat /\ procs[q].life <= procs'[q].life
    BY <1>2 DEF Sane, TypeOK, ProcessesTypeOK, Process
  <2>2. ASSUME NEW q \in Live'
        PROVE  procs'[q].ppid = Reaper \/ procs'[q].ppid \in Live'
    <3>1. procs[q].ppid = Reaper \/ procs[q].ppid \in Live
      BY <1>2 DEF Kin
    <3> QED
      BY <1>2, <1>5, <3>1
  <2> QED
    BY <1>3, <2>1, <2>2, KinKept
<1>7. PICK n \in Nat : \E rank \in [Pids -> 0 .. n] : Ranks(rank)
  BY DEF Ordered
<1>8. PICK rank \in [Pids -> 0 .. n] : Ranks(rank)
  BY <1>7
<1>9. After(rank)'
  <2> SUFFICES ASSUME NEW q \in Live', procs'[q].ppid # Reaper
               PROVE  rank[procs'[q].ppid] < rank[q]
    BY DEF After
  <2>1. q \in Live /\ q \in Pids /\ p \in Pids
    BY <1>2 DEF Live
  <2>2. CASE procs[q].ppid # p
    BY <1>2, <1>8, <2>1, <2>2 DEF Ranks, After
  <2>3. CASE procs[q].ppid = p
    <3>1. rank[p] < rank[q]
      BY <1>8, <2>1, <2>3, PidNumbers DEF Ranks, After
    <3>2. procs'[q].ppid = Guardian(p) /\ rank[Guardian(p)] < rank[p] /\ Guardian(p) \in Pids
      BY <1>2, <1>5, <1>8, <2>3 DEF Ranks, Live
    <3>3. \A x \in Pids : rank[x] \in 0 .. n
      OBVIOUS
    <3>4. \A x \in Pids : rank[x] \in Nat
      BY <3>3
    <3>5. rank[p] \in Nat /\ rank[q] \in Nat /\ rank[Guardian(p)] \in Nat
      BY <2>1, <3>2, <3>4
    <3> QED
      BY <3>1, <3>2, <3>5
  <2> QED
    BY <2>2, <2>3
<1> QED
  BY <1>2, <1>3, <1>4, <1>6, <1>8, <1>9, RanksKept

LEMMA KinNames == ASSUME Sane, Kin, Ordered, Names PROVE Kin' /\ Ordered'
<1>1. PICK p \in Pids : ToldName(p)
  BY DEF Names
<1>2. UNCHANGED <<procs, doing, born, all_pids>>
  BY DEF Names, kernelVars, monitorVars, scanVars, historyVars
<1>3. Tells
  <2>1. processMap' = [processMap EXCEPT ![p].seen = TRUE] /\ processMap \in [Pids -> Node]
    BY <1>1 DEF ToldName, Sane, TypeOK, TreeTypeOK
  <2>2. \A q \in Pids : processMap'[q].ppid = processMap[q].ppid
    BY <2>1 DEF Node
  <2> QED
    BY <2>2 DEF Tells
<1> QED
  BY <1>2, <1>3, KinSameParents DEF Main

LEMMA KinElapses == ASSUME Sane, Kin, Ordered, Elapses PROVE Kin' /\ Ordered'
<1>1. PICK busy \in SUBSET Live : Elapse(busy)
  BY DEF Elapses
<1>2. \A q \in Pids : /\ procs'[q].live = procs[q].live /\ procs'[q].ppid = procs[q].ppid
                      /\ procs'[q].life = procs[q].life
  BY <1>1, ElapseFacts DEF Sane, TypeOK, Timely
<1>3. UNCHANGED <<doing, born, all_pids, processMap>>
  BY DEF Elapses, monitorVars, scanVars, historyVars, treeVars
<1>4. Tells
  BY <1>3 DEF Tells
<1> QED
  BY <1>2, <1>3, <1>4, KinSameParents DEF Main

\* Where a target is taken, its family is what is born.
LEMMA StartFacts ==
  ASSUME Sane, StartTarget
  PROVE  /\ Main' \in Pids /\ all_pids' = <<Main'>> /\ Counted' = {Main'}
         /\ doing' = "walk" => config.include_children /\ stack' = <<Listing(Main')>>
         /\ doing' = "sample" => ~config.include_children
         /\ doing' \in {"walk", "sample"} /\ config' = config
         /\ stable' = Findable(Main') /\ born' = Family(Main') /\ adopted' = {}
<1> DEFINE main == Head(target_pids)
<1>1. /\ target_pids # <<>> /\ all_pids' = <<main>>
      /\ IF config.include_children THEN doing' = "walk" /\ stack' = <<Listing(main)>>
         ELSE doing' = "sample" /\ UNCHANGED stack
      /\ stable' = Findable(main) /\ born' = Family(main) /\ adopted' = {} /\ config' = config
  BY DEF StartTarget
<1>2. main \in Pids
  <2>1. target_pids \in Seq(Pids)
    BY DEF Sane, TypeOK, MonitorTypeOK
  <2> QED
    BY <1>1, <2>1, HeadTailProperties
<1> HIDE DEF main
<1>3. Main' = main /\ Counted' = {main}
  BY <1>1, <1>2 DEF Main, Counted, ToSet
<1> QED
  BY <1>1, <1>2, <1>3

LEMMA KinMonitors == ASSUME Sane, Kin, Ordered, Monitors PROVE Kin' /\ Ordered'
<1>1. /\ UNCHANGED <<procs, processMap>>
      /\ Tick \/ FindTarget \/ StartTarget \/ FindChild \/ TakeSample
  BY DEF Monitors, MonitorStep, kernelVars, treeVars
<1>2. Tells
  BY <1>1 DEF Tells
<1>3. CASE StartTarget
  <2>1. Main' \in Pids /\ born' = Family(Main')
    BY <1>3, StartFacts
  <2>2. PICK n \in Nat : \E rank \in [Pids -> 0 .. n] : Ranks(rank)
    BY DEF Ordered
  <2>3. PICK rank \in [Pids -> 0 .. n] : Ranks(rank)
    BY <2>2
  <2>4. After(rank) /\ Live' = Live /\ (Reused' <=> Reused)
    BY <1>1, <2>3 DEF Ranks, Live, Reused
  <2>5. \A b \in born' \ {Main'} : rank[Main'] < rank[b]
    BY <2>1, <2>4, FamilyBelow DEF Sane
  <2>6. Ranks(rank)'
    BY <1>1, <2>3, <2>4, <2>5 DEF Ranks, After
  <2>7. Kin'
    BY <1>1, <2>4 DEF Kin
  <2> QED
    BY <2>6, <2>7 DEF Ordered
<1>4. CASE Tick \/ FindTarget \/ FindChild \/ TakeSample
  <2>1. doing' = "walk" => doing = "walk" /\ Main' = Main /\ born' = born
    <3>1. FindChild => doing = "walk" /\ born' = born /\ Main' = Main
      BY WalkFacts DEF Sane, FindChild, historyVars, Main
    <3>2. Tick \/ FindTarget \/ TakeSample => doing' # "walk"
      BY DEF Tick, FindTarget, TakeSample
    <3> QED
      BY <1>4, <3>1, <3>2
  <2> QED
    BY <1>1, <1>2, <2>1, KinSameParents
<1> QED
  BY <1>1, <1>3, <1>4

Related == Sane /\ Kin /\ Ordered

LEMMA RelatedInit == Init => Related
BY SaneInit, KinInit DEF Related

LEMMA RelatedNext == ASSUME Related, [Next]_vars PROVE Related'
<1>1. Sane'
  BY SaneNext DEF Related
<1>2. CASE UNCHANGED vars
  <2>1. UNCHANGED <<procs, processMap, doing, born, all_pids>>
    BY <1>2 DEF vars, kernelVars, monitorVars, scanVars, historyVars, treeVars
  <2>2. Tells
    BY <2>1 DEF Tells
  <2> QED
    BY <1>1, <2>1, <2>2, KinSameParents DEF Related, Main
<1>3. CASE Next
  BY <1>1, <1>3, KinForks, KinExecs, KinExits, KinNames, KinElapses, KinMonitors DEF Related, Next
<1> QED
  BY <1>2, <1>3

LEMMA DrawnFacts ==
  /\ Drawn \subseteq Nodes /\ RootProcesses \subseteq Drawn
  /\ \A p \in Nodes : Attached(p) /\ processMap[p].ppid \in Drawn => p \in Drawn
BY DEF Drawn, RootProcesses

\* Whatever parents the lines tell of, at whatever moments, and of whichever
\* processes lines are missing, the page draws every process that a line names,
\* and no process below itself, as long as no pid is used twice.
THEOREM TreeIsDrawn == Spec => []AllDrawn
<1>1. Related => AllDrawn
  <2> SUFFICES ASSUME Related, ~Reused, Nodes \ Drawn # {}
               PROVE  FALSE
    BY DEF AllDrawn
  <2>1. PICK n \in Nat : \E rank \in [Pids -> 0 .. n] : Ranks(rank)
    BY DEF Related, Ordered
  <2>2. PICK rank \in [Pids -> 0 .. n] : Ranks(rank)
    BY <2>1
  <2> DEFINE lost == {rank[p] : p \in Nodes \ Drawn}
  <2>3. \A p \in Pids : rank[p] \in 0 .. n
    OBVIOUS
  <2>4. \A p \in Pids : rank[p] \in Nat
    BY <2>3
  <2>5. lost \in SUBSET Nat /\ lost # {}
    <3>1. Nodes \ Drawn \subseteq Pids
      BY DEF Nodes
    <3>2. PICK q \in Nodes \ Drawn : TRUE
      OBVIOUS
    <3>3. rank[q] \in lost
      BY <3>2
    <3>4. \A x \in lost : x \in Nat
      BY <2>4, <3>1
    <3> QED
      BY <3>3, <3>4
  <2>6. PICK r \in lost : \A s \in lost : r <= s
    <3> HIDE DEF lost
    <3> QED
      BY <2>5, LeastNumber
  <2>7. PICK p \in Nodes \ Drawn : rank[p] = r
    OBVIOUS
  <2>8. Attached(p) /\ processMap[p].ppid \in Nodes /\ processMap[p].ppid \in Pids
    <3>1. p \notin RootProcesses
      BY <2>7, DrawnFacts
    <3> QED
      BY <2>7, <3>1 DEF RootProcesses, Attached, Nodes
  <2>9. processMap[p].ppid \in Nodes \ Drawn
    BY <2>7, <2>8, DrawnFacts
  <2>10. rank[processMap[p].ppid] < rank[p]
    BY <2>2, <2>7, <2>8 DEF Ranks, Nodes
  <2>11. r <= rank[processMap[p].ppid]
    BY <2>6, <2>9
  <2>12. p \in Pids
    BY <2>7 DEF Nodes
  <2>13. rank[p] \in Nat /\ rank[processMap[p].ppid] \in Nat
    BY <2>4, <2>8, <2>12
  <2> QED
    BY <2>7, <2>10, <2>11, <2>13
<1>2. Init => Related
  BY RelatedInit
<1>3. Related /\ [Next]_vars => Related'
  BY RelatedNext
<1> QED
  BY <1>1, <1>2, <1>3, PTL DEF Spec

-----------------------------------------------------------------------------
\* Who is counted

\* A listing under way has yet to come to p.
Pending(p) == \E i \in 1 .. Len(stack) : stack[i].of = procs[p].ppid /\ stack[i].at < p

\* The listings after a pid has been looked at.
LEMMA StackStep ==
  ASSUME TypeOK, Shape, FindChild
  PROVE  /\ \A i \in 1 .. Len(stack') :
              \/ i \in 1 .. Len(stack) - 1 /\ stack'[i] = stack[i]
              \/ /\ i = Len(stack) /\ PidsAfter(Visited) # {}
                 /\ stack'[i].of = Top.of /\ stack'[i].at = Visited
              \/ Found /\ i = Len(Remaining) + 1 /\ stack'[i] = Listing(Visited)
         /\ \A i \in 1 .. Len(stack) - 1 : i \in 1 .. Len(stack') /\ stack'[i] = stack[i]
         /\ PidsAfter(Visited) # {} =>
              Len(stack) \in 1 .. Len(stack') /\ stack'[Len(stack)].of = Top.of /\ stack'[Len(stack)].at = Visited
         /\ Found => Len(Remaining) + 1 \in 1 .. Len(stack') /\ stack'[Len(Remaining) + 1] = Listing(Visited)
         /\ Len(stack) \in Nat \ {0} /\ Len(Remaining) \in {Len(stack), Len(stack) - 1}
<1> DEFINE n == Len(stack)
           m == Len(Remaining)
<1>1. /\ Open(stack) /\ stack # <<>> /\ Visited \in Pids
      /\ Found => stack' = Append(Remaining, Listing(Visited))
      /\ ~Found => stack' = Remaining
  <2>1. doing = "walk" /\ Visited \in Pids
    BY WalkFacts
  <2>2. Found => stack' = Append(Remaining, Listing(Visited))
    BY WalkFacts
  <2>3. ~Found => stack' = Remaining
    BY WalkFacts
  <2> QED
    BY <2>1, <2>2, <2>3 DEF Shape
<1>2. n \in Nat \ {0}
  BY <1>1, VisitedFacts
<1>3. /\ Open(Remaining)
      /\ m = IF PidsAfter(Visited) = {} THEN n - 1 ELSE n
      /\ \A i \in 1 .. m :
           IF i = n THEN Remaining[i].of = Top.of /\ Remaining[i].at = Visited ELSE Remaining[i] = stack[i]
  BY <1>1, RemainingFacts
<1> DEFINE k == Len(stack')
<1>4. /\ k = IF Found THEN m + 1 ELSE m
      /\ \A i \in 1 .. m : stack'[i] = Remaining[i]
      /\ Found => stack'[m + 1] = Listing(Visited)
  <2>1. CASE Found
    <3>1. /\ Len(Append(Remaining, Listing(Visited))) = m + 1
          /\ Append(Remaining, Listing(Visited))[m + 1] = Listing(Visited)
          /\ \A i \in 1 .. m : Append(Remaining, Listing(Visited))[i] = Remaining[i]
      BY <1>1, <1>3, PushFacts
    <3>2. stack' = Append(Remaining, Listing(Visited))
      BY <1>1, <2>1
    <3> QED
      BY <2>1, <3>1, <3>2
  <2>2. CASE ~Found
    BY <1>1, <2>2
  <2> QED
    BY <2>1, <2>2
<1> HIDE DEF n, m, k
<1>5. m \in {n, n - 1} /\ m \in Nat
  BY <1>2, <1>3
<1>6. ASSUME NEW i \in 1 .. k
      PROVE  \/ i \in 1 .. n - 1 /\ stack'[i] = stack[i]
             \/ i = n /\ PidsAfter(Visited) # {} /\ stack'[i].of = Top.of /\ stack'[i].at = Visited
             \/ Found /\ i = m + 1 /\ stack'[i] = Listing(Visited)
  <2>1. CASE i = m + 1
    <3>1. Found
      BY <1>4, <1>5, <2>1
    <3> QED
      BY <1>4, <2>1, <3>1
  <2>2. CASE i # m + 1
    <3>1. i \in 1 .. m
      BY <1>4, <1>5, <2>2
    <3>2. CASE i = n
      <4>1. PidsAfter(Visited) # {}
        BY <1>2, <1>3, <3>1, <3>2
      <4> QED
        BY <1>3, <1>4, <3>1, <3>2, <4>1
    <3>3. CASE i # n
      <4>1. i \in 1 .. n - 1
        BY <1>2, <1>5, <3>1, <3>3
      <4> QED
        BY <1>3, <1>4, <3>1, <3>3, <4>1
    <3> QED
      BY <3>2, <3>3
  <2> QED
    BY <2>1, <2>2
<1>7. ASSUME NEW i \in 1 .. n - 1
      PROVE  i \in 1 .. k /\ stack'[i] = stack[i]
  <2>1. i \in 1 .. m /\ i \in 1 .. k /\ i # n
    BY <1>2, <1>4, <1>5
  <2> QED
    BY <1>3, <1>4, <2>1
<1>8. ASSUME PidsAfter(Visited) # {}
      PROVE  n \in 1 .. k /\ stack'[n].of = Top.of /\ stack'[n].at = Visited
  <2>1. m = n /\ n \in 1 .. m /\ n \in 1 .. k
    BY <1>2, <1>3, <1>4, <1>8
  <2> QED
    BY <1>3, <1>4, <2>1
<1>9. ASSUME Found
      PROVE  m + 1 \in 1 .. k /\ stack'[m + 1] = Listing(Visited)
  BY <1>4, <1>5, <1>9
<1> QED
  BY <1>2, <1>5, <1>6, <1>7, <1>8, <1>9 DEF n, m, k

\* Who was to come still is, but for the pid that was looked at.
LEMMA PendingStays ==
  ASSUME TypeOK, Shape, FindChild, procs' = procs, NEW p \in Pids, Pending(p),
         p # Visited \/ procs[p].ppid # Top.of
  PROVE  Pending(p)'
<1>1. PICK i \in 1 .. Len(stack) : stack[i].of = procs[p].ppid /\ stack[i].at < p
  BY DEF Pending
<1>2. Len(stack) \in Nat \ {0}
  BY StackStep
<1>3. CASE i # Len(stack)
  <2>1. i \in 1 .. Len(stack) - 1
    BY <1>2, <1>3
  <2>2. i \in 1 .. Len(stack') /\ stack'[i] = stack[i]
    BY <2>1, StackStep
  <2> QED
    BY <1>1, <2>2 DEF Pending
<1>4. CASE i = Len(stack)
  <2>1. Top.of = procs[p].ppid /\ Top.at < p
    BY <1>1, <1>4 DEF Top
  <2>2. Visited \in Pids /\ Visited <= p
    BY <2>1, WalkFacts
  <2>3. Visited < p
    BY <2>1, <2>2, PidNumbers
  <2>4. PidsAfter(Visited) # {}
    BY <2>3 DEF PidsAfter
  <2>5. Len(stack) \in 1 .. Len(stack') /\ stack'[Len(stack)].of = Top.of /\ stack'[Len(stack)].at = Visited
    BY <2>4, StackStep
  <2> QED
    BY <2>1, <2>3, <2>5 DEF Pending
<1> QED
  BY <1>3, <1>4

\* Whom the walk could find from its start until now is there with its parents up
\* to the target, and is counted, or its parent is not, or it is to come.
Stays(s) == s \in Live /\ (s = Main \/ (procs[s].ppid \in stable /\ FieldsInPlace(s)))
Comes(s) == s \in Counted \/ procs[s].ppid \notin Counted \/ Pending(s)

Kept == doing = "walk" => \A s \in stable : Stays(s) /\ (s # Main => Comes(s))

LEMMA KeptStart == ASSUME Sane, StartTarget, UNCHANGED kernelVars PROVE Kept' /\ StableCounted'
<1>1. /\ Main' \in Pids /\ Counted' = {Main'} /\ stable' = Findable(Main')
      /\ doing' = "walk" => stack' = <<Listing(Main')>>
      /\ doing' = "sample" => ~config'.include_children
      /\ Live' = Live /\ procs' = procs
  BY StartFacts DEF kernelVars, Live
<1>2. ASSUME doing' = "walk", NEW s \in stable'
      PROVE  Stays(s)' /\ (s # Main' => Comes(s)')
  <2>1. s \in Live /\ s \in Pids
    BY <1>1, <1>2, FindableFacts DEF Live
  <2>2. s = Main' \/ (procs[s].ppid \in stable' /\ FieldsInPlace(s))
    BY <1>1, <1>2, FindableFacts
  <2>3. procs[s].ppid = Main' => Pending(s)'
    <3> DEFINE l == Listing(Main')
    <3>1. l.of = Main' /\ l.at = NoPid /\ NoPid < s
      BY <1>1, <2>1, ListingFacts, PidNumbers
    <3>2. stack' = <<l>>
      BY <1>1, <1>2
    <3> HIDE DEF l
    <3>3. 1 \in 1 .. Len(stack') /\ stack'[1] = l
      BY <3>2
    <3> QED
      BY <1>1, <3>1, <3>3 DEF Pending
  <2> QED
    BY <1>1, <2>1, <2>2, <2>3 DEF Stays, Comes, FieldsInPlace
<1>3. Kept'
  BY <1>2 DEF Kept
<1>4. StableCounted'
  BY <1>1 DEF StableCounted, Walked
<1> QED
  BY <1>3, <1>4

LEMMA KeptFindChild == ASSUME Related, Kept, FindChild, UNCHANGED kernelVars PROVE Kept' /\ StableCounted'
<1>1. TypeOK /\ Shape /\ Kin
  BY DEF Related, Sane
<1>2. /\ doing = "walk" /\ doing' \in {"walk", "sample"} /\ (doing' = "sample" <=> stack' = <<>>)
      /\ Visited \in Pids /\ Main' = Main /\ Main \in Counted
  BY <1>1, WalkFacts DEF Main
<1>3. /\ Found => Counted' = Counted \union {Visited}
      /\ ~Found => Counted' = Counted
  <2>1. Found => Counted' = Counted \union {Visited}
    BY <1>1, WalkFacts
  <2>2. ~Found => Counted' = Counted
    BY <1>1, WalkFacts
  <2> QED
    BY <2>1, <2>2
<1>4. procs' = procs /\ Live' = Live /\ stable' = stable
  BY DEF FindChild, historyVars, kernelVars, Live
<1>5. ASSUME NEW s \in stable
      PROVE  Stays(s) /\ Stays(s)' /\ (s # Main => Comes(s)')
  <2>1. Stays(s) /\ (s # Main => Comes(s))
    BY <1>2 DEF Kept
  <2>2. Stays(s)'
    BY <1>2, <1>4, <2>1 DEF Stays, FieldsInPlace
  <2>3. ASSUME s # Main, s \notin Counted', procs[s].ppid \in Counted'
        PROVE  Pending(s)'
    <3>1. s \notin Counted /\ s \in Live /\ s \in Pids /\ s # NoPid
      BY <1>3, <2>1, <2>3, PidNumbers DEF Stays, Live
    <3>2. CASE Found /\ procs[s].ppid = Visited
      <4>1. Len(Remaining) + 1 \in 1 .. Len(stack') /\ stack'[Len(Remaining) + 1] = Listing(Visited)
        BY <1>1, <3>2, StackStep
      <4>2. Listing(Visited).of = Visited /\ Listing(Visited).at = NoPid /\ NoPid < s
        BY <1>2, <3>1, ListingFacts, PidNumbers
      <4> QED
        BY <1>4, <3>2, <4>1, <4>2 DEF Pending
    <3>3. CASE ~(Found /\ procs[s].ppid = Visited)
      <4>1. procs[s].ppid \in Counted
        BY <1>3, <2>3, <3>3
      <4>2. Pending(s)
        BY <2>1, <2>3, <3>1, <4>1 DEF Comes
      <4>3. s # Visited \/ procs[s].ppid # Top.of
        BY <1>3, <2>1, <2>3, <3>1 DEF Found, Stays
      <4> QED
        BY <1>1, <1>4, <3>1, <4>2, <4>3, PendingStays
    <3> QED
      BY <3>2, <3>3
  <2> QED
    BY <1>4, <2>1, <2>2, <2>3 DEF Comes
<1>6. Kept'
  BY <1>2, <1>4, <1>5 DEF Kept
<1>7. ASSUME doing' = "sample", stable \ Counted' # {}
      PROVE  FALSE
  <2>1. \A s \in stable : ~Pending(s)'
    <3>1. Len(stack') = 0
      BY <1>2, <1>7
    <3>2. 1 .. Len(stack') = {}
      BY <3>1
    <3> QED
      BY <3>2 DEF Pending
  <2>2. PICK n \in Nat : \E rank \in [Pids -> 0 .. n] : Ranks(rank)
    BY DEF Related, Ordered
  <2>3. PICK rank \in [Pids -> 0 .. n] : Ranks(rank)
    BY <2>2
  <2> DEFINE missed == {rank[s] : s \in stable \ Counted'}
  <2>4. stable \subseteq Pids
    BY <1>1 DEF TypeOK, MonitorTypeOK
  <2>5. \A s \in Pids : rank[s] \in 0 .. n
    OBVIOUS
  <2>6. \A s \in Pids : rank[s] \in Nat
    BY <2>5
  <2>7. missed \in SUBSET Nat /\ missed # {}
    <3>1. \A s \in stable \ Counted' : rank[s] \in Nat
      BY <2>4, <2>6
    <3> QED
      BY <1>7, <3>1
  <2>8. PICK r \in missed : \A t \in missed : r <= t
    <3> HIDE DEF missed
    <3> QED
      BY <2>7, LeastNumber
  <2>9. PICK s \in stable \ Counted' : rank[s] = r
    OBVIOUS
  <2>10. s # Main
    BY <1>2, <1>3, <2>9
  <2>11. procs[s].ppid \notin Counted' /\ s \in Live /\ procs[s].ppid \in stable
    BY <1>4, <1>5, <2>1, <2>9, <2>10 DEF Comes, Stays
  <2>12. procs[s].ppid \in stable \ Counted'
    BY <2>11
  <2>13. r <= rank[procs[s].ppid]
    BY <2>8, <2>12
  <2>14. procs[s].ppid # Reaper
    BY <2>4, <2>11, PidNumbers
  <2>15. rank[procs[s].ppid] < rank[s]
    BY <2>3, <2>11, <2>14 DEF Ranks, After
  <2>16. rank[s] \in Nat /\ rank[procs[s].ppid] \in Nat
    BY <2>4, <2>6, <2>9, <2>11
  <2> QED
    BY <2>9, <2>13, <2>15, <2>16
<1>8. StableCounted'
  <2>1. doing' = "sample" => stable' \subseteq Counted'
    BY <1>4, <1>7
  <2> QED
    BY <2>1 DEF StableCounted, Walked, Counted
<1> QED
  BY <1>6, <1>8

\* A step of the kernel or of the log: those that stay keep their parents.
LEMMA KeptKernel ==
  ASSUME Kept, StableCounted, UNCHANGED <<doing, config, all_pids, stack>>,
         stable' \subseteq stable,
         doing = "walk" => \A s \in stable' : /\ s \in Live' /\ procs'[s].ppid = procs[s].ppid
                                              /\ s = Main \/ (procs[s].ppid \in stable' /\ FieldsInPlace(s)')
  PROVE  Kept' /\ StableCounted'
<1>1. Main' = Main /\ Counted' = Counted
  BY DEF Main, Counted
<1>2. ASSUME doing = "walk", NEW s \in stable'
      PROVE  Stays(s)' /\ (s # Main' => Comes(s)')
  <2>1. Stays(s)'
    BY <1>1, <1>2 DEF Stays
  <2>2. s # Main => Comes(s)
    BY <1>2 DEF Kept
  <2>3. Comes(s) => Comes(s)'
    BY <1>1, <1>2 DEF Comes, Pending
  <2> QED
    BY <1>1, <2>1, <2>2, <2>3
<1>3. Kept'
  BY <1>2 DEF Kept
<1>4. StableCounted'
  BY DEF StableCounted, Walked
<1> QED
  BY <1>3, <1>4

LEMMA KeptForks == ASSUME Related, Kept, StableCounted, Forks PROVE Kept' /\ StableCounted'
<1>1. PICK p \in Pids, c \in Pids : Fork(p, c) /\ ForkSeen(p, c)
  BY DEF Forks
<1>2. c \notin Live /\ Live' = Live \union {c} /\ \A q \in Pids \ {c} : procs'[q] = procs[q]
  BY <1>1, ForkFacts DEF Related, Sane, TypeOK
<1>3. UNCHANGED <<doing, config, all_pids, stack, stable>>
  BY <1>1 DEF ForkSeen, scanVars
<1>4. doing = "walk" => \A s \in stable : Stays(s) /\ s \in Pids
  BY DEF Kept, Related, Sane, TypeOK, MonitorTypeOK
<1> QED
  BY <1>2, <1>3, <1>4, KeptKernel DEF Stays, FieldsInPlace

LEMMA KeptSameParents ==
  ASSUME Related, Kept, StableCounted, UNCHANGED <<doing, config, all_pids, stack, stable>>,
         \A q \in Pids : /\ procs'[q].live = procs[q].live /\ procs'[q].ppid = procs[q].ppid
                         /\ procs'[q].comm = procs[q].comm
  PROVE  Kept' /\ StableCounted'
<1>1. Live' = Live
  BY DEF Live
<1>2. doing = "walk" => \A s \in stable : Stays(s) /\ s \in Pids
  BY DEF Kept, Related, Sane, TypeOK, MonitorTypeOK
<1> QED
  BY <1>1, <1>2, KeptKernel DEF Stays, FieldsInPlace

LEMMA KeptExecs == ASSUME Related, Kept, StableCounted, Execs PROVE Kept' /\ StableCounted'
<1>1. PICK p \in Pids, comm \in Comms : Exec(p, comm) /\ ExecSeen(p, comm)
  BY DEF Execs
<1>2. /\ p \in Live /\ Live' = Live /\ procs'[p].comm = comm
      /\ \A q \in Pids : procs'[q].ppid = procs[q].ppid
      /\ \A q \in Pids \ {p} : procs'[q] = procs[q]
  BY <1>1, ExecFacts DEF Related, Sane, TypeOK, Live
<1>3. /\ UNCHANGED <<doing, config, all_pids, stack>>
      /\ stable' = IF doing = "walk" /\ comm \in Spaced /\ p # Head(all_pids) THEN stable \ Family(p) ELSE stable
  BY <1>1 DEF ExecSeen, scanVars
<1>4. stable \subseteq Pids
  BY DEF Related, Sane, TypeOK, MonitorTypeOK
<1>5. ASSUME doing = "walk", NEW s \in stable'
      PROVE  /\ s \in Live' /\ procs'[s].ppid = procs[s].ppid
             /\ s = Main \/ (procs[s].ppid \in stable' /\ FieldsInPlace(s)')
  <2>1. Head(all_pids) = Main
    BY <1>5, HeadTailProperties DEF Related, Sane, TypeOK, MonitorTypeOK, Shape, Main
  <2>2. s \in stable /\ s \in Pids /\ Stays(s)
    BY <1>3, <1>4, <1>5 DEF Kept
  <2>3. s # p /\ FieldsInPlace(s) => FieldsInPlace(s)'
    BY <1>2, <2>2 DEF FieldsInPlace
  <2>4. CASE comm \in Spaced /\ p # Main
    <3>1. stable' = stable \ Family(p) /\ s \notin Family(p)
      BY <1>3, <1>5, <2>1, <2>4
    <3>2. s \in Live /\ p \in Family(p) /\ procs[s].ppid \notin Family(p)
      BY <1>2, <2>2, <3>1, FamilyFacts DEF Stays
    <3> QED
      BY <1>2, <2>2, <2>3, <3>1, <3>2 DEF Stays
  <2>5. CASE ~(comm \in Spaced /\ p # Main)
    <3>1. stable' = stable
      BY <1>3, <2>1, <2>5
    <3>2. s = p /\ s # Main => FieldsInPlace(s)'
      BY <1>2, <2>5 DEF FieldsInPlace
    <3> QED
      BY <1>2, <2>2, <2>3, <3>1, <3>2 DEF Stays
  <2> QED
    BY <2>4, <2>5
<1> QED
  BY <1>3, <1>5, KeptKernel

LEMMA KeptExits == ASSUME Related, Kept, StableCounted, Exits PROVE Kept' /\ StableCounted'
<1>1. PICK p \in Pids : Exit(p) /\ ExitSeen(p)
  BY DEF Exits
<1>2. /\ p \in Live /\ Live' = Live \ {p}
      /\ \A q \in Live' : procs'[q].ppid = IF procs[q].ppid = p THEN Guardian(p) ELSE procs[q].ppid
      /\ \A q \in Pids : procs'[q].comm = procs[q].comm
  BY <1>1, ExitFacts DEF Related, Sane, TypeOK
<1>3. /\ UNCHANGED <<doing, config, all_pids, stack>>
      /\ stable' = IF doing = "walk" THEN stable \ Family(p) ELSE stable
  BY <1>1 DEF ExitSeen, scanVars
<1>4. ASSUME doing = "walk", NEW s \in stable'
      PROVE  /\ s \in Live' /\ procs'[s].ppid = procs[s].ppid
             /\ s = Main \/ (procs[s].ppid \in stable' /\ FieldsInPlace(s)')
  <2>1. s \in stable /\ s \notin Family(p) /\ Stays(s)
    BY <1>3, <1>4 DEF Kept
  <2>2. s \in Live /\ p \in Family(p) /\ procs[s].ppid \notin Family(p)
    BY <1>2, <2>1, FamilyFacts DEF Stays
  <2>3. s \in Live' /\ procs[s].ppid # p
    BY <1>2, <2>1, <2>2
  <2>4. FieldsInPlace(s) => FieldsInPlace(s)'
    BY <1>2, <2>2 DEF FieldsInPlace, Live
  <2> QED
    BY <1>2, <1>3, <1>4, <2>1, <2>2, <2>3, <2>4 DEF Stays
<1> QED
  BY <1>3, <1>4, KeptKernel

LEMMA KeptMonitors == ASSUME Related, Kept, StableCounted, Monitors PROVE Kept' /\ StableCounted'
<1>1. UNCHANGED kernelVars /\ (Tick \/ FindTarget \/ StartTarget \/ FindChild \/ TakeSample)
  BY DEF Monitors, MonitorStep
<1>2. CASE Tick \/ FindTarget
  <2>1. doing' \notin {"walk", "sample"}
    BY <1>2 DEF Tick, FindTarget
  <2> QED
    BY <2>1 DEF Kept, StableCounted, Walked
<1>3. CASE TakeSample
  <2>1. doing = "sample" /\ doing' # "walk" /\ UNCHANGED <<config, all_pids, stable>>
    BY <1>3 DEF TakeSample, historyVars
  <2> QED
    BY <2>1 DEF Kept, StableCounted, Walked
<1> QED
  BY <1>1, <1>2, <1>3, KeptStart, KeptFindChild DEF Related

\* However processes come, go and change their names while the directories are
\* read, a sample counts every process that could be found all through the walk:
\* that was a descendant of its target under one parent, with no space in its name
\* nor in any between the target's and its own.  The listing for each parent
\* started before the walk had come to the child.
THEOREM StableAreCounted == Spec => []StableCounted
<1> DEFINE I == Related /\ Kept /\ StableCounted
<1>1. Init => I
  <2>1. Init => doing = "wait"
    BY DEF Init, MonitorInit
  <2> QED
    BY <2>1, RelatedInit DEF Kept, StableCounted, Walked
<1>2. I /\ [Next]_vars => I'
  <2> SUFFICES ASSUME Related, Kept, StableCounted, [Next]_vars
               PROVE  Related' /\ Kept' /\ StableCounted'
    OBVIOUS
  <2>1. CASE Elapses
    <3>1. PICK busy \in SUBSET Live : Elapse(busy)
      BY <2>1 DEF Elapses
    <3>2. \A q \in Pids : /\ procs'[q].live = procs[q].live /\ procs'[q].ppid = procs[q].ppid
                          /\ procs'[q].comm = procs[q].comm
      BY <3>1, ElapseFacts DEF Related, Sane, TypeOK, Timely
    <3>3. UNCHANGED <<doing, config, all_pids, stack, stable>>
      BY <2>1 DEF Elapses, monitorVars, scanVars, historyVars
    <3> QED
      BY <3>2, <3>3, KeptSameParents, RelatedNext
  <2>2. CASE Names \/ UNCHANGED vars
    <3>1. UNCHANGED <<procs, doing, config, all_pids, stack, stable>>
      BY <2>2 DEF Names, vars, kernelVars, monitorVars, scanVars, historyVars
    <3> QED
      BY <3>1, KeptSameParents, RelatedNext
  <2> QED
    BY <2>1, <2>2, KeptForks, KeptExecs, KeptExits, KeptMonitors, RelatedNext DEF Next
<1>3. I => StableCounted
  OBVIOUS
<1> QED
  BY <1>1, <1>2, <1>3, PTL DEF Spec

-----------------------------------------------------------------------------
\* Who is counted twice

\* Descendants of who was adopted, or of who was born, are that too.
Inherited == \A p \in Live : (procs[p].ppid \in adopted => p \in adopted) /\ (procs[p].ppid \in born => p \in born)

CountedTwice == \A i, j \in 1 .. Len(all_pids) : i # j /\ all_pids[i] = all_pids[j] => all_pids[i] \in adopted

ListedTwice == \A i, j \in 1 .. Len(stack) : i # j /\ stack[i].of = stack[j].of => stack[i].of \in adopted

\* The walk is past those that are counted and were not adopted.
Past ==
  \A p \in Live \ adopted :
    p \in Counted \ {Main} /\ procs[p].ppid # Reaper => procs[p].ppid \in Counted /\ ~Pending(p)

Descend ==
  /\ \A i \in 1 .. Len(all_pids) : i # 1 => all_pids[i] \in born
  /\ Main \in born \/ Main \notin Live

OnceParts == Inherited /\ CountedTwice /\ ListedTwice /\ Past /\ Descend

Once == ~Reused /\ doing = "walk" => OnceParts

LEMMA TailSet ==
  ASSUME NEW S, NEW s \in Seq(S), s # <<>>
  PROVE  ToSet(Tail(s)) = {s[i] : i \in 2 .. Len(s)}
<1> DEFINE t == Tail(s)
           n == Len(s)
<1>1. n \in Nat \ {0}
  BY EmptySeq, LenProperties
<1>2. t \in Seq(S) /\ Len(t) = n - 1 /\ \A i \in 1 .. Len(t) : t[i] = s[i + 1]
  BY HeadTailProperties
<1>3. DOMAIN t = 1 .. n - 1 /\ \A i \in 1 .. n - 1 : t[i] = s[i + 1]
  BY <1>2, LenProperties
<1> HIDE DEF t, n
<1>4. \A i \in 1 .. n - 1 : i + 1 \in 2 .. n
  BY <1>1
<1>5. \A i \in 2 .. n : i - 1 \in 1 .. n - 1 /\ (i - 1) + 1 = i
  BY <1>1
<1>6. ToSet(t) = {t[i] : i \in 1 .. n - 1}
  BY <1>3 DEF ToSet
<1>7. ASSUME NEW i \in 1 .. n - 1
      PROVE  \E k \in 2 .. n : t[i] = s[k]
  BY <1>3, <1>4
<1>8. ASSUME NEW k \in 2 .. n
      PROVE  \E i \in 1 .. n - 1 : t[i] = s[k]
  BY <1>3, <1>5
<1>9. ToSet(t) = {s[k] : k \in 2 .. n}
  <2>1. ASSUME NEW x \in ToSet(t) PROVE x \in {s[k] : k \in 2 .. n}
    BY <1>6, <1>7, <2>1
  <2>2. ASSUME NEW k \in 2 .. n PROVE s[k] \in ToSet(t)
    BY <1>6, <1>8, <2>2
  <2> QED
    BY <2>1, <2>2
<1> QED
  BY <1>9 DEF t, n

\* What the walk finds descends from the target, and was not found before unless
\* it was adopted.
LEMMA NewlyFound ==
  ASSUME Related, FindChild, ~Reused, OnceParts, Found
  PROVE  /\ Visited \in born /\ Visited \in Live /\ Visited # Main /\ Visited # Top.of
         /\ Visited \notin adopted => Visited \notin Counted
<1>1. TypeOK /\ Shape /\ Kin
  BY DEF Related, Sane
<1>2. /\ doing = "walk" /\ Visited \in Live /\ procs[Visited].ppid = Top.of
      /\ Top.of \in Counted /\ Counted \subseteq Pids /\ Visited \in Pids /\ Top.at < Visited /\ Main \in Pids
  BY <1>1, WalkFacts DEF Found
<1>3. \A q \in Counted : q = Main \/ q \in born
  <2>1. all_pids \in Seq(Pids)
    BY <1>1 DEF TypeOK, MonitorTypeOK
  <2>2. DOMAIN all_pids = 1 .. Len(all_pids)
    BY <2>1, LenProperties
  <2> QED
    BY <2>2 DEF Counted, ToSet, Main, OnceParts, Descend
<1>4. Top.of \in Pids /\ Top.of # Reaper /\ Top.of \in Live
  <2>1. Top.of \in Pids /\ Top.of # Reaper
    BY <1>2, PidNumbers
  <2> QED
    BY <1>1, <1>2, <2>1 DEF Kin
<1>5. Visited \in born
  <2>1. Top.of \in born
    BY <1>2, <1>3, <1>4 DEF OnceParts, Descend
  <2>2. Inherited
    BY DEF OnceParts
  <2> QED
    BY <1>2, <2>1, <2>2 DEF Inherited
<1>6. Visited # Main /\ Visited # Top.of
  <2>1. PICK n \in Nat : \E rank \in [Pids -> 0 .. n] : Ranks(rank)
    BY DEF Related, Ordered
  <2>2. PICK rank \in [Pids -> 0 .. n] : Ranks(rank)
    BY <2>1
  <2>3. rank[Top.of] < rank[Visited]
    BY <1>2, <1>4, <2>2 DEF Ranks, After
  <2>4. Top.of = Main \/ rank[Main] < rank[Top.of]
    BY <1>2, <1>3, <2>2 DEF Ranks
  <2>5. \A q \in Pids : rank[q] \in 0 .. n
    OBVIOUS
  <2>6. \A q \in Pids : rank[q] \in Nat
    BY <2>5
  <2>7. rank[Top.of] \in Nat /\ rank[Visited] \in Nat /\ rank[Main] \in Nat
    BY <1>2, <1>4, <2>6
  <2> QED
    BY <2>3, <2>4, <2>7
<1>7. ASSUME Visited \notin adopted, Visited \in Counted
      PROVE  FALSE
  <2>1. ~Pending(Visited)
    BY <1>2, <1>4, <1>6, <1>7 DEF OnceParts, Past
  <2>2. Len(stack) \in 1 .. Len(stack)
    BY <1>1, <1>2, VisitedFacts DEF Shape
  <2> QED
    BY <1>2, <2>1, <2>2 DEF Pending, Top
<1> QED
  BY <1>2, <1>5, <1>6, <1>7

LEMMA OnceFindChild ==
  ASSUME Related, FindChild, UNCHANGED kernelVars, ~Reused, OnceParts
  PROVE  OnceParts'
<1>1. TypeOK /\ Shape /\ Kin
  BY DEF Related, Sane
<1>2. /\ Visited \in Pids /\ Top.at < Visited /\ Top.at \in Nat /\ Top.of \in Counted
      /\ Main' = Main /\ all_pids \in Seq(Pids) /\ all_pids # <<>>
      /\ \A i \in 1 .. Len(stack) : stack[i].of \in Counted
  <2>1. doing = "walk" /\ Visited \in Pids /\ Top.at < Visited /\ Top \in Frame /\ Top.of \in Counted
        /\ all_pids'[1] = Main
    BY <1>1, WalkFacts
  <2>2. Top.at \in Pids \union {NoPid}
    BY <2>1 DEF Frame
  <2> QED
    BY <1>1, <2>1, <2>2, PidNumbers DEF Main, Shape, TypeOK, MonitorTypeOK, Counted
<1>3. procs' = procs /\ Live' = Live /\ born' = born /\ adopted' = adopted
  BY DEF FindChild, historyVars, kernelVars, Live
<1>4. Found => all_pids' = Append(all_pids, Visited) /\ Counted' = Counted \union {Visited}
  BY <1>1, WalkFacts
<1>5. ~Found => all_pids' = all_pids /\ Counted' = Counted
  BY <1>1, WalkFacts
<1>6. Inherited'
  BY <1>3 DEF OnceParts, Inherited
<1>7. CountedTwice' /\ Descend'
  <2> DEFINE n == Len(all_pids)
  <2>1. /\ n \in Nat \ {0} /\ \A i \in 1 .. n : all_pids[i] \in Counted
    BY <1>2, EmptySeq, LenProperties DEF Counted, ToSet
  <2>2. CountedTwice /\ Descend
    BY DEF OnceParts
  <2>3. CASE ~Found
    BY <1>2, <1>3, <1>5, <2>2, <2>3 DEF CountedTwice, Descend
  <2>4. CASE Found
    <3>1. /\ Len(all_pids') = n + 1 /\ all_pids'[n + 1] = Visited
          /\ \A i \in 1 .. n : all_pids'[i] = all_pids[i]
      <4>1. all_pids' = Append(all_pids, Visited) /\ Visited \in Pids /\ all_pids \in Seq(Pids)
        BY <1>2, <1>4, <2>4
      <4>2. /\ Len(Append(all_pids, Visited)) = n + 1 /\ Append(all_pids, Visited)[n + 1] = Visited
            /\ \A i \in 1 .. n : Append(all_pids, Visited)[i] = all_pids[i]
        BY <4>1, AppendToSet
      <4> QED
        BY <4>1, <4>2
    <3>2. Visited \in born /\ (Visited \notin adopted => Visited \notin Counted)
      BY <2>4, NewlyFound
    <3> HIDE DEF n
    <3>3. \A i \in 1 .. n + 1 : i \in 1 .. n \/ i = n + 1
      BY <2>1
    <3>4. ASSUME NEW i \in 1 .. n + 1, NEW j \in 1 .. n + 1, i # j, all_pids'[i] = all_pids'[j]
          PROVE  all_pids'[i] \in adopted
      <4>1. CASE i \in 1 .. n /\ j \in 1 .. n
        BY <2>2, <3>1, <3>4, <4>1 DEF CountedTwice, n
      <4>2. CASE i = n + 1 /\ j \in 1 .. n
        BY <2>1, <3>1, <3>2, <3>4, <4>2
      <4>3. CASE j = n + 1 /\ i \in 1 .. n
        BY <2>1, <3>1, <3>2, <3>4, <4>3
      <4> QED
        BY <3>3, <3>4, <4>1, <4>2, <4>3
    <3>5. CountedTwice'
      BY <1>3, <3>1, <3>4 DEF CountedTwice
    <3>6. \A i \in 1 .. n + 1 : i # 1 => all_pids'[i] \in born
      BY <2>2, <3>1, <3>2, <3>3 DEF Descend, n
    <3>7. Descend'
      BY <1>2, <1>3, <2>2, <3>1, <3>6 DEF Descend
    <3> QED
      BY <3>5, <3>7
  <2> QED
    BY <2>3, <2>4
<1>8. ListedTwice'
  <2> SUFFICES ASSUME NEW i \in 1 .. Len(stack'), NEW j \in 1 .. Len(stack'), i # j, stack'[i].of = stack'[j].of
               PROVE  stack'[i].of \in adopted
    BY <1>3 DEF ListedTwice
  <2>1. \A k \in 1 .. Len(stack') :
          \/ k \in 1 .. Len(stack) /\ stack'[k].of = stack[k].of
          \/ Found /\ k = Len(Remaining) + 1 /\ stack'[k].of = Visited
    <3>1. Listing(Visited).of = Visited /\ Len(stack) \in Nat \ {0} /\ Top = stack[Len(stack)]
      <4>1. Len(stack) \in Nat \ {0}
        BY <1>1, <1>2, StackStep
      <4>2. Listing(Visited).of = Visited
        BY DEF Listing
      <4> QED
        BY <4>1, <4>2 DEF Top
    <3>2. \A k \in 1 .. Len(stack') :
            \/ k \in 1 .. Len(stack) - 1 /\ stack'[k] = stack[k]
            \/ k = Len(stack) /\ stack'[k].of = Top.of
            \/ Found /\ k = Len(Remaining) + 1 /\ stack'[k] = Listing(Visited)
      BY <1>1, <1>2, StackStep
    <3> SUFFICES ASSUME NEW k \in 1 .. Len(stack')
                 PROVE  \/ k \in 1 .. Len(stack) /\ stack'[k].of = stack[k].of
                        \/ Found /\ k = Len(Remaining) + 1 /\ stack'[k].of = Visited
      OBVIOUS
    <3>3. CASE k \in 1 .. Len(stack) - 1 /\ stack'[k] = stack[k]
      BY <3>1, <3>3
    <3>4. CASE k = Len(stack) /\ stack'[k].of = Top.of
      BY <3>1, <3>4
    <3>5. CASE Found /\ k = Len(Remaining) + 1 /\ stack'[k] = Listing(Visited)
      BY <3>1, <3>5
    <3> QED
      BY <3>2, <3>3, <3>4, <3>5
  <2>2. CASE i \in 1 .. Len(stack) /\ stack'[i].of = stack[i].of /\ j \in 1 .. Len(stack) /\ stack'[j].of = stack[j].of
    <3>1. \A a, b \in 1 .. Len(stack) : a # b /\ stack[a].of = stack[b].of => stack[a].of \in adopted
      BY DEF OnceParts, ListedTwice
    <3> QED
      BY <2>2, <3>1
  <2>3. CASE Found /\ stack'[i].of = Visited /\ \E k \in 1 .. Len(stack) : stack[k].of = Visited
    <3>1. Visited \in Counted
      BY <1>2, <2>3
    <3> QED
      BY <2>3, <3>1, NewlyFound
  <2> QED
    BY <2>1, <2>2, <2>3
<1>9. Past'
  <2> SUFFICES ASSUME NEW p \in Live, p \notin adopted, p \in Counted', p # Main, procs[p].ppid # Reaper
               PROVE  procs[p].ppid \in Counted' /\ ~Pending(p)'
    BY <1>2, <1>3 DEF Past
  <2>0. p \in Pids
    BY DEF Live
  <2>1. CASE p \in Counted
    <3>1. procs[p].ppid \in Counted /\ ~Pending(p)
      BY <2>1 DEF OnceParts, Past
    <3>2. ASSUME Pending(p)' PROVE FALSE
      <4>1. PICK i \in 1 .. Len(stack') : stack'[i].of = procs[p].ppid /\ stack'[i].at < p
        BY <1>3, <3>2 DEF Pending
      <4>2. CASE i \in 1 .. Len(stack) - 1 /\ stack'[i] = stack[i]
        <5>1. i \in 1 .. Len(stack)
          BY <1>1, <4>2, StackStep
        <5> QED
          BY <3>1, <4>1, <4>2, <5>1 DEF Pending
      <4>3. CASE i = Len(stack) /\ stack'[i].of = Top.of /\ stack'[i].at = Visited
        <5>1. Len(stack) \in 1 .. Len(stack)
          BY <1>1, StackStep
        <5>2. Top.at < p /\ Top.of = procs[p].ppid
          BY <1>2, <2>0, <4>1, <4>3, PidNumbers
        <5> QED
          BY <3>1, <5>1, <5>2 DEF Pending, Top
      <4>4. CASE Found /\ stack'[i] = Listing(Visited)
        <5>1. procs[p].ppid = Visited
          BY <1>2, <4>1, <4>4, ListingFacts
        <5>2. Visited \notin adopted
          BY <5>1 DEF OnceParts, Inherited
        <5> QED
          BY <3>1, <4>4, <5>1, <5>2, NewlyFound
      <4> QED
        BY <1>1, <4>2, <4>3, <4>4, StackStep
    <3> QED
      BY <1>4, <1>5, <3>1, <3>2
  <2>2. CASE p \notin Counted
    <3>1. Found /\ p = Visited /\ procs[p].ppid = Top.of
      BY <1>4, <1>5, <2>2 DEF Found
    <3>2. Top.of \notin adopted
      BY <3>1 DEF OnceParts, Inherited
    <3>3. ASSUME Pending(p)' PROVE FALSE
      <4>1. PICK i \in 1 .. Len(stack') : stack'[i].of = Top.of /\ stack'[i].at < p
        BY <1>3, <3>1, <3>3 DEF Pending
      <4>2. CASE i \in 1 .. Len(stack) - 1 /\ stack'[i] = stack[i]
        <5>1. i \in 1 .. Len(stack) /\ Len(stack) \in 1 .. Len(stack) /\ i # Len(stack)
          BY <1>1, <4>2, StackStep
        <5> QED
          BY <3>2, <4>1, <4>2, <5>1 DEF OnceParts, ListedTwice, Top
      <4>3. CASE stack'[i].at = Visited
        BY <1>2, <3>1, <4>1, <4>3, PidNumbers
      <4>4. CASE Found /\ stack'[i] = Listing(Visited)
        BY <1>2, <4>1, <4>4, ListingFacts, NewlyFound
      <4> QED
        BY <1>1, <4>2, <4>3, <4>4, StackStep
    <3> QED
      BY <1>2, <1>4, <3>1, <3>3
  <2> QED
    BY <2>1, <2>2
<1> QED
  BY <1>6, <1>7, <1>8, <1>9 DEF OnceParts

LEMMA OnceStart ==
  ASSUME Related, StartTarget, doing' = "walk", UNCHANGED kernelVars
  PROVE  OnceParts'
<1>1. /\ Main' \in Pids /\ all_pids' = <<Main'>> /\ Counted' = {Main'} /\ stack' = <<Listing(Main')>>
      /\ born' = Family(Main') /\ adopted' = {} /\ procs' = procs /\ Live' = Live
  BY StartFacts DEF Related, kernelVars, Live
<1>2. Inherited'
  BY <1>1, FamilyFacts DEF Inherited
<1>3. Len(all_pids') = 1 /\ Len(stack') = 1 /\ \A i, j \in 1 .. 1 : i = j /\ i = 1
  BY <1>1
<1>4. CountedTwice' /\ ListedTwice' /\ Past'
  BY <1>1, <1>3 DEF CountedTwice, ListedTwice, Past
<1>5. Descend'
  BY <1>1, <1>3, FamilyFacts DEF Descend
<1> QED
  BY <1>2, <1>4, <1>5 DEF OnceParts

LEMMA OnceSameParents ==
  ASSUME OnceParts, \A q \in Pids : procs'[q].live = procs[q].live /\ procs'[q].ppid = procs[q].ppid,
         UNCHANGED <<all_pids, stack, born, adopted>>
  PROVE  OnceParts'
<1>1. Live' = Live /\ Live \subseteq Pids /\ Main' = Main /\ Counted' = Counted
  BY DEF Live, Main, Counted
<1>2. \A q \in Live : procs'[q].ppid = procs[q].ppid /\ (Pending(q)' <=> Pending(q))
  BY <1>1 DEF Pending
<1>3. Inherited' /\ CountedTwice' /\ ListedTwice'
  BY <1>1, <1>2 DEF OnceParts, Inherited, CountedTwice, ListedTwice
<1>4. Past' /\ Descend'
  BY <1>1, <1>2 DEF OnceParts, Past, Descend
<1> QED
  BY <1>3, <1>4 DEF OnceParts

LEMMA OnceForks ==
  ASSUME Related, Forks, doing = "walk", ~Reused', OnceParts
  PROVE  OnceParts' /\ ~Reused
<1>1. PICK p \in Pids, c \in Pids : Fork(p, c) /\ ForkSeen(p, c)
  BY DEF Forks
<1>2. /\ p \in Live /\ c \notin Live /\ p # c /\ Live' = Live \union {c}
      /\ procs'[c].ppid = p /\ procs'[c].life = procs[c].life + 1
      /\ \A q \in Pids \ {c} : procs'[q] = procs[q]
  BY <1>1, ForkFacts DEF Related, Sane, TypeOK
<1>3. /\ UNCHANGED <<all_pids, stack>>
      /\ born' = IF p \in born THEN born \union {c} ELSE born
      /\ adopted' = IF p \in adopted THEN adopted \union {c} ELSE adopted
  BY <1>1 DEF ForkSeen, scanVars
<1>4. Main' = Main /\ Counted' = Counted
  BY <1>3 DEF Main, Counted
<1>5. \A q \in Pids : procs[q].life \in Nat
  BY DEF Related, Sane, TypeOK, ProcessesTypeOK, Process
<1>6. procs[c].life = 0 /\ ~Reused
  <2>1. \A q \in Pids : ~(procs'[q].life > 1)
    BY DEF Reused
  <2>2. ~(procs[c].life + 1 > 1) /\ procs[c].life \in Nat
    BY <1>2, <1>5, <2>1
  <2>3. procs[c].life = 0
    BY <2>2
  <2>4. \A q \in Pids : ~(procs[q].life > 1)
    BY <1>2, <2>1, <2>3
  <2> QED
    BY <2>3, <2>4 DEF Reused
<1>7. c \notin Counted /\ c # Main
  <2>1. all_pids \in Seq(Pids) /\ all_pids # <<>>
    BY DEF Related, Sane, Shape, TypeOK, MonitorTypeOK
  <2>2. DOMAIN all_pids = 1 .. Len(all_pids) /\ 1 \in 1 .. Len(all_pids)
    BY <2>1, EmptySeq, LenProperties
  <2>3. \A i \in 1 .. Len(all_pids) : procs[all_pids[i]].life > 0
    BY DEF Related, Sane, Lived
  <2>4. \A i \in 1 .. Len(all_pids) : all_pids[i] # c
    BY <1>6, <2>3
  <2> QED
    BY <2>2, <2>4 DEF Counted, ToSet, Main
<1>8. \A q \in Live : q \in Pids /\ q # c /\ procs'[q].ppid = procs[q].ppid /\ procs[q].ppid # c
  <2>1. \A q \in Live : q \in Pids /\ q # c
    BY <1>2 DEF Live
  <2>2. \A q \in Live : procs[q].ppid # c
    BY <1>2, PidNumbers DEF Related, Kin
  <2> QED
    BY <1>2, <2>1, <2>2
<1>9. Inherited'
  <2>1. \A q \in Live : (procs[q].ppid \in adopted => q \in adopted) /\ (procs[q].ppid \in born => q \in born)
    BY DEF OnceParts, Inherited
  <2>2. \A q \in Live : (procs'[q].ppid \in adopted' => q \in adopted') /\ (procs'[q].ppid \in born' => q \in born')
    BY <1>3, <1>8, <2>1
  <2>3. (procs'[c].ppid \in adopted' => c \in adopted') /\ (procs'[c].ppid \in born' => c \in born')
    BY <1>2, <1>3
  <2> QED
    BY <1>2, <2>2, <2>3 DEF Inherited
<1>10. CountedTwice' /\ ListedTwice'
  BY <1>3 DEF OnceParts, CountedTwice, ListedTwice
<1>11. Past'
  <2> SUFFICES ASSUME NEW q \in Live' \ adopted', q \in Counted \ {Main}, procs'[q].ppid # Reaper
               PROVE  procs'[q].ppid \in Counted /\ ~Pending(q)'
    BY <1>4 DEF Past
  <2>1. q \in Live \ adopted /\ procs'[q].ppid = procs[q].ppid
    BY <1>2, <1>3, <1>7, <1>8
  <2>2. procs[q].ppid \in Counted /\ ~Pending(q)
    BY <2>1 DEF OnceParts, Past
  <2> QED
    BY <1>3, <2>1, <2>2 DEF Pending
<1>12. Descend'
  BY <1>2, <1>3, <1>4, <1>7 DEF OnceParts, Descend
<1> QED
  BY <1>6, <1>9, <1>10, <1>11, <1>12 DEF OnceParts

LEMMA OnceExits ==
  ASSUME Related, Exits, doing = "walk", OnceParts
  PROVE  OnceParts'
<1>1. PICK p \in Pids : Exit(p) /\ ExitSeen(p)
  BY DEF Exits
<1>2. /\ p \in Live /\ Live' = Live \ {p}
      /\ \A q \in Live' : procs'[q].ppid = IF procs[q].ppid = p THEN Guardian(p) ELSE procs[q].ppid
  BY <1>1, ExitFacts DEF Related, Sane, TypeOK
<1>3. /\ UNCHANGED <<all_pids, stack, born>>
      /\ adopted' = IF Guardian(p) # Reaper THEN adopted \union UNION {Family(c) : c \in Children(p)} ELSE adopted
  BY <1>1 DEF ExitSeen, scanVars
<1>4. Main' = Main /\ Counted' = Counted /\ adopted \subseteq adopted'
  BY <1>3 DEF Main, Counted
<1>5. Guardian(p) = Reaper \/ (Guardian(p) \in Live \ {p} /\ p \in Family(Guardian(p)))
  BY <1>2, GuardianFacts DEF Related, Sane
<1>6. born \subseteq Pids /\ Reaper \notin born
  BY PidNumbers DEF Related, Sane, TypeOK, MonitorTypeOK
<1>7. Reaper \notin adopted'
  <2>1. adopted \subseteq Pids
    BY DEF Related, Sane, TypeOK, MonitorTypeOK
  <2> QED
    BY <1>3, <2>1, PidNumbers, FamilyLive
<1>8. ASSUME NEW q \in Live', procs[q].ppid = p, Guardian(p) # Reaper
      PROVE  q \in adopted'
  <2>1. q \in Live /\ q \in Children(p) /\ q \in Family(q)
    BY <1>2, <1>8, FamilyFacts DEF Children
  <2> QED
    BY <1>3, <1>8, <2>1
<1>9. \A q \in Live : (procs[q].ppid \in adopted => q \in adopted) /\ (procs[q].ppid \in born => q \in born)
  BY DEF OnceParts, Inherited
<1>10. Inherited'
  <2> SUFFICES ASSUME NEW q \in Live'
               PROVE  /\ procs'[q].ppid \in adopted' => q \in adopted'
                      /\ procs'[q].ppid \in born => q \in born
    BY <1>3 DEF Inherited
  <2>1. q \in Live
    BY <1>2
  <2>2. CASE procs[q].ppid = p
    <3>1. procs'[q].ppid = Guardian(p)
      BY <1>2, <2>2
    <3>2. CASE Guardian(p) = Reaper
      BY <1>6, <1>7, <3>1, <3>2
    <3>3. CASE Guardian(p) # Reaper
      <4>1. q \in adopted'
        BY <1>8, <2>2, <3>3
      <4>2. ASSUME Guardian(p) \in born PROVE q \in born
        <5> DEFINE F == born \intersect Live
        <5>1. F \in SUBSET Live /\ Guardian(p) \in F
          BY <1>5, <3>3, <4>2
        <5>2. \A x \in Live : procs[x].ppid \in F => x \in F
          BY <1>9
        <5>3. Family(Guardian(p)) \subseteq F
          <6> HIDE DEF F
          <6> QED
            BY <5>1, <5>2, FamilyLeast
        <5>4. p \in born
          BY <1>5, <3>3, <5>3
        <5> QED
          BY <1>9, <2>1, <2>2, <5>4
      <4> QED
        BY <3>1, <4>1, <4>2
    <3> QED
      BY <3>2, <3>3
  <2>3. CASE procs[q].ppid # p
    <3>1. procs'[q].ppid = procs[q].ppid
      BY <1>2, <2>3
    <3>2. ASSUME procs[q].ppid \in adopted' PROVE q \in adopted'
      <4>1. CASE procs[q].ppid \in adopted
        BY <1>4, <1>9, <2>1, <4>1
      <4>2. CASE procs[q].ppid \notin adopted
        <5>1. Guardian(p) # Reaper /\ \E c \in Children(p) : procs[q].ppid \in Family(c)
          BY <1>3, <3>2, <4>2
        <5>2. \E c \in Children(p) : q \in Family(c)
          BY <2>1, <5>1, FamilyFacts
        <5> QED
          BY <1>3, <5>1, <5>2
      <4> QED
        BY <4>1, <4>2
    <3> QED
      BY <1>9, <2>1, <3>1, <3>2
  <2> QED
    BY <2>2, <2>3
<1>11. CountedTwice' /\ ListedTwice'
  BY <1>3, <1>4 DEF OnceParts, CountedTwice, ListedTwice
<1>12. Past'
  <2> SUFFICES ASSUME NEW q \in Live' \ adopted', q \in Counted \ {Main}, procs'[q].ppid # Reaper
               PROVE  procs'[q].ppid \in Counted /\ ~Pending(q)'
    BY <1>4 DEF Past
  <2>1. q \in Live \ adopted /\ procs'[q].ppid = procs[q].ppid
    BY <1>2, <1>4, <1>8
  <2>2. procs[q].ppid \in Counted /\ ~Pending(q)
    BY <2>1 DEF OnceParts, Past
  <2> QED
    BY <1>3, <2>1, <2>2 DEF Pending
<1>13. Descend'
  BY <1>2, <1>3, <1>4 DEF OnceParts, Descend
<1> QED
  BY <1>10, <1>11, <1>12, <1>13 DEF OnceParts

LEMMA OnceCounts == TypeOK /\ all_pids # <<>> /\ OnceParts => FamilyCountedOnce
<1> SUFFICES ASSUME TypeOK, all_pids # <<>>, OnceParts
             PROVE  /\ ToSet(Tail(all_pids)) \subseteq born
                    /\ \A i, j \in 1 .. Len(all_pids) : i # j /\ all_pids[i] = all_pids[j] => all_pids[i] \in adopted
  BY DEF FamilyCountedOnce
<1>1. all_pids \in Seq(Pids)
  BY DEF TypeOK, MonitorTypeOK
<1>2. ToSet(Tail(all_pids)) = {all_pids[i] : i \in 2 .. Len(all_pids)}
  BY <1>1, TailSet
<1>3. \A i \in 2 .. Len(all_pids) : i \in 1 .. Len(all_pids) /\ i # 1
  OBVIOUS
<1>4. \A i \in 2 .. Len(all_pids) : all_pids[i] \in born
  BY <1>3 DEF OnceParts, Descend
<1> QED
  BY <1>2, <1>4 DEF OnceParts, CountedTwice

\* A pid used twice has been used twice ever after.
LEMMA ReusedStays == ASSUME Sane, [Next]_vars, ~Reused' PROVE ~Reused
<1> SUFFICES \A q \in Pids : procs[q].life <= procs'[q].life
  <2>1. \A q \in Pids : procs[q].life \in Nat /\ procs'[q].life \in Nat
    BY SaneNext DEF Sane, TypeOK, ProcessesTypeOK, Process
  <2> QED
    BY <2>1 DEF Reused
<1>0. \A q \in Pids : procs[q].life \in Nat
  BY DEF Sane, TypeOK, ProcessesTypeOK, Process
<1>1. CASE Forks
  <2>1. PICK p \in Pids, c \in Pids : Fork(p, c)
    BY <1>1 DEF Forks
  <2>2. procs'[c].life = procs[c].life + 1 /\ \A q \in Pids \ {c} : procs'[q] = procs[q]
    BY <2>1, ForkFacts DEF Sane, TypeOK
  <2> QED
    BY <1>0, <2>2
<1>2. CASE Execs
  <2>1. PICK p \in Pids, comm \in Comms : Exec(p, comm) /\ ExecSeen(p, comm)
    BY <1>2 DEF Execs
  <2> QED
    BY <1>0, <2>1, ExecFacts DEF Sane, TypeOK
<1>3. CASE Exits
  <2>1. PICK p \in Pids : Exit(p)
    BY <1>3 DEF Exits
  <2> QED
    BY <1>0, <2>1, ExitFacts DEF Sane, TypeOK
<1>4. CASE Elapses
  <2>1. PICK busy \in SUBSET Live : Elapse(busy)
    BY <1>4 DEF Elapses
  <2> QED
    BY <1>0, <2>1, ElapseFacts DEF Sane, TypeOK, Timely
<1>5. CASE Names \/ Monitors \/ UNCHANGED vars
  <2>1. procs' = procs
    BY <1>5 DEF Names, Monitors, MonitorStep, vars, kernelVars
  <2> QED
    BY <1>0, <2>1
<1> QED
  BY <1>1, <1>2, <1>3, <1>4, <1>5 DEF Next

LEMMA OnceMonitors == ASSUME Related, Once, FamilyCountedOnce, Monitors PROVE Once' /\ FamilyCountedOnce'
<1>1. UNCHANGED kernelVars /\ (Tick \/ FindTarget \/ StartTarget \/ FindChild \/ TakeSample)
  BY DEF Monitors, MonitorStep
<1>2. Reused' <=> Reused
  BY <1>1 DEF Reused, kernelVars
<1>3. CASE Tick \/ FindTarget
  <2>1. doing' \notin {"walk", "sample"}
    BY <1>3 DEF Tick, FindTarget
  <2> QED
    BY <2>1 DEF Once, FamilyCountedOnce, Walked
<1>4. CASE TakeSample
  <2>1. doing = "sample" /\ doing' # "walk" /\ UNCHANGED <<config, all_pids, born, adopted>>
    BY <1>4 DEF TakeSample, historyVars
  <2> QED
    BY <1>2, <2>1 DEF Once, FamilyCountedOnce, Walked
<1>5. CASE StartTarget
  <2>1. doing' = "sample" => ~config'.include_children
    BY <1>5, StartFacts DEF Related
  <2> QED
    BY <1>1, <1>5, <2>1, OnceStart DEF Once, FamilyCountedOnce, Walked
<1>6. CASE FindChild
  <2>1. doing = "walk" /\ all_pids' # <<>>
    BY <1>6, WalkFacts DEF Related, Sane
  <2>2. ASSUME ~Reused PROVE OnceParts'
    BY <1>1, <1>6, <2>1, <2>2, OnceFindChild DEF Once
  <2>3. TypeOK'
    <3>1. Next
      BY DEF Next
    <3> QED
      BY <3>1, SaneNext DEF Related, Sane
  <2>4. (TypeOK /\ all_pids # <<>> /\ OnceParts => FamilyCountedOnce)'
    BY OnceCounts, PTL
  <2>5. Reused' => FamilyCountedOnce'
    BY DEF FamilyCountedOnce
  <2> QED
    BY <1>2, <2>1, <2>2, <2>3, <2>4, <2>5 DEF Once
<1> QED
  BY <1>1, <1>3, <1>4, <1>5, <1>6

\* As long as no pid is used twice, a sample counts no process that does not
\* descend from its target, and none twice but who was adopted while the
\* directories were read, or descends from who was.
THEOREM FamilyIsCountedOnce == Spec => []FamilyCountedOnce
<1> DEFINE I == Related /\ Once /\ FamilyCountedOnce
<1>1. Init => I
  <2>1. Init => doing = "wait"
    BY DEF Init, MonitorInit
  <2> QED
    BY <2>1, RelatedInit DEF Once, FamilyCountedOnce, Walked
<1>2. I /\ [Next]_vars => I'
  <2> SUFFICES ASSUME Related, Once, FamilyCountedOnce, [Next]_vars
               PROVE  Once' /\ FamilyCountedOnce'
    BY RelatedNext
  <2>1. ~Reused' => ~Reused
    BY ReusedStays DEF Related
  <2>2. CASE Monitors
    BY <2>2, OnceMonitors
  <2>3. CASE ~Monitors
    <3>1. UNCHANGED <<doing, config, all_pids, stack>> /\ (doing # "walk" => UNCHANGED <<born, adopted>>)
      <4>1. CASE Forks
        BY <4>1 DEF Forks, ForkSeen, scanVars
      <4>2. CASE Exits
        BY <4>2 DEF Exits, ExitSeen, scanVars
      <4>3. CASE Execs \/ Names \/ Elapses \/ UNCHANGED vars
        BY <4>3 DEF Execs, ExecSeen, Names, Elapses, vars, monitorVars, scanVars, historyVars
      <4> QED
        BY <2>3, <4>1, <4>2, <4>3 DEF Next
    <3>2. CASE doing # "walk"
      BY <2>1, <3>1, <3>2 DEF Once, FamilyCountedOnce, Walked
    <3>3. CASE doing = "walk"
      <4>1. FamilyCountedOnce'
        BY <3>1, <3>3 DEF FamilyCountedOnce, Walked
      <4>2. CASE Forks
        BY <3>3, <2>1, <4>1, <4>2, OnceForks DEF Once
      <4>3. CASE Exits
        BY <3>3, <2>1, <4>1, <4>3, OnceExits DEF Once
      <4>4. CASE Execs \/ Names \/ Elapses \/ UNCHANGED vars
        <5>1. UNCHANGED <<born, adopted>>
          BY <4>4 DEF Execs, ExecSeen, Names, Elapses, vars, monitorVars, historyVars
        <5>2. \A q \in Pids : procs'[q].live = procs[q].live /\ procs'[q].ppid = procs[q].ppid
          <6>1. CASE Execs
            <7>1. PICK p \in Pids, comm \in Comms : Exec(p, comm) /\ ExecSeen(p, comm)
              BY <6>1 DEF Execs
            <7> QED
              BY <7>1, ExecFacts DEF Related, Sane, TypeOK
          <6>2. CASE Elapses
            <7>1. PICK busy \in SUBSET Live : Elapse(busy)
              BY <6>2 DEF Elapses
            <7> QED
              BY <7>1, ElapseFacts DEF Related, Sane, TypeOK, Timely
          <6>3. CASE Names \/ UNCHANGED vars
            BY <6>3 DEF Names, vars, kernelVars
          <6> QED
            BY <4>4, <6>1, <6>2, <6>3
        <5>3. ~Reused' => OnceParts'
          BY <2>1, <3>1, <3>3, <5>1, <5>2, OnceSameParents DEF Once
        <5> QED
          BY <4>1, <5>3 DEF Once
      <4> QED
        BY <2>3, <4>2, <4>3, <4>4 DEF Next
    <3> QED
      BY <3>2, <3>3
  <2> QED
    BY <2>2, <2>3
<1>3. I => FamilyCountedOnce
  OBVIOUS
<1> QED
  BY <1>1, <1>2, <1>3, PTL DEF Spec
=============================================================================
