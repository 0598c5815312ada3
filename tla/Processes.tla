------------------------------ MODULE Processes ------------------------------
(***************************************************************************)
(* The kernel's processes as collector/src/framework/runners/system.rs     *)
(* finds them in /proc: who is there, whose child each is, its command     *)
(* name and the CPU time it has used.  Time is in hundredths of a second,  *)
(* the unit of /proc/uptime and of utime and stime alike, so that a        *)
(* process of one thread uses at most one unit of CPU in a unit of time.   *)
(* An exit and the parent's wait for it are one step.                      *)
(***************************************************************************)
EXTENDS Naturals, FiniteSets

CONSTANTS
  Pids,        \* the pids in play
  Adopter,     \* the process that adopts orphans among its descendants, or Reaper
  Existing,    \* the tables of processes there may be at the start
  Comms,       \* command names
  Cores,       \* processors
  MaxClock,    \* bound: last instant
  MaxLives,    \* bound: processes that have one pid after the other
  MaxOps       \* bound: forks, execs and exits

Reaper == 1
NoPid == 0

ASSUME ProcessesAssumption ==
  /\ Pids \subseteq Nat \ {NoPid, Reaper} /\ Pids # {}
  /\ Adopter \in Pids \union {Reaper}
  /\ IsFiniteSet(Pids)
  /\ Cores \in Nat
  /\ MaxClock \in Nat \ {0} /\ MaxOps \in Nat
  /\ MaxLives \in Nat \ {0}

Process ==
  [live : BOOLEAN, ppid : Pids \union {Reaper}, comm : Comms, cpu : 0 .. MaxClock, life : 0 .. MaxLives]

NoProcess == [live |-> FALSE, ppid |-> Reaper, comm |-> CHOOSE c \in Comms : TRUE, cpu |-> 0, life |-> 0]

\* Processes that have parents, and of which none descends from itself.
Forest(table) ==
  /\ \A p \in Pids : table[p].live => table[p].life > 0 /\ (table[p].ppid = Reaper \/ table[table[p].ppid].live)
  /\ \E depth \in [Pids -> 0 .. Cardinality(Pids)] :
       \A p \in Pids : table[p].live /\ table[p].ppid # Reaper => depth[table[p].ppid] < depth[p]

\* At the first instant, none has used more CPU than there was.
ASSUME ExistingAssumption ==
  Existing \subseteq {table \in [Pids -> Process] : Forest(table) /\ \A p \in Pids : table[p].cpu <= 1}

VARIABLES
  procs,   \* pid -> the process that has it, or had it last
  clock,   \* /proc/uptime
  ops      \* forks, execs and exits so far

kernelVars == <<procs, clock, ops>>

ProcessesTypeOK ==
  /\ procs \in [Pids -> Process]
  /\ clock \in 1 .. MaxClock
  /\ ops \in 0 .. MaxOps

ProcessesInit == procs \in Existing /\ clock = 1 /\ ops = 0

Live == {p \in Pids : procs[p].live}

\* A process with its children, their children and so on, as far as they are
\* among some processes.
FamilyAmong(root, some) ==
  LET closed == {F \in SUBSET Live : root \in F /\ \A p \in some : procs[p].ppid \in F => p \in F}
  IN  {p \in Live : root \in Live /\ \A F \in closed : p \in F}

Family(root) == FamilyAmong(root, Live)

Children(p) == {c \in Live : procs[c].ppid = p}

\* A pid has been given to a second process.
Reused == \E p \in Pids : procs[p].life > 1

-----------------------------------------------------------------------------

Operation == ops < MaxOps /\ ops' = ops + 1

Fork(p, c) ==
  /\ Operation
  /\ p \in Live /\ c \notin Live
  /\ procs[c].life < MaxLives
  /\ procs' = [procs EXCEPT ![c] =
       [live |-> TRUE, ppid |-> p, comm |-> procs[p].comm, cpu |-> 0, life |-> procs[c].life + 1]]
  /\ UNCHANGED clock

Exec(p, comm) ==
  /\ Operation
  /\ p \in Live
  /\ procs' = [procs EXCEPT ![p].comm = comm]
  /\ UNCHANGED clock

\* Who gets the children that p leaves behind.
Guardian(p) == IF Adopter \in Pids /\ p # Adopter /\ p \in Family(Adopter) THEN Adopter ELSE Reaper

Exit(p) ==
  /\ Operation
  /\ p \in Live
  /\ procs' = [q \in Pids |->
       IF q = p THEN [procs[q] EXCEPT !.live = FALSE]
       ELSE IF q \in Children(p) THEN [procs[q] EXCEPT !.ppid = Guardian(p)]
       ELSE procs[q]]
  /\ UNCHANGED clock

\* Time passes, and some of the processes run.
Elapse(busy) ==
  /\ clock < MaxClock
  /\ clock' = clock + 1
  /\ busy \subseteq Live /\ Cardinality(busy) <= Cores
  /\ procs' = [p \in Pids |-> IF p \in busy THEN [procs[p] EXCEPT !.cpu = @ + 1] ELSE procs[p]]
  /\ UNCHANGED ops
==============================================================================
