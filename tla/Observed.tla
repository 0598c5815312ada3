------------------------------ MODULE Observed -------------------------------
(***************************************************************************)
(* Processes seen from outside by one of two commands of the collector:    *)
(* "system" samples them with the system monitor, "process" prints the     *)
(* lines that the web page draws a tree from.                              *)
(***************************************************************************)
EXTENDS SystemMonitor, ProcessTree

CONSTANT MaxMonitored   \* bound: forks, execs and exits under the monitor

ASSUME ObservedAssumption == MaxMonitored \in Nat

VARIABLE command   \* the command given

vars == <<command, kernelVars, monitorVars, treeVars>>

TypeOK ==
  /\ command \in {"system", "process"}
  /\ ProcessesTypeOK /\ MonitorTypeOK /\ TreeTypeOK

Init == command \in {"system", "process"} /\ ProcessesInit /\ MonitorInit /\ TreeInit

Told(p) == IF command = "process" THEN ToldParent(p) ELSE UNCHANGED treeVars

Bounded == command = "system" => ops < MaxMonitored

Forks ==
  /\ Bounded
  /\ \E p, c \in Pids : Fork(p, c) /\ ForkSeen(p, c)
  /\ UNCHANGED <<command, treeVars>>

\* The tree does not look at names.
Execs ==
  /\ Bounded
  /\ \E p \in Pids, comm \in Comms :
       /\ command = "process" => comm = procs[p].comm
       /\ Exec(p, comm) /\ ExecSeen(p, comm) /\ Told(p)
  /\ UNCHANGED command

Exits ==
  /\ Bounded
  /\ \E p \in Pids : Exit(p) /\ ExitSeen(p) /\ Told(p)
  /\ UNCHANGED command

Names ==
  /\ command = "process"
  /\ \E p \in Pids : ToldName(p)
  /\ UNCHANGED <<command, kernelVars, monitorVars>>

Elapses ==
  /\ command = "system"
  /\ \E busy \in SUBSET Live : Elapse(busy)
  /\ UNCHANGED <<command, monitorVars, treeVars>>

Monitors == command = "system" /\ MonitorStep /\ UNCHANGED <<command, treeVars>>

Next == Forks \/ Execs \/ Exits \/ Names \/ Elapses \/ Monitors

Spec == Init /\ [][Next]_vars
==============================================================================
