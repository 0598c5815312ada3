----------------------------- MODULE ProcessTree -----------------------------
(***************************************************************************)
(* The process tree of the web page: buildProcessTree of                   *)
(* frontend/src/utils/eventParsers.ts, which reads a log from its first    *)
(* line to its last and keeps for each pid the parent it was told last.    *)
(* EXEC and EXIT lines carry a parent, other lines only name the process.  *)
(***************************************************************************)
EXTENDS Processes

VARIABLE processMap   \* pid -> whether a line named it, and the parent told last

treeVars == <<processMap>>

Node == [seen : BOOLEAN, ppid : Pids \union {NoPid, Reaper}]

TreeTypeOK == processMap \in [Pids -> Node]

TreeInit == processMap = [p \in Pids |-> [seen |-> FALSE, ppid |-> NoPid]]

\* An EXEC or EXIT line, with the parent of that moment.
ToldParent(p) == processMap' = [processMap EXCEPT ![p] = [seen |-> TRUE, ppid |-> procs[p].ppid]]

\* Any other line of a process: FILE_OPEN, BASH_READLINE, or of the sniffer.
ToldName(p) ==
  /\ p \in Live
  /\ processMap' = [processMap EXCEPT ![p].seen = TRUE]

-----------------------------------------------------------------------------

Nodes == {p \in Pids : processMap[p].seen}

\* A mutant: a parent of which no line was seen is not asked for.
AttachedBlindly(p) == processMap[p].ppid # NoPid

\* childProcesses: a node is put under its parent if that is a node too.
Attached(p) == processMap[p].ppid # NoPid /\ processMap[p].ppid \in Nodes

RootProcesses == {p \in Nodes : ~Attached(p)}

\* What the page draws: the roots, and what is under something drawn.
Drawn ==
  LET closed == {D \in SUBSET Nodes : /\ RootProcesses \subseteq D
                                      /\ \A p \in Nodes : Attached(p) /\ processMap[p].ppid \in D => p \in D}
  IN  {p \in Nodes : \A D \in closed : p \in D}

\* Every process of which the log has a line is in the tree, below a root.  In
\* particular no process is its own ancestor, on which getEarliestTimestamp
\* would recurse without end.  Once a pid has been used twice it may be: the
\* nodes are pids, and their parents' lines are of different times.
AllDrawn == ~Reused => Nodes \subseteq Drawn
==============================================================================
