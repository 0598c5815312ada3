----------------------------- MODULE PidTracker -----------------------------
(***************************************************************************)
(* The tracker as its callers use it: pids are added by the scan of /proc  *)
(* and by EXEC events and removed by EXIT events, in any order.  The       *)
(* history variables say what a caller may believe: members is the set of  *)
(* pids added and not removed since, cut tells whether some removal emptied *)
(* a slot on the probe sequence of another entry.                          *)
(***************************************************************************)
EXTENDS PidTable

VARIABLES
  table,     \* the tracker's entries
  members,   \* history: pids successfully added and not removed since
  cut        \* history: a removal has cut another entry's probe sequence

vars == <<table, members, cut>>

TypeOK ==
  /\ table \in Table
  /\ members \subseteq Pids
  /\ cut \in BOOLEAN

\* pid_tracker_init
Init ==
  /\ table = EmptyTable
  /\ members = {}
  /\ cut = FALSE

Add(p) ==
  /\ table' = AddPid(table, p)
  /\ members' = IF AddSucceeds(table, p) THEN members \union {p} ELSE members
  /\ UNCHANGED cut

Remove(p) ==
  /\ table' = RemovePid(table, p)
  /\ members' = members \ {p}
  /\ cut' = (cut \/ (Tracked(table, p) /\ CutsChain(RemovePid(table, p), SlotOf(table, p))))

Next == \E p \in Pids : Add(p) \/ Remove(p)

Spec == Init /\ [][Next]_vars

-----------------------------------------------------------------------------

\* Until a removal cuts a probe sequence, the pids that look-ups find are
\* exactly the pids added and not removed: the table implements a set.
ExactUntilCut == ~cut => TrackedPids(table) = members

\* pid_tracker_remove leaves its pid untracked, even when earlier cuts let the
\* pid occupy several slots.
RemoveUntracks == [][\A p \in Pids : Remove(p) => ~Tracked(table', p)]_vars

\* pid_tracker_add never makes another tracked pid unreachable.
AddKeepsOthers ==
  [][\A p \in Pids : Add(p) => TrackedPids(table) \subseteq TrackedPids(table')]_vars

\* What pid_tracker_add would return can be believed in every reachable table:
\* true exactly when its pid is tracked afterwards, false only when every slot
\* is taken.
AddReportsTruth ==
  \A p \in Pids :
    /\ AddSucceeds(table, p) <=> Tracked(AddPid(table, p), p)
    /\ AddSucceeds(table, p) \/ \A s \in Slots : table[s] # Free

\* What test_integration_scenario asserts after removing one pid ("bash should
\* still be tracked"): the exit of a process leaves the others tracked.
RemoveKeepsOthers ==
  [][\A p \in Pids : Remove(p) =>
       \A q \in Pids \ {p} : Tracked(table, q) => Tracked(table', q)]_vars

-----------------------------------------------------------------------------

\* The strengthening that makes ExactUntilCut inductive: what is in the slots is
\* what was added and not removed, and look-ups find it.
IInv == ~cut => Proper(table) /\ Held(table) = members

\* A step adds no pid while another tracked pid has its home slot.
NoClash == \A p \in Pids : Add(p) => \A q \in members : Hash(q) = Hash(p) => q = p

\* While no step clashes, every entry sits at its home slot.
AtHome == \A s \in Slots : table[s] # Free => Hash(table[s]) = s
==============================================================================
