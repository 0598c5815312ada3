----------------------------- MODULE MCObserved ------------------------------
(***************************************************************************)
(* An agent 3, which adopts orphans, with a child 4, or with a child 2     *)
(* and its child 4, or with a child 2 of a name that is misread: children  *)
(* come before and after their parents in /proc.                           *)
(***************************************************************************)
EXTENDS Observed

MCComms == {"claude", "bash", "npm exec"}

Running(ppid, comm) == [NoProcess EXCEPT !.live = TRUE, !.ppid = ppid, !.comm = comm, !.life = 1]

Tree(parents, comms) ==
  [p \in Pids |-> IF p \in DOMAIN parents THEN Running(parents[p], comms[p]) ELSE NoProcess]

MCExisting ==
  {Tree(3 :> Reaper @@ 4 :> 3, 3 :> "claude" @@ 4 :> "claude"),
   Tree(3 :> Reaper @@ 2 :> 3 @@ 4 :> 2, 3 :> "claude" @@ 2 :> "bash" @@ 4 :> "bash"),
   Tree(3 :> Reaper @@ 2 :> 3 @@ 4 :> 2, 3 :> "claude" @@ 2 :> "npm exec" @@ 4 :> "bash")}

MCConfigs == {[pid |-> 3, include_children |-> TRUE], [pid |-> NoPid, include_children |-> TRUE],
              [pid |-> 3, include_children |-> FALSE]}
==============================================================================
