------------------------------ MODULE PidTable ------------------------------
(***************************************************************************)
(* The table of tracked PIDs of bpf/process_filter.h: open addressing with *)
(* linear probing, and a removal that only marks the slot empty.           *)
(*                                                                         *)
(* A table is a function from slots to the PID in the slot, or Free when   *)
(* the entry's is_active is false.  The entry's ppid is written and never  *)
(* read, and is_tracked is TRUE in every active entry, so neither is kept. *)
(***************************************************************************)
EXTENDS Naturals, FiniteSets

CONSTANTS
  Pids,   \* the process ids the kernel hands out
  Size    \* TRACKED_PIDS_HASH_SIZE, 2048 in the code

\* A pid is positive (the scan of /proc skips the others).
ASSUME PidsAssumption == Pids \subseteq Nat \ {0}
ASSUME SizeAssumption == Size \in Nat \ {0}

Free == 0

Slots == 0 .. Size - 1

Table == [Slots -> Pids \union {Free}]

EmptyTable == [s \in Slots |-> Free]

\* pid & (Size - 1), which for a power of two is the remainder.
Hash(p) == p % Size

\* The i-th slot looked at for p.
Probe(p, i) == (Hash(p) + i) % Size

\* The i-th probe for p is the first one to meet p, and no probe before it met
\* an empty slot.
FoundAt(t, p, i) ==
  /\ t[Probe(p, i)] = p
  /\ \A j \in Slots : j < i => t[Probe(p, j)] \notin {Free, p}

\* pid_tracker_is_tracked: pid_tracker_find meets p.
Tracked(t, p) == \E i \in Slots : FoundAt(t, p, i)

TrackedPids(t) == {p \in Pids : Tracked(t, p)}

\* The i-th probe for p is the first one to meet an empty slot.
VacantAt(t, p, i) ==
  /\ t[Probe(p, i)] = Free
  /\ \A j \in Slots : j < i => t[Probe(p, j)] # Free

\* A mutant: the probing stops one slot early.
HasVacancyShort(t, p) == \E i \in Slots \ {Size - 1} : VacantAt(t, p, i)

HasVacancy(t, p) == \E i \in Slots : VacantAt(t, p, i)

\* The truth value pid_tracker_add returns.
AddSucceeds(t, p) == Tracked(t, p) \/ HasVacancy(t, p)

\* A mutant: the insertion does not look for p first.
AddBlindly(t, p) ==
  IF HasVacancy(t, p)
  THEN [t EXCEPT ![Probe(p, CHOOSE i \in Slots : VacantAt(t, p, i))] = p]
  ELSE t

\* A mutant: the insertion overwrites the slot at home instead of probing on.
AddAtHome(t, p) == IF Tracked(t, p) THEN t ELSE [t EXCEPT ![Hash(p)] = p]

\* pid_tracker_add: p goes to the first empty slot of its probe sequence unless
\* it is found already; a full table is left alone.
AddPid(t, p) ==
  IF Tracked(t, p) \/ ~HasVacancy(t, p)
  THEN t
  ELSE [t EXCEPT ![Probe(p, CHOOSE i \in Slots : VacantAt(t, p, i))] = p]

\* The slot pid_tracker_find returns for a tracked p.
SlotOf(t, p) == Probe(p, CHOOSE i \in Slots : FoundAt(t, p, i))

\* A mutant: the removal looks at the slot at home only.
RemoveAtHome(t, p) == IF t[Hash(p)] = p THEN [t EXCEPT ![Hash(p)] = Free] ELSE t

\* A mutant: the removal leaves a tombstone that no insertion reuses.
RemoveTombstone(t, p) ==
  IF Tracked(t, p) THEN [t EXCEPT ![SlotOf(t, p)] = Size] ELSE t

\* pid_tracker_remove: the slot found for p becomes empty, with no tombstone.
RemovePid(t, p) ==
  IF Tracked(t, p) THEN [t EXCEPT ![SlotOf(t, p)] = Free] ELSE t

\* Whether emptying slot s cuts the probe sequence of another entry: some slot
\* holds a pid that is reached only by probing past s.
CutsChain(t, s) ==
  \E i, j \in Slots, q \in Pids :
    /\ j < i
    /\ t[Probe(q, i)] = q
    /\ Probe(q, j) = s

-----------------------------------------------------------------------------

\* What keeps look-ups exact: an entry is preceded on its probe sequence by
\* occupied slots only, and no pid is in two slots.
Proper(t) ==
  /\ \A i, j \in Slots, q \in Pids : j < i /\ t[Probe(q, i)] = q => t[Probe(q, j)] # Free
  /\ \A r, s \in Slots : t[r] = t[s] /\ t[r] # Free => r = s

\* What the slots hold.
Held(t) == {t[s] : s \in Slots} \ {Free}
==============================================================================
