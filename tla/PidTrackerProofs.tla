-------------------------- MODULE PidTrackerProofs --------------------------
(***************************************************************************)
(* What the operators on the table of tracked pids do to every table, and  *)
(* what holds of the tracker, for every table size and every set of pids.  *)
(***************************************************************************)
EXTENDS PidTracker, WellFoundedInduction, TLAPS

\* A remainder below twice the divisor.
LEMMA ModBelowTwice ==
  ASSUME NEW n \in Nat \ {0}, NEW x \in Nat, x < 2 * n
  PROVE  x % n = IF x < n THEN x ELSE x - n
<1>1. /\ x \div n \in Nat
      /\ x = n * (x \div n) + (x % n)
      /\ x % n \in 0 .. n - 1
  OBVIOUS
<1>2. CASE x < n
  BY <1>2
<1>3. CASE x >= n
  OBVIOUS
<1> QED
  BY <1>2, <1>3

\* A non-empty set of slots has a least element.
LEMMA LeastSlot ==
  ASSUME NEW T, T \subseteq Slots, T # {}
  PROVE  \E i \in T : \A j \in Slots : j < i => j \notin T
<1>1. T \subseteq Nat
  BY SizeAssumption DEF Slots
<1>2. PICK i \in T : \A j \in T : ~(<<j, i>> \in OpToRel(<, Nat))
  BY <1>1, NatLessThanWellFounded, WFMin
<1>3. \A j \in T : ~(j < i)
  BY <1>1, <1>2 DEF OpToRel
<1> QED
  BY <1>3

LEMMA HashType == \A p \in Pids : Hash(p) \in Slots
BY PidsAssumption, SizeAssumption DEF Hash, Slots

LEMMA ProbeValue ==
  ASSUME NEW p \in Pids, NEW i \in Slots
  PROVE  /\ Probe(p, i) = IF Hash(p) + i < Size THEN Hash(p) + i ELSE Hash(p) + i - Size
         /\ Probe(p, i) \in Slots
<1>1. /\ Hash(p) \in Nat
      /\ Hash(p) < Size
      /\ i \in Nat
      /\ i < Size
      /\ Size \in Nat \ {0}
  BY HashType, SizeAssumption DEF Slots
<1>2. /\ Hash(p) + i \in Nat
      /\ Hash(p) + i < 2 * Size
  BY <1>1
<1>3. (Hash(p) + i) % Size = IF Hash(p) + i < Size THEN Hash(p) + i ELSE Hash(p) + i - Size
  BY <1>1, <1>2, ModBelowTwice
<1>4. Probe(p, i) = IF Hash(p) + i < Size THEN Hash(p) + i ELSE Hash(p) + i - Size
  BY <1>3 DEF Probe
<1>5. Probe(p, i) \in 0 .. Size - 1
  BY <1>1, <1>4
<1> QED
  BY <1>4, <1>5 DEF Slots

\* The probe sequence of a pid visits every slot exactly once.
LEMMA ProbeInjective ==
  ASSUME NEW p \in Pids, NEW i \in Slots, NEW j \in Slots, Probe(p, i) = Probe(p, j)
  PROVE  i = j
BY ProbeValue, HashType, SizeAssumption DEF Slots

LEMMA ProbeSurjective ==
  ASSUME NEW p \in Pids, NEW s \in Slots
  PROVE  \E i \in Slots : Probe(p, i) = s
<1>1. CASE Hash(p) <= s
  <2>1. s - Hash(p) \in Slots
    BY <1>1, HashType, SizeAssumption DEF Slots
  <2> QED
    BY <1>1, <2>1, ProbeValue, HashType, SizeAssumption DEF Slots
<1>2. CASE s < Hash(p)
  <2>1. s - Hash(p) + Size \in Slots
    BY <1>2, HashType, SizeAssumption DEF Slots
  <2> QED
    BY <1>2, <2>1, ProbeValue, HashType, SizeAssumption DEF Slots
<1> QED
  BY <1>1, <1>2, HashType, SizeAssumption DEF Slots

\* pid_tracker_find stops at one slot only.
LEMMA FoundOnce ==
  ASSUME NEW t \in Table, NEW p \in Pids, NEW i \in Slots, NEW j \in Slots,
         FoundAt(t, p, i), FoundAt(t, p, j)
  PROVE  i = j
BY SizeAssumption DEF FoundAt, Slots

LEMMA SlotOfTracked ==
  ASSUME NEW t \in Table, NEW p \in Pids, Tracked(t, p)
  PROVE  \E i \in Slots : FoundAt(t, p, i) /\ SlotOf(t, p) = Probe(p, i)
BY DEF Tracked, SlotOf

\* A vacancy missing means a full table, and a vacancy is found otherwise.
LEMMA VacancyMeansFree ==
  ASSUME NEW t \in Table, NEW p \in Pids
  PROVE  HasVacancy(t, p) <=> \E s \in Slots : t[s] = Free
<1>1. ASSUME NEW s \in Slots, t[s] = Free
      PROVE  HasVacancy(t, p)
  <2> DEFINE T == {i \in Slots : t[Probe(p, i)] = Free}
  <2>1. T # {}
    BY <1>1, ProbeSurjective
  <2>2. PICK i \in T : \A j \in Slots : j < i => j \notin T
    BY <2>1, LeastSlot
  <2>3. VacantAt(t, p, i)
    BY <2>2 DEF VacantAt
  <2> QED
    BY <2>3 DEF HasVacancy
<1>2. ASSUME HasVacancy(t, p)
      PROVE  \E s \in Slots : t[s] = Free
  BY <1>2, ProbeValue DEF HasVacancy, VacantAt
<1> QED
  BY <1>1, <1>2

\* What an insertion that writes does: one empty slot, at a vacant probe.
LEMMA AddWrites ==
  ASSUME NEW t \in Table, NEW p \in Pids, ~Tracked(t, p), HasVacancy(t, p)
  PROVE  \E i \in Slots : /\ VacantAt(t, p, i)
                          /\ AddPid(t, p) = [t EXCEPT ![Probe(p, i)] = p]
BY DEF HasVacancy, AddPid

LEMMA AddType == \A t \in Table, p \in Pids : AddPid(t, p) \in Table
<1> SUFFICES ASSUME NEW t \in Table, NEW p \in Pids
             PROVE  AddPid(t, p) \in Table
  OBVIOUS
<1>1. CASE Tracked(t, p) \/ ~HasVacancy(t, p)
  BY <1>1 DEF AddPid
<1>2. CASE ~Tracked(t, p) /\ HasVacancy(t, p)
  BY <1>2, AddWrites DEF Table
<1> QED
  BY <1>1, <1>2

LEMMA RemoveType == \A t \in Table, p \in Pids : RemovePid(t, p) \in Table
BY DEF RemovePid, Table

\* pid_tracker_add: its pid is found afterwards exactly when it says so.
LEMMA AddTracks ==
  ASSUME NEW t \in Table, NEW p \in Pids
  PROVE  Tracked(AddPid(t, p), p) <=> AddSucceeds(t, p)
<1>1. CASE Tracked(t, p) \/ ~HasVacancy(t, p)
  BY <1>1 DEF AddPid, AddSucceeds
<1>2. CASE ~Tracked(t, p) /\ HasVacancy(t, p)
  <2>1. PICK i \in Slots : /\ VacantAt(t, p, i)
                           /\ AddPid(t, p) = [t EXCEPT ![Probe(p, i)] = p]
    BY <1>2, AddWrites
  <2>2. \A j \in Slots : j < i => t[Probe(p, j)] # p
    <3> SUFFICES ASSUME \E j \in Slots : j < i /\ t[Probe(p, j)] = p
                 PROVE  Tracked(t, p)
      BY <1>2
    <3> DEFINE T == {j \in Slots : j < i /\ t[Probe(p, j)] = p}
    <3>1. PICK k \in T : \A j \in Slots : j < k => j \notin T
      BY LeastSlot
    <3>2. FoundAt(t, p, k)
      BY <2>1, <3>1, SizeAssumption DEF FoundAt, VacantAt, Slots
    <3> QED
      BY <3>2 DEF Tracked
  <2>3. FoundAt(AddPid(t, p), p, i)
    BY <2>1, <2>2, ProbeValue, ProbeInjective, SizeAssumption DEF FoundAt, VacantAt, Table, Slots
  <2> QED
    BY <1>2, <2>3 DEF Tracked, AddSucceeds
<1> QED
  BY <1>1, <1>2

\* pid_tracker_add keeps every other pid reachable.
LEMMA AddKeeps ==
  ASSUME NEW t \in Table, NEW p \in Pids, NEW q \in Pids, Tracked(t, q)
  PROVE  Tracked(AddPid(t, p), q)
<1>1. CASE Tracked(t, p) \/ ~HasVacancy(t, p)
  BY <1>1 DEF AddPid
<1>2. CASE ~Tracked(t, p) /\ HasVacancy(t, p)
  <2>1. PICK s \in Slots : t[s] = Free /\ AddPid(t, p) = [t EXCEPT ![s] = p]
    BY <1>2, AddWrites, ProbeValue DEF VacantAt
  <2>2. PICK i \in Slots : FoundAt(t, q, i)
    BY DEF Tracked
  <2>3. q # Free /\ p # q
    BY <1>2, PidsAssumption DEF Free
  <2>4. \A j \in Slots : j <= i => Probe(q, j) # s
    BY <2>1, <2>2, <2>3, SizeAssumption DEF FoundAt, Slots
  <2>5. \A j \in Slots : j <= i => AddPid(t, p)[Probe(q, j)] = t[Probe(q, j)]
    BY <2>1, <2>4, ProbeValue DEF Table
  <2>6. i <= i /\ \A j \in Slots : j < i => j <= i
    BY SizeAssumption DEF Slots
  <2>7. FoundAt(AddPid(t, p), q, i)
    BY <2>2, <2>5, <2>6 DEF FoundAt
  <2> QED
    BY <2>7 DEF Tracked
<1> QED
  BY <1>1, <1>2

\* pid_tracker_remove: the pid is not found afterwards, whatever else the table
\* holds, because the search now stops at the slot just emptied.
LEMMA RemoveForgets ==
  ASSUME NEW t \in Table, NEW p \in Pids
  PROVE  ~Tracked(RemovePid(t, p), p)
<1>1. CASE ~Tracked(t, p)
  BY <1>1 DEF RemovePid
<1>2. CASE Tracked(t, p)
  <2>1. PICK i \in Slots : FoundAt(t, p, i) /\ SlotOf(t, p) = Probe(p, i)
    BY <1>2, SlotOfTracked
  <2>2. RemovePid(t, p) = [t EXCEPT ![Probe(p, i)] = Free]
    BY <1>2, <2>1 DEF RemovePid
  <2>3. p # Free
    BY PidsAssumption DEF Free
  <2>4. \A k \in Slots : ~FoundAt(RemovePid(t, p), p, k)
    <3> SUFFICES ASSUME NEW k \in Slots, FoundAt(RemovePid(t, p), p, k)
                 PROVE  FALSE
      OBVIOUS
    <3>1. RemovePid(t, p)[Probe(p, i)] = Free
      BY <2>2, ProbeValue DEF Table
    <3>2. k # i /\ ~(i < k)
      BY <3>1, <2>3 DEF FoundAt
    <3>3. k < i
      BY <3>2, SizeAssumption DEF Slots
    <3>4. t[Probe(p, k)] # p
      BY <3>3, <2>1 DEF FoundAt
    <3>5. RemovePid(t, p)[Probe(p, k)] = t[Probe(p, k)]
      BY <2>2, <3>2, ProbeInjective, ProbeValue DEF Table
    <3> QED
      BY <3>4, <3>5 DEF FoundAt
  <2> QED
    BY <2>4 DEF Tracked
<1> QED
  BY <1>1, <1>2

-----------------------------------------------------------------------------

\* With whole probe sequences and no pid twice, look-ups find exactly what the
\* slots hold.
LEMMA ProperExact ==
  ASSUME NEW t \in Table, Proper(t)
  PROVE  TrackedPids(t) = Held(t)
<1>1. ASSUME NEW p \in Pids, Tracked(t, p)
      PROVE  p \in Held(t)
  BY <1>1, ProbeValue, PidsAssumption DEF Tracked, FoundAt, Free, Held
<1>2. ASSUME NEW s \in Slots, t[s] # Free
      PROVE  t[s] \in TrackedPids(t)
  <2>1. t[s] \in Pids
    BY <1>2 DEF Table
  <2>2. PICK i \in Slots : Probe(t[s], i) = s
    BY <2>1, ProbeSurjective
  <2>3. ASSUME NEW j \in Slots, j < i
        PROVE  t[Probe(t[s], j)] \notin {Free, t[s]}
    <3>1. t[Probe(t[s], j)] # Free
      BY <2>1, <2>2, <2>3 DEF Proper
    <3>2. Probe(t[s], j) # s
      BY <2>1, <2>2, <2>3, ProbeInjective, SizeAssumption DEF Slots
    <3>3. Probe(t[s], j) \in Slots
      BY <2>1, ProbeValue
    <3> QED
      BY <1>2, <3>1, <3>2, <3>3 DEF Proper
  <2> QED
    BY <2>1, <2>2, <2>3 DEF FoundAt, Tracked, TrackedPids
<1> QED
  BY <1>1, <1>2 DEF TrackedPids, Held

LEMMA EmptyProper == EmptyTable \in Table /\ Proper(EmptyTable) /\ Held(EmptyTable) = {}
<1>1. \A s \in Slots : EmptyTable[s] = Free
  BY DEF EmptyTable
<1>2. Proper(EmptyTable)
  BY <1>1, ProbeValue, PidsAssumption DEF Proper, Free
<1> QED
  BY <1>1, <1>2 DEF EmptyTable, Table, Held

\* An insertion keeps the table proper, and adds its pid if it says so.
LEMMA ProperAdd ==
  ASSUME NEW t \in Table, Proper(t), NEW p \in Pids
  PROVE  /\ Proper(AddPid(t, p))
         /\ Held(AddPid(t, p)) = IF AddSucceeds(t, p) THEN Held(t) \union {p} ELSE Held(t)
<1>1. TrackedPids(t) = Held(t)
  BY ProperExact
<1>2. CASE Tracked(t, p) \/ ~HasVacancy(t, p)
  <2>1. AddPid(t, p) = t
    BY <1>2 DEF AddPid
  <2>2. AddSucceeds(t, p) => p \in Held(t)
    BY <1>1, <1>2 DEF AddSucceeds, TrackedPids
  <2> QED
    BY <2>1, <2>2
<1>3. CASE ~Tracked(t, p) /\ HasVacancy(t, p)
  <2> DEFINE u == AddPid(t, p)
  <2>1. PICK i \in Slots : VacantAt(t, p, i) /\ u = [t EXCEPT ![Probe(p, i)] = p]
    BY <1>3, AddWrites
  <2> DEFINE s == Probe(p, i)
  <2>2. s \in Slots /\ t[s] = Free /\ p # Free
    BY <2>1, ProbeValue, PidsAssumption DEF VacantAt, Free
  <2>3. u[s] = p /\ \A r \in Slots \ {s} : u[r] = t[r]
    BY <2>1, <2>2 DEF Table
  <2>4. AddSucceeds(t, p) /\ \A r \in Slots : t[r] # p
    BY <1>1, <1>3, <2>2 DEF AddSucceeds, TrackedPids, Held
  <2> HIDE DEF s, u
  <2>5. ASSUME NEW k \in Slots, NEW j \in Slots, NEW q \in Pids, j < k, u[Probe(q, k)] = q
        PROVE  u[Probe(q, j)] # Free
    <3>1. Probe(q, j) \in Slots /\ Probe(q, k) \in Slots
      BY ProbeValue
    <3>2. CASE Probe(q, k) = s
      <4>1. q = p /\ k = i
        BY <2>3, <2>5, <3>2, ProbeInjective DEF s
      <4>2. t[Probe(q, j)] # Free
        BY <2>1, <2>5, <4>1 DEF VacantAt
      <4> QED
        BY <2>2, <2>3, <3>1, <4>2
    <3>3. CASE Probe(q, k) # s
      <4>1. t[Probe(q, j)] # Free
        BY <2>3, <2>5, <3>1, <3>3 DEF Proper
      <4> QED
        BY <2>2, <2>3, <3>1, <4>1
    <3> QED
      BY <3>2, <3>3
  <2>6. \A q, r \in Slots : u[q] = u[r] /\ u[q] # Free => q = r
    BY <2>3, <2>4 DEF Proper
  <2>7. Held(u) = Held(t) \union {p}
    BY <2>2, <2>3 DEF Held
  <2> QED
    BY <2>4, <2>5, <2>6, <2>7 DEF Proper, u
<1> QED
  BY <1>2, <1>3

\* A removal that cuts no probe sequence keeps the table proper, and removes
\* its pid and no other.
LEMMA ProperRemove ==
  ASSUME NEW t \in Table, Proper(t), NEW p \in Pids,
         Tracked(t, p) => ~CutsChain(RemovePid(t, p), SlotOf(t, p))
  PROVE  Proper(RemovePid(t, p)) /\ Held(RemovePid(t, p)) = Held(t) \ {p}
<1>1. TrackedPids(t) = Held(t)
  BY ProperExact
<1>2. CASE ~Tracked(t, p)
  BY <1>1, <1>2 DEF RemovePid, TrackedPids
<1>3. CASE Tracked(t, p)
  <2> DEFINE s == SlotOf(t, p)
             u == RemovePid(t, p)
  <2>1. s \in Slots /\ t[s] = p
    BY <1>3, SlotOfTracked, ProbeValue DEF FoundAt
  <2>2. u = [t EXCEPT ![s] = Free] /\ ~CutsChain(u, s)
    BY <1>3 DEF RemovePid
  <2> HIDE DEF s, u
  <2>3. u[s] = Free /\ \A r \in Slots \ {s} : u[r] = t[r]
    BY <2>1, <2>2 DEF Table
  <2>4. p # Free
    BY PidsAssumption DEF Free
  <2>5. ASSUME NEW i \in Slots, NEW j \in Slots, NEW q \in Pids, j < i, u[Probe(q, i)] = q
        PROVE  u[Probe(q, j)] # Free
    <3>1. Probe(q, j) # s
      BY <2>2, <2>5 DEF CutsChain
    <3>2. Probe(q, i) # s /\ Probe(q, j) \in Slots /\ Probe(q, i) \in Slots
      BY <2>3, <2>5, ProbeValue, PidsAssumption DEF Free
    <3> QED
      BY <2>3, <2>5, <3>1, <3>2 DEF Proper
  <2>6. \A q, r \in Slots : u[q] = u[r] /\ u[q] # Free => q = r
    BY <2>3 DEF Proper
  <2>7. Held(u) = Held(t) \ {p}
    <3>1. \A r \in Slots \ {s} : t[r] # p
      BY <2>1, <2>4 DEF Proper
    <3> QED
      BY <2>1, <2>3, <3>1 DEF Held
  <2> QED
    BY <2>5, <2>6, <2>7 DEF Proper, u
<1> QED
  BY <1>2, <1>3

-----------------------------------------------------------------------------

\* Every reachable state of the tracker is well-typed.
THEOREM TypeCorrect == Spec => []TypeOK
<1>1. Init => TypeOK
  BY DEF Init, TypeOK, EmptyTable, Table
<1>2. TypeOK /\ [Next]_vars => TypeOK'
  <2> SUFFICES ASSUME TypeOK, [Next]_vars
               PROVE  TypeOK'
    OBVIOUS
  <2>1. ASSUME NEW p \in Pids, Add(p)
        PROVE  TypeOK'
    BY <2>1, AddType DEF Add, TypeOK
  <2>2. ASSUME NEW p \in Pids, Remove(p)
        PROVE  TypeOK'
    BY <2>2, RemoveType DEF Remove, TypeOK
  <2>3. CASE UNCHANGED vars
    BY <2>3 DEF vars, TypeOK
  <2> QED
    BY <2>1, <2>2, <2>3 DEF Next
<1> QED
  BY <1>1, <1>2, PTL DEF Spec

\* An EXIT removes its pid for good, whatever sequence of additions and
\* removals (and of collisions) came before.
THEOREM RemovalForgets == Spec => RemoveUntracks
<1>1. TypeOK => \A p \in Pids : Remove(p) => ~Tracked(table', p)
  BY RemoveForgets DEF TypeOK, Remove
<1> QED
  BY <1>1, TypeCorrect, PTL DEF RemoveUntracks

\* An addition never hides another tracked pid.
THEOREM AdditionKeeps == Spec => AddKeepsOthers
<1>1. TypeOK => \A p \in Pids : Add(p) => TrackedPids(table) \subseteq TrackedPids(table')
  BY AddKeeps DEF TypeOK, Add, TrackedPids
<1> QED
  BY <1>1, TypeCorrect, PTL DEF AddKeepsOthers

\* The value pid_tracker_add returns can be trusted, and false means full.
THEOREM AdditionReports == Spec => []AddReportsTruth
<1>1. TypeOK => AddReportsTruth
  <2> SUFFICES ASSUME TypeOK, NEW p \in Pids
               PROVE  /\ AddSucceeds(table, p) <=> Tracked(AddPid(table, p), p)
                      /\ AddSucceeds(table, p) \/ \A s \in Slots : table[s] # Free
    BY DEF AddReportsTruth
  <2>1. table \in Table
    BY DEF TypeOK
  <2>2. AddSucceeds(table, p) <=> Tracked(AddPid(table, p), p)
    BY <2>1, AddTracks
  <2>3. AddSucceeds(table, p) \/ \A s \in Slots : table[s] # Free
    BY <2>1, VacancyMeansFree DEF AddSucceeds
  <2> QED
    BY <2>2, <2>3
<1> QED
  BY <1>1, TypeCorrect, PTL

-----------------------------------------------------------------------------

\* The inductive invariant behind ExactUntilCut.
THEOREM ChainInvariant == Spec => []IInv
<1>1. Init => IInv
  BY EmptyProper DEF Init, IInv
<1>2. TypeOK /\ IInv /\ [Next]_vars => IInv'
  <2> SUFFICES ASSUME TypeOK, IInv, [Next]_vars, ~cut'
               PROVE  Proper(table') /\ Held(table') = members'
    BY DEF IInv
  <2>1. ASSUME NEW p \in Pids, Add(p)
        PROVE  Proper(table') /\ Held(table') = members'
    BY <2>1, ProperAdd DEF Add, TypeOK, IInv
  <2>2. ASSUME NEW p \in Pids, Remove(p)
        PROVE  Proper(table') /\ Held(table') = members'
    BY <2>2, ProperRemove DEF Remove, TypeOK, IInv
  <2>3. CASE UNCHANGED vars
    BY <2>3 DEF vars, IInv
  <2> QED
    BY <2>1, <2>2, <2>3 DEF Next
<1> QED
  BY <1>1, <1>2, TypeCorrect, PTL DEF Spec

\* Until a removal empties a slot on another entry's probe sequence, the table
\* is exactly the set of pids added and not removed.
THEOREM Exactness == Spec => []ExactUntilCut
<1>1. TypeOK /\ IInv => ExactUntilCut
  BY ProperExact DEF TypeOK, IInv, ExactUntilCut
<1> QED
  BY <1>1, TypeCorrect, ChainInvariant, PTL

-----------------------------------------------------------------------------

\* Pids that are never tracked together with another of their home slot stay at
\* home, and removing them cuts no chain.
LEMMA HomeStep ==
  ASSUME [NoClash]_vars, TypeOK, IInv, AtHome, ~cut, [Next]_vars
  PROVE  AtHome' /\ ~cut'
<1>1. ASSUME NEW p \in Pids, Add(p), NoClash, ~Tracked(table, p), HasVacancy(table, p)
      PROVE  AtHome'
  <2>1. PICK i \in Slots : /\ VacantAt(table, p, i)
                           /\ table' = [table EXCEPT ![Probe(p, i)] = p]
    BY <1>1, AddWrites DEF Add, TypeOK
  <2>2. 0 \in Slots /\ Probe(p, 0) = Hash(p)
    BY ProbeValue, HashType, SizeAssumption DEF Slots
  <2>3. table[Hash(p)] = Free
    <3> SUFFICES ASSUME table[Hash(p)] # Free
                 PROVE  FALSE
      OBVIOUS
    <3>1. /\ table[Hash(p)] \in members
          /\ Hash(table[Hash(p)]) = Hash(p)
      BY HashType DEF TypeOK, Table, IInv, Held, AtHome
    <3>2. table[Hash(p)] = p
      BY <1>1, <3>1 DEF NoClash
    <3>3. FoundAt(table, p, 0)
      BY <2>2, <3>2, SizeAssumption DEF FoundAt, Slots
    <3> QED
      BY <1>1, <2>2, <3>3 DEF Tracked
  <2>4. i = 0
    BY <2>1, <2>2, <2>3, SizeAssumption DEF VacantAt, Slots
  <2> QED
    BY <2>1, <2>2, <2>4, HashType DEF TypeOK, Table, AtHome
<1>2. ASSUME NEW p \in Pids, Add(p), [NoClash]_vars
      PROVE  AtHome' /\ ~cut'
  <2>1. CASE Tracked(table, p) \/ ~HasVacancy(table, p)
    BY <1>2, <2>1 DEF Add, AddPid, AtHome
  <2>2. CASE UNCHANGED vars
    BY <2>2 DEF vars, AtHome
  <2> QED
    BY <1>1, <1>2, <2>1, <2>2 DEF Add
<1>3. ASSUME NEW p \in Pids, Remove(p)
      PROVE  AtHome' /\ ~cut'
  <2>1. CASE ~Tracked(table, p)
    BY <1>3, <2>1 DEF Remove, RemovePid, AtHome
  <2>2. CASE Tracked(table, p)
    <3>1. SlotOf(table, p) \in Slots
      BY <2>2, SlotOfTracked, ProbeValue DEF TypeOK
    <3>2. table' = [table EXCEPT ![SlotOf(table, p)] = Free]
      BY <1>3, <2>2 DEF Remove, RemovePid
    <3>3. AtHome'
      BY <3>1, <3>2 DEF TypeOK, Table, AtHome
    <3>4. ~CutsChain(table', SlotOf(table, p))
      <4> SUFFICES ASSUME NEW i \in Slots, NEW j \in Slots, NEW q \in Pids,
                          j < i, table'[Probe(q, i)] = q
                   PROVE  FALSE
        BY DEF CutsChain
      <4>1. 0 \in Slots /\ Probe(q, 0) = Hash(q)
        BY ProbeValue, HashType, SizeAssumption DEF Slots
      <4>2. Probe(q, i) = Hash(q)
        BY <3>3, ProbeValue, PidsAssumption DEF AtHome, Free
      <4>3. i = 0
        BY <4>1, <4>2, ProbeInjective
      <4> QED
        BY <4>3, SizeAssumption DEF Slots
    <3> QED
      BY <1>3, <3>2, <3>3, <3>4 DEF Remove, RemovePid
  <2> QED
    BY <2>1, <2>2
<1>4. CASE UNCHANGED vars
  BY <1>4 DEF vars, AtHome
<1> QED
  BY <1>2, <1>3, <1>4 DEF Next

\* As long as no pid is added while another tracked pid is congruent to it modulo
\* the table size (2048 in the code, for the few dozen pids tracked at a time),
\* the tracker is exactly the set of the pids added and not removed, however many
\* pids come and go and collide with those that have gone.
THEOREM NoCollisionsExact ==
  Spec /\ [][NoClash]_vars => [](TrackedPids(table) = members)
<1>1. Init => AtHome /\ ~cut
  BY DEF Init, AtHome, EmptyTable
<1>2. TypeOK /\ IInv /\ (AtHome /\ ~cut) /\ [Next]_vars /\ [NoClash]_vars => (AtHome /\ ~cut)'
  BY HomeStep
<1>3. ~cut /\ ExactUntilCut => TrackedPids(table) = members
  BY DEF ExactUntilCut
<1> QED
  BY <1>1, <1>2, <1>3, TypeCorrect, ChainInvariant, Exactness, PTL DEF Spec
==============================================================================
