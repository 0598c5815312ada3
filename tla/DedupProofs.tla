---------------------------- MODULE DedupProofs -----------------------------
(***************************************************************************)
(* What holds of FILE_OPEN reporting for any numbers of processes, files,  *)
(* table entries and limits, any hash function and any event times.        *)
(***************************************************************************)
EXTENDS DedupAccounting, FiniteSetTheorems, TLAPS

\* What the handlers of FILE_OPEN and EXIT events do to the tables, for any
\* tables and whoever calls them.

\* A function updated with Put: its domain, its values, its type.
LEMMA PutFacts ==
  ASSUME NEW f, NEW k, NEW v
  PROVE  /\ DOMAIN Put(f, k, v) = DOMAIN f \union {k}
         /\ Put(f, k, v)[k] = v
         /\ \A x \in DOMAIN f \ {k} : Put(f, k, v)[x] = f[x]
BY DEF Put

LEMMA PutType ==
  ASSUME NEW K, NEW V, NEW f, DOMAIN f \subseteq K, f \in [DOMAIN f -> V], NEW k \in K, NEW v \in V
  PROVE  /\ DOMAIN Put(f, k, v) \subseteq K
         /\ Put(f, k, v) \in [DOMAIN Put(f, k, v) -> V]
BY DEF Put

LEMMA RestrictType ==
  ASSUME NEW K, NEW V, NEW f, DOMAIN f \subseteq K, f \in [DOMAIN f -> V], NEW S, S \subseteq DOMAIN f
  PROVE  /\ DOMAIN Restrict(f, S) = S
         /\ \A x \in S : Restrict(f, S)[x] = f[x]
         /\ DOMAIN Restrict(f, S) \subseteq K
         /\ Restrict(f, S) \in [DOMAIN Restrict(f, S) -> V]
BY DEF Restrict

LEMMA RestrictedDomain ==
  ASSUME NEW f, NEW S
  PROVE  DOMAIN Restrict(f, S) = S
BY DEF Restrict

LEMMA HashInHashes == \A p \in Pids, f \in Files : HashOf[p, f] \in Hashes
BY DedupAssumption

LEMMA SecondType == \A ts \in Time : SecondOf(ts) \in Nat
BY DedupAssumption DEF SecondOf, Time

LEMMA CountedType ==
  ASSUME DedupTypeOK, NEW p \in Pids, NEW s \in Nat
  PROVE  Counted(p, s) \in Slot
<1>1. CASE p \in DOMAIN pid_limits /\ pid_limits[p].second = s
  <2>1. pid_limits[p] \in Slot
    BY <1>1 DEF DedupTypeOK
  <2> QED
    BY <1>1, <2>1 DEF Counted, Slot
<1>2. CASE ~(p \in DOMAIN pid_limits /\ pid_limits[p].second = s)
  BY <1>2 DEF Counted, Slot
<1> QED
  BY <1>1, <1>2

LEMMA UnexpiredFacts ==
  ASSUME DedupTypeOK, NEW ts \in Time
  PROVE  /\ DOMAIN Unexpired(ts) = DOMAIN file_hashes \ Expired(ts)
         /\ \A h \in DOMAIN Unexpired(ts) : Unexpired(ts)[h] = file_hashes[h]
         /\ DOMAIN Unexpired(ts) \subseteq Hashes
         /\ Unexpired(ts) \in [DOMAIN Unexpired(ts) -> Entry]
<1> DEFINE S == DOMAIN file_hashes \ Expired(ts)
<1>1. S \subseteq DOMAIN file_hashes
  OBVIOUS
<1>2. /\ DOMAIN file_hashes \subseteq Hashes
      /\ file_hashes \in [DOMAIN file_hashes -> Entry]
  BY DEF DedupTypeOK
<1> HIDE DEF S
<1>3. /\ DOMAIN Restrict(file_hashes, S) = S
      /\ \A h \in S : Restrict(file_hashes, S)[h] = file_hashes[h]
      /\ DOMAIN Restrict(file_hashes, S) \subseteq Hashes
      /\ Restrict(file_hashes, S) \in [DOMAIN Restrict(file_hashes, S) -> Entry]
  BY <1>1, <1>2, RestrictType
<1> QED
  BY <1>3 DEF Unexpired, S

LEMMA AggregatesType ==
  ASSUME DedupTypeOK, NEW H, H \subseteq DOMAIN file_hashes, NEW why \in {"window_expired", "process_exit"}
  PROVE  Aggregates(H, why) \subseteq OpenLine
<1> SUFFICES ASSUME NEW h \in H
             PROVE  Line(why, h, file_hashes[h], FALSE) \in OpenLine
  BY DEF Aggregates
<1>1. file_hashes[h] \in Entry /\ h \in Hashes
  BY DEF DedupTypeOK
<1> QED
  BY <1>1 DEF Line, Entry, OpenLine

LEMMA AgainType == \A e \in Entry, ts \in Time : Again(e, ts) \in Entry
<1> SUFFICES ASSUME NEW e \in Entry, NEW ts \in Time
             PROVE  Again(e, ts) \in Entry
  OBVIOUS
<1>1. e.count + 1 \in Nat \ {0}
  BY DEF Entry
<1> QED
  BY <1>1 DEF Entry, Again

LEMMA OpenType ==
  ASSUME DedupTypeOK, NEW p \in Pids, NEW f \in Files, NEW ts \in Time, HandleOpen(p, f, ts)
  PROVE  DedupTypeOK'
<1> DEFINE s == SecondOf(ts)
           h == HashOf[p, f]
<1>1. s \in Nat /\ Counted(p, s) \in Slot /\ h \in Hashes
  BY SecondType, CountedType, HashInHashes
<1>2. First(p, f, ts) \in Entry
  BY DEF First, Entry
<1>3. Expired(ts) \subseteq DOMAIN file_hashes
  BY DEF Expired
<1>4. Aggregates(Expired(ts), "window_expired") \subseteq OpenLine
  BY <1>3, AggregatesType
<1>5. ASSUME Admit(p, s)
      PROVE  DOMAIN pid_limits' \subseteq Pids /\ pid_limits' \in [DOMAIN pid_limits' -> Slot]
  <2>1. CASE Limitable(p)
    BY <1>1, <1>5, <2>1, PutType DEF Admit, DedupTypeOK
  <2>2. CASE ~Limitable(p)
    BY <1>5, <2>2 DEF Admit, DedupTypeOK
  <2> QED
    BY <2>1, <2>2
<1>6. CASE DropOpen(p, ts)
  <2>1. [Counted(p, s) EXCEPT !.warn = TRUE] \in Slot
    BY <1>1 DEF Slot
  <2>2. DOMAIN pid_limits' \subseteq Pids /\ pid_limits' \in [DOMAIN pid_limits' -> Slot]
    BY <1>6, <2>1, PutType DEF DropOpen, DedupTypeOK
  <2> QED
    BY <1>6, <2>2 DEF DropOpen, DedupTypeOK
<1>7. CASE CountDuplicate(p, f, ts)
  <2>1. Unexpired(ts)[h] \in Entry
    BY <1>7, UnexpiredFacts DEF CountDuplicate
  <2>2. Again(Unexpired(ts)[h], ts) \in Entry
    BY <2>1, AgainType
  <2>3. file_hashes' \in [DOMAIN Unexpired(ts) -> Entry]
    BY <1>7, <2>2, UnexpiredFacts DEF CountDuplicate
  <2> QED
    BY <1>4, <1>5, <1>7, <2>3, UnexpiredFacts DEF CountDuplicate, DedupTypeOK
<1>8. CASE ReportFirst(p, f, ts)
  <2>1. DOMAIN file_hashes' \subseteq Hashes /\ file_hashes' \in [DOMAIN file_hashes' -> Entry]
    BY <1>1, <1>2, <1>8, UnexpiredFacts, PutType DEF ReportFirst
  <2>2. DueWarning(p, s) \in BOOLEAN
    <3>1. p \in DOMAIN pid_limits => pid_limits[p].warn \in BOOLEAN
      BY DEF DedupTypeOK, Slot
    <3> QED
      BY <3>1 DEF DueWarning
  <2>3. \A kind \in {"open", "debug_open"}, w \in BOOLEAN : Line(kind, h, First(p, f, ts), w) \in OpenLine
    BY <1>1, <1>2 DEF Line, OpenLine, Entry
  <2>4. out' \subseteq OpenLine
    BY <1>4, <1>8, <2>2, <2>3 DEF ReportFirst
  <2> QED
    BY <1>5, <1>8, <2>1, <2>4 DEF ReportFirst, DedupTypeOK
<1> QED
  BY <1>6, <1>7, <1>8 DEF HandleOpen

LEMMA ExitType ==
  ASSUME DedupTypeOK, NEW p \in Pids, HandleExit(p)
  PROVE  DedupTypeOK'
<1>1. OwnedBy(p) \subseteq DOMAIN file_hashes
  BY DEF OwnedBy
<1>2. Aggregates(OwnedBy(p), "process_exit") \subseteq OpenLine
  BY <1>1, AggregatesType
<1>3. DOMAIN file_hashes' \subseteq Hashes /\ file_hashes' \in [DOMAIN file_hashes' -> Entry]
  <2>1. DOMAIN file_hashes \subseteq Hashes /\ file_hashes \in [DOMAIN file_hashes -> Entry]
    BY DEF DedupTypeOK
  <2>2. file_hashes' = Restrict(file_hashes, DOMAIN file_hashes \ OwnedBy(p))
    BY DEF HandleExit
  <2> QED
    BY <2>1, <2>2, RestrictType
<1>4. DOMAIN pid_limits' \subseteq Pids /\ pid_limits' \in [DOMAIN pid_limits' -> Slot]
  <2>1. DOMAIN pid_limits \subseteq Pids /\ pid_limits \in [DOMAIN pid_limits -> Slot]
    BY DEF DedupTypeOK
  <2>2. \/ pid_limits' = Restrict(pid_limits, DOMAIN pid_limits \ {p})
        \/ pid_limits' = pid_limits
    BY DEF HandleExit
  <2> QED
    BY <2>1, <2>2, RestrictType
<1> DEFINE warn == p \in DOMAIN pid_limits /\ pid_limits[p].warn
<1>5. warn \in BOOLEAN
  BY DEF DedupTypeOK, Slot
<1>6. [kind |-> "exit", pid |-> p, warning |-> warn] \in ProcessLine
  BY <1>5 DEF ProcessLine
<1> QED
  BY <1>2, <1>3, <1>4, <1>6 DEF HandleExit, DedupTypeOK

\* Who owns the entries after an open, and whom the lines printed are about: the
\* process of the event, and who owned an entry before.
LEMMA OpenOwners ==
  ASSUME DedupTypeOK, NEW p \in Pids, NEW f \in Files, NEW ts \in Time, HandleOpen(p, f, ts)
  PROVE  /\ \A h \in DOMAIN file_hashes' :
              file_hashes'[h].pid = p \/ \E g \in DOMAIN file_hashes : file_hashes'[h].pid = file_hashes[g].pid
         /\ \A l \in out' : l.pid = p \/ \E g \in DOMAIN file_hashes : l.pid = file_hashes[g].pid
<1> DEFINE k == HashOf[p, f]
           Known(q) == q = p \/ \E g \in DOMAIN file_hashes : q = file_hashes[g].pid
<1>1. \A h \in DOMAIN Unexpired(ts) : Known(Unexpired(ts)[h].pid)
  BY UnexpiredFacts
<1>2. \A l \in Aggregates(Expired(ts), "window_expired") : Known(l.pid)
  BY DEF Aggregates, Line, Expired
<1>3. First(p, f, ts).pid = p /\ \A kind, warning : Line(kind, k, First(p, f, ts), warning).pid = p
  BY DEF First, Line
<1>4. \A e : Again(e, ts).pid = e.pid
  BY DEF Again
<1>5. CASE DropOpen(p, ts)
  BY <1>5 DEF DropOpen
<1>6. CASE CountDuplicate(p, f, ts)
  <2>1. file_hashes' = [Unexpired(ts) EXCEPT ![k] = Again(Unexpired(ts)[k], ts)]
    BY <1>6 DEF CountDuplicate
  <2>2. k \in DOMAIN Unexpired(ts) /\ out' = Aggregates(Expired(ts), "window_expired")
    BY <1>6 DEF CountDuplicate
  <2>3. \A h \in DOMAIN file_hashes' : h \in DOMAIN Unexpired(ts) /\ file_hashes'[h].pid = Unexpired(ts)[h].pid
    BY <1>4, <2>1, <2>2
  <2> QED
    BY <1>1, <1>2, <2>2, <2>3
<1>7. CASE ReportFirst(p, f, ts)
  <2>1. file_hashes' = Unexpired(ts) \/ file_hashes' = Put(Unexpired(ts), k, First(p, f, ts))
    BY <1>7 DEF ReportFirst
  <2>2. \A h \in DOMAIN file_hashes' : Known(file_hashes'[h].pid)
    <3> HIDE DEF Known
    <3>1. CASE file_hashes' = Unexpired(ts)
      BY <1>1, <3>1
    <3>2. CASE file_hashes' = Put(Unexpired(ts), k, First(p, f, ts))
      <4>1. \A h \in DOMAIN file_hashes' :
              IF h = k THEN file_hashes'[h] = First(p, f, ts)
              ELSE h \in DOMAIN Unexpired(ts) /\ file_hashes'[h] = Unexpired(ts)[h]
        BY <3>2 DEF Put
      <4>2. Known(p)
        BY DEF Known
      <4> QED
        BY <1>1, <1>3, <4>1, <4>2
    <3> QED
      BY <2>1, <3>1, <3>2
  <2>3. \A l \in out' : l \in Aggregates(Expired(ts), "window_expired") \/ l.pid = p
    BY <1>3, <1>7 DEF ReportFirst
  <2> QED
    BY <1>2, <2>2, <2>3
<1> QED
  BY <1>5, <1>6, <1>7 DEF HandleOpen

\* The exit of p leaves no entry of p's, and prints lines about p only.
LEMMA ExitOwners ==
  ASSUME DedupTypeOK, NEW p \in Pids, HandleExit(p)
  PROVE  /\ \A h \in DOMAIN file_hashes' :
              h \in DOMAIN file_hashes /\ file_hashes'[h] = file_hashes[h] /\ file_hashes[h].pid # p
         /\ \A l \in out' : l.pid = p
<1> DEFINE S == DOMAIN file_hashes \ OwnedBy(p)
<1>1. file_hashes' = Restrict(file_hashes, S)
  BY DEF HandleExit
<1>2. DOMAIN file_hashes' = S /\ \A h \in S : file_hashes'[h] = file_hashes[h]
  BY <1>1 DEF Restrict
<1>3. \A h \in S : file_hashes[h].pid # p
  BY DEF OwnedBy
<1>4. \A l \in Aggregates(OwnedBy(p), "process_exit") : l.pid = p
  BY DEF Aggregates, Line, OwnedBy
<1>5. \A l \in out' : l.pid = p
  BY <1>4 DEF HandleExit
<1> QED
  BY <1>2, <1>3, <1>5

-----------------------------------------------------------------------------

\* What a reader of the lines adds up.

LEMMA GainType ==
  ASSUME NEW lines, lines \subseteq OpenLine \union ProcessLine, NEW h
  PROVE  Gain(lines, h) \in Nat
<1> DEFINE l == CHOOSE l \in LinesOf(lines, h) : l.kind \in Aggregated
<1>1. ASSUME \E x \in LinesOf(lines, h) : x.kind \in Aggregated
      PROVE  l.count - 1 \in Nat
  <2>1. l \in LinesOf(lines, h) /\ l.kind \in Aggregated
    BY <1>1
  <2>2. l \in OpenLine
    BY <2>1 DEF LinesOf, Aggregated, ProcessLine
  <2> QED
    BY <2>2 DEF OpenLine
<1> QED
  BY <1>1 DEF Gain

LEMMA ReadType ==
  ASSUME TypeOK, out' \subseteq OpenLine \union ProcessLine, Read
  PROVE  seen' \in [Hashes -> Nat]
BY GainType DEF Read, TypeOK

-----------------------------------------------------------------------------

\* The tables, the lines printed and the history keep their types, so that no
\* handler of process.c reads an entry that is not there.
THEOREM TypeCorrect == Spec => []TypeOK
<1>1. Init => TypeOK
  BY AccountingAssumption DEF Init, TypeOK, DedupInit, DedupTypeOK
<1>2. TypeOK /\ [Next]_vars => TypeOK'
  <2> SUFFICES ASSUME TypeOK, [Next]_vars
               PROVE  TypeOK'
    OBVIOUS
  <2>1. ASSUME NEW p \in Pids, NEW f \in Files, NEW ts \in Stamps, OpenEvent(p, f, ts)
        PROVE  TypeOK'
    <3>1. ts \in Time /\ SecondOf(ts) \in Nat /\ HashOf[p, f] \in Hashes
      BY SecondType, HashInHashes DEF Stamps
    <3>2. DedupTypeOK'
      BY <2>1, <3>1, OpenType DEF OpenEvent, TypeOK
    <3>3. seen' \in [Hashes -> Nat]
      BY <2>1, <3>2, ReadType DEF OpenEvent, DedupTypeOK
    <3>4. opens' \in [Hashes -> Nat]
      <4>1. opens' = opens \/ opens' = [opens EXCEPT ![HashOf[p, f]] = opens[HashOf[p, f]] + 1]
        BY <2>1 DEF OpenEvent
      <4>2. opens[HashOf[p, f]] + 1 \in Nat
        <5>1. \A h \in Hashes : opens[h] + 1 \in Nat
          BY DEF TypeOK
        <5> QED
          BY <3>1, <5>1
      <4> QED
        BY <4>1, <4>2 DEF TypeOK
    <3>5. latest' \in [Pids -> Nat] /\ passed' \in [Pids -> Nat]
      <4>1. \A n \in Nat : n + 1 \in Nat /\ n + 0 \in Nat
        OBVIOUS
      <4>2. passed[p] \in Nat
        BY DEF TypeOK
      <4> QED
        BY <2>1, <3>1, <4>1, <4>2 DEF OpenEvent, TypeOK
    <3>7. clock' \in 0 .. MaxTime /\ events' \in 0 .. MaxEvents
      <4>1. events < MaxEvents /\ events' = events + 1 /\ clock' = clock
        BY <2>1 DEF OpenEvent
      <4> QED
        BY <4>1, AccountingAssumption DEF TypeOK
    <3>6. excused' \subseteq Pids /\ owed' \subseteq Pids
      BY <2>1 DEF OpenEvent, TypeOK
    <3> QED
      BY <3>2, <3>3, <3>4, <3>5, <3>6, <3>7 DEF TypeOK
  <2>2. ASSUME NEW p \in Pids, ExitEvent(p)
        PROVE  TypeOK'
    <3>1. DedupTypeOK'
      BY <2>2, ExitType DEF ExitEvent, TypeOK
    <3>2. seen' \in [Hashes -> Nat]
      BY <2>2, <3>1, ReadType DEF ExitEvent, DedupTypeOK
    <3>3. events' \in 0 .. MaxEvents
      BY <2>2, AccountingAssumption DEF ExitEvent, TypeOK
    <3> QED
      BY <2>2, <3>1, <3>2, <3>3 DEF ExitEvent, TypeOK
  <2>3. CASE Tick
    BY <2>3, AccountingAssumption DEF Tick, TypeOK, DedupTypeOK
  <2>4. CASE UNCHANGED vars
    BY <2>4 DEF vars, TypeOK, DedupTypeOK
  <2> QED
    BY <2>1, <2>2, <2>3, <2>4 DEF Next
<1> QED
  BY <1>1, <1>2, PTL DEF Spec

-----------------------------------------------------------------------------

\* The domains stay finite, which WithinArrays does not say but its induction
\* needs.
ArraysInv ==
  /\ IsFiniteSet(DOMAIN file_hashes)
  /\ IsFiniteSet(DOMAIN pid_limits)
  /\ WithinArrays

\* One more element fits where the cardinality is below the bound.
LEMMA RoomForOne ==
  ASSUME NEW D, IsFiniteSet(D), NEW k, NEW n \in Nat,
         Cardinality(D) <= n, k \in D \/ Cardinality(D) < n
  PROVE  IsFiniteSet(D \union {k}) /\ Cardinality(D \union {k}) <= n
<1>1. Cardinality(D) \in Nat
  BY FS_CardinalityType
<1>2. CASE k \in D
  <2>1. D \union {k} = D
    BY <1>2
  <2> QED
    BY <2>1
<1>3. CASE k \notin D
  BY <1>1, <1>3, FS_AddElement
<1> QED
  BY <1>2, <1>3

LEMMA SmallerFits ==
  ASSUME NEW D, IsFiniteSet(D), NEW E, E \subseteq D, NEW n \in Nat, Cardinality(D) <= n
  PROVE  IsFiniteSet(E) /\ Cardinality(E) <= n
<1>1. IsFiniteSet(E) /\ Cardinality(E) <= Cardinality(D)
  BY FS_Subset
<1>2. Cardinality(D) \in Nat /\ Cardinality(E) \in Nat
  BY <1>1, FS_CardinalityType
<1> QED
  BY <1>1, <1>2

\* file_hashes never outgrows MAX_FILE_HASHES nor pid_limits MAX_PID_LIMITS,
\* whatever the order of opens, exits and expiries.
THEOREM ArraysNeverOverflow == Spec => []WithinArrays
<1>1. Init => ArraysInv
  <2>1. IsFiniteSet({}) /\ Cardinality({}) = 0
    BY FS_EmptySet
  <2>2. DOMAIN [h \in {} |-> {}] = {}
    OBVIOUS
  <2> QED
    BY <2>1, <2>2, DedupAssumption DEF Init, DedupInit, ArraysInv, WithinArrays
<1>2. TypeOK /\ ArraysInv /\ [Next]_vars => ArraysInv'
  <2> SUFFICES ASSUME TypeOK, ArraysInv, [Next]_vars
               PROVE  ArraysInv'
    OBVIOUS
  <2> USE DedupAssumption
  <2>1. ASSUME NEW p \in Pids, NEW f \in Files, NEW ts \in Stamps, OpenEvent(p, f, ts)
        PROVE  ArraysInv'
    <3> DEFINE s == SecondOf(ts)
               h == HashOf[p, f]
               D == DOMAIN Unexpired(ts)
    <3>1. IsFiniteSet(D) /\ Cardinality(D) <= MaxHashes
      <4>1. D \subseteq DOMAIN file_hashes
        BY UnexpiredFacts DEF TypeOK, Stamps
      <4> QED
        BY <4>1, SmallerFits DEF ArraysInv, WithinArrays
    <3>2. ASSUME Limitable(p), NEW v, pid_limits' = Put(pid_limits, p, v)
          PROVE  IsFiniteSet(DOMAIN pid_limits') /\ Cardinality(DOMAIN pid_limits') <= MaxLimits
      <4>1. DOMAIN pid_limits' = DOMAIN pid_limits \union {p}
        BY <3>2, PutFacts
      <4>2. IsFiniteSet(DOMAIN pid_limits) /\ Cardinality(DOMAIN pid_limits) <= MaxLimits
        BY DEF ArraysInv, WithinArrays
      <4>3. p \in DOMAIN pid_limits \/ Cardinality(DOMAIN pid_limits) < MaxLimits
        BY <3>2 DEF Limitable
      <4> QED
        BY <4>1, <4>2, <4>3, RoomForOne
    <3>3. ASSUME Admit(p, s)
          PROVE  IsFiniteSet(DOMAIN pid_limits') /\ Cardinality(DOMAIN pid_limits') <= MaxLimits
      BY <3>2, <3>3 DEF Admit, ArraysInv, WithinArrays
    <3>4. CASE DropOpen(p, ts)
      BY <3>2, <3>4 DEF DropOpen, Exceeds, ArraysInv, WithinArrays
    <3>5. CASE CountDuplicate(p, f, ts)
      <4>1. DOMAIN file_hashes' = D
        BY <3>5 DEF CountDuplicate
      <4>2. Admit(p, s)
        BY <3>5 DEF CountDuplicate
      <4> HIDE DEF D, s
      <4> QED
        BY <3>1, <3>3, <4>1, <4>2 DEF ArraysInv, WithinArrays
    <3>6. CASE ReportFirst(p, f, ts)
      <4>1. \/ DOMAIN file_hashes' = D
            \/ DOMAIN file_hashes' = D \union {h} /\ Cardinality(D) < MaxHashes
        BY <3>6, PutFacts DEF ReportFirst
      <4>2. IsFiniteSet(DOMAIN file_hashes') /\ Cardinality(DOMAIN file_hashes') <= MaxHashes
        <5>1. CASE DOMAIN file_hashes' = D
          BY <3>1, <5>1
        <5>2. CASE DOMAIN file_hashes' = D \union {h} /\ Cardinality(D) < MaxHashes
          <6> HIDE DEF D, h
          <6> QED
            BY <3>1, <5>2, RoomForOne
        <5> QED
          BY <4>1, <5>1, <5>2
      <4> QED
        BY <3>3, <3>6, <4>2 DEF ReportFirst, ArraysInv, WithinArrays
    <3> QED
      BY <2>1, <3>4, <3>5, <3>6 DEF OpenEvent, HandleOpen
  <2>2. ASSUME NEW p \in Pids, ExitEvent(p)
        PROVE  ArraysInv'
    <3>1. DOMAIN file_hashes' \subseteq DOMAIN file_hashes
      BY <2>2, RestrictedDomain DEF ExitEvent, HandleExit
    <3>2. DOMAIN pid_limits' \subseteq DOMAIN pid_limits
      BY <2>2, RestrictedDomain DEF ExitEvent, HandleExit
    <3> QED
      BY <3>1, <3>2, SmallerFits DEF ArraysInv, WithinArrays
  <2>3. CASE Tick
    BY <2>3 DEF Tick, ArraysInv, WithinArrays
  <2>4. CASE UNCHANGED vars
    BY <2>4 DEF vars, ArraysInv, WithinArrays
  <2> QED
    BY <2>1, <2>2, <2>3, <2>4 DEF Next
<1>3. ArraysInv => WithinArrays
  BY DEF ArraysInv
<1> QED
  BY <1>1, <1>2, <1>3, TypeCorrect, PTL DEF Spec

-----------------------------------------------------------------------------

\* An admitted open writes the slot of its own process only, and keeps a due
\* warning exactly when it falls in the second being counted.
LEMMA AdmitSlots ==
  ASSUME TypeOK, NEW p \in Pids, NEW s \in Nat, Admit(p, s)
  PROVE  /\ \A q \in Pids \ {p} :
              /\ q \in DOMAIN pid_limits' <=> q \in DOMAIN pid_limits
              /\ q \in DOMAIN pid_limits => pid_limits'[q] = pid_limits[q]
         /\ p \in DOMAIN pid_limits' <=> Limitable(p)
         /\ Limitable(p) => pid_limits'[p] = Counted(p, s)
<1>1. CASE Limitable(p)
  <2> DEFINE c == Counted(p, s)
  <2>1. pid_limits' = Put(pid_limits, p, c)
    BY <1>1 DEF Admit
  <2> HIDE DEF c
  <2>2. /\ DOMAIN pid_limits' = DOMAIN pid_limits \union {p}
        /\ pid_limits'[p] = c
        /\ \A q \in DOMAIN pid_limits \ {p} : pid_limits'[q] = pid_limits[q]
    BY <2>1 DEF Put
  <2> QED
    BY <1>1, <2>2 DEF c
<1>2. CASE ~Limitable(p)
  BY <1>2 DEF Admit, Limitable
<1> QED
  BY <1>1, <1>2

\* The same of a dropped open.
LEMMA DropSlots ==
  ASSUME TypeOK, NEW p \in Pids, NEW ts \in Time, DropOpen(p, ts)
  PROVE  /\ \A q \in Pids \ {p} :
              /\ q \in DOMAIN pid_limits' <=> q \in DOMAIN pid_limits
              /\ q \in DOMAIN pid_limits => pid_limits'[q] = pid_limits[q]
         /\ p \in DOMAIN pid_limits'
         /\ pid_limits'[p].second = Counted(p, SecondOf(ts)).second
         /\ pid_limits'[p].count = Counted(p, SecondOf(ts)).count
         /\ pid_limits'[p].warn
<1> DEFINE c == Counted(p, SecondOf(ts))
<1>1. c \in Slot
  BY SecondType, CountedType DEF TypeOK
<1> HIDE DEF c
<1>2. [c EXCEPT !.warn = TRUE].second = c.second /\ [c EXCEPT !.warn = TRUE].count = c.count
      /\ [c EXCEPT !.warn = TRUE].warn
  BY <1>1 DEF Slot
<1> DEFINE d == [c EXCEPT !.warn = TRUE]
<1>3. pid_limits' = Put(pid_limits, p, d)
  BY DEF DropOpen, c
<1>4. d.second = c.second /\ d.count = c.count /\ d.warn
  BY <1>2
<1> HIDE DEF d
<1>5. /\ DOMAIN pid_limits' = DOMAIN pid_limits \union {p}
      /\ pid_limits'[p] = d
      /\ \A q \in DOMAIN pid_limits \ {p} : pid_limits'[q] = pid_limits[q]
  BY <1>3 DEF Put
<1> QED
  BY <1>4, <1>5 DEF c

\* Only a first open that finds a warning due prints one, for its own process.
LEMMA OpenWarns ==
  ASSUME NEW p \in Pids, NEW f \in Files, NEW ts \in Time,
         CountDuplicate(p, f, ts) \/ ReportFirst(p, f, ts)
  PROVE  \A q \in Warned : q = p /\ DueWarning(p, SecondOf(ts))
<1>1. \A l \in Aggregates(Expired(ts), "window_expired") : l.warning = FALSE
  BY DEF Aggregates, Line
<1>2. CASE CountDuplicate(p, f, ts)
  BY <1>1, <1>2 DEF CountDuplicate, Warned
<1>3. CASE ReportFirst(p, f, ts)
  <2> DEFINE h == HashOf[p, f]
             warn == DueWarning(p, SecondOf(ts))
  <2> SUFFICES ASSUME NEW l \in out', l.warning
               PROVE  l.pid = p /\ warn
    BY DEF Warned
  <2>1. \/ l \in Aggregates(Expired(ts), "window_expired")
        \/ l = Line("open", h, First(p, f, ts), warn)
        \/ l = Line("debug_open", h, First(p, f, ts), FALSE)
    BY <1>3 DEF ReportFirst
  <2>2. CASE l \in Aggregates(Expired(ts), "window_expired")
    BY <1>1, <2>2
  <2>3. CASE l = Line("open", h, First(p, f, ts), warn)
    BY <2>3 DEF Line, First
  <2>4. CASE l = Line("debug_open", h, First(p, f, ts), FALSE)
    BY <2>4 DEF Line
  <2> QED
    BY <2>1, <2>2, <2>3, <2>4
<1> QED
  BY <1>2, <1>3

\* No rate_limit_warning is a false alarm: whenever print_file_open_event or
\* the EXIT branch appends one, opens of that process have been dropped since
\* its last warning.
THEOREM WarningsAreTruthful == Spec => []WarningsTruthful
<1>1. Init => WarningsTruthful
  BY DEF Init, DedupInit, WarningsTruthful
<1>2. TypeOK /\ WarningsTruthful /\ [Next]_vars => WarningsTruthful'
  <2> SUFFICES ASSUME TypeOK, WarningsTruthful, [Next]_vars
               PROVE  WarningsTruthful'
    OBVIOUS
  <2>1. ASSUME NEW p \in Pids, NEW f \in Files, NEW ts \in Stamps, OpenEvent(p, f, ts)
        PROVE  WarningsTruthful'
    <3> DEFINE s == SecondOf(ts)
    <3>1. ts \in Time /\ s \in Nat
      BY SecondType DEF Stamps
    <3>2. CASE DropOpen(p, ts)
      <4>1. owed' = owed \union {p}
        BY <2>1, <3>2 DEF OpenEvent, DropOpen
      <4>2. \A q \in Pids \ {p} : q \in DOMAIN pid_limits' =>
               q \in DOMAIN pid_limits /\ pid_limits'[q] = pid_limits[q]
        BY <3>1, <3>2, DropSlots
      <4>3. DOMAIN pid_limits' \subseteq Pids
        BY <2>1, <3>1, OpenType DEF OpenEvent, TypeOK, DedupTypeOK
      <4> QED
        BY <4>1, <4>2, <4>3 DEF WarningsTruthful
    <3>3. ASSUME Admit(p, s), CountDuplicate(p, f, ts) \/ ReportFirst(p, f, ts)
          PROVE  WarningsTruthful'
      <4>1. owed' = owed \ Warned
        BY <2>1, <3>3 DEF OpenEvent, Admit
      <4>2. \A q \in Warned : q = p /\ DueWarning(p, s)
        BY <3>1, <3>3, OpenWarns
      <4>3. ASSUME NEW q \in Pids \ {p}, q \in DOMAIN pid_limits', pid_limits'[q].warn
            PROVE  q \in owed'
        BY <3>1, <3>3, <4>1, <4>2, <4>3, AdmitSlots DEF WarningsTruthful
      <4>4. ASSUME p \in DOMAIN pid_limits', pid_limits'[p].warn
            PROVE  p \in owed'
        <5>1. Counted(p, s).warn
          BY <3>1, <3>3, <4>4, AdmitSlots
        <5>2. p \in DOMAIN pid_limits /\ pid_limits[p].second = s
          BY <5>1 DEF Counted
        <5>3. pid_limits[p] \in Slot
          BY <5>2 DEF TypeOK, DedupTypeOK
        <5>4. pid_limits[p].warn
          BY <5>1, <5>2, <5>3 DEF Counted, Slot
        <5> QED
          BY <4>1, <4>2, <5>2, <5>4 DEF WarningsTruthful, DueWarning
      <4>5. DOMAIN pid_limits' \subseteq Pids
        BY <2>1, <3>1, OpenType DEF OpenEvent, TypeOK, DedupTypeOK
      <4> QED
        BY <4>3, <4>4, <4>5 DEF WarningsTruthful
    <3> QED
      BY <2>1, <3>2, <3>3 DEF OpenEvent, HandleOpen, CountDuplicate, ReportFirst
  <2>2. ASSUME NEW p \in Pids, ExitEvent(p)
        PROVE  WarningsTruthful'
    <3> DEFINE warn == p \in DOMAIN pid_limits /\ pid_limits[p].warn
    <3>1. owed' = owed \ Warned
      BY <2>2 DEF ExitEvent
    <3>2. \A q \in Warned : q = p /\ warn
      <4>1. \A l \in Aggregates(OwnedBy(p), "process_exit") : l.warning = FALSE
        BY DEF Aggregates, Line
      <4> SUFFICES ASSUME NEW l \in out', l.warning
                   PROVE  l.pid = p /\ warn
        BY DEF Warned
      <4>2. \/ l \in Aggregates(OwnedBy(p), "process_exit")
            \/ l = [kind |-> "exit", pid |-> p, warning |-> warn]
        BY <2>2 DEF ExitEvent, HandleExit
      <4>3. CASE l \in Aggregates(OwnedBy(p), "process_exit")
        BY <4>1, <4>3
      <4>4. CASE l = [kind |-> "exit", pid |-> p, warning |-> warn]
        <5> HIDE DEF warn
        <5>1. l.pid = p /\ l.warning = warn
          BY <4>4
        <5> QED
          BY <5>1
      <4> QED
        BY <4>2, <4>3, <4>4
    <3>3. CASE warn
      <4>1. DOMAIN pid_limits' = DOMAIN pid_limits \ {p}
        BY <2>2, <3>3, RestrictedDomain DEF ExitEvent, HandleExit
      <4>2. \A q \in DOMAIN pid_limits' : pid_limits'[q] = pid_limits[q]
        BY <2>2, <3>3, <4>1 DEF ExitEvent, HandleExit, Restrict
      <4> QED
        BY <3>1, <3>2, <4>1, <4>2 DEF WarningsTruthful
    <3>4. CASE ~warn
      <4>1. pid_limits' = pid_limits
        BY <2>2, <3>4 DEF ExitEvent, HandleExit
      <4> QED
        BY <3>1, <3>2, <3>4, <4>1 DEF WarningsTruthful
    <3> QED
      BY <3>3, <3>4
  <2>3. CASE Tick
    BY <2>3 DEF Tick, WarningsTruthful
  <2>4. CASE UNCHANGED vars
    BY <2>4 DEF vars, WarningsTruthful
  <2> QED
    BY <2>1, <2>2, <2>3, <2>4 DEF Next
<1> QED
  BY <1>1, <1>2, TypeCorrect, PTL DEF Spec

-----------------------------------------------------------------------------

\* The strengthening behind LimiterBound: the slot of a process counts the
\* second of its latest open, and counts every open it let pass.
LimiterInv ==
  \A p \in Pids \ excused :
    /\ passed[p] <= FilesPerSec
    /\ p \in DOMAIN pid_limits =>
         /\ pid_limits[p].second = latest[p]
         /\ passed[p] <= pid_limits[p].count
    /\ p \notin DOMAIN pid_limits => passed[p] = 0

\* should_rate_limit_file lets at most MAX_DISTINCT_FILES_PER_SEC opens of a
\* process pass in a second, when its events are in order and it has had a slot.
THEOREM LimiterHolds == Spec => []LimiterBound
<1>1. Init => LimiterInv
  BY DedupAssumption DEF Init, DedupInit, LimiterInv
<1>2. TypeOK /\ LimiterInv /\ [Next]_vars => LimiterInv'
  <2> SUFFICES ASSUME TypeOK, LimiterInv, [Next]_vars
               PROVE  LimiterInv'
    OBVIOUS
  <2> USE DedupAssumption
  <2>1. ASSUME NEW p \in Pids, NEW f \in Files, NEW ts \in Stamps, OpenEvent(p, f, ts),
               NEW q \in Pids \ excused'
        PROVE  /\ passed'[q] <= FilesPerSec
               /\ q \in DOMAIN pid_limits' =>
                    /\ pid_limits'[q].second = latest'[q]
                    /\ passed'[q] <= pid_limits'[q].count
               /\ q \notin DOMAIN pid_limits' => passed'[q] = 0
    <3> DEFINE s == SecondOf(ts)
               before == IF latest[p] = s THEN passed[p] ELSE 0
               drops == Exceeds(p, s)
    <3>1. ts \in Time /\ s \in Nat
      BY SecondType DEF Stamps
    <3>2. q \notin excused /\ (q = p => Limitable(p))
      BY <2>1 DEF OpenEvent
    <3>3. latest'[q] = IF q = p THEN s ELSE latest[q]
      BY <2>1 DEF OpenEvent, TypeOK
    <3>4. passed'[q] = IF q = p THEN before + (IF drops THEN 0 ELSE 1) ELSE passed[q]
      BY <2>1 DEF OpenEvent, TypeOK
    <3>5. drops <=> DropOpen(p, ts)
      BY <2>1 DEF OpenEvent, HandleOpen, DropOpen, CountDuplicate, ReportFirst, Admit
    <3>6. ~drops => Admit(p, s)
      BY <2>1, <3>5 DEF OpenEvent, HandleOpen, CountDuplicate, ReportFirst
    <3>7. CASE q # p
      BY <2>1, <3>1, <3>2, <3>3, <3>4, <3>5, <3>6, <3>7, AdmitSlots, DropSlots DEF LimiterInv
    <3>8. CASE q = p
      <4> DEFINE c == Counted(p, s)
      <4>1. /\ p \in DOMAIN pid_limits'
            /\ pid_limits'[p].second = c.second
            /\ pid_limits'[p].count = c.count
        BY <2>1, <3>1, <3>2, <3>5, <3>6, <3>8, AdmitSlots, DropSlots
      <4>2. drops <=> c.count > FilesPerSec
        BY <3>2, <3>8 DEF Exceeds
      <4>3. CASE p \in DOMAIN pid_limits /\ pid_limits[p].second = s
        <5>1. pid_limits[p] \in Slot
          BY <4>3 DEF TypeOK, DedupTypeOK
        <5>2. c.second = s /\ c.count = pid_limits[p].count + 1 /\ pid_limits[p].count \in Nat
          BY <4>3, <5>1 DEF Counted, Slot
        <5>3. before = passed[p] /\ passed[p] <= pid_limits[p].count /\ passed[p] <= FilesPerSec
              /\ passed[p] \in Nat
          BY <3>2, <3>8, <4>3 DEF LimiterInv, TypeOK
        <5> HIDE DEF before, drops, c
        <5> QED
          BY <3>3, <3>4, <3>8, <4>1, <4>2, <5>2, <5>3
      <4>4. CASE ~(p \in DOMAIN pid_limits /\ pid_limits[p].second = s)
        <5>1. c.second = s /\ c.count = 1
          BY <4>4 DEF Counted
        <5>2. before = 0
          BY <3>2, <3>8, <4>4 DEF LimiterInv
        <5> HIDE DEF before, drops, c
        <5> QED
          BY <3>3, <3>4, <3>8, <4>1, <4>2, <5>1, <5>2
      <4> QED
        BY <4>3, <4>4
    <3> QED
      BY <3>7, <3>8
  <2>2. ASSUME NEW p \in Pids, ExitEvent(p), NEW q \in Pids \ excused'
        PROVE  /\ passed'[q] <= FilesPerSec
               /\ q \in DOMAIN pid_limits' =>
                    /\ pid_limits'[q].second = latest'[q]
                    /\ passed'[q] <= pid_limits'[q].count
               /\ q \notin DOMAIN pid_limits' => passed'[q] = 0
    <3>1. passed'[q] = (IF q = p THEN 0 ELSE passed[q]) /\ latest' = latest /\ excused' = excused
      BY <2>2 DEF ExitEvent, TypeOK
    <3>2. \/ pid_limits' = pid_limits
          \/ pid_limits' = Restrict(pid_limits, DOMAIN pid_limits \ {p})
      BY <2>2 DEF ExitEvent, HandleExit
    <3>3. \A x \in DOMAIN pid_limits' : x \in DOMAIN pid_limits /\ pid_limits'[x] = pid_limits[x]
      BY <3>2, RestrictedDomain DEF Restrict
    <3>4. q # p /\ q \in DOMAIN pid_limits => q \in DOMAIN pid_limits'
      BY <3>2, RestrictedDomain
    <3>5. q \in DOMAIN pid_limits => pid_limits[q].count \in Nat
      BY DEF TypeOK, DedupTypeOK, Slot
    <3> QED
      BY <2>2, <3>1, <3>3, <3>4, <3>5 DEF LimiterInv
  <2>3. CASE Tick
    BY <2>3 DEF Tick, LimiterInv
  <2>4. CASE UNCHANGED vars
    BY <2>4 DEF vars, LimiterInv
  <2> QED
    BY <2>1, <2>2, <2>3, <2>4 DEF Next, LimiterInv
<1>3. LimiterInv => LimiterBound
  BY DEF LimiterInv, LimiterBound
<1> QED
  BY <1>1, <1>2, <1>3, TypeCorrect, PTL DEF Spec

-----------------------------------------------------------------------------

LEMMA NothingGained == \A h : Gain({}, h) = 0
BY DEF Gain, LinesOf

\* What the entries H hold back of a hash, and what the lines X open of it.
Held(H, h) == IF h \in H THEN Pending(h) ELSE 0

Opened(X, h) == IF \E l \in X : l.kind = "open" /\ l.hash = h THEN 1 ELSE 0

\* What a reader gains from the aggregates of the entries H printed with other
\* lines X: what those entries held back, and one for an open line.
LEMMA AggregateGain ==
  ASSUME DedupTypeOK, NEW H, H \subseteq DOMAIN file_hashes, NEW why \in Aggregated,
         NEW X, \A l \in X : l.kind \in {"exit", "open"}, NEW h
  PROVE  Gain(Aggregates(H, why) \union X, h) = Held(H, h) + Opened(X, h)
<1> DEFINE L == LinesOf(Aggregates(H, why) \union X, h)
           a == Line(why, h, file_hashes[h], FALSE)
           reported == h \in H /\ file_hashes[h].count > 1
<1>1. \A l \in Aggregates(H, why) :
         l.kind = why /\ l.hash \in H /\ file_hashes[l.hash].count > 1
                      /\ l = Line(why, l.hash, file_hashes[l.hash], FALSE)
  BY DEF Aggregates, Line
<1>2. a.kind = why /\ a.hash = h /\ a.count = file_hashes[h].count
  BY DEF Line
<1>3. reported => a \in L
  BY <1>2 DEF LinesOf, Aggregates, Aggregated
<1>4. \A l \in L : l.kind \in Aggregated => l = a /\ reported
  BY <1>1 DEF LinesOf, Aggregated
<1>5. (\E l \in L : l.kind = "open") <=> (\E l \in X : l.kind = "open" /\ l.hash = h)
  BY <1>1 DEF LinesOf, Aggregated
<1>6. ~\E l \in L : l.kind = "debug_open"
  BY <1>1 DEF LinesOf, Aggregated
<1> DEFINE c == (CHOOSE l \in L : l.kind \in Aggregated).count
           aggregated == IF \E l \in L : l.kind \in Aggregated THEN c - 1 ELSE 0
<1>7. Gain(Aggregates(H, why) \union X, h)
        = (IF \E l \in L : l.kind = "open" THEN 1 ELSE 0)
            + (IF \E l \in L : l.kind = "debug_open" THEN 1 ELSE 0) + aggregated
  BY DEF Gain
<1>8. aggregated = Held(H, h)
  <2>1. h \in H => file_hashes[h].count \in Nat \ {0} /\ Pending(h) = file_hashes[h].count - 1
    BY DEF DedupTypeOK, Entry, Pending
  <2>2. CASE reported
    <3>1. \E l \in L : l.kind \in Aggregated
      BY <1>2, <1>3, <2>2
    <3>2. (CHOOSE l \in L : l.kind \in Aggregated) = a
      BY <1>4, <3>1
    <3> QED
      BY <1>2, <2>1, <2>2, <3>1, <3>2 DEF Held
  <2>3. CASE ~reported
    <3>1. ~\E l \in L : l.kind \in Aggregated
      BY <1>4, <2>3
    <3> QED
      BY <2>1, <2>3, <3>1 DEF Held
  <2> QED
    BY <2>2, <2>3
<1>9. Held(H, h) \in Int
  BY DEF DedupTypeOK, Entry, Pending, Held
<1> HIDE DEF L, aggregated
<1> QED
  BY <1>5, <1>6, <1>7, <1>8, <1>9 DEF Opened

\* No open that passed the limiter is lost or reported twice by
\* get_file_open_count and flush_pid_file_opens, unless the tracer is verbose.
THEOREM OpensAreConserved == Spec => []Conserved
<1>1. Init => Conserved
  BY DEF Init, DedupInit, Conserved, Pending
<1>2. TypeOK /\ Conserved /\ [Next]_vars => Conserved'
  <2> SUFFICES ASSUME TypeOK, Conserved, [Next]_vars, ~Verbose, NEW h \in Hashes
               PROVE  (opens[h] = seen[h] + Pending(h))'
    BY DEF Conserved
  <2>1. /\ opens[h] = seen[h] + Pending(h)
        /\ opens[h] \in Nat /\ seen[h] \in Nat /\ Pending(h) \in Nat
    <3>1. opens[h] = seen[h] + Pending(h)
      BY DEF Conserved
    <3>2. h \in DOMAIN file_hashes => file_hashes[h].count \in Nat \ {0}
      BY DEF TypeOK, DedupTypeOK, Entry
    <3> QED
      BY <3>1, <3>2 DEF TypeOK, Pending
  <2>2. ASSUME NEW p \in Pids, NEW f \in Files, NEW ts \in Stamps, OpenEvent(p, f, ts)
        PROVE  (opens[h] = seen[h] + Pending(h))'
    <3> DEFINE g == HashOf[p, f]
               s == SecondOf(ts)
               held == Held(Expired(ts), h)
    <3>11. DedupTypeOK
      BY DEF TypeOK
    <3>1. ts \in Time /\ g \in Hashes
      BY HashInHashes DEF Stamps
    <3>2. seen'[h] = seen[h] + Gain(out', h)
      BY <2>2 DEF OpenEvent, Read
    <3>3. Expired(ts) \subseteq DOMAIN file_hashes
      BY DEF Expired
    <3>4. /\ DOMAIN Unexpired(ts) = DOMAIN file_hashes \ Expired(ts)
          /\ \A x \in DOMAIN Unexpired(ts) : Unexpired(ts)[x] = file_hashes[x]
      BY <3>1, <3>11, UnexpiredFacts
    <3>5. ~Exceeds(p, s) => opens'[h] = opens[h] + (IF h = g THEN 1 ELSE 0)
      <4>1. ~Exceeds(p, s) => opens' = [opens EXCEPT ![g] = opens[g] + 1]
        BY <2>2 DEF OpenEvent
      <4> HIDE DEF g
      <4>2. opens \in [Hashes -> Nat]
        BY DEF TypeOK
      <4> QED
        BY <2>1, <4>1, <4>2
    <3>9. held \in Nat /\ held <= Pending(h)
      BY <2>1 DEF Held
    <3>10. Pending(h)' = IF h \in DOMAIN file_hashes' THEN file_hashes'[h].count - 1 ELSE 0
      BY DEF Pending
    <3>6. CASE DropOpen(p, ts)
      <4>1. opens' = opens /\ Gain(out', h) = 0 /\ file_hashes' = file_hashes
        BY <2>2, <3>6, NothingGained DEF OpenEvent, DropOpen
      <4> QED
        BY <2>1, <3>2, <3>10, <4>1 DEF Pending
    <3>7. CASE CountDuplicate(p, f, ts)
      <4>1. Gain(out', h) = held
        <5>1. out' = Aggregates(Expired(ts), "window_expired") \union {}
          BY <3>7 DEF CountDuplicate
        <5> DEFINE X == {}
        <5>2. "window_expired" \in Aggregated /\ \A l \in X : l.kind \in {"exit", "open"}
          BY DEF Aggregated
        <5>3. Opened(X, h) = 0 /\ out' = Aggregates(Expired(ts), "window_expired") \union X
          BY <5>1 DEF Opened
        <5> HIDE DEF X
        <5>4. Gain(Aggregates(Expired(ts), "window_expired") \union X, h) = held + Opened(X, h)
          BY <3>3, <3>11, <5>2, AggregateGain
        <5> HIDE DEF held
        <5> QED
          BY <3>9, <5>3, <5>4
      <4>2. /\ g \in DOMAIN Unexpired(ts)
            /\ file_hashes' = [Unexpired(ts) EXCEPT ![g] = Again(Unexpired(ts)[g], ts)]
        BY <3>7 DEF CountDuplicate
      <4>3. Again(file_hashes[g], ts).count = file_hashes[g].count + 1
        BY DEF Again
      <4>4. Pending(h)' = (IF h = g THEN Pending(h) + 1 ELSE Pending(h) - held)
        <5> HIDE DEF g, held
        <5>1. /\ DOMAIN file_hashes' = DOMAIN file_hashes \ Expired(ts)
              /\ g \in DOMAIN file_hashes'
              /\ file_hashes'[g] = Again(file_hashes[g], ts)
              /\ \A x \in DOMAIN file_hashes' \ {g} : file_hashes'[x] = file_hashes[x]
          BY <3>4, <4>2
        <5>2. file_hashes[g].count \in Nat
          BY <5>1 DEF TypeOK, DedupTypeOK, Entry
        <5>3. CASE h = g
          <6>1. Pending(h)' = file_hashes[h].count
            BY <3>10, <4>3, <5>1, <5>2, <5>3
          <6>2. Pending(h) = file_hashes[h].count - 1
            BY <3>3, <5>1, <5>3 DEF Pending
          <6> QED
            BY <5>2, <5>3, <6>1, <6>2
        <5>4. CASE h # g
          <6>1. CASE h \in Expired(ts)
            BY <2>1, <3>10, <5>1, <5>4, <6>1 DEF Held, held
          <6>2. CASE h \notin Expired(ts)
            <7>1. Pending(h)' = Pending(h)
              BY <3>10, <5>1, <5>4, <6>2 DEF Pending
            <7> QED
              BY <2>1, <5>4, <6>2, <7>1 DEF Held, held
          <6> QED
            BY <6>1, <6>2
        <5> QED
          BY <5>3, <5>4
      <4>5. opens'[h] = opens[h] + (IF h = g THEN 1 ELSE 0)
        BY <3>5, <3>7 DEF CountDuplicate, Admit
      <4>6. h = g => held = 0
        BY <3>4, <4>2 DEF Held
      <4> HIDE DEF held, g
      <4> QED
        BY <2>1, <3>2, <3>9, <4>1, <4>4, <4>5, <4>6
    <3>8. CASE ReportFirst(p, f, ts)
      <4> DEFINE line == Line("open", g, First(p, f, ts), DueWarning(p, s))
                 one == IF h = g THEN 1 ELSE 0
      <4>1. line.kind = "open" /\ line.hash = g
        BY DEF Line
      <4>2. Gain(out', h) = held + one
        <5> DEFINE X == {line}
        <5>1. out' = Aggregates(Expired(ts), "window_expired") \union X
          <6>1. ~(\E x \in {Verbose} : x)
            OBVIOUS
          <6> QED
            BY <3>8, <6>1 DEF ReportFirst
        <5>2. \A l \in X : l.kind \in {"exit", "open"}
          BY <4>1
        <5>3. Opened(X, h) = one
          BY <4>1 DEF Opened
        <5> HIDE DEF X
        <5>4. "window_expired" \in Aggregated
          BY DEF Aggregated
        <5>5. Gain(Aggregates(Expired(ts), "window_expired") \union X, h) = held + Opened(X, h)
          BY <3>3, <3>11, <5>2, <5>4, AggregateGain
        <5> HIDE DEF held
        <5> QED
          BY <3>9, <5>1, <5>3, <5>5
      <4>3. /\ g \notin DOMAIN Unexpired(ts)
            /\ \/ file_hashes' = Unexpired(ts)
               \/ file_hashes' = Put(Unexpired(ts), g, First(p, f, ts))
        BY <3>8 DEF ReportFirst
      <4>4. Pending(h)' = Pending(h) - held
        <5>1. CASE file_hashes' = Unexpired(ts)
          <6>1. CASE h \in Expired(ts)
            BY <2>1, <3>4, <3>10, <5>1, <6>1 DEF Held
          <6>2. CASE h \notin Expired(ts)
            BY <2>1, <3>4, <3>10, <5>1, <6>2 DEF Pending, Held
          <6> QED
            BY <6>1, <6>2
        <5>2. CASE file_hashes' = Put(Unexpired(ts), g, First(p, f, ts))
          <6> HIDE DEF g
          <6>1. First(p, f, ts).count = 1
            BY DEF First
          <6>2. /\ DOMAIN file_hashes' = (DOMAIN file_hashes \ Expired(ts)) \union {g}
                /\ file_hashes'[g] = First(p, f, ts)
                /\ \A x \in DOMAIN file_hashes' \ {g} : file_hashes'[x] = file_hashes[x]
            BY <3>4, <5>2 DEF Put
          <6>3. CASE h = g
            <7>1. Pending(h)' = 0
              BY <3>10, <6>1, <6>2, <6>3
            <7>2. Pending(h) = held
              BY <3>3, <3>4, <4>3, <6>3 DEF Held, Pending
            <7> QED
              BY <2>1, <7>1, <7>2
          <6>4. CASE h # g /\ h \in Expired(ts)
            BY <2>1, <3>10, <6>2, <6>4 DEF Held
          <6>5. CASE h # g /\ h \notin Expired(ts)
            BY <2>1, <3>10, <6>2, <6>5 DEF Held, Pending
          <6> QED
            BY <6>3, <6>4, <6>5
        <5> QED
          BY <4>3, <5>1, <5>2
      <4>5. opens'[h] = opens[h] + one
        BY <3>5, <3>8 DEF ReportFirst, Admit
      <4> HIDE DEF held, one
      <4>6. one \in Nat
        BY DEF one
      <4> QED
        BY <2>1, <3>2, <3>9, <4>2, <4>4, <4>5, <4>6
    <3> QED
      BY <2>2, <3>6, <3>7, <3>8 DEF OpenEvent, HandleOpen
  <2>3. ASSUME NEW p \in Pids, ExitEvent(p)
        PROVE  (opens[h] = seen[h] + Pending(h))'
    <3> DEFINE held == Held(OwnedBy(p), h)
               X == {[kind |-> "exit", pid |-> p, warning |-> p \in DOMAIN pid_limits /\ pid_limits[p].warn]}
    <3>1. out' = Aggregates(OwnedBy(p), "process_exit") \union X
      BY <2>3 DEF ExitEvent, HandleExit
    <3>2. OwnedBy(p) \subseteq DOMAIN file_hashes /\ DedupTypeOK
      BY DEF OwnedBy, TypeOK
    <3>3. \A l \in X : l.kind = "exit"
      OBVIOUS
    <3>7. held \in Nat /\ held <= Pending(h)
      BY <2>1 DEF Held
    <3>4. Gain(out', h) = held
      <4> HIDE DEF X
      <4>1. "process_exit" \in Aggregated /\ \A l \in X : l.kind \in {"exit", "open"}
        BY <3>3 DEF Aggregated
      <4>2. Gain(Aggregates(OwnedBy(p), "process_exit") \union X, h) = held + Opened(X, h)
        BY <3>2, <4>1, AggregateGain
      <4> HIDE DEF held
      <4> QED
        BY <3>1, <3>3, <3>7, <4>2 DEF Opened
    <3>5. seen'[h] = seen[h] + Gain(out', h) /\ opens' = opens
      BY <2>3 DEF ExitEvent, Read
    <3>8. Pending(h)' = IF h \in DOMAIN file_hashes' THEN file_hashes'[h].count - 1 ELSE 0
      BY DEF Pending
    <3>6. Pending(h)' = Pending(h) - held
      <4>1. /\ DOMAIN file_hashes' = DOMAIN file_hashes \ OwnedBy(p)
            /\ \A x \in DOMAIN file_hashes' : file_hashes'[x] = file_hashes[x]
        BY <2>3, RestrictedDomain DEF ExitEvent, HandleExit, Restrict
      <4> QED
        <5>1. CASE h \in OwnedBy(p)
          BY <2>1, <3>8, <4>1, <5>1 DEF Held
        <5>2. CASE h \notin OwnedBy(p)
          BY <2>1, <3>8, <4>1, <5>2 DEF Pending, Held
        <5> QED
          BY <5>1, <5>2
    <3> HIDE DEF held
    <3> QED
      BY <2>1, <3>4, <3>5, <3>6, <3>7
  <2>4. CASE Tick
    BY <2>1, <2>4 DEF Tick, Pending
  <2>5. CASE UNCHANGED vars
    BY <2>1, <2>5 DEF vars, Pending
  <2> QED
    BY <2>2, <2>3, <2>4, <2>5 DEF Next
<1> QED
  BY <1>1, <1>2, TypeCorrect, PTL DEF Spec
-----------------------------------------------------------------------------

\* An entry that the clean-up leaves is younger than the window, or has a later
\* timestamp than the open's: unsigned arithmetic takes that one for expired,
\* and nothing else.
LEMMA LeftYoung ==
  ASSUME NEW ts \in Time, NEW then \in Time, Elapsed(ts, then) <= Window
  PROVE  ts <= then + Window
<1>1. ts \in Nat /\ then \in Nat /\ ts < Word /\ Word \in Nat \ {0} /\ Window \in Nat
  BY DedupAssumption DEF Time
<1>2. CASE ts <= then
  BY <1>1, <1>2
<1>3. CASE then < ts
  <2>1. ts - then \in 0 .. Word - 1
    BY <1>1, <1>3
  <2>2. (ts - then) % Word = ts - then
    BY <1>1, <2>1
  <2> QED
    BY <1>1, <2>2 DEF Elapsed
<1> QED
  BY <1>1, <1>2, <1>3

\* Whenever an open is admitted, no aggregate is left that has outlived its
\* window by more than a timestamp may lag: the clean-up runs before the entry
\* is looked up, on every path that counts the open.
THEOREM OpensClean == Spec => CleanedByNextOpen
<1> DEFINE Young(e) == clock <= e.ts + Window + Skew
<1>1. TypeOK /\ [Next]_vars => (opens' # opens => \A h \in DOMAIN file_hashes' : Young(file_hashes'[h]))
  <2> SUFFICES ASSUME TypeOK, [Next]_vars, opens' # opens
               PROVE  \A h \in DOMAIN file_hashes' : Young(file_hashes'[h])
    OBVIOUS
  <2>1. PICK p \in Pids, f \in Files, ts \in Stamps : OpenEvent(p, f, ts)
    BY DEF Next, vars, ExitEvent, Tick
  <2> DEFINE g == HashOf[p, f]
             D == DOMAIN Unexpired(ts)
  <2>2. /\ ts \in Time
        /\ clock <= ts + Skew
        /\ clock \in Nat /\ ts \in Nat /\ Skew \in Nat /\ Window \in Nat
    BY AccountingAssumption, DedupAssumption DEF Stamps, TypeOK, Time
  <2>3. \A e : e.ts = ts => Young(e)
    BY <2>2
  <2>4. ASSUME NEW h \in D
        PROVE  Young(Unexpired(ts)[h])
    <3>1. h \in DOMAIN file_hashes /\ h \notin Expired(ts) /\ Unexpired(ts)[h] = file_hashes[h]
      BY <2>2, UnexpiredFacts DEF TypeOK
    <3>2. file_hashes[h].ts \in Time
      BY <3>1 DEF TypeOK, DedupTypeOK, Entry
    <3>3. Elapsed(ts, file_hashes[h].ts) <= Window
      <4>1. Elapsed(ts, file_hashes[h].ts) \in Int
        BY <2>2, <3>2, DedupAssumption DEF Elapsed, Time
      <4> QED
        BY <2>2, <3>1, <4>1 DEF Expired
    <3>4. ts <= file_hashes[h].ts + Window
      BY <2>2, <3>2, <3>3, LeftYoung
    <3>5. file_hashes[h].ts \in Nat
      BY <3>2, DedupAssumption DEF Time
    <3> QED
      BY <2>2, <3>1, <3>4, <3>5
  <2>5. ~DropOpen(p, ts)
    BY <2>1 DEF OpenEvent, DropOpen
  <2>6. CASE CountDuplicate(p, f, ts)
    <3>1. file_hashes' = [Unexpired(ts) EXCEPT ![g] = Again(Unexpired(ts)[g], ts)]
      BY <2>6 DEF CountDuplicate
    <3>2. Again(Unexpired(ts)[g], ts).ts = ts
      BY DEF Again
    <3> HIDE DEF Young
    <3> QED
      BY <2>3, <2>4, <3>1, <3>2
  <2>7. CASE ReportFirst(p, f, ts)
    <3>1. First(p, f, ts).ts = ts
      BY DEF First
    <3>2. file_hashes' = Unexpired(ts) \/ file_hashes' = Put(Unexpired(ts), g, First(p, f, ts))
      BY <2>7 DEF ReportFirst
    <3>3. \A h \in D : Young(Unexpired(ts)[h])
      BY <2>4
    <3>4. Young(First(p, f, ts))
      BY <2>3, <3>1
    <3> HIDE DEF Young
    <3>5. CASE file_hashes' = Unexpired(ts)
      BY <3>3, <3>5
    <3>6. CASE file_hashes' = Put(Unexpired(ts), g, First(p, f, ts))
      <4>1. /\ DOMAIN file_hashes' = D \union {g}
            /\ file_hashes'[g] = First(p, f, ts)
            /\ \A h \in D \ {g} : file_hashes'[h] = Unexpired(ts)[h]
        BY <3>6 DEF Put
      <4> QED
        BY <3>3, <3>4, <4>1
    <3> QED
      BY <3>2, <3>5, <3>6
  <2> QED
    BY <2>1, <2>5, <2>6, <2>7 DEF OpenEvent, HandleOpen
<1>2. TypeOK /\ [Next]_vars => [opens' # opens => \A h \in DOMAIN file_hashes' : clock <= file_hashes'[h].ts + Window + Skew]_vars
  BY <1>1
<1> QED
  BY <1>2, TypeCorrect, PTL DEF Spec, CleanedByNextOpen
==============================================================================
