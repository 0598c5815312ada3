-------------------------- MODULE DedupAccounting ---------------------------
(***************************************************************************)
(* FILE_OPEN reporting seen by a consumer of the printed lines.  Processes *)
(* open files and exit while the event clock advances; the timestamp of an *)
(* event may lag behind the clock, because events of several CPUs reach    *)
(* the ring buffer out of order.  The history variables compare what was   *)
(* opened with what a reader of the lines can add up.                      *)
(***************************************************************************)
EXTENDS FileDedup

CONSTANTS
  MaxTime,     \* bound: last tick of the event clock
  MaxEvents,   \* bound: opens and exits handled
  Skew         \* how far a timestamp may lag behind the clock

ASSUME AccountingAssumption ==
  /\ MaxTime \in Nat /\ MaxTime < Word
  /\ MaxEvents \in Nat
  /\ Skew \in Nat

VARIABLES
  clock,      \* the event clock
  events,     \* opens and exits handled so far
  opens,      \* history: hash -> opens that passed the limiter
  seen,       \* history: hash -> opens the printed lines account for
  latest,     \* history: pid -> latest second it opened a file in
  passed,     \* history: pid -> opens passed in that second
  excused,    \* history: pids limited out of order, or not limited at all
  owed        \* history: pids with opens dropped since their last warning

vars == <<file_hashes, pid_limits, out, clock, events, opens, seen, latest, passed, excused, owed>>

Aggregated == {"window_expired", "process_exit"}

\* The open lines of a hash.
LinesOf(lines, h) == {l \in lines : l.kind # "exit" /\ l.hash = h}

\* What the lines add to a reader's total for h: an open line is one open, an
\* aggregate replaces the line of its first open.
Gain(lines, h) ==
    (IF \E l \in LinesOf(lines, h) : l.kind = "open" THEN 1 ELSE 0)
  + (IF \E l \in LinesOf(lines, h) : l.kind = "debug_open" THEN 1 ELSE 0)
  + (IF \E l \in LinesOf(lines, h) : l.kind \in Aggregated
     THEN (CHOOSE l \in LinesOf(lines, h) : l.kind \in Aggregated).count - 1
     ELSE 0)

TypeOK ==
  /\ DedupTypeOK
  /\ clock \in 0 .. MaxTime
  /\ events \in 0 .. MaxEvents
  /\ opens \in [Hashes -> Nat]
  /\ seen \in [Hashes -> Nat]
  /\ latest \in [Pids -> Nat]
  /\ passed \in [Pids -> Nat]
  /\ excused \subseteq Pids
  /\ owed \subseteq Pids

Init ==
  /\ DedupInit
  /\ clock = 0
  /\ events = 0
  /\ opens = [h \in Hashes |-> 0]
  /\ seen = [h \in Hashes |-> 0]
  /\ latest = [p \in Pids |-> 0]
  /\ passed = [p \in Pids |-> 0]
  /\ excused = {}
  /\ owed = {}

\* The reader adds up the lines just printed.
Read == seen' = [h \in Hashes |-> seen[h] + Gain(out', h)]

\* Who was warned about, and who was dropped, in this step.
Warned == {p \in Pids : \E l \in out' : l.pid = p /\ l.warning}

OpenEvent(p, f, ts) ==
  LET s      == SecondOf(ts)
      drops  == Exceeds(p, s)
      before == IF latest[p] = s THEN passed[p] ELSE 0
  IN  /\ events < MaxEvents
      /\ HandleOpen(p, f, ts)
      /\ Read
      /\ opens' = IF drops THEN opens ELSE [opens EXCEPT ![HashOf[p, f]] = @ + 1]
      /\ latest' = [latest EXCEPT ![p] = s]
      /\ passed' = [passed EXCEPT ![p] = before + (IF drops THEN 0 ELSE 1)]
      /\ excused' = IF s < latest[p] \/ ~Limitable(p) THEN excused \union {p} ELSE excused
      /\ owed' = IF drops THEN owed \union {p} ELSE owed \ Warned
      /\ events' = events + 1
      /\ UNCHANGED clock

ExitEvent(p) ==
  /\ events < MaxEvents
  /\ HandleExit(p)
  /\ Read
  /\ passed' = [passed EXCEPT ![p] = 0]
  /\ owed' = owed \ Warned
  /\ events' = events + 1
  /\ UNCHANGED <<clock, opens, latest, excused>>

Tick ==
  /\ clock < MaxTime
  /\ clock' = clock + 1
  /\ out' = {}
  /\ UNCHANGED <<file_hashes, pid_limits, events, opens, seen, latest, passed, excused, owed>>

Stamps == {t \in Time : t <= clock /\ clock - t <= Skew}

Next ==
  \/ \E p \in Pids, f \in Files, ts \in Stamps : OpenEvent(p, f, ts)
  \/ \E p \in Pids : ExitEvent(p)
  \/ Tick

Spec == Init /\ [][Next]_vars

-----------------------------------------------------------------------------

\* Opens an entry still holds back from the reader.
Pending(h) == IF h \in DOMAIN file_hashes THEN file_hashes[h].count - 1 ELSE 0

\* No open is lost or counted twice: of every hash, the opens that passed the
\* limiter are those the printed lines account for plus those still held back,
\* across expiry, exit, a full table and timestamps out of order.
Conserved == ~Verbose => \A h \in Hashes : opens[h] = seen[h] + Pending(h)

\* No process passes more than FilesPerSec opens in a second, as long as its
\* events come in order and the limiter has had a slot for it.
LimiterBound == \A p \in Pids \ excused : passed[p] <= FilesPerSec

\* A rate_limit_warning is never a false alarm: a slot that will print one
\* belongs to a process with opens dropped since its last warning.
WarningsTruthful == \A p \in DOMAIN pid_limits : pid_limits[p].warn => p \in owed

\* Both tables stay within their arrays.
WithinArrays ==
  /\ Cardinality(DOMAIN file_hashes) <= MaxHashes
  /\ Cardinality(DOMAIN pid_limits) <= MaxLimits

\* An aggregate outlives its window only until the next open of any process is
\* admitted, or a little longer if that one comes with an older timestamp.
CleanedByNextOpen ==
  [][opens' # opens =>
       \A h \in DOMAIN file_hashes' : clock <= file_hashes'[h].ts + Window + Skew]_vars
==============================================================================
