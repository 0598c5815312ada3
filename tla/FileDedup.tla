----------------------------- MODULE FileDedup ------------------------------
(***************************************************************************)
(* FILE_OPEN reporting of bpf/process.c: the per-process limiter of opens  *)
(* per second (pid_limits), the table that folds repeated opens of a file  *)
(* into one count (file_hashes), and the lines printed.                    *)
(*                                                                         *)
(* Both C arrays are searched from end to end for their key and hold it at *)
(* most once, so each is a function from its key: the pid of a limiter     *)
(* slot, the 64-bit hash of a dedup entry.  Which pids and paths share a   *)
(* hash is a parameter.  What a handler prints is the set out.             *)
(***************************************************************************)
EXTENDS Integers, FiniteSets, Functions

CONSTANTS
  Pids,          \* process ids
  Files,         \* file paths
  Hashes,        \* values of hash_file_open
  HashOf,        \* the hash of each pid and path
  MaxHashes,     \* MAX_FILE_HASHES, 1024
  MaxLimits,     \* MAX_PID_LIMITS, 256
  FilesPerSec,   \* MAX_DISTINCT_FILES_PER_SEC, 30
  SecondLen,     \* ticks of the event clock in a second
  Window,        \* FILE_DEDUP_WINDOW_NS in ticks
  Word,          \* number of values of a uint64_t timestamp
  Verbose        \* the -v option

ASSUME DedupAssumption ==
  /\ HashOf \in [Pids \X Files -> Hashes]
  /\ MaxHashes \in Nat
  /\ MaxLimits \in Nat
  /\ FilesPerSec \in Nat \ {0}
  /\ SecondLen \in Nat \ {0}
  /\ Window \in Nat
  /\ Word \in Nat \ {0}
  /\ Verbose \in BOOLEAN

VARIABLES
  file_hashes,   \* hash -> pid and file of the first open, last time, count
  pid_limits,    \* pid -> second being counted, opens in it, warning due
  out            \* the lines the last handler printed

dedupVars == <<file_hashes, pid_limits, out>>

Time == 0 .. Word - 1

Entry == [pid : Pids, file : Files, ts : Time, count : Nat \ {0}]

Slot == [second : Nat, count : Nat, warn : BOOLEAN]

OpenLine ==
  [kind : {"open", "debug_open", "window_expired", "process_exit"},
   pid : Pids, file : Files, hash : Hashes, count : Nat \ {0}, warning : BOOLEAN]

ProcessLine == [kind : {"exec", "exit", "readline"}, pid : Pids, warning : BOOLEAN]

DedupTypeOK ==
  /\ DOMAIN file_hashes \subseteq Hashes
  /\ file_hashes \in [DOMAIN file_hashes -> Entry]
  /\ DOMAIN pid_limits \subseteq Pids
  /\ pid_limits \in [DOMAIN pid_limits -> Slot]
  /\ out \subseteq OpenLine \union ProcessLine

DedupInit ==
  /\ file_hashes = [h \in {} |-> {}]
  /\ pid_limits = [p \in {} |-> {}]
  /\ out = {}

\* f with k mapped to v, whether f maps k already or not.
Put(f, k, v) == [x \in DOMAIN f \union {k} |-> IF x = k THEN v ELSE f[x]]

-----------------------------------------------------------------------------
\* should_rate_limit_file

SecondOf(ts) == ts \div SecondLen

\* A mutant: the search for a slot never finds the array full.
LimitableAlways(p) == TRUE

\* p has a slot of the limiter or one is left for it; without one nothing is
\* limited.
Limitable(p) ==
  p \in DOMAIN pid_limits \/ Cardinality(DOMAIN pid_limits) < MaxLimits

\* A mutant: every open starts a new second.
CountedAfresh(p, s) == [second |-> s, count |-> 1, warn |-> FALSE]

\* A mutant: a new second does not clear the warning just handed out.
CountedWarned(p, s) ==
  IF p \in DOMAIN pid_limits /\ pid_limits[p].second = s
  THEN [pid_limits[p] EXCEPT !.count = @ + 1]
  ELSE [second |-> s, count |-> 1,
        warn |-> p \in DOMAIN pid_limits /\ pid_limits[p].warn]

\* p's slot after one more open in second s; a new second starts a new count
\* and takes the warning with it.
Counted(p, s) ==
  IF p \in DOMAIN pid_limits /\ pid_limits[p].second = s
  THEN [pid_limits[p] EXCEPT !.count = @ + 1]
  ELSE [second |-> s, count |-> 1, warn |-> FALSE]

\* The first open of a later second carries the warning of an exceeded one.
DueWarning(p, s) ==
  p \in DOMAIN pid_limits /\ pid_limits[p].second # s /\ pid_limits[p].warn

Exceeds(p, s) == Limitable(p) /\ Counted(p, s).count > FilesPerSec

Admit(p, s) ==
  /\ ~Exceeds(p, s)
  /\ pid_limits' = IF Limitable(p) THEN Put(pid_limits, p, Counted(p, s)) ELSE pid_limits

-----------------------------------------------------------------------------
\* get_file_open_count and the printing of its result

\* timestamp_ns - entry.timestamp_ns in 64-bit unsigned arithmetic: an event
\* older than the entry is nearly Word ticks away from it.
Elapsed(now, then) == (now - then) % Word

\* A mutant: the window is compared in the wrong unit.
ExpiredLate(ts) == {h \in DOMAIN file_hashes : Elapsed(ts, file_hashes[h].ts) > 2 * Window}

Expired(ts) == {h \in DOMAIN file_hashes : Elapsed(ts, file_hashes[h].ts) > Window}

\* The entries the clean-up leaves.
Unexpired(ts) == Restrict(file_hashes, DOMAIN file_hashes \ Expired(ts))

Line(kind, h, e, warning) ==
  [kind |-> kind, pid |-> e.pid, file |-> e.file, hash |-> h,
   count |-> e.count, warning |-> warning]

\* The aggregated lines of the entries H that are given up: a count of one has
\* been reported already.
Aggregates(H, why) ==
  {Line(why, h, file_hashes[h], FALSE) : h \in {x \in H : file_hashes[x].count > 1}}

\* A mutant: a new entry starts with no open counted.
FirstUncounted(p, f, ts) == [pid |-> p, file |-> f, ts |-> ts, count |-> 0]

\* The entry of a first open, and an entry after another open.
First(p, f, ts) == [pid |-> p, file |-> f, ts |-> ts, count |-> 1]

Again(e, ts) == [pid |-> e.pid, file |-> e.file, ts |-> ts, count |-> e.count + 1]

\* Over the limit: dropped before anything else is looked at.
DropOpen(p, ts) ==
  /\ Exceeds(p, SecondOf(ts))
  /\ pid_limits' = Put(pid_limits, p, [Counted(p, SecondOf(ts)) EXCEPT !.warn = TRUE])
  /\ out' = {}
  /\ UNCHANGED file_hashes

\* A mutant: the open that finds its entry again starts a new count.
RestartDuplicate(p, f, ts) ==
  LET h == HashOf[p, f]
  IN  /\ Admit(p, SecondOf(ts))
      /\ h \in DOMAIN Unexpired(ts)
      /\ file_hashes' = [Unexpired(ts) EXCEPT ![h] = [pid |-> @.pid, file |-> @.file, ts |-> ts, count |-> 1]]
      /\ out' = Aggregates(Expired(ts), "window_expired")

\* A known hash: counted, its window restarted, nothing printed for it.  The
\* warning that was due, if any, goes unprinted.
CountDuplicate(p, f, ts) ==
  LET h == HashOf[p, f]
  IN  /\ Admit(p, SecondOf(ts))
      /\ h \in DOMAIN Unexpired(ts)
      /\ file_hashes' = [Unexpired(ts) EXCEPT ![h] = Again(@, ts)]
      /\ out' = Aggregates(Expired(ts), "window_expired")

\* A new hash: printed with a count of one, and remembered if there is room.
\* Without room a verbose tracer prints it twice.
ReportFirst(p, f, ts) ==
  LET h    == HashOf[p, f]
      room == Cardinality(DOMAIN Unexpired(ts)) < MaxHashes
      warn == DueWarning(p, SecondOf(ts))
  IN  /\ Admit(p, SecondOf(ts))
      /\ h \notin DOMAIN Unexpired(ts)
      /\ file_hashes' = IF room THEN Put(Unexpired(ts), h, First(p, f, ts)) ELSE Unexpired(ts)
      /\ out' = Aggregates(Expired(ts), "window_expired")
                  \union {Line("open", h, First(p, f, ts), warn)}
                  \union {Line("debug_open", h, First(p, f, ts), FALSE) : x \in {y \in {Verbose} : y /\ ~room}}

\* The FILE_OPERATION branch of handle_event, once the filter let it through.
HandleOpen(p, f, ts) ==
  \/ DropOpen(p, ts)
  \/ CountDuplicate(p, f, ts)
  \/ ReportFirst(p, f, ts)

-----------------------------------------------------------------------------
\* The end of a process

OwnedBy(p) == {h \in DOMAIN file_hashes : file_hashes[h].pid = p}

\* The EXIT branch of handle_event, once the filter let it through: the line
\* with a due warning, whose slot is given back, then flush_pid_file_opens.
HandleExit(p) ==
  LET warn == p \in DOMAIN pid_limits /\ pid_limits[p].warn
  IN  /\ out' = {[kind |-> "exit", pid |-> p, warning |-> warn]}
                  \union Aggregates(OwnedBy(p), "process_exit")
      /\ pid_limits' = IF warn THEN Restrict(pid_limits, DOMAIN pid_limits \ {p}) ELSE pid_limits
      /\ file_hashes' = Restrict(file_hashes, DOMAIN file_hashes \ OwnedBy(p))
==============================================================================
