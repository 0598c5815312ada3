--------------------------- MODULE ProcessTracer ----------------------------
(***************************************************************************)
(* The process tracer end to end: kernel tracepoints of bpf/process.bpf.c  *)
(* writing into a bounded ring buffer, and bpf/process.c, which scans      *)
(* /proc, attaches, and then handles one event of the ring at a time with  *)
(* the table of tracked pids and the FILE_OPEN tables.                     *)
(*                                                                         *)
(* A process is a thread group.  Its leader may exit before its other      *)
(* threads do: the exit tracepoint fires for the leader only, after which  *)
(* the group may go on opening files, or exec and live on.                 *)
(***************************************************************************)
EXTENDS FileDedup, Sequences

CONSTANTS
  TableSize,   \* TRACKED_PIDS_HASH_SIZE
  RingMax,     \* events the ring buffer holds
  Options,     \* command lines: filter mode, -p pid or 0, -d given or not
  Existing,    \* the tables of processes the tracer may find when it starts
  MaxTime,     \* bound: last tick of the event clock
  MaxOps       \* bound: forks, execs, exits, opens and lines read

T == INSTANCE PidTable WITH Size <- TableSize

\* What a new orphan's parent is, and what read_proc_ppid makes of a stat line
\* whose command name holds a space.
Reaper == 1
NoPpid == 0

ASSUME TracerAssumption ==
  /\ Pids \subseteq Nat \ {NoPpid, Reaper}
  /\ TableSize \in Nat \ {0}
  /\ RingMax \in Nat \ {0}
  /\ Options \subseteq [mode : {"ALL", "PROC", "FILTER"}, pid : Pids \union {0}, duration : BOOLEAN]
  /\ MaxTime \in Nat /\ MaxTime < Word
  /\ MaxOps \in Nat

States == {"none", "running", "dying"}

Process == [st : States, ppid : Pids \union {Reaper}, match : BOOLEAN]

NoProcess == [st |-> "none", ppid |-> Reaper, match |-> FALSE]

ASSUME ExistingAssumption == Existing \subseteq [Pids -> Process]

VARIABLES
  options,     \* the command line
  phase,       \* "scan", "gap" between the scan and attach, "tracing", "stopped"
  cursor,      \* the last pid the scan of /proc has visited
  procs,       \* pid -> the process, as the kernel has it
  exec_start,  \* the pids with an entry in the exec_start map
  ring,        \* the ring buffer
  tracker,     \* the tracker's table
  clock,       \* the event clock
  ops,         \* kernel operations so far
  family,      \* history: running processes that ought to be tracked
  announced,   \* history: pids scanned or announced by EXEC and not by EXIT
  blind,       \* history: an event was lost or came before attach
  cut,         \* history: a removal cut another entry's probe sequence
  overflow     \* history: a pid found no slot

kernelVars == <<procs, exec_start, clock, ops>>
userVars   == <<tracker, file_hashes, pid_limits, announced, cut, overflow>>
vars == <<options, phase, cursor, ring, family, blind, out, kernelVars, userVars>>

Event ==
  [type : {"EXEC"}, pid : Pids, ppid : Pids \union {Reaper}, match : BOOLEAN]
    \union [type : {"EXIT", "READLINE"}, pid : Pids]
    \union [type : {"OPEN"}, pid : Pids, file : Files, ts : Time]

TypeOK ==
  /\ DedupTypeOK
  /\ options \in Options
  /\ phase \in {"scan", "gap", "tracing", "stopped"}
  /\ cursor \in Pids \union {0}
  /\ procs \in [Pids -> Process]
  /\ exec_start \subseteq Pids
  /\ ring \in Seq(Event) /\ Len(ring) <= RingMax
  /\ tracker \in T!Table
  /\ clock \in 0 .. MaxTime
  /\ ops \in 0 .. MaxOps
  /\ family \subseteq Pids
  /\ announced \subseteq Pids
  /\ blind \in BOOLEAN /\ cut \in BOOLEAN /\ overflow \in BOOLEAN

Init ==
  /\ DedupInit
  /\ options \in Options
  /\ phase = "scan"
  /\ cursor = 0
  /\ procs \in Existing
  /\ exec_start = {}
  /\ ring = <<>>
  /\ tracker = T!EmptyTable
  /\ clock = 0
  /\ ops = 0
  /\ family = {} /\ announced = {}
  /\ blind = FALSE /\ cut = FALSE /\ overflow = FALSE

-----------------------------------------------------------------------------
\* The filter

\* should_track_process, given what is known of the parent.
Wanted(pid, match, parentTracked) ==
  \/ options.mode \in {"ALL", "PROC"}
  \/ options.pid = pid
  \/ parentTracked
  \/ match

ShouldTrack(pid, ppid, match) == Wanted(pid, match, ppid \in T!TrackedPids(tracker))

\* should_report_file_ops
ReportsFiles(pid) == options.mode = "ALL" \/ T!Tracked(tracker, pid)

\* should_report_bash_readline
ReportsReadline(pid) == options.mode # "FILTER" \/ T!Tracked(tracker, pid)

\* pid_tracker_add, whose failure only a verbose scan mentions.
Track(p) ==
  /\ tracker' = T!AddPid(tracker, p)
  /\ overflow' = (overflow \/ ~T!AddSucceeds(tracker, p))
  /\ announced' = announced \union {p}

-----------------------------------------------------------------------------
\* The scan of /proc

InProc == {p \in Pids : p > cursor /\ procs[p].st # "none"}

\* populate_initial_pids visits the next pid.  The parent is misread when the
\* command name holds a space.  A zombie has an entry in /proc too.
ScanPid(p, ppid) ==
  LET adds == ShouldTrack(p, ppid, procs[p].match)
  IN  /\ phase = "scan"
      /\ p \in InProc /\ \A q \in InProc : p <= q
      /\ ppid \in {procs[p].ppid, NoPpid}
      /\ cursor' = p
      /\ IF adds THEN Track(p) ELSE UNCHANGED <<tracker, overflow, announced>>
      /\ family' = IF adds THEN family \union {p} ELSE family
      /\ blind' = (blind \/ (adds /\ procs[p].st = "dying"))
      /\ UNCHANGED <<options, phase, ring, kernelVars, file_hashes, pid_limits, out, cut>>

ScanDone ==
  /\ phase = "scan"
  /\ InProc = {}
  /\ phase' = "gap"
  /\ UNCHANGED <<options, cursor, ring, family, blind, out, kernelVars, userVars>>

\* process_bpf__attach
Attach ==
  /\ phase = "gap"
  /\ phase' = "tracing"
  /\ UNCHANGED <<options, cursor, ring, family, blind, out, kernelVars, userVars>>

-----------------------------------------------------------------------------
\* The kernel

Attached == phase = "tracing"

\* What the scan has still to see is not missed.
Unseen(p) == phase = "scan" /\ p > cursor

\* A mutant: the ring buffer grows.
EmitUnchecked(e) ==
  /\ ring' = IF Attached THEN Append(ring, e) ELSE ring
  /\ blind' = (blind \/ (~Attached /\ ~Unseen(e.pid)))

\* bpf_ringbuf_reserve and submit: without room the event is dropped silently.
Emit(e) ==
  /\ ring' = IF Attached /\ Len(ring) < RingMax THEN Append(ring, e) ELSE ring
  /\ blind' = (blind \/ (Attached /\ Len(ring) >= RingMax) \/ (~Attached /\ ~Unseen(e.pid)))

\* No event is emitted where one was due.
Suppress == UNCHANGED ring /\ blind' = TRUE

Operate ==
  /\ phase # "stopped"
  /\ ops < MaxOps
  /\ ops' = ops + 1
  /\ out' = {}
  /\ UNCHANGED <<options, phase, cursor, clock, userVars>>

\* A fork has no tracepoint: a child that never execs is unknown to the tracer.
Fork(parent, p) ==
  /\ Operate
  /\ parent # Reaper => procs[parent].st = "running"
  /\ procs[p].st = "none"
  /\ procs' = [procs EXCEPT ![p] =
       [st |-> "running", ppid |-> parent, match |-> parent # Reaper /\ procs[parent].match]]
  /\ UNCHANGED <<exec_start, ring, family, blind>>

\* handle_exec.  An exec by a thread whose leader is gone revives the process.
Exec(p, match) ==
  /\ Operate
  /\ procs[p].st # "none"
  /\ procs' = [procs EXCEPT ![p].st = "running", ![p].match = match]
  /\ exec_start' = IF Attached THEN exec_start \union {p} ELSE exec_start
  /\ IF Attached /\ options.duration
     THEN Suppress
     ELSE Emit([type |-> "EXEC", pid |-> p, ppid |-> procs[p].ppid, match |-> match])
  /\ family' = IF Attached /\ Wanted(p, match, procs[p].ppid \in family) THEN family \union {p} ELSE family

\* handle_exit, for the exit of the thread group's leader.  With -d an exit is
\* reported only if the exec was seen and is long enough ago.
Exit(p) ==
  /\ Operate
  /\ procs[p].st = "running"
  /\ procs' = [procs EXCEPT ![p].st = "dying"]
  /\ exec_start' = IF Attached THEN exec_start \ {p} ELSE exec_start
  /\ \/ Attached /\ options.duration /\ Suppress
     \/ /\ Attached /\ options.duration => p \in exec_start
        /\ Emit([type |-> "EXIT", pid |-> p])
  /\ family' = family \ {p}

\* The group is gone: its children go to the reaper, its pid is free again.
Reap(p) ==
  /\ Operate
  /\ procs[p].st = "dying"
  /\ procs' = [q \in Pids |->
       IF q = p THEN NoProcess
       ELSE IF procs[q].ppid = p THEN [procs[q] EXCEPT !.ppid = Reaper] ELSE procs[q]]
  /\ UNCHANGED <<exec_start, ring, family, blind>>

\* trace_openat, trace_open
Open(p, f) ==
  /\ Operate
  /\ Attached /\ procs[p].st # "none"
  /\ ring' = IF Len(ring) < RingMax
             THEN Append(ring, [type |-> "OPEN", pid |-> p, file |-> f, ts |-> clock]) ELSE ring
  /\ UNCHANGED <<procs, exec_start, family, blind>>

\* trace of bash's readline
Readline(p) ==
  /\ Operate
  /\ Attached /\ procs[p].st = "running"
  /\ ring' = IF Len(ring) < RingMax THEN Append(ring, [type |-> "READLINE", pid |-> p]) ELSE ring
  /\ UNCHANGED <<procs, exec_start, family, blind>>

Tick ==
  /\ phase = "tracing"
  /\ clock < MaxTime
  /\ clock' = clock + 1
  /\ out' = {}
  /\ UNCHANGED <<options, phase, cursor, procs, exec_start, ops, ring, family, blind, userVars>>

-----------------------------------------------------------------------------
\* handle_event, for the event at the head of the ring

Printed(kind, p) == [kind |-> kind, pid |-> p, warning |-> FALSE]

\* A mutant: an EXIT event of an untracked process is handled in every mode.
ExitUnfiltered(e) ==
  /\ tracker' = T!RemovePid(tracker, e.pid)
  /\ cut' = (cut \/ (T!Tracked(tracker, e.pid) /\ T!CutsChain(tracker', T!SlotOf(tracker, e.pid))))
  /\ announced' = announced \ {e.pid}
  /\ HandleExit(e.pid)
  /\ UNCHANGED overflow

\* A mutant: the tracker forgets the process only if the mode is FILTER.
ExitKeepsTracked(e) ==
  /\ IF options.mode = "FILTER" THEN tracker' = T!RemovePid(tracker, e.pid) ELSE UNCHANGED tracker
  /\ announced' = announced \ {e.pid}
  /\ HandleExit(e.pid)
  /\ UNCHANGED <<overflow, cut>>

\* A mutant: an EXIT event does not flush the process's aggregates.
ExitWithoutFlush(e) ==
  /\ tracker' = T!RemovePid(tracker, e.pid)
  /\ cut' = (cut \/ (T!Tracked(tracker, e.pid) /\ T!CutsChain(tracker', T!SlotOf(tracker, e.pid))))
  /\ announced' = announced \ {e.pid}
  /\ out' = {Printed("exit", e.pid)}
  /\ UNCHANGED <<file_hashes, pid_limits, overflow>>

\* EXIT: the process is forgotten in every mode; in FILTER mode nothing else
\* happens for one that was not tracked.
OnExit(e) ==
  LET tracked == T!Tracked(tracker, e.pid)
      silent  == ~tracked /\ options.mode = "FILTER"
  IN  /\ tracker' = T!RemovePid(tracker, e.pid)
      /\ cut' = (cut \/ (tracked /\ T!CutsChain(tracker', T!SlotOf(tracker, e.pid))))
      /\ announced' = IF silent THEN announced ELSE announced \ {e.pid}
      /\ IF silent THEN out' = {} /\ UNCHANGED <<file_hashes, pid_limits>> ELSE HandleExit(e.pid)
      /\ UNCHANGED overflow

\* A mutant: only the command name and the pid decide.
ExecIgnoresParent(e) ==
  /\ IF Wanted(e.pid, e.match, FALSE)
     THEN Track(e.pid) /\ out' = {Printed("exec", e.pid)}
     ELSE out' = {} /\ UNCHANGED <<tracker, overflow, announced>>
  /\ UNCHANGED <<file_hashes, pid_limits, cut>>

\* EXEC: printed whether or not the tracker had room.  The branch for other
\* processes in ALL and PROC mode is never reached, since these want them all.
OnExec(e) ==
  /\ IF ShouldTrack(e.pid, e.ppid, e.match)
     THEN Track(e.pid) /\ out' = {Printed("exec", e.pid)}
     ELSE out' = {} /\ UNCHANGED <<tracker, overflow, announced>>
  /\ UNCHANGED <<file_hashes, pid_limits, cut>>

OnReadline(e) ==
  /\ out' = IF ReportsReadline(e.pid) THEN {Printed("readline", e.pid)} ELSE {}
  /\ UNCHANGED userVars

OnOpen(e) ==
  /\ IF ReportsFiles(e.pid)
     THEN HandleOpen(e.pid, e.file, e.ts)
     ELSE out' = {} /\ UNCHANGED <<file_hashes, pid_limits>>
  /\ UNCHANGED <<tracker, announced, cut, overflow>>

Handle(e) ==
  \/ e.type = "EXIT" /\ OnExit(e)
  \/ e.type = "EXEC" /\ OnExec(e)
  \/ e.type = "READLINE" /\ OnReadline(e)
  \/ e.type = "OPEN" /\ OnOpen(e)

\* One callback of ring_buffer__poll
Poll ==
  /\ phase = "tracing"
  /\ ring # <<>>
  /\ Handle(Head(ring))
  /\ ring' = Tail(ring)
  /\ UNCHANGED <<options, phase, cursor, kernelVars, family, blind>>

\* A signal ends the loop, and with it the events in the ring and the opens
\* not yet printed.
Stop ==
  /\ phase = "tracing"
  /\ phase' = "stopped"
  /\ ring' = <<>>
  /\ file_hashes' = [h \in {} |-> {}]
  /\ pid_limits' = [p \in {} |-> {}]
  /\ out' = {}
  /\ UNCHANGED <<options, cursor, kernelVars, tracker, announced, cut, overflow, family, blind>>

Kernel ==
  \/ \E parent \in Pids \union {Reaper}, p \in Pids : Fork(parent, p)
  \/ \E p \in Pids, match \in BOOLEAN : Exec(p, match)
  \/ \E p \in Pids : Exit(p) \/ Reap(p) \/ Readline(p)
  \/ \E p \in Pids, f \in Files : Open(p, f)
  \/ Tick

Tracer ==
  \/ \E p \in Pids, ppid \in Pids \union {Reaper, NoPpid} : ScanPid(p, ppid)
  \/ ScanDone
  \/ Attach
  \/ Poll
  \/ Stop

Next == Kernel \/ Tracer

Spec == Init /\ [][Next]_vars

\* The loop of main calls ring_buffer__poll as long as no signal came.
FairSpec == Spec /\ WF_vars(Poll)

-----------------------------------------------------------------------------

\* What handling e makes of a set of tracked pids.
AfterEvent(tracked, e) ==
  CASE e.type = "EXIT" -> tracked \ {e.pid}
    [] e.type = "EXEC" /\ Wanted(e.pid, e.match, e.ppid \in tracked) -> tracked \union {e.pid}
    [] OTHER -> tracked

\* What the events es make of it, one after the other.
Applied(es, tracked) ==
  LET after[i \in 0 .. Len(es)] == IF i = 0 THEN tracked ELSE AfterEvent(after[i - 1], es[i])
  IN  after[Len(es)]

\* The tracker is behind the kernel by exactly the events in the ring: once
\* they are handled it holds the running processes that ought to be tracked,
\* and no dead one.  Lost events, a full table or a cut probe sequence excuse it.
CatchesUp ==
  phase = "tracing" /\ ~blind /\ ~cut /\ ~overflow =>
    /\ Applied(ring, T!TrackedPids(tracker)) = family
    /\ \A p \in family : procs[p].st = "running"

\* Whoever owns a pending aggregate is still tracked, so that its EXIT event
\* will flush it; this needs no event to arrive, but it does need the table.
OwnersTracked ==
  options.mode # "ALL" /\ ~cut =>
    \A h \in DOMAIN file_hashes : T!Tracked(tracker, file_hashes[h].pid)

\* In FILTER mode no line but EXEC is printed about a process outside the time
\* from its EXEC line, or the scan that found it, to its EXIT line.
NoLineOutsideLife ==
  [][options.mode = "FILTER" /\ ~cut =>
       \A l \in out' : l.kind = "exec" \/ l.pid \in announced]_vars

\* Something of a dead process is still held.
Lingers(p) ==
  /\ phase = "tracing"
  /\ procs[p].st # "running"
  /\ T!Tracked(tracker, p) \/ OwnedBy(p) # {}

\* The end of a process is eventually acted upon, as long as no event is lost
\* and no probe sequence cut: it is not tracked any more and none of its opens
\* waits to be printed.  In ALL mode a thread that outlives its leader may
\* leave an aggregate behind.
DeadForgotten ==
  \A p \in Pids :
    Lingers(p) ~> ~Lingers(p) \/ blind \/ cut \/ options.mode = "ALL"
==============================================================================
