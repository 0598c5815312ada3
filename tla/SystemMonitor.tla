---------------------------- MODULE SystemMonitor ----------------------------
(***************************************************************************)
(* The system runner, collector/src/framework/runners/system.rs: at every  *)
(* tick it looks for its targets, walks /proc for each target's            *)
(* descendants, and takes the CPU time each has used since it was looked   *)
(* at last.  Every file of /proc is read at an instant of its own, and     *)
(* processes come and go between any two.                                  *)
(***************************************************************************)
EXTENDS Processes, Sequences, SequencesExt

CONSTANTS
  Configs,    \* configurations: a pid, or 0 to go by name; include_children
  Matching,   \* the names that contain the one to go by
  Spaced,     \* the names that contain a space
  Misread,    \* bound: what other counters of a stat line add up to
  Word        \* 2^w, the integers being of w bits

ASSUME MonitorAssumption ==
  /\ Configs \subseteq [pid : Pids \union {NoPid}, include_children : BOOLEAN]
  /\ Matching \subseteq Comms /\ Spaced \subseteq Comms
  /\ Word \in Nat /\ MaxClock < Word
  /\ Misread \subseteq 0 .. Word - 1

VARIABLES
  config,           \* the configuration
  doing,            \* "wait" for a tick or take the next target, "targets", "walk" or "sample"
  timestamp,        \* the instant of the tick
  target_pids,      \* targets found and not yet reported
  all_pids,         \* the target being reported, and the descendants found
  stack,            \* listings under way: whose children, or 0 for targets, and the last pid read
  sampled,          \* how many of all_pids have been looked at
  share,            \* what was made of the last of them
  previous_stats,   \* pid -> the stats of its last sample
  stable,           \* history: whom the walk could find, from its start until now
  born,             \* history: the descendants at the start of the walk and theirs since
  adopted           \* history: who has been adopted in the walk, and their descendants

scanVars    == <<doing, timestamp, target_pids, all_pids, stack, sampled, share, previous_stats>>
historyVars == <<stable, born, adopted>>
monitorVars == <<config, scanVars, historyVars>>

\* With a sample, whose it was and whether it was the CPU time are history.
Stats == [seen : BOOLEAN, cpu : 0 .. Word - 1, timestamp : 0 .. MaxClock, life : 0 .. MaxLives, exact : BOOLEAN]

NoStats == [seen |-> FALSE, cpu |-> 0, timestamp |-> 0, life |-> 0, exact |-> FALSE]

\* A share is the CPU used, over what time, and whether there was an earlier
\* sample.  History: how long after the tick it was read, how long after the
\* earlier sample, and whether both were the CPU time of the same process.
ShareOf == [cpu : 0 .. Word - 1, time : 0 .. Word - 1, old : BOOLEAN,
            late : 0 .. MaxClock, elapsed : 0 .. MaxClock, alike : BOOLEAN]

NoShare == [cpu |-> 0, time |-> 0, old |-> FALSE, late |-> 0, elapsed |-> 0, alike |-> FALSE]

Frame == [of : Pids \union {NoPid}, at : Pids \union {NoPid}]

MonitorTypeOK ==
  /\ config \in Configs
  /\ doing \in {"wait", "targets", "walk", "sample"}
  /\ timestamp \in 0 .. MaxClock
  /\ target_pids \in Seq(Pids)
  /\ all_pids \in Seq(Pids)
  /\ stack \in Seq(Frame)
  /\ sampled \in 0 .. Len(all_pids)
  /\ share \in ShareOf
  /\ previous_stats \in [Pids -> Stats]
  /\ stable \subseteq Pids /\ born \subseteq Pids /\ adopted \subseteq Pids

MonitorInit ==
  /\ config \in Configs
  /\ doing = "wait"
  /\ timestamp = 0
  /\ target_pids = <<>> /\ all_pids = <<>> /\ stack = <<>>
  /\ sampled = 0 /\ share = NoShare
  /\ previous_stats = [p \in Pids |-> NoStats]
  /\ stable = {} /\ born = {} /\ adopted = {}

-----------------------------------------------------------------------------
\* Walking /proc: a directory is read in the order of the pids, one at a time.

PidsAfter(at) == {p \in Pids : p > at}
NextPid(at) == CHOOSE p \in PidsAfter(at) : \A q \in PidsAfter(at) : p <= q

Listing(of) == [of |-> of, at |-> NoPid]

\* The pid whose file is read next, and for whose listing.
Top == stack[Len(stack)]
Visited == NextPid(Top.at)

\* What is left of the listings when that pid has been read: a listing that has
\* come to its end returns to the one that it was made for.
Remaining ==
  IF PidsAfter(Visited) = {} THEN Front(stack) ELSE [stack EXCEPT ![Len(stack)].at = Visited]

\* A tick; after a delay several may come at one instant.  With a pid,
\* process_exists decides; with a name, the directory is read.
Tick ==
  /\ doing = "wait" /\ target_pids = <<>>
  /\ timestamp' = clock
  /\ target_pids' = IF config.pid \in Live THEN <<config.pid>> ELSE <<>>
  /\ IF config.pid # NoPid
     THEN UNCHANGED <<doing, stack>>
     ELSE doing' = "targets" /\ stack' = <<Listing(NoPid)>>
  /\ UNCHANGED <<config, all_pids, sampled, share, previous_stats, historyVars>>

\* find_pids_by_name
FindTarget ==
  /\ doing = "targets"
  /\ stack' = Remaining
  /\ doing' = IF stack' = <<>> THEN "wait" ELSE doing
  /\ target_pids' = IF Visited \in Live /\ procs[Visited].comm \in Matching
                    THEN Append(target_pids, Visited) ELSE target_pids
  /\ UNCHANGED <<config, timestamp, all_pids, sampled, share, previous_stats, historyVars>>

\* A stat line is split at white space, so that in one with a space in the name
\* the fields are not where they are looked for.  In the place of the parent is
\* then the state, or a word of the name, and that is no number.
FieldsInPlace(p) == procs[p].comm \notin Spaced

\* Whom a walk would find if nothing changed meanwhile.
Findable(main) == FamilyAmong(main, {p \in Live : FieldsInPlace(p)})

\* The next target, whether or not it is still there.
StartTarget ==
  /\ doing = "wait" /\ target_pids # <<>>
  /\ target_pids' = Tail(target_pids)
  /\ LET main == Head(target_pids)
     IN  /\ all_pids' = <<main>>
         /\ IF config.include_children
            THEN doing' = "walk" /\ stack' = <<Listing(main)>>
            ELSE doing' = "sample" /\ UNCHANGED stack
         /\ stable' = Findable(main) /\ born' = Family(main) /\ adopted' = {}
  /\ sampled' = 0 /\ share' = NoShare
  /\ UNCHANGED <<config, timestamp, previous_stats>>

\* A mutant: the listing for a child starts from where the caller's is.
FindChildFromHere ==
  /\ doing = "walk"
  /\ IF Visited \in Live /\ FieldsInPlace(Visited) /\ procs[Visited].ppid = Top.of
     THEN /\ all_pids' = Append(all_pids, Visited)
          /\ stack' = IF PidsAfter(Visited) = {} THEN Remaining
                      ELSE Append(Remaining, [of |-> Visited, at |-> Visited])
     ELSE stack' = Remaining /\ UNCHANGED all_pids
  /\ doing' = IF stack' = <<>> THEN "sample" ELSE doing
  /\ UNCHANGED <<config, timestamp, target_pids, sampled, share, previous_stats, historyVars>>

\* A mutant: all that are below the caller's process are taken for children.
FindAnyBelow ==
  /\ doing = "walk"
  /\ IF Visited \in Family(Top.of) \ {Top.of}
     THEN /\ all_pids' = Append(all_pids, Visited)
          /\ stack' = Append(Remaining, Listing(Visited))
     ELSE stack' = Remaining /\ UNCHANGED all_pids
  /\ doing' = IF stack' = <<>> THEN "sample" ELSE doing
  /\ UNCHANGED <<config, timestamp, target_pids, sampled, share, previous_stats, historyVars>>

\* get_all_children: a stat line is read; a child is noted, and asked for its own.
FindChild ==
  /\ doing = "walk"
  /\ IF Visited \in Live /\ FieldsInPlace(Visited) /\ procs[Visited].ppid = Top.of
     THEN /\ all_pids' = Append(all_pids, Visited)
          /\ stack' = Append(Remaining, Listing(Visited))
     ELSE stack' = Remaining /\ UNCHANGED all_pids
  /\ doing' = IF stack' = <<>> THEN "sample" ELSE doing
  /\ UNCHANGED <<config, timestamp, target_pids, sampled, share, previous_stats, historyVars>>

-----------------------------------------------------------------------------
\* Sampling

\* A mutant: the difference is not cut to a word.
MinusWide(a, b) == a + Word - b

\* u64 subtraction, which wraps in a release build.
Minus(a, b) == (a + Word - b) % Word

\* utime + stime, or, in a line with a space in the name, some of the fields
\* before them: faults, children's faults, flags.
CpuRead(p) == IF FieldsInPlace(p) THEN {procs[p].cpu} ELSE Misread

\* get_process_cpu_stats: the clock read with the stat line is not the tick's.
Current(p, cpu) ==
  [seen |-> TRUE, cpu |-> cpu, timestamp |-> clock, life |-> procs[p].life, exact |-> FieldsInPlace(p)]

\* A mutant: a process not sampled before is given what it used since the boot.
ShareSinceBoot(p, cpu) ==
  LET prev == previous_stats[p]
  IN  [NoShare EXCEPT !.cpu = Minus(cpu, prev.cpu), !.time = Minus(timestamp, prev.timestamp), !.old = prev.seen]

\* calculate_cpu_percentage, as the two numbers that it divides: the time is
\* counted from the last reading to this tick, not to this reading.
Share(p, cpu) ==
  LET prev == previous_stats[p]
      time == Minus(timestamp, prev.timestamp)
  IN  IF ~prev.seen THEN NoShare
      ELSE [cpu |-> IF time > 0 THEN Minus(cpu, prev.cpu) ELSE 0, time |-> time, old |-> TRUE,
            late |-> clock - timestamp, elapsed |-> clock - prev.timestamp,
            alike |-> prev.life = procs[p].life /\ prev.exact /\ FieldsInPlace(p)]

\* collect_process_metrics, for one of the pids; those that are gone are skipped,
\* and so may be those whose fields are out of place, one of them being negative.
\* After the last the event is sent, with the sum of the shares.
TakeSample ==
  /\ doing = "sample"
  /\ sampled' = sampled + 1
  /\ doing' = IF sampled' = Len(all_pids) THEN "wait" ELSE doing
  /\ LET p == all_pids[sampled + 1]
     IN  \/ /\ p \in Live
            /\ \E cpu \in CpuRead(p) :
                 /\ share' = Share(p, cpu)
                 /\ previous_stats' = [previous_stats EXCEPT ![p] = Current(p, cpu)]
         \/ /\ p \in Live => ~FieldsInPlace(p)
            /\ UNCHANGED <<share, previous_stats>>
  /\ UNCHANGED <<config, timestamp, target_pids, all_pids, stack, historyVars>>

MonitorStep ==
  /\ Tick \/ FindTarget \/ StartTarget \/ FindChild \/ TakeSample
  /\ UNCHANGED kernelVars

-----------------------------------------------------------------------------
\* What the history keeps of the kernel's steps.

ForkSeen(p, c) ==
  /\ born' = IF doing = "walk" /\ p \in born THEN born \union {c} ELSE born
  /\ adopted' = IF doing = "walk" /\ p \in adopted THEN adopted \union {c} ELSE adopted
  /\ UNCHANGED <<config, scanVars, stable>>

\* Under a name with a space neither p can be found any longer, unless it is the
\* target, nor who is below it.
ExecSeen(p, comm) ==
  /\ stable' = IF doing = "walk" /\ comm \in Spaced /\ p # Head(all_pids) THEN stable \ Family(p) ELSE stable
  /\ UNCHANGED <<config, scanVars, born, adopted>>

ExitSeen(p) ==
  /\ stable' = IF doing = "walk" THEN stable \ Family(p) ELSE stable
  /\ adopted' = IF doing = "walk" /\ Guardian(p) # Reaper
                THEN adopted \union UNION {Family(c) : c \in Children(p)}
                ELSE adopted
  /\ UNCHANGED <<config, scanVars, born>>

-----------------------------------------------------------------------------

Walked == doing = "sample" /\ config.include_children

\* Who has been below the target all through the walk, under the same parent,
\* and with no space in its name nor in any between the target's and its own,
\* is counted, whoever else came, went or changed its name in the meantime.
StableCounted == Walked => stable \subseteq ToSet(all_pids)

\* Who is counted descends from the target, though perhaps no longer below it,
\* and is counted once unless it, or whom it descends from, was adopted by one of
\* its ancestors during the walk.  Of a pid
\* used twice neither is certain.
FamilyCountedOnce ==
  Walked /\ ~Reused =>
    /\ ToSet(Tail(all_pids)) \subseteq born
    /\ \A i, j \in 1 .. Len(all_pids) : i # j /\ all_pids[i] = all_pids[j] => all_pids[i] \in adopted

\* A process's share is at most what a thread can have used since it was read
\* last: no subtraction of CPU times wraps, and the time divided by is short of
\* that by no more than the tick had lasted.  A process first seen has no share.
\* Anything may be claimed of a pid that another process was sampled under, and
\* of a process that had a space in its name at one of the two samples.
SoundShares ==
  /\ ~share.old => share.cpu = 0
  /\ share.alike => share.cpu <= share.elapsed /\ share.elapsed <= share.time + share.late
==============================================================================
