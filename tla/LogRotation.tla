---------------------------- MODULE LogRotation -----------------------------
(***************************************************************************)
(* FileLogger of collector/src/framework/analyzers/file_logger.rs with a   *)
(* rotation configuration: names of files, the files they lead to, and the *)
(* open handle that events are written through.                            *)
(*                                                                         *)
(* Name 0 is the log itself and name i the rotated file log.i.  A file is  *)
(* its place in the sequence of all files ever created.  The file system   *)
(* may refuse a rename, a create or a write, and the collector may be      *)
(* stopped between any two calls.  Name max_files + 1, which the code      *)
(* removes last, never comes to be.  A logger without a configuration is   *)
(* one whose Interval is never reached.                                    *)
(***************************************************************************)
EXTENDS Naturals, Sequences, FiniteSets, SequencesExt

CONSTANTS
  MaxFiles,     \* max_files
  MaxSize,      \* max_file_size, an event having size 1
  Interval,     \* size_check_interval
  MaxEvents,    \* bound: events logged
  MaxRestarts   \* bound: restarts of the collector

ASSUME RotationAssumption ==
  /\ MaxFiles \in Nat \ {0}
  /\ MaxSize \in Nat
  /\ Interval \in Nat \ {0}
  /\ MaxEvents \in Nat /\ MaxRestarts \in Nat

VARIABLES
  names,        \* name -> the file, or 0
  files,        \* the contents of the files
  file_handle,  \* the file that is written
  event_count,  \* events since the start of the collector
  logged,       \* events so far
  restarts,     \* restarts so far
  failed,       \* history: a rename was refused
  orphaned      \* history: no log could be created after a rotation

vars == <<names, files, file_handle, event_count, logged, restarts, failed, orphaned>>

Names == 0 .. MaxFiles

TypeOK ==
  /\ files \in Seq(Seq(1 .. MaxEvents))
  /\ names \in [Names -> 0 .. Len(files)]
  /\ file_handle \in 1 .. Len(files)
  /\ event_count \in 0 .. logged
  /\ logged \in 0 .. MaxEvents
  /\ restarts \in 0 .. MaxRestarts
  /\ failed \in BOOLEAN /\ orphaned \in BOOLEAN

\* with_rotation, in an empty directory
Init ==
  /\ files = <<<<>>>>
  /\ names = [i \in Names |-> IF i = 0 THEN 1 ELSE 0]
  /\ file_handle = 1
  /\ event_count = 0
  /\ logged = 0
  /\ restarts = 0
  /\ failed = FALSE /\ orphaned = FALSE

-----------------------------------------------------------------------------
\* perform_rotation

\* The renames asked for: of every rotated file but the last, and of the log.
Movable == {i \in Names : i < MaxFiles /\ names[i] # 0}

\* A mutant: the loop starts one file too early, so that the last is kept.
ShiftedShort(refused) ==
  LET moved == Movable \ (refused \union {MaxFiles - 1})
  IN  [i \in Names |-> IF i > 0 /\ i - 1 \in moved THEN names[i - 1] ELSE IF i \in moved THEN 0 ELSE names[i]]

\* The names after the renames, from the last file down to the log, less those
\* refused.  A file renamed to a name in use replaces what was there.
Shifted(refused) ==
  LET moved == Movable \ refused
  IN  [i \in Names |-> IF i > 0 /\ i - 1 \in moved THEN names[i - 1] ELSE IF i \in moved THEN 0 ELSE names[i]]

\* A mutant: the handle stays that of the rotated file.
CreatedUnused(named) ==
  IF named[0] # 0
  THEN [names |-> named, files |-> [files EXCEPT ![named[0]] = <<>>], handle |-> file_handle]
  ELSE [names |-> [named EXCEPT ![0] = Len(files) + 1], files |-> Append(files, <<>>), handle |-> file_handle]

\* Whatever name 0 leads to now is opened and truncated, or created.
Created(named) ==
  IF named[0] # 0
  THEN [names |-> named, files |-> [files EXCEPT ![named[0]] = <<>>], handle |-> named[0]]
  ELSE [names |-> [named EXCEPT ![0] = Len(files) + 1], files |-> Append(files, <<>>), handle |-> Len(files) + 1]

\* What the file system and the handle are after a rotation.
Rotated(refused, creates) ==
  LET named == Shifted(refused)
  IN  IF creates THEN Created(named) ELSE [names |-> named, files |-> files, handle |-> file_handle]

-----------------------------------------------------------------------------
\* process, for one event

\* A mutant: the size is compared in the wrong unit.
DueLate == (event_count + 1) % Interval = 0 /\ names[0] # 0 /\ Len(files[names[0]]) > 2 * MaxSize

\* Looked at only at every Interval-th event, before that event is written.
Due == (event_count + 1) % Interval = 0 /\ names[0] # 0 /\ Len(files[names[0]]) > MaxSize

\* write_all puts the event's line into the file or fails, having put nothing or a
\* part of it there.  The contents are the whole events: a part, which the next
\* event's line then follows without a line break, is not one and has no size.
Written(state, writes) ==
  /\ names' = state.names
  /\ file_handle' = state.handle
  /\ files' = IF writes THEN [state.files EXCEPT ![state.handle] = Append(@, logged + 1)] ELSE state.files

\* A mutant: the event is counted a second time when it is written.
CountedTwice == event_count + 2

Counted == event_count + 1

Log(refused, creates, writes) ==
  /\ logged < MaxEvents
  /\ logged' = logged + 1
  /\ event_count' = Counted
  /\ ~Due => refused = {} /\ creates
  /\ refused \subseteq Movable
  /\ Written(IF Due THEN Rotated(refused, creates)
             ELSE [names |-> names, files |-> files, handle |-> file_handle], writes)
  /\ failed' = (failed \/ refused # {})
  /\ orphaned' = (orphaned \/ ~creates)
  /\ UNCHANGED restarts

\* A stop leaves the names as they are or, in a rotation, with only the renames
\* from name k on done: k = 0 is a stop before or after the create.
Stopped(k) == IF Due THEN Shifted({i \in Names : i < k}) ELSE names

\* A mutant: the log is truncated when it is opened.
OpenedTruncating(named) == Created(named)

\* The log is opened to append to it, or created.
Opened(named) ==
  IF named[0] # 0 THEN [names |-> named, files |-> files, handle |-> named[0]] ELSE Created(named)

\* The collector stops, perhaps for an event not yet written, and another one
\* opens the same log.
Restart(k) ==
  /\ restarts < MaxRestarts
  /\ restarts' = restarts + 1
  /\ event_count' = 0
  /\ ~Due => k = MaxFiles
  /\ LET state == Opened(Stopped(k))
     IN  names' = state.names /\ files' = state.files /\ file_handle' = state.handle
  /\ UNCHANGED <<logged, failed, orphaned>>

Next ==
  \/ \E refused \in SUBSET Names, creates \in BOOLEAN, writes \in BOOLEAN : Log(refused, creates, writes)
  \/ \E k \in Names : Restart(k)

Spec == Init /\ [][Next]_vars

-----------------------------------------------------------------------------

Content(i) == IF names[i] = 0 THEN <<>> ELSE files[names[i]]

\* What a reader finds who reads the rotated files and then the log.
OnDisk == FlattenSeq([i \in 1 .. MaxFiles + 1 |-> Content(MaxFiles + 1 - i)])

\* The rotated files and the log, read in that order, are a log that loses
\* nothing but its oldest events and keeps the rest in order, across restarts
\* and whatever create or write is refused, until a rename is.
BL == INSTANCE BoundedLog WITH Events <- 1 .. MaxEvents, log <- OnDisk, broken <- failed

ImplementsBoundedLog == BL!Spec

\* Nothing is given up before MaxFiles files of more than MaxSize are there to
\* replace it, even if the rotation that gives it up is cut short.  A gap that
\* a stop leaves in the names may cost one file each.
FullBeforeDropping ==
  [][~failed' /\ Len(OnDisk') < Len(OnDisk) =>
       Cardinality({i \in Names : Len(Content(i)') > MaxSize}) + restarts >= MaxFiles]_vars

\* The file being written is the log, or the newest rotated file if there is no
\* log because it could not be created: a reader of these two, as the web server
\* is one of the first, sees every new event, whatever fails.
WritesFound == file_handle = IF names[0] # 0 THEN names[0] ELSE names[1]

\* No file is larger than MaxSize by more than the events between two looks at
\* it, those of each start among them, provided the log could be created.
SizeBounded ==
  ~orphaned => \A i \in Names : Len(Content(i)) <= MaxSize + Interval + restarts * (Interval - 1)
=============================================================================
