# AgentSight: a verification project

TLA+ models of the parts of AgentSight that keep state, checked by TLC on small
instances and, where it says so, proved with TLAPS for every value of the
constants. AgentSight watches LLM agents from outside: eBPF programs report what
processes do and what they read and write through TLS, and a collector turns the
reports into a log and a web page.

## 1. Inventory

| Part | Source | State | Operations | What makes it correct |
|---|---|---|---|---|
| Tracked-pid table | `bpf/process_filter.h` | 2048 slots, open addressing | init, find, add, remove | looks like a set of pids |
| FILE_OPEN limiter and aggregation | `bpf/process.c:193-420` | `pid_limits[256]`, `file_hashes[1024]` | rate limit, count, expire, flush | no open lost or counted twice, limit kept, arrays never overrun |
| Process tracer | `bpf/process.bpf.c`, `bpf/process.c` | ring buffer, `exec_start`, tracker, the above | tracepoints, `/proc` scan, attach, `handle_event`, stop | the tracked pids follow the kernel's processes |
| TLS sniffer | `bpf/sslsniff.bpf.c`, `bpf/sslsniff.c` | `bufs`, `start_ns`, `readbytes_ptrs`, ring | entry and return probes, printing | data of one call never joined with another's, losses explained, cuts told |
| SSE processor | `analyzers/sse_processor.rs` | map of accumulators | parse, accumulate, complete, merge | a merged event is one message, whole and in order |
| File logger | `analyzers/file_logger.rs` | names, files, handle, event count | write, rotate, reopen | only the oldest events are ever given up |
| Binary runner | `runners/common.rs`, `ssl.rs`, `process.rs` | child process, line buffer | start, read, skip, recover, kill | every event printed and read gets on, once and in order |
| Agent runner, trace command | `runners/agent.rs`, `main.rs` | merged stream, analyzer chain | start, merge, process, signal | order within a source kept, the log is what the filters mean, less what the SSE processor holds |
| System monitor | `runners/system.rs` | previous CPU sample of each pid | find targets, walk children, sample | who is there is counted once; a share is of one process |
| HTTP parser, filters | `analyzers/http_*.rs`, `ssl_filter.rs`, `auth_header_remover.rs` | counters | parse, match, redact | an expression drops what it is meant to |
| Timestamps | `core/timestamp.rs`, `timestamp_normalizer.rs` | cached boot time | convert | order preserved |
| Web server | `server/web.rs` | none | serve the log and assets | serves what is in the log |
| Frontend | `frontend/src` | none kept | build trees and timelines | every process is in the tree, under its parent |
| Scripts | `script/*.py` | none kept | offline analysis | independent of the running system |

**Interaction.** The kernel runs tracepoints and probes in the context of
whichever process triggers them; they share hash maps and write to a ring
buffer that loses an event when it is full. One user-space loop per tool takes
the events of its ring one by one and prints a line of JSON for some. The
collector starts the tools as child processes, reads their lines, merges the
streams, and passes every event through a chain of analyzers (timestamps, the
SSL filter, the SSE processor, the HTTP parser and filter, logger, output). The web server reads the log file.

**What is hard.** Processes fork, exec, exit and reuse pids while the tracer
scans `/proc`, attaches and lags behind; events are lost and arrive out of time
order; probes at entry and return meet again only through maps that fill, that
are shared between nested calls, and that killed threads leave entries in; a
TLS read ends anywhere in a chunk, and one thread may read several streams; the
file system may refuse any step of a rotation and the collector may stop between
any two; `/proc` is read one file at a time while it changes, and samples of a
pid may be of two processes; runners and the signal handler end in any order.
`PROJECT.json` lists these at their lines, with the properties that watch over
each.

## 2. Modules

| Module | Models | Used by |
|---|---|---|
| `PidTable` | the table as a function from slots; find, add, remove as operators | `PidTracker`, `ProcessTracer` |
| `PidTracker` | the table under any order of add and remove, with what its callers believe | `MCPidTracker` |
| `FileDedup` | limiter, aggregation table and printed lines, as actions on their variables | `DedupAccounting`, `ProcessTracer` |
| `DedupAccounting` | `FileDedup` driven by opens and exits, with a reader who adds up the lines | `MCDedup` |
| `ProcessTracer` | kernel, ring, scan, attach, `handle_event`: composes `PidTable` and `FileDedup` | `MCTracer` |
| `SslSniff` | the probes of the TLS sniffer and its printer | `MCSsl` |
| `SseProcessor` | accumulators and the readers that feed them | `MCSse` |
| `BoundedLog` | abstract: a log that gives up its oldest part only | `LogRotation` |
| `LogRotation` | names, files and handle under rotation, refusals and stops; refines `BoundedLog` | `MCRotation` |
| `Processes` | the kernel's processes as `/proc` shows them: parents, adoption, CPU time, reuse of pids | `SystemMonitor`, `ProcessTree` |
| `SystemMonitor` | the system runner's targets, walks and samples, with a history of who really was there | `Observed` |
| `ProcessTree` | the web page's tree, built from the lines of a log | `Observed` |
| `Observed` | `Processes` seen by one of the two | `MCObserved` |
| `Filters` | filter expressions: how the code evaluates them, and a grammar with what they mean | `Collector` |
| `Collector` | `run_trace`: two children, their pipes and runners, the merge, the SSE processor as a stage, the filters, the log, signals | `MCCollector` |

| Proofs | About |
|---|---|
| `PidTrackerProofs` | the operators of `PidTable`, and `PidTracker`; used by `TracerProofs` |
| `DedupProofs` | the handlers of `FileDedup`, and `DedupAccounting`; used by `TracerProofs` |
| `TracerProofs` | `ProcessTracer` |
| `SslProofs` | `SslSniff` |
| `SseProofs` | `SseProcessor` |
| `RotationProofs` | `LogRotation`, and that it implements `BoundedLog` |
| `ObservedProofs` | `Observed` with `Processes`, `SystemMonitor` and `ProcessTree` |
| `CollectorProofs` | `Collector` |

Induction over the natural numbers and the existence of what a recursion computes
are lemmas about sets and functions (`SetInduction`, `RecursionExists`), since the
library's theorems take operators, which the provers cannot instantiate. The
modules of proofs that need them each have them, as no two extend each other.

The `MC` modules give the constants that a configuration file cannot write. A
definition marked "A mutant" next to one of the code's is a plausible bug: put
in that one's place, it makes TLC find a named property violated, which shows
that the property says something about the code. `PROJECT.json` pairs them.

### Correspondence to the code

*PidTable.* A slot holds a pid, or `Free` when `is_active` is false. `ppid` is
written and never read; `is_tracked` is true in every active entry. The mask is
a remainder, the size being a power of two. `Tracked` is `pid_tracker_find`
followed by the test of the entry; `AddPid` looks first, then takes the first
empty slot; `RemovePid` empties the slot found, with no tombstone.

*FileDedup.* Both C arrays are searched for a key from end to end and hold it
at most once, so each is a function from its key; moving the last entry into a
gap is then invisible. `HashOf` is the djb2 hash of pid and path, arbitrary, so
that collisions are included. `Elapsed` keeps the 64-bit unsigned subtraction as
a remainder modulo `Word`. The three outcomes of an open (`DropOpen`,
`CountDuplicate`, `ReportFirst`) are the three returns of
`get_file_open_count`. `HandleExit` is the printed part of the EXIT branch and
`flush_pid_file_opens`.

*ProcessTracer.* A process is a thread group that is running, dying (its leader
has exited, which is when the exit event is emitted) or gone. Names of commands
are abstracted to whether they match the filter. `ScanPid` is an iteration of
`populate_initial_pids`, including a parent misread because the command's name
holds a space; `Poll` is a callback of `ring_buffer__poll`. Kernel steps
interleave with all of these. `Emit` drops the event when the ring is full. With
`-d`, EXEC events are suppressed and EXIT events may be.

*SslSniff.* A step is one probe, because a probe touches only the map entries of
its own thread. A handshake may run inside a read or write, as the library does
it. Times are replaced by the number of the call that stored them. The two kinds
of copying (`RwSize`, and `ExSize` with the mask) are kept; a copy may fault.
`CutsTold` compares what a line says, data and the mark, with what its call moved.

*SseProcessor.* A piece of text or JSON is its message and its place there;
`content` is `accumulated_text` and `accumulated_json`, by kind. What the API
promises of a stream (`StreamAssumption`) is that `message_start` comes first
and only first, and `message_stop` or an error last and only last; a reader that
abandons a message reads no more of it. A
read delivers up to `MaxRead` events, each an HTTP chunk of its own; if it is
torn, the last event is lost, or becomes a type without data, or an unknown
type, and what remains of it in the next read is skipped, as
`clean_chunked_content` does. The window id is constant: the code divides
milliseconds by what would be ten minutes in nanoseconds, which is nineteen
years. The iteration order of the hash map is nondeterministic.

*LogRotation.* A file is its place in the sequence of all files created, so that
a handle keeps leading to it when its name changes. The sets of refused renames,
creates and writes are chosen freely at every event. `Restart(k)` is a stop, in a
rotation after the renames from name `k` on, followed by a start that appends to
what it finds. A refusal and a stop within the same rotation are not combined.
Without a rotation configuration the logger is one whose interval is never
reached. The contents of a file are the whole events in it: a write that fails may
leave part of a line, which has no size here, and that the next event's line is then
joined to it and cannot be read is left out.

*Processes.* At the start the table is any in which running processes have
parents that run, none descends from itself, and none has used more CPU than the
first instant: a kernel has no other, and the proofs need it (`Forest`). Time is in
hundredths of a second, the unit of `/proc/uptime` and of `utime` and `stime`, so that a process of one thread uses at most one unit of
CPU in a unit of time. An exit and the parent's wait are one step. Orphans go to
a process that adopts them (a subreaper above them) or to pid 1. `life` numbers
the processes that have one pid. `comm` is the command's name, which an exec may
change.

*SystemMonitor.* A directory is read in the order of the pids, and a step reads
one file of it; `stack` holds the nested listings of `find_pids_by_name` and
`get_all_children`. A listing that is at its end has nothing left to do and is
dropped. A stat line and the uptime read after it are one step. A stat line is
split at white space, as in the code: with a space in the name (`Spaced`) the
fields are not in their places (`FieldsInPlace`), the process is nobody's child,
and what is added up for its CPU time are other counters (`CpuRead`, any number in
`Misread`) or, one of them being negative, nothing. A name made so that a number comes
to stand in the parent's place is left out. `Minus` is the
`u64` subtraction as a release build does it. A share is kept as the two numbers
divided. `stable`, `born` and `adopted` are history: whom the walk could have found
throughout (below the target, with no space in its name or in one between), who
ever was below the target, and who was adopted meanwhile, or was then
born below one who was. A target that
descends from another is sampled twice in one tick; the second time its time
difference wraps and it claims next to nothing, which `SoundShares` allows, as
it bounds shares from above.

*ProcessTree.* `buildProcessTree` keeps for each pid the parent told last; only
EXEC and EXIT lines tell one. What is drawn are the nodes reached from a root.

*Filters.* An expression is a sequence of tokens, a text one of words.
`SslEvaluate` is `parse_expression` (first `|` outside of parentheses, then
first `&`, then parentheses) and `evaluate_node` in one; `HttpEvaluate` splits at
every `|` and then at every `&`, knowing no parentheses. The grammar
(`Condition`, `Both`, `Either`, `Grouped`) builds expressions together with the
set of events meant. `SslDrops` and `HttpDrops` are the filters' verdicts on a
line, `FiltersAsMeant` says that they are the ones meant, for each line of a
setup, and `MCFiltersAsMeant` has TLC evaluate it for every expression in use.
Conjunctions of HTTP conditions are of one target: no message is both a request and
a response, and nobody can mean one. Seen in the code and kept, where it is modelled at all:
`is_handshake` ignores its operator; an empty piece of an HTTP expression, as
after a trailing `|`, is a piece of every path; `find_operator` counts
characters and slices bytes, which agree for ASCII.

*Collector.* Streams are pulled, so an event goes from its line to the log, or to
an accumulator, before another line is read; `hand` is the event on its way, with
the lines it is made of and the stage it is at. A line has a thread and a set of
kinds of server-sent events (`sse`). The SSE processor is a stage of its own, between
the SSL filter and the HTTP parser, present unless `ssl_http` is off. It passes a
line without such events (`SsePasses`), drops pings (`SseSkips`), or adds the line
to an accumulator and, if that is then complete, sends it on as one event
(`SseAccumulates`). Of `SseProcessor` it keeps what the rest of the chain can
tell: which lines are held, with which others they are sent on, and when. The
length of texts and the number of events in a line are left open, so that a message
with a delta may be complete, or one without be given up, a little more freely than
in the code. What has been merged is no HTTP message and passes the HTTP filter.
What is still in an accumulator when the command ends is never logged. A write to
the log may fail, of which nothing but a message comes: `log` is what has come to
the logger, and `written` says whether it is in the file. The children write
into pipes of bounded size. The end of the command does not stop them: they end
when they next print. The metrics of the SSL filter are only written in its
`Drop`, which an exit by SIGINT does not run, so only the HTTP filter's appear.

## 3. Runs

| Run | Instance | Shows |
|---|---|---|
| `tracker` | 5 pids, 4 slots; three share a home slot | exact until a cut; add reports the truth; add hides nobody; remove forgets its pid even after cuts |
| `tracker_chain` | same | **violated**: a removal hides another pid |
| `dedup` | 2 processes, 2 files, one collision across processes; 2 entries, 1 limiter slot, limit 2, window 2, 5 events, lag 1 | opens are conserved; the limit and the arrays hold; warnings are true; the next admitted open leaves nothing that has expired |
| `tracer` | 3 pids over 2 slots, ring of 2, 4 kernel operations, 5 command lines | the tracked set catches up; owners of aggregates are tracked; no line outside a process's life |
| `tracer_live` | 2 pids, polling fair | a process's end is acted upon |
| `ssl` | 2 threads, maps of 1 entry, ring of 1, 4 calls, 5 command lines; a buffer of 2, a mask of 4, lengths 2 to 5 | events join their own call; losses are explained; length pointers are dropped; a line not marked as truncated has all the data, or none for one of two reasons |
| `ssl_handshake` | same, 3 calls | **violated**: handshakes with `-u` |
| `sse` | 3 messages, 2 on one thread; reads of 1 or 2 events, 1 torn read, cut after 1 piece | order, no loss and no duplication, right id, nothing held |
| `rotation` | 3 rotated files, a look every 2 events, 11 events, 1 restart | refines `BoundedLog`; files full before any is given up; size bounded; the log is findable |
| `observed` | 4 pids each used up to twice, one of them adopting orphans; 3 names, one with a space; 2 instants; 2 forks, execs and exits under the monitor, 5 without; by pid, by pid without children, by name | who stays, and can be found, is counted; who is counted belongs to the target, and once; no subtraction of a process's own CPU times wraps; every process is in the tree |
| `collector` | 7 kinds of sniffer line under every expression of the grammar; 12 lines with streamed messages of 2 threads; 5 and 2 lines with faults; pipes of 2 | what comes to the logger was printed, read and not meant to be dropped, each line in one entry, in order; what should and does not is held; metrics printed on SIGINT agree with it |
| `filter_empty` | `response.body=` and seven lines | **violated**: an empty value drops every response |

**Bounds.** Tables, maps and rings are as small as lets them fill, and lets two
keys compete for a place; the operations are enough for filling, losing one and
using the place again. Pids are reused within four operations (fork, exit, reap,
fork). Words of a timestamp are larger than the times reached, so that only late
events wrap, as in the code. Eleven events rotate a log of three files often
enough for the oldest to be given up and, after a stop in the middle of a
rotation, to be given up one rotation too early. One torn read is enough to
desynchronise a thread, because what follows is processed by the same rules. In
`observed` two kernel operations fall anywhere into a tick's walks and samples,
which is enough for a pid to end and be used again between two samples, or for a
parent to end and its child to be adopted in mid-walk; four pids let a child
come before and after its parent in `/proc`, and one adopted have a child. One name
with a space is there from the start, between the target and a grandchild, or comes
with an exec in mid-walk or between samples; what is misread for a CPU time
is less or more than any true one. In `ssl` the mask makes 0 of one length and less
than the buffer of another. In `collector` the faults (a child
killed, a start or a read that fails, SIGINT, a kill) and the many expressions are
separate setups, since the filters do not depend on how the command ends; the
scripts have every kind of line the expressions tell apart, and, where messages are
streamed, two of one thread underway at once beside one of another. Deadlock is not
checked where bounds, or a stopped program, end a behaviour.

**Fairness.** `tracer_live` assumes weak fairness of `Poll`: `main` calls
`ring_buffer__poll` in a loop until a signal comes. Nothing is assumed of the
kernel's processes, which may stop doing anything. Other runs check safety only.

### What the violated properties say

Each quotes a document, comment or test of the repository; `PROJECT.json` has
the lines.

- *Cut probe sequences.* `pid_tracker_remove` leaves no tombstone. With 2048
  slots and pids up to 4 million, two tracked processes whose pids differ by a
  multiple of 2048 suffice. The processes that become unreachable are dropped
  from FILTER mode's report, their children with them.
- *Handshakes.* `trace_allowed(tgid, pid)` at the return.
- *Empty bodies.* `collector/HTTP_FILTER.md:286` says to match empty bodies with
  `response.body=`, and the `record` command filters with it (`main.rs:278`); the
  empty text is contained in every body.

Known disagreements that no run is spent on: a length of a multiple of 1 MiB is
masked to zero in the `*_ex` functions (`sslsniff.bpf.c:242`), so the line has no data
and is not marked as truncated, against `bpf/README.md:238` (`CutsTold` names the
case); `collector/SYSTEM_RUNNER.md:199-203` promises children by the fourth field of
the stat line, which a space in the name moves (`system.rs:262-264`): such a child and
all below it are left out, and its CPU time is misread if it is sampled
(`StableCounted` and `SoundShares` name the case); `collector/HTTP_FILTER.md:23` and
`:172-176` give as useful filters that ask for a request and a response at once, which
no message is, so that they never drop anything, and no HTTP filter drops a response
that the SSE processor has merged (`main.rs:507`); an aggregate is not printed when
its window ends if nothing is opened any more (`process.c:297`; `CleanedByNextOpen` is what does hold); a read without
`message_start` takes the first open accumulator of its thread
(`sse_processor.rs:533`; `RightId` excepts the threads it happens to); the web server
answers with an error while the log's first name is missing (`web.rs:131`;
`WritesFound` says where the events are). The default mode of the tracer is 2 in
its help and in `bpf/README.md:35`, and `FILTER_MODE_PROC` at `process.c:61`; `-p`
is documented as only that pid and tracks its children too; `process.c:230` says a
warning comes on the next event and it is lost if that is a duplicate;
`bpf/README.md:145` speaks of 32 KB where `sslsniff.h:9` has 512; a full
aggregation table makes a verbose tracer print an open twice; once a pid is used
twice, the web page's tree may have a cycle, which `AllDrawn` excepts.

## 4. Proofs

Each module of proofs holds for every value of the constants that its
component's named assumptions allow. `PROJECT.json` lists the theorems with the
properties they state.

`PidTrackerProofs` (any set of positive pids, any size > 0):

- `TypeCorrect`, `RemovalForgets`, `AdditionKeeps`, `AdditionReports` follow from
  what `FoundAt` and `VacantAt` say of the first matching and the first empty
  probe. They rest on `ProbeInjective` and `ProbeSurjective`: as the number of
  probes runs over the slots, so does the slot probed.
- `Exactness` is not inductive: that look-ups find what was added depends on
  where entries lie. `IInv` says that, until a cut, the table is `Proper` (no
  entry has an empty slot before it on its probe sequence, no pid is stored twice)
  and what it `Held` is the members. An addition keeps it because it fills the
  first empty slot; a removal keeps it because `cut` is set whenever the emptied
  slot lies before an entry.
- `NoCollisionsExact`: as long as no step adds a pid while another of its home slot is
  tracked (`NoClash`, which is about the few pids tracked at a time and not about all
  there are), every entry is at home (`AtHome`), so nothing is ever cut and the
  table is the set. What is at a pid's home is a member, because until a cut the table
  holds the members only; so the home of a pid that is added is empty.

`DedupProofs` (any processes, files and hashes, any hash
function, any array sizes, limit, window, word and lag):

- `TypeCorrect` is the base of the others. `ArraysNeverOverflow` adds that the
  domains are finite and counts them through additions and restrictions.
- `WarningsAreTruthful`: a flag is set only by the step that makes its process
  owed, and a step that stops owing prints the flag, and clears it.
- `LimiterHolds` strengthens the bound to a relation between a slot and the
  history: in the latest second of an unexcused process, the slot has counted at
  least what passed.
- `OpensAreConserved`: an admitted open raises either the reader's total or the
  count held back; giving entries up moves `count - 1` from one to the other,
  whatever set expires. `AggregateGain` is the lemma that does the sum, hash by
  hash.
- `OpensClean`: an entry that the clean-up of an admitted open leaves behind is
  younger than the window, or its time is after the event's (`LeftYoung`).

`TracerProofs` (any processes, any order of the kernel's steps, any ring, any
events lost):

- `TracerTypes` takes the handlers' types from `DedupProofs` and the table's from
  `PidTrackerProofs`, instantiated with the tracer's size and without the history
  of either; `OneOpen`, `OneExit` and `OneTable` say that the operators are the same.
- `OwnersStayTracked` and `LinesWithinLife` share one invariant: until a removal
  cuts a probe sequence, the table is `Proper` and holds announced pids only
  (`Holding`), and, unless every process is reported, whoever owns an aggregate is
  held (`OwnersHeld`): an open is aggregated only if its process is found, and the
  step that removes a process flushes what it owns. `announced` is a history
  variable. Before the tracer attaches nothing is printed (`Quiet`).
- `TracerCatchesUp`: what the tracer will track once it has taken the events of its
  ring, applied one after another, is what the kernel runs. The events are a
  sequence, so what they do is a recursion, of which the proof needs that it exists,
  is unique, and that an event more at the end is one application more. `InSync`
  extends the equation to the scan, during which it holds of the pids behind the
  cursor. It excepts lost events, missing slots and cut sequences, as the property.

`SslProofs` (any threads, any capacity of maps and ring, any lengths):

- `IInv` says of each thread (`OwnState`) that it is in a call, or in a handshake
  inside one (`Nested`); that an entry of `bufs` during a call is that call's and
  an entry of `start_ns` is no older; that an entry is missing only for a reason
  in `excused` (`OwnCall`); and that a length pointer belongs to the `*_ex` call
  in progress, unless the thread was killed (`PtrOwned`). Of each event in the
  ring it says that it is made of one call's data (`Sound`).
- `CallsJoined`, `LossExplained`, `PointersDropped` and `CutsAreTold` follow: the
  properties themselves speak of lines and histories, and say nothing of the maps
  that the next return reads. For `CutsAreTold` an event is as long as its probe
  copies (`Sound`), with the mask or without, and what a line tells of it
  (`Tells`) is worked out for each kind of call and for copies that fault.

`SseProofs` (any messages, threads, reads and torn chunks, any length at which a
message is cut):

- `SseTypes` and `ContentIsKept` hold of all threads. `Kept` says that every piece in
  an accumulator or a merged event was read, and every piece read is in one of them
  only; an accumulator with content is worth passing on (a delta is among its
  events), so completing it loses nothing. What a read adds was in no place yet,
  because its numbers are beyond those read.
- `SseInOrder`, `SseNothingHeld` and `SseRightId` are about threads that had neither
  a torn read nor two messages at once. None is inductive: that a read without
  an id goes to the right accumulator depends on there being no other. `Calm` says so of a
  thread: at most one message underway, at most one accumulator, which no end has
  completed and whose content is that message's (`Own`), rising and under its id; or
  none, and then the message was cut, so it is `Long`, because pieces in an
  accumulator are as many places in the script (`LongIfCut`). `FlattenAppend` is the
  lemma by which a merged event more is a piece more at the end.

`RotationProofs` (any number of files, sizes, intervals and restarts):

- `RotationTypes` and `HandleFound` follow the names, the files and the handle
  through a rotation, as a record (`GoodState`): a rotation gives each name a file
  that had a name or none, whatever the file system refuses (`ShiftedNames`).
- `SizesBounded` strengthens the bound to `Sizes`: the current file holds at most
  `MaxSize` and one event, plus the events since the last look, plus what each
  stop may have carried over (`restarts * (Interval - 1)`), because a new start
  forgets the count.
- `RotationRefines`: every step of `LogRotation` is one of `BoundedLog` or leaves what
  a reader finds as it is. What is read is the contents of the names joined
  (`Joined`). Renames from name `k` on move contents up by one (`MovedUp`), which
  leaves what is read but for an oldest part (`JoinedShift`); an event is written
  to the end of what is read, as `HandleFound` has it. It needs that
  no two names lead to one file and that files hold what was logged (`Recorded`).
- `RotationKeeps`: as long as nothing failed, every rotated file is larger than
  `MaxSize` (`FullState`), and a stop leaves at most one gap in the names
  (`HolesOf`); so when the oldest file goes, all names are taken but one for each
  stop, and the files are counted by an injection from names to names.

`ObservedProofs` (any processes, pids and orders of `/proc`):

- `SharesAreSound`: a reading of the CPU time, still of the same life of its pid, is
  behind the process by at most the time since (`ReadingsBehind`), since a thread uses
  at most the time there is; so no subtraction wraps between two such readings, and a
  share is at most what the clock allows. Nothing is said of readings that were
  misread.
- `ObservedTypes` adds that neither a process's CPU time nor a sample's instant is
  beyond the clock (`Timely`) and that a walk has a listing or a pid left (`Shape`).
- `TreeIsDrawn`: were processes left undrawn, the oldest of them would have a
  parent that is drawn, or none. The age is a rank of the processes by which
  children come after parents, both the kernel's and those told (`Ordered`); it
  exists at the start, is kept by adoption, and a fork adds a last one. Of `Drawn`
  the proof uses only that the roots are in it and that children of who is in it are.
- `StableAreCounted`: who could have been found below the target all through the walk
  is counted, or its parent is not yet, or a listing under way has still to come to it
  (`Pending`); at the walk's end there is no listing, and the rank gives an oldest one
  that is not counted, whose parent is. An exec to a name with a space takes the
  process, and all below it, out of those who can be found.
- `FamilyIsCountedOnce`: a pid counted or listed twice was adopted (`CountedTwice`,
  `ListedTwice`), since the walk is past every other that was counted (`Past`), and
  what is counted but the target was born below it (`Descend`).

`CollectorProofs` (any scripts, filters and size of the pipes):

- `CollectorTypes`: the event in hand is made of lines that were read, and is at a
  stage that is before it is counted or after (`Sane`).
- `MetricsAddUp`: of the sniffer's events, as many passed as have come to the logger or
  are about to (`Accounts`), whatever the filters and the SSE processor do.
- `LogsAsMeant` is strengthened to all the places where a line may be: the log,
  an accumulator, the hand (`Meant`). A line that was read and should come to the logger
  is in one of them, and none is in two (`Places`); what an entry, an accumulator
  (`HeldMeant`) or the event in hand (`HandMeant`) is made of was wanted, rises and is
  of one thread, and the line just read is beyond all of them, so that an
  entry that ends with it may follow every other (`Entries`). The hypothesis,
  `FiltersAsMeant` of each setup, is about the evaluation of expressions and not
  about the command: TLC evaluates it for the expressions of the run `collector`,
  and it fails for the one of `filter_empty`.

**Only model-checked.** `DeadForgotten`, which is liveness under fairness; that
steps of the models are enabled; and `FiltersAsMeant`, the evaluation of filter
expressions, on which `LogsAsMeant` rests: that a parser of expressions agrees
with their grammar for all of them is an induction over their structure, and the
provers at hand cannot apply one. The three properties expected to be violated
are shown by TLC's counterexamples. Every other property of the runs is the
statement of a theorem.

## 5. Not modelled

`PROJECT.json` lists the parts with reasons. A part is left out because it keeps
no state and decides nothing that a property could relate to something else:

- timestamp conversion, which keeps order: the models go by the order of events;
- removal of authorization headers and the text of the HTTP parser, which rewrite
  one event each; the JSON of printed lines and its escaping;
- memory, thread and system-wide metrics of the monitor, and its thresholds,
  which are read and reported in one go; its loop and CPU samples are modelled;
- the metrics of the SSL filter, which count as those of the HTTP filter do;
- the task that logs a child's standard error, the fake runner, the extraction of
  embedded binaries, and printing;
- the offline scripts, and the presentation of the web page but for its tree.

And because it ends the program, or needs what no bounded model has: discovery of
TLS libraries; failures of loading and attaching; the text of a command typed at
a bash prompt. The tracer's `exec_start` map is never full (8192 entries). The
headers under `vmlinux/`, most of the repository's lines, are generated type
declarations and hold no code.

## 6. Plan

All of the plan is carried out: the tracer and the sniffer with their tables, the
runners with the merge, filters and log, the monitor, and the page's tree, each
checked, and the safety properties proved. What is worth adding:

1. An abstract specification of the SSE processor, whose state is one sequence of
   pieces for each thread and message, implemented by `SseProcessor` for undisturbed
   threads; `SseInOrder` and `SseRightId` are its step invariants.
2. What can be said of threads that were disturbed, beyond `ContentIsKept`: the order
   within one message.
3. The share of `FiltersAsMeant` that needs no induction: single conditions, and
   conjunctions of two.
