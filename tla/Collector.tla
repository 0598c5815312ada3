------------------------------ MODULE Collector ------------------------------
(***************************************************************************)
(* The collector's trace command, run_trace of collector/src/main.rs, from *)
(* the lines that the sniffer ("ssl") and the tracer ("process") print to  *)
(* the entries of the log: binary runners, the agent runner that merges    *)
(* their streams, the SSE processor, the filters, and the end, by itself,  *)
(* by SIGINT or by a kill.                                                 *)
(*                                                                         *)
(* The streams are pulled: an event goes all the way from its line to the  *)
(* log, or to an accumulator of the SSE processor, before another line is  *)
(* read.  What a line says is of no concern but to the filters and, as far *)
(* as the kinds of its server-sent events go, to the SSE processor; an     *)
(* entry is known by its source and the lines it is made of.  How events   *)
(* are merged and how the log is rotated is in modules of their own.       *)
(***************************************************************************)
EXTENDS Filters

CONSTANTS
  Lines,     \* the lines a child may print
  Setups,    \* what the children have to print, and the filters in use
  PipeSize   \* lines that a pipe holds

SourceSet == {"ssl", "process"}

\* A pattern is an expression with the lines that it is meant for.
Pattern == [text : Seq(STRING), meant : SUBSET Lines]

Setup ==
  [script : [SourceSet -> Seq(Lines)], ssl_filter : Seq(Pattern), ssl_http : BOOLEAN, http_filter : Seq(Pattern),
   faults : BOOLEAN]

ASSUME CollectorAssumption == Setups \subseteq Setup /\ PipeSize \in Nat \ {0}

VARIABLES
  setup,      \* the setup
  printed,    \* source -> complete lines its child has printed
  read,       \* source -> of these, how many its runner has read
  child,      \* source -> "new", "running" or "ended"
  runner,     \* source -> "new", "reading" or "ended"
  hand,       \* the event between its line and the log, the lines it is made of and what is next for it
  held,       \* the SSE processor's accumulators, and the lines they are made of
  log,        \* what has come to the logger: the entries of the log and those it could not write
  metrics,    \* HTTP_FILTER_GLOBAL_METRICS
  collector,  \* "running", "exiting" (in the signal handler) or "ended"
  printout    \* the metrics printed on SIGINT, and the sniffer's entries then

childVars == <<printed, child>>
vars == <<setup, printed, read, child, runner, hand, held, log, metrics, collector, printout>>

Metrics == [total : Nat, filtered : Nat, passed : Nat]
NoMetrics == [total |-> 0, filtered |-> 0, passed |-> 0]

Stages == {"ssl_filter", "sse", "http_filter", "log"}
Nothing == [source |-> "ssl", lines |-> <<>>, stage |-> "log"]

\* named: by the id in a message_start, and not for want of one.
Accumulator == [thread : {line.thread : line \in Lines}, named : BOOLEAN, lines : Seq(Nat)]

\* The setup never changes.
TypeOK ==
  /\ \A s \in SourceSet :
       /\ printed[s] \in 0 .. Len(setup.script[s])
       /\ read[s] \in 0 .. printed[s]
       /\ printed[s] - read[s] <= PipeSize
  /\ child \in [SourceSet -> {"new", "running", "ended"}]
  /\ runner \in [SourceSet -> {"new", "reading", "ended"}]
  /\ hand.source \in SourceSet /\ hand.lines \in Seq(1 .. read[hand.source]) /\ hand.stage \in Stages
  /\ held \subseteq Accumulator
  /\ log \in Seq([source : SourceSet, lines : Seq(Nat), written : BOOLEAN])
  /\ metrics \in Metrics /\ metrics.total <= read["ssl"]
  /\ collector \in {"running", "exiting", "ended"}
  /\ printout \in [shown : BOOLEAN, metrics : Metrics, entries : 0 .. Len(log)]

Init ==
  /\ setup \in Setups
  /\ printed = [s \in SourceSet |-> 0] /\ read = printed
  /\ child = [s \in SourceSet |-> "new"] /\ runner = child
  /\ hand = Nothing
  /\ held = {}
  /\ log = <<>>
  /\ metrics = NoMetrics
  /\ collector = "running"
  /\ printout = [shown |-> FALSE, metrics |-> NoMetrics, entries |-> 0]

Line(s, i) == setup.script[s][i]

-----------------------------------------------------------------------------
\* The children

Prints(s) ==
  /\ child[s] = "running" /\ collector # "ended"
  /\ printed[s] < Len(setup.script[s]) /\ printed[s] - read[s] < PipeSize
  /\ printed' = [printed EXCEPT ![s] = @ + 1]
  /\ UNCHANGED <<setup, read, child, runner, hand, held, log, metrics, collector, printout>>

\* By itself when it has no more to print, or earlier: by a signal, or because
\* the collector, which does not stop its children when it ends, is gone.  Part
\* of a line may be left in the pipe.
ChildEnds(s) ==
  /\ child[s] = "running"
  /\ printed[s] = Len(setup.script[s]) \/ setup.faults
  /\ child' = [child EXCEPT ![s] = "ended"]
  /\ UNCHANGED <<setup, printed, read, runner, hand, held, log, metrics, collector, printout>>

-----------------------------------------------------------------------------
\* AgentRunner::run and BinaryExecutor::get_json_stream

\* The runners are started one after the other.
Turn(s) == collector # "ended" /\ runner[s] = "new" /\ (s = "process" => runner["ssl"] # "new")

Start(s) ==
  /\ Turn(s)
  /\ child' = [child EXCEPT ![s] = "running"]
  /\ runner' = [runner EXCEPT ![s] = "reading"]
  /\ UNCHANGED <<setup, printed, read, hand, held, log, metrics, collector, printout>>

\* The command fails if one of them does.
StartFails(s) ==
  /\ Turn(s) /\ setup.faults
  /\ collector' = "ended"
  /\ UNCHANGED <<setup, childVars, read, runner, hand, held, log, metrics, printout>>

\* select_all asks any of the streams, once all have been started.
Asked(s) ==
  /\ collector # "ended" /\ hand = Nothing
  /\ runner[s] = "reading" /\ \A r \in SourceSet : runner[r] # "new"

SslFiltering == setup.ssl_filter # <<>>
HttpFiltering == setup.ssl_http /\ setup.http_filter # <<>>

StageAfterSse == IF HttpFiltering THEN "http_filter" ELSE "log"

StageAfterSslFilter(s) == IF s = "ssl" /\ setup.ssl_http THEN "sse" ELSE "log"
FirstStage(s) == IF s = "ssl" /\ SslFiltering THEN "ssl_filter" ELSE StageAfterSslFilter(s)

\* A line that is not JSON, or not text, is skipped.
Read(s) ==
  /\ Asked(s)
  /\ read[s] < printed[s]
  /\ read' = [read EXCEPT ![s] = @ + 1]
  /\ hand' = IF Line(s, read'[s]).kind = "event"
             THEN [source |-> s, lines |-> <<read'[s]>>, stage |-> FirstStage(s)] ELSE Nothing
  /\ UNCHANGED <<setup, childVars, runner, held, log, metrics, collector, printout>>

\* End of file, what there is of a last line being skipped, or an error.  The
\* child is killed if it has not ended.
ReadEnds(s) ==
  /\ Asked(s)
  /\ (child[s] = "ended" /\ read[s] = printed[s]) \/ setup.faults
  /\ runner' = [runner EXCEPT ![s] = "ended"]
  /\ child' = [child EXCEPT ![s] = "ended"]
  /\ UNCHANGED <<setup, printed, read, hand, held, log, metrics, collector, printout>>

-----------------------------------------------------------------------------
\* Analyzers

At(stage) == collector # "ended" /\ hand # Nothing /\ hand.stage = stage

\* The line in hand, or the last of those that the event in hand is made of.
InHand == Line(hand.source, Last(hand.lines))

\* should_filter: any of the patterns of a setup will do to drop an event.
SslDrops(u, line) == \E i \in 1 .. Len(u.ssl_filter) : SslEvaluate(u.ssl_filter[i].text, line)

\* Only what HTTPParser has made an http_parser event of can be dropped: not what
\* the SSE processor has merged.
HttpDrops(u, line) ==
  line.sse = {} /\ line.message_type # "none" /\ \E i \in 1 .. Len(u.http_filter) : HttpEvaluate(u.http_filter[i].text, line)

\* process of SSLFilter
SslFilter ==
  /\ At("ssl_filter")
  /\ hand' = IF SslDrops(setup, InHand) THEN Nothing ELSE [hand EXCEPT !.stage = StageAfterSslFilter("ssl")]
  /\ UNCHANGED <<setup, childVars, read, runner, held, log, metrics, collector, printout>>

\* process of SSEProcessor.  A line without server-sent events passes.
SsePasses ==
  /\ At("sse") /\ InHand.sse = {}
  /\ hand' = [hand EXCEPT !.stage = StageAfterSse]
  /\ UNCHANGED <<setup, childVars, read, runner, held, log, metrics, collector, printout>>

\* The accumulators of the thread in hand.
Open == {a \in held : a.thread = InHand.thread}

\* Pings and message_deltas alone are dropped unless there is an accumulator
\* under the key for want of an id.
Skipped == InHand.sse = {"meta"} /\ \A a \in Open : a.named

SseSkips ==
  /\ At("sse") /\ Skipped
  /\ hand' = Nothing
  /\ UNCHANGED <<setup, childVars, read, runner, held, log, metrics, collector, printout>>

\* A mutant: the accumulators of all threads are looked through.
AccumulatorsOfAll(line) ==
  IF "start" \in line.sse \/ held = {}
  THEN {[thread |-> line.thread, named |-> "start" \in line.sse, lines |-> <<>>]} ELSE held

\* An id is in one message_start only, which begins an accumulator.  All else is
\* for whichever one of its thread the hash map happens to yield first.
AccumulatorsFor(line) ==
  IF "start" \in line.sse \/ Open = {}
  THEN {[thread |-> line.thread, named |-> "start" \in line.sse, lines |-> <<>>]} ELSE Open

\* The kinds of server-sent events in some of the sniffer's lines.
Kinds(lines) == UNION {Line("ssl", n).sse : n \in ToSet(lines)}

\* A message is complete with its stop, or when the text of its deltas has become
\* too long, and passed on if it has a delta, or a start and enough of other events.
\* How long a text is and how many events there are is left open.
SseAccumulates ==
  /\ At("sse") /\ InHand.sse # {} /\ ~Skipped
  /\ \E a \in AccumulatorsFor(InHand) :
       LET lines == Append(a.lines, Last(hand.lines))
       IN  \/ /\ "stop" \notin Kinds(lines)
              /\ held' = (held \ {a}) \union {[a EXCEPT !.lines = lines]}
              /\ hand' = Nothing
           \/ /\ {"stop", "delta"} \intersect Kinds(lines) # {}
              /\ held' = held \ {a}
              /\ \/ /\ {"start", "delta"} \intersect Kinds(lines) # {}
                    /\ hand' = [hand EXCEPT !.lines = lines, !.stage = StageAfterSse]
                 \/ "delta" \notin Kinds(lines) /\ hand' = Nothing
  /\ UNCHANGED <<setup, childVars, read, runner, log, metrics, collector, printout>>

\* A mutant: a dropped event is counted as passed too.
PassedAnyway(dropped) ==
  [metrics EXCEPT !.total = @ + 1, !.filtered = IF dropped THEN @ + 1 ELSE @, !.passed = @ + 1]

\* A mutant: the total is counted where the event comes in and where it is dropped.
CountedTwice(dropped) ==
  IF dropped THEN [metrics EXCEPT !.total = @ + 2, !.filtered = @ + 1]
  ELSE [metrics EXCEPT !.total = @ + 1, !.passed = @ + 1]

Counted(dropped) ==
  IF dropped THEN [metrics EXCEPT !.total = @ + 1, !.filtered = @ + 1]
  ELSE [metrics EXCEPT !.total = @ + 1, !.passed = @ + 1]

\* HTTPParser and process of HTTPFilter
HttpFilter ==
  /\ At("http_filter")
  /\ hand' = IF HttpDrops(setup, InHand) THEN Nothing ELSE [hand EXCEPT !.stage = "log"]
  /\ metrics' = Counted(HttpDrops(setup, InHand))
  /\ UNCHANGED <<setup, childVars, read, runner, held, log, collector, printout>>

\* FileLogger.  An event that cannot be written is only reported.
Log ==
  /\ At("log")
  /\ \E written \in {TRUE, ~setup.faults} :
       log' = Append(log, [source |-> hand.source, lines |-> hand.lines, written |-> written])
  /\ hand' = Nothing
  /\ UNCHANGED <<setup, childVars, read, runner, held, metrics, collector, printout>>

-----------------------------------------------------------------------------
\* The end

\* stream.next() has returned None.
StreamEnds ==
  /\ collector # "ended" /\ \A s \in SourceSet : runner[s] = "ended"
  /\ collector' = "ended"
  /\ UNCHANGED <<setup, childVars, read, runner, hand, held, log, metrics, printout>>

\* The entries of a source.
EntriesOf(s) == {k \in DOMAIN log : log[k].source = s}

\* The handler prints the metrics while the main task goes on ...
Sigint ==
  /\ collector = "running" /\ setup.faults
  /\ collector' = "exiting"
  /\ printout' = [shown |-> HttpFiltering, metrics |-> metrics, entries |-> Cardinality(EntriesOf("ssl"))]
  /\ UNCHANGED <<setup, childVars, read, runner, hand, held, log, metrics>>

\* ... and exits.  A kill does so at once.
Exit ==
  /\ collector = "exiting" \/ (collector = "running" /\ setup.faults)
  /\ collector' = "ended"
  /\ UNCHANGED <<setup, childVars, read, runner, hand, held, log, metrics, printout>>

Next ==
  \/ \E s \in SourceSet :
       Prints(s) \/ ChildEnds(s) \/ Start(s) \/ StartFails(s) \/ Read(s) \/ ReadEnds(s)
  \/ SslFilter \/ SsePasses \/ SseSkips \/ SseAccumulates \/ HttpFilter \/ Log
  \/ StreamEnds \/ Sigint \/ Exit

Spec == Init /\ [][Next]_vars

-----------------------------------------------------------------------------

MeantBy(patterns) == UNION {patterns[i].meant : i \in 1 .. Len(patterns)}

\* Of the events that its sniffer prints, a setup's filters drop those they were meant for.
FiltersAsMeant(u) ==
  \A line \in ToSet(u.script["ssl"]) :
    line.kind = "event" =>
      /\ SslDrops(u, line) <=> line \in MeantBy(u.ssl_filter)
      /\ line.sse = {} /\ line.message_type # "none" => (HttpDrops(u, line) <=> line \in MeantBy(u.http_filter))

\* An event that no filter, read as it was meant, drops.
Wanted(s, i) ==
  LET line == Line(s, i)
  IN  /\ line.kind = "event"
      /\ s = "ssl" =>
           /\ line \notin MeantBy(setup.ssl_filter)
           /\ setup.ssl_http /\ line.sse = {} /\ line.message_type # "none" => line \notin MeantBy(setup.http_filter)

\* Of the lines with server-sent events, those with content must not get lost.
Kept(s, i) ==
  /\ Wanted(s, i)
  /\ s = "ssl" /\ setup.ssl_http => Line(s, i).sse = {} \/ "delta" \in Line(s, i).sse

\* The lines of a source in the log, in accumulators and in hand.
Logged(s) == UNION {ToSet(log[k].lines) : k \in EntriesOf(s)}
HeldOf(s) == IF s = "ssl" THEN UNION {ToSet(a.lines) : a \in held} ELSE {}
HandOf(s) == IF s = hand.source THEN ToSet(hand.lines) ELSE {}

Ascends(lines) == \A i, j \in DOMAIN lines : i < j => lines[i] < lines[j]

\* Only lines of one thread that have server-sent events are merged.
OneThread(s, lines) ==
  Len(lines) > 1 =>
    s = "ssl" /\ \A i, j \in ToSet(lines) : Line(s, i).sse # {} /\ Line(s, i).thread = Line(s, j).thread

\* What comes to the logger is made of lines that were read and that the filters
\* were not meant to drop, each in one entry, in the order they were printed, and
\* the entries of a source in the order of their last lines.  What should come
\* there, and has not, is held by the SSE processor or in hand.
LoggedAsMeant ==
  \A s \in SourceSet :
    /\ Logged(s) \union HeldOf(s) \subseteq {i \in 1 .. read[s] : Wanted(s, i)}
    /\ {i \in 1 .. read[s] : Kept(s, i)} \subseteq Logged(s) \union HeldOf(s) \union HandOf(s)
    /\ Logged(s) \intersect HeldOf(s) = {}
    /\ \A k \in EntriesOf(s) : Ascends(log[k].lines) /\ OneThread(s, log[k].lines)
    /\ \A j, k \in EntriesOf(s) :
         j < k => /\ Last(log[j].lines) < Last(log[k].lines)
                  /\ ToSet(log[j].lines) \intersect ToSet(log[k].lines) = {}

\* The metrics printed on SIGINT add up and agree with what had come to the logger
\* by then, save for one event that has passed the filter and is on its way there.
MetricsAccount ==
  printout.shown =>
    /\ printout.metrics.total = printout.metrics.filtered + printout.metrics.passed
    /\ printout.metrics.passed - printout.entries \in {0, 1}

EmptyBodyPattern(pattern) ==
  Len(pattern.text) = 1 /\ LET c == HttpConditions[pattern.text[1]] IN c.field = "body" /\ c.value = <<>>

\* HTTP_FILTER.md: "body=" without a text is for messages without a body.  With no
\* other filter in use, no message with a body is missing in the log.
EmptyBodyOnly ==
  (~SslFiltering /\ \A i \in 1 .. Len(setup.http_filter) : EmptyBodyPattern(setup.http_filter[i])) =>
    \A i \in (1 .. read["ssl"]) \ HandOf("ssl") :
      Line("ssl", i).kind = "event" /\ Line("ssl", i).body # <<>> => i \in Logged("ssl") \union HeldOf("ssl")
==============================================================================
