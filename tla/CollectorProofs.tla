--------------------------- MODULE CollectorProofs ---------------------------
(***************************************************************************)
(* What holds of the trace command for any lines, any filters, any size of *)
(* the pipes, whatever the logger cannot write, and any order in which     *)
(* children, runners, analyzers and signals take their steps.              *)
(***************************************************************************)
EXTENDS Collector, SequenceTheorems, FiniteSetTheorems, TLAPS

USE CollectorAssumption

Hand == [source : SourceSet, lines : Seq(Nat), stage : Stages]

Entry == [source : SourceSet, lines : Seq(Nat), written : BOOLEAN]

Typed ==
  /\ setup \in Setup
  /\ printed \in [SourceSet -> Nat] /\ read \in [SourceSet -> Nat]
  /\ child \in [SourceSet -> {"new", "running", "ended"}]
  /\ runner \in [SourceSet -> {"new", "reading", "ended"}]
  /\ hand \in Hand
  /\ held \subseteq Accumulator
  /\ log \in Seq(Entry)
  /\ metrics \in Metrics
  /\ collector \in {"running", "exiting", "ended"}
  /\ printout \in [shown : BOOLEAN, metrics : Metrics, entries : Nat]

\* A source prints no more than it has to, and no more than is read and the pipe holds.
Piped(s) == printed[s] <= Len(setup.script[s]) /\ read[s] <= printed[s] /\ printed[s] - read[s] <= PipeSize

\* Where the event in hand is, and which analyzers it can still be at.
Carried ==
  hand # Nothing =>
    /\ hand.lines # <<>> /\ Last(hand.lines) = read[hand.source]
    /\ InHand.kind = "event"
    /\ hand.stage # "log" => hand.source = "ssl"
    /\ hand.stage = "ssl_filter" => SslFiltering
    /\ hand.stage = "sse" => setup.ssl_http
    /\ hand.stage = "http_filter" => HttpFiltering
    /\ hand.stage \in {"ssl_filter", "sse"} => hand.lines = <<read["ssl"]>>

\* No more is in hand or held than has been read.
ReadFirst ==
  /\ hand.lines \in Seq(1 .. read[hand.source])
  /\ \A a \in held : a.lines \in Seq(1 .. read["ssl"])

\* The event in hand has not come to the filter that counts it.
Uncounted == IF hand # Nothing /\ hand.stage # "log" THEN 1 ELSE 0

Sane ==
  /\ Typed
  /\ \A s \in SourceSet : Piped(s)
  /\ Carried
  /\ ReadFirst
  /\ metrics.total + Uncounted <= read["ssl"]
  /\ printout.entries <= Len(log)

LEMMA SaneTypes == Sane => TypeOK
<1> SUFFICES ASSUME Sane
             PROVE  TypeOK
  OBVIOUS
<1> USE DEF Sane
<1>1. \A s \in SourceSet : Len(setup.script[s]) \in Nat
  <2>1. \A s \in SourceSet : setup.script[s] \in Seq(Lines)
    BY DEF Typed, Setup
  <2> QED
    BY <2>1
<1>2. \A s \in SourceSet : /\ printed[s] \in 0 .. Len(setup.script[s])
                           /\ read[s] \in 0 .. printed[s]
                           /\ printed[s] - read[s] <= PipeSize
  <2> SUFFICES ASSUME NEW s \in SourceSet
               PROVE  /\ printed[s] \in 0 .. Len(setup.script[s])
                      /\ read[s] \in 0 .. printed[s]
                      /\ printed[s] - read[s] <= PipeSize
    OBVIOUS
  <2>1. printed[s] \in Nat /\ read[s] \in Nat
    BY DEF Typed
  <2>2. Piped(s)
    OBVIOUS
  <2> QED
    BY <1>1, <2>1, <2>2 DEF Piped
<1>3. hand.source \in SourceSet /\ hand.lines \in Seq(1 .. read[hand.source]) /\ hand.stage \in Stages
  BY DEF Typed, Hand, ReadFirst
<1>4. metrics \in Metrics /\ metrics.total <= read["ssl"]
  <2>1. metrics.total \in Nat /\ read["ssl"] \in Nat /\ Uncounted \in Nat
    BY DEF Typed, Metrics, SourceSet, Uncounted
  <2> QED
    BY <2>1 DEF Typed
<1>5. printout \in [shown : BOOLEAN, metrics : Metrics, entries : 0 .. Len(log)]
  <2>1. printout.entries \in Nat /\ Len(log) \in Nat /\ printout.entries <= Len(log)
    BY DEF Typed
  <2>2. printout.entries \in 0 .. Len(log)
    BY <2>1
  <2> QED
    BY <2>2 DEF Typed
<1> QED
  BY <1>2, <1>3, <1>4, <1>5 DEF Typed, TypeOK, Entry

\* What is in a shorter range is in a longer one.
LEMMA ReadMore ==
  ASSUME NEW m \in Nat, NEW n \in Nat, m <= n, NEW lines \in Seq(1 .. m)
  PROVE  lines \in Seq(1 .. n)
<1>1. 1 .. m \subseteq 1 .. n
  OBVIOUS
<1> QED
  BY <1>1, SeqMonotonic

LEMMA NothingTypes == Nothing \in Hand /\ \A n : Nothing.lines \in Seq(1 .. n)
BY DEF Nothing, Hand, SourceSet, Stages

LEMMA SaneAtFirst == Init => Sane
<1> SUFFICES ASSUME Init
             PROVE  Sane
  OBVIOUS
<1> USE DEF Init
<1>1. setup \in Setup
  OBVIOUS
<1>2. NoMetrics \in Metrics
  BY DEF NoMetrics, Metrics
<1>3. Typed
  BY <1>1, <1>2, NothingTypes DEF Typed
<1>4. \A s \in SourceSet : Piped(s)
  <2> SUFFICES ASSUME NEW s \in SourceSet
               PROVE  Piped(s)
    OBVIOUS
  <2>1. setup.script[s] \in Seq(Lines)
    BY <1>1 DEF Setup
  <2>2. Len(setup.script[s]) \in Nat
    BY <2>1
  <2>3. printed[s] = 0 /\ read[s] = 0
    OBVIOUS
  <2> QED
    BY <2>2, <2>3 DEF Piped
<1>5. Carried /\ Uncounted = 0
  BY DEF Carried, Uncounted
<1>6. ReadFirst
  BY NothingTypes DEF ReadFirst
<1>7. metrics.total = 0 /\ read["ssl"] = 0
  BY DEF NoMetrics, SourceSet
<1>8. printout.entries = 0 /\ Len(log) = 0
  OBVIOUS
<1> QED
  BY <1>3, <1>4, <1>5, <1>6, <1>7, <1>8 DEF Sane

\* A step that leaves these alone keeps what is said of events in hand and held.
LEMMA HandKept ==
  ASSUME Sane, UNCHANGED <<setup, hand, held, read, metrics>>
  PROVE  Carried' /\ ReadFirst' /\ Uncounted' = Uncounted /\ (metrics.total + Uncounted <= read["ssl"])'
<1>1. Uncounted' = Uncounted
  BY DEF Uncounted
<1>2. InHand' = InHand
  BY DEF InHand, Line
<1>3. (SslFiltering <=> SslFiltering') /\ (HttpFiltering <=> HttpFiltering')
  BY DEF SslFiltering, HttpFiltering
<1>4. Carried'
  BY <1>2, <1>3 DEF Sane, Carried
<1>5. ReadFirst'
  BY DEF Sane, ReadFirst
<1> QED
  BY <1>1, <1>4, <1>5 DEF Sane

\* The line in hand is the one that was read last.
LEMMA InHandRead ==
  ASSUME Sane, hand # Nothing
  PROVE  /\ hand \in Hand /\ hand.source \in SourceSet /\ read[hand.source] \in Nat /\ read[hand.source] > 0
         /\ InHand = Line(hand.source, read[hand.source]) /\ InHand \in ToSet(setup.script[hand.source])
         /\ InHand \in Lines
<1> DEFINE s == hand.source
           n == read[hand.source]
<1>1. hand \in Hand /\ s \in SourceSet /\ n \in Nat
  BY DEF Sane, Typed, Hand
<1>2. hand.lines # <<>> /\ Last(hand.lines) = n /\ hand.lines \in Seq(1 .. n)
  BY DEF Sane, Carried, ReadFirst
<1>3. n \in 1 .. n
  <2>1. Len(hand.lines) \in 1 .. Len(hand.lines)
    BY <1>2
  <2>2. hand.lines[Len(hand.lines)] \in 1 .. n
    BY <1>2, <2>1, ElementOfSeq
  <2> QED
    BY <1>2, <2>2 DEF Last
<1>4. setup.script[s] \in Seq(Lines) /\ printed[s] \in Nat
  BY <1>1 DEF Sane, Typed, Setup
<1>5. n <= printed[s] /\ printed[s] <= Len(setup.script[s])
  BY <1>1 DEF Sane, Piped
<1>6. n \in DOMAIN setup.script[s]
  BY <1>1, <1>3, <1>4, <1>5
<1>7. InHand = setup.script[s][n]
  BY <1>2 DEF InHand, Line
<1>8. setup.script[s][n] \in Lines
  BY <1>4, <1>6
<1> QED
  BY <1>1, <1>3, <1>6, <1>7, <1>8 DEF Line, ToSet

LEMMA PrintsSane ==
  ASSUME Sane, NEW s \in SourceSet, Prints(s)
  PROVE  Sane'
<1> USE DEF Prints
<1>1. printed \in [SourceSet -> Nat] /\ read \in [SourceSet -> Nat]
  BY DEF Sane, Typed
<1>2. printed' \in [SourceSet -> Nat]
  BY <1>1
<1>3. Typed'
  BY <1>2 DEF Sane, Typed
<1>4. \A r \in SourceSet : Piped(r)'
  <2> SUFFICES ASSUME NEW r \in SourceSet
               PROVE  Piped(r)'
    OBVIOUS
  <2>1. Piped(r) /\ setup' = setup /\ read' = read
    BY DEF Sane
  <2>2. setup.script[r] \in Seq(Lines)
    BY DEF Sane, Typed, Setup
  <2>3. Len(setup.script[r]) \in Nat /\ printed[r] \in Nat /\ read[r] \in Nat
    BY <1>1, <2>2
  <2>4. CASE r = s
    <3>1. printed'[r] = printed[r] + 1
      BY <1>1, <2>4
    <3>2. printed[r] < Len(setup.script[r]) /\ printed[r] - read[r] < PipeSize
      BY <2>4
    <3> QED
      BY <2>1, <2>3, <3>1, <3>2 DEF Piped
  <2>5. CASE r # s
    <3>1. printed'[r] = printed[r]
      BY <1>1, <2>5
    <3> QED
      BY <2>1, <3>1 DEF Piped
  <2> QED
    BY <2>4, <2>5
<1>5. Carried' /\ ReadFirst' /\ (metrics.total + Uncounted <= read["ssl"])'
  BY HandKept
<1> QED
  BY <1>3, <1>4, <1>5 DEF Sane

LEMMA ReadSane ==
  ASSUME Sane, NEW s \in SourceSet, Read(s)
  PROVE  Sane'
<1> USE DEF Read
<1>1. read \in [SourceSet -> Nat] /\ printed \in [SourceSet -> Nat]
  BY DEF Sane, Typed
<1>2. read' \in [SourceSet -> Nat] /\ read'[s] = read[s] + 1 /\ \A r \in SourceSet \ {s} : read'[r] = read[r]
  BY <1>1
<1>3. FirstStage(s) \in Stages
  BY DEF FirstStage, StageAfterSslFilter, Stages
<1>4. hand' = [source |-> s, lines |-> <<read'[s]>>, stage |-> FirstStage(s)] \/ hand' = Nothing
  OBVIOUS
<1>5. read'[s] \in Nat /\ read'[s] \in 1 .. read'[s]
  BY <1>1, <1>2
<1>6. hand' \in Hand
  BY <1>3, <1>4, <1>5, NothingTypes DEF Hand
<1>7. Typed'
  BY <1>2, <1>6 DEF Sane, Typed, childVars
<1>8. \A r \in SourceSet : Piped(r)'
  <2> SUFFICES ASSUME NEW r \in SourceSet
               PROVE  Piped(r)'
    OBVIOUS
  <2>1. Piped(r) /\ setup' = setup /\ printed' = printed
    BY DEF Sane, childVars
  <2>2. read[r] \in Nat /\ printed[r] \in Nat /\ PipeSize \in Nat
    BY <1>1
  <2>3. CASE r = s
    BY <1>2, <2>1, <2>2, <2>3 DEF Piped
  <2>4. CASE r # s
    BY <1>2, <2>1, <2>4 DEF Piped
  <2> QED
    BY <2>3, <2>4
<1>9. Carried'
  <2> SUFFICES ASSUME (hand # Nothing)'
               PROVE  Carried'
    BY DEF Carried
  <2>1. hand' = [source |-> s, lines |-> <<read'[s]>>, stage |-> FirstStage(s)]
    BY <1>4
  <2>2. Line(s, read'[s]).kind = "event"
    BY DEF Nothing
  <2>3. hand'.source = s /\ hand'.lines = <<read'[s]>> /\ hand'.stage = FirstStage(s) /\ setup' = setup
    BY <2>1
  <2>4. Last(hand'.lines) = read'[s] /\ hand'.lines # <<>>
    BY <2>3 DEF Last
  <2>5. InHand' = Line(s, read'[s])
    BY <2>3, <2>4 DEF InHand, Line
  <2>6. (SslFiltering' <=> SslFiltering) /\ (HttpFiltering' <=> HttpFiltering)
    BY <2>3 DEF SslFiltering, HttpFiltering
  <2>7. /\ FirstStage(s) # "log" => s = "ssl"
        /\ FirstStage(s) = "ssl_filter" => SslFiltering
        /\ FirstStage(s) = "sse" => setup.ssl_http
        /\ FirstStage(s) # "http_filter"
    BY DEF FirstStage, StageAfterSslFilter
  <2> QED
    BY <2>2, <2>3, <2>4, <2>5, <2>6, <2>7 DEF Carried
<1>10. ReadFirst'
  <2>1. hand'.lines \in Seq(1 .. read'[hand'.source])
    <3>1. CASE hand' = [source |-> s, lines |-> <<read'[s]>>, stage |-> FirstStage(s)]
      <4> DEFINE n == read'[s]
      <4>1. hand'.lines = <<n>> /\ hand'.source = s
        BY <3>1
      <4>2. n \in 1 .. n
        BY <1>5
      <4> HIDE DEF n
      <4>3. <<n>> \in Seq(1 .. n)
        BY <4>2
      <4>4. hand'.lines \in Seq(1 .. n)
        BY <4>1, <4>3
      <4> QED
        BY <4>1, <4>4 DEF n
    <3>2. CASE hand' = Nothing
      BY <3>2, NothingTypes
    <3> QED
      BY <1>4, <3>1, <3>2
  <2>2. ASSUME NEW a \in held
        PROVE  a.lines \in Seq(1 .. read'["ssl"])
    <3>1. a.lines \in Seq(1 .. read["ssl"])
      BY DEF Sane, ReadFirst
    <3>2. read["ssl"] \in Nat /\ read'["ssl"] \in Nat /\ read["ssl"] <= read'["ssl"]
      BY <1>1, <1>2 DEF SourceSet
    <3> QED
      BY <3>1, <3>2, ReadMore
  <2> QED
    BY <2>1, <2>2 DEF ReadFirst
<1>11. (metrics.total + Uncounted <= read["ssl"])'
  <2>1. metrics' = metrics /\ metrics.total \in Nat /\ read["ssl"] \in Nat
    BY DEF Sane, Typed, Metrics, SourceSet
  <2>2. Uncounted = 0 /\ metrics.total <= read["ssl"]
    BY <2>1 DEF Sane, Uncounted, Asked
  <2>3. CASE s = "ssl"
    <3>1. Uncounted' \in 0 .. 1
      BY DEF Uncounted
    <3> QED
      BY <1>2, <2>1, <2>2, <2>3, <3>1
  <2>4. CASE s # "ssl"
    <3>1. Uncounted' = 0
      BY <1>4, <2>4 DEF Uncounted, FirstStage, StageAfterSslFilter
    <3>2. read'["ssl"] = read["ssl"]
      BY <1>2, <2>4 DEF SourceSet
    <3> QED
      BY <2>1, <2>2, <3>1, <3>2
  <2> QED
    BY <2>3, <2>4
<1> QED
  BY <1>7, <1>8, <1>9, <1>10, <1>11 DEF Sane

\* An analyzer drops the event in hand or passes it on as it is.
LEMMA AnalyzerSane ==
  ASSUME Sane, hand # Nothing, hand.stage # "log", NEW stage \in {"sse", "http_filter", "log"},
         stage = "sse" => setup.ssl_http, stage = "sse" => hand.lines = <<read["ssl"]>>,
         stage = "http_filter" => HttpFiltering,
         hand' = Nothing \/ hand' = [hand EXCEPT !.stage = stage],
         UNCHANGED <<setup, printed, read, child, runner, held, log, collector, printout>>, metrics' \in Metrics,
         metrics'.total = metrics.total \/ (metrics'.total = metrics.total + 1 /\ stage = "log")
  PROVE  Sane'
<1>1. hand \in Hand /\ hand.source = "ssl" /\ read[hand.source] \in Nat
  BY InHandRead DEF Sane, Carried
<1>2. hand' \in Hand
  BY <1>1, NothingTypes DEF Hand, Stages
<1>3. Typed'
  BY <1>2 DEF Sane, Typed
<1>4. \A r \in SourceSet : Piped(r)'
  BY DEF Sane, Piped
<1>5. Carried'
  <2> SUFFICES ASSUME (hand # Nothing)'
               PROVE  Carried'
    BY DEF Carried
  <2>1. hand'.source = hand.source /\ hand'.lines = hand.lines /\ hand'.stage = stage
    BY <1>1 DEF Hand
  <2>2. InHand' = InHand /\ read' = read
    BY <2>1 DEF InHand, Line
  <2>3. HttpFiltering' <=> HttpFiltering
    BY DEF HttpFiltering
  <2> QED
    BY <1>1, <2>1, <2>2, <2>3 DEF Sane, Carried
<1>6. ReadFirst'
  <2>1. hand'.lines \in Seq(1 .. read[hand'.source])
    BY <1>1, NothingTypes DEF Sane, ReadFirst, Hand
  <2> QED
    BY <2>1 DEF Sane, ReadFirst
<1>7. (metrics.total + Uncounted <= read["ssl"])'
  <2>1. Uncounted = 1 /\ Uncounted' \in 0 .. 1
    BY DEF Uncounted
  <2>2. stage = "log" => Uncounted' = 0
    BY <1>1 DEF Uncounted, Hand
  <2>3. metrics.total \in Nat /\ read["ssl"] \in Nat
    BY DEF Sane, Typed, Metrics, SourceSet
  <2> QED
    BY <2>1, <2>2, <2>3 DEF Sane
<1> QED
  BY <1>3, <1>4, <1>5, <1>6, <1>7 DEF Sane

LEMMA SslFilterSane ==
  ASSUME Sane, SslFilter
  PROVE  Sane'
<1> DEFINE stage == StageAfterSslFilter("ssl")
<1>1. hand # Nothing /\ hand.stage = "ssl_filter"
  BY DEF SslFilter, At
<1>2. stage = IF setup.ssl_http THEN "sse" ELSE "log"
  BY DEF StageAfterSslFilter
<1>3. hand' = Nothing \/ hand' = [hand EXCEPT !.stage = stage]
  BY DEF SslFilter
<1>4. UNCHANGED <<setup, printed, read, child, runner, held, log, metrics, collector, printout>>
  BY DEF SslFilter, childVars
<1>5. metrics' \in Metrics /\ metrics'.total = metrics.total
  BY <1>4 DEF Sane, Typed
<1>6. hand.lines = <<read["ssl"]>>
  BY <1>1 DEF Sane, Carried
<1> HIDE DEF stage
<1> QED
  BY <1>1, <1>2, <1>3, <1>4, <1>5, <1>6, AnalyzerSane

LEMMA SsePassSane ==
  ASSUME Sane, SsePasses \/ SseSkips
  PROVE  Sane'
<1> DEFINE stage == StageAfterSse
<1>1. hand # Nothing /\ hand.stage = "sse"
  BY DEF SsePasses, SseSkips, At
<1>2. stage = IF HttpFiltering THEN "http_filter" ELSE "log"
  BY DEF StageAfterSse
<1>3. hand' = Nothing \/ hand' = [hand EXCEPT !.stage = stage]
  BY DEF SsePasses, SseSkips
<1>4. UNCHANGED <<setup, printed, read, child, runner, held, log, metrics, collector, printout>>
  BY DEF SsePasses, SseSkips, childVars
<1>5. metrics' \in Metrics /\ metrics'.total = metrics.total
  BY <1>4 DEF Sane, Typed
<1> HIDE DEF stage
<1> QED
  BY <1>1, <1>2, <1>3, <1>4, <1>5, AnalyzerSane

\* The accumulators that a line can go to are its thread's, or a new one.
LEMMA AccumulatorsFit ==
  ASSUME Sane, hand # Nothing, hand.source = "ssl", NEW a \in AccumulatorsFor(InHand)
  PROVE  /\ a \in Accumulator /\ a.thread = InHand.thread /\ a.lines \in Seq(1 .. read["ssl"])
         /\ a \in held \/ a.lines = <<>>
<1> DEFINE new == [thread |-> InHand.thread, named |-> "start" \in InHand.sse, lines |-> <<>>]
<1>1. a = new \/ a \in Open
  BY DEF AccumulatorsFor
<1>2. CASE a = new
  <2>1. InHand \in Lines
    BY InHandRead
  <2>2. new \in Accumulator
    BY <2>1 DEF Accumulator
  <2> QED
    BY <1>2, <2>2
<1>3. CASE a \in Open
  <2>1. a \in held /\ a.thread = InHand.thread
    BY <1>3 DEF Open
  <2> QED
    BY <2>1 DEF Sane, Typed, ReadFirst
<1> QED
  BY <1>1, <1>2, <1>3

\* A line goes to an accumulator, which is held or complete.
LEMMA SseCases ==
  ASSUME Sane, SseAccumulates
  PROVE  \E a \in AccumulatorsFor(InHand) :
           LET lines == Append(a.lines, read["ssl"])
           IN  \/ held' = (held \ {a}) \union {[a EXCEPT !.lines = lines]} /\ hand' = Nothing
              \/ /\ held' = held \ {a}
                 /\ \/ hand' = [hand EXCEPT !.lines = lines, !.stage = StageAfterSse]
                    \/ "delta" \notin Kinds(lines) /\ hand' = Nothing
<1>1. hand.source = "ssl" /\ Last(hand.lines) = read["ssl"]
  BY DEF SseAccumulates, At, Sane, Carried
<1> QED
  BY <1>1 DEF SseAccumulates

LEMMA SseAccumulatesSane ==
  ASSUME Sane, SseAccumulates
  PROVE  Sane'
<1>1. hand # Nothing /\ hand.stage = "sse" /\ hand.source = "ssl"
  BY DEF SseAccumulates, At, Sane, Carried
<1>2. hand \in Hand /\ read["ssl"] \in Nat /\ read["ssl"] > 0
  BY <1>1, InHandRead
<1>3. UNCHANGED <<setup, printed, read, child, runner, log, metrics, collector, printout>>
  BY DEF SseAccumulates, childVars
<1>4. PICK a \in AccumulatorsFor(InHand) :
        LET lines == Append(a.lines, read["ssl"])
        IN  \/ held' = (held \ {a}) \union {[a EXCEPT !.lines = lines]} /\ hand' = Nothing
           \/ /\ held' = held \ {a}
              /\ \/ hand' = [hand EXCEPT !.lines = lines, !.stage = StageAfterSse]
                 \/ "delta" \notin Kinds(lines) /\ hand' = Nothing
  BY SseCases
<1> DEFINE lines == Append(a.lines, read["ssl"])
           b     == [a EXCEPT !.lines = lines]
<1>5. a \in Accumulator /\ a.lines \in Seq(1 .. read["ssl"])
  BY <1>1, AccumulatorsFit
<1>6. lines \in Seq(1 .. read["ssl"]) /\ lines # <<>> /\ Last(lines) = read["ssl"]
  <2>1. read["ssl"] \in 1 .. read["ssl"]
    BY <1>2
  <2> QED
    BY <1>5, <2>1, AppendProperties DEF Last
<1>7. lines \in Seq(Nat)
  BY <1>2, <1>6, SeqMonotonic
<1>8. b \in Accumulator /\ b.lines = lines
  BY <1>5, <1>7 DEF Accumulator
<1>9. /\ held' \subseteq held \union {b}
      /\ hand' = Nothing \/ hand' = [hand EXCEPT !.lines = lines, !.stage = StageAfterSse]
  BY <1>4
<1> HIDE DEF lines, b
<1>10. StageAfterSse = IF HttpFiltering THEN "http_filter" ELSE "log"
  BY DEF StageAfterSse
<1>11. hand' \in Hand
  BY <1>2, <1>7, <1>9, <1>10, NothingTypes DEF Hand, Stages
<1>12. held' \subseteq Accumulator
  BY <1>8, <1>9 DEF Sane, Typed
<1>13. Typed'
  BY <1>3, <1>11, <1>12 DEF Sane, Typed
<1>14. \A r \in SourceSet : Piped(r)'
  BY <1>3 DEF Sane, Piped
<1>15. Carried'
  <2> SUFFICES ASSUME (hand # Nothing)'
               PROVE  Carried'
    BY DEF Carried
  <2>1. hand'.source = "ssl" /\ hand'.lines = lines /\ hand'.stage = StageAfterSse
    BY <1>1, <1>2, <1>9 DEF Hand
  <2>2. Last(hand'.lines) = read["ssl"]
    BY <1>6, <2>1
  <2>3. InHand' = Line("ssl", read["ssl"])
    BY <1>3, <2>1, <2>2 DEF InHand, Line
  <2>4. InHand = Line("ssl", read["ssl"]) /\ InHand.kind = "event"
    BY <1>1, InHandRead DEF Sane, Carried
  <2>5. HttpFiltering' <=> HttpFiltering
    BY <1>3 DEF HttpFiltering
  <2> QED
    BY <1>3, <1>6, <1>10, <2>1, <2>2, <2>3, <2>4, <2>5 DEF Carried
<1>16. ReadFirst'
  <2>1. hand'.lines \in Seq(1 .. read[hand'.source])
    BY <1>1, <1>2, <1>6, <1>9, NothingTypes DEF Hand
  <2>2. \A x \in held' : x.lines \in Seq(1 .. read["ssl"])
    BY <1>6, <1>8, <1>9 DEF Sane, ReadFirst
  <2> QED
    BY <1>3, <2>1, <2>2 DEF ReadFirst
<1>17. (metrics.total + Uncounted <= read["ssl"])'
  <2>1. Uncounted = 1 /\ Uncounted' \in 0 .. 1
    BY <1>1 DEF Uncounted
  <2>2. metrics.total \in Nat
    BY DEF Sane, Typed, Metrics
  <2> QED
    BY <1>2, <1>3, <2>1, <2>2 DEF Sane
<1> QED
  BY <1>3, <1>13, <1>14, <1>15, <1>16, <1>17 DEF Sane

LEMMA CountedTypes ==
  ASSUME metrics \in Metrics, NEW dropped \in BOOLEAN
  PROVE  /\ Counted(dropped) \in Metrics /\ Counted(dropped).total = metrics.total + 1
         /\ Counted(dropped).filtered = IF dropped THEN metrics.filtered + 1 ELSE metrics.filtered
         /\ Counted(dropped).passed = IF dropped THEN metrics.passed ELSE metrics.passed + 1
<1>1. metrics.total + 1 \in Nat /\ metrics.filtered + 1 \in Nat /\ metrics.passed + 1 \in Nat
  BY DEF Metrics
<1>2. CASE dropped
  BY <1>1, <1>2 DEF Counted, Metrics
<1>3. CASE ~dropped
  BY <1>1, <1>3 DEF Counted, Metrics
<1> QED
  BY <1>2, <1>3

LEMMA HttpFilterSane ==
  ASSUME Sane, HttpFilter
  PROVE  Sane'
<1>1. hand # Nothing /\ hand.stage = "http_filter"
  BY DEF HttpFilter, At
<1>2. hand' = Nothing \/ hand' = [hand EXCEPT !.stage = "log"]
  BY DEF HttpFilter
<1>3. UNCHANGED <<setup, printed, read, child, runner, held, log, collector, printout>>
  BY DEF HttpFilter, childVars
<1>4. metrics' \in Metrics /\ metrics'.total = metrics.total + 1
  <2>1. metrics \in Metrics
    BY DEF Sane, Typed
  <2>2. HttpDrops(setup, InHand) \in BOOLEAN
    BY DEF HttpDrops
  <2> QED
    BY <2>1, <2>2, CountedTypes DEF HttpFilter
<1> QED
  BY <1>1, <1>2, <1>3, <1>4, AnalyzerSane

\* What the logger makes of the event in hand.
LEMMA LogCase ==
  ASSUME Sane, Log
  PROVE  \E e \in Entry : e.source = hand.source /\ e.lines = hand.lines /\ log' = Append(log, e)
<1>1. hand \in Hand /\ setup.faults \in BOOLEAN
  BY DEF Sane, Typed, Setup
<1>2. PICK written \in {TRUE, ~setup.faults} :
        log' = Append(log, [source |-> hand.source, lines |-> hand.lines, written |-> written])
  BY DEF Log
<1>3. [source |-> hand.source, lines |-> hand.lines, written |-> written] \in Entry
  BY <1>1 DEF Hand, Entry
<1> QED
  BY <1>2, <1>3

LEMMA LogSane ==
  ASSUME Sane, Log
  PROVE  Sane'
<1>1. hand \in Hand /\ hand # Nothing /\ hand.stage = "log" /\ log \in Seq(Entry) /\ printout.entries \in Nat
  BY DEF Sane, Typed, At, Log
<1>2. hand' = Nothing /\ UNCHANGED <<setup, printed, read, child, runner, held, metrics, collector, printout>>
  BY DEF Log, childVars
<1>3. log' \in Seq(Entry) /\ Len(log') = Len(log) + 1
  BY <1>1, LogCase
<1>4. Typed'
  BY <1>2, <1>3, NothingTypes DEF Sane, Typed
<1>5. \A r \in SourceSet : Piped(r)'
  BY <1>2 DEF Sane, Piped
<1>6. Carried' /\ ReadFirst'
  BY <1>2, NothingTypes DEF Sane, Carried, ReadFirst
<1>7. (metrics.total + Uncounted <= read["ssl"])'
  <2>1. Uncounted = 0 /\ Uncounted' = 0
    BY <1>1, <1>2 DEF Uncounted
  <2> QED
    BY <1>2, <2>1 DEF Sane
<1>8. (printout.entries <= Len(log))'
  <2>1. Len(log) \in Nat /\ printout.entries <= Len(log)
    BY <1>1 DEF Sane
  <2> QED
    BY <1>1, <1>2, <1>3, <2>1
<1> QED
  BY <1>4, <1>5, <1>6, <1>7, <1>8 DEF Sane

\* The positions of some entries of the log are finitely many.
LEMMA EntriesFinite ==
  ASSUME log \in Seq(Entry), NEW s
  PROVE  IsFiniteSet(EntriesOf(s)) /\ Cardinality(EntriesOf(s)) \in 0 .. Len(log)
<1>1. Len(log) \in Nat /\ DOMAIN log = 1 .. Len(log)
  OBVIOUS
<1>2. IsFiniteSet(1 .. Len(log)) /\ Cardinality(1 .. Len(log)) = Len(log)
  BY <1>1, FS_Interval
<1>3. EntriesOf(s) \subseteq 1 .. Len(log)
  BY <1>1 DEF EntriesOf
<1>4. IsFiniteSet(EntriesOf(s)) /\ Cardinality(EntriesOf(s)) <= Len(log)
  BY <1>2, <1>3, FS_Subset
<1>5. Cardinality(EntriesOf(s)) \in Nat
  BY <1>4, FS_CardinalityType
<1> QED
  BY <1>1, <1>4, <1>5

\* The steps of children, runners and signals leave the event in hand and the log alone.
Elsewhere ==
  \/ \E s \in SourceSet : ChildEnds(s) \/ Start(s) \/ StartFails(s) \/ ReadEnds(s)
  \/ StreamEnds \/ Sigint \/ Exit \/ UNCHANGED vars

LEMMA ElsewhereSane ==
  ASSUME Sane, Elsewhere
  PROVE  Sane'
<1>1. UNCHANGED <<setup, printed, read, hand, held, log, metrics>>
  BY DEF Elsewhere, ChildEnds, Start, StartFails, ReadEnds, StreamEnds, Sigint, Exit, childVars, vars
<1>2. child' \in [SourceSet -> {"new", "running", "ended"}]
  BY DEF Elsewhere, ChildEnds, Start, StartFails, ReadEnds, StreamEnds, Sigint, Exit, childVars, vars, Sane, Typed
<1>3. runner' \in [SourceSet -> {"new", "reading", "ended"}]
  BY DEF Elsewhere, ChildEnds, Start, StartFails, ReadEnds, StreamEnds, Sigint, Exit, childVars, vars, Sane, Typed
<1>4. collector' \in {"running", "exiting", "ended"}
  BY DEF Elsewhere, ChildEnds, Start, StartFails, ReadEnds, StreamEnds, Sigint, Exit, childVars, vars, Sane, Typed
<1>5. printout' \in [shown : BOOLEAN, metrics : Metrics, entries : Nat] /\ printout'.entries <= Len(log)
  <2>1. CASE Sigint
    <3>1. Cardinality(EntriesOf("ssl")) \in 0 .. Len(log) /\ Len(log) \in Nat
      BY EntriesFinite DEF Sane, Typed
    <3>2. metrics \in Metrics /\ HttpFiltering \in BOOLEAN
      BY DEF Sane, Typed, HttpFiltering, Setup
    <3> QED
      BY <2>1, <3>1, <3>2 DEF Sigint
  <2>2. CASE ~Sigint
    <3>1. printout' = printout
      BY <2>2 DEF Elsewhere, ChildEnds, Start, StartFails, ReadEnds, StreamEnds, Exit, childVars, vars
    <3> QED
      BY <3>1 DEF Sane, Typed
  <2> QED
    BY <2>1, <2>2
<1>6. Typed'
  BY <1>1, <1>2, <1>3, <1>4, <1>5 DEF Sane, Typed
<1>7. \A r \in SourceSet : Piped(r)'
  BY <1>1 DEF Sane, Piped
<1>8. Carried' /\ ReadFirst' /\ (metrics.total + Uncounted <= read["ssl"])'
  BY <1>1, HandKept
<1>9. (printout.entries <= Len(log))'
  BY <1>1, <1>5
<1> QED
  BY <1>6, <1>7, <1>8, <1>9 DEF Sane

LEMMA StepCases ==
  ASSUME [Next]_vars
  PROVE  \/ \E s \in SourceSet : Prints(s) \/ Read(s)
         \/ SslFilter \/ SsePasses \/ SseSkips \/ SseAccumulates \/ HttpFilter \/ Log \/ Elsewhere
BY DEF Next, Elsewhere

LEMMA StepSane ==
  ASSUME Sane, [Next]_vars
  PROVE  Sane'
BY StepCases, PrintsSane, ReadSane, SslFilterSane, SsePassSane, SseAccumulatesSane, HttpFilterSane, LogSane,
   ElsewhereSane

LEMMA AlwaysSane == Spec => []Sane
<1>1. Sane /\ [Next]_vars => Sane'
  BY StepSane
<1> QED
  BY SaneAtFirst, <1>1, PTL DEF Spec

\* Every variable of the trace command stays within its type: no runner reads
\* more than its child has printed, no pipe holds more than it can, the event in
\* hand is one that has been read, and no more is counted than the sniffer's
\* runner has read (run_trace, BinaryExecutor::get_json_stream, HTTPFilter).
THEOREM CollectorTypes == Spec => []TypeOK
BY AlwaysSane, SaneTypes, PTL

-----------------------------------------------------------------------------
\* The metrics

\* The event in hand is the sniffer's and is to be written next.
Passing == IF hand # Nothing /\ hand.source = "ssl" /\ hand.stage = "log" THEN 1 ELSE 0

Accounts ==
  /\ metrics.total = metrics.filtered + metrics.passed
  /\ HttpFiltering => metrics.passed = Cardinality(EntriesOf("ssl")) + Passing

\* What a new entry adds to the entries of each source.
LEMMA EntryAdded ==
  ASSUME log \in Seq(Entry), NEW e \in Entry, log' = Append(log, e), NEW s \in SourceSet
  PROVE  EntriesOf(s)' = IF e.source = s THEN EntriesOf(s) \union {Len(log) + 1} ELSE EntriesOf(s)
<1>1. Len(log) \in Nat /\ DOMAIN log = 1 .. Len(log)
  OBVIOUS
<1>2. DOMAIN log' = 1 .. Len(log) + 1
  OBVIOUS
<1>3. log'[Len(log) + 1] = e
  OBVIOUS
<1>4. \A k \in 1 .. Len(log) : log'[k] = log[k]
  OBVIOUS
<1>5. EntriesOf(s)' = {k \in 1 .. Len(log) + 1 : log'[k].source = s}
  BY <1>2 DEF EntriesOf
<1>6. EntriesOf(s) = {k \in 1 .. Len(log) : log[k].source = s}
  BY <1>1 DEF EntriesOf
<1> QED
  BY <1>1, <1>3, <1>4, <1>5, <1>6

LEMMA EntryCounted ==
  ASSUME log \in Seq(Entry), NEW e \in Entry, log' = Append(log, e)
  PROVE  Cardinality(EntriesOf("ssl"))' =
           IF e.source = "ssl" THEN Cardinality(EntriesOf("ssl")) + 1 ELSE Cardinality(EntriesOf("ssl"))
<1>1. EntriesOf("ssl")' = IF e.source = "ssl" THEN EntriesOf("ssl") \union {Len(log) + 1} ELSE EntriesOf("ssl")
  BY EntryAdded DEF SourceSet
<1>2. IsFiniteSet(EntriesOf("ssl"))
  BY EntriesFinite
<1>3. Len(log) + 1 \notin EntriesOf("ssl")
  BY DEF EntriesOf
<1>4. Cardinality(EntriesOf("ssl") \union {Len(log) + 1}) = Cardinality(EntriesOf("ssl")) + 1
  BY <1>2, <1>3, FS_AddElement
<1> QED
  BY <1>1, <1>4

LEMMA AccountsAtFirst == Init => Accounts /\ MetricsAccount
<1> SUFFICES ASSUME Init
             PROVE  Accounts /\ MetricsAccount
  OBVIOUS
<1>1. EntriesOf("ssl") = {}
  BY DEF Init, EntriesOf
<1>2. Cardinality(EntriesOf("ssl")) = 0
  BY <1>1, FS_EmptySet
<1>3. Passing = 0
  BY DEF Init, Passing
<1> QED
  BY <1>2, <1>3 DEF Init, NoMetrics, Accounts, MetricsAccount

LEMMA StepAccounts ==
  ASSUME Sane, Accounts, [Next]_vars
  PROVE  Accounts'
<1>1. /\ metrics \in Metrics /\ hand \in Hand /\ log \in Seq(Entry)
      /\ metrics.total \in Nat /\ metrics.filtered \in Nat /\ metrics.passed \in Nat
  BY DEF Sane, Typed, Metrics
<1>2. Cardinality(EntriesOf("ssl")) \in Nat
  BY <1>1, EntriesFinite
<1>3. setup' = setup /\ (HttpFiltering' <=> HttpFiltering)
  BY DEF Next, Prints, ChildEnds, Start, StartFails, Read, ReadEnds, SslFilter, SsePasses, SseSkips, SseAccumulates,
         HttpFilter, Log, StreamEnds, Sigint, Exit, vars, HttpFiltering
<1>4. ASSUME UNCHANGED <<log, metrics>>, HttpFiltering => Passing' = Passing
      PROVE  Accounts'
  <2>1. EntriesOf("ssl")' = EntriesOf("ssl")
    BY <1>4 DEF EntriesOf
  <2> QED
    BY <1>3, <1>4, <2>1 DEF Accounts
<1>5. CASE (\E s \in SourceSet : Prints(s)) \/ Elsewhere
  <2>1. UNCHANGED <<log, metrics, hand>>
    BY <1>5 DEF Prints, Elsewhere, ChildEnds, Start, StartFails, ReadEnds, StreamEnds, Sigint, Exit, childVars, vars
  <2>2. Passing' = Passing
    BY <2>1 DEF Passing
  <2> QED
    BY <1>4, <2>1, <2>2
<1>6. ASSUME NEW s \in SourceSet, Read(s)
      PROVE  Accounts'
  <2>1. UNCHANGED <<log, metrics>> /\ hand = Nothing
    BY <1>6 DEF Read, Asked
  <2>2. hand' = [source |-> s, lines |-> <<read'[s]>>, stage |-> FirstStage(s)] \/ hand' = Nothing
    BY <1>6 DEF Read
  <2>3. HttpFiltering => Passing' = 0
    BY <2>2 DEF Passing, FirstStage, StageAfterSslFilter, HttpFiltering
  <2>4. Passing = 0
    BY <2>1 DEF Passing
  <2> QED
    BY <1>4, <2>1, <2>3, <2>4
<1>7. CASE SslFilter \/ SsePasses \/ SseSkips \/ SseAccumulates
  <2>1. UNCHANGED <<log, metrics>> /\ hand # Nothing /\ hand.stage # "log"
    BY <1>7 DEF SslFilter, SsePasses, SseSkips, SseAccumulates, At
  <2>2. /\ StageAfterSse = IF HttpFiltering THEN "http_filter" ELSE "log"
        /\ HttpFiltering => StageAfterSslFilter("ssl") = "sse"
    BY DEF StageAfterSse, StageAfterSslFilter, HttpFiltering
  <2>3. \/ hand' = Nothing \/ hand' = [hand EXCEPT !.stage = StageAfterSslFilter("ssl")]
        \/ hand' = [hand EXCEPT !.stage = StageAfterSse]
        \/ \E lines : hand' = [hand EXCEPT !.lines = lines, !.stage = StageAfterSse]
    <3>1. CASE SseAccumulates
      BY <3>1, SseCases
    <3> QED
      BY <1>7, <3>1 DEF SslFilter, SsePasses, SseSkips
  <2>4. HttpFiltering => Passing' = 0
    BY <1>1, <2>2, <2>3 DEF Passing, Hand
  <2>5. Passing = 0
    BY <2>1 DEF Passing
  <2> QED
    BY <1>4, <2>1, <2>4, <2>5
<1>8. CASE HttpFilter
  <2> DEFINE d == HttpDrops(setup, InHand)
  <2>1. log' = log /\ hand # Nothing /\ hand.stage = "http_filter" /\ metrics' = Counted(d)
    BY <1>8 DEF HttpFilter, At
  <2>2. hand' = IF d THEN Nothing ELSE [hand EXCEPT !.stage = "log"]
    BY <1>8 DEF HttpFilter
  <2>3. d \in BOOLEAN
    BY DEF HttpDrops
  <2>4. hand.source = "ssl" /\ HttpFiltering
    BY <2>1 DEF Sane, Carried
  <2>5. hand.lines # <<>>
    BY <2>1 DEF Sane, Carried
  <2> HIDE DEF d
  <2>6. Passing = 0 /\ Passing' = IF d THEN 0 ELSE 1
    <3>1. Passing = 0
      BY <2>1 DEF Passing
    <3>2. CASE d
      <4>1. hand' = Nothing
        BY <2>2, <3>2
      <4>2. Passing' = 0
        BY <4>1 DEF Passing
      <4> QED
        BY <3>1, <3>2, <4>2
    <3>3. CASE ~d
      <4>1. hand'.source = "ssl" /\ hand'.stage = "log" /\ hand'.lines = hand.lines
        BY <1>1, <2>2, <2>4, <3>3 DEF Hand
      <4>2. hand' # Nothing
        BY <2>5, <4>1 DEF Nothing
      <4>3. Passing' = 1
        BY <4>1, <4>2 DEF Passing
      <4> QED
        BY <3>1, <3>3, <4>3
    <3> QED
      BY <3>1, <3>2, <3>3
  <2>7. EntriesOf("ssl")' = EntriesOf("ssl")
    BY <2>1 DEF EntriesOf
  <2>8. /\ metrics'.total = metrics.total + 1
        /\ metrics'.filtered = IF d THEN metrics.filtered + 1 ELSE metrics.filtered
        /\ metrics'.passed = IF d THEN metrics.passed ELSE metrics.passed + 1
    BY <1>1, <2>1, <2>3, CountedTypes
  <2> QED
    BY <1>1, <1>2, <1>3, <2>3, <2>4, <2>6, <2>7, <2>8 DEF Accounts
<1>9. CASE Log
  <2>1. hand # Nothing /\ hand.stage = "log" /\ hand' = Nothing /\ metrics' = metrics
    BY <1>9 DEF Log, At
  <2>2. PICK e \in Entry : e.source = hand.source /\ e.lines = hand.lines /\ log' = Append(log, e)
    BY <1>9, LogCase
  <2>3. Cardinality(EntriesOf("ssl"))' =
          IF hand.source = "ssl" THEN Cardinality(EntriesOf("ssl")) + 1 ELSE Cardinality(EntriesOf("ssl"))
    BY <1>1, <2>2, EntryCounted
  <2>4. Passing' = 0 /\ Passing = IF hand.source = "ssl" THEN 1 ELSE 0
    BY <2>1 DEF Passing
  <2> QED
    BY <1>2, <1>3, <2>1, <2>3, <2>4 DEF Accounts
<1> QED
  BY <1>5, <1>6, <1>7, <1>8, <1>9, StepCases

LEMMA StepPrintout ==
  ASSUME Sane, Accounts, MetricsAccount, [Next]_vars
  PROVE  MetricsAccount'
<1>1. CASE Sigint
  <2>1. printout' = [shown |-> HttpFiltering, metrics |-> metrics, entries |-> Cardinality(EntriesOf("ssl"))]
    BY <1>1 DEF Sigint
  <2>2. Cardinality(EntriesOf("ssl")) \in Nat /\ Passing \in 0 .. 1
    BY EntriesFinite DEF Sane, Typed, Passing
  <2> QED
    BY <2>1, <2>2 DEF Accounts, MetricsAccount
<1>2. CASE ~Sigint
  <2>1. printout' = printout
    BY <1>2 DEF Next, Prints, ChildEnds, Start, StartFails, Read, ReadEnds, SslFilter, SsePasses, SseSkips, SseAccumulates,
                HttpFilter, Log, StreamEnds, Exit, childVars, vars
  <2> QED
    BY <2>1 DEF MetricsAccount
<1> QED
  BY <1>1, <1>2

\* The metrics that the SIGINT handler prints add up, and count as passed the
\* sniffer's events that have come to the logger, with at most one more that is on
\* its way there (print_http_filter_metrics, HTTPFilter and FileLogger).
THEOREM MetricsAddUp == Spec => []MetricsAccount
<1>1. Sane /\ (Accounts /\ MetricsAccount) /\ [Next]_vars => (Accounts /\ MetricsAccount)'
  BY StepAccounts, StepPrintout
<1> QED
  BY AccountsAtFirst, AlwaysSane, <1>1, PTL DEF Spec

-----------------------------------------------------------------------------
\* The log

\* The lines in hand are of one thread and in order; those that were held before
\* are wanted, and the one that was read last is, as far as the filters it has
\* passed are concerned.
HandMeant ==
  hand # Nothing =>
    /\ Ascends(hand.lines) /\ OneThread(hand.source, hand.lines)
    /\ \A i \in ToSet(hand.lines) \ {read[hand.source]} : Wanted(hand.source, i)
    /\ hand.source = "ssl" /\ hand.stage # "ssl_filter" => InHand \notin MeantBy(setup.ssl_filter)
    /\ hand.stage = "log" => Wanted(hand.source, read[hand.source])

\* An accumulator is of lines of its thread, in order, and of no other's.
HeldMeant ==
  /\ \A a \in held :
       /\ Ascends(a.lines)
       /\ \A i \in ToSet(a.lines) : Line("ssl", i).sse # {} /\ Line("ssl", i).thread = a.thread
  /\ \A a, b \in held : a # b => ToSet(a.lines) \intersect ToSet(b.lines) = {}

WantedOf(s) == {i \in 1 .. read[s] : Wanted(s, i)}
KeptOf(s)   == {i \in 1 .. read[s] : Kept(s, i)}

\* The entries of a source are of lines in order, and follow one another.
Entries(s) ==
  /\ \A k \in EntriesOf(s) : log[k].lines # <<>> /\ Ascends(log[k].lines) /\ OneThread(s, log[k].lines)
  /\ \A j, k \in EntriesOf(s) :
       j < k => /\ Last(log[j].lines) < Last(log[k].lines)
                /\ ToSet(log[j].lines) \intersect ToSet(log[k].lines) = {}

\* Where the lines of one source are.
Places(s) ==
  /\ Logged(s) \union HeldOf(s) \subseteq WantedOf(s)
  /\ KeptOf(s) \subseteq Logged(s) \union HeldOf(s) \union HandOf(s)
  /\ Logged(s) \intersect HeldOf(s) = {}
  /\ (Logged(s) \union HeldOf(s)) \intersect HandOf(s) = {}

Meant ==
  /\ setup \in Setups
  /\ HandMeant
  /\ HeldMeant
  /\ \A s \in SourceSet : Entries(s) /\ Places(s)

LEMMA MeantLogs == Meant => LoggedAsMeant
BY DEF Meant, Entries, Places, WantedOf, KeptOf, LoggedAsMeant

LEMMA MeantAtFirst == Init => Meant
<1> SUFFICES ASSUME Init
             PROVE  Meant
  OBVIOUS
<1>1. HandMeant /\ HeldMeant
  BY DEF Init, HandMeant, HeldMeant
<1>2. ASSUME NEW s \in SourceSet
      PROVE  Entries(s) /\ Places(s)
  <2>1. EntriesOf(s) = {} /\ read[s] = 0
    BY DEF Init, EntriesOf
  <2>2. Logged(s) = {} /\ HeldOf(s) = {}
    BY <2>1 DEF Init, Logged, HeldOf
  <2>3. WantedOf(s) = {} /\ KeptOf(s) = {}
    BY <2>1 DEF WantedOf, KeptOf
  <2> QED
    BY <2>1, <2>2, <2>3 DEF Entries, Places
<1> QED
  BY <1>1, <1>2 DEF Init, Meant

\* No pattern means nothing.
LEMMA NoPattern == MeantBy(<<>>) = {}
<1>1. 1 .. Len(<<>>) = {}
  OBVIOUS
<1> QED
  BY <1>1 DEF MeantBy

\* The event in hand is one of the lines that its filters are meant for.
LEMMA HandIsALine ==
  ASSUME Sane, FiltersAsMeant(setup), hand # Nothing, hand.source = "ssl"
  PROVE  /\ SslDrops(setup, InHand) <=> InHand \in MeantBy(setup.ssl_filter)
         /\ InHand.sse = {} /\ InHand.message_type # "none" =>
              (HttpDrops(setup, InHand) <=> InHand \in MeantBy(setup.http_filter))
<1>1. InHand \in ToSet(setup.script["ssl"])
  BY InHandRead
<1>2. InHand.kind = "event"
  BY DEF Sane, Carried
<1> QED
  BY <1>1, <1>2 DEF FiltersAsMeant

\* What has been said of lines holds as long as the setup is the same, and what is
\* said of the log as long as that is.
LEMMA SaidOfLines ==
  ASSUME setup' = setup
  PROVE  /\ \A s, i : (Wanted(s, i)' <=> Wanted(s, i)) /\ (Kept(s, i)' <=> Kept(s, i))
         /\ \A s, lines : OneThread(s, lines)' <=> OneThread(s, lines)
         /\ \A lines : Kinds(lines)' = Kinds(lines)
<1>1. \A s, i : Line(s, i)' = Line(s, i)
  BY DEF Line
<1>2. \A s, i : Wanted(s, i)' <=> Wanted(s, i)
  BY <1>1 DEF Wanted
<1>3. \A s, i : Kept(s, i)' <=> Kept(s, i)
  BY <1>1, <1>2 DEF Kept
<1>4. \A s, lines : OneThread(s, lines)' <=> OneThread(s, lines)
  BY <1>1 DEF OneThread
<1>5. \A lines : Kinds(lines)' = Kinds(lines)
  BY <1>1 DEF Kinds
<1> QED
  BY <1>2, <1>3, <1>4, <1>5

LEMMA SaidOfLog ==
  ASSUME UNCHANGED <<setup, log>>, NEW s
  PROVE  Logged(s)' = Logged(s) /\ (Entries(s) => Entries(s)')
<1>1. EntriesOf(s)' = EntriesOf(s)
  BY DEF EntriesOf
<1>2. Logged(s)' = Logged(s)
  BY <1>1 DEF Logged
<1>3. Entries(s) => Entries(s)'
  BY <1>1, SaidOfLines DEF Entries, Ascends
<1> QED
  BY <1>2, <1>3

\* Lines move from hand to an accumulator and back, or are dropped.
LEMMA PlacesMoved ==
  ASSUME NEW s \in SourceSet, Places(s), UNCHANGED <<setup, read, log>>,
         HeldOf(s)' \union HandOf(s)' \subseteq HeldOf(s) \union HandOf(s),
         HeldOf(s)' \intersect HandOf(s)' = {},
         HeldOf(s)' \subseteq WantedOf(s),
         (HeldOf(s) \union HandOf(s)) \intersect KeptOf(s) \subseteq HeldOf(s)' \union HandOf(s)'
  PROVE  Places(s)'
<1>1. Logged(s)' = Logged(s)
  BY SaidOfLog
<1>2. WantedOf(s)' = WantedOf(s) /\ KeptOf(s)' = KeptOf(s)
  BY SaidOfLines DEF WantedOf, KeptOf
<1> QED
  BY <1>1, <1>2 DEF Places

\* The next line of a source has been read.
LEMMA PlacesRead ==
  ASSUME NEW s \in SourceSet, Places(s), read[s] \in Nat, UNCHANGED <<setup, held, log>>, read'[s] = read[s] + 1,
         HandOf(s) = {}, HandOf(s)' \subseteq {read'[s]}, Kept(s, read'[s]) => HandOf(s)' = {read'[s]}
  PROVE  Places(s)'
<1>1. Logged(s)' = Logged(s) /\ HeldOf(s)' = HeldOf(s)
  BY SaidOfLog DEF HeldOf
<1>2. 1 .. read'[s] = (1 .. read[s]) \union {read'[s]} /\ read'[s] \notin 1 .. read[s]
  OBVIOUS
<1>3. WantedOf(s) \subseteq WantedOf(s)' /\ read'[s] \notin WantedOf(s)
  BY <1>2, SaidOfLines DEF WantedOf
<1>4. KeptOf(s)' \subseteq KeptOf(s) \union {read'[s]} /\ (~Kept(s, read'[s]) => KeptOf(s)' = KeptOf(s))
  BY <1>2, SaidOfLines DEF KeptOf
<1> QED
  BY <1>1, <1>3, <1>4 DEF Places

\* A source whose lines are neither in hand nor held.
LEMMA PlacesOther ==
  ASSUME Sane, NEW s \in SourceSet, s # "ssl", hand.source = "ssl", hand'.source = "ssl",
         UNCHANGED <<setup, read, log>>, Places(s)
  PROVE  Places(s)'
<1>1. HandOf(s) = {} /\ HeldOf(s) = {} /\ HandOf(s)' = {} /\ HeldOf(s)' = {}
  BY DEF HandOf, HeldOf
<1> QED
  BY <1>1, PlacesMoved

LEMMA HandPlaces ==
  /\ hand = Nothing => \A s : HandOf(s) = {}
  /\ hand' = Nothing => \A s : HandOf(s)' = {}
  /\ \A n : ToSet(<<n>>) = {n}
  /\ \A n : Ascends(<<n>>)
  /\ \A s, n : OneThread(s, <<n>>)
<1>1. ToSet(<<>>) = {}
  BY DEF ToSet
<1>2. \A n : ToSet(<<n>>) = {n}
  BY DEF ToSet
<1> QED
  BY <1>1, <1>2 DEF HandOf, Nothing, Ascends, OneThread

\* What the event in hand has to be like after a step.
LEMMA HandMeantNext ==
  ASSUME setup' = setup, NEW s, NEW lines, NEW stage, NEW n,
         hand'.source = s, hand'.lines = lines, hand'.stage = stage, read'[s] = n,
         Ascends(lines), OneThread(s, lines), \A i \in ToSet(lines) \ {n} : Wanted(s, i),
         s = "ssl" /\ stage # "ssl_filter" => Line(s, Last(lines)) \notin MeantBy(setup.ssl_filter),
         stage = "log" => Wanted(s, n)
  PROVE  HandMeant'
<1>1. Ascends(hand.lines)'
  BY DEF Ascends
<1>2. OneThread(hand.source, hand.lines)'
  BY DEF OneThread, Line
<1>3. (\A i \in ToSet(hand.lines) \ {read[hand.source]} : Wanted(hand.source, i))'
  BY DEF Wanted, Line
<1>4. InHand' = Line(s, Last(lines))
  BY DEF InHand, Line
<1>5. (hand.stage = "log" => Wanted(hand.source, read[hand.source]))'
  BY DEF Wanted, Line
<1> QED
  BY <1>1, <1>2, <1>3, <1>4, <1>5 DEF HandMeant

LEMMA ReadMeant ==
  ASSUME Sane, Meant, NEW s \in SourceSet, Read(s)
  PROVE  Meant'
<1>1. hand = Nothing /\ UNCHANGED <<setup, held, log>> /\ read \in [SourceSet -> Nat]
  BY DEF Read, Asked, Sane, Typed
<1>2. read'[s] = read[s] + 1 /\ \A r \in SourceSet \ {s} : read'[r] = read[r]
  BY <1>1 DEF Read
<1>3. \A r : HandOf(r) = {}
  BY <1>1, HandPlaces
<1>4. hand' = Nothing \/ hand' = [source |-> s, lines |-> <<read'[s]>>, stage |-> FirstStage(s)]
  BY DEF Read
<1>5. \A r \in SourceSet \ {s} : HandOf(r)' = {}
  BY <1>4, HandPlaces DEF HandOf
<1>6. HandOf(s)' \subseteq {read'[s]} /\ (Line(s, read'[s]).kind = "event" => HandOf(s)' = {read'[s]})
  <2>1. CASE hand' = Nothing
    <3>1. HandOf(s)' = {}
      BY <2>1, HandPlaces
    <3>2. hand' # [source |-> s, lines |-> <<read'[s]>>, stage |-> FirstStage(s)]
      BY <2>1 DEF Nothing
    <3> QED
      BY <3>1, <3>2 DEF Read
  <2>2. CASE hand' = [source |-> s, lines |-> <<read'[s]>>, stage |-> FirstStage(s)]
    BY <2>2, HandPlaces DEF HandOf
  <2> QED
    BY <1>4, <2>1, <2>2
<1>7. Places(s)'
  <2>1. Kept(s, read'[s]) => HandOf(s)' = {read'[s]}
    BY <1>6 DEF Kept, Wanted
  <2>2. Places(s) /\ read[s] \in Nat
    BY <1>1 DEF Meant
  <2> QED
    BY <1>1, <1>2, <1>3, <1>6, <2>1, <2>2, PlacesRead
<1>8. ASSUME NEW r \in SourceSet, r # s
      PROVE  Places(r)'
  <2>1. Logged(r)' = Logged(r) /\ HeldOf(r)' = HeldOf(r)
    BY <1>1, SaidOfLog DEF HeldOf
  <2>2. read'[r] = read[r]
    BY <1>2, <1>8
  <2>3. WantedOf(r)' = WantedOf(r) /\ KeptOf(r)' = KeptOf(r)
    BY <1>1, <2>2, SaidOfLines DEF WantedOf, KeptOf
  <2> QED
    BY <1>3, <1>5, <1>8, <2>1, <2>3 DEF Meant, Places
<1>9. \A r \in SourceSet : Entries(r)'
  BY <1>1, SaidOfLog DEF Meant
<1>10. HeldMeant'
  BY <1>1 DEF Meant, HeldMeant, Line, Ascends
<1>11. HandMeant'
  <2> SUFFICES ASSUME (hand # Nothing)'
               PROVE  HandMeant'
    BY DEF HandMeant
  <2>1. hand'.source = s /\ hand'.lines = <<read'[s]>> /\ hand'.stage = FirstStage(s)
    BY <1>4
  <2>2. Line(s, read'[s]).kind = "event"
    BY DEF Read
  <2>3. ToSet(hand'.lines) = {read'[s]} /\ Ascends(hand'.lines) /\ \A r : OneThread(r, hand'.lines)
    BY <2>1, HandPlaces
  <2>4. s = "ssl" /\ FirstStage(s) # "ssl_filter" => setup.ssl_filter = <<>>
    BY DEF FirstStage, SslFiltering
  <2>5. s = "ssl" /\ FirstStage(s) = "log" => ~setup.ssl_http
    BY DEF FirstStage, StageAfterSslFilter
  <2>6. s = "ssl" /\ FirstStage(s) # "ssl_filter" => InHand' \notin MeantBy(setup.ssl_filter)
    BY <2>4, NoPattern
  <2>7. FirstStage(s) = "log" => Wanted(s, read'[s])
    BY <2>2, <2>4, <2>5, NoPattern DEF Wanted
  <2>8. Last(<<read'[s]>>) = read'[s]
    BY DEF Last
  <2>9. InHand' = Line(s, read'[s])
    BY <1>1, <2>1, <2>8 DEF InHand, Line
  <2> QED
    BY <1>1, <2>1, <2>3, <2>6, <2>7, <2>8, <2>9, HandMeantNext
<1> QED
  BY <1>1, <1>7, <1>8, <1>9, <1>10, <1>11 DEF Meant

LEMMA HeldMeantKept ==
  ASSUME HeldMeant, UNCHANGED <<setup, held>>
  PROVE  HeldMeant'
BY DEF HeldMeant, Line, Ascends

\* The event in hand is dropped.
LEMMA HandDropped ==
  ASSUME Sane, Meant, hand # Nothing, hand.source = "ssl", UNCHANGED <<setup, read, held, log>>, hand' = Nothing,
         \A i \in ToSet(hand.lines) : ~Kept("ssl", i)
  PROVE  Meant'
<1>1. hand'.source = "ssl" /\ \A s : HandOf(s)' = {}
  BY HandPlaces DEF Nothing
<1>2. \A s \in SourceSet : Entries(s)'
  BY SaidOfLog DEF Meant
<1>3. ASSUME NEW s \in SourceSet
      PROVE  Places(s)'
  <2>1. Places(s)
    BY DEF Meant
  <2>2. CASE s # "ssl"
    BY <1>1, <2>1, <2>2, PlacesOther
  <2>3. CASE s = "ssl"
    <3>1. HeldOf(s)' = HeldOf(s) /\ HandOf(s) = ToSet(hand.lines)
      BY <2>3 DEF HeldOf, HandOf
    <3>2. HandOf(s) \intersect KeptOf(s) = {}
      BY <2>3, <3>1 DEF KeptOf
    <3>3. HeldOf(s) \subseteq WantedOf(s)
      BY <2>1 DEF Places
    <3> QED
      BY <1>1, <2>1, <3>1, <3>2, <3>3, PlacesMoved
  <2> QED
    BY <2>2, <2>3
<1>4. HeldMeant'
  BY HeldMeantKept DEF Meant
<1> QED
  BY <1>2, <1>3, <1>4 DEF Meant, HandMeant

\* The event in hand is passed on as it is.
LEMMA HandPassed ==
  ASSUME Sane, Meant, hand # Nothing, hand.source = "ssl", UNCHANGED <<setup, read, held, log>>, NEW stage,
         hand' = [hand EXCEPT !.stage = stage], InHand \notin MeantBy(setup.ssl_filter),
         stage = "log" => Wanted("ssl", read["ssl"])
  PROVE  Meant'
<1>1. hand \in Hand
  BY InHandRead
<1>2. hand'.source = hand.source /\ hand'.lines = hand.lines /\ hand'.stage = stage
  BY <1>1 DEF Hand
<1>3. \A s \in SourceSet : Entries(s)'
  BY SaidOfLog DEF Meant
<1>4. ASSUME NEW s \in SourceSet
      PROVE  Places(s)'
  <2>1. HeldOf(s)' = HeldOf(s) /\ HandOf(s)' = HandOf(s)
    BY <1>2 DEF HeldOf, HandOf
  <2>2. Places(s)
    BY DEF Meant
  <2>3. HeldOf(s) \intersect HandOf(s) = {} /\ HeldOf(s) \subseteq WantedOf(s)
    BY <2>2 DEF Places
  <2> QED
    BY <2>1, <2>2, <2>3, PlacesMoved
<1>5. HeldMeant'
  BY HeldMeantKept DEF Meant
<1>6. HandMeant'
  <2>1. /\ Ascends(hand.lines) /\ OneThread("ssl", hand.lines)
        /\ \A i \in ToSet(hand.lines) \ {read["ssl"]} : Wanted("ssl", i)
    BY DEF Meant, HandMeant
  <2>2. Line("ssl", Last(hand.lines)) \notin MeantBy(setup.ssl_filter)
    BY DEF InHand
  <2> QED
    BY <1>2, <2>1, <2>2, HandMeantNext
<1> QED
  BY <1>3, <1>4, <1>5, <1>6 DEF Meant

LEMMA SslFilterMeant ==
  ASSUME Sane, Meant, FiltersAsMeant(setup), SslFilter
  PROVE  Meant'
<1>1. hand # Nothing /\ hand.stage = "ssl_filter" /\ UNCHANGED <<setup, read, held, log>>
  BY DEF SslFilter, At
<1>2. hand.source = "ssl" /\ hand.lines = <<read["ssl"]>>
  BY <1>1 DEF Sane, Carried
<1>3. InHand = Line("ssl", read["ssl"]) /\ InHand.kind = "event"
  BY <1>1, <1>2, InHandRead DEF Sane, Carried
<1>4. SslDrops(setup, InHand) <=> InHand \in MeantBy(setup.ssl_filter)
  BY <1>1, <1>2, HandIsALine
<1>5. CASE SslDrops(setup, InHand)
  <2>1. hand' = Nothing
    BY <1>5 DEF SslFilter
  <2>2. ToSet(hand.lines) = {read["ssl"]}
    BY <1>2, HandPlaces
  <2>3. ~Kept("ssl", read["ssl"])
    BY <1>3, <1>4, <1>5 DEF Kept, Wanted
  <2> QED
    BY <1>1, <1>2, <2>1, <2>2, <2>3, HandDropped
<1>6. CASE ~SslDrops(setup, InHand)
  <2> DEFINE stage == StageAfterSslFilter("ssl")
  <2>1. hand' = [hand EXCEPT !.stage = stage]
    BY <1>6 DEF SslFilter
  <2>2. stage = "log" => ~setup.ssl_http
    BY DEF StageAfterSslFilter
  <2> HIDE DEF stage
  <2>3. InHand \notin MeantBy(setup.ssl_filter)
    BY <1>4, <1>6
  <2>4. stage = "log" => Wanted("ssl", read["ssl"])
    BY <1>3, <2>2, <2>3 DEF Wanted
  <2> QED
    BY <1>1, <1>2, <2>1, <2>3, <2>4, HandPassed
<1> QED
  BY <1>5, <1>6

LEMMA SsePassMeant ==
  ASSUME Sane, Meant, SsePasses \/ SseSkips
  PROVE  Meant'
<1>1. hand # Nothing /\ hand.stage = "sse" /\ UNCHANGED <<setup, read, held, log>>
  BY DEF SsePasses, SseSkips, At
<1>2. hand.source = "ssl" /\ hand.lines = <<read["ssl"]>> /\ setup.ssl_http
  BY <1>1 DEF Sane, Carried
<1>3. InHand = Line("ssl", read["ssl"]) /\ InHand.kind = "event"
  BY <1>1, <1>2, InHandRead DEF Sane, Carried
<1>4. InHand \notin MeantBy(setup.ssl_filter)
  BY <1>1, <1>2 DEF Meant, HandMeant
<1>5. CASE SsePasses
  <2> DEFINE stage == StageAfterSse
  <2>1. hand' = [hand EXCEPT !.stage = stage]
    BY <1>5 DEF SsePasses
  <2>2. stage = "log" => setup.http_filter = <<>>
    BY <1>2 DEF StageAfterSse, HttpFiltering
  <2> HIDE DEF stage
  <2>3. stage = "log" => Wanted("ssl", read["ssl"])
    BY <1>3, <1>4, <2>2, NoPattern DEF Wanted
  <2> QED
    BY <1>1, <1>2, <1>4, <2>1, <2>3, HandPassed
<1>6. CASE SseSkips
  <2>1. hand' = Nothing /\ InHand.sse = {"meta"}
    BY <1>6 DEF SseSkips, Skipped
  <2>2. ToSet(hand.lines) = {read["ssl"]}
    BY <1>2, HandPlaces
  <2>3. ~Kept("ssl", read["ssl"])
    BY <1>2, <1>3, <2>1 DEF Kept
  <2> QED
    BY <1>1, <1>2, <2>1, <2>2, <2>3, HandDropped
<1> QED
  BY <1>5, <1>6

LEMMA HttpFilterMeant ==
  ASSUME Sane, Meant, FiltersAsMeant(setup), HttpFilter
  PROVE  Meant'
<1>1. hand # Nothing /\ hand.stage = "http_filter" /\ UNCHANGED <<setup, read, held, log>>
  BY DEF HttpFilter, At
<1>2. hand.source = "ssl" /\ HttpFiltering
  BY <1>1 DEF Sane, Carried
<1>3. InHand = Line("ssl", read["ssl"]) /\ InHand.kind = "event"
  BY <1>1, <1>2, InHandRead DEF Sane, Carried
<1>4. InHand \notin MeantBy(setup.ssl_filter)
  BY <1>1, <1>2 DEF Meant, HandMeant
<1>5. InHand.sse = {} /\ InHand.message_type # "none" =>
        (HttpDrops(setup, InHand) <=> InHand \in MeantBy(setup.http_filter))
  BY <1>1, <1>2, HandIsALine
<1>6. CASE HttpDrops(setup, InHand)
  <2>1. hand' = Nothing
    BY <1>6 DEF HttpFilter
  <2>2. InHand.sse = {} /\ InHand.message_type # "none" /\ setup.ssl_http
    BY <1>2, <1>6 DEF HttpDrops, HttpFiltering
  <2>3. ~Kept("ssl", read["ssl"])
    BY <1>3, <1>5, <1>6, <2>2 DEF Kept, Wanted
  <2>4. ToSet(hand.lines) = {read["ssl"]}
    <3>1. hand.lines # <<>> /\ Last(hand.lines) = read["ssl"] /\ hand.lines \in Seq(Nat)
      BY <1>1, <1>2, InHandRead DEF Sane, Carried, Hand
    <3>2. OneThread("ssl", hand.lines)
      BY <1>1, <1>2 DEF Meant, HandMeant
    <3>3. Len(hand.lines) \in DOMAIN hand.lines /\ Len(hand.lines) \in Nat /\ Len(hand.lines) > 0
      BY <3>1
    <3>4. read["ssl"] \in ToSet(hand.lines)
      BY <3>1, <3>3 DEF ToSet, Last
    <3>5. ~(Len(hand.lines) > 1)
      BY <1>3, <2>2, <3>2, <3>4 DEF OneThread
    <3>6. DOMAIN hand.lines = {1} /\ hand.lines[1] = read["ssl"]
      BY <3>1, <3>3, <3>5 DEF Last
    <3> QED
      BY <3>6 DEF ToSet
  <2> QED
    BY <1>1, <1>2, <2>1, <2>3, <2>4, HandDropped
<1>7. CASE ~HttpDrops(setup, InHand)
  <2>1. hand' = [hand EXCEPT !.stage = "log"]
    BY <1>7 DEF HttpFilter
  <2>2. Wanted("ssl", read["ssl"])
    BY <1>3, <1>4, <1>5, <1>7 DEF Wanted
  <2> QED
    BY <1>1, <1>2, <1>4, <2>1, <2>2, HandPassed
<1> QED
  BY <1>6, <1>7

\* A line comes after those of an accumulator.
LEMMA Appended ==
  ASSUME NEW s \in Seq(Nat), NEW n \in Nat, \A i \in ToSet(s) : i < n
  PROVE  ToSet(Append(s, n)) = ToSet(s) \union {n} /\ (Ascends(s) => Ascends(Append(s, n)))
<1> DEFINE t == Append(s, n)
<1>1. /\ t \in Seq(Nat) /\ Len(t) = Len(s) + 1 /\ Len(s) \in Nat
      /\ \A i \in 1 .. Len(s) : t[i] = s[i]
      /\ t[Len(s) + 1] = n
  BY AppendProperties
<1>2. DOMAIN s = 1 .. Len(s) /\ DOMAIN t = 1 .. Len(s) + 1
  BY <1>1
<1> HIDE DEF t
<1>3. DOMAIN t = DOMAIN s \union {Len(s) + 1}
  BY <1>1, <1>2
<1>4. ToSet(t) = ToSet(s) \union {n}
  BY <1>1, <1>2, <1>3 DEF ToSet
<1>5. ASSUME Ascends(s), NEW i \in DOMAIN t, NEW j \in DOMAIN t, i < j
      PROVE  t[i] < t[j]
  <2>1. i \in DOMAIN s
    BY <1>1, <1>2, <1>5
  <2>2. CASE j \in DOMAIN s
    BY <1>1, <1>2, <1>5, <2>1, <2>2 DEF Ascends
  <2>3. CASE j = Len(s) + 1
    <3>1. s[i] \in ToSet(s) /\ t[i] = s[i] /\ t[j] = n
      BY <1>1, <1>2, <2>1, <2>3 DEF ToSet
    <3> QED
      BY <3>1
  <2> QED
    BY <1>3, <2>2, <2>3
<1>6. Ascends(s) => Ascends(t)
  BY <1>5 DEF Ascends
<1> QED
  BY <1>4, <1>6 DEF t

\* What is known of an accumulator that the line in hand goes to.
LEMMA AccumulatorMeant ==
  ASSUME Sane, Meant, hand # Nothing, hand.stage = "sse", InHand.sse # {}, NEW a \in AccumulatorsFor(InHand),
         NEW lines, lines = Append(a.lines, read["ssl"])
  PROVE  /\ a \in Accumulator /\ (a \in held \/ ToSet(a.lines) = {})
         /\ ToSet(lines) = ToSet(a.lines) \union {read["ssl"]}
         /\ Ascends(lines) /\ Last(lines) = read["ssl"] /\ lines \in Seq(Nat)
         /\ \A i \in ToSet(lines) : Line("ssl", i).sse # {} /\ Line("ssl", i).thread = a.thread
         /\ OneThread("ssl", lines)
         /\ ToSet(a.lines) \subseteq HeldOf("ssl") /\ HandOf("ssl") = {read["ssl"]}
         /\ HeldOf("ssl") \subseteq WantedOf("ssl") /\ read["ssl"] \in WantedOf("ssl") \ HeldOf("ssl")
<1> DEFINE n == read["ssl"]
<1>1. hand.source = "ssl" /\ hand.lines = <<n>> /\ setup.ssl_http
  BY DEF Sane, Carried
<1>2. n \in Nat /\ n > 0 /\ InHand = Line("ssl", n) /\ InHand.kind = "event"
  BY <1>1, InHandRead DEF Sane, Carried
<1>3. /\ a \in Accumulator /\ a.thread = InHand.thread /\ a.lines \in Seq(1 .. n)
      /\ a \in held \/ a.lines = <<>>
  BY <1>1, AccumulatorsFit
<1>4. HandOf("ssl") = {n}
  BY <1>1, HandPlaces DEF HandOf
<1>5. HeldOf("ssl") \subseteq WantedOf("ssl") /\ HeldOf("ssl") \intersect HandOf("ssl") = {}
  BY DEF Meant, Places, SourceSet
<1>6. ToSet(a.lines) \subseteq HeldOf("ssl") /\ (a \in held \/ ToSet(a.lines) = {})
  BY <1>3 DEF HeldOf, ToSet
<1>7. a.lines \in Seq(Nat)
  BY <1>3 DEF Accumulator
<1>8. \A i \in ToSet(a.lines) : i \in 1 .. n /\ i # n
  BY <1>4, <1>5, <1>6 DEF WantedOf
<1>9. \A i \in ToSet(a.lines) : i < n
  BY <1>2, <1>8
<1>10. Ascends(a.lines)
  <2>1. CASE a \in held
    BY <2>1 DEF Meant, HeldMeant
  <2>2. CASE a.lines = <<>>
    BY <2>2 DEF Ascends
  <2> QED
    BY <1>3, <2>1, <2>2
<1>11. \A i \in ToSet(a.lines) : Line("ssl", i).sse # {} /\ Line("ssl", i).thread = a.thread
  BY <1>6 DEF Meant, HeldMeant
<1>12. n \in WantedOf("ssl")
  <2>1. InHand \notin MeantBy(setup.ssl_filter)
    BY <1>1 DEF Meant, HandMeant
  <2>2. Wanted("ssl", n)
    BY <1>2, <2>1 DEF Wanted
  <2> QED
    BY <1>2, <2>2 DEF WantedOf
<1>13. Last(lines) = n /\ lines \in Seq(Nat)
  BY <1>2, <1>7, AppendProperties DEF Last
<1> HIDE DEF n
<1>14. ToSet(lines) = ToSet(a.lines) \union {n} /\ Ascends(lines)
  BY <1>2, <1>7, <1>9, <1>10, Appended DEF n
<1>15. \A i \in ToSet(lines) : Line("ssl", i).sse # {} /\ Line("ssl", i).thread = a.thread
  BY <1>2, <1>3, <1>11, <1>14
<1>16. OneThread("ssl", lines)
  BY <1>15 DEF OneThread
<1> QED
  BY <1>3, <1>4, <1>5, <1>6, <1>12, <1>13, <1>14, <1>15, <1>16 DEF n

\* The accumulator that the line in hand goes to is held on to.
LEMMA HoldMeant ==
  ASSUME Sane, Meant, hand # Nothing, hand.stage = "sse", InHand.sse # {}, NEW a \in AccumulatorsFor(InHand),
         NEW lines, lines = Append(a.lines, read["ssl"]), UNCHANGED <<setup, read, log>>,
         held' = (held \ {a}) \union {[a EXCEPT !.lines = lines]}, hand' = Nothing
  PROVE  Meant'
<1> DEFINE b == [a EXCEPT !.lines = lines]
           n == read["ssl"]
<1>1. /\ a \in Accumulator /\ (a \in held \/ ToSet(a.lines) = {})
      /\ ToSet(lines) = ToSet(a.lines) \union {n} /\ Ascends(lines)
      /\ \A i \in ToSet(lines) : Line("ssl", i).sse # {} /\ Line("ssl", i).thread = a.thread
      /\ ToSet(a.lines) \subseteq HeldOf("ssl") /\ HandOf("ssl") = {n}
      /\ HeldOf("ssl") \subseteq WantedOf("ssl") /\ n \in WantedOf("ssl") \ HeldOf("ssl")
  BY AccumulatorMeant
<1>2. b.lines = lines /\ b.thread = a.thread
  BY <1>1 DEF Accumulator
<1>3. held' = (held \ {a}) \union {b}
  OBVIOUS
<1>4. HeldMeant
  BY DEF Meant
<1> HIDE DEF b, n
<1>5. hand.source = "ssl" /\ hand'.source = "ssl" /\ \A s : HandOf(s)' = {}
  BY HandPlaces DEF Nothing, Sane, Carried
<1>6. HeldOf("ssl")' = HeldOf("ssl") \union {n}
  <2>1. \A x \in held' : ToSet(x.lines) \subseteq HeldOf("ssl") \union {n}
    BY <1>1, <1>2, <1>3 DEF HeldOf
  <2>2. \A x \in held : \E y \in held' : ToSet(x.lines) \subseteq ToSet(y.lines)
    BY <1>1, <1>2, <1>3
  <2>3. b \in held' /\ n \in ToSet(b.lines)
    BY <1>1, <1>2, <1>3
  <2>4. HeldOf("ssl") = UNION {ToSet(x.lines) : x \in held} /\ HeldOf("ssl")' = UNION {ToSet(x.lines) : x \in held'}
    BY DEF HeldOf
  <2>5. HeldOf("ssl")' \subseteq HeldOf("ssl") \union {n}
    BY <2>1, <2>4
  <2>6. ASSUME NEW i \in HeldOf("ssl")
        PROVE  i \in HeldOf("ssl")'
    <3>1. PICK x \in held : i \in ToSet(x.lines)
      BY <2>4
    <3>2. PICK y \in held' : ToSet(x.lines) \subseteq ToSet(y.lines)
      BY <2>2
    <3> QED
      BY <2>4, <3>1, <3>2
  <2>7. n \in HeldOf("ssl")'
    BY <2>3, <2>4
  <2> QED
    BY <2>5, <2>6, <2>7
<1>7. ASSUME NEW s \in SourceSet
      PROVE  Entries(s)' /\ Places(s)'
  <2>1. Places(s) /\ Entries(s)'
    BY SaidOfLog DEF Meant
  <2>2. CASE s # "ssl"
    BY <1>5, <2>1, <2>2, PlacesOther
  <2>3. CASE s = "ssl"
    BY <1>1, <1>5, <1>6, <2>1, <2>3, PlacesMoved
  <2> QED
    BY <2>1, <2>2, <2>3
<1>8. HeldMeant'
  <2>1. ASSUME NEW x \in held'
        PROVE  /\ Ascends(x.lines)
               /\ \A i \in ToSet(x.lines) : Line("ssl", i).sse # {} /\ Line("ssl", i).thread = x.thread
    BY <1>1, <1>2, <1>3, <1>4, <2>1 DEF HeldMeant
  <2>2. ASSUME NEW x \in held \ {a}
        PROVE  ToSet(x.lines) \intersect ToSet(lines) = {}
    <3>1. n \notin ToSet(x.lines)
      BY <1>1, <2>2 DEF HeldOf
    <3>2. ToSet(x.lines) \intersect ToSet(a.lines) = {}
      BY <1>1, <1>4, <2>2 DEF HeldMeant
    <3> QED
      BY <1>1, <3>1, <3>2
  <2>3. ASSUME NEW x \in held', NEW y \in held', x # y
        PROVE  ToSet(x.lines) \intersect ToSet(y.lines) = {}
    <3>1. CASE x \in held \ {a} /\ y \in held \ {a}
      BY <1>4, <2>3, <3>1 DEF HeldMeant
    <3>2. CASE x = b
      BY <1>2, <1>3, <2>2, <2>3, <3>2
    <3>3. CASE y = b
      BY <1>2, <1>3, <2>2, <2>3, <3>3
    <3> QED
      BY <1>3, <3>1, <3>2, <3>3
  <2>4. \A s, i : Line(s, i)' = Line(s, i)
    BY DEF Line
  <2>5. /\ \A x \in held' : /\ Ascends(x.lines)
                           /\ \A i \in ToSet(x.lines) : Line("ssl", i)'.sse # {} /\ Line("ssl", i)'.thread = x.thread
        /\ \A x, y \in held' : x # y => ToSet(x.lines) \intersect ToSet(y.lines) = {}
    BY <2>1, <2>3, <2>4
  <2> QED
    BY <2>5 DEF HeldMeant, Ascends
<1> QED
  BY <1>7, <1>8 DEF Meant, HandMeant

\* It is complete, and merged or dropped.
LEMMA CompleteMeant ==
  ASSUME Sane, Meant, hand # Nothing, hand.stage = "sse", InHand.sse # {}, NEW a \in AccumulatorsFor(InHand),
         NEW lines, lines = Append(a.lines, read["ssl"]), UNCHANGED <<setup, read, log>>, held' = held \ {a},
         \/ hand' = [hand EXCEPT !.lines = lines, !.stage = StageAfterSse]
         \/ "delta" \notin Kinds(lines) /\ hand' = Nothing
  PROVE  Meant'
<1> DEFINE n == read["ssl"]
           stage == StageAfterSse
<1>1. /\ a \in held \/ ToSet(a.lines) = {}
      /\ ToSet(lines) = ToSet(a.lines) \union {n} /\ Ascends(lines) /\ Last(lines) = n
      /\ \A i \in ToSet(lines) : Line("ssl", i).sse # {} /\ Line("ssl", i).thread = a.thread
      /\ OneThread("ssl", lines)
      /\ ToSet(a.lines) \subseteq HeldOf("ssl") /\ HandOf("ssl") = {n}
      /\ HeldOf("ssl") \subseteq WantedOf("ssl") /\ n \in WantedOf("ssl") \ HeldOf("ssl")
  BY AccumulatorMeant
<1>2. hand.source = "ssl" /\ hand \in Hand /\ setup.ssl_http
  BY InHandRead DEF Sane, Carried
<1>3. HeldMeant
  BY DEF Meant
<1>4. HeldMeant'
  BY <1>3 DEF HeldMeant, Line, Ascends
<1>5. HeldOf("ssl")' \intersect ToSet(lines) = {} /\ HeldOf("ssl")' \subseteq HeldOf("ssl")
  <2>1. \A x \in held \ {a} : ToSet(x.lines) \intersect ToSet(a.lines) = {} /\ n \notin ToSet(x.lines)
    BY <1>1, <1>3 DEF HeldMeant, HeldOf
  <2> QED
    BY <1>1, <2>1 DEF HeldOf
<1>6. HeldOf("ssl") \subseteq HeldOf("ssl")' \union ToSet(a.lines)
  BY DEF HeldOf
<1>7. hand'.source = "ssl" /\ (HandOf("ssl")' = ToSet(lines) \/ (hand' = Nothing /\ "delta" \notin Kinds(lines)))
  <2>1. CASE hand' = [hand EXCEPT !.lines = lines, !.stage = StageAfterSse]
    <3>1. hand'.source = "ssl" /\ hand'.lines = lines
      BY <1>2, <2>1 DEF Hand
    <3> QED
      BY <3>1 DEF HandOf
  <2>2. CASE "delta" \notin Kinds(lines) /\ hand' = Nothing
    BY <2>2 DEF Nothing
  <2> QED
    BY <2>1, <2>2
<1>8. "delta" \notin Kinds(lines) => ToSet(lines) \intersect KeptOf("ssl") = {}
  BY <1>1, <1>2 DEF Kinds, KeptOf, Kept
<1> HIDE DEF n, stage
<1>9. ASSUME NEW s \in SourceSet
      PROVE  Entries(s)' /\ Places(s)'
  <2>1. Places(s) /\ Entries(s)'
    BY SaidOfLog DEF Meant
  <2>2. CASE s # "ssl"
    BY <1>2, <1>7, <2>1, <2>2, PlacesOther
  <2>3. CASE s = "ssl"
    <3>1. CASE HandOf("ssl")' = ToSet(lines)
      BY <1>1, <1>5, <1>6, <2>1, <2>3, <3>1, PlacesMoved
    <3>2. CASE hand' = Nothing /\ "delta" \notin Kinds(lines)
      <4>1. HandOf("ssl")' = {}
        BY <3>2, HandPlaces
      <4> QED
        BY <1>1, <1>5, <1>6, <1>8, <2>1, <2>3, <3>2, <4>1, PlacesMoved
    <3> QED
      BY <1>7, <3>1, <3>2
  <2> QED
    BY <2>1, <2>2, <2>3
<1>10. HandMeant'
  <2>1. CASE hand' = Nothing
    BY <2>1 DEF HandMeant
  <2>2. CASE hand' = [hand EXCEPT !.lines = lines, !.stage = stage]
    <3>1. hand'.source = "ssl" /\ hand'.lines = lines /\ hand'.stage = stage
      BY <1>2, <2>2 DEF Hand
    <3>2. \A i \in ToSet(lines) : Wanted("ssl", i)
      BY <1>1 DEF WantedOf
    <3>3. n \in ToSet(lines) /\ read'["ssl"] = n
      BY <1>1 DEF n
    <3>4. Line("ssl", n) \notin MeantBy(setup.ssl_filter)
      BY <3>2, <3>3 DEF Wanted
    <3> QED
      BY <1>1, <3>1, <3>2, <3>3, <3>4, HandMeantNext
  <2> QED
    BY <2>1, <2>2 DEF stage
<1> QED
  BY <1>4, <1>9, <1>10 DEF Meant

LEMMA SseAccumulatesMeant ==
  ASSUME Sane, Meant, SseAccumulates
  PROVE  Meant'
<1>1. hand # Nothing /\ hand.stage = "sse" /\ InHand.sse # {} /\ UNCHANGED <<setup, read, log>>
  BY DEF SseAccumulates, At
<1>2. PICK a \in AccumulatorsFor(InHand) :
        LET lines == Append(a.lines, read["ssl"])
        IN  \/ held' = (held \ {a}) \union {[a EXCEPT !.lines = lines]} /\ hand' = Nothing
           \/ /\ held' = held \ {a}
              /\ \/ hand' = [hand EXCEPT !.lines = lines, !.stage = StageAfterSse]
                 \/ "delta" \notin Kinds(lines) /\ hand' = Nothing
  BY SseCases
<1> DEFINE lines == Append(a.lines, read["ssl"])
<1>3. CASE held' = (held \ {a}) \union {[a EXCEPT !.lines = lines]} /\ hand' = Nothing
  BY <1>1, <1>3, HoldMeant
<1>4. CASE /\ held' = held \ {a}
           /\ \/ hand' = [hand EXCEPT !.lines = lines, !.stage = StageAfterSse]
              \/ "delta" \notin Kinds(lines) /\ hand' = Nothing
  BY <1>1, <1>4, CompleteMeant
<1> QED
  BY <1>2, <1>3, <1>4

\* The logger takes the event in hand.
LEMMA LogPlaces ==
  ASSUME Sane, Meant, Log, NEW s \in SourceSet, s = hand.source
  PROVE  Entries(s)' /\ Places(s)'
<1> DEFINE n == read[s]
           m == Len(log) + 1
<1>1. hand # Nothing /\ hand.stage = "log" /\ UNCHANGED <<setup, read, held>> /\ hand' = Nothing
  BY DEF Log, At
<1>2. PICK e \in Entry : e.source = s /\ e.lines = hand.lines /\ log' = Append(log, e)
  BY LogCase
<1>3. n \in Nat /\ log \in Seq(Entry) /\ hand.lines # <<>> /\ Last(hand.lines) = n /\ hand.lines \in Seq(1 .. n)
  BY <1>1, InHandRead DEF Sane, Typed, Carried, ReadFirst
<1>4. /\ Ascends(hand.lines) /\ OneThread(s, hand.lines)
      /\ \A i \in ToSet(hand.lines) : Wanted(s, i)
  BY <1>1 DEF Meant, HandMeant
<1>5. m \in Nat /\ log'[m] = e /\ (\A k \in DOMAIN log : log'[k] = log[k] /\ k \in Nat /\ k < m)
  BY <1>2, <1>3
<1>6. EntriesOf(s)' = EntriesOf(s) \union {m} /\ EntriesOf(s) \subseteq DOMAIN log
  BY <1>2, <1>3, EntryAdded DEF EntriesOf
<1>7. HandOf(s)' = {} /\ HeldOf(s)' = HeldOf(s)
  BY <1>1, HandPlaces DEF HeldOf
<1>8. WantedOf(s)' = WantedOf(s) /\ KeptOf(s)' = KeptOf(s)
  BY <1>1, SaidOfLines DEF WantedOf, KeptOf
<1>9. ToSet(hand.lines) \subseteq 1 .. n /\ n \in ToSet(hand.lines) /\ HandOf(s) = ToSet(hand.lines)
  <2>1. \A i \in DOMAIN hand.lines : hand.lines[i] \in 1 .. n
    BY <1>3
  <2>2. Len(hand.lines) \in DOMAIN hand.lines
    BY <1>3
  <2>3. n \in ToSet(hand.lines)
    BY <1>3, <2>2 DEF Last, ToSet
  <2>4. ToSet(hand.lines) \subseteq 1 .. n
    BY <2>1 DEF ToSet
  <2> QED
    BY <2>3, <2>4 DEF HandOf
<1>10. Places(s) /\ Entries(s)
  BY DEF Meant
<1>11. HandOf(s) \subseteq WantedOf(s) /\ WantedOf(s) \subseteq 1 .. n
  BY <1>4, <1>9 DEF WantedOf
<1> HIDE DEF n, m
<1>12. \A k \in EntriesOf(s) : log'[k] = log[k] /\ k \in Nat /\ k < m /\ log[k] \in Entry
  BY <1>3, <1>5, <1>6
<1>13. log'[m].lines = hand.lines
  BY <1>2, <1>5
<1>14. Places(s)'
  <2>1. Logged(s)' = UNION {ToSet(log'[k].lines) : k \in EntriesOf(s) \union {m}}
    BY <1>6 DEF Logged
  <2>2. Logged(s) = UNION {ToSet(log'[k].lines) : k \in EntriesOf(s)}
    BY <1>12 DEF Logged
  <2>3. Logged(s)' = Logged(s) \union HandOf(s)
    BY <1>9, <1>13, <2>1, <2>2
  <2> QED
    BY <1>7, <1>8, <1>10, <1>11, <2>3 DEF Places
<1>15. ASSUME NEW k \in EntriesOf(s)
       PROVE  Last(log[k].lines) < n /\ ToSet(log[k].lines) \intersect ToSet(hand.lines) = {}
  <2>1. ToSet(log[k].lines) \subseteq Logged(s)
    BY DEF Logged
  <2>2. log[k].lines \in Seq(Nat) /\ log[k].lines # <<>>
    BY <1>10, <1>12 DEF Entry, Entries
  <2>3. Len(log[k].lines) \in DOMAIN log[k].lines
    BY <2>2
  <2>4. Last(log[k].lines) \in ToSet(log[k].lines)
    BY <2>3 DEF Last, ToSet
  <2>5. Logged(s) \intersect HandOf(s) = {} /\ Logged(s) \subseteq 1 .. n
    BY <1>10, <1>11 DEF Places
  <2>6. Last(log[k].lines) \in 1 .. n /\ Last(log[k].lines) # n
    BY <1>9, <2>1, <2>4, <2>5
  <2>7. Last(log[k].lines) < n
    BY <1>3, <2>6
  <2> QED
    BY <1>9, <2>1, <2>5, <2>7
<1>16. Entries(s)'
  <2>1. \A k \in EntriesOf(s)' : log'[k].lines # <<>> /\ Ascends(log'[k].lines) /\ OneThread(s, log'[k].lines)
    BY <1>3, <1>4, <1>6, <1>10, <1>12, <1>13 DEF Entries
  <2>2. ASSUME NEW j \in EntriesOf(s)', NEW k \in EntriesOf(s)', j < k
        PROVE  /\ Last(log'[j].lines) < Last(log'[k].lines)
               /\ ToSet(log'[j].lines) \intersect ToSet(log'[k].lines) = {}
    <3>1. j \in EntriesOf(s)
      BY <1>5, <1>6, <1>12, <2>2
    <3>2. CASE k \in EntriesOf(s)
      BY <1>10, <1>12, <2>2, <3>1, <3>2 DEF Entries
    <3>3. CASE k = m
      <4>1. Last(log'[k].lines) = n /\ log'[k].lines = hand.lines /\ log'[j] = log[j]
        BY <1>3, <1>12, <1>13, <3>1, <3>3
      <4> QED
        BY <1>15, <3>1, <4>1
    <3> QED
      BY <1>6, <3>2, <3>3
  <2> QED
    BY <1>1, <2>1, <2>2, SaidOfLines DEF Entries, Ascends
<1> QED
  BY <1>14, <1>16

LEMMA LogMeant ==
  ASSUME Sane, Meant, Log
  PROVE  Meant'
<1>1. hand # Nothing /\ UNCHANGED <<setup, read, held>> /\ hand' = Nothing
  BY DEF Log, At
<1>2. PICK e \in Entry : e.source = hand.source /\ e.lines = hand.lines /\ log' = Append(log, e)
  BY LogCase
<1>3. log \in Seq(Entry)
  BY DEF Sane, Typed
<1>4. ASSUME NEW r \in SourceSet, r # hand.source
      PROVE  Entries(r)' /\ Places(r)'
  <2>1. EntriesOf(r)' = EntriesOf(r)
    BY <1>2, <1>3, <1>4, EntryAdded
  <2>2. \A k \in EntriesOf(r) : log'[k] = log[k]
    BY <1>2, <1>3 DEF EntriesOf
  <2>3. Logged(r)' = Logged(r)
    BY <2>1, <2>2 DEF Logged
  <2>4. HandOf(r) = {} /\ HandOf(r)' = {} /\ HeldOf(r)' = HeldOf(r)
    BY <1>1, <1>4, HandPlaces DEF HandOf, HeldOf
  <2>5. WantedOf(r)' = WantedOf(r) /\ KeptOf(r)' = KeptOf(r)
    BY <1>1, SaidOfLines DEF WantedOf, KeptOf
  <2>6. Places(r)'
    BY <2>3, <2>4, <2>5 DEF Meant, Places
  <2>7. Entries(r)'
    <3>1. Entries(r)
      BY DEF Meant
    <3>2. ASSUME NEW k \in EntriesOf(r)'
          PROVE  log'[k].lines # <<>> /\ Ascends(log'[k].lines) /\ OneThread(r, log'[k].lines)
      <4>1. k \in EntriesOf(r) /\ log'[k] = log[k]
        BY <2>1, <2>2
      <4> QED
        BY <3>1, <4>1 DEF Entries
    <3>3. ASSUME NEW j \in EntriesOf(r)', NEW k \in EntriesOf(r)', j < k
          PROVE  /\ Last(log'[j].lines) < Last(log'[k].lines)
                 /\ ToSet(log'[j].lines) \intersect ToSet(log'[k].lines) = {}
      <4>1. j \in EntriesOf(r) /\ log'[j] = log[j] /\ k \in EntriesOf(r) /\ log'[k] = log[k]
        BY <2>1, <2>2
      <4> QED
        BY <3>1, <3>3, <4>1 DEF Entries
    <3> QED
      BY <1>1, <3>2, <3>3, SaidOfLines DEF Entries, Ascends
  <2> QED
    BY <2>6, <2>7
<1>5. ASSUME NEW r \in SourceSet
      PROVE  Entries(r)' /\ Places(r)'
  BY <1>4, LogPlaces
<1>6. HeldMeant'
  BY <1>1, HeldMeantKept DEF Meant
<1> QED
  BY <1>1, <1>5, <1>6 DEF Meant, HandMeant

LEMMA ElsewhereMeant ==
  ASSUME Sane, Meant, UNCHANGED <<setup, hand, read, held, log>>
  PROVE  Meant'
<1>1. ASSUME NEW s \in SourceSet
      PROVE  Entries(s)' /\ Places(s)'
  <2>1. HeldOf(s)' = HeldOf(s) /\ HandOf(s)' = HandOf(s) /\ Logged(s)' = Logged(s) /\ Entries(s)'
    BY SaidOfLog DEF HeldOf, HandOf, Meant
  <2>2. WantedOf(s)' = WantedOf(s) /\ KeptOf(s)' = KeptOf(s)
    BY SaidOfLines DEF WantedOf, KeptOf
  <2> QED
    BY <2>1, <2>2 DEF Meant, Places
<1>2. HeldMeant'
  BY HeldMeantKept DEF Meant
<1>3. HandMeant'
  BY DEF Meant, HandMeant, Ascends, OneThread, Wanted, InHand, Line
<1> QED
  BY <1>1, <1>2, <1>3 DEF Meant

LEMMA StepMeant ==
  ASSUME \A u \in Setups : FiltersAsMeant(u), Sane, Meant, [Next]_vars
  PROVE  Meant'
<1>1. FiltersAsMeant(setup)
  BY DEF Meant
<1>2. CASE (\E s \in SourceSet : Prints(s)) \/ Elsewhere
  <2>1. UNCHANGED <<setup, hand, read, held, log>>
    BY <1>2 DEF Prints, Elsewhere, ChildEnds, Start, StartFails, ReadEnds, StreamEnds, Sigint, Exit, childVars, vars
  <2> QED
    BY <2>1, ElsewhereMeant
<1> QED
  BY <1>1, <1>2, StepCases, ReadMeant, SslFilterMeant, SsePassMeant, SseAccumulatesMeant, HttpFilterMeant, LogMeant

\* If every filter in use does to each line what it was meant to, what comes to the
\* logger is made of lines that were read and not meant to be dropped, each in one
\* entry and in order, those with server-sent events merged thread by thread, and
\* what has not come there, but should, is held by the SSE processor or in hand
\* (run_trace, AgentRunner::run, SSLFilter, SSEProcessor, HTTPFilter, FileLogger).
\* What filters do to the lines of a setup is evaluated (MCFiltersAsMeant); the
\* filter "body=" does not do what it was meant to.
THEOREM LogsAsMeant ==
  ASSUME \A u \in Setups : FiltersAsMeant(u)
  PROVE  Spec => []LoggedAsMeant
<1>1. Sane /\ Meant /\ [Next]_vars => Meant'
  BY StepMeant
<1>2. Init => Meant
  BY MeantAtFirst
<1>3. Meant => LoggedAsMeant
  BY MeantLogs
<1> QED
  BY AlwaysSane, <1>1, <1>2, <1>3, PTL DEF Spec
==============================================================================
