---------------------------- MODULE SseProcessor ----------------------------
(***************************************************************************)
(* SSEProcessor of collector/src/framework/analyzers/sse_processor.rs: the *)
(* server-sent events found in the TLS reads of a thread are collected     *)
(* until a message is complete, and only then passed on, merged.           *)
(*                                                                         *)
(* The environment is a number of streamed messages, each a fixed script   *)
(* of events read by one thread, one HTTP chunk to an event.  A thread may *)
(* read several at once and may abandon one.  A read may end inside a      *)
(* chunk: of the event in it the parser sees nothing, a type without data, *)
(* or part of the type, and the rest, in the next read, is skipped.        *)
(***************************************************************************)
EXTENDS Naturals, Sequences, FiniteSets, SequencesExt

CONSTANTS
  Messages,   \* the streamed messages, also their ids
  Threads,    \* pid and tid of a reader
  ThreadOf,   \* message -> the thread that reads it
  Script,     \* message -> the types of its events
  NoId,       \* no message id is known
  Window,     \* the id used for want of one: the time in units of 19 years
  MaxText,    \* text or JSON longer than this completes a message
  MaxRead,    \* bound: events in a read
  MaxTorn     \* bound: reads that end inside a chunk

\* message_delta and ping are "meta"; content_block_start and _stop "block"; a
\* type cut short is "other".
Types == {"message_start", "text", "json", "block", "meta", "message_stop", "error", "other"}

ASSUME SseAssumption ==
  /\ ThreadOf \in [Messages -> Threads]
  /\ Script \in [Messages -> Seq(Types)]
  /\ NoId \notin Messages /\ Window \notin Messages
  /\ MaxText \in Nat /\ MaxRead \in Nat /\ MaxTorn \in Nat

\* A message begins with its message_start and ends with its message_stop or an error.
ASSUME StreamAssumption ==
  \A m \in Messages : \A i \in DOMAIN Script[m] :
    /\ Script[m][i] = "message_start" <=> i = 1
    /\ Script[m][i] \in {"message_stop", "error"} <=> i = Len(Script[m])

VARIABLES
  read,         \* message -> events read so far
  torn,         \* reads that ended inside a chunk
  sse_buffers,  \* thread and id -> accumulator
  merged,       \* the merged events passed on, oldest first
  fed,          \* history: thread -> the text and the JSON it has read, in order
  disturbed     \* history: threads that read a torn chunk or two messages at once

vars == <<read, torn, sse_buffers, merged, fed, disturbed>>

\* A piece of content is known by its message and place there.
Piece == Messages \X (Nat \ {0})

\* parsed tells whether the event's data is JSON, as it is unless it was torn.
SSEEvent == [type : Types, msg : Messages, n : Nat \ {0}, parsed : BOOLEAN]

\* accumulated_text and accumulated_json
Parts == {"text", "json"}

Accumulator ==
  [message_id : Messages \union {NoId}, content : [Parts -> Seq(Piece)], events : Seq(Types)]

Keys == Threads \X (Messages \union {Window})

TypeOK ==
  /\ read \in [Messages -> Nat] /\ \A m \in Messages : read[m] <= Len(Script[m])
  /\ torn \in 0 .. MaxTorn
  /\ DOMAIN sse_buffers \subseteq Keys
  /\ sse_buffers \in [DOMAIN sse_buffers -> Accumulator]
  /\ merged \in Seq([thread : Threads, acc : Accumulator])
  /\ fed \in [Threads -> [Parts -> Seq(Piece)]]
  /\ disturbed \subseteq Threads

Init ==
  /\ read = [m \in Messages |-> 0]
  /\ torn = 0
  /\ sse_buffers = [k \in {} |-> 0]
  /\ merged = <<>>
  /\ fed = [t \in Threads |-> [part \in Parts |-> <<>>]]
  /\ disturbed = {}

-----------------------------------------------------------------------------
\* The accumulator

Empty == [message_id |-> NoId, content |-> [part \in Parts |-> <<>>], events |-> <<>>]

\* What the deltas of one kind among some events add.
Pieces(es, part) ==
  FlattenSeq([i \in DOMAIN es |-> IF es[i].type = part /\ es[i].parsed THEN <<<<es[i].msg, es[i].n>>>> ELSE <<>>])

\* extract_message_id
StartIds(es) == {e.msg : e \in {x \in ToSet(es) : x.type = "message_start" /\ x.parsed}}

\* A mutant: only the first event of a read is accumulated.
AccumulateFirst(acc, es) ==
  [message_id |-> acc.message_id,
   content    |-> [part \in Parts |-> acc.content[part] \o Pieces(<<Head(es)>>, part)],
   events     |-> Append(acc.events, Head(es).type)]

\* A mutant: the id in a message_start is not noted.
AccumulateUnnamed(acc, es) ==
  [message_id |-> acc.message_id,
   content    |-> [part \in Parts |-> acc.content[part] \o Pieces(es, part)],
   events     |-> acc.events \o [i \in DOMAIN es |-> es[i].type]]

\* accumulate_content
Accumulate(acc, es) ==
  [message_id |-> IF acc.message_id = NoId /\ StartIds(es) # {} THEN CHOOSE m \in StartIds(es) : TRUE
                  ELSE acc.message_id,
   content    |-> [part \in Parts |-> acc.content[part] \o Pieces(es, part)],
   events     |-> acc.events \o [i \in DOMAIN es |-> es[i].type]]

TooLong(acc) == \E part \in Parts : Len(acc.content[part]) > MaxText

\* A mutant: an error does not end a message.
CompleteOnStop(acc) == "message_stop" \in ToSet(acc.events) \/ TooLong(acc)

\* is_sse_complete
IsComplete(acc) == {"message_stop", "error"} \intersect ToSet(acc.events) # {} \/ TooLong(acc)

\* has_meaningful_content
HasMeaningfulContent(acc) ==
  \/ Parts \intersect ToSet(acc.events) # {}
  \/ "message_start" \in ToSet(acc.events) /\ Len(acc.events) > 3

-----------------------------------------------------------------------------
\* process, for one read

\* A mutant: for want of an id, the key has none.
ConnectionIdUnknown(t, es) == <<t, IF StartIds(es) = {} THEN NoId ELSE CHOOSE m \in StartIds(es) : TRUE>>

\* generate_connection_id
ConnectionId(t, es) == <<t, IF StartIds(es) = {} THEN Window ELSE CHOOSE m \in StartIds(es) : TRUE>>

\* The accumulators the read may go to.  Without an id, that is whichever one
\* of the thread the hash map happens to yield first, if there is one.
AccumulatorsFor(t, es) ==
  LET open == {k \in DOMAIN sse_buffers :
                 k[1] = t /\ "message_stop" \notin ToSet(sse_buffers[k].events)}
  IN  IF StartIds(es) # {} \/ open = {} THEN {ConnectionId(t, es)} ELSE open

\* A read of nothing but pings and message_deltas is dropped, unless the id it
\* is given without a message_start happens to be in use.
Skipped(t, es) ==
  /\ \A e \in ToSet(es) : e.type = "meta"
  /\ ConnectionId(t, es) \notin DOMAIN sse_buffers

\* A mutant: a completed accumulator is not removed.
StoreCompleted(k, acc) == [x \in DOMAIN sse_buffers \union {k} |-> IF x = k THEN acc ELSE sse_buffers[x]]

\* The map after the read: a completed accumulator is removed.
Store(k, acc) ==
  IF IsComplete(acc)
  THEN [x \in DOMAIN sse_buffers \ {k} |-> sse_buffers[x]]
  ELSE [x \in DOMAIN sse_buffers \union {k} |-> IF x = k THEN acc ELSE sse_buffers[x]]

Process(t, es) ==
  IF Skipped(t, es) THEN UNCHANGED <<sse_buffers, merged>>
  ELSE \E k \in AccumulatorsFor(t, es) :
         LET acc == Accumulate(IF k \in DOMAIN sse_buffers THEN sse_buffers[k] ELSE Empty, es)
         IN  /\ sse_buffers' = Store(k, acc)
             /\ merged' = IF IsComplete(acc) /\ HasMeaningfulContent(acc)
                          THEN Append(merged, [thread |-> t, acc |-> acc]) ELSE merged

-----------------------------------------------------------------------------
\* The readers

\* The next n events of m.
NextEvents(m, n) ==
  [i \in 1 .. n |->
     [type |-> Script[m][read[m] + i], msg |-> m, n |-> read[m] + i, parsed |-> TRUE]]

\* What is parsed of them if the last is torn.  Of a lone event cut in its type
\* nothing is, unless the response's header is in the same read.
TornEvents(m, n) ==
  LET last  == NextEvents(m, n)[n]
      types == {last.type} \union IF n > 1 \/ read[m] = 0 THEN {"other"} ELSE {}
  IN  {NextEvents(m, n - 1)}
        \union {Append(NextEvents(m, n - 1), [last EXCEPT !.type = type, !.parsed = FALSE]) : type \in types}

Underway(m) == read[m] \in 1 .. Len(Script[m]) - 1

Overlaps(m) == \E l \in Messages \ {m} : ThreadOf[l] = ThreadOf[m] /\ Underway(l)

\* A read of n events of m, parsed as es.
Deliver(m, n, es) ==
  /\ read' = [read EXCEPT ![m] = @ + n]
  /\ IF es = <<>> THEN UNCHANGED <<sse_buffers, merged>> ELSE Process(ThreadOf[m], es)
  /\ fed' = [fed EXCEPT ![ThreadOf[m]] = [part \in Parts |-> @[part] \o Pieces(es, part)]]
  /\ disturbed' = IF es # NextEvents(m, n) \/ Overlaps(m)
                  THEN disturbed \union {ThreadOf[m]} ELSE disturbed

Available(m, n) == read[m] + n <= Len(Script[m])

Read(m, n) ==
  /\ Available(m, n)
  /\ Deliver(m, n, NextEvents(m, n))
  /\ UNCHANGED torn

ReadTorn(m, n) ==
  /\ Available(m, n)
  /\ torn < MaxTorn
  /\ torn' = torn + 1
  /\ \E es \in TornEvents(m, n) : Deliver(m, n, es)

Next == \E m \in Messages, n \in 1 .. MaxRead : Read(m, n) \/ ReadTorn(m, n)

Spec == Init /\ [][Next]_vars

-----------------------------------------------------------------------------

Held(t) == {k \in DOMAIN sse_buffers : k[1] = t}

\* The content of one kind in a thread's merged events, in order, and in its accumulator.
Passed(t, part) ==
  FlattenSeq([i \in DOMAIN merged |-> IF merged[i].thread = t THEN merged[i].acc.content[part] ELSE <<>>])

StillHeld(t, part) ==
  IF Held(t) = {} THEN <<>> ELSE sse_buffers[CHOOSE k \in Held(t) : TRUE].content[part]

\* The content read by a thread is, in order and without a gap, that of its
\* merged events followed by that of its accumulator, which is its only one.
\* Reads torn in a chunk and messages read side by side excuse it.
InOrder ==
  \A t \in Threads \ disturbed :
    /\ \A j, k \in Held(t) : j = k
    /\ \A part \in Parts : fed[t][part] = Passed(t, part) \o StillHeld(t, part)

\* When no message of an undisturbed thread is underway nothing of it is held.
NothingHeld ==
  \A t \in Threads \ disturbed :
    (\A m \in Messages : ThreadOf[m] = t => ~Underway(m)) => Held(t) = {}

Content(acc) == UNION {ToSet(acc.content[part]) : part \in Parts}

\* How many merged events and accumulators have a piece of content.
Copies(piece) ==
  Cardinality({i \in DOMAIN merged : piece \in Content(merged[i].acc)})
    + Cardinality({k \in DOMAIN sse_buffers : piece \in Content(sse_buffers[k])})

\* However messages overlap and whatever is torn, a piece of content that was
\* parsed is in one place: passed on in one merged event or held.
ContentKept ==
  \A t \in Threads, part \in Parts : \A piece \in ToSet(fed[t][part]) : Copies(piece) = 1

\* A message with enough content to be cut for its length.
Long(m) == \E part \in Parts : Cardinality({i \in DOMAIN Script[m] : Script[m][i] = part}) > MaxText

\* A merged event bears the id of the message its content is from, or none if
\* the message was cut for its length (is_sse_complete's third condition).
RightId ==
  \A i \in DOMAIN merged :
    merged[i].thread \notin disturbed =>
      \A piece \in Content(merged[i].acc) :
        \/ merged[i].acc.message_id = piece[1]
        \/ merged[i].acc.message_id = NoId /\ Long(piece[1])
=============================================================================
