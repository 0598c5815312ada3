---------------------------- MODULE MCCollector ------------------------------
(***************************************************************************)
(* Sniffer lines that the filters tell apart, and lines with server-sent   *)
(* events.  With faults, two children and a few filters; without, one      *)
(* child and every expression that the grammar makes of a few conditions,  *)
(* or streamed messages of two threads.                                    *)
(***************************************************************************)
EXTENDS Collector

Quiet == [kind |-> "event", function |-> <<"write">>, data |-> <<"bytes">>, len |-> 5, is_handshake |-> FALSE,
          thread |-> "t1", sse |-> {}, message_type |-> "none", method |-> <<>>, path |-> <<>>, body |-> <<>>, status_code |-> 0]

Write     == Quiet
Read1     == [Quiet EXCEPT !.function = <<"read">>, !.len = 9]
Handshake == [Quiet EXCEPT !.function = <<"handshake">>, !.data = <<>>, !.len = 0, !.is_handshake = TRUE]
Request   == [Quiet EXCEPT !.message_type = "request", !.method = <<"HEAD">>, !.path = <<"v1", "rgstr">>]
Posted    == [Quiet EXCEPT !.message_type = "request", !.method = <<"POST">>, !.path = <<"v1", "messages">>,
                           !.body = <<"prompt">>, !.len = 9]
Response  == [Read1 EXCEPT !.message_type = "response", !.status_code = 200, !.body = <<"answer">>]
Accepted  == [Read1 EXCEPT !.message_type = "response", !.status_code = 202]
Noise     == [Quiet EXCEPT !.kind = "noise"]

\* A read with server-sent events of these kinds, and one with the response's header too.
Stream(thread, kinds) == [Read1 EXCEPT !.data = <<thread>>, !.thread = thread, !.sse = kinds]
Started               == [Response EXCEPT !.sse = {"start"}]

Streams ==
  <<Stream("t2", {"meta"}), Started, Stream("t2", {"delta"}), Stream("t2", {"meta"}), Stream("t1", {"start", "block"}),
    Stream("t1", {"delta"}), Accepted, Stream("t1", {"meta"}), Stream("t1", {"stop"}), Stream("t2", {"stop"}),
    Stream("t1", {"delta", "stop"}), Write>>

SnifferLines == {Write, Read1, Handshake, Request, Posted, Response, Accepted} \union ToSet(Streams)

MCLines == SnifferLines \union {Noise}

MCSslConditions ==
  [isRead |-> [field |-> "function", operator |-> "exact", value |-> <<"read">>],
   notWrite |-> [field |-> "function", operator |-> "not_equal", value |-> <<"write">>],
   long |-> [field |-> "len", operator |-> "gt", value |-> 5],
   shakes |-> [field |-> "is_handshake", operator |-> "exact", value |-> TRUE],
   second |-> [field |-> "data", operator |-> "exact", value |-> <<"t2">>],
   bytes |-> [field |-> "data", operator |-> "contains", value |-> <<"bytes">>]]

MCHttpConditions ==
  [rgstr |-> [target |-> "request", field |-> "path_prefix", value |-> <<"v1", "rgstr">>],
   v1 |-> [target |-> "request", field |-> "path_contains", value |-> <<"v1">>],
   accepted |-> [target |-> "response", field |-> "status_code", value |-> 202],
   head |-> [target |-> "request", field |-> "method", value |-> <<"HEAD">>],
   answer |-> [target |-> "response", field |-> "body", value |-> <<"answer">>],
   noBody |-> [target |-> "response", field |-> "body", value |-> <<>>]]

SslPhrases(names) == {Condition(n, {e \in SnifferLines : SslMatches(n, e)}) : n \in names}
HttpPhrases(names) == {Condition(n, {e \in SnifferLines : HttpMatches(MCHttpConditions[n], e)}) : n \in names}

\* Of conditions of one target only: no message is both a request and a response.
HttpConjunctions(names) ==
  UNION {Conjunctions(HttpPhrases({n \in names : MCHttpConditions[n].target = t})) : t \in {"request", "response"}}

SslExpressions ==
  LET simple  == SslPhrases({"isRead", "notWrite", "long", "shakes", "bytes"})
      few     == SslPhrases({"notWrite", "long", "bytes"})
      grouped == few \union {Grouped(a) : a \in Disjunctions(few)}
  IN  Disjunctions(Conjunctions(few)) \union Disjunctions(simple)
        \union Conjunctions(grouped) \union Disjunctions(Conjunctions(few) \union {Grouped(Grouped(b)) : b \in few})

HttpExpressions == Disjunctions(HttpConjunctions({"rgstr", "accepted", "head"})) \union
                   HttpConjunctions({"v1", "answer", "head", "accepted"})

Plain == [script |-> [ssl |-> <<Write, Read1, Handshake, Request, Posted, Response, Accepted>>, process |-> <<>>],
          ssl_filter |-> <<>>, ssl_http |-> TRUE, http_filter |-> <<>>, faults |-> FALSE]

Streaming == [Plain EXCEPT !.script = [ssl |-> Streams, process |-> <<>>]]

Faulty == [Plain EXCEPT !.script = [ssl |-> <<Posted, Started, Stream("t2", {"delta"}), Stream("t1", {"delta", "stop"}), Accepted>>,
                                    process |-> <<Quiet, Noise>>],
                        !.faults = TRUE]

Some(phrases) == CHOOSE e \in phrases : TRUE

MCSetups ==
  {[Plain EXCEPT !.ssl_filter = <<e>>] : e \in SslExpressions} \union
  {[Plain EXCEPT !.http_filter = <<e>>] : e \in HttpExpressions} \union
  {[u EXCEPT !.ssl_filter = f, !.http_filter = h] :
     u \in {Faulty, [Faulty EXCEPT !.ssl_http = FALSE], Streaming},
     f \in {<<>>, <<Some(SslPhrases({"second"})), Some(SslPhrases({"shakes"}))>>},
     h \in {<<>>, <<Some(HttpPhrases({"accepted"})), Some(HttpPhrases({"v1"}))>>}}

\* The grammar's expressions are evaluated as they are meant.
ASSUME MCFiltersAsMeant == \A u \in MCSetups : FiltersAsMeant(u)

\* The condition that is meant for messages without a body.
EmptyBodySetups ==
  {[Plain EXCEPT !.http_filter = <<Condition("noBody", {e \in SnifferLines : e.body = <<>>})>>]}
==============================================================================
