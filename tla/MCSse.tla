-------------------------------- MODULE MCSse --------------------------------
(***************************************************************************)
(* Three messages, two of them read by one thread: one calls a tool and is *)
(* cut for its length, one fails, one has nothing to say in text.          *)
(***************************************************************************)
EXTENDS SseProcessor

CONSTANTS m1, m2, m3, t1, t2

MCThreadOf == [m \in Messages |-> IF m = m3 THEN t2 ELSE t1]

MCScript ==
  [m \in Messages |->
     CASE m = m1 -> <<"message_start", "text", "text", "json", "meta", "message_stop">>
       [] m = m2 -> <<"message_start", "block", "text", "error">>
       [] OTHER  -> <<"message_start", "json", "message_stop">>]
==============================================================================
