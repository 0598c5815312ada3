------------------------------ MODULE MCDedup -------------------------------
(***************************************************************************)
(* Two processes and two files; the djb2 hash makes two of the four pairs  *)
(* collide across processes.  Seconds last two ticks, the window two.      *)
(***************************************************************************)
EXTENDS DedupAccounting

CONSTANTS a, b

MCHashOf == [x \in {1, 2} \X {a, b} |->
               CASE x = <<1, a>> -> 1
                 [] x = <<1, b>> -> 2
                 [] x = <<2, a>> -> 2
                 [] OTHER        -> 3]
==============================================================================
