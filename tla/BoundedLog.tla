----------------------------- MODULE BoundedLog -----------------------------
(***************************************************************************)
(* What a rotated log promises its readers: events are appended in order,  *)
(* and what is given up to keep the log small is its oldest part.  A log   *)
(* is broken once the file system has refused to rename one of its files.  *)
(***************************************************************************)
EXTENDS Naturals, Sequences, SequencesExt

CONSTANT Events

VARIABLES
  log,      \* the events on disk, oldest first
  broken

Init == log = <<>> /\ broken = FALSE

\* The log without its k oldest events.
Without(k) == SubSeq(log, k + 1, Len(log))

Write ==
  \E k \in 0 .. Len(log) :
    \/ log' = Without(k)
    \/ \E e \in Events \ ToSet(log) : log' = Append(Without(k), e)

Break == broken' = TRUE

Next == Break \/ (broken' = broken /\ Write)

Spec == Init /\ [][Next]_<<log, broken>>
=============================================================================
