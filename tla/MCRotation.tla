----------------------------- MODULE MCRotation ------------------------------
(***************************************************************************)
(* Three rotated files, rotated at every second event when the log has     *)
(* more than one; enough events for a file to be given up, and, after a    *)
(* stop in the middle of a rotation, for one to be given up too early.     *)
(***************************************************************************)
EXTENDS LogRotation
==============================================================================
