---------------------------- MODULE MCPidTracker ----------------------------
(***************************************************************************)
(* Five pids over a table of four slots: 1, 5 and 9 share the home slot 1, *)
(* 2 and 3 sit on their probe sequences, and five pids overfill the table. *)
(***************************************************************************)
EXTENDS PidTracker

MCPids == {1, 2, 3, 5, 9}
==============================================================================
