------------------------------ MODULE MCTracer ------------------------------
(***************************************************************************)
(* Three processes over a table of two slots, in which 2 and 4 share a home *)
(* slot and three pids overfill the table; a ring of two events; every      *)
(* filter mode, -p and -d.                                                  *)
(***************************************************************************)
EXTENDS ProcessTracer

CONSTANT f

MCHashOf == [x \in Pids \X {f} |-> IF x[1] = 4 THEN 2 ELSE 1]

Opt(mode, pid, duration) == [mode |-> mode, pid |-> pid, duration |-> duration]

\* A shell that has forked and may be the agent, or nothing at all.
Shell(match) == [p \in Pids |-> IF p = 2 THEN [NoProcess EXCEPT !.st = "running", !.match = match] ELSE NoProcess]

MCExisting == {Shell(TRUE), Shell(FALSE)}

MCOptions ==
  {Opt("ALL", 0, FALSE), Opt("PROC", 0, FALSE), Opt("FILTER", 0, FALSE),
   Opt("FILTER", 2, FALSE), Opt("FILTER", 0, TRUE)}
==============================================================================
