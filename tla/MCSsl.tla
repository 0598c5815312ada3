-------------------------------- MODULE MCSsl --------------------------------
(***************************************************************************)
(* Two threads of two processes, one with the number of its user, over     *)
(* maps of one entry.  Lengths at and above the buffer's, and the first    *)
(* two that the mask changes, to zero and to one.                          *)
(***************************************************************************)
EXTENDS SslSniff

MCPidOf  == [t \in Threads |-> IF t = 1 THEN 10 ELSE 30]
MCUidOf  == [t \in Threads |-> IF t = 1 THEN 20 ELSE 30]
MCCommOf == [t \in Threads |-> IF t = 1 THEN "python" ELSE "node"]

Opt(pid, uid, comm, handshake) == [pid |-> pid, uid |-> uid, comm |-> comm, handshake |-> handshake]

MCOptions ==
  {Opt(NoFilter, NoFilter, NoFilter, TRUE), Opt(NoFilter, NoFilter, "python", FALSE),
   Opt(10, NoFilter, NoFilter, FALSE), Opt(NoFilter, 20, NoFilter, TRUE), Opt(NoFilter, 30, NoFilter, TRUE)}
==============================================================================
