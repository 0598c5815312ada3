------------------------------ MODULE SslSniff ------------------------------
(***************************************************************************)
(* The TLS sniffer: probes of bpf/sslsniff.bpf.c at the entry and the      *)
(* return of a library's read, write and handshake functions, joined per   *)
(* thread by three hash maps, a ring buffer with room for a few events,    *)
(* and the printer of bpf/sslsniff.c.                                      *)
(*                                                                         *)
(* A probe runs in the thread it traces and touches only that thread's map *)
(* entries, so a step of the model is one probe.  Only a library's         *)
(* handshake runs inside a read or write.                                  *)
(***************************************************************************)
EXTENDS Naturals, Sequences, FiniteSets, FiniteSetsExt, Functions

CONSTANTS
  Threads,     \* thread ids
  PidOf,       \* thread -> its process
  UidOf,       \* thread -> its user
  CommOf,      \* thread -> its command name
  Options,     \* command lines: pid, uid and comm or NoFilter, handshake or not
  NoFilter,    \* a filter not given
  MaxEntries,  \* MAX_ENTRIES, of each hash map
  RingMax,     \* events the ring buffer holds
  MaxBuf,      \* MAX_BUF_SIZE
  MaskLen,     \* the *_ex probes keep a length modulo this
  Lens,        \* bound: lengths of data transferred
  MaxCalls     \* bound: library calls

ASSUME SniffAssumption ==
  /\ NoFilter \notin Range(PidOf) /\ NoFilter \notin Range(UidOf) /\ NoFilter \notin Range(CommOf)
  /\ PidOf \in [Threads -> Range(PidOf)]
  /\ UidOf \in [Threads -> Range(UidOf)]
  /\ CommOf \in [Threads -> Range(CommOf)]
  /\ Options \subseteq
       [pid : Range(PidOf) \union {NoFilter}, uid : Range(UidOf) \union {NoFilter},
        comm : Range(CommOf) \union {NoFilter}, handshake : BOOLEAN]
  /\ MaxEntries \in Nat \ {0} /\ RingMax \in Nat \ {0}
  /\ MaxBuf \in Nat \ {0} /\ MaskLen \in Nat \ {0} /\ MaxBuf < MaskLen
  /\ Lens \subseteq Nat \ {0}
  /\ MaxCalls \in Nat

\* The functions probed: SSL_read and SSL_write and their GnuTLS and NSS
\* kin, SSL_read_ex and SSL_write_ex, SSL_do_handshake.
Fns == {"rw", "ex", "handshake"}

VARIABLES
  options,         \* the command line
  calls,           \* thread -> the calls it is in, innermost first
  count,           \* calls so far; a call is known by its number
  bufs,            \* thread -> the call whose buffer is remembered
  start_ns,        \* thread -> the call whose start is remembered
  readbytes_ptrs,  \* thread -> the call whose length pointer is remembered
  ring,            \* the ring buffer
  out,             \* the lines the last step printed
  killed,          \* history: threads killed inside a call
  missed,          \* history: calls that did something and left no event
  excused          \* history: calls that met a full map or ring, or whose
                   \* nested handshake took their start time

vars == <<options, calls, count, bufs, start_ns, readbytes_ptrs, ring, out, killed, missed, excused>>

Ids == 1 .. MaxCalls

Call == [id : Ids, fn : Fns]

Event == [tid : Threads, fn : Fns, id : Ids, buf : Ids, start : Ids, len : Lens \union {1}, filled : BOOLEAN, size : 0 .. MaxBuf]

PartialMap == UNION {[D -> Ids] : D \in SUBSET Threads}

TypeOK ==
  /\ options \in Options
  /\ calls \in [Threads -> Seq(Call)]
  /\ count \in 0 .. MaxCalls
  /\ \A m \in {bufs, start_ns, readbytes_ptrs} :
       m \in PartialMap /\ Cardinality(DOMAIN m) <= MaxEntries
  /\ ring \in Seq(Event) /\ Len(ring) <= RingMax
  /\ \A l \in out : l.event \in Event /\ l.truncated \in BOOLEAN
  /\ killed \subseteq Threads
  /\ missed \subseteq Call /\ excused \subseteq Ids

Init ==
  /\ options \in Options
  /\ calls = [t \in Threads |-> <<>>]
  /\ count = 0
  /\ bufs = [t \in {} |-> 0] /\ start_ns = bufs /\ readbytes_ptrs = bufs
  /\ ring = <<>>
  /\ out = {}
  /\ killed = {} /\ missed = {} /\ excused = {}

-----------------------------------------------------------------------------
HasRoom(m, t) == t \in DOMAIN m \/ Cardinality(DOMAIN m) < MaxEntries

With(m, t, id) == [u \in DOMAIN m \union {t} |-> IF u = t THEN id ELSE m[u]]

\* A mutant: a map takes any number of entries.
PutAlways(m, t, id) == With(m, t, id)

\* A mutant: BPF_NOEXIST for BPF_ANY.
PutNew(m, t, id) == IF t \notin DOMAIN m /\ HasRoom(m, t) THEN With(m, t, id) ELSE m

\* bpf_map_update_elem with BPF_ANY, whose failure no probe looks at.
Put(m, t, id) == IF HasRoom(m, t) THEN With(m, t, id) ELSE m

\* bpf_map_delete_elem
Del(m, t) == Restrict(m, DOMAIN m \ {t})

\* trace_allowed
TraceAllowed(uid, pid) ==
  /\ options.pid \in {NoFilter, pid}
  /\ options.uid \in {NoFilter, uid}

Allowed(t) == TraceAllowed(UidOf[t], PidOf[t])

\* The return probe of SSL_do_handshake passes a process id for the user id.
HandshakeAllowed(t) == TraceAllowed(PidOf[t], PidOf[t])

Inner(t) == Head(calls[t])

\* What the *_ex probes copy of len bytes, and what the others do.
ExSize(len) == Min({len % MaskLen, MaxBuf})

\* A mutant: the others mask the length too.
RwSizeMasked(len) == Min({len % MaskLen, MaxBuf})

RwSize(len) == Min({len, MaxBuf})

-----------------------------------------------------------------------------
\* Entry probes

\* What every call does besides its probe.
Begin(t, fn) ==
  /\ count < MaxCalls
  /\ count' = count + 1
  /\ calls' = [calls EXCEPT ![t] = <<[id |-> count + 1, fn |-> fn]>> \o @]
  /\ out' = {}
  /\ UNCHANGED <<options, ring, killed, missed>>

Excuse(id, met) == excused' = IF met THEN excused \union {id} ELSE excused

\* probe_SSL_rw_enter, probe_SSL_read_ex_enter, probe_SSL_write_ex_enter
Enter(t, fn) ==
  LET id == count + 1
  IN  /\ fn # "handshake" /\ calls[t] = <<>>
      /\ Begin(t, fn)
      /\ bufs' = IF Allowed(t) THEN Put(bufs, t, id) ELSE bufs
      /\ start_ns' = IF Allowed(t) THEN Put(start_ns, t, id) ELSE start_ns
      /\ readbytes_ptrs' = IF Allowed(t) /\ fn = "ex" THEN Put(readbytes_ptrs, t, id) ELSE readbytes_ptrs
      /\ Excuse(id, \E m \in {bufs, start_ns} \union (IF fn = "ex" THEN {readbytes_ptrs} ELSE {}) : ~HasRoom(m, t))

\* probe_SSL_do_handshake_enter
EnterHandshake(t) ==
  /\ \A c \in Range(calls[t]) : c.fn # "handshake"
  /\ Begin(t, "handshake")
  /\ start_ns' = IF Allowed(t) THEN Put(start_ns, t, count + 1) ELSE start_ns
  /\ Excuse(count + 1, ~HasRoom(start_ns, t))
  /\ UNCHANGED <<bufs, readbytes_ptrs>>

-----------------------------------------------------------------------------
\* Return probes

\* A call that did something leaves an event or is missed.
Return(t, event, due) ==
  /\ calls' = [calls EXCEPT ![t] = Tail(@)]
  /\ ring' = ring \o event
  /\ missed' = IF due /\ event = <<>> THEN missed \union {Inner(t)} ELSE missed
  /\ out' = {}
  /\ UNCHANGED <<options, count, killed>>

RingFull == Len(ring) >= RingMax

\* SSL_exit, and ex_SSL_exit, which differs in the size copied.  Without data,
\* or room in the ring, the thread's entries stay.  The copy may fault.
Transfer(t, len, copied) ==
  LET reported == Allowed(t) /\ t \in DOMAIN bufs /\ t \in DOMAIN start_ns /\ len > 0 /\ ~RingFull
  IN  /\ IF reported
         THEN \E filled \in BOOLEAN :
                Return(t, <<[tid |-> t, fn |-> Inner(t).fn, id |-> Inner(t).id, buf |-> bufs[t],
                             start |-> start_ns[t], len |-> len, filled |-> filled,
                             size |-> IF filled THEN copied ELSE 0]>>, TRUE)
         ELSE Return(t, <<>>, Allowed(t) /\ len > 0)
      /\ bufs' = IF reported THEN Del(bufs, t) ELSE bufs
      /\ start_ns' = IF reported THEN Del(start_ns, t) ELSE start_ns
      /\ Excuse(Inner(t).id, RingFull)

\* probe_SSL_read_exit, probe_SSL_write_exit; a call that fails has len 0.
ExitRw(t, len) ==
  /\ calls[t] # <<>> /\ Inner(t).fn = "rw"
  /\ Transfer(t, len, RwSize(len))
  /\ UNCHANGED readbytes_ptrs

\* A mutant: the length pointer goes only with data.
PtrsIfData(t, len) == IF len > 0 THEN Del(readbytes_ptrs, t) ELSE readbytes_ptrs

\* The length pointer goes before anything else is decided.
PtrsAfter(t, len) == Del(readbytes_ptrs, t)

\* probe_SSL_read_ex_exit, probe_SSL_write_ex_exit.  Without a length pointer
\* nothing happens.
ExitEx(t, len) ==
  /\ calls[t] # <<>> /\ Inner(t).fn = "ex"
  /\ IF t \in DOMAIN readbytes_ptrs
     THEN Transfer(t, len, ExSize(len))
     ELSE Return(t, <<>>, Allowed(t) /\ len > 0) /\ UNCHANGED <<bufs, start_ns, excused>>
  /\ readbytes_ptrs' = PtrsAfter(t, len)

\* A mutant: a handshake that fails drops the start time too.
StartDropped(t, reported) == Del(start_ns, t)

\* A handshake that is reported takes the start time with it, from under the
\* call it runs in.
StartAfterHandshake(t, reported) == IF reported THEN Del(start_ns, t) ELSE start_ns

\* probe_SSL_do_handshake_exit
ExitHandshake(t, ok) ==
  LET reported == HandshakeAllowed(t) /\ t \in DOMAIN start_ns /\ ok /\ ~RingFull
      event    == [tid |-> t, fn |-> "handshake", id |-> Inner(t).id, buf |-> Inner(t).id,
                   start |-> start_ns[t], len |-> 1, filled |-> FALSE, size |-> 0]
  IN  /\ calls[t] # <<>> /\ Inner(t).fn = "handshake"
      /\ Return(t, IF reported THEN <<event>> ELSE <<>>, Allowed(t) /\ ok)
      /\ start_ns' = StartAfterHandshake(t, reported)
      /\ excused' = excused \union
           {c.id : c \in IF reported THEN Range(Tail(calls[t])) ELSE IF RingFull THEN {Inner(t)} ELSE {}}
      /\ UNCHANGED <<bufs, readbytes_ptrs>>

\* A thread is killed in a call, or unwinds past the return probe, and its
\* number may be given to another thread.
Kill(t) ==
  /\ calls[t] # <<>>
  /\ calls' = [calls EXCEPT ![t] = <<>>]
  /\ killed' = killed \union {t}
  /\ out' = {}
  /\ UNCHANGED <<options, count, bufs, start_ns, readbytes_ptrs, ring, missed, excused>>

-----------------------------------------------------------------------------
\* A line without data is never marked.
Truncated(e) == e.size > 0 /\ e.size < e.len

\* handle_event and print_event, for the event at the head of the ring
Poll ==
  LET e == Head(ring)
      shown == /\ e.fn = "handshake" => options.handshake
               /\ options.comm \in {NoFilter, CommOf[e.tid]}
  IN  /\ ring # <<>>
      /\ ring' = Tail(ring)
      /\ out' = IF shown THEN {[event |-> e, truncated |-> Truncated(e)]} ELSE {}
      /\ UNCHANGED <<options, calls, count, bufs, start_ns, readbytes_ptrs, killed, missed, excused>>

Next ==
  \/ \E t \in Threads, fn \in Fns : Enter(t, fn)
  \/ \E t \in Threads : EnterHandshake(t) \/ Kill(t)
  \/ \E t \in Threads, len \in Lens \union {0} : ExitRw(t, len) \/ ExitEx(t, len)
  \/ \E t \in Threads, ok \in BOOLEAN : ExitHandshake(t, ok)
  \/ Poll

Spec == Init /\ [][Next]_vars

-----------------------------------------------------------------------------

\* An event carries the buffer of the call whose return made it, and a start
\* time no older than that call (a handshake inside the call may have set it
\* again): what a failed or killed call leaves in a map is never joined with a
\* later call of the same thread.
JoinsOwnCall == \A e \in Range(ring) : e.buf = e.id /\ e.start >= e.id

\* A read or write of a traced thread that moved data is reported, unless a
\* hash map or the ring was full or a handshake that succeeded inside it took
\* its start time.  With -u this is not so for handshakes.
NoUnexplainedLoss ==
  \A c \in missed : c.id \in excused \/ (c.fn = "handshake" /\ options.uid # NoFilter)

\* A length pointer is held only during the call that passed it, or for a
\* thread that was killed in one: failed calls do not fill that map.
PtrsDropped ==
  \A t \in DOMAIN readbytes_ptrs :
    t \in killed \/ \E c \in Range(calls[t]) : c = [id |-> readbytes_ptrs[t], fn |-> "ex"]

\* What a reader may make of a line that is not marked as truncated: it has all
\* that the call moved, or nothing, and nothing only if the copy faulted or the
\* *_ex probes' mask made zero of the length.  A marked line has the beginning: a
\* full buffer, or less only from an *_ex call of more than the mask keeps.
CutsTold ==
  \A l \in out : LET e == l.event IN e.fn # "handshake" =>
    /\ \/ l.truncated
       \/ e.size = e.len
       \/ e.size = 0 /\ (~e.filled \/ (e.fn = "ex" /\ e.len % MaskLen = 0))
    /\ l.truncated =>
         /\ e.size \in 1 .. e.len - 1
         /\ e.size = MaxBuf \/ (e.fn = "ex" /\ e.len > MaskLen)

\* bpf/README.md: `-h` shows "SSL handshake events", and `-c "python" -u 1000 -h`
\* is one of its examples.  No handshake is reported with -u, unless a process's
\* number is that of the user.
HandshakesReported == \A c \in missed : c.fn = "handshake" => c.id \in excused
=============================================================================
