------------------------------ MODULE SslProofs ------------------------------
(***************************************************************************)
(* What holds of the TLS sniffer for every set of threads, every capacity  *)
(* of the maps and of the ring, and every length of data.                  *)
(***************************************************************************)
EXTENDS SslSniff, SequenceTheorems, FiniteSetTheorems, TLAPS

-----------------------------------------------------------------------------
\* The operators of the maps

LEMMA PartialMapFunction ==
  ASSUME NEW m
  PROVE  m \in PartialMap <=> m \in [DOMAIN m -> Ids] /\ DOMAIN m \subseteq Threads
BY DEF PartialMap

\* What an update leaves in a map, whether it had room or not.
LEMMA PutProperties ==
  ASSUME NEW m \in PartialMap, NEW t \in Threads, NEW id \in Ids
  PROVE  /\ Put(m, t, id) \in PartialMap
         /\ HasRoom(m, t) => DOMAIN Put(m, t, id) = DOMAIN m \union {t}
         /\ ~HasRoom(m, t) => Put(m, t, id) = m
         /\ \A u : u # t => (u \in DOMAIN Put(m, t, id) <=> u \in DOMAIN m)
         /\ t \in DOMAIN m \/ HasRoom(m, t) => t \in DOMAIN Put(m, t, id)
         /\ t \in DOMAIN Put(m, t, id) => Put(m, t, id)[t] = id
         /\ \A u \in DOMAIN m : u # t => Put(m, t, id)[u] = m[u]
<1>1. m \in [DOMAIN m -> Ids] /\ DOMAIN m \subseteq Threads
  BY PartialMapFunction
<1>2. CASE HasRoom(m, t)
  <2>1. Put(m, t, id) = [u \in DOMAIN m \union {t} |-> IF u = t THEN id ELSE m[u]]
    BY <1>2 DEF Put, With
  <2>2. Put(m, t, id) \in [DOMAIN m \union {t} -> Ids]
    BY <1>1, <2>1
  <2> QED
    BY <1>1, <1>2, <2>1, <2>2 DEF PartialMap
<1>3. CASE ~HasRoom(m, t)
  BY <1>3 DEF Put, HasRoom
<1> QED
  BY <1>2, <1>3

\* What a deletion leaves.
LEMMA DelProperties ==
  ASSUME NEW m \in PartialMap, NEW t \in Threads
  PROVE  /\ Del(m, t) \in PartialMap
         /\ DOMAIN Del(m, t) = DOMAIN m \ {t}
         /\ \A u \in DOMAIN m : u # t => Del(m, t)[u] = m[u]
<1>1. m \in [DOMAIN m -> Ids] /\ DOMAIN m \subseteq Threads
  BY PartialMapFunction
<1>2. Del(m, t) = [u \in DOMAIN m \ {t} |-> m[u]]
  BY DEF Del, Restrict
<1>3. Del(m, t) \in [DOMAIN m \ {t} -> Ids]
  BY <1>1, <1>2
<1> QED
  BY <1>1, <1>2, <1>3 DEF PartialMap

\* A map with no more entries than it can hold.
Bounded(m) == m \in PartialMap /\ IsFiniteSet(DOMAIN m) /\ Cardinality(DOMAIN m) <= MaxEntries

LEMMA PutBounded ==
  ASSUME NEW m, Bounded(m), NEW t \in Threads, NEW id \in Ids
  PROVE  Bounded(Put(m, t, id))
<1> DEFINE D == DOMAIN m
<1>1. /\ IsFiniteSet(D \union {t})
      /\ Cardinality(D \union {t}) = IF t \in D THEN Cardinality(D) ELSE Cardinality(D) + 1
  BY FS_AddElement DEF Bounded
<1>2. Cardinality(D) \in Nat /\ MaxEntries \in Nat
  BY FS_CardinalityType, SniffAssumption DEF Bounded
<1>3. HasRoom(m, t) => Cardinality(D \union {t}) <= MaxEntries
  BY <1>1, <1>2 DEF HasRoom, Bounded
<1> QED
  <2>1. CASE HasRoom(m, t)
    BY <1>1, <1>3, <2>1, PutProperties DEF Bounded
  <2>2. CASE ~HasRoom(m, t)
    BY <2>2, PutProperties DEF Bounded
  <2> QED
    BY <2>1, <2>2

LEMMA DelBounded ==
  ASSUME NEW m, Bounded(m), NEW t \in Threads
  PROVE  Bounded(Del(m, t))
<1> DEFINE D == DOMAIN m
<1>1. IsFiniteSet(D \ {t}) /\ Cardinality(D \ {t}) <= Cardinality(D)
  BY FS_Subset DEF Bounded
<1>2. Cardinality(D) \in Nat /\ Cardinality(D \ {t}) \in Nat /\ MaxEntries \in Nat
  BY <1>1, FS_CardinalityType, SniffAssumption DEF Bounded
<1>3. Cardinality(D \ {t}) <= MaxEntries
  BY <1>1, <1>2 DEF Bounded
<1> QED
  BY <1>1, <1>3, DelProperties DEF Bounded

-----------------------------------------------------------------------------
\* Calls within calls

LEMMA PushProperties ==
  ASSUME NEW s \in Seq(Call), NEW c \in Call
  PROVE  /\ <<c>> \o s \in Seq(Call)
         /\ Len(<<c>> \o s) = Len(s) + 1
         /\ (<<c>> \o s)[1] = c
         /\ \A i \in 1 .. Len(s) : (<<c>> \o s)[i + 1] = s[i]
         /\ Range(<<c>> \o s) = {c} \union Range(s)
<1>1. <<c>> \in Seq(Call) /\ Len(<<c>>) = 1 /\ <<c>>[1] = c /\ Len(s) \in Nat
  OBVIOUS
<1>2. Range(<<c>>) = {c}
  <2>1. Range(<<c>>) = {<<c>>[i] : i \in 1 .. 1}
    BY <1>1, RangeEquality, Zenon
  <2>2. 1 .. 1 = {1}
    OBVIOUS
  <2>3. {<<c>>[i] : i \in {1}} = {c}
    BY <1>1
  <2> QED
    BY <2>1, <2>2, <2>3
<1>3. Range(<<c>> \o s) = Range(<<c>>) \union Range(s)
  BY <1>1, RangeConcatenation, Zenon
<1>4. /\ <<c>> \o s \in Seq(Call)
      /\ Len(<<c>> \o s) = 1 + Len(s)
      /\ \A i \in 1 .. 1 + Len(s) : (<<c>> \o s)[i] = IF i <= 1 THEN <<c>>[i] ELSE s[i - 1]
  BY <1>1, ConcatProperties
<1> QED
  BY <1>1, <1>2, <1>3, <1>4

LEMMA PopProperties ==
  ASSUME NEW s \in Seq(Call), s # <<>>
  PROVE  /\ Head(s) \in Call /\ Head(s) = s[1] /\ Head(s) \in Range(s)
         /\ Tail(s) \in Seq(Call)
         /\ Len(Tail(s)) = Len(s) - 1
         /\ \A i \in 1 .. Len(s) - 1 : Tail(s)[i] = s[i + 1]
         /\ Range(s) = {Head(s)} \union Range(Tail(s))
<1>1. Len(s) \in Nat \ {0} /\ Head(s) = s[1]
  OBVIOUS
<1>2. /\ Head(s) \in Call
      /\ Tail(s) \in Seq(Call)
      /\ Len(Tail(s)) = Len(s) - 1
      /\ \A i \in 1 .. Len(Tail(s)) : Tail(s)[i] = s[i + 1]
  BY HeadTailProperties
<1>3. /\ Range(s) = {s[i] : i \in 1 .. Len(s)}
      /\ Range(Tail(s)) = {Tail(s)[i] : i \in 1 .. Len(Tail(s))}
  BY <1>2, RangeEquality
<1>4. \A i \in 1 .. Len(s) : i = 1 \/ (i - 1 \in 1 .. Len(s) - 1 /\ s[i] = Tail(s)[i - 1])
  BY <1>1, <1>2
<1>5. Range(s) \subseteq {s[1]} \union Range(Tail(s))
  BY <1>2, <1>3, <1>4
<1>6. {s[1]} \union Range(Tail(s)) \subseteq Range(s)
  <2>1. s[1] \in Range(s)
    BY <1>1, <1>3
  <2>2. ASSUME NEW i \in 1 .. Len(s) - 1 PROVE s[i + 1] \in Range(s)
    BY <1>1, <1>3
  <2> QED
    BY <1>2, <1>3, <2>1, <2>2
<1> QED
  BY <1>1, <1>2, <1>5, <1>6

LEMMA MinProperties ==
  ASSUME NEW a \in Nat, NEW b \in Nat
  PROVE  Min({a, b}) = IF a <= b THEN a ELSE b
<1>1. \E x \in {a, b} : \A y \in {a, b} : x <= y
  OBVIOUS
<1>2. Min({a, b}) \in {a, b} /\ \A y \in {a, b} : Min({a, b}) <= y
  BY <1>1 DEF Min
<1> QED
  BY <1>2

-----------------------------------------------------------------------------
\* Types

Maps == /\ Bounded(bufs)
        /\ Bounded(start_ns)
        /\ Bounded(readbytes_ptrs)

Line == [event : Event, truncated : BOOLEAN]

\* The type invariant with finite maps.
Typed ==
  /\ TypeOK
  /\ Maps

LEMMA TypedSuffices ==
  ASSUME options \in Options,
         calls \in [Threads -> Seq(Call)],
         count \in 0 .. MaxCalls,
         Maps,
         ring \in Seq(Event), Len(ring) <= RingMax,
         \A l \in out : l.event \in Event /\ l.truncated \in BOOLEAN,
         killed \subseteq Threads,
         missed \subseteq Call, excused \subseteq Ids
  PROVE  Typed
BY DEF Typed, TypeOK, Maps, Bounded

\* The call a thread is in is a call, and so is what remains when it returns.
LEMMA InnerType ==
  ASSUME Typed, NEW t \in Threads, calls[t] # <<>>
  PROVE  /\ Inner(t) \in Call
         /\ Inner(t) \in Range(calls[t])
         /\ Tail(calls[t]) \in Seq(Call)
         /\ Range(Tail(calls[t])) \subseteq Range(calls[t])
<1>1. calls[t] \in Seq(Call)
  BY DEF Typed, TypeOK
<1> QED
  BY <1>1, PopProperties DEF Inner

\* Beginning a call keeps the types of what it touches.
LEMMA BeginType ==
  ASSUME Typed, NEW t \in Threads, NEW fn \in Fns, Begin(t, fn)
  PROVE  /\ options' \in Options
         /\ calls' \in [Threads -> Seq(Call)]
         /\ count' \in 0 .. MaxCalls
         /\ count + 1 \in Ids
         /\ [id |-> count + 1, fn |-> fn] \in Call
         /\ ring' \in Seq(Event) /\ Len(ring') <= RingMax
         /\ out' = {}
         /\ killed' \subseteq Threads
         /\ missed' \subseteq Call
<1>1. count + 1 \in Ids /\ count + 1 \in 0 .. MaxCalls
  BY SniffAssumption DEF Typed, TypeOK, Begin, Ids
<1>2. [id |-> count + 1, fn |-> fn] \in Call
  BY <1>1 DEF Call
<1>3. calls[t] \in Seq(Call) /\ calls \in [Threads -> Seq(Call)]
  BY DEF Typed, TypeOK
<1>4. <<[id |-> count + 1, fn |-> fn]>> \o calls[t] \in Seq(Call)
  BY <1>2, <1>3, PushProperties
<1>5. calls' = [calls EXCEPT ![t] = <<[id |-> count + 1, fn |-> fn]>> \o calls[t]]
  BY DEF Begin
<1>6. calls' \in [Threads -> Seq(Call)]
  BY <1>3, <1>4, <1>5
<1> QED
  BY <1>1, <1>2, <1>6 DEF Typed, TypeOK, Begin

\* Returning with an event, or without one, keeps the types of what it touches.
LEMMA ReturnType ==
  ASSUME Typed, NEW t \in Threads, calls[t] # <<>>, NEW event, NEW due \in BOOLEAN,
         Return(t, event, due),
         event = <<>> \/ (~RingFull /\ \E e \in Event : event = <<e>>)
  PROVE  /\ options' \in Options
         /\ calls' \in [Threads -> Seq(Call)]
         /\ count' \in 0 .. MaxCalls
         /\ ring' \in Seq(Event) /\ Len(ring') <= RingMax
         /\ out' = {}
         /\ killed' \subseteq Threads
         /\ missed' \subseteq Call
<1>1. Inner(t) \in Call /\ Tail(calls[t]) \in Seq(Call)
  BY InnerType
<1>2. calls' \in [Threads -> Seq(Call)]
  <2>1. calls' = [calls EXCEPT ![t] = Tail(calls[t])]
    BY DEF Return
  <2> QED
    BY <1>1, <2>1 DEF Typed, TypeOK
<1>3. ring' \in Seq(Event) /\ Len(ring') <= RingMax
  <2>1. ring \in Seq(Event) /\ Len(ring) \in Nat /\ Len(ring) <= RingMax /\ ring' = ring \o event
    BY DEF Typed, TypeOK, Return
  <2>2. CASE event = <<>>
    <3>1. ring' = ring
      BY <2>1, <2>2, ConcatEmptySeq
    <3> QED
      BY <2>1, <3>1
  <2>3. CASE ~RingFull /\ \E e \in Event : event = <<e>>
    <3>1. PICK e \in Event : event = <<e>>
      BY <2>3
    <3>2. <<e>> \in Seq(Event) /\ Len(<<e>>) = 1
      OBVIOUS
    <3>3. ring \o <<e>> \in Seq(Event) /\ Len(ring \o <<e>>) = Len(ring) + 1
      BY <2>1, <3>2, ConcatProperties
    <3>4. Len(ring) + 1 <= RingMax
      BY <2>1, <2>3, SniffAssumption DEF RingFull
    <3> QED
      BY <2>1, <3>1, <3>3, <3>4
  <2> QED
    BY <2>2, <2>3
<1>4. missed' \subseteq Call
  BY <1>1 DEF Return, Typed, TypeOK
<1> QED
  BY <1>2, <1>3, <1>4 DEF Return, Typed, TypeOK

\* An event of a transfer is an event.
TransferEvent(t, len, filled, copied) ==
  [tid |-> t, fn |-> Inner(t).fn, id |-> Inner(t).id, buf |-> bufs[t],
   start |-> start_ns[t], len |-> len, filled |-> filled, size |-> IF filled THEN copied ELSE 0]

Reported(t, len) ==
  Allowed(t) /\ t \in DOMAIN bufs /\ t \in DOMAIN start_ns /\ len > 0 /\ ~RingFull

LEMMA TransferEventType ==
  ASSUME Typed, NEW t \in Threads, calls[t] # <<>>, NEW len \in Lens \union {0},
         NEW copied \in 0 .. MaxBuf, NEW filled \in BOOLEAN, Reported(t, len)
  PROVE  TransferEvent(t, len, filled, copied) \in Event
<1>1. Inner(t).id \in Ids /\ Inner(t).fn \in Fns
  BY InnerType DEF Call
<1>2. bufs[t] \in Ids /\ start_ns[t] \in Ids
  BY PartialMapFunction DEF Typed, Maps, Bounded, Reported
<1>3. len \in Lens
  BY SniffAssumption DEF Reported
<1>4. (IF filled THEN copied ELSE 0) \in 0 .. MaxBuf
  BY SniffAssumption
<1> QED
  BY <1>1, <1>2, <1>3, <1>4 DEF TransferEvent, Event

\* What a transfer does, in two cases.
LEMMA TransferCases ==
  ASSUME NEW t, NEW len, NEW copied, Transfer(t, len, copied)
  PROVE  /\ excused' = IF RingFull THEN excused \union {Inner(t).id} ELSE excused
         /\ \/ /\ Reported(t, len)
               /\ \E filled \in BOOLEAN : Return(t, <<TransferEvent(t, len, filled, copied)>>, TRUE)
               /\ bufs' = Del(bufs, t)
               /\ start_ns' = Del(start_ns, t)
            \/ /\ ~Reported(t, len)
               /\ Return(t, <<>>, Allowed(t) /\ len > 0)
               /\ UNCHANGED <<bufs, start_ns>>
<1>1. CASE Reported(t, len)
  BY <1>1 DEF Transfer, Reported, TransferEvent, Excuse
<1>2. CASE ~Reported(t, len)
  BY <1>2 DEF Transfer, Reported, TransferEvent, Excuse
<1> QED
  BY <1>1, <1>2

LEMMA SizeType ==
  ASSUME NEW len \in Nat
  PROVE  /\ RwSize(len) \in 0 .. MaxBuf /\ RwSize(len) = IF len <= MaxBuf THEN len ELSE MaxBuf
         /\ ExSize(len) \in 0 .. MaxBuf
         /\ ExSize(len) = IF len % MaskLen <= MaxBuf THEN len % MaskLen ELSE MaxBuf
<1>1. MaxBuf \in Nat /\ MaskLen \in Nat \ {0}
  BY SniffAssumption
<1>2. len % MaskLen \in Nat
  BY <1>1
<1>3. RwSize(len) = IF len <= MaxBuf THEN len ELSE MaxBuf
  BY <1>1, MinProperties DEF RwSize
<1>4. ExSize(len) = IF len % MaskLen <= MaxBuf THEN len % MaskLen ELSE MaxBuf
  BY <1>1, <1>2, MinProperties DEF ExSize
<1> QED
  BY <1>1, <1>2, <1>3, <1>4

LEMMA TypedTransfer ==
  ASSUME Typed, NEW t \in Threads, calls[t] # <<>>, NEW len \in Lens \union {0},
         NEW copied \in 0 .. MaxBuf, Transfer(t, len, copied), Bounded(readbytes_ptrs')
  PROVE  Typed'
<1>1. excused' \subseteq Ids
  <2>1. Inner(t).id \in Ids
    BY InnerType DEF Call
  <2>2. excused' \in {excused, excused \union {Inner(t).id}}
    BY TransferCases
  <2> QED
    BY <2>1, <2>2 DEF Typed, TypeOK
<1>2. Allowed(t) \in BOOLEAN /\ (Allowed(t) /\ len > 0) \in BOOLEAN
  BY DEF Allowed, TraceAllowed
<1>3. CASE Reported(t, len)
  <2>1. PICK filled \in BOOLEAN : Return(t, <<TransferEvent(t, len, filled, copied)>>, TRUE)
    BY <1>3, TransferCases
  <2>2. TransferEvent(t, len, filled, copied) \in Event /\ ~RingFull
    BY <1>3, TransferEventType DEF Reported
  <2>3. bufs' = Del(bufs, t) /\ start_ns' = Del(start_ns, t)
    BY <1>3, TransferCases
  <2>4. Bounded(bufs') /\ Bounded(start_ns')
    BY <2>3, DelBounded DEF Typed, Maps
  <2>5. /\ options' \in Options
        /\ calls' \in [Threads -> Seq(Call)]
        /\ count' \in 0 .. MaxCalls
        /\ ring' \in Seq(Event) /\ Len(ring') <= RingMax
        /\ out' = {}
        /\ killed' \subseteq Threads
        /\ missed' \subseteq Call
    BY <2>1, <2>2, ReturnType
  <2> QED
    BY <1>1, <2>4, <2>5 DEF Typed, TypeOK, Maps, Bounded
<1>4. CASE ~Reported(t, len)
  <2>1. Return(t, <<>>, Allowed(t) /\ len > 0) /\ bufs' = bufs /\ start_ns' = start_ns
    BY <1>4, TransferCases
  <2>2. /\ options' \in Options
        /\ calls' \in [Threads -> Seq(Call)]
        /\ count' \in 0 .. MaxCalls
        /\ ring' \in Seq(Event) /\ Len(ring') <= RingMax
        /\ out' = {}
        /\ killed' \subseteq Threads
        /\ missed' \subseteq Call
    BY <1>2, <2>1, ReturnType
  <2> QED
    BY <1>1, <2>1, <2>2 DEF Typed, TypeOK, Maps, Bounded
<1> QED
  BY <1>3, <1>4

\* Every step keeps the types.
LEMMA TypedNext == Typed /\ [Next]_vars => Typed'
<1> SUFFICES ASSUME Typed, [Next]_vars PROVE Typed'
  OBVIOUS
<1> USE DEF Maps
<1>1. ASSUME NEW t \in Threads, NEW fn \in Fns, Enter(t, fn) PROVE Typed'
  <2>1. Begin(t, fn)
    BY <1>1 DEF Enter
  <2>2. /\ bufs' \in {bufs, Put(bufs, t, count + 1)}
        /\ start_ns' \in {start_ns, Put(start_ns, t, count + 1)}
        /\ readbytes_ptrs' \in {readbytes_ptrs, Put(readbytes_ptrs, t, count + 1)}
        /\ excused' \in {excused, excused \union {count + 1}}
    BY <1>1 DEF Enter, Excuse
  <2>3. Bounded(bufs') /\ Bounded(start_ns') /\ Bounded(readbytes_ptrs')
    <3>1. count + 1 \in Ids
      BY <2>1, BeginType
    <3>2. ASSUME NEW m, Bounded(m) PROVE Bounded(Put(m, t, count + 1))
      BY <3>1, <3>2, PutBounded
    <3>3. Bounded(bufs) /\ Bounded(start_ns) /\ Bounded(readbytes_ptrs)
      BY DEF Typed
    <3> QED
      BY <2>2, <3>2, <3>3, Zenon
  <2>4. excused' \subseteq Ids
    BY <2>1, <2>2, BeginType DEF Typed, TypeOK
  <2> QED
    BY <2>1, <2>3, <2>4, BeginType DEF Typed, TypeOK, Bounded
<1>2. ASSUME NEW t \in Threads, EnterHandshake(t) PROVE Typed'
  <2>1. Begin(t, "handshake") /\ "handshake" \in Fns
    BY <1>2 DEF EnterHandshake, Fns
  <2>2. /\ bufs' = bufs /\ readbytes_ptrs' = readbytes_ptrs
        /\ start_ns' \in {start_ns, Put(start_ns, t, count + 1)}
        /\ excused' \in {excused, excused \union {count + 1}}
    BY <1>2 DEF EnterHandshake, Excuse
  <2>3. Bounded(bufs') /\ Bounded(start_ns') /\ Bounded(readbytes_ptrs')
    BY <2>1, <2>2, BeginType, PutBounded DEF Typed
  <2>4. excused' \subseteq Ids
    BY <2>1, <2>2, BeginType DEF Typed, TypeOK
  <2> QED
    BY <2>1, <2>3, <2>4, BeginType DEF Typed, TypeOK, Bounded
<1>3. ASSUME NEW t \in Threads, NEW len \in Lens \union {0}, ExitRw(t, len) PROVE Typed'
  <2>1. /\ calls[t] # <<>>
        /\ Transfer(t, len, RwSize(len))
        /\ Bounded(readbytes_ptrs')
        /\ RwSize(len) \in 0 .. MaxBuf
    BY <1>3, SizeType, SniffAssumption DEF ExitRw, Typed
  <2> QED
    BY <2>1, TypedTransfer
<1>4. ASSUME NEW t \in Threads, NEW len \in Lens \union {0}, ExitEx(t, len) PROVE Typed'
  <2>1. calls[t] # <<>> /\ Bounded(readbytes_ptrs')
    BY <1>4, DelBounded DEF ExitEx, PtrsAfter, Typed
  <2>2. CASE t \in DOMAIN readbytes_ptrs
    <3>1. Transfer(t, len, ExSize(len)) /\ ExSize(len) \in 0 .. MaxBuf
      BY <1>4, <2>2, SizeType, SniffAssumption DEF ExitEx
    <3> QED
      BY <2>1, <3>1, TypedTransfer
  <2>3. CASE t \notin DOMAIN readbytes_ptrs
    <3>1. Return(t, <<>>, Allowed(t) /\ len > 0) /\ UNCHANGED <<bufs, start_ns, excused>>
      BY <1>4, <2>3 DEF ExitEx
    <3>2. (Allowed(t) /\ len > 0) \in BOOLEAN
      OBVIOUS
    <3>3. /\ options' \in Options
          /\ calls' \in [Threads -> Seq(Call)]
          /\ count' \in 0 .. MaxCalls
          /\ ring' \in Seq(Event) /\ Len(ring') <= RingMax
          /\ out' = {}
          /\ killed' \subseteq Threads
          /\ missed' \subseteq Call
      BY <2>1, <3>1, <3>2, ReturnType
    <3> QED
      BY <2>1, <3>1, <3>3 DEF Typed, TypeOK, Bounded
  <2> QED
    BY <2>2, <2>3
<1>5. ASSUME NEW t \in Threads, NEW ok \in BOOLEAN, ExitHandshake(t, ok) PROVE Typed'
  <2> DEFINE reported == HandshakeAllowed(t) /\ t \in DOMAIN start_ns /\ ok /\ ~RingFull
             event    == [tid |-> t, fn |-> "handshake", id |-> Inner(t).id, buf |-> Inner(t).id,
                          start |-> start_ns[t], len |-> 1, filled |-> FALSE, size |-> 0]
             events   == IF reported THEN <<event>> ELSE <<>>
  <2>1. /\ calls[t] # <<>>
        /\ Return(t, events, Allowed(t) /\ ok)
        /\ start_ns' \in {start_ns, Del(start_ns, t)}
        /\ bufs' = bufs /\ readbytes_ptrs' = readbytes_ptrs
    BY <1>5 DEF ExitHandshake, StartAfterHandshake
  <2>2. reported => event \in Event
    <3>1. Inner(t).id \in Ids
      BY <2>1, InnerType DEF Call
    <3>2. t \in DOMAIN start_ns => start_ns[t] \in Ids
      BY PartialMapFunction DEF Typed, Bounded
    <3> QED
      BY <3>1, <3>2, SniffAssumption DEF Event, Fns
  <2>3. events = <<>> \/ (~RingFull /\ \E e \in Event : events = <<e>>)
    BY <2>2
  <2>4. /\ options' \in Options
        /\ calls' \in [Threads -> Seq(Call)]
        /\ count' \in 0 .. MaxCalls
        /\ ring' \in Seq(Event) /\ Len(ring') <= RingMax
        /\ out' = {}
        /\ killed' \subseteq Threads
        /\ missed' \subseteq Call
    <3>1. (Allowed(t) /\ ok) \in BOOLEAN
      OBVIOUS
    <3> HIDE DEF events
    <3> QED
      BY <2>1, <2>3, <3>1, ReturnType
  <2>5. Bounded(bufs') /\ Bounded(start_ns') /\ Bounded(readbytes_ptrs')
    BY <2>1, DelBounded DEF Typed
  <2>6. excused' \subseteq Ids
    <3>1. Range(calls[t]) \subseteq Call
      BY RangeOfSeq DEF Typed, TypeOK
    <3>2. Range(Tail(calls[t])) \subseteq Call /\ Inner(t) \in Call
      BY <2>1, <3>1, InnerType
    <3> QED
      BY <1>5, <3>2 DEF ExitHandshake, Typed, TypeOK, Call
  <2> QED
    BY <2>4, <2>5, <2>6 DEF Typed, TypeOK, Bounded
<1>6. ASSUME NEW t \in Threads, Kill(t) PROVE Typed'
  <2>1. calls' \in [Threads -> Seq(Call)] /\ killed' \subseteq Threads
    BY <1>6 DEF Kill, Typed, TypeOK
  <2> QED
    BY <1>6, <2>1 DEF Kill, Typed, TypeOK, Bounded
<1>7. CASE Poll
  <2>1. ring \in Seq(Event) /\ ring # <<>> /\ Len(ring) <= RingMax
    BY <1>7 DEF Poll, Typed, TypeOK
  <2>2. Tail(ring) \in Seq(Event) /\ Head(ring) \in Event /\ Len(Tail(ring)) = Len(ring) - 1
    BY <2>1, HeadTailProperties
  <2>3. Len(ring) \in Nat /\ RingMax \in Nat
    BY <2>1, SniffAssumption
  <2>4. ring' \in Seq(Event) /\ Len(ring') <= RingMax
    BY <1>7, <2>1, <2>2, <2>3 DEF Poll
  <2>5. \A l \in out' : l.event \in Event /\ l.truncated \in BOOLEAN
    <3>1. \A l \in out' : l = [event |-> Head(ring), truncated |-> Truncated(Head(ring))]
      BY <1>7 DEF Poll
    <3>2. Truncated(Head(ring)) \in BOOLEAN
      BY DEF Truncated
    <3> QED
      BY <2>2, <3>1, <3>2
  <2> QED
    BY <1>7, <2>4, <2>5 DEF Poll, Typed, TypeOK, Bounded
<1>8. CASE UNCHANGED vars
  BY <1>8 DEF vars, Typed, TypeOK, Bounded
<1> QED
  BY <1>1, <1>2, <1>3, <1>4, <1>5, <1>6, <1>7, <1>8 DEF Next

LEMMA TypedInit == Init => Typed
<1> SUFFICES ASSUME Init PROVE Typed
  OBVIOUS
<1>1. DOMAIN bufs = {} /\ bufs \in [{} -> Ids]
  BY DEF Init
<1>2. Bounded(bufs)
  <2>1. bufs \in PartialMap
    BY <1>1, PartialMapFunction
  <2>2. IsFiniteSet(DOMAIN bufs) /\ Cardinality(DOMAIN bufs) = 0
    BY <1>1, FS_EmptySet
  <2> QED
    BY <2>1, <2>2, SniffAssumption DEF Bounded
<1>3. Bounded(start_ns) /\ Bounded(readbytes_ptrs)
  BY <1>2 DEF Init
<1>4. calls \in [Threads -> Seq(Call)] /\ ring \in Seq(Event) /\ Len(ring) <= RingMax
  BY SniffAssumption DEF Init
<1> QED
  BY <1>2, <1>3, <1>4, SniffAssumption DEF Init, Typed, TypeOK, Maps, Bounded

LEMMA TypedInvariant == Spec => []Typed
<1> QED
  BY TypedInit, TypedNext, PTL DEF Spec

\* The state has its types, and no map and not the ring ever holds more than
\* its capacity, however many threads there are.
THEOREM SniffTypes == Spec => []TypeOK
<1>1. Typed => TypeOK
  BY DEF Typed
<1> QED
  BY <1>1, TypedInvariant, PTL

-----------------------------------------------------------------------------
\* The inductive invariant

\* What is known of a thread.  It is in a call, or in a handshake inside a read
\* or write; only a thread that passes the filters has entries; an entry held
\* during a call is of that call, but for the start time, which a handshake may
\* have set again; and an entry is missing during a call only for a reason.
OwnCall(t, c) ==
  /\ c.id <= count
  /\ t \in DOMAIN start_ns => start_ns[t] >= c.id
  /\ c.fn # "handshake" /\ t \in DOMAIN bufs => bufs[t] = c.id
  /\ Allowed(t) /\ c.id \notin excused =>
       /\ t \in DOMAIN start_ns
       /\ c.fn # "handshake" => t \in DOMAIN bufs
       /\ c.fn = "ex" => t \in DOMAIN readbytes_ptrs

Nested(s) ==
  /\ Len(s) <= 2
  /\ Len(s) = 2 => s[1].fn = "handshake" /\ s[2].fn # "handshake"

PtrOwned(t) ==
  t \in DOMAIN readbytes_ptrs =>
    t \in killed \/ \E c \in Range(calls[t]) : c = [id |-> readbytes_ptrs[t], fn |-> "ex"]

OwnState(t) ==
  /\ Nested(calls[t])
  /\ t \in DOMAIN bufs \union DOMAIN start_ns \union DOMAIN readbytes_ptrs => Allowed(t)
  /\ \A c \in Range(calls[t]) : OwnCall(t, c)
  /\ PtrOwned(t)

\* What is known of an event.
Sound(e) ==
  /\ e.buf = e.id /\ e.start >= e.id
  /\ ~e.filled => e.size = 0
  /\ e.filled /\ e.fn = "rw" => e.size = RwSize(e.len)
  /\ e.filled /\ e.fn = "ex" => e.size = ExSize(e.len)

IInv ==
  /\ Typed
  /\ \A t \in Threads : OwnState(t)
  /\ \A e \in Range(ring) : Sound(e)
  /\ NoUnexplainedLoss
  /\ CutsTold

\* Nothing of thread u changes.
SameAt(m, n, u) ==
  /\ u \in DOMAIN n <=> u \in DOMAIN m
  /\ u \in DOMAIN m => n[u] = m[u]

Grows == /\ options' = options
         /\ count' \in Nat /\ count <= count'
         /\ excused \subseteq excused'
         /\ killed \subseteq killed'

Untouched(u) ==
  /\ calls'[u] = calls[u]
  /\ SameAt(bufs, bufs', u) /\ SameAt(start_ns, start_ns', u)
  /\ SameAt(readbytes_ptrs, readbytes_ptrs', u)

LEMMA SameElsewhere ==
  ASSUME NEW m \in PartialMap, NEW t \in Threads, NEW u \in Threads, u # t
  PROVE  /\ SameAt(m, m, u)
         /\ SameAt(m, Del(m, t), u)
         /\ \A id \in Ids : SameAt(m, Put(m, t, id), u)
<1>1. SameAt(m, m, u)
  BY DEF SameAt
<1>2. SameAt(m, Del(m, t), u)
  BY DelProperties DEF SameAt
<1>3. ASSUME NEW id \in Ids PROVE SameAt(m, Put(m, t, id), u)
  <2>0. /\ \A v : v # t => (v \in DOMAIN Put(m, t, id) <=> v \in DOMAIN m)
        /\ \A v \in DOMAIN m : v # t => Put(m, t, id)[v] = m[v]
    BY PutProperties
  <2>1. u \in DOMAIN Put(m, t, id) <=> u \in DOMAIN m
    BY <2>0
  <2>2. u \in DOMAIN m => Put(m, t, id)[u] = m[u]
    BY <2>0
  <2> QED
    BY <2>1, <2>2 DEF SameAt
<1> QED
  BY <1>1, <1>2, <1>3

LEMMA UntouchedKeeps ==
  ASSUME Typed, Grows, NEW u \in Threads, OwnState(u), Untouched(u)
  PROVE  OwnState(u)'
<1>1. Range(calls[u]) \subseteq Call
  BY RangeOfSeq DEF Typed, TypeOK
<1>2. Range(calls'[u]) = Range(calls[u]) /\ calls'[u] = calls[u]
  BY DEF Untouched
<1>3. Allowed(u)' <=> Allowed(u)
  BY DEF Grows, Allowed, TraceAllowed
<1>4. count \in Nat /\ count' \in Nat /\ count <= count'
  BY DEF Grows, Typed, TypeOK
<1>5. Nested(calls[u])'
  BY <1>2 DEF OwnState, Nested
<1>6. (u \in DOMAIN bufs \union DOMAIN start_ns \union DOMAIN readbytes_ptrs => Allowed(u))'
  BY <1>3 DEF OwnState, Untouched, SameAt
<1>7. ASSUME NEW c \in Range(calls[u]) PROVE OwnCall(u, c)'
  <2>1. OwnCall(u, c) /\ c.id \in Nat
    BY <1>1 DEF OwnState, Call, Ids
  <2>2. (c.id <= count)'
    BY <1>4, <2>1 DEF OwnCall
  <2>3. (u \in DOMAIN start_ns => start_ns[u] >= c.id)'
    BY <2>1 DEF OwnCall, Untouched, SameAt
  <2>4. (c.fn # "handshake" /\ u \in DOMAIN bufs => bufs[u] = c.id)'
    BY <2>1 DEF OwnCall, Untouched, SameAt
  <2>5. c.id \notin excused' => c.id \notin excused
    BY DEF Grows
  <2> QED
    BY <1>3, <2>1, <2>2, <2>3, <2>4, <2>5 DEF OwnCall, Untouched, SameAt
<1>8. PtrOwned(u)'
  BY <1>2 DEF OwnState, PtrOwned, Untouched, SameAt, Grows
<1> QED
  BY <1>2, <1>5, <1>6, <1>7, <1>8 DEF OwnState

\* A read or write is the only call of its thread when it returns.
LEMMA Alone ==
  ASSUME Typed, NEW t \in Threads, OwnState(t), calls[t] # <<>>, Inner(t).fn # "handshake"
  PROVE  Range(calls[t]) = {Inner(t)} /\ Tail(calls[t]) = <<>>
<1>1. calls[t] \in Seq(Call) /\ Len(calls[t]) \in Nat \ {0}
  BY DEF Typed, TypeOK
<1>2. Inner(t) = calls[t][1] /\ Len(Tail(calls[t])) = Len(calls[t]) - 1
      /\ Tail(calls[t]) \in Seq(Call) /\ Range(calls[t]) = {Inner(t)} \union Range(Tail(calls[t]))
  BY <1>1, PopProperties DEF Inner
<1>3. Len(calls[t]) = 1
  <2>1. Nested(calls[t])
    BY DEF OwnState
  <2> DEFINE n == Len(calls[t])
  <2>2. n \in Nat \ {0} /\ n <= 2 /\ n # 2
    BY <1>1, <1>2, <2>1 DEF Nested
  <2>3. n = 1
    <3> HIDE DEF n
    <3> QED
      BY <2>2
  <2> QED
    BY <2>3
<1>4. Tail(calls[t]) = <<>>
  <2>1. Tail(calls[t]) \in Seq(Call) /\ Len(Tail(calls[t])) = 0
    BY <1>2, <1>3
  <2> QED
    BY <2>1, EmptySeq
<1>5. Range(<<>>) = {}
  BY DEF Range
<1> QED
  BY <1>2, <1>4, <1>5

LEMMA EmptyRange == Range(<<>>) = {}
BY DEF Range

\* A call that begins with nothing but the thread's entries.
LEMMA EnterOwn ==
  ASSUME Typed, NEW t \in Threads, NEW fn \in Fns, \A u \in Threads : OwnState(u), Enter(t, fn)
  PROVE  \A u \in Threads : OwnState(u)'
<1>a. Begin(t, fn) /\ calls[t] = <<>> /\ fn # "handshake"
  BY DEF Enter
<1>b. count + 1 \in Ids /\ [id |-> count + 1, fn |-> fn] \in Call
  BY <1>a, BeginType
<1>c. PICK id \in Ids : id = count + 1
  BY <1>b
<1>d. PICK c \in Call : c = [id |-> id, fn |-> fn]
  BY <1>b, <1>c
<1>1. /\ Begin(t, fn) /\ calls[t] = <<>> /\ fn # "handshake"
      /\ count \in Nat /\ id \in Nat /\ c.id = id /\ c.fn = fn
  BY <1>a, <1>d DEF Typed, TypeOK, Ids
<1>2. bufs \in PartialMap /\ start_ns \in PartialMap /\ readbytes_ptrs \in PartialMap
  BY DEF Typed, Maps, Bounded
<1>3. /\ bufs' = IF Allowed(t) THEN Put(bufs, t, id) ELSE bufs
      /\ start_ns' = IF Allowed(t) THEN Put(start_ns, t, id) ELSE start_ns
      /\ readbytes_ptrs' = IF Allowed(t) /\ fn = "ex" THEN Put(readbytes_ptrs, t, id) ELSE readbytes_ptrs
      /\ excused' = IF \E m \in {bufs, start_ns} \union (IF fn = "ex" THEN {readbytes_ptrs} ELSE {}) : ~HasRoom(m, t)
                    THEN excused \union {id} ELSE excused
  BY <1>c DEF Enter, Excuse
<1>e. \A m \in PartialMap : /\ t \in DOMAIN Put(m, t, id) => Put(m, t, id)[t] = id
                            /\ HasRoom(m, t) => t \in DOMAIN Put(m, t, id)
  <2> TAKE m \in PartialMap
  <2>1. t \in DOMAIN Put(m, t, id) => Put(m, t, id)[t] = id
    BY PutProperties
  <2>2. ASSUME HasRoom(m, t) PROVE t \in DOMAIN Put(m, t, id)
    BY <2>2, PutProperties
  <2> QED
    BY <2>1, <2>2
<1>f. /\ Allowed(t) => bufs' = Put(bufs, t, id) /\ start_ns' = Put(start_ns, t, id)
      /\ ~Allowed(t) => bufs' = bufs /\ start_ns' = start_ns /\ t \notin DOMAIN bufs /\ t \notin DOMAIN start_ns
  BY <1>3 DEF OwnState
<1>4. Grows
  BY <1>1, <1>3 DEF Grows, Begin
<1>5. Allowed(t)' <=> Allowed(t)
  BY <1>4 DEF Grows, Allowed, TraceAllowed
<1>6. calls'[t] = <<c>>
  <2>1. calls' = [calls EXCEPT ![t] = <<c>> \o calls[t]]
    BY <1>1, <1>c, <1>d DEF Begin
  <2>2. <<c>> \in Seq(Call)
    OBVIOUS
  <2>3. <<c>> \o <<>> = <<c>>
    BY <2>2, ConcatEmptySeq
  <2> QED
    BY <1>1, <2>1, <2>3 DEF Typed, TypeOK
<1>7. Range(calls'[t]) = {c} /\ Len(calls'[t]) = 1
  <2>1. <<>> \in Seq(Call) /\ <<c>> \in Seq(Call)
    OBVIOUS
  <2>2. <<c>> \o <<>> = <<c>> /\ Range(<<c>> \o <<>>) = {c} \union Range(<<>>)
    BY <2>1, ConcatEmptySeq, PushProperties
  <2> QED
    BY <1>6, <2>2, EmptyRange
<1>8. OwnState(t)'
  <2>1. Nested(calls[t])'
    BY <1>7 DEF Nested
  <2>2. (t \in DOMAIN bufs \union DOMAIN start_ns \union DOMAIN readbytes_ptrs => Allowed(t))'
    BY <1>3, <1>5 DEF OwnState
  <2>3. OwnCall(t, c)'
    <3>1. c.id = id /\ c.fn = fn
      BY <1>1
    <3>2. (c.id <= count)'
      BY <1>1, <1>c DEF Begin
    <3>3. (t \in DOMAIN start_ns => start_ns[t] >= c.id)'
      <4>1. t \in DOMAIN start_ns' => start_ns'[t] = id
        BY <1>2, <1>e, <1>f
      <4> QED
        BY <1>1, <4>1
    <3>4. (t \in DOMAIN bufs => bufs[t] = c.id)'
      BY <1>1, <1>2, <1>e, <1>f
    <3>5. ASSUME Allowed(t), id \notin excused'
          PROVE  /\ t \in DOMAIN start_ns' /\ t \in DOMAIN bufs'
                 /\ fn = "ex" => t \in DOMAIN readbytes_ptrs'
      <4>1. /\ HasRoom(bufs, t) /\ HasRoom(start_ns, t)
            /\ fn = "ex" => HasRoom(readbytes_ptrs, t)
        BY <1>3, <3>5
      <4> QED
        BY <1>2, <1>3, <1>e, <3>5, <4>1
    <3> QED
      BY <1>1, <1>5, <3>1, <3>2, <3>3, <3>4, <3>5 DEF OwnCall
  <2>4. PtrOwned(t)'
    <3>1. CASE Allowed(t) /\ fn = "ex"
      <4>1. t \in DOMAIN readbytes_ptrs' => readbytes_ptrs'[t] = id
        BY <1>2, <1>3, <3>1, PutProperties
      <4>2. c = [id |-> id, fn |-> "ex"]
        BY <1>d, <3>1
      <4> QED
        BY <1>7, <4>1, <4>2 DEF PtrOwned
    <3>2. CASE ~(Allowed(t) /\ fn = "ex")
      <4>1. t \in DOMAIN readbytes_ptrs' => t \in killed
        BY <1>1, <1>3, <3>2, EmptyRange DEF OwnState, PtrOwned
      <4> QED
        BY <1>4, <4>1 DEF PtrOwned, Grows
    <3> QED
      BY <3>1, <3>2
  <2> QED
    BY <1>7, <2>1, <2>2, <2>3, <2>4 DEF OwnState
<1>9. ASSUME NEW u \in Threads, u # t PROVE OwnState(u)'
  <2>1. calls'[u] = calls[u]
    BY <1>1, <1>9 DEF Begin, Typed, TypeOK
  <2>2. Untouched(u)
    BY <1>1, <1>2, <1>3, <1>9, <2>1, SameElsewhere DEF Untouched
  <2> QED
    BY <1>4, <2>2, UntouchedKeeps
<1> QED
  BY <1>8, <1>9

LEMMA EnterHandshakeOwn ==
  ASSUME Typed, NEW t \in Threads, \A u \in Threads : OwnState(u), EnterHandshake(t)
  PROVE  \A u \in Threads : OwnState(u)'
<1>a. Begin(t, "handshake") /\ "handshake" \in Fns
  BY DEF EnterHandshake, Fns
<1>b. count + 1 \in Ids /\ [id |-> count + 1, fn |-> "handshake"] \in Call
  BY <1>a, BeginType
<1>c. PICK id \in Ids : id = count + 1
  BY <1>b
<1>d. PICK h \in Call : h = [id |-> id, fn |-> "handshake"]
  BY <1>b, <1>c
<1>1. /\ Begin(t, "handshake")
      /\ count \in Nat /\ id \in Nat /\ h.id = id /\ h.fn = "handshake"
      /\ calls[t] \in Seq(Call) /\ Len(calls[t]) \in Nat
  BY <1>a, <1>d DEF Typed, TypeOK, Ids
<1>2. bufs \in PartialMap /\ start_ns \in PartialMap /\ readbytes_ptrs \in PartialMap
  BY DEF Typed, Maps, Bounded
<1>3. /\ bufs' = bufs /\ readbytes_ptrs' = readbytes_ptrs
      /\ start_ns' = IF Allowed(t) THEN Put(start_ns, t, id) ELSE start_ns
      /\ excused' = IF ~HasRoom(start_ns, t) THEN excused \union {id} ELSE excused
  BY <1>c DEF EnterHandshake, Excuse
<1>e. \A m \in PartialMap : /\ t \in DOMAIN Put(m, t, id) => Put(m, t, id)[t] = id
                            /\ HasRoom(m, t) => t \in DOMAIN Put(m, t, id)
  <2> TAKE m \in PartialMap
  <2>1. t \in DOMAIN Put(m, t, id) => Put(m, t, id)[t] = id
    BY PutProperties
  <2>2. ASSUME HasRoom(m, t) PROVE t \in DOMAIN Put(m, t, id)
    BY <2>2, PutProperties
  <2> QED
    BY <2>1, <2>2
<1>f. /\ Allowed(t) => start_ns' = Put(start_ns, t, id)
      /\ ~Allowed(t) => start_ns' = start_ns /\ t \notin DOMAIN start_ns
  BY <1>3 DEF OwnState
<1>4. Grows
  BY <1>1, <1>3 DEF Grows, Begin
<1>5. Allowed(t)' <=> Allowed(t)
  BY <1>4 DEF Grows, Allowed, TraceAllowed
<1>6. calls'[t] = <<h>> \o calls[t]
  <2>1. calls' = [calls EXCEPT ![t] = <<h>> \o calls[t]]
    BY <1>1, <1>c, <1>d DEF Begin
  <2> QED
    BY <2>1 DEF Typed, TypeOK
<1>7. /\ Range(calls'[t]) = {h} \union Range(calls[t])
      /\ Len(calls'[t]) = Len(calls[t]) + 1
      /\ calls'[t][1] = h
      /\ \A i \in 1 .. Len(calls[t]) : calls'[t][i + 1] = calls[t][i]
  BY <1>1, <1>6, PushProperties
<1>8. OwnState(t)'
  <2>1. \A i \in 1 .. Len(calls[t]) : calls[t][i].fn # "handshake"
    BY <1>1, RangeEquality DEF EnterHandshake
  <2>2. Nested(calls[t])'
    <3>1. Len(calls[t]) <= 1
      <4>1. Len(calls[t]) = 2 => calls[t][1].fn = "handshake"
        BY DEF OwnState, Nested
      <4> QED
        <5> DEFINE n == Len(calls[t])
        <5>1. n \in Nat /\ n <= 2 /\ n # 2
          BY <1>1, <2>1, <4>1 DEF OwnState, Nested
        <5>2. n <= 1
          <6> HIDE DEF n
          <6> QED
            BY <5>1
        <5> QED
          BY <5>2
    <3>2. Len(calls'[t]) = 2 => calls'[t][2] = calls[t][1] /\ 1 \in 1 .. Len(calls[t])
      <4> DEFINE n == Len(calls[t])
                 k == Len(calls'[t])
      <4>1. k = 2 => n = 1
        <5>1. n \in Nat /\ k = n + 1
          BY <1>1, <1>7
        <5> HIDE DEF n, k
        <5> QED
          BY <5>1
      <4>2. Len(calls[t]) = 1 => calls'[t][1 + 1] = calls[t][1]
        BY <1>7
      <4> QED
        BY <4>1, <4>2
    <3> QED
      BY <1>1, <1>7, <2>1, <3>1, <3>2 DEF Nested
  <2>3. (t \in DOMAIN bufs \union DOMAIN start_ns \union DOMAIN readbytes_ptrs => Allowed(t))'
    BY <1>3, <1>5 DEF OwnState
  <2>4. t \in DOMAIN start_ns' => Allowed(t) /\ start_ns'[t] = id
    BY <1>2, <1>e, <1>f
  <2>5. OwnCall(t, h)'
    <3>1. h.id = id /\ h.fn = "handshake"
      BY <1>1
    <3>2. (h.id <= count)'
      BY <1>1, <1>c DEF Begin
    <3>3. (t \in DOMAIN start_ns => start_ns[t] >= h.id)'
      BY <1>1, <2>4
    <3>4. Allowed(t) /\ id \notin excused' => t \in DOMAIN start_ns'
      <4>1. id \notin excused' => HasRoom(start_ns, t)
        BY <1>3
      <4> QED
        BY <1>2, <1>e, <1>f, <4>1
    <3> QED
      BY <1>5, <3>1, <3>2, <3>3, <3>4 DEF OwnCall
  <2>6. ASSUME NEW c \in Range(calls[t]) PROVE OwnCall(t, c)'
    <3>1. OwnCall(t, c) /\ c.id \in Nat
      <4>1. c \in Call
        BY <1>1, RangeOfSeq
      <4> QED
        BY <4>1 DEF OwnState, Call, Ids
    <3>2. c.id <= count /\ c.id <= id
      BY <1>1, <1>c, <3>1 DEF OwnCall
    <3>3. (c.id <= count)'
      BY <1>1, <3>1, <3>2 DEF Begin
    <3>4. (t \in DOMAIN start_ns => start_ns[t] >= c.id)'
      BY <2>4, <3>1, <3>2
    <3>5. c.id \notin excused' => c.id \notin excused
      BY <1>4 DEF Grows
    <3>6. t \in DOMAIN start_ns => t \in DOMAIN start_ns'
      BY <1>2, <1>3, PutProperties
    <3> QED
      BY <1>3, <1>5, <3>1, <3>3, <3>4, <3>5, <3>6 DEF OwnCall
  <2>7. PtrOwned(t)'
    BY <1>3, <1>4, <1>7 DEF OwnState, PtrOwned, Grows
  <2> QED
    BY <1>7, <2>2, <2>3, <2>5, <2>6, <2>7 DEF OwnState
<1>9. ASSUME NEW u \in Threads, u # t PROVE OwnState(u)'
  <2>1. calls'[u] = calls[u]
    BY <1>1, <1>9 DEF Begin, Typed, TypeOK
  <2>2. Untouched(u)
    BY <1>1, <1>2, <1>3, <1>9, <2>1, SameElsewhere DEF Untouched
  <2> QED
    BY <1>4, <2>2, UntouchedKeeps
<1> QED
  BY <1>8, <1>9

\* A read or write that returns leaves nothing of its own but what is missed.
LEMMA ReturnOwn ==
  ASSUME Typed, NEW t \in Threads, \A u \in Threads : OwnState(u), Grows,
         calls[t] # <<>>, Inner(t).fn # "handshake",
         calls' = [calls EXCEPT ![t] = Tail(calls[t])],
         bufs' \in {bufs, Del(bufs, t)}, start_ns' \in {start_ns, Del(start_ns, t)},
         IF Inner(t).fn = "ex" THEN readbytes_ptrs' = Del(readbytes_ptrs, t)
                               ELSE readbytes_ptrs' = readbytes_ptrs
  PROVE  \A u \in Threads : OwnState(u)'
<1>1. bufs \in PartialMap /\ start_ns \in PartialMap /\ readbytes_ptrs \in PartialMap
  BY DEF Typed, Maps, Bounded
<1>2. Range(calls[t]) = {Inner(t)} /\ calls'[t] = <<>>
  BY Alone DEF Typed, TypeOK
<1>3. OwnState(t)'
  <2>1. Nested(calls[t])'
    <3>1. Nested(<<>>)
      BY DEF Nested
    <3> QED
      BY <1>2, <3>1
  <2>2. (t \in DOMAIN bufs \union DOMAIN start_ns \union DOMAIN readbytes_ptrs => Allowed(t))'
    <3>1. Allowed(t)' <=> Allowed(t)
      BY DEF Grows, Allowed, TraceAllowed
    <3>2. /\ t \in DOMAIN bufs' => t \in DOMAIN bufs
          /\ t \in DOMAIN start_ns' => t \in DOMAIN start_ns
          /\ t \in DOMAIN readbytes_ptrs' => t \in DOMAIN readbytes_ptrs
      <4>1. /\ bufs' = bufs \/ DOMAIN bufs' = DOMAIN bufs \ {t}
            /\ start_ns' = start_ns \/ DOMAIN start_ns' = DOMAIN start_ns \ {t}
            /\ readbytes_ptrs' = readbytes_ptrs \/ DOMAIN readbytes_ptrs' = DOMAIN readbytes_ptrs \ {t}
        BY <1>1, DelProperties
      <4> QED
        BY <4>1
    <3> QED
      BY <3>1, <3>2 DEF OwnState
  <2>3. \A c \in Range(calls'[t]) : OwnCall(t, c)'
    BY <1>2, EmptyRange
  <2>4. PtrOwned(t)'
    <3>1. CASE Inner(t).fn = "ex"
      <4>1. t \notin DOMAIN readbytes_ptrs'
        BY <1>1, <3>1, DelProperties
      <4> QED
        BY <4>1 DEF PtrOwned
    <3>2. CASE Inner(t).fn # "ex"
      <4>1. readbytes_ptrs' = readbytes_ptrs
        BY <3>2
      <4>2. t \in DOMAIN readbytes_ptrs => t \in killed
        BY <1>2, <3>2 DEF OwnState, PtrOwned
      <4> QED
        BY <4>1, <4>2 DEF PtrOwned, Grows
    <3> QED
      BY <3>1, <3>2
  <2> QED
    BY <2>1, <2>2, <2>3, <2>4 DEF OwnState
<1>4. ASSUME NEW u \in Threads, u # t PROVE OwnState(u)'
  <2>1. calls'[u] = calls[u]
    BY <1>4 DEF Typed, TypeOK
  <2>2. SameAt(bufs, bufs', u) /\ SameAt(start_ns, start_ns', u) /\ SameAt(readbytes_ptrs, readbytes_ptrs', u)
    BY <1>1, <1>4, SameElsewhere
  <2> QED
    BY <2>1, <2>2, UntouchedKeeps DEF Untouched
<1> QED
  BY <1>3, <1>4

LEMMA RangeOneMore ==
  ASSUME NEW S, NEW s \in Seq(S), NEW e \in S
  PROVE  Range(s \o <<e>>) = Range(s) \union {e}
<1>1. <<e>> \in Seq(S)
  OBVIOUS
<1>2. Range(<<e>>) = {e}
  BY DEF Range
<1>3. Range(s \o <<e>>) = Range(s) \union Range(<<e>>)
  BY <1>1, RangeConcatenation
<1> QED
  BY <1>2, <1>3

\* The ring holds what it held and the event returned.
LEMMA ReturnRing ==
  ASSUME Typed, NEW t \in Threads, NEW event, NEW due, Return(t, event, due),
         \A e \in Range(ring) : Sound(e),
         event = <<>> \/ \E e \in Event : event = <<e>> /\ Sound(e)
  PROVE  \A e \in Range(ring') : Sound(e)'
<1>1. ring \in Seq(Event) /\ ring' = ring \o event
  BY DEF Typed, TypeOK, Return
<1>2. ASSUME NEW e PROVE Sound(e)' <=> Sound(e)
  BY DEF Sound
<1>3. CASE event = <<>>
  BY <1>1, <1>2, <1>3, ConcatEmptySeq
<1>4. CASE \E e \in Event : event = <<e>> /\ Sound(e)
  <2>1. PICK e \in Event : event = <<e>> /\ Sound(e)
    BY <1>4
  <2>2. Range(ring') = Range(ring) \union {e}
    <3>1. Range(ring \o <<e>>) = Range(ring) \union {e}
      BY <1>1, RangeOneMore
    <3> QED
      BY <1>1, <2>1, <3>1
  <2> QED
    BY <1>2, <2>1, <2>2
<1> QED
  BY <1>3, <1>4

\* A read or write that returns with the length copied.
LEMMA TransferKeeps ==
  ASSUME IInv, NEW t \in Threads, NEW len \in Lens \union {0}, NEW copied \in 0 .. MaxBuf,
         calls[t] # <<>>, Inner(t).fn # "handshake", Transfer(t, len, copied),
         IF Inner(t).fn = "ex" THEN t \in DOMAIN readbytes_ptrs /\ readbytes_ptrs' = Del(readbytes_ptrs, t)
                               ELSE readbytes_ptrs' = readbytes_ptrs,
         copied = IF Inner(t).fn = "ex" THEN ExSize(len) ELSE RwSize(len)
  PROVE  /\ \A u \in Threads : OwnState(u)'
         /\ \A e \in Range(ring') : Sound(e)'
         /\ NoUnexplainedLoss'
<1> DEFINE c == Inner(t)
<1>1. Typed /\ OwnState(t) /\ \A u \in Threads : OwnState(u)
  BY DEF IInv
<1>2. c \in Range(calls[t]) /\ OwnCall(t, c)
  BY <1>1, InnerType DEF OwnState
<1>3. PICK event, due : Return(t, event, due)
  BY TransferCases
<1>4. excused \subseteq excused' /\ (RingFull => c.id \in excused')
  BY TransferCases
<1>5. Grows /\ calls' = [calls EXCEPT ![t] = Tail(calls[t])]
  BY <1>1, <1>3, <1>4 DEF Return, Grows, Typed, TypeOK
<1>6. bufs' \in {bufs, Del(bufs, t)} /\ start_ns' \in {start_ns, Del(start_ns, t)}
  BY TransferCases
<1>7. \A u \in Threads : OwnState(u)'
  BY <1>1, <1>5, <1>6, ReturnOwn
<1>8. CASE Reported(t, len)
  <2>1. PICK filled \in BOOLEAN : Return(t, <<TransferEvent(t, len, filled, copied)>>, TRUE)
    BY <1>8, TransferCases
  <2> DEFINE e == TransferEvent(t, len, filled, copied)
  <2>2. e \in Event
    BY <1>1, <1>8, TransferEventType
  <2>3. Sound(e)
    <3>1. e.id = c.id /\ e.buf = bufs[t] /\ e.start = start_ns[t] /\ e.fn = c.fn
          /\ e.len = len /\ e.filled = filled /\ (filled => e.size = copied) /\ (~filled => e.size = 0)
      BY DEF TransferEvent
    <3>2. e.buf = e.id /\ e.start >= e.id
      BY <1>2, <1>8, <3>1 DEF OwnCall, Reported
    <3> QED
      BY <3>1, <3>2 DEF Sound
  <2>4. \A x \in Range(ring') : Sound(x)'
    <3> HIDE DEF e
    <3>1. Return(t, <<e>>, TRUE)
      BY <2>1 DEF e
    <3> QED
      BY <1>1, <2>2, <2>3, <3>1, ReturnRing DEF IInv
  <2>5. NoUnexplainedLoss'
    <3>1. missed' = missed /\ options' = options
      BY <2>1 DEF Return
    <3> QED
      BY <1>4, <3>1 DEF IInv, NoUnexplainedLoss
  <2> QED
    BY <1>7, <2>4, <2>5
<1>9. CASE ~Reported(t, len)
  <2>1. Return(t, <<>>, Allowed(t) /\ len > 0)
    BY <1>9, TransferCases
  <2>2. \A x \in Range(ring') : Sound(x)'
    BY <1>1, <2>1, ReturnRing DEF IInv
  <2>3. Allowed(t) /\ len > 0 => c.id \in excused'
    <3>1. ASSUME Allowed(t), len > 0, ~RingFull PROVE c.id \in excused
      <4>1. t \notin DOMAIN bufs \/ t \notin DOMAIN start_ns
        BY <1>9, <3>1 DEF Reported
      <4> QED
        BY <1>2, <3>1, <4>1 DEF OwnCall
    <3> QED
      BY <1>4, <3>1
  <2>4. NoUnexplainedLoss'
    <3>1. /\ options' = options
          /\ missed' = IF Allowed(t) /\ len > 0 THEN missed \union {c} ELSE missed
      BY <2>1 DEF Return
    <3> QED
      BY <1>4, <2>3, <3>1 DEF IInv, NoUnexplainedLoss
  <2> QED
    BY <1>7, <2>2, <2>4
<1> QED
  BY <1>8, <1>9

LEMMA ExitHandshakeKeeps ==
  ASSUME IInv, NEW t \in Threads, NEW ok \in BOOLEAN, ExitHandshake(t, ok)
  PROVE  /\ \A u \in Threads : OwnState(u)'
         /\ \A e \in Range(ring') : Sound(e)'
         /\ NoUnexplainedLoss'
<1> DEFINE c        == Inner(t)
           reported == HandshakeAllowed(t) /\ t \in DOMAIN start_ns /\ ok /\ ~RingFull
           event    == [tid |-> t, fn |-> "handshake", id |-> c.id, buf |-> c.id,
                        start |-> start_ns[t], len |-> 1, filled |-> FALSE, size |-> 0]
           events   == IF reported THEN <<event>> ELSE <<>>
<1>1. Typed /\ OwnState(t) /\ \A u \in Threads : OwnState(u)
  BY DEF IInv
<1>2. /\ calls[t] # <<>> /\ c.fn = "handshake"
      /\ Return(t, events, Allowed(t) /\ ok)
      /\ start_ns' = IF reported THEN Del(start_ns, t) ELSE start_ns
      /\ excused' = excused \union
           {x.id : x \in IF reported THEN Range(Tail(calls[t])) ELSE IF RingFull THEN {c} ELSE {}}
      /\ bufs' = bufs /\ readbytes_ptrs' = readbytes_ptrs
  BY DEF ExitHandshake, StartAfterHandshake
<1>3. /\ calls[t] \in Seq(Call) /\ Len(calls[t]) \in Nat
      /\ c = calls[t][1] /\ c \in Range(calls[t]) /\ c \in Call
      /\ Tail(calls[t]) \in Seq(Call)
      /\ Len(Tail(calls[t])) = Len(calls[t]) - 1
      /\ Range(calls[t]) = {c} \union Range(Tail(calls[t]))
  BY <1>1, <1>2, PopProperties DEF Typed, TypeOK, Inner
<1>4. OwnCall(t, c)
  BY <1>1, <1>3 DEF OwnState
<1>5. Grows /\ calls' = [calls EXCEPT ![t] = Tail(calls[t])]
  BY <1>1, <1>2 DEF Return, Grows, Typed, TypeOK
<1>6. Allowed(t)' <=> Allowed(t)
  BY <1>5 DEF Grows, Allowed, TraceAllowed
<1>7. start_ns \in PartialMap /\ bufs \in PartialMap /\ readbytes_ptrs \in PartialMap
  BY <1>1 DEF Typed, Maps, Bounded
<1>8. OwnState(t)'
  <2>1. calls'[t] = Tail(calls[t])
    BY <1>1, <1>5 DEF Typed, TypeOK
  <2>2. Nested(calls[t])'
    <3> DEFINE n == Len(calls[t])
               k == Len(Tail(calls[t]))
    <3>1. n \in Nat /\ n <= 2 /\ k = n - 1
      BY <1>1, <1>3 DEF OwnState, Nested
    <3>2. k <= 2 /\ k # 2
      <4> HIDE DEF n, k
      <4> QED
        BY <3>1
    <3> QED
      BY <2>1, <3>2 DEF Nested
  <2>3. (t \in DOMAIN bufs \union DOMAIN start_ns \union DOMAIN readbytes_ptrs => Allowed(t))'
    <3>1. t \in DOMAIN start_ns' => t \in DOMAIN start_ns
      BY <1>2, <1>7, DelProperties
    <3> QED
      BY <1>1, <1>2, <1>6, <3>1 DEF OwnState
  <2>4. ASSUME NEW x \in Range(calls'[t]) PROVE OwnCall(t, x)'
    <3>1. x \in Range(Tail(calls[t])) /\ x \in Range(calls[t])
      BY <1>3, <2>1
    <3>2. OwnCall(t, x)
      BY <1>1, <3>1 DEF OwnState
    <3>3. count' = count /\ excused \subseteq excused'
      BY <1>2 DEF Return
    <3>4. CASE reported
      <4>1. x.id \in excused'
        BY <1>2, <3>1, <3>4
      <4>2. t \notin DOMAIN start_ns'
        <5>1. start_ns' = Del(start_ns, t)
          BY <1>2, <3>4
        <5> QED
          BY <1>7, <5>1, DelProperties
      <4> QED
        BY <1>2, <3>2, <3>3, <4>1, <4>2 DEF OwnCall
    <3>5. CASE ~reported
      <4>1. start_ns' = start_ns
        BY <1>2, <3>5
      <4> QED
        BY <1>2, <1>6, <3>2, <3>3, <4>1 DEF OwnCall
    <3> QED
      BY <3>4, <3>5
  <2>5. PtrOwned(t)'
    <3>1. \A x \in Range(calls[t]) : x.fn = "ex" => x \in Range(calls'[t])
      BY <1>2, <1>3, <2>1
    <3>2. killed' = killed /\ readbytes_ptrs' = readbytes_ptrs
      BY <1>2 DEF Return
    <3>3. \A id : [id |-> id, fn |-> "ex"].fn = "ex"
      OBVIOUS
    <3> QED
      BY <1>1, <3>1, <3>2, <3>3 DEF OwnState, PtrOwned
  <2> QED
    BY <2>2, <2>3, <2>4, <2>5 DEF OwnState
<1>9. ASSUME NEW u \in Threads, u # t PROVE OwnState(u)'
  <2>1. calls'[u] = calls[u]
    BY <1>1, <1>5, <1>9 DEF Typed, TypeOK
  <2>2. Untouched(u)
    BY <1>2, <1>7, <1>9, <2>1, SameElsewhere DEF Untouched
  <2> QED
    BY <1>1, <1>5, <2>2, UntouchedKeeps
<1>10. \A e \in Range(ring') : Sound(e)'
  <2>1. reported => event \in Event /\ Sound(event)
    <3>1. c.id \in Ids
      BY <1>3 DEF Call
    <3>2. t \in DOMAIN start_ns => start_ns[t] \in Ids /\ start_ns[t] >= c.id
      BY <1>4, <1>7, PartialMapFunction DEF OwnCall
    <3>3. reported => event \in Event
      BY <3>1, <3>2, SniffAssumption DEF Event, Fns
    <3>4. reported => Sound(event)
      BY <3>2 DEF Sound
    <3> QED
      BY <3>3, <3>4
  <2>2. events = <<>> \/ \E e \in Event : events = <<e>> /\ Sound(e)
    BY <2>1
  <2> HIDE DEF events
  <2> QED
    BY <1>1, <1>2, <2>2, ReturnRing DEF IInv
<1>11. NoUnexplainedLoss'
  <2>1. /\ options' = options /\ excused \subseteq excused'
        /\ missed' = IF (Allowed(t) /\ ok) /\ events = <<>> THEN missed \union {c} ELSE missed
    BY <1>2 DEF Return
  <2>2. ASSUME Allowed(t), ok, ~reported, options.uid = NoFilter PROVE c.id \in excused'
    <3>1. HandshakeAllowed(t)
      BY <2>2 DEF Allowed, HandshakeAllowed, TraceAllowed
    <3>2. CASE RingFull
      BY <1>2, <2>2, <3>2
    <3>3. CASE ~RingFull
      <4>1. t \notin DOMAIN start_ns
        BY <2>2, <3>1, <3>3
      <4> QED
        BY <1>4, <2>1, <2>2, <4>1 DEF OwnCall
    <3> QED
      BY <3>2, <3>3
  <2>3. events = <<>> => ~reported
    OBVIOUS
  <2> HIDE DEF events, reported
  <2> QED
    BY <1>2, <2>1, <2>2, <2>3 DEF IInv, NoUnexplainedLoss
<1> QED
  BY <1>8, <1>9, <1>10, <1>11

LEMMA KillKeeps ==
  ASSUME IInv, NEW t \in Threads, Kill(t)
  PROVE  /\ \A u \in Threads : OwnState(u)'
         /\ \A e \in Range(ring') : Sound(e)'
         /\ NoUnexplainedLoss'
<1>1. Typed /\ OwnState(t) /\ \A u \in Threads : OwnState(u)
  BY DEF IInv
<1>2. Grows
  BY <1>1 DEF Kill, Grows, Typed, TypeOK
<1>3. calls'[t] = <<>> /\ t \in killed'
  BY <1>1 DEF Kill, Typed, TypeOK
<1>4. OwnState(t)'
  <2>1. Nested(<<>>)
    BY DEF Nested
  <2>2. Allowed(t)' <=> Allowed(t)
    BY <1>2 DEF Grows, Allowed, TraceAllowed
  <2> QED
    BY <1>1, <1>3, <2>1, <2>2, EmptyRange DEF Kill, OwnState, PtrOwned
<1>5. ASSUME NEW u \in Threads, u # t PROVE OwnState(u)'
  <2>1. calls'[u] = calls[u]
    BY <1>1, <1>5 DEF Kill, Typed, TypeOK
  <2>2. Untouched(u)
    BY <2>1 DEF Kill, Untouched, SameAt
  <2> QED
    BY <1>1, <1>2, <2>2, UntouchedKeeps
<1> QED
  BY <1>4, <1>5 DEF Kill, IInv, Sound, NoUnexplainedLoss

\* What the line of an event tells of its data.
Tells(e) ==
  e.fn # "handshake" =>
    /\ \/ Truncated(e)
       \/ e.size = e.len
       \/ e.size = 0 /\ (~e.filled \/ (e.fn = "ex" /\ e.len % MaskLen = 0))
    /\ Truncated(e) =>
         /\ e.size \in 1 .. e.len - 1
         /\ e.size = MaxBuf \/ (e.fn = "ex" /\ e.len > MaskLen)

LEMMA SoundTells ==
  ASSUME NEW e \in Event, Sound(e)
  PROVE  Tells(e)
<1>1. MaxBuf \in Nat \ {0} /\ MaskLen \in Nat \ {0} /\ e.len \in Nat \ {0}
  <2>1. e.len \in Lens \union {1}
    BY DEF Event
  <2>2. Lens \subseteq Nat \ {0} /\ 1 \in Nat \ {0} /\ MaxBuf \in Nat \ {0} /\ MaskLen \in Nat \ {0}
    BY SniffAssumption
  <2> QED
    BY <2>1, <2>2
<1>2. CASE ~e.filled
  BY <1>1, <1>2 DEF Sound, Tells, Truncated
<1>3. CASE e.filled /\ e.fn = "rw"
  <2>1. e.size = IF e.len <= MaxBuf THEN e.len ELSE MaxBuf
    BY <1>1, <1>3, SizeType DEF Sound
  <2> QED
    BY <1>1, <1>3, <2>1 DEF Tells, Truncated
<1>4. CASE e.filled /\ e.fn = "ex"
  <2> DEFINE kept == e.len % MaskLen
  <2>1. e.size = IF kept <= MaxBuf THEN kept ELSE MaxBuf
    BY <1>1, <1>4, SizeType DEF Sound
  <2>2. kept \in 0 .. MaskLen - 1 /\ kept <= e.len /\ (e.len < MaskLen => kept = e.len) /\ (e.len = MaskLen => kept = 0)
    BY <1>1
  <2> HIDE DEF kept
  <2>3. e.size \in Nat /\ e.size <= kept /\ (e.size = kept \/ e.size = MaxBuf)
    BY <1>1, <2>1, <2>2
  <2>4. Truncated(e) => e.size \in 1 .. e.len - 1 /\ (e.size = MaxBuf \/ e.len > MaskLen)
    BY <1>1, <2>2, <2>3 DEF Truncated
  <2>5. ~Truncated(e) => e.size = e.len \/ (e.size = 0 /\ kept = 0)
    BY <1>1, <2>2, <2>3 DEF Truncated
  <2> QED
    BY <1>4, <2>4, <2>5 DEF Tells, kept
<1>5. CASE e.fn = "handshake"
  BY <1>5 DEF Tells
<1> QED
  BY <1>2, <1>3, <1>4, <1>5 DEF Event, Fns

\* The printer takes the oldest event and shows it as it was made.
LEMMA PollKeeps ==
  ASSUME IInv, Poll
  PROVE  /\ \A u \in Threads : OwnState(u)'
         /\ \A e \in Range(ring') : Sound(e)'
         /\ NoUnexplainedLoss'
         /\ CutsTold'
<1>1. Typed /\ ring \in Seq(Event) /\ ring # <<>>
  BY DEF Poll, IInv, Typed, TypeOK
<1>2. ASSUME NEW u \in Threads PROVE OwnState(u)'
  <2>1. Grows
    BY <1>1 DEF Poll, Grows, Typed, TypeOK
  <2>2. Untouched(u)
    BY DEF Poll, Untouched, SameAt
  <2> QED
    BY <1>1, <2>1, <2>2, UntouchedKeeps DEF IInv
<1>3. /\ Head(ring) \in Event /\ Head(ring) \in Range(ring)
      /\ Range(Tail(ring)) \subseteq Range(ring)
  <2>1. Len(ring) \in Nat \ {0} /\ Head(ring) = ring[1]
    BY <1>1
  <2>2. Tail(ring) \in Seq(Event) /\ Head(ring) \in Event /\ Len(Tail(ring)) = Len(ring) - 1
        /\ \A i \in 1 .. Len(Tail(ring)) : Tail(ring)[i] = ring[i + 1]
    BY <1>1, HeadTailProperties
  <2>3. /\ Range(ring) = {ring[i] : i \in 1 .. Len(ring)}
        /\ Range(Tail(ring)) = {Tail(ring)[i] : i \in 1 .. Len(Tail(ring))}
    BY <1>1, <2>2, RangeEquality
  <2>4. ASSUME NEW i \in 1 .. Len(Tail(ring)) PROVE Tail(ring)[i] \in Range(ring)
    <3>1. i + 1 \in 1 .. Len(ring)
      BY <2>1, <2>2
    <3> QED
      BY <2>2, <2>3, <3>1
  <2>5. ring[1] \in Range(ring)
    BY <2>1, <2>3
  <2> QED
    BY <2>1, <2>2, <2>3, <2>4, <2>5
<1>4. \A e \in Range(ring') : Sound(e)'
  BY <1>3 DEF Poll, IInv, Sound
<1>5. CutsTold'
  <2> DEFINE e == Head(ring)
  <2>1. \A l \in out' : l = [event |-> e, truncated |-> Truncated(e)]
    BY DEF Poll
  <2>2. Tells(e)
    BY <1>3, SoundTells DEF IInv
  <2> HIDE DEF e
  <2> QED
    BY <2>1, <2>2 DEF CutsTold, Tells
<1> QED
  BY <1>2, <1>4, <1>5 DEF Poll, IInv, NoUnexplainedLoss

-----------------------------------------------------------------------------
\* The invariant holds

LEMMA IInvInit == Init => IInv
<1> SUFFICES ASSUME Init PROVE IInv
  OBVIOUS
<1>1. Typed
  BY TypedInit
<1>2. ASSUME NEW t \in Threads PROVE OwnState(t)
  <2>1. calls[t] = <<>> /\ Nested(<<>>)
    BY DEF Init, Nested
  <2>2. t \notin DOMAIN bufs /\ t \notin DOMAIN start_ns /\ t \notin DOMAIN readbytes_ptrs
    BY DEF Init
  <2> QED
    BY <2>1, <2>2, EmptyRange DEF OwnState, PtrOwned
<1>3. \A e \in Range(ring) : Sound(e)
  BY EmptyRange DEF Init
<1> QED
  BY <1>1, <1>2, <1>3 DEF Init, IInv, NoUnexplainedLoss, CutsTold

\* A step that prints nothing marks nothing.
LEMMA SilentMarks ==
  ASSUME out' = {} PROVE CutsTold'
BY DEF CutsTold

LEMMA IInvNext == IInv /\ [Next]_vars => IInv'
<1> SUFFICES ASSUME IInv, [Next]_vars PROVE IInv'
  OBVIOUS
<1>1. Typed' /\ Typed /\ \A u \in Threads : OwnState(u)
  BY TypedNext DEF IInv
<1> DEFINE Rest == /\ \A u \in Threads : OwnState(u)'
                   /\ \A e \in Range(ring') : Sound(e)'
                   /\ NoUnexplainedLoss'
                   /\ CutsTold'
<1>2. SUFFICES Rest
  BY <1>1 DEF IInv
<1>3. ASSUME NEW t, NEW fn, Begin(t, fn), excused \subseteq excused'
      PROVE  /\ \A e \in Range(ring') : Sound(e)'
             /\ NoUnexplainedLoss'
             /\ CutsTold'
  <2>1. ring' = ring /\ missed' = missed /\ options' = options /\ out' = {}
    BY <1>3 DEF Begin
  <2> QED
    BY <1>3, <2>1, SilentMarks DEF IInv, Sound, NoUnexplainedLoss
<1>4. ASSUME NEW t \in Threads, NEW fn \in Fns, Enter(t, fn) PROVE Rest
  <2>1. Begin(t, fn) /\ excused \subseteq excused'
    BY <1>4 DEF Enter, Excuse
  <2> QED
    BY <1>1, <1>3, <1>4, <2>1, EnterOwn
<1>5. ASSUME NEW t \in Threads, EnterHandshake(t) PROVE Rest
  <2>1. Begin(t, "handshake") /\ excused \subseteq excused'
    BY <1>5 DEF EnterHandshake, Excuse
  <2> QED
    BY <1>1, <1>3, <1>5, <2>1, EnterHandshakeOwn
<1>6. ASSUME NEW t \in Threads, NEW len \in Lens \union {0}, ExitRw(t, len) PROVE Rest
  <2>1. /\ calls[t] # <<>> /\ Inner(t).fn = "rw"
        /\ Transfer(t, len, RwSize(len)) /\ readbytes_ptrs' = readbytes_ptrs
    BY <1>6 DEF ExitRw
  <2>2. RwSize(len) \in 0 .. MaxBuf
    BY SizeType, SniffAssumption
  <2>3. out' = {}
    BY <2>1, TransferCases DEF Return
  <2> QED
    BY <2>1, <2>2, <2>3, TransferKeeps, SilentMarks
<1>7. ASSUME NEW t \in Threads, NEW len \in Lens \union {0}, ExitEx(t, len) PROVE Rest
  <2>1. calls[t] # <<>> /\ Inner(t).fn = "ex" /\ readbytes_ptrs' = Del(readbytes_ptrs, t)
    BY <1>7 DEF ExitEx, PtrsAfter
  <2>2. CASE t \in DOMAIN readbytes_ptrs
    <3>1. Transfer(t, len, ExSize(len))
      BY <1>7, <2>2 DEF ExitEx
    <3>2. ExSize(len) \in 0 .. MaxBuf /\ (len < MaskLen => ExSize(len) = RwSize(len))
      BY SizeType, SniffAssumption
    <3>3. out' = {}
      BY <3>1, TransferCases DEF Return
    <3> QED
      BY <2>1, <2>2, <3>1, <3>2, <3>3, TransferKeeps, SilentMarks
  <2>3. CASE t \notin DOMAIN readbytes_ptrs
    <3>1. Return(t, <<>>, Allowed(t) /\ len > 0) /\ UNCHANGED <<bufs, start_ns, excused>>
      BY <1>7, <2>3 DEF ExitEx
    <3>2. Grows /\ calls' = [calls EXCEPT ![t] = Tail(calls[t])] /\ out' = {}
      BY <1>1, <3>1 DEF Return, Grows, Typed, TypeOK
    <3>3. \A u \in Threads : OwnState(u)'
      BY <1>1, <2>1, <3>1, <3>2, ReturnOwn
    <3>4. \A e \in Range(ring') : Sound(e)'
      BY <1>1, <3>1, ReturnRing DEF IInv
    <3>5. Allowed(t) => Inner(t).id \in excused
      <4>1. Inner(t) \in Range(calls[t])
        BY <1>1, <2>1, InnerType
      <4>2. OwnCall(t, Inner(t))
        BY <1>1, <4>1 DEF OwnState
      <4> QED
        BY <2>1, <2>3, <4>2 DEF OwnCall
    <3>6. NoUnexplainedLoss'
      <4>1. /\ options' = options /\ excused' = excused
            /\ missed' = IF Allowed(t) /\ len > 0 THEN missed \union {Inner(t)} ELSE missed
        BY <3>1 DEF Return
      <4> QED
        BY <3>5, <4>1 DEF IInv, NoUnexplainedLoss
    <3> QED
      BY <3>2, <3>3, <3>4, <3>6, SilentMarks
  <2> QED
    BY <2>2, <2>3
<1>8. ASSUME NEW t \in Threads, NEW ok \in BOOLEAN, ExitHandshake(t, ok) PROVE Rest
  <2>1. out' = {}
    BY <1>8 DEF ExitHandshake, Return
  <2> QED
    BY <1>8, <2>1, ExitHandshakeKeeps, SilentMarks
<1>9. ASSUME NEW t \in Threads, Kill(t) PROVE Rest
  <2>1. out' = {}
    BY <1>9 DEF Kill
  <2> QED
    BY <1>9, <2>1, KillKeeps, SilentMarks
<1>10. CASE Poll
  BY <1>10, PollKeeps
<1>11. CASE UNCHANGED vars
  <2>1. ASSUME NEW u \in Threads PROVE OwnState(u)'
    <3>1. Grows /\ Untouched(u)
      BY <1>1, <1>11 DEF vars, Grows, Untouched, SameAt, Typed, TypeOK
    <3> QED
      BY <1>1, <3>1, UntouchedKeeps
  <2> QED
    BY <1>11, <2>1 DEF vars, IInv, Sound, NoUnexplainedLoss, CutsTold
<1> HIDE DEF Rest
<1> QED
  BY <1>4, <1>5, <1>6, <1>7, <1>8, <1>9, <1>10, <1>11 DEF Next

LEMMA Inductive == Spec => []IInv
<1> QED
  BY IInvInit, IInvNext, PTL DEF Spec

\* An event carries the buffer and the start of the call whose return made it,
\* whatever calls of the thread failed, were killed or were filtered before.
THEOREM CallsJoined == Spec => []JoinsOwnCall
<1>1. IInv => JoinsOwnCall
  BY DEF IInv, Sound, JoinsOwnCall
<1> QED
  BY <1>1, Inductive, PTL

\* What a traced thread read or wrote is reported, unless a map or the ring was
\* full or a handshake inside took the start time: no other order of calls of
\* any number of threads loses data.
THEOREM LossExplained == Spec => []NoUnexplainedLoss
<1>1. IInv => NoUnexplainedLoss
  BY DEF IInv
<1> QED
  BY <1>1, Inductive, PTL

\* A length pointer stays only with a thread killed inside a call.
THEOREM PointersDropped == Spec => []PtrsDropped
<1>1. IInv => PtrsDropped
  <2> SUFFICES ASSUME IInv, NEW t \in DOMAIN readbytes_ptrs
               PROVE  t \in killed \/ \E c \in Range(calls[t]) : c = [id |-> readbytes_ptrs[t], fn |-> "ex"]
    BY DEF PtrsDropped
  <2>1. t \in Threads
    BY PartialMapFunction DEF IInv, Typed, Maps, Bounded
  <2> QED
    BY <2>1 DEF IInv, OwnState, PtrOwned
<1> QED
  BY <1>1, Inductive, PTL

\* For every buffer size, mask and length, a line that is not marked as truncated has
\* all of its call's data, or none because the copy faulted or the mask of the
\* *_ex probes made zero of the length, which the line does not say.
THEOREM CutsAreTold == Spec => []CutsTold
<1>1. IInv => CutsTold
  BY DEF IInv
<1> QED
  BY <1>1, Inductive, PTL

=============================================================================
