--------------------------- MODULE RotationProofs ---------------------------
(***************************************************************************)
(* What holds of the rotating log for every number of files, size and      *)
(* interval, and for any number of events and restarts.                    *)
(***************************************************************************)
EXTENDS LogRotation, SequenceTheorems, FiniteSetTheorems, WellFoundedInduction, TLAPS

-----------------------------------------------------------------------------
\* Induction and recursion

\* A set with 0 and with the successor of each of its members holds every
\* natural number.
LEMMA SetInduction ==
  ASSUME NEW T, 0 \in T, \A n \in Nat : n \in T => n + 1 \in T
  PROVE  Nat \subseteq T
<1> SUFFICES ASSUME Nat \ T # {}
             PROVE  FALSE
  OBVIOUS
<1> DEFINE R == OpToRel(<, Nat)
<1>1. \E x \in Nat \ T : \A y \in Nat \ T : <<y, x>> \notin R
  <2>1. IsWellFoundedOn(R, Nat)
    BY NatLessThanWellFounded
  <2> HIDE DEF R
  <2> QED
    BY <2>1, WFMin
<1>2. PICK x \in Nat \ T : \A y \in Nat \ T : ~(y < x)
  BY <1>1 DEF OpToRel
<1>3. x # 0 /\ x - 1 \in Nat /\ x - 1 < x
  OBVIOUS
<1> QED
  BY <1>2, <1>3

\* What a recursion computes from base in n steps exists.
LEMMA RecursionExists ==
  ASSUME NEW V, NEW base \in V, NEW n \in Nat, NEW step \in [1 .. n -> [V -> V]]
  PROVE  \E g \in [0 .. n -> V] : g[0] = base /\ \A i \in 1 .. n : g[i] = step[i][g[i - 1]]
<1> DEFINE Good(g, k) == g[0] = base /\ \A i \in 1 .. k : g[i] = step[i][g[i - 1]]
           T == {k \in Nat : k <= n => \E g \in [0 .. k -> V] : Good(g, k)}
<1>1. 0 \in T
  <2>1. [i \in 0 .. 0 |-> base] \in [0 .. 0 -> V] /\ Good([i \in 0 .. 0 |-> base], 0)
    OBVIOUS
  <2> QED
    BY <2>1
<1>2. ASSUME NEW k \in Nat, k \in T
      PROVE  k + 1 \in T
  <2>1. CASE ~(k + 1 <= n)
    BY <2>1
  <2>2. CASE k + 1 <= n
    <3>1. k <= n
      BY <2>2
    <3>2. \E g \in [0 .. k -> V] : Good(g, k)
      <4> HIDE DEF Good
      <4> QED
        BY <1>2, <3>1
    <3>3. PICK g \in [0 .. k -> V] : Good(g, k)
      BY <3>2
    <3> DEFINE h == [i \in 0 .. k + 1 |-> IF i = k + 1 THEN step[k + 1][g[k]] ELSE g[i]]
    <3>4. k + 1 \in 1 .. n /\ g[k] \in V
      BY <2>2
    <3>5. step[k + 1][g[k]] \in V
      BY <3>4
    <3>6. h \in [0 .. k + 1 -> V]
      BY <3>5
    <3>7. \A i \in 0 .. k : h[i] = g[i]
      OBVIOUS
    <3>8. h[k + 1] = step[k + 1][h[k]]
      BY <3>7
    <3>9. h[0] = base
      BY <3>3, <3>7
    <3>10. ASSUME NEW i \in 1 .. k + 1
           PROVE  h[i] = step[i][h[i - 1]]
      <4> HIDE DEF h
      <4>1. CASE i = k + 1
        BY <3>8, <4>1
      <4>2. CASE i # k + 1
        <5>1. i \in 1 .. k /\ i \in 0 .. k /\ i - 1 \in 0 .. k
          BY <4>2
        <5> QED
          BY <3>3, <3>7, <5>1
      <4> QED
        BY <4>1, <4>2
    <3>11. Good(h, k + 1)
      BY <3>9, <3>10
    <3>12. \E x \in [0 .. k + 1 -> V] : Good(x, k + 1)
      <4> HIDE DEF h, Good
      <4> QED
        BY <3>6, <3>11
    <3> HIDE DEF Good
    <3> QED
      BY <3>12
  <2> QED
    BY <2>1, <2>2
<1>3. Nat \subseteq T
  <2> HIDE DEF T
  <2> QED
    BY <1>1, <1>2, SetInduction
<1>4. n \in T
  BY <1>3
<1>5. \E g \in [0 .. n -> V] : Good(g, n)
  <2> HIDE DEF Good
  <2> QED
    BY <1>4
<1> QED
  BY <1>5

-----------------------------------------------------------------------------
\* Arithmetic

\* Counting modulo n.
LEMMA ModSuccessor ==
  ASSUME NEW n \in Nat \ {0}, NEW x \in Nat
  PROVE  /\ x % n \in 0 .. n - 1
         /\ (x + 1) % n # 0 => (x + 1) % n = (x % n) + 1
<1> DEFINE q == x \div n
           r == x % n
           p == (x + 1) \div n
           s == (x + 1) % n
<1>1. q \in Nat /\ r \in 0 .. n - 1 /\ x = n * q + r
  OBVIOUS
<1>2. p \in Nat /\ s \in 0 .. n - 1 /\ x + 1 = n * p + s
  OBVIOUS
<1>3. s # 0 => s = r + 1
  <2> HIDE DEF q, r, p, s
  <2> SUFFICES ASSUME s # 0 PROVE s = r + 1
    OBVIOUS
  <2>1. n * p + s = n * q + (r + 1) /\ s \in 1 .. n - 1 /\ r + 1 \in 1 .. n
    BY <1>1, <1>2
  <2>2. CASE p = q
    BY <2>1, <2>2, <1>1, <1>2
  <2>3. CASE p >= q + 1
    <3>1. n * p >= n * q + n
      <4>1. PICK d \in Nat : p = q + 1 + d
        BY <2>3, <1>1, <1>2
      <4>2. n * p = n * q + n + n * d /\ n * d \in Nat
        BY <4>1, <1>1
      <4> QED
        BY <4>2, <1>1
    <3>2. n * p \in Nat /\ n * q \in Nat
      BY <1>1, <1>2
    <3> QED
      BY <2>1, <3>1, <3>2
  <2>4. CASE q >= p + 1
    <3>1. n * q >= n * p + n
      <4>1. PICK d \in Nat : q = p + 1 + d
        BY <2>4, <1>1, <1>2
      <4>2. n * q = n * p + n + n * d /\ n * d \in Nat
        BY <4>1, <1>2
      <4> QED
        BY <4>2, <1>2
    <3>2. n * p \in Nat /\ n * q \in Nat
      BY <1>1, <1>2
    <3> QED
      BY <2>1, <3>1, <3>2
  <2> QED
    BY <1>1, <1>2, <2>2, <2>3, <2>4
<1> QED
  BY <1>1, <1>3

LEMMA ProductSuccessor ==
  ASSUME NEW a \in Nat, NEW b \in Nat
  PROVE  a * b \in Nat /\ (a + 1) * b = a * b + b
OBVIOUS

-----------------------------------------------------------------------------
\* Names, files and the handle in a rotation

Contents == Seq(1 .. MaxEvents)

\* The names, files and handle that a step works with.
GoodState(state) ==
  /\ state.files \in Seq(Contents)
  /\ state.names \in [Names -> 0 .. Len(state.files)]
  /\ state.handle \in 1 .. Len(state.files)

LEMMA NameRange == 0 \in Names /\ 1 \in Names /\ 0 < MaxFiles
BY RotationAssumption DEF Names

\* A rotation gives each name one of the files that had a name, or none.
LEMMA ShiftedNames ==
  ASSUME TypeOK, NEW refused
  PROVE  /\ Shifted(refused) \in [Names -> 0 .. Len(files)]
         /\ \A i \in Names : Shifted(refused)[i] = 0 \/ \E j \in Names : Shifted(refused)[i] = names[j]
<1> DEFINE moved == Movable \ refused
<1>1. Shifted(refused) = [i \in Names |-> IF i > 0 /\ i - 1 \in moved THEN names[i - 1]
                                          ELSE IF i \in moved THEN 0 ELSE names[i]]
  BY DEF Shifted
<1>2. \A j \in moved : j \in Names
  BY DEF Movable
<1>3. names \in [Names -> 0 .. Len(files)] /\ 0 \in 0 .. Len(files)
  BY DEF TypeOK
<1>4. ASSUME NEW i \in Names
      PROVE  Shifted(refused)[i] = 0 \/ \E j \in Names : Shifted(refused)[i] = names[j]
  <2> HIDE DEF moved
  <2>1. CASE i > 0 /\ i - 1 \in moved
    <3>1. Shifted(refused)[i] = names[i - 1] /\ i - 1 \in Names
      BY <1>1, <1>2, <2>1
    <3> QED
      BY <3>1
  <2>2. CASE ~(i > 0 /\ i - 1 \in moved)
    <3>1. Shifted(refused)[i] = IF i \in moved THEN 0 ELSE names[i]
      BY <1>1, <2>2
    <3> QED
      BY <3>1
  <2> QED
    BY <2>1, <2>2
<1>5. \A i \in Names : Shifted(refused)[i] \in 0 .. Len(files)
  BY <1>3, <1>4
<1>6. DOMAIN Shifted(refused) = Names /\ Shifted(refused) = [i \in Names |-> Shifted(refused)[i]]
  BY <1>1
<1> QED
  BY <1>4, <1>5, <1>6

\* Where the log goes: it stays, or the newest rotated file is what it was.
LEMMA ShiftedLog ==
  ASSUME TypeOK, names[0] # 0, NEW refused
  PROVE  IF 0 \in refused THEN Shifted(refused)[0] = names[0]
                          ELSE Shifted(refused)[0] = 0 /\ Shifted(refused)[1] = names[0]
<1>1. 0 \in Movable
  BY NameRange DEF Movable
<1>2. ~(0 > 0) /\ 1 > 0 /\ 1 - 1 = 0
  OBVIOUS
<1>3. CASE 0 \in refused
  BY <1>1, <1>2, <1>3, NameRange DEF Shifted
<1>4. CASE 0 \notin refused
  BY <1>1, <1>2, <1>4, NameRange DEF Shifted
<1> QED
  BY <1>3, <1>4

\* A log that is created is empty, has the name, and is written; no other file
\* changes.
LEMMA CreatedProperties ==
  ASSUME TypeOK, NEW named \in [Names -> 0 .. Len(files)]
  PROVE  /\ GoodState(Created(named))
         /\ Created(named).names[0] = Created(named).handle
         /\ Created(named).files[Created(named).handle] = <<>>
         /\ \A i \in Names \ {0} : Created(named).names[i] = named[i]
         /\ \A f \in 1 .. Len(files) : f # Created(named).handle => Created(named).files[f] = files[f]
<1>1. /\ files \in Seq(Contents) /\ Len(files) \in Nat /\ <<>> \in Contents
      /\ files \in [1 .. Len(files) -> Contents]
  BY LenProperties DEF TypeOK, Contents
<1>2. CASE named[0] # 0
  <2> DEFINE f == named[0]
  <2>1. f \in 1 .. Len(files)
    BY <1>1, <1>2, NameRange
  <2>2. Created(named) = [names |-> named, files |-> [files EXCEPT ![f] = <<>>], handle |-> f]
    BY <1>2 DEF Created
  <2>3. /\ [files EXCEPT ![f] = <<>>] \in Seq(Contents)
        /\ Len([files EXCEPT ![f] = <<>>]) = Len(files)
        /\ \A j \in 1 .. Len(files) : [files EXCEPT ![f] = <<>>][j] = IF j = f THEN <<>> ELSE files[j]
    BY <1>1, <2>1, ExceptSeq
  <2> HIDE DEF f
  <2>4. /\ Created(named).names = named /\ Created(named).handle = f
        /\ Created(named).files = [files EXCEPT ![f] = <<>>]
    BY <2>2
  <2>5. named[0] = f
    BY DEF f
  <2> QED
    BY <2>1, <2>3, <2>4, <2>5 DEF GoodState
<1>3. CASE named[0] = 0
  <2> DEFINE n  == Len(files) + 1
             fs == Append(files, <<>>)
             ns == [named EXCEPT ![0] = n]
  <2>1. Created(named) = [names |-> ns, files |-> fs, handle |-> n]
    BY <1>3 DEF Created
  <2>2. /\ fs \in Seq(Contents) /\ Len(fs) = n
        /\ fs[n] = <<>>
        /\ \A j \in 1 .. Len(files) : fs[j] = files[j]
    BY <1>1, AppendProperties
  <2>3. n \in Nat /\ n \in 1 .. n /\ \A j \in 0 .. Len(files) : j \in 0 .. n
    BY <1>1
  <2>4. ns \in [Names -> 0 .. n] /\ ns[0] = n /\ \A i \in Names \ {0} : ns[i] = named[i]
    BY <2>3, NameRange
  <2> HIDE DEF n, fs, ns
  <2>5. Created(named).names = ns /\ Created(named).handle = n /\ Created(named).files = fs
    BY <2>1
  <2> QED
    BY <2>2, <2>3, <2>4, <2>5 DEF GoodState
<1> QED
  BY <1>2, <1>3

\* Writing an event adds it to the file of the handle, or adds nothing.
LEMMA WrittenProperties ==
  ASSUME TypeOK, logged + 1 \in 1 .. MaxEvents, NEW state, GoodState(state), NEW writes \in BOOLEAN,
         Written(state, writes)
  PROVE  /\ files' \in Seq(Contents) /\ Len(files') = Len(state.files)
         /\ names' \in [Names -> 0 .. Len(files')]
         /\ file_handle' \in 1 .. Len(files')
         /\ \A f \in 1 .. Len(state.files) :
              /\ Len(files'[f]) \in Nat /\ Len(state.files[f]) \in Nat
              /\ Len(files'[f]) <= Len(state.files[f]) + 1
              /\ f # state.handle => files'[f] = state.files[f]
<1> DEFINE fs == state.files
           h  == state.handle
<1>1. /\ fs \in Seq(Contents) /\ Len(fs) \in Nat /\ h \in 1 .. Len(fs)
      /\ \A f \in 1 .. Len(fs) : fs[f] \in Contents /\ Len(fs[f]) \in Nat
  BY LenProperties DEF GoodState, Contents
<1>2. /\ names' = state.names /\ file_handle' = h
      /\ files' = IF writes THEN [fs EXCEPT ![h] = Append(fs[h], logged + 1)] ELSE fs
  BY DEF Written
<1>3. CASE writes
  <2>1. /\ Append(fs[h], logged + 1) \in Contents
        /\ Len(Append(fs[h], logged + 1)) = Len(fs[h]) + 1
    BY <1>1, AppendProperties DEF Contents
  <2>2. /\ files' \in Seq(Contents) /\ Len(files') = Len(fs)
        /\ \A f \in 1 .. Len(fs) : files'[f] = IF f = h THEN Append(fs[h], logged + 1) ELSE fs[f]
    BY <1>1, <1>2, <1>3, <2>1, ExceptSeq
  <2>3. ASSUME NEW f \in 1 .. Len(fs)
        PROVE  Len(files'[f]) \in Nat /\ Len(files'[f]) <= Len(fs[f]) + 1
    <3>1. CASE f = h
      <4>1. files'[f] = Append(fs[h], logged + 1)
        BY <2>2, <3>1
      <4>2. Len(files'[f]) = Len(fs[f]) + 1 /\ Len(fs[f]) \in Nat
        BY <1>1, <2>1, <3>1, <4>1
      <4> QED
        BY <4>2
    <3>2. CASE f # h
      <4>1. files'[f] = fs[f]
        BY <2>2, <3>2
      <4> QED
        BY <1>1, <4>1
    <3> QED
      BY <3>1, <3>2
  <2> QED
    BY <1>1, <1>2, <2>2, <2>3 DEF GoodState
<1>4. CASE ~writes
  <2>1. files' = fs
    BY <1>2, <1>4
  <2>2. ASSUME NEW f \in 1 .. Len(fs)
        PROVE  Len(files'[f]) \in Nat /\ Len(files'[f]) <= Len(fs[f]) + 1
    BY <1>1, <2>1
  <2> QED
    BY <1>1, <1>2, <2>1, <2>2 DEF GoodState
<1> QED
  BY <1>3, <1>4

\* The names, files and handle an event is written with.
Current == [names |-> names, files |-> files, handle |-> file_handle]

Ready(refused, creates) == IF Due THEN Rotated(refused, creates) ELSE Current

LEMMA ReadyGood ==
  ASSUME TypeOK, NEW refused, NEW creates \in BOOLEAN
  PROVE  GoodState(Ready(refused, creates))
<1>1. GoodState(Current)
  BY DEF GoodState, Current, TypeOK, Contents
<1>2. CASE Due /\ creates
  BY <1>2, ShiftedNames, CreatedProperties DEF Ready, Rotated
<1>3. CASE Due /\ ~creates
  <2>1. Ready(refused, creates) = [names |-> Shifted(refused), files |-> files, handle |-> file_handle]
    BY <1>3 DEF Ready, Rotated
  <2> QED
    BY <2>1, ShiftedNames DEF GoodState, TypeOK, Contents
<1> QED
  BY <1>1, <1>2, <1>3 DEF Ready

\* The names, files and handle of the log that is opened after a stop.
LEMMA OpenedProperties ==
  ASSUME TypeOK, NEW named \in [Names -> 0 .. Len(files)]
  PROVE  /\ GoodState(Opened(named))
         /\ Opened(named).names[0] = Opened(named).handle
         /\ named[0] # 0 => Opened(named) = [names |-> named, files |-> files, handle |-> named[0]]
         /\ named[0] = 0 => Opened(named) = Created(named)
<1>1. CASE named[0] # 0
  <2>1. Opened(named) = [names |-> named, files |-> files, handle |-> named[0]]
    BY <1>1 DEF Opened
  <2>2. named[0] \in 1 .. Len(files)
    BY <1>1, NameRange, LenProperties DEF TypeOK
  <2> QED
    BY <1>1, <2>1, <2>2 DEF GoodState, TypeOK, Contents
<1>2. CASE named[0] = 0
  BY <1>2, CreatedProperties DEF Opened
<1> QED
  BY <1>1, <1>2

LEMMA StoppedNames ==
  ASSUME TypeOK, NEW k
  PROVE  /\ Stopped(k) \in [Names -> 0 .. Len(files)]
         /\ \A i \in Names : Stopped(k)[i] = 0 \/ \E j \in Names : Stopped(k)[i] = names[j]
<1>1. CASE Due
  BY <1>1, ShiftedNames DEF Stopped
<1>2. CASE ~Due
  BY <1>2 DEF Stopped, TypeOK
<1> QED
  BY <1>1, <1>2

-----------------------------------------------------------------------------
\* Types

LEMMA LogReady ==
  ASSUME NEW refused, NEW creates, NEW writes, Log(refused, creates, writes)
  PROVE  Written(Ready(refused, creates), writes)
BY DEF Log, Ready, Current

LEMMA TypeNext == TypeOK /\ [Next]_vars => TypeOK'
<1> SUFFICES ASSUME TypeOK, [Next]_vars PROVE TypeOK'
  OBVIOUS
<1>1. ASSUME NEW refused \in SUBSET Names, NEW creates \in BOOLEAN, NEW writes \in BOOLEAN,
             Log(refused, creates, writes)
      PROVE  TypeOK'
  <2>1. logged + 1 \in 1 .. MaxEvents /\ logged' \in 0 .. MaxEvents /\ event_count' \in 0 .. logged'
    BY <1>1, RotationAssumption DEF Log, TypeOK, Counted
  <2>2. /\ files' \in Seq(Contents)
        /\ names' \in [Names -> 0 .. Len(files')]
        /\ file_handle' \in 1 .. Len(files')
    BY <1>1, <2>1, LogReady, ReadyGood, WrittenProperties
  <2>3. restarts' = restarts /\ failed' \in BOOLEAN /\ orphaned' \in BOOLEAN
    BY <1>1 DEF Log, TypeOK
  <2> QED
    BY <2>1, <2>2, <2>3 DEF TypeOK, Contents
<1>2. ASSUME NEW k \in Names, Restart(k) PROVE TypeOK'
  <2>1. GoodState(Opened(Stopped(k)))
    BY StoppedNames, OpenedProperties
  <2>2. /\ names' = Opened(Stopped(k)).names
        /\ files' = Opened(Stopped(k)).files
        /\ file_handle' = Opened(Stopped(k)).handle
    BY <1>2 DEF Restart
  <2>3. restarts' \in 0 .. MaxRestarts /\ event_count' \in 0 .. logged /\ logged' = logged
    BY <1>2, RotationAssumption DEF Restart, TypeOK
  <2> QED
    BY <1>2, <2>1, <2>2, <2>3 DEF Restart, GoodState, TypeOK, Contents
<1>3. CASE UNCHANGED vars
  BY <1>3 DEF vars, TypeOK
<1> QED
  BY <1>1, <1>2, <1>3 DEF Next

LEMMA TypeInit == Init => TypeOK
<1> SUFFICES ASSUME Init PROVE TypeOK
  OBVIOUS
<1>1. files \in Seq(Seq(1 .. MaxEvents)) /\ Len(files) = 1
  BY DEF Init
<1>2. names \in [Names -> 0 .. 1]
  BY DEF Init
<1>3. names \in [Names -> 0 .. Len(files)] /\ file_handle \in 1 .. Len(files)
  BY <1>1, <1>2 DEF Init
<1>4. 0 \in 0 .. MaxEvents /\ 0 \in 0 .. MaxRestarts /\ 0 \in 0 .. 0
  BY RotationAssumption
<1>5. logged = 0 /\ event_count = 0 /\ restarts = 0 /\ failed = FALSE /\ orphaned = FALSE
  BY DEF Init
<1> QED
  BY <1>1, <1>3, <1>4, <1>5 DEF TypeOK

\* The state has its types: names lead to files that were created, and the
\* handle is always that of one.
THEOREM RotationTypes == Spec => []TypeOK
<1> QED
  BY TypeInit, TypeNext, PTL DEF Spec

-----------------------------------------------------------------------------
\* The file that is written

LEMMA WritesFoundNext == TypeOK /\ WritesFound /\ [Next]_vars => WritesFound'
<1> SUFFICES ASSUME TypeOK, WritesFound, [Next]_vars PROVE WritesFound'
  OBVIOUS
<1>1. ASSUME NEW refused \in SUBSET Names, NEW creates \in BOOLEAN, NEW writes \in BOOLEAN,
             Log(refused, creates, writes)
      PROVE  WritesFound'
  <2> DEFINE state == Ready(refused, creates)
  <2>1. names' = state.names /\ file_handle' = state.handle
    BY <1>1, LogReady DEF Written
  <2>2. CASE ~Due
    BY <2>1, <2>2 DEF Ready, Current, WritesFound
  <2>3. CASE Due /\ creates
    <3>1. state = Created(Shifted(refused))
      BY <2>3 DEF Ready, Rotated
    <3>2. state.names[0] = state.handle /\ state.handle \in 1 .. Len(state.files)
      BY <3>1, ShiftedNames, CreatedProperties DEF GoodState
    <3>3. state.handle # 0
      BY <3>2
    <3> QED
      BY <2>1, <3>2, <3>3 DEF WritesFound
  <2>4. CASE Due /\ ~creates
    <3>1. state = [names |-> Shifted(refused), files |-> files, handle |-> file_handle]
      BY <2>4 DEF Ready, Rotated
    <3>2. names[0] # 0 /\ file_handle = names[0]
      BY <2>4 DEF Due, WritesFound
    <3> QED
      BY <2>1, <3>1, <3>2, ShiftedLog DEF WritesFound
  <2> QED
    BY <2>2, <2>3, <2>4
<1>2. ASSUME NEW k \in Names, Restart(k) PROVE WritesFound'
  <2> DEFINE state == Opened(Stopped(k))
  <2>1. names' = state.names /\ file_handle' = state.handle
    BY <1>2 DEF Restart
  <2>2. state.names[0] = state.handle /\ state.handle \in 1 .. Len(state.files)
    BY StoppedNames, OpenedProperties DEF GoodState
  <2>3. state.handle # 0
    BY <2>2
  <2> QED
    BY <2>1, <2>2, <2>3 DEF WritesFound
<1>3. CASE UNCHANGED vars
  BY <1>3 DEF vars, WritesFound
<1> QED
  BY <1>1, <1>2, <1>3 DEF Next

LEMMA WritesFoundInit == Init => WritesFound
BY NameRange DEF Init, WritesFound

\* However many renames and creates are refused, and wherever a rotation is cut
\* short, the events go to the log or, if it has no name, to the newest rotated
\* file: never to a file that no name leads to.
THEOREM HandleFound == Spec => []WritesFound
<1> QED
  BY RotationTypes, WritesFoundInit, WritesFoundNext, PTL DEF Spec

-----------------------------------------------------------------------------
\* The size of the files

\* What the starts so far may have added to a file unseen.
Carried == restarts * (Interval - 1)

\* The log has been looked at when it had MaxSize events, and then got the one
\* of that look and those since.
LogBound == MaxSize + 1 + (event_count % Interval) + Carried

FileBound == MaxSize + Interval + Carried

Sizes ==
  ~orphaned => /\ names[0] # 0
               /\ Len(files[names[0]]) <= LogBound
               /\ \A i \in Names : names[i] # 0 => Len(files[names[i]]) <= FileBound

BoundsTyped ==
         /\ Carried \in Nat /\ Interval - 1 \in Nat /\ MaxSize \in Nat
         /\ event_count % Interval \in 0 .. Interval - 1
         /\ LogBound \in Nat /\ FileBound \in Nat /\ LogBound <= FileBound
         /\ Len(files) \in Nat
         /\ \A f \in 1 .. Len(files) : Len(files[f]) \in Nat

LEMMA BoundTypes == TypeOK => BoundsTyped
<1> SUFFICES ASSUME TypeOK PROVE BoundsTyped
  OBVIOUS
<1>1. Interval \in Nat \ {0} /\ Interval - 1 \in Nat /\ MaxSize \in Nat
  BY RotationAssumption
<1>2. restarts \in Nat /\ event_count \in Nat
  BY RotationAssumption DEF TypeOK
<1>3. Carried \in Nat
  BY <1>1, <1>2, ProductSuccessor DEF Carried
<1>4. event_count % Interval \in 0 .. Interval - 1
  BY <1>1, <1>2, ModSuccessor
<1>5. LogBound \in Nat /\ FileBound \in Nat /\ LogBound <= FileBound
  BY <1>1, <1>3, <1>4 DEF LogBound, FileBound
<1>6. Len(files) \in Nat /\ \A f \in 1 .. Len(files) : Len(files[f]) \in Nat
  BY LenProperties DEF TypeOK
<1> QED
  BY <1>1, <1>3, <1>4, <1>5, <1>6 DEF BoundsTyped

LEMMA BoundTypesNext == TypeOK' => BoundsTyped'
BY BoundTypes, PTL

\* A file that has a name is one of those created.
NamedFiles == \A i \in Names : names[i] # 0 => names[i] \in 1 .. Len(files)

LEMMA NamedFile == TypeOK => NamedFiles
BY LenProperties DEF TypeOK, NamedFiles

LEMMA NamedFileNext == TypeOK' => NamedFiles'
BY NamedFile, PTL

\* After a create, the log is empty and no other named file has grown.
LEMMA CreatedSizes ==
  ASSUME TypeOK, NEW named \in [Names -> 0 .. Len(files)], NEW bound \in Nat,
         \A i \in Names : named[i] # 0 => Len(files[named[i]]) <= bound
  PROVE  /\ Created(named).names[0] \in 1 .. Len(Created(named).files)
         /\ Len(Created(named).files[Created(named).names[0]]) = 0
         /\ \A i \in Names : Created(named).names[i] # 0 =>
              Len(Created(named).files[Created(named).names[i]]) <= bound
<1> DEFINE state == Created(named)
<1>1. /\ state.names[0] = state.handle /\ state.handle \in 1 .. Len(state.files)
      /\ Len(state.files[state.handle]) = 0
  <2>1. Len(<<>>) = 0
    OBVIOUS
  <2> QED
    BY <2>1, CreatedProperties DEF GoodState
<1>2. ASSUME NEW i \in Names, state.names[i] # 0
      PROVE  Len(state.files[state.names[i]]) <= bound
  <2>1. CASE state.names[i] = state.handle
    BY <1>1, <2>1
  <2>2. CASE state.names[i] # state.handle
    <3>1. i # 0
      BY <1>1, <2>2
    <3>2. state.names[i] = named[i] /\ named[i] # 0
      BY <1>2, <3>1, CreatedProperties
    <3>3. named[i] \in 1 .. Len(files)
      BY <3>2, LenProperties DEF TypeOK
    <3>4. state.files[named[i]] = files[named[i]]
      BY <2>2, <3>2, <3>3, CreatedProperties
    <3> QED
      BY <3>2, <3>4
  <2> QED
    BY <2>1, <2>2
<1> QED
  BY <1>1, <1>2

LEMMA SizesLog ==
  ASSUME TypeOK, TypeOK', WritesFound, Sizes,
         NEW refused \in SUBSET Names, NEW creates \in BOOLEAN, NEW writes \in BOOLEAN,
         Log(refused, creates, writes)
  PROVE  Sizes'
<1> SUFFICES ASSUME ~orphaned' PROVE Sizes'
  BY DEF Sizes
<1>1. ~orphaned /\ creates
  BY DEF Log, TypeOK
<1> DEFINE state == Ready(refused, creates)
<1>2. /\ names[0] # 0 /\ file_handle = names[0]
      /\ Len(files[names[0]]) <= LogBound
      /\ \A i \in Names : names[i] # 0 => Len(files[names[i]]) <= FileBound
  BY <1>1 DEF Sizes, WritesFound
<1>3. /\ event_count' = event_count + 1 /\ Carried' = Carried /\ FileBound' = FileBound
      /\ logged + 1 \in 1 .. MaxEvents
  BY RotationAssumption DEF Log, Counted, Carried, FileBound, TypeOK
<1>4. GoodState(state) /\ Written(state, writes)
  BY LogReady, ReadyGood
<1>5. /\ names' = state.names
      /\ \A f \in 1 .. Len(state.files) :
           /\ Len(files'[f]) \in Nat /\ Len(state.files[f]) \in Nat
           /\ Len(files'[f]) <= Len(state.files[f]) + 1
           /\ f # state.handle => files'[f] = state.files[f]
  <2>1. names' = state.names
    BY <1>4 DEF Written
  <2> QED
    BY <1>3, <1>4, <2>1, WrittenProperties
<1>6. LogBound \in Nat /\ LogBound' \in Nat /\ FileBound \in Nat /\ LogBound' <= FileBound
  <2>1. LogBound' \in Nat /\ FileBound' \in Nat /\ LogBound' <= FileBound'
    BY BoundTypesNext DEF BoundsTyped
  <2> QED
    BY <1>3, <2>1, BoundTypes DEF BoundsTyped
\* The log has room for the event, and the others keep theirs.
<1>7. /\ state.names[0] = state.handle /\ state.handle \in 1 .. Len(state.files)
      /\ Len(state.files[state.handle]) + 1 <= LogBound'
      /\ \A i \in Names : state.names[i] # 0 => Len(state.files[state.names[i]]) <= FileBound
  <2>1. CASE Due
    <3>1. state = Created(Shifted(refused))
      BY <1>1, <2>1 DEF Ready, Rotated
    <3>2. \A i \in Names : Shifted(refused)[i] # 0 => Len(files[Shifted(refused)[i]]) <= FileBound
      BY <1>2, ShiftedNames
    <3>3. Shifted(refused) \in [Names -> 0 .. Len(files)]
      BY ShiftedNames
    <3>4. /\ state.names[0] = state.handle
          /\ state.names[0] \in 1 .. Len(state.files)
          /\ Len(state.files[state.names[0]]) = 0
          /\ \A i \in Names : state.names[i] # 0 => Len(state.files[state.names[i]]) <= FileBound
      <4>1. FileBound \in Nat
        BY <1>6
      <4> DEFINE created == Created(Shifted(refused))
      <4>2. created.names[0] = created.handle
        BY <3>3, CreatedProperties
      <4>3. /\ created.names[0] \in 1 .. Len(created.files)
            /\ Len(created.files[created.names[0]]) = 0
            /\ \A i \in Names : created.names[i] # 0 => Len(created.files[created.names[i]]) <= FileBound
        BY <3>2, <3>3, <4>1, CreatedSizes
      <4> QED
        BY <3>1, <4>2, <4>3
    <3>5. 1 <= LogBound'
      <4>1. MaxSize \in Nat /\ event_count' % Interval \in 0 .. Interval - 1 /\ Carried' \in Nat
        BY BoundTypesNext DEF BoundsTyped
      <4>2. event_count' % Interval \in Nat
        BY <4>1, RotationAssumption
      <4> QED
        BY <4>1, <4>2 DEF LogBound
    <3> QED
      BY <3>4, <3>5
  <2>2. CASE ~Due
    <3>1. state = Current
      BY <2>2 DEF Ready
    <3>2. state.names = names /\ state.files = files /\ state.handle = names[0]
      BY <1>2, <3>1 DEF Current
    <3>3. names[0] \in 1 .. Len(files) /\ Len(files[names[0]]) \in Nat
      BY <1>2, NameRange, NamedFile, BoundTypes DEF BoundsTyped, NamedFiles
    <3> DEFINE n == Len(files[names[0]])
               r == event_count % Interval
               k == (event_count + 1) % Interval
    <3>4. /\ n \in Nat /\ MaxSize \in Nat /\ Carried \in Nat /\ r \in Nat /\ k \in Nat
          /\ n <= MaxSize + 1 + r + Carried
          /\ k = 0 => n <= MaxSize
          /\ k # 0 => k = r + 1
      <4>1. Interval \in Nat \ {0} /\ event_count \in Nat
        BY RotationAssumption DEF TypeOK
      <4>2. r \in Nat /\ k \in Nat /\ (k # 0 => k = r + 1)
        <5>1. r \in 0 .. Interval - 1 /\ (k # 0 => k = r + 1)
          BY <4>1, ModSuccessor
        <5>2. event_count + 1 \in Nat
          BY <4>1
        <5>3. k \in 0 .. Interval - 1
          BY <4>1, <5>2, ModSuccessor
        <5> HIDE DEF r, k
        <5> QED
          BY <5>1, <5>3
      <4>3. k = 0 => ~(n > MaxSize)
        BY <1>2, <2>2 DEF Due
      <4>4. MaxSize \in Nat /\ Carried \in Nat
        BY BoundTypes DEF BoundsTyped
      <4> QED
        BY <1>2, <3>3, <4>2, <4>3, <4>4 DEF LogBound
    <3>5. LogBound' = MaxSize + 1 + k + Carried
      BY <1>3 DEF LogBound
    <3>6. n + 1 <= LogBound'
      <4> HIDE DEF n, r, k
      <4> QED
        BY <3>4, <3>5
    <3> QED
      BY <1>2, <3>2, <3>3, <3>6
  <2> QED
    BY <2>1, <2>2
<1>8. names'[0] # 0 /\ Len(files'[names'[0]]) <= LogBound'
  <2>1. names'[0] = state.handle /\ state.handle # 0
    BY <1>5, <1>7
  <2>2. Len(files'[state.handle]) <= LogBound'
    <3> DEFINE a == Len(files'[state.handle])
               b == Len(state.files[state.handle])
    <3>1. a \in Nat /\ b \in Nat /\ a <= b + 1 /\ b + 1 <= LogBound'
      BY <1>5, <1>7
    <3> HIDE DEF a, b
    <3>2. a <= LogBound'
      BY <1>6, <3>1
    <3> QED
      BY <3>2 DEF a
  <2> QED
    BY <2>1, <2>2
<1>9. ASSUME NEW i \in Names, names'[i] # 0
      PROVE  Len(files'[names'[i]]) <= FileBound'
  <2>1. CASE names'[i] = state.handle
    <3>1. names'[0] = names'[i]
      BY <1>5, <1>7, <2>1
    <3>2. Len(files'[names'[0]]) \in Nat
      BY <1>5, <1>7
    <3> QED
      BY <1>3, <1>6, <1>8, <3>1, <3>2
  <2>2. CASE names'[i] # state.handle
    <3>1. names'[i] = state.names[i] /\ state.names[i] \in 1 .. Len(state.files)
      BY <1>4, <1>5, <1>9, LenProperties DEF GoodState
    <3>2. files'[names'[i]] = state.files[names'[i]]
      BY <1>5, <2>2, <3>1
    <3> QED
      BY <1>3, <1>7, <1>9, <3>1, <3>2
  <2> QED
    BY <2>1, <2>2
<1> QED
  BY <1>8, <1>9 DEF Sizes

LEMMA SizesRestart ==
  ASSUME TypeOK, TypeOK', WritesFound, Sizes, NEW k \in Names, Restart(k)
  PROVE  Sizes'
<1> SUFFICES ASSUME ~orphaned' PROVE Sizes'
  BY DEF Sizes
<1> DEFINE named == Stopped(k)
           state == Opened(named)
<1>1. ~orphaned
  BY DEF Restart
<1>2. /\ names[0] # 0
      /\ Len(files[names[0]]) <= LogBound
      /\ \A i \in Names : names[i] # 0 => Len(files[names[i]]) <= FileBound
  BY <1>1 DEF Sizes
<1>3. names' = state.names /\ files' = state.files
  BY DEF Restart
<1>4. /\ LogBound \in Nat /\ FileBound \in Nat
      /\ LogBound' \in Nat /\ FileBound' \in Nat /\ LogBound' <= FileBound'
      /\ FileBound <= LogBound' /\ LogBound <= LogBound'
  <2>1. /\ LogBound \in Nat /\ FileBound \in Nat /\ LogBound <= FileBound
        /\ Carried \in Nat /\ Interval - 1 \in Nat /\ MaxSize \in Nat
    BY BoundTypes DEF BoundsTyped
  <2>2. LogBound' \in Nat /\ FileBound' \in Nat /\ LogBound' <= FileBound'
    BY BoundTypesNext DEF BoundsTyped
  <2>3. Carried' = Carried + (Interval - 1)
    <3>1. restarts' = restarts + 1 /\ restarts \in Nat
      BY RotationAssumption DEF Restart, TypeOK
    <3> QED
      BY <2>1, <3>1, ProductSuccessor DEF Carried
  <2>4. event_count' % Interval \in Nat
    <3>1. event_count' % Interval \in 0 .. Interval - 1
      BY BoundTypesNext DEF BoundsTyped
    <3> QED
      BY <3>1, <2>1
  <2>5. LogBound' = MaxSize + 1 + (event_count' % Interval) + Carried'
    BY DEF LogBound
  <2>6. FileBound <= LogBound'
    BY <2>1, <2>3, <2>4, <2>5, RotationAssumption DEF FileBound
  <2> QED
    BY <2>1, <2>2, <2>6
<1>5. \A i \in Names : named[i] # 0 => Len(files[named[i]]) <= FileBound
  BY <1>2, StoppedNames
<1>6. named \in [Names -> 0 .. Len(files)]
  BY StoppedNames
<1>7. /\ state.names[0] # 0
      /\ Len(state.files[state.names[0]]) <= LogBound'
      /\ \A i \in Names : state.names[i] # 0 => Len(state.files[state.names[i]]) <= FileBound
  <2>1. CASE named[0] = 0
    <3>1. state = Created(named)
      BY <1>6, <2>1, OpenedProperties
    <3>2. /\ state.names[0] \in 1 .. Len(state.files)
          /\ Len(state.files[state.names[0]]) = 0
          /\ \A i \in Names : state.names[i] # 0 => Len(state.files[state.names[i]]) <= FileBound
      BY <1>4, <1>5, <1>6, <3>1, CreatedSizes
    <3> QED
      BY <1>4, <3>2
  <2>2. CASE named[0] # 0
    <3>1. state = [names |-> named, files |-> files, handle |-> named[0]]
      BY <1>6, <2>2, OpenedProperties
    <3>2. state.names = named /\ state.files = files
      BY <3>1
    <3>3. Len(files[named[0]]) <= FileBound /\ Len(files[named[0]]) \in Nat
      <4>1. named[0] \in 1 .. Len(files)
        <5>1. named[0] \in 0 .. Len(files) /\ Len(files) \in Nat
          BY <1>6, NameRange, BoundTypes DEF BoundsTyped
        <5> QED
          BY <2>2, <5>1
      <4> QED
        BY <1>5, <2>2, <4>1, NameRange, BoundTypes DEF BoundsTyped
    <3> QED
      BY <1>4, <1>5, <2>2, <3>2, <3>3
  <2> QED
    BY <2>1, <2>2
<1>8. ASSUME NEW i \in Names, names'[i] # 0
      PROVE  Len(files'[names'[i]]) <= FileBound'
  <2>1. names'[i] \in 1 .. Len(files')
    BY <1>8, NamedFileNext DEF NamedFiles
  <2>2. Len(files'[names'[i]]) \in Nat
    <3>1. \A f \in 1 .. Len(files') : Len(files'[f]) \in Nat
      BY BoundTypesNext DEF BoundsTyped
    <3> QED
      BY <2>1, <3>1
  <2> QED
    BY <1>3, <1>4, <1>7, <1>8, <2>2
<1> QED
  BY <1>3, <1>7, <1>8 DEF Sizes

LEMMA SizesNext == TypeOK /\ TypeOK' /\ WritesFound /\ Sizes /\ [Next]_vars => Sizes'
<1> SUFFICES ASSUME TypeOK, TypeOK', WritesFound, Sizes, [Next]_vars PROVE Sizes'
  OBVIOUS
<1>1. CASE UNCHANGED vars
  BY <1>1 DEF vars, Sizes, LogBound, FileBound, Carried
<1> QED
  BY <1>1, SizesLog, SizesRestart DEF Next

LEMMA SizesInit == Init => Sizes
<1> SUFFICES ASSUME Init PROVE Sizes
  OBVIOUS
<1>1. \A i \in Names : names[i] # 0 => names[i] = 1
  BY DEF Init
<1>2. names[0] = 1 /\ files[1] = <<>> /\ Len(<<>>) = 0
  BY NameRange DEF Init
<1>3. LogBound \in Nat /\ FileBound \in Nat
  BY TypeInit, BoundTypes DEF BoundsTyped
<1>4. Len(files[1]) = 0 /\ 0 <= LogBound /\ 0 <= FileBound
  BY <1>2, <1>3
<1> QED
  BY <1>1, <1>2, <1>4 DEF Sizes

\* As long as every log could be created, no file outgrows max_file_size by more
\* than the events between two looks at it, whatever renames and writes are
\* refused; each start can add those of one more interval but one.
THEOREM SizesBounded == Spec => []SizeBounded
<1>1. TypeOK /\ Sizes => SizeBounded
  <2> SUFFICES ASSUME TypeOK, Sizes, ~orphaned, NEW i \in Names
               PROVE  Len(Content(i)) <= MaxSize + Interval + restarts * (Interval - 1)
    BY DEF SizeBounded
  <2>1. CASE names[i] = 0
    <3>1. Len(Content(i)) = 0
      BY <2>1 DEF Content
    <3>2. FileBound \in Nat
      BY BoundTypes DEF BoundsTyped
    <3> QED
      BY <3>1, <3>2 DEF FileBound, Carried
  <2>2. CASE names[i] # 0
    BY <2>2 DEF Content, Sizes, FileBound, Carried
  <2> QED
    BY <2>1, <2>2
<1> QED
  BY <1>1, RotationTypes, HandleFound, SizesInit, SizesNext, PTL DEF Spec

-----------------------------------------------------------------------------
\* Reading the files one after the other

\* What is read of contents c that each name has one of.
Joined(c) == FlattenSeq([i \in 1 .. MaxFiles + 1 |-> c[MaxFiles + 1 - i]])

\* g is what has been read after each name.
Reads(g, c, S) ==
  /\ g \in [0 .. MaxFiles + 1 -> Seq(S)]
  /\ g[0] = <<>>
  /\ \A i \in 1 .. MaxFiles + 1 : g[i] = g[i - 1] \o c[MaxFiles + 1 - i]

LEMMA ReadsExists ==
  ASSUME NEW S
  PROVE  \A c \in [Names -> Seq(S)] : \E g : Reads(g, c, S)
<1>0. SUFFICES ASSUME NEW c, c \in [Names -> Seq(S)]
               PROVE  \E g : Reads(g, c, S)
  OBVIOUS
<1>1. PICK V, n, none : V = Seq(S) /\ n = MaxFiles + 1 /\ none = <<>>
  OBVIOUS
<1>2. none \in V /\ n \in Nat
  BY <1>1, RotationAssumption
<1>3. \A i \in 1 .. n : MaxFiles + 1 - i \in Names
  BY <1>1, RotationAssumption DEF Names
<1>4. PICK step : step = [i \in 1 .. n |-> [x \in V |-> x \o c[MaxFiles + 1 - i]]]
  OBVIOUS
<1>5. step \in [1 .. n -> [V -> V]]
  BY <1>0, <1>1, <1>3, <1>4
<1>6. PICK g \in [0 .. n -> V] : g[0] = none /\ \A i \in 1 .. n : g[i] = step[i][g[i - 1]]
  BY <1>2, <1>5, RecursionExists
<1>7. ASSUME NEW i \in 1 .. n
      PROVE  g[i] = g[i - 1] \o c[MaxFiles + 1 - i]
  <2>1. i - 1 \in 0 .. n
    BY <1>2
  <2>2. g[i - 1] \in V
    BY <1>6, <2>1
  <2>3. step[i][g[i - 1]] = g[i - 1] \o c[MaxFiles + 1 - i]
    BY <1>4, <2>2
  <2> QED
    BY <1>6, <2>3
<1> QED
  BY <1>1, <1>6, <1>7 DEF Reads

LEMMA ReadsJoined ==
  ASSUME NEW S, NEW c \in [Names -> Seq(S)], NEW g, Reads(g, c, S)
  PROVE  Joined(c) = g[MaxFiles + 1] /\ Joined(c) \in Seq(S)
<1> DEFINE n == MaxFiles + 1
           s == [i \in 1 .. n |-> c[MaxFiles + 1 - i]]
           P(h) == h = [i \in 1 .. n |-> IF i = 1 THEN s[i] ELSE h[i - 1] \o s[i]]
           f == CHOOSE h : P(h)
           r == [i \in 1 .. n |-> g[i]]
<1>1. n \in Nat \ {0} /\ Len(s) = n /\ \A i \in 1 .. n : MaxFiles + 1 - i \in Names
  BY RotationAssumption DEF Names
<1>2. \A i \in 1 .. n : s[i] = c[MaxFiles + 1 - i] /\ s[i] \in Seq(S)
  BY <1>1
<1> HIDE DEF s
<1>3. g[1] = s[1]
  <2>1. 1 \in 1 .. n /\ 1 - 1 = 0
    BY <1>1
  <2>2. g[1] = <<>> \o s[1] /\ s[1] \in Seq(S)
    BY <1>2, <2>1 DEF Reads
  <2> QED
    BY <2>2, ConcatEmptySeq
<1>4. ASSUME NEW i \in 1 .. n
      PROVE  r[i] = IF i = 1 THEN s[i] ELSE r[i - 1] \o s[i]
  <2>1. CASE i = 1
    BY <1>3, <2>1
  <2>2. CASE i # 1
    <3>1. i - 1 \in 1 .. n
      BY <1>1, <2>2
    <3>2. g[i] = g[i - 1] \o s[i]
      BY <1>2 DEF Reads
    <3> QED
      BY <2>2, <3>1, <3>2
  <2> QED
    BY <2>1, <2>2
<1>5. P(r)
  BY <1>1, <1>4
<1>6. P(f)
  <2> HIDE DEF P
  <2> QED
    BY <1>5
<1>7. Joined(c) = f[n]
  BY <1>1 DEF Joined, FlattenSeq, s
<1>8. \A h : P(h) => \A i \in 1 .. n : h[i] = IF i = 1 THEN s[i] ELSE h[i - 1] \o s[i]
  OBVIOUS
<1>9. \A i \in 1 .. n : f[i] = r[i]
  <2> DEFINE T == {i \in Nat : i + 1 <= n => f[i + 1] = r[i + 1]}
  <2>1. \A i \in 1 .. n : f[i] = IF i = 1 THEN s[i] ELSE f[i - 1] \o s[i]
    BY <1>6, <1>8
  <2> HIDE DEF P, f, r
  <2>2. 0 \in T
    BY <1>1, <1>4, <2>1
  <2>3. ASSUME NEW i \in Nat, i \in T
        PROVE  i + 1 \in T
    <3> SUFFICES ASSUME i + 2 <= n
                 PROVE  f[i + 2] = r[i + 2]
      BY <1>1
    <3>1. i + 2 \in 1 .. n /\ i + 2 # 1 /\ (i + 2) - 1 = i + 1 /\ f[i + 1] = r[i + 1]
      BY <1>1, <2>3
    <3> QED
      BY <1>4, <2>1, <3>1
  <2>4. Nat \subseteq T
    <3> HIDE DEF T
    <3> QED
      BY <2>2, <2>3, SetInduction
  <2>5. ASSUME NEW i \in 1 .. n
        PROVE  f[i] = r[i]
    <3>1. i - 1 \in Nat /\ (i - 1) + 1 = i /\ i <= n
      BY <1>1
    <3>2. i - 1 \in T
      BY <2>4, <3>1
    <3> QED
      BY <3>1, <3>2
  <2> QED
    BY <2>5
<1>10. f[n] = g[n]
  <2> HIDE DEF f
  <2> QED
    BY <1>1, <1>9
<1> QED
  BY <1>1, <1>7, <1>10 DEF Reads

LEMMA JoinedTyped ==
  ASSUME NEW S, NEW c \in [Names -> Seq(S)]
  PROVE  Joined(c) \in Seq(S)
BY ReadsExists, ReadsJoined

LEMMA ConcatAppend ==
  ASSUME NEW S, NEW s \in Seq(S), NEW t \in Seq(S), NEW e \in S
  PROVE  s \o Append(t, e) = Append(s \o t, e)
<1>1. <<e>> \in Seq(S) /\ s \o t \in Seq(S)
  OBVIOUS
<1>2. Append(t, e) = t \o <<e>> /\ Append(s \o t, e) = (s \o t) \o <<e>>
  BY <1>1, AppendIsConcat
<1> QED
  BY <1>1, <1>2, ConcatAssociative

\* An event added to the newest file that is not empty is read last.
LEMMA JoinedAppend ==
  ASSUME NEW S, NEW c \in [Names -> Seq(S)], NEW d \in [Names -> Seq(S)], NEW n \in Names, NEW e \in S,
         d[n] = Append(c[n], e),
         \A i \in Names \ {n} : d[i] = c[i],
         \A i \in Names : i < n => c[i] = <<>>
  PROVE  Joined(d) = Append(Joined(c), e)
<1>1. PICK g : Reads(g, c, S)
  BY ReadsExists
<1>2. PICK h : Reads(h, d, S)
  BY ReadsExists
<1>3. MaxFiles \in Nat /\ n \in 0 .. MaxFiles
  BY RotationAssumption DEF Names
<1> DEFINE R(i) == h[i] = IF i < MaxFiles + 1 - n THEN g[i] ELSE Append(g[i], e)
           T == {i \in Nat : i <= MaxFiles + 1 => R(i)}
<1>4. 0 \in T
  BY <1>1, <1>2, <1>3 DEF Reads
<1>5. ASSUME NEW i \in Nat, i \in T, i + 1 <= MaxFiles + 1
      PROVE  R(i + 1)
  <2> DEFINE a == MaxFiles - i
  <2>1. /\ i + 1 \in 1 .. MaxFiles + 1 /\ i \in 0 .. MaxFiles + 1
        /\ a \in Names /\ MaxFiles + 1 - (i + 1) = a /\ (i + 1) - 1 = i
    BY <1>3, <1>5 DEF Names
  <2>2. g[i] \in Seq(S) /\ h[i] \in Seq(S) /\ c[a] \in Seq(S) /\ d[a] \in Seq(S)
    BY <1>1, <1>2, <2>1 DEF Reads
  <2>3. g[i + 1] = g[i] \o c[a] /\ h[i + 1] = h[i] \o d[a]
    BY <1>1, <1>2, <2>1 DEF Reads
  <2>4. R(i)
    BY <1>3, <1>5
  <2>5. CASE a > n
    <3>1. i < MaxFiles + 1 - n /\ i + 1 < MaxFiles + 1 - n /\ d[a] = c[a]
      BY <1>3, <2>1, <2>5
    <3> QED
      BY <2>3, <2>4, <3>1
  <2>6. CASE a = n
    <3>1. i < MaxFiles + 1 - n /\ ~(i + 1 < MaxFiles + 1 - n)
      BY <1>3, <2>1, <2>6
    <3>2. g[i] \o Append(c[a], e) = Append(g[i] \o c[a], e)
      <4>1. \A s, t \in Seq(S) : s \o Append(t, e) = Append(s \o t, e)
        BY ConcatAppend
      <4> HIDE DEF a
      <4> QED
        BY <2>2, <4>1
    <3>3. h[i] = g[i] /\ d[a] = Append(c[a], e)
      BY <2>4, <2>6, <3>1
    <3> QED
      BY <2>3, <3>1, <3>2, <3>3
  <2>7. CASE a < n
    <3>1. ~(i < MaxFiles + 1 - n) /\ ~(i + 1 < MaxFiles + 1 - n) /\ c[a] = <<>> /\ d[a] = <<>>
      BY <1>3, <2>1, <2>7
    <3>2. g[i + 1] = g[i] /\ h[i + 1] = h[i]
      BY <2>2, <2>3, <3>1, ConcatEmptySeq
    <3> QED
      BY <2>4, <3>1, <3>2
  <2> QED
    BY <1>3, <2>1, <2>5, <2>6, <2>7
<1>6. MaxFiles + 1 \in T
  <2>1. Nat \subseteq T
    <3>1. \A i \in Nat : i \in T => i + 1 \in T
      BY <1>5
    <3> HIDE DEF T
    <3> QED
      BY <1>4, <3>1, SetInduction
  <2> QED
    BY <1>3, <2>1
<1>7. h[MaxFiles + 1] = Append(g[MaxFiles + 1], e)
  <2>1. ~(MaxFiles + 1 < MaxFiles + 1 - n) /\ MaxFiles + 1 <= MaxFiles + 1
    BY <1>3
  <2>2. R(MaxFiles + 1)
    <3> HIDE DEF R
    <3> QED
      BY <1>6, <2>1
  <2> QED
    BY <2>1, <2>2
<1> QED
  BY <1>1, <1>2, <1>7, ReadsJoined

\* The contents d are c after those from name k on have moved up by one, the
\* last of them replacing or leaving what was there, and y is what is gone.
MovedUp(c, d, k, y) ==
  /\ y \o d[MaxFiles] = c[MaxFiles] \o c[MaxFiles - 1]
  /\ \A i \in Names : k < i /\ i < MaxFiles => d[i] = c[i - 1]
  /\ d[k] = <<>>
  /\ \A i \in Names : i < k => d[i] = c[i]

LEMMA JoinedShift ==
  ASSUME NEW S, NEW k \in Names, k < MaxFiles
  PROVE  \A c, d \in [Names -> Seq(S)] : \A y \in Seq(S) : MovedUp(c, d, k, y) => y \o Joined(d) = Joined(c)
<1>0. SUFFICES ASSUME NEW c, NEW d, NEW y, c \in [Names -> Seq(S)] /\ d \in [Names -> Seq(S)],
                      y \in Seq(S), MovedUp(c, d, k, y)
               PROVE  y \o Joined(d) = Joined(c)
  OBVIOUS
<1>1. PICK g : Reads(g, c, S)
  BY <1>0, ReadsExists
<1>2. PICK h : Reads(h, d, S)
  BY <1>0, ReadsExists
<1>3. MaxFiles \in Nat \ {0} /\ k \in 0 .. MaxFiles - 1
  BY RotationAssumption DEF Names
<1> DEFINE R(i) == y \o h[i] = IF i <= MaxFiles - k THEN g[i + 1] ELSE g[i]
           T == {i \in Nat : i + 1 <= MaxFiles + 1 => R(i + 1)}
<1>4. 0 \in T
  <2>1. /\ 1 \in 1 .. MaxFiles + 1 /\ 1 - 1 = 0 /\ MaxFiles + 1 - 1 = MaxFiles
        /\ 2 \in 1 .. MaxFiles + 1 /\ 2 - 1 = 1 /\ MaxFiles + 1 - 2 = MaxFiles - 1
        /\ MaxFiles \in Names /\ MaxFiles - 1 \in Names
    BY <1>3 DEF Names
  <2>2. h[1] = <<>> \o d[MaxFiles]
    <3>1. h[0] = <<>> /\ h[1] = h[1 - 1] \o d[MaxFiles + 1 - 1]
      BY <1>2, <2>1 DEF Reads
    <3> QED
      BY <2>1, <3>1
  <2>7. g[1] = <<>> \o c[MaxFiles] /\ g[2] = g[1] \o c[MaxFiles - 1]
    <3>1. g[0] = <<>> /\ g[1] = g[1 - 1] \o c[MaxFiles + 1 - 1] /\ g[2] = g[2 - 1] \o c[MaxFiles + 1 - 2]
      BY <1>1, <2>1 DEF Reads
    <3> QED
      BY <2>1, <3>1
  <2>3. h[1] = d[MaxFiles] /\ g[1] = c[MaxFiles]
    BY <1>0, <2>1, <2>2, <2>7, ConcatEmptySeq
  <2>4. y \o h[1] = g[2]
    BY <1>0, <2>3, <2>7 DEF MovedUp
  <2>5. 0 + 1 = 1 /\ 1 <= MaxFiles - k /\ 1 + 1 = 2
    BY <1>3
  <2>6. R(0 + 1)
    BY <2>4, <2>5
  <2> QED
    BY <2>6
<1>5. ASSUME NEW i \in Nat, i \in T, i + 2 <= MaxFiles + 1
      PROVE  R(i + 2)
  <2> DEFINE a == MaxFiles - 1 - i
  <2>1. /\ i + 2 \in 1 .. MaxFiles + 1 /\ (i + 2) - 1 = i + 1 /\ MaxFiles + 1 - (i + 2) = a
        /\ i + 1 \in 0 .. MaxFiles + 1 /\ a \in Names
    BY <1>3, <1>5 DEF Names
  <2>2. g[i + 1] \in Seq(S) /\ h[i + 1] \in Seq(S) /\ c[a] \in Seq(S) /\ d[a] \in Seq(S) /\ y \in Seq(S)
    BY <1>0, <1>1, <1>2, <2>1 DEF Reads
  <2>3. g[i + 2] = g[i + 1] \o c[a] /\ h[i + 2] = h[i + 1] \o d[a]
    BY <1>1, <1>2, <2>1 DEF Reads
  <2>4. y \o h[i + 2] = (y \o h[i + 1]) \o d[a]
    <3>1. y \in Seq(S) /\ h[i + 1] \in Seq(S) /\ d[a] \in Seq(S)
      BY <2>2
    <3> HIDE DEF a, R, T
    <3>2. ASSUME NEW r \in Seq(S), NEW s \in Seq(S), NEW t \in Seq(S)
          PROVE  (r \o s) \o t = r \o (s \o t)
      BY ConcatAssociative
    <3>3. (y \o h[i + 1]) \o d[a] = y \o (h[i + 1] \o d[a])
      BY <3>1, <3>2
    <3> QED
      BY <2>3, <3>3, Zenon
  <2>5. R(i + 1)
    BY <1>3, <1>5
  <2>6. CASE a > k
    <3>1. /\ i + 1 <= MaxFiles - k /\ i + 2 <= MaxFiles - k /\ a < MaxFiles /\ i + 1 + 1 = i + 2 /\ i + 2 + 1 = i + 3
          /\ i + 3 \in 1 .. MaxFiles + 1 /\ (i + 3) - 1 = i + 2 /\ MaxFiles + 1 - (i + 3) = a - 1
      BY <1>3, <2>1, <2>6
    <3>2. d[a] = c[a - 1]
      BY <1>0, <2>1, <2>6, <3>1 DEF MovedUp
    <3>3. g[i + 3] = g[i + 2] \o c[a - 1]
      BY <1>1, <3>1 DEF Reads
    <3>4. y \o h[i + 1] = g[i + 2]
      BY <2>5, <3>1
    <3> QED
      BY <2>4, <3>1, <3>2, <3>3, <3>4
  <2>7. CASE a = k
    <3>1. i + 1 <= MaxFiles - k /\ ~(i + 2 <= MaxFiles - k) /\ i + 1 + 1 = i + 2
      BY <1>3, <2>1, <2>7
    <3>2. d[a] = <<>> /\ y \o h[i + 1] = g[i + 2]
      BY <1>0, <2>5, <2>7, <3>1 DEF MovedUp
    <3>3. y \o h[i + 1] \in Seq(S)
      BY <2>2, ConcatProperties
    <3>4. y \o h[i + 2] = g[i + 2]
      BY <2>4, <3>2, <3>3, ConcatEmptySeq
    <3> QED
      BY <3>1, <3>4
  <2>8. CASE a < k
    <3>1. ~(i + 1 <= MaxFiles - k) /\ ~(i + 2 <= MaxFiles - k)
      BY <1>3, <2>1, <2>8
    <3>2. d[a] = c[a] /\ y \o h[i + 1] = g[i + 1]
      BY <1>0, <2>1, <2>5, <2>8, <3>1 DEF MovedUp
    <3> QED
      BY <2>3, <2>4, <3>1, <3>2
  <2> QED
    BY <1>3, <2>1, <2>6, <2>7, <2>8
<1>6. Nat \subseteq T
  <2>1. \A i \in Nat : i \in T => i + 1 \in T
    <3> HIDE DEF R
    <3> SUFFICES ASSUME NEW i \in Nat, i \in T, i + 1 + 1 <= MaxFiles + 1
                 PROVE  R(i + 1 + 1)
      OBVIOUS
    <3>1. i + 1 + 1 = i + 2
      OBVIOUS
    <3> QED
      BY <1>5, <3>1
  <2> HIDE DEF T
  <2> QED
    BY <1>4, <2>1, SetInduction
<1>7. y \o h[MaxFiles + 1] = g[MaxFiles + 1]
  <2>1. MaxFiles \in T /\ ~(MaxFiles + 1 <= MaxFiles - k)
    BY <1>3, <1>6
  <2>2. R(MaxFiles + 1)
    BY <1>3, <2>1
  <2> QED
    BY <2>1, <2>2
<1> QED
  BY <1>0, <1>1, <1>2, <1>7, ReadsJoined

-----------------------------------------------------------------------------
\* What a reader finds, before and after a step

\* What each name shows of the names and files in state.
Shown(state) == [i \in Names |-> IF state.names[i] = 0 THEN <<>> ELSE state.files[state.names[i]]]

Distinct(ns) == \A i, j \in Names : ns[i] = ns[j] /\ ns[i] # 0 => i = j

\* The files hold events that were logged, and no two names lead to the same file.
Recorded == files \in Seq(Seq(1 .. logged)) /\ Distinct(names)

LEMMA OnDiskShown == OnDisk = Joined(Shown(Current))
<1>1. \A i \in 1 .. MaxFiles + 1 : MaxFiles + 1 - i \in Names
  BY RotationAssumption DEF Names
<1>2. \A i \in 1 .. MaxFiles + 1 : Content(MaxFiles + 1 - i) = Shown(Current)[MaxFiles + 1 - i]
  BY <1>1 DEF Content, Shown, Current
<1>3. [i \in 1 .. MaxFiles + 1 |-> Content(MaxFiles + 1 - i)] =
        [i \in 1 .. MaxFiles + 1 |-> Shown(Current)[MaxFiles + 1 - i]]
  BY <1>2
<1> QED
  BY <1>3 DEF OnDisk, Joined

LEMMA OnDiskShownNext ==
  OnDisk' = Joined(Shown([names |-> names', files |-> files', handle |-> file_handle']))
<1>1. (OnDisk = Joined(Shown(Current)))'
  BY OnDiskShown, PTL
<1> QED
  BY <1>1 DEF Current

LEMMA ShownTyped ==
  ASSUME NEW S, NEW state, state.files \in Seq(Seq(S)), state.names \in [Names -> 0 .. Len(state.files)]
  PROVE  Shown(state) \in [Names -> Seq(S)]
<1>1. ASSUME NEW i \in Names
      PROVE  (IF state.names[i] = 0 THEN <<>> ELSE state.files[state.names[i]]) \in Seq(S)
  <2>1. Len(state.files) \in Nat /\ <<>> \in Seq(S)
    BY LenProperties
  <2>2. state.names[i] # 0 => state.names[i] \in 1 .. Len(state.files)
    BY <2>1
  <2> QED
    BY <2>1, <2>2, ElementOfSeq
<1> QED
  BY <1>1 DEF Shown

\* Whatever is renamed, two names do not come to lead to the same file.
LEMMA ShiftedDistinct ==
  ASSUME Distinct(names), NEW refused
  PROVE  Distinct(Shifted(refused))
<1> DEFINE moved == Movable \ refused
           from(i) == IF i > 0 /\ i - 1 \in moved THEN i - 1 ELSE i
<1>1. \A i \in moved : i \in Names
  BY DEF Movable
<1>2. Names \subseteq Nat
  BY RotationAssumption DEF Names
<1>3. ASSUME NEW i \in Names, Shifted(refused)[i] # 0
      PROVE  /\ from(i) \in Names /\ Shifted(refused)[i] = names[from(i)]
             /\ from(i) = i => i \notin moved
             /\ from(i) # i => from(i) = i - 1 /\ i - 1 \in moved
  <2>1. Shifted(refused)[i] = IF i > 0 /\ i - 1 \in moved THEN names[i - 1] ELSE IF i \in moved THEN 0 ELSE names[i]
    BY DEF Shifted
  <2> HIDE DEF moved
  <2>2. CASE i > 0 /\ i - 1 \in moved
    BY <1>1, <1>2, <2>1, <2>2
  <2>3. CASE ~(i > 0 /\ i - 1 \in moved)
    BY <1>3, <2>1, <2>3
  <2> QED
    BY <2>2, <2>3
<1>4. ASSUME NEW i \in Names, NEW j \in Names, Shifted(refused)[i] = Shifted(refused)[j], Shifted(refused)[i] # 0
      PROVE  i = j
  <2>1. from(i) = from(j)
    BY <1>3, <1>4 DEF Distinct
  <2> HIDE DEF moved, from
  <2> QED
    BY <1>2, <1>3, <1>4, <2>1
<1> QED
  BY <1>4 DEF Distinct

\* What a file created by a rotation, or when the log is opened, does.
LEMMA CreatedRecorded ==
  ASSUME TypeOK, NEW X, files \in Seq(X), <<>> \in X, NEW named \in [Names -> 0 .. Len(files)], Distinct(named)
  PROVE  /\ Created(named).files \in Seq(X)
         /\ Distinct(Created(named).names)
         /\ named[0] = 0 => Shown(Created(named)) = Shown([names |-> named, files |-> files, handle |-> file_handle])
<1>1. Len(files) \in Nat /\ \A i \in Names : named[i] \in 0 .. Len(files)
  BY LenProperties
<1>2. CASE named[0] # 0
  <2>1. named[0] \in 1 .. Len(files)
    BY <1>1, <1>2, NameRange
  <2>2. Created(named) = [names |-> named, files |-> [files EXCEPT ![named[0]] = <<>>], handle |-> named[0]]
    BY <1>2 DEF Created
  <2>3. [files EXCEPT ![named[0]] = <<>>] \in Seq(X)
    BY <2>1, ExceptSeq
  <2> QED
    BY <1>2, <2>2, <2>3
<1>3. CASE named[0] = 0
  <2> DEFINE n  == Len(files) + 1
             fs == Append(files, <<>>)
             ns == [named EXCEPT ![0] = n]
  <2>1. Created(named) = [names |-> ns, files |-> fs, handle |-> n]
    BY <1>3 DEF Created
  <2>2. fs \in Seq(X) /\ fs[n] = <<>> /\ \A f \in 1 .. Len(files) : fs[f] = files[f]
    BY AppendProperties
  <2>3. ns[0] = n /\ DOMAIN ns = Names /\ (\A i \in Names \ {0} : ns[i] = named[i]) /\ \A i \in Names : named[i] # n
    BY <1>1, NameRange
  <2>4. Distinct(ns)
    <3>1. ASSUME NEW i \in Names, NEW j \in Names, ns[i] = ns[j], ns[i] # 0
          PROVE  i = j
      <4> HIDE DEF ns, n
      <4>1. i # 0 /\ j # 0 => named[i] = named[j] /\ named[i] # 0
        BY <2>3, <3>1
      <4>2. i = 0 /\ j # 0 => FALSE
        BY <2>3, <3>1
      <4>3. i # 0 /\ j = 0 => FALSE
        BY <2>3, <3>1
      <4> QED
        BY <4>1, <4>2, <4>3 DEF Distinct
    <3> QED
      BY <3>1 DEF Distinct
  <2>5. ASSUME NEW i \in Names
        PROVE  (IF ns[i] = 0 THEN <<>> ELSE fs[ns[i]]) = IF named[i] = 0 THEN <<>> ELSE files[named[i]]
    <3>1. CASE i = 0
      <4>1. ns[i] = n /\ n # 0
        BY <1>1, <2>3, <3>1
      <4> QED
        BY <1>3, <2>2, <3>1, <4>1
    <3>2. CASE i # 0
      <4>1. ns[i] = named[i] /\ (named[i] # 0 => named[i] \in 1 .. Len(files))
        BY <1>1, <2>3, <3>2
      <4> HIDE DEF ns, fs, n
      <4> QED
        BY <2>2, <4>1
    <3> QED
      BY <3>1, <3>2
  <2> HIDE DEF ns, fs, n
  <2>6. Created(named).names = ns /\ Created(named).files = fs
    BY <2>1
  <2>7. Shown(Created(named)) = Shown([names |-> named, files |-> files, handle |-> file_handle])
    BY <2>5, <2>6 DEF Shown
  <2> QED
    BY <2>2, <2>4, <2>6, <2>7
<1> QED
  BY <1>2, <1>3

\* The names after a rotation of which only the renames from name k on are done.
LEMMA ShiftedFrom ==
  ASSUME NEW k \in Names, k < MaxFiles
  PROVE  LET named == Shifted({i \in Names : i < k})
         IN  /\ \A i \in Names : i < k => named[i] = names[i]
             /\ named[k] = 0
             /\ \A i \in Names : k < i /\ i < MaxFiles => named[i] = names[i - 1]
             /\ named[MaxFiles] = IF names[MaxFiles - 1] # 0 THEN names[MaxFiles - 1] ELSE names[MaxFiles]
<1> DEFINE moved == Movable \ {i \in Names : i < k}
           named == Shifted({i \in Names : i < k})
<1>1. MaxFiles \in Nat \ {0} /\ k \in 0 .. MaxFiles - 1 /\ Names = 0 .. MaxFiles
  BY RotationAssumption DEF Names
<1>2. \A i \in Names : i \in moved <=> k <= i /\ i < MaxFiles /\ names[i] # 0
  BY <1>1 DEF Movable
<1>3. \A i \in Names : named[i] = IF i > 0 /\ i - 1 \in moved THEN names[i - 1] ELSE IF i \in moved THEN 0 ELSE names[i]
  BY DEF Shifted
<1> HIDE DEF moved, named
<1>4. ASSUME NEW i \in Names, i < k
      PROVE  named[i] = names[i]
  <2>1. i \notin moved /\ (i > 0 => i - 1 \in Names /\ i - 1 \notin moved)
    BY <1>1, <1>2, <1>4
  <2> QED
    BY <1>3, <2>1
<1>5. named[k] = 0
  <2>1. k > 0 => k - 1 \in Names /\ k - 1 \notin moved
    BY <1>1, <1>2
  <2>2. k \notin moved => names[k] = 0
    BY <1>1, <1>2
  <2> QED
    BY <1>3, <2>1, <2>2
<1>6. ASSUME NEW i \in Names, k < i, i < MaxFiles
      PROVE  named[i] = names[i - 1]
  <2>1. i > 0 /\ i - 1 \in Names /\ (i - 1 \in moved <=> names[i - 1] # 0) /\ (i \in moved <=> names[i] # 0)
    BY <1>1, <1>2, <1>6
  <2> QED
    BY <1>3, <2>1
<1>7. named[MaxFiles] = IF names[MaxFiles - 1] # 0 THEN names[MaxFiles - 1] ELSE names[MaxFiles]
  <2>1. MaxFiles \in Names /\ MaxFiles > 0 /\ MaxFiles - 1 \in Names
    BY <1>1
  <2>2. (MaxFiles - 1 \in moved <=> names[MaxFiles - 1] # 0) /\ MaxFiles \notin moved
    BY <1>1, <1>2, <2>1
  <2> QED
    BY <1>3, <2>1, <2>2
<1> QED
  BY <1>4, <1>5, <1>6, <1>7 DEF named

\* Such a rotation takes away the last file, if the one before replaces it, and
\* nothing else of what is read.
LEMMA ShiftMoves ==
  ASSUME TypeOK, Recorded, NEW k \in Names, k < MaxFiles
  PROVE  \E y \in Seq(1 .. logged) :
           /\ y \o Joined(Shown([names |-> Shifted({i \in Names : i < k}), files |-> files, handle |-> file_handle]))
                = OnDisk
           /\ y # <<>> => names[MaxFiles] # 0 /\ names[MaxFiles - 1] # 0
<1> DEFINE named == Shifted({i \in Names : i < k})
           c == Shown(Current)
           d == Shown([names |-> named, files |-> files, handle |-> file_handle])
           y == IF names[MaxFiles - 1] # 0 THEN c[MaxFiles] ELSE <<>>
           S == 1 .. logged
<1>1. MaxFiles \in Nat \ {0} /\ k \in 0 .. MaxFiles - 1 /\ Names = 0 .. MaxFiles
  BY RotationAssumption DEF Names
<1>2. MaxFiles \in Names /\ MaxFiles - 1 \in Names
  BY <1>1
<1>3. c \in [Names -> Seq(S)] /\ d \in [Names -> Seq(S)]
  <2>1. files \in Seq(Seq(S)) /\ named \in [Names -> 0 .. Len(files)] /\ names \in [Names -> 0 .. Len(files)]
    BY ShiftedNames DEF Recorded, TypeOK
  <2> HIDE DEF named, S
  <2> QED
    BY <2>1, ShownTyped DEF Current
<1>4. /\ \A i \in Names : c[i] = IF names[i] = 0 THEN <<>> ELSE files[names[i]]
      /\ \A i \in Names : d[i] = IF named[i] = 0 THEN <<>> ELSE files[named[i]]
  BY DEF Shown, Current
<1>5. /\ \A i \in Names : i < k => named[i] = names[i]
      /\ named[k] = 0
      /\ \A i \in Names : k < i /\ i < MaxFiles => named[i] = names[i - 1]
      /\ named[MaxFiles] = IF names[MaxFiles - 1] # 0 THEN names[MaxFiles - 1] ELSE names[MaxFiles]
  BY ShiftedFrom
<1> HIDE DEF c, d, named, S
<1>6. y \in Seq(S)
  BY <1>2, <1>3
<1>7. y \o d[MaxFiles] = c[MaxFiles] \o c[MaxFiles - 1]
  <2>1. CASE names[MaxFiles - 1] # 0
    <3>1. y = c[MaxFiles] /\ d[MaxFiles] = c[MaxFiles - 1]
      BY <1>2, <1>4, <1>5, <2>1
    <3> QED
      BY <3>1
  <2>2. CASE names[MaxFiles - 1] = 0
    <3>1. y = <<>> /\ c[MaxFiles - 1] = <<>>
      BY <1>2, <1>4, <2>2
    <3>2. named[MaxFiles] = names[MaxFiles]
      BY <1>5, <2>2
    <3>3. d[MaxFiles] = c[MaxFiles]
      BY <1>2, <1>4, <3>2
    <3>4. c[MaxFiles] \in Seq(S)
      BY <1>2, <1>3
    <3> QED
      BY <3>1, <3>3, <3>4, ConcatEmptySeq
  <2> QED
    BY <2>1, <2>2
<1>8. ASSUME NEW i \in Names, k < i, i < MaxFiles
      PROVE  d[i] = c[i - 1]
  <2>1. i - 1 \in Names /\ named[i] = names[i - 1]
    BY <1>1, <1>5, <1>8
  <2> QED
    BY <1>4, <2>1
<1>9. d[k] = <<>> /\ \A i \in Names : i < k => d[i] = c[i]
  BY <1>4, <1>5
<1>10. MovedUp(c, d, k, y)
  BY <1>7, <1>8, <1>9 DEF MovedUp
<1>11. y \o Joined(d) = Joined(c)
  <2>1. y \in Seq(S) /\ c \in [Names -> Seq(S)] /\ d \in [Names -> Seq(S)] /\ MovedUp(c, d, k, y)
    BY <1>3, <1>6, <1>10
  <2> HIDE DEF c, d, y, S
  <2> QED
    BY <2>1, JoinedShift
<1>12. OnDisk = Joined(c)
  BY OnDiskShown DEF c
<1>13. y # <<>> => names[MaxFiles] # 0 /\ names[MaxFiles - 1] # 0
  BY <1>2, <1>4
<1> QED
  BY <1>6, <1>11, <1>12, <1>13 DEF d, named, S

\* Names, files and a handle as a step of this program leaves them, before the
\* event is written.
Sound(state) ==
  /\ state.files \in Seq(Seq(1 .. logged))
  /\ state.names \in [Names -> 0 .. Len(state.files)]
  /\ Distinct(state.names)
  /\ state.handle \in 1 .. Len(state.files)
  /\ state.handle = IF state.names[0] # 0 THEN state.names[0] ELSE state.names[1]

LEMMA CurrentSound ==
  ASSUME TypeOK, Recorded, WritesFound
  PROVE  Sound(Current)
BY DEF Sound, Current, TypeOK, Recorded, WritesFound

LEMMA CreatedSound ==
  ASSUME TypeOK, Recorded, NEW named \in [Names -> 0 .. Len(files)], Distinct(named)
  PROVE  Sound(Created(named))
<1>1. <<>> \in Seq(1 .. logged) /\ files \in Seq(Seq(1 .. logged))
  BY DEF Recorded
<1>2. Created(named).files \in Seq(Seq(1 .. logged)) /\ Distinct(Created(named).names)
  BY <1>1, CreatedRecorded
<1>3. /\ Created(named).names \in [Names -> 0 .. Len(Created(named).files)]
      /\ Created(named).handle \in 1 .. Len(Created(named).files)
      /\ Created(named).names[0] = Created(named).handle
  BY CreatedProperties DEF GoodState
<1>4. Created(named).handle # 0
  BY <1>3
<1> QED
  BY <1>2, <1>3, <1>4 DEF Sound

LEMMA ReadySound ==
  ASSUME TypeOK, Recorded, WritesFound, NEW refused, NEW creates \in BOOLEAN
  PROVE  Sound(Ready(refused, creates))
<1>1. CASE ~Due
  BY <1>1, CurrentSound DEF Ready
<1>2. CASE Due /\ creates
  <2>1. Shifted(refused) \in [Names -> 0 .. Len(files)] /\ Distinct(Shifted(refused))
    BY ShiftedNames, ShiftedDistinct DEF Recorded
  <2> QED
    BY <1>2, <2>1, CreatedSound DEF Ready, Rotated
<1>3. CASE Due /\ ~creates
  <2> DEFINE state == [names |-> Shifted(refused), files |-> files, handle |-> file_handle]
  <2>1. Ready(refused, creates) = state
    BY <1>3 DEF Ready, Rotated
  <2>2. Shifted(refused) \in [Names -> 0 .. Len(files)] /\ Distinct(Shifted(refused))
    BY ShiftedNames, ShiftedDistinct DEF Recorded
  <2>3. names[0] # 0 /\ file_handle = names[0]
    BY <1>3 DEF Due, WritesFound
  <2>4. file_handle = IF Shifted(refused)[0] # 0 THEN Shifted(refused)[0] ELSE Shifted(refused)[1]
    BY <2>3, ShiftedLog
  <2>5. files \in Seq(Seq(1 .. logged)) /\ file_handle \in 1 .. Len(files)
    BY DEF Recorded, TypeOK
  <2>6. Sound(state)
    BY <2>2, <2>4, <2>5 DEF Sound
  <2> QED
    BY <2>1, <2>6
<1> QED
  BY <1>1, <1>2, <1>3

LEMMA OpenedSound ==
  ASSUME TypeOK, Recorded, NEW k
  PROVE  Stopped(k) \in [Names -> 0 .. Len(files)] /\ Distinct(Stopped(k)) /\ Sound(Opened(Stopped(k)))
<1>1. Stopped(k) \in [Names -> 0 .. Len(files)]
  BY StoppedNames
<1>2. Distinct(Stopped(k))
  BY ShiftedDistinct DEF Recorded, Stopped
<1>3. CASE Stopped(k)[0] = 0
  BY <1>1, <1>2, <1>3, OpenedProperties, CreatedSound
<1>4. CASE Stopped(k)[0] # 0
  <2> DEFINE named == Stopped(k)
  <2>1. Opened(named) = [names |-> named, files |-> files, handle |-> named[0]]
    BY <1>4 DEF Opened
  <2>2. named[0] \in 1 .. Len(files)
    <3>1. Len(files) \in Nat
      BY LenProperties DEF TypeOK
    <3> QED
      BY <1>1, <1>4, <3>1, NameRange
  <2> HIDE DEF named
  <2>3. Sound(Opened(named))
    BY <1>1, <1>2, <2>1, <2>2 DEF Sound, named, Recorded
  <2> QED
    BY <1>1, <1>2, <2>3 DEF named
<1> QED
  BY <1>1, <1>2, <1>3, <1>4

\* An event that is written comes last of what is read; if it is not written,
\* the same is read as before.
LEMMA WrittenAppends ==
  ASSUME TypeOK, NEW state, Sound(state), NEW writes \in BOOLEAN, Written(state, writes), logged' = logged + 1
  PROVE  /\ Recorded'
         /\ OnDisk' = IF writes THEN Append(Joined(Shown(state)), logged + 1) ELSE Joined(Shown(state))
<1> DEFINE after == [names |-> names', files |-> files', handle |-> file_handle']
           S == 1 .. logged + 1
<1>1. names' = state.names /\ file_handle' = state.handle
  BY DEF Written
<1>2. state.files \in Seq(Seq(S)) /\ logged + 1 \in S /\ Len(state.files) \in Nat
  <2>1. logged \in Nat /\ 1 .. logged \subseteq S /\ logged + 1 \in S
    BY DEF TypeOK
  <2>2. Seq(1 .. logged) \subseteq Seq(S)
    BY <2>1, SeqMonotonic
  <2>3. Seq(Seq(1 .. logged)) \subseteq Seq(Seq(S))
    BY <2>2, SeqMonotonic
  <2> QED
    BY <2>1, <2>3, LenProperties DEF Sound
<1>3. Distinct(names')
  BY <1>1 DEF Sound
<1>4. OnDisk' = Joined(Shown(after))
  BY OnDiskShownNext
<1>5. /\ state.names \in [Names -> 0 .. Len(state.files)] /\ state.handle \in 1 .. Len(state.files)
      /\ Distinct(state.names)
      /\ state.handle = IF state.names[0] # 0 THEN state.names[0] ELSE state.names[1]
  BY DEF Sound
<1>6. CASE ~writes
  <2>1. files' = state.files
    BY <1>6 DEF Written
  <2>2. Shown(after) = Shown(state)
    BY <1>1, <2>1 DEF Shown
  <2>3. Recorded'
    BY <1>2, <1>3, <2>1 DEF Recorded, Distinct
  <2> QED
    BY <1>4, <1>6, <2>2, <2>3
<1>7. CASE writes
  <2> DEFINE h == state.handle
             n == IF state.names[0] # 0 THEN 0 ELSE 1
             c == Shown(state)
             d == Shown(after)
             e == logged + 1
  <2>1. files' = [state.files EXCEPT ![h] = Append(state.files[h], e)]
    BY <1>7 DEF Written
  <2>2. state.files[h] \in Seq(S) /\ Append(state.files[h], e) \in Seq(S)
    BY <1>2, <1>5, ElementOfSeq, AppendProperties
  <2>3. /\ files' \in Seq(Seq(S)) /\ Len(files') = Len(state.files)
        /\ \A f \in 1 .. Len(state.files) : files'[f] = IF f = h THEN Append(state.files[h], e) ELSE state.files[f]
    <3> HIDE DEF S, h, e
    <3>1. h \in 1 .. Len(state.files)
      BY <1>5 DEF h
    <3> QED
      BY <1>2, <2>1, <2>2, <3>1, ExceptSeq
  <2>4. n \in Names /\ state.names[n] = h /\ h # 0 /\ \A i \in Names : i < n => state.names[i] = 0
    <3>1. h # 0 /\ \A i \in Names : i < 1 => i = 0
      BY <1>5, RotationAssumption DEF Names
    <3> QED
      BY <1>5, <3>1, NameRange, RotationAssumption DEF Names
  <2>5. c \in [Names -> Seq(S)] /\ d \in [Names -> Seq(S)]
    <3> HIDE DEF S
    <3>1. c \in [Names -> Seq(S)]
      BY <1>2, <1>5, ShownTyped
    <3>2. after.files \in Seq(Seq(S)) /\ after.names \in [Names -> 0 .. Len(after.files)]
      BY <1>1, <1>5, <2>3
    <3> HIDE DEF after
    <3>3. d \in [Names -> Seq(S)]
      BY <3>2, ShownTyped
    <3> QED
      BY <3>1, <3>3
  <2>6. /\ \A i \in Names : c[i] = IF state.names[i] = 0 THEN <<>> ELSE state.files[state.names[i]]
        /\ \A i \in Names : d[i] = IF state.names[i] = 0 THEN <<>> ELSE files'[state.names[i]]
    BY <1>1 DEF Shown
  <2>7. \A i \in Names : state.names[i] # 0 => state.names[i] \in 1 .. Len(state.files)
    BY <1>2, <1>5
  <2> HIDE DEF c, d, S, h, e, n
  <2>8. d[n] = Append(c[n], e)
    BY <2>3, <2>4, <2>6, <2>7
  <2>9. \A i \in Names \ {n} : d[i] = c[i]
    <3> SUFFICES ASSUME NEW i \in Names, i # n
                 PROVE  d[i] = c[i]
      OBVIOUS
    <3>1. state.names[i] # h \/ state.names[i] = 0
      BY <1>5, <2>4 DEF Distinct
    <3>2. CASE state.names[i] = 0
      BY <2>6, <3>2
    <3>3. CASE state.names[i] # 0
      <4>1. state.names[i] \in 1 .. Len(state.files) /\ state.names[i] # h
        BY <2>7, <3>1, <3>3
      <4>2. files'[state.names[i]] = state.files[state.names[i]]
        BY <2>3, <2>4, <4>1
      <4> QED
        BY <2>6, <3>3, <4>2
    <3> QED
      BY <3>2, <3>3
  <2>10. \A i \in Names : i < n => c[i] = <<>>
    BY <2>4, <2>6
  <2>11. Joined(d) = Append(Joined(c), e)
    BY <1>2, <2>4, <2>5, <2>8, <2>9, <2>10, JoinedAppend DEF e
  <2>12. Recorded'
    BY <1>3, <2>3 DEF Recorded, Distinct, S
  <2> QED
    BY <1>4, <1>7, <2>11, <2>12 DEF c, d, e
<1> QED
  BY <1>6, <1>7

\* Of what was read, state leaves all but y, which is the oldest part and goes
\* only in a rotation that replaces the last file.
Drops(state, y) ==
  /\ y \in Seq(1 .. logged)
  /\ y \o Joined(Shown(state)) = OnDisk
  /\ y # <<>> => Due /\ names[MaxFiles] # 0 /\ names[MaxFiles - 1] # 0

LEMMA JoinedSound ==
  ASSUME NEW state, Sound(state)
  PROVE  Joined(Shown(state)) \in Seq(1 .. logged)
<1>1. Shown(state) \in [Names -> Seq(1 .. logged)]
  BY ShownTyped DEF Sound
<1> QED
  BY <1>1, JoinedTyped

LEMMA NothingDropped ==
  ASSUME TypeOK, Recorded, WritesFound, NEW state, Shown(state) = Shown(Current)
  PROVE  Drops(state, <<>>)
<1>1. Joined(Shown(Current)) \in Seq(1 .. logged)
  BY CurrentSound, JoinedSound
<1>2. <<>> \o Joined(Shown(Current)) = Joined(Shown(Current))
  BY <1>1, ConcatEmptySeq
<1> QED
  BY <1>2, OnDiskShown DEF Drops

\* A log is created only where there is none, so that nothing is truncated.
LEMMA CreatedShows ==
  ASSUME TypeOK, Recorded, NEW named \in [Names -> 0 .. Len(files)], Distinct(named), named[0] = 0
  PROVE  Shown(Created(named)) = Shown([names |-> named, files |-> files, handle |-> file_handle])
<1>1. <<>> \in Seq(1 .. logged) /\ files \in Seq(Seq(1 .. logged))
  BY DEF Recorded
<1> QED
  BY <1>1, CreatedRecorded

LEMMA ReadyDrops ==
  ASSUME TypeOK, Recorded, WritesFound, NEW creates \in BOOLEAN
  PROVE  \E y : Drops(Ready({}, creates), y)
<1>1. CASE ~Due
  <2>1. Ready({}, creates) = Current
    BY <1>1 DEF Ready
  <2> QED
    BY <2>1, NothingDropped
<1>2. CASE Due
  <2> DEFINE named == Shifted({})
             state == [names |-> named, files |-> files, handle |-> file_handle]
  <2>1. {i \in Names : i < 0} = {} /\ 0 \in Names /\ 0 < MaxFiles
    BY NameRange DEF Names
  <2>2. \E y \in Seq(1 .. logged) : /\ y \o Joined(Shown(state)) = OnDisk
                                    /\ y # <<>> => names[MaxFiles] # 0 /\ names[MaxFiles - 1] # 0
    <3>1. Shifted({i \in Names : i < 0}) = named
      BY <2>1
    <3>2. \E y \in Seq(1 .. logged) :
             /\ y \o Joined(Shown([names |-> Shifted({i \in Names : i < 0}), files |-> files, handle |-> file_handle]))
                  = OnDisk
             /\ y # <<>> => names[MaxFiles] # 0 /\ names[MaxFiles - 1] # 0
      BY <2>1, ShiftMoves
    <3> QED
      BY <3>1, <3>2
  <2>3. named \in [Names -> 0 .. Len(files)] /\ Distinct(named) /\ named[0] = 0
    BY <1>2, ShiftedNames, ShiftedDistinct, ShiftedLog DEF Recorded, Due
  <2>4. Shown(Ready({}, creates)) = Shown(state)
    <3>1. Ready({}, creates) = IF creates THEN Created(named) ELSE state
      BY <1>2 DEF Ready, Rotated
    <3> HIDE DEF named
    <3> QED
      BY <2>3, <3>1, CreatedShows
  <2> QED
    BY <1>2, <2>2, <2>4 DEF Drops
<1> QED
  BY <1>1, <1>2

\* A stop out of a rotation, or before its first rename, leaves the names alone.
LEMMA StoppedLate ==
  ASSUME TypeOK, NEW k \in Names, ~(Due /\ k < MaxFiles)
  PROVE  Stopped(k) = names
<1>1. CASE ~Due
  BY <1>1 DEF Stopped
<1>2. CASE Due /\ ~(k < MaxFiles)
  <2>1. Movable \ {i \in Names : i < k} = {}
    BY <1>2, RotationAssumption DEF Movable, Names
  <2>2. Stopped(k) = [i \in Names |-> names[i]]
    BY <1>2, <2>1 DEF Stopped, Shifted
  <2> QED
    BY <2>2 DEF TypeOK
<1> QED
  BY <1>1, <1>2

LEMMA OpenedDrops ==
  ASSUME TypeOK, Recorded, WritesFound, NEW k \in Names, ~Due => k = MaxFiles
  PROVE  \E y : Drops(Opened(Stopped(k)), y) /\ (y # <<>> => k < MaxFiles)
<1> DEFINE named == Stopped(k)
           state == [names |-> named, files |-> files, handle |-> file_handle]
<1>1. named \in [Names -> 0 .. Len(files)] /\ Distinct(named)
  BY OpenedSound
<1>2. Shown(Opened(named)) = Shown(state)
  <2>1. CASE named[0] = 0
    BY <1>1, <2>1, CreatedShows DEF Opened
  <2>2. CASE named[0] # 0
    <3>1. Opened(named) = [names |-> named, files |-> files, handle |-> named[0]]
      BY <2>2 DEF Opened
    <3> QED
      BY <3>1 DEF Shown
  <2> QED
    BY <2>1, <2>2
<1>3. CASE Due /\ k < MaxFiles
  <2>1. named = Shifted({i \in Names : i < k})
    BY <1>3 DEF Stopped
  <2>2. \E y \in Seq(1 .. logged) : /\ y \o Joined(Shown(state)) = OnDisk
                                    /\ y # <<>> => names[MaxFiles] # 0 /\ names[MaxFiles - 1] # 0
    BY <1>3, <2>1, ShiftMoves
  <2> QED
    BY <1>2, <1>3, <2>2 DEF Drops
<1>4. CASE ~(Due /\ k < MaxFiles)
  <2>2. named = names
    BY <1>4, StoppedLate
  <2>3. Shown(Opened(named)) = Shown(Current)
    BY <1>2, <2>2 DEF Shown, Current
  <2> QED
    BY <2>3, NothingDropped
<1> QED
  BY <1>3, <1>4

-----------------------------------------------------------------------------
\* The refinement

LEMMA RecordedInit == Init => Recorded
<1> SUFFICES ASSUME Init PROVE Recorded
  OBVIOUS
<1>1. <<<<>>>> \in Seq(Seq(1 .. logged))
  OBVIOUS
<1>2. Distinct(names)
  BY DEF Init, Distinct
<1> QED
  BY <1>1, <1>2 DEF Init, Recorded

LEMMA RecordedNext == TypeOK /\ Recorded /\ WritesFound /\ [Next]_vars => Recorded'
<1> SUFFICES ASSUME TypeOK, Recorded, WritesFound, [Next]_vars PROVE Recorded'
  OBVIOUS
<1>1. ASSUME NEW refused \in SUBSET Names, NEW creates \in BOOLEAN, NEW writes \in BOOLEAN,
             Log(refused, creates, writes)
      PROVE  Recorded'
  <2>1. logged' = logged + 1
    BY <1>1 DEF Log
  <2>2. Written(Ready(refused, creates), writes) /\ Sound(Ready(refused, creates))
    BY <1>1, LogReady, ReadySound
  <2> QED
    BY <2>1, <2>2, WrittenAppends
<1>2. ASSUME NEW k \in Names, Restart(k) PROVE Recorded'
  <2>1. names' = Opened(Stopped(k)).names /\ files' = Opened(Stopped(k)).files /\ logged' = logged
    BY <1>2 DEF Restart
  <2>2. Sound(Opened(Stopped(k)))
    BY OpenedSound
  <2> QED
    BY <2>1, <2>2 DEF Sound, Recorded, Distinct
<1>3. CASE UNCHANGED vars
  BY <1>3 DEF vars, Recorded, Distinct
<1> QED
  BY <1>1, <1>2, <1>3 DEF Next

LEMMA RecordedAlways == Spec => []Recorded
<1> QED
  BY RotationTypes, HandleFound, RecordedInit, RecordedNext, PTL DEF Spec

\* What is left of a sequence whose first part is gone is one of its ends.
LEMMA EndOfConcat ==
  ASSUME NEW S, NEW y \in Seq(S), NEW z \in Seq(S)
  PROVE  /\ Len(y) \in 0 .. Len(y \o z)
         /\ SubSeq(y \o z, Len(y) + 1, Len(y \o z)) = z
<1>1. Len(y) \in Nat /\ Len(z) \in Nat /\ Len(y \o z) = Len(y) + Len(z)
  BY LenProperties, ConcatProperties
<1>2. SubSeq(y \o z, Len(y) + 1, Len(y \o z)) = SubSeq(z, (Len(y) + 1) - Len(y), Len(y \o z) - Len(y))
  BY <1>1, SubSeqOfConcat2
<1>3. (Len(y) + 1) - Len(y) = 1 /\ Len(y \o z) - Len(y) = Len(z)
  BY <1>1
<1>4. SubSeq(z, 1, Len(z)) = z
  BY SubSeqFull
<1> QED
  BY <1>1, <1>2, <1>3, <1>4

\* What is read once y is gone, whether or not the next event is added to it,
\* is what a write of the bounded log leaves.
LEMMA DropsWrite ==
  ASSUME TypeOK, NEW state, Sound(state), NEW y, Drops(state, y),
         \/ OnDisk' = Joined(Shown(state))
         \/ logged + 1 \in 1 .. MaxEvents /\ OnDisk' = Append(Joined(Shown(state)), logged + 1)
  PROVE  BL!Write
<1> DEFINE z == Joined(Shown(state))
           S == 1 .. logged
<1>1. y \in Seq(S) /\ z \in Seq(S) /\ OnDisk = y \o z
  BY JoinedSound DEF Drops
<1>2. Len(y) \in 0 .. Len(OnDisk) /\ z = SubSeq(OnDisk, Len(y) + 1, Len(OnDisk))
  <2> HIDE DEF z
  <2> QED
    BY <1>1, EndOfConcat
<1>3. z = BL!Without(Len(y))
  BY <1>2 DEF BL!Without
<1>4. logged + 1 \notin BL!ToSet(OnDisk)
  <2>1. OnDisk \in Seq(S)
    BY <1>1, ConcatProperties
  <2>2. \A i \in DOMAIN OnDisk : OnDisk[i] \in S
    BY <2>1, ElementOfSeq, LenProperties
  <2>3. logged + 1 \notin S
    BY DEF TypeOK
  <2> QED
    BY <2>2, <2>3 DEF BL!ToSet
<1> HIDE DEF z
<1>5. OnDisk' = BL!Without(Len(y)) \/ \E e \in (1 .. MaxEvents) \ BL!ToSet(OnDisk) : OnDisk' = Append(BL!Without(Len(y)), e)
  BY <1>3, <1>4 DEF z
<1>6. \E k \in 0 .. Len(OnDisk) : \/ OnDisk' = BL!Without(k)
                                 \/ \E e \in (1 .. MaxEvents) \ BL!ToSet(OnDisk) : OnDisk' = Append(BL!Without(k), e)
  <2> HIDE DEF BL!Without, OnDisk, S
  <2> QED
    BY <1>2, <1>5, Zenon
<1> QED
  BY <1>6 DEF BL!Write

LEMMA RefinesNext == TypeOK /\ Recorded /\ WritesFound /\ [Next]_vars => [BL!Next]_<<OnDisk, failed>>
<1> SUFFICES ASSUME TypeOK, Recorded, WritesFound, [Next]_vars PROVE [BL!Next]_<<OnDisk, failed>>
  OBVIOUS
<1>1. ASSUME NEW refused \in SUBSET Names, NEW creates \in BOOLEAN, NEW writes \in BOOLEAN,
             Log(refused, creates, writes)
      PROVE  BL!Next
  <2>1. failed' = (failed \/ refused # {})
    BY <1>1 DEF Log
  <2>2. CASE refused # {}
    <3>1. failed' = TRUE
      BY <2>1, <2>2, Zenon
    <3> QED
      BY <3>1 DEF BL!Next, BL!Break
  <2>3. CASE refused = {}
    <3> DEFINE state == Ready({}, creates)
    <3>1. failed' = failed
      <4>1. failed \in BOOLEAN
        BY DEF TypeOK
      <4> QED
        BY <2>1, <2>3, <4>1, Zenon
    <3>2. Written(state, writes) /\ logged' = logged + 1 /\ logged + 1 \in 1 .. MaxEvents
      BY <1>1, <2>3, LogReady, RotationAssumption DEF Log, TypeOK
    <3>3. Sound(state)
      BY ReadySound
    <3>4. PICK y : Drops(state, y)
      BY ReadyDrops
    <3>5. OnDisk' = Joined(Shown(state)) \/ OnDisk' = Append(Joined(Shown(state)), logged + 1)
      BY <3>2, <3>3, WrittenAppends
    <3>6. BL!Write
      BY <3>2, <3>3, <3>4, <3>5, DropsWrite
    <3> QED
      BY <3>1, <3>6 DEF BL!Next
  <2> QED
    BY <2>2, <2>3
<1>2. ASSUME NEW k \in Names, Restart(k)
      PROVE  failed' = failed /\ (BL!Write \/ OnDisk' = OnDisk)
  <2> DEFINE state == Opened(Stopped(k))
  <2>1. /\ names' = state.names /\ files' = state.files /\ failed' = failed
        /\ ~Due => k = MaxFiles
    BY <1>2 DEF Restart
  <2>2. OnDisk' = Joined(Shown(state))
    <3>1. Shown([names |-> names', files |-> files', handle |-> file_handle']) = Shown(state)
      BY <2>1 DEF Shown
    <3> QED
      BY <3>1, OnDiskShownNext
  <2>3. Sound(state)
    BY OpenedSound
  <2>4. PICK y : Drops(state, y)
    BY <2>1, OpenedDrops
  <2>5. BL!Write
    BY <2>2, <2>3, <2>4, DropsWrite
  <2> QED
    BY <2>1, <2>5
<1>3. CASE UNCHANGED vars
  <2>1. Shown([names |-> names', files |-> files', handle |-> file_handle']) = Shown(Current)
    BY <1>3 DEF vars, Shown, Current
  <2>2. OnDisk' = OnDisk
    BY <2>1, OnDiskShown, OnDiskShownNext
  <2> QED
    BY <1>3, <2>2 DEF vars
<1> QED
  BY <1>1, <1>2, <1>3 DEF Next, BL!Next

LEMMA RefinesInit == Init => BL!Init
<1> SUFFICES ASSUME Init PROVE BL!Init
  OBVIOUS
<1> DEFINE c == Shown(Current)
<1>1. c \in [Names -> Seq({})]
  <2>1. <<>> \in Seq({}) /\ files[1] = <<>> /\ \A i \in Names : names[i] \in {0, 1}
    BY DEF Init
  <2>2. \A i \in Names : (IF names[i] = 0 THEN <<>> ELSE files[names[i]]) \in Seq({})
    BY <2>1
  <2> QED
    BY <2>2 DEF Shown, Current
<1>2. Joined(c) \in Seq({})
  <2> HIDE DEF c
  <2> QED
    BY <1>1, JoinedTyped
<1>3. Joined(c) = <<>>
  <2>1. \A s \in Seq({}) : s = <<>>
    BY LenProperties
  <2> QED
    BY <1>2, <2>1
<1> QED
  BY <1>3, OnDiskShown DEF Init, BL!Init

\* Read in order, the rotated files and the log are at every moment a log that
\* has lost nothing but its oldest events and repeats none, however rotations,
\* stops and restarts follow each other, as long as no rename was refused.
THEOREM RotationRefines == Spec => ImplementsBoundedLog
<1>1. Spec => [](TypeOK /\ Recorded /\ WritesFound)
  BY RotationTypes, RecordedAlways, HandleFound, PTL
<1>2. Spec => [][BL!Next]_<<OnDisk, failed>>
  BY <1>1, RefinesNext, PTL DEF Spec
<1>3. Spec => BL!Init
  BY RefinesInit DEF Spec
<1> QED
  BY <1>2, <1>3 DEF ImplementsBoundedLog, BL!Spec

-----------------------------------------------------------------------------
\* What there is when something is given up

\* Where a rotation was cut short: no file, but an older one is there.
HolesOf(ns) == {i \in 1 .. MaxFiles : ns[i] = 0 /\ \E j \in Names : j > i /\ ns[j] # 0}

\* No file was rotated too early.
FullState(state) == \A i \in 1 .. MaxFiles : state.names[i] # 0 => Len(state.files[state.names[i]]) > MaxSize

\* Each stop has left at most one gap in the names.
Filled == ~failed => FullState(Current) /\ Cardinality(HolesOf(names)) <= restarts

LEMMA HolesFinite ==
  ASSUME NEW ns
  PROVE  IsFiniteSet(HolesOf(ns)) /\ Cardinality(HolesOf(ns)) \in Nat
<1>1. IsFiniteSet(1 .. MaxFiles) /\ HolesOf(ns) \in SUBSET (1 .. MaxFiles)
  BY FS_Interval, RotationAssumption DEF HolesOf
<1> QED
  BY <1>1, FS_Subset, FS_CardinalityType

\* A rotation cut short leaves one gap more than there was, and none if the log
\* itself was renamed.
LEMMA ShiftedHoles ==
  ASSUME names[0] # 0, NEW k \in Names, k < MaxFiles
  PROVE  Cardinality(HolesOf(Shifted({i \in Names : i < k}))) <=
           Cardinality(HolesOf(names)) + (IF k = 0 THEN 0 ELSE 1)
<1> DEFINE named == Shifted({i \in Names : i < k})
           H == HolesOf(names)
           G == HolesOf(named) \ {k}
           f == [i \in G |-> IF i < k THEN i ELSE i - 1]
<1>1. MaxFiles \in Nat \ {0} /\ k \in 0 .. MaxFiles - 1 /\ Names = 0 .. MaxFiles
  BY RotationAssumption DEF Names
<1>2. /\ \A i \in Names : i < k => named[i] = names[i]
      /\ named[k] = 0
      /\ \A i \in Names : k < i /\ i < MaxFiles => named[i] = names[i - 1]
      /\ named[MaxFiles] = IF names[MaxFiles - 1] # 0 THEN names[MaxFiles - 1] ELSE names[MaxFiles]
  BY ShiftedFrom
<1> HIDE DEF named
<1>3. \A i \in G : i \in 1 .. MaxFiles /\ i # k /\ named[i] = 0 /\ \E j \in Names : j > i /\ named[j] # 0
  BY DEF HolesOf
<1>4. ASSUME NEW i \in G
      PROVE  f[i] \in H
  <2>1. PICK j \in Names : j > i /\ named[j] # 0
    BY <1>3
  <2>2. j # k /\ i < MaxFiles
    BY <1>1, <1>2, <1>3, <2>1
  <2>3. CASE i < k
    <3>1. names[i] = 0 /\ f[i] = i
      BY <1>1, <1>2, <1>3, <2>3
    <3>2. \E l \in Names : l > i /\ names[l] # 0
      <4>1. CASE j < k
        BY <1>2, <2>1, <4>1
      <4>2. CASE j > k /\ j < MaxFiles
        <5>1. named[j] = names[j - 1] /\ j - 1 \in Names /\ j - 1 > i
          BY <1>1, <1>2, <1>3, <2>3, <4>2
        <5> QED
          BY <2>1, <5>1
      <4>3. CASE j = MaxFiles
        <5>1. MaxFiles - 1 \in Names /\ MaxFiles - 1 > i /\ MaxFiles \in Names /\ MaxFiles > i
          BY <1>1, <1>3, <2>3
        <5> QED
          BY <1>2, <2>1, <4>3, <5>1
      <4> QED
        BY <1>1, <2>2, <4>1, <4>2, <4>3
    <3> QED
      BY <1>3, <3>1, <3>2 DEF HolesOf
  <2>4. CASE i > k
    <3>1. names[i - 1] = 0 /\ f[i] = i - 1 /\ i - 1 \in Names
      BY <1>1, <1>2, <1>3, <2>2, <2>4
    <3>2. i - 1 \in 1 .. MaxFiles
      BY <1>1, <1>3, <3>1
    <3>3. \E l \in Names : l > i - 1 /\ names[l] # 0
      <4>1. CASE j < MaxFiles
        <5>1. named[j] = names[j - 1] /\ j - 1 \in Names /\ j - 1 > i - 1
          BY <1>1, <1>2, <1>3, <2>1, <2>4, <4>1
        <5> QED
          BY <2>1, <5>1
      <4>2. CASE j = MaxFiles
        <5>1. MaxFiles - 1 \in Names /\ MaxFiles - 1 > i - 1 /\ MaxFiles \in Names /\ MaxFiles > i - 1
          BY <1>1, <1>3, <2>2
        <5> QED
          BY <1>2, <2>1, <4>2, <5>1
      <4> QED
        BY <1>1, <4>1, <4>2
    <3> QED
      BY <3>1, <3>2, <3>3 DEF HolesOf
  <2> QED
    BY <1>1, <1>3, <2>3, <2>4
<1>5. ASSUME NEW i \in G, NEW j \in G, f[i] = f[j]
      PROVE  i = j
  BY <1>1, <1>3, <1>5
<1>6. f \in Injection(G, H)
  <2>1. f \in [G -> H]
    BY <1>4
  <2> HIDE DEF G, H
  <2>2. \A i, j \in DOMAIN f : f[i] = f[j] => i = j
    BY <1>5
  <2> QED
    BY <2>1, <2>2 DEF Injection, IsInjective
<1>7. Cardinality(G) <= Cardinality(H)
  <2>1. IsFiniteSet(H)
    BY HolesFinite
  <2> HIDE DEF G, H, f
  <2> QED
    BY <1>6, <2>1, FS_Injection
<1>8. Cardinality(HolesOf(named)) <= Cardinality(G) + (IF k = 0 THEN 0 ELSE 1)
  <2>1. IsFiniteSet(HolesOf(named)) /\ Cardinality(HolesOf(named)) \in Nat /\ (k \in HolesOf(named) => k # 0)
    BY HolesFinite DEF HolesOf
  <2>2. Cardinality(G) = IF k \in HolesOf(named) THEN Cardinality(HolesOf(named)) - 1 ELSE Cardinality(HolesOf(named))
    BY <2>1, FS_RemoveElement
  <2> QED
    BY <2>1, <2>2
<1>9. Cardinality(H) \in Nat /\ Cardinality(HolesOf(named)) \in Nat /\ Cardinality(G) \in Int
  <2>1. Cardinality(H) \in Nat /\ Cardinality(HolesOf(named)) \in Nat
    BY HolesFinite
  <2>2. IsFiniteSet(G)
    BY HolesFinite, FS_RemoveElement
  <2> QED
    BY <2>1, <2>2, FS_CardinalityType
<1> HIDE DEF G, H
<1> QED
  BY <1>7, <1>8, <1>9 DEF named, H

\* A file that is rotated is larger than MaxSize.
LEMMA ShiftedFull ==
  ASSUME FullState(Current), Due, NEW k \in Names, k < MaxFiles
  PROVE  \A i \in 1 .. MaxFiles : LET named == Shifted({j \in Names : j < k})
                                  IN  named[i] # 0 => Len(files[named[i]]) > MaxSize
<1> DEFINE named == Shifted({j \in Names : j < k})
<1>1. MaxFiles \in Nat \ {0} /\ k \in 0 .. MaxFiles - 1 /\ Names = 0 .. MaxFiles
  BY RotationAssumption DEF Names
<1>2. /\ \A i \in Names : i < k => named[i] = names[i]
      /\ named[k] = 0
      /\ \A i \in Names : k < i /\ i < MaxFiles => named[i] = names[i - 1]
      /\ named[MaxFiles] = IF names[MaxFiles - 1] # 0 THEN names[MaxFiles - 1] ELSE names[MaxFiles]
  BY ShiftedFrom
<1>3. \A i \in Names : names[i] # 0 => Len(files[names[i]]) > MaxSize
  BY <1>1 DEF FullState, Current, Due
<1> HIDE DEF named
<1>4. ASSUME NEW i \in 1 .. MaxFiles, named[i] # 0
      PROVE  \E j \in Names : named[i] = names[j]
  <2>1. i \in Names /\ i - 1 \in Names /\ MaxFiles \in Names
    BY <1>1
  <2>2. i # k
    BY <1>2, <1>4
  <2>3. CASE i < k
    BY <1>2, <2>1, <2>3
  <2>4. CASE k < i /\ i < MaxFiles
    BY <1>2, <2>1, <2>4
  <2>5. CASE i = MaxFiles
    BY <1>2, <2>1, <2>5
  <2> QED
    BY <1>1, <2>2, <2>3, <2>4, <2>5
<1>5. \A i \in 1 .. MaxFiles : named[i] # 0 => Len(files[named[i]]) > MaxSize
  BY <1>3, <1>4
<1> QED
  BY <1>5 DEF named

\* Making a new log changes no rotated file, and no gap.
LEMMA CreatedFull ==
  ASSUME TypeOK, Recorded, NEW named \in [Names -> 0 .. Len(files)], Distinct(named),
         \A i \in 1 .. MaxFiles : named[i] # 0 => Len(files[named[i]]) > MaxSize
  PROVE  FullState(Created(named)) /\ HolesOf(Created(named).names) = HolesOf(named)
<1> DEFINE state == Created(named)
<1>1. /\ state.names[0] = state.handle
      /\ \A i \in Names \ {0} : state.names[i] = named[i]
      /\ \A f \in 1 .. Len(files) : f # state.handle => state.files[f] = files[f]
  BY CreatedProperties
<1>2. Distinct(state.names) /\ Len(files) \in Nat
  BY CreatedSound, LenProperties DEF Sound, TypeOK
<1>3. \A i \in 1 .. MaxFiles : i \in Names \ {0}
  BY RotationAssumption DEF Names
<1> HIDE DEF state
<1>4. ASSUME NEW i \in 1 .. MaxFiles, state.names[i] # 0
      PROVE  Len(state.files[state.names[i]]) > MaxSize
  <2>1. i \in Names /\ i # 0 /\ state.names[i] = named[i] /\ named[i] \in 1 .. Len(files)
    BY <1>1, <1>2, <1>3, <1>4
  <2>2. named[i] # state.handle
    BY <1>1, <1>2, <1>4, <2>1, NameRange DEF Distinct
  <2>3. state.files[named[i]] = files[named[i]]
    BY <1>1, <2>1, <2>2
  <2> QED
    BY <1>4, <2>1, <2>3
<1>5. \A i \in 1 .. MaxFiles : state.names[i] = named[i]
  BY <1>1, <1>3
<1>6. \A i \in 1 .. MaxFiles, j \in Names : j > i => j \in Names \ {0}
  BY RotationAssumption DEF Names
<1>7. HolesOf(state.names) = HolesOf(named)
  BY <1>1, <1>5, <1>6 DEF HolesOf
<1> QED
  BY <1>4, <1>7 DEF FullState, state

LEMMA ReadyFull ==
  ASSUME TypeOK, Recorded, FullState(Current), NEW creates \in BOOLEAN
  PROVE  FullState(Ready({}, creates)) /\ Cardinality(HolesOf(Ready({}, creates).names)) <= Cardinality(HolesOf(names))
<1>1. CASE ~Due
  <2>1. Ready({}, creates) = Current /\ Current.names = names
    BY <1>1 DEF Ready, Current
  <2> QED
    BY <2>1, HolesFinite
<1>2. CASE Due
  <2> DEFINE named == Shifted({i \in Names : i < 0})
             state == Ready({}, creates)
  <2>1. {i \in Names : i < 0} = {} /\ 0 \in Names /\ 0 < MaxFiles /\ names[0] # 0
    BY <1>2, NameRange DEF Names, Due
  <2>2. named \in [Names -> 0 .. Len(files)] /\ Distinct(named)
    BY ShiftedNames, ShiftedDistinct DEF Recorded
  <2>3. \A i \in 1 .. MaxFiles : named[i] # 0 => Len(files[named[i]]) > MaxSize
    BY <1>2, <2>1, ShiftedFull
  <2>4. Cardinality(HolesOf(named)) <= Cardinality(HolesOf(names))
    BY <2>1, HolesFinite, ShiftedHoles
  <2>5. state = IF creates THEN Created(named) ELSE [names |-> named, files |-> files, handle |-> file_handle]
    BY <1>2, <2>1 DEF Ready, Rotated
  <2> HIDE DEF named, state
  <2>6. FullState(state) /\ HolesOf(state.names) = HolesOf(named)
    <3>1. CASE creates
      BY <2>2, <2>3, <2>5, <3>1, CreatedFull
    <3>2. CASE ~creates
      BY <2>3, <2>5, <3>2 DEF FullState
    <3> QED
      BY <3>1, <3>2
  <2> QED
    BY <2>4, <2>6 DEF state
<1> QED
  BY <1>1, <1>2

LEMMA OpenedFull ==
  ASSUME TypeOK, Recorded, FullState(Current), NEW k \in Names, ~Due => k = MaxFiles
  PROVE  LET state == Opened(Stopped(k))
         IN  /\ FullState(state)
             /\ Cardinality(HolesOf(state.names)) <=
                  Cardinality(HolesOf(names)) + (IF k = 0 THEN 0 ELSE 1)
<1> DEFINE named == Stopped(k)
           state == Opened(named)
<1>1. named \in [Names -> 0 .. Len(files)] /\ Distinct(named)
  BY OpenedSound
<1>2. /\ \A i \in 1 .. MaxFiles : named[i] # 0 => Len(files[named[i]]) > MaxSize
      /\ Cardinality(HolesOf(named)) <= Cardinality(HolesOf(names)) + (IF k = 0 THEN 0 ELSE 1)
  <2>1. CASE Due /\ k < MaxFiles
    <3>1. named = Shifted({i \in Names : i < k}) /\ names[0] # 0
      BY <2>1 DEF Stopped, Due
    <3>2. \A i \in 1 .. MaxFiles : named[i] # 0 => Len(files[named[i]]) > MaxSize
      BY <2>1, <3>1, ShiftedFull
    <3>3. Cardinality(HolesOf(named)) <= Cardinality(HolesOf(names)) + (IF k = 0 THEN 0 ELSE 1)
      BY <2>1, <3>1, ShiftedHoles
    <3> QED
      BY <3>2, <3>3
  <2>2. CASE ~(Due /\ k < MaxFiles)
    <3>1. named = names
      BY <2>2, StoppedLate
    <3> HIDE DEF named
    <3>2. Cardinality(HolesOf(names)) \in Nat
      BY HolesFinite
    <3> QED
      BY <3>1, <3>2 DEF FullState, Current
  <2> QED
    BY <2>1, <2>2
<1> HIDE DEF named
<1>3. FullState(state) /\ HolesOf(state.names) = HolesOf(named)
  <2>1. CASE named[0] = 0
    <3>1. state = Created(named)
      BY <2>1 DEF Opened
    <3> QED
      BY <1>1, <1>2, <3>1, CreatedFull
  <2>2. CASE named[0] # 0
    <3>1. state = [names |-> named, files |-> files, handle |-> named[0]]
      BY <2>2 DEF Opened
    <3> HIDE DEF state
    <3> QED
      BY <1>2, <3>1 DEF FullState
  <2> QED
    BY <2>1, <2>2
<1> QED
  BY <1>2, <1>3 DEF named

\* An event that is written makes no file smaller.
LEMMA WrittenFull ==
  ASSUME TypeOK, NEW state, Sound(state), FullState(state), NEW writes \in BOOLEAN, Written(state, writes)
  PROVE  \A i \in 1 .. MaxFiles : names'[i] # 0 => Len(files'[names'[i]]) > MaxSize
<1> DEFINE fs == state.files
           h  == state.handle
           e  == logged + 1
<1>1. /\ names' = state.names
      /\ files' = IF writes THEN [fs EXCEPT ![h] = Append(fs[h], e)] ELSE fs
  BY DEF Written
<1>2. ASSUME NEW i \in 1 .. MaxFiles, state.names[i] # 0
      PROVE  Len(files'[state.names[i]]) > MaxSize
  <2> DEFINE f == state.names[i]
  <2>1. f \in 1 .. Len(fs) /\ Len(fs[f]) > MaxSize
    <3>1. i \in Names /\ Len(fs) \in Nat
      BY RotationAssumption, LenProperties DEF Names, Sound
    <3> QED
      BY <1>2, <3>1 DEF Sound, FullState
  <2> HIDE DEF f
  <2>2. CASE ~writes \/ f # h
    <3>1. files'[f] = fs[f]
      <4>1. CASE ~writes
        BY <1>1, <4>1
      <4>2. CASE writes
        <5>1. f # h /\ f \in DOMAIN fs
          BY <2>1, <2>2, <4>2, LenProperties DEF Sound
        <5> QED
          BY <1>1, <4>2, <5>1
      <4> QED
        BY <4>1, <4>2
    <3> QED
      BY <2>1, <3>1 DEF f
  <2>3. CASE writes /\ f = h
    <3>1. fs \in Seq(Seq(1 .. logged)) /\ fs[f] \in Seq(1 .. logged)
      BY <2>1, ElementOfSeq DEF Sound
    <3>2. f \in DOMAIN fs
      BY <2>1, <3>1, LenProperties
    <3> HIDE DEF fs, h, e
    <3>3. files'[f] = Append(fs[f], e)
      BY <1>1, <2>3, <3>2
    <3>4. fs[f] \in Seq((1 .. logged) \union {e})
      BY <3>1, SeqMonotonic
    <3>5. Len(Append(fs[f], e)) = Len(fs[f]) + 1 /\ Len(fs[f]) \in Nat
      BY <3>4, AppendProperties, LenProperties
    <3> QED
      BY <2>1, <3>3, <3>5, RotationAssumption DEF f
  <2> QED
    BY <2>2, <2>3
<1> QED
  BY <1>1, <1>2

LEMMA FilledInit == Init => Filled
<1> SUFFICES ASSUME Init PROVE Filled
  OBVIOUS
<1>1. FullState(Current)
  BY NameRange, RotationAssumption DEF Init, FullState, Current, Names
<1>2. HolesOf(names) = {}
  BY RotationAssumption DEF Init, HolesOf, Names
<1>3. Cardinality({}) = 0
  BY FS_EmptySet
<1>4. restarts = 0
  BY DEF Init
<1>5. Cardinality(HolesOf(names)) <= restarts
  BY <1>2, <1>3, <1>4
<1> QED
  BY <1>1, <1>5 DEF Filled

\* What a step does to the rotated files, if no rename is refused.
LEMMA FilledStep ==
  ASSUME TypeOK, Recorded, WritesFound, Filled, ~failed',
         NEW d \in {0, 1},
         \/ \E creates, writes \in BOOLEAN : Log({}, creates, writes)
         \/ \E k \in Names : Restart(k) /\ (k # 0 => d = 1)
  PROVE  /\ FullState(Current)'
         /\ Cardinality(HolesOf(names')) <= restarts + d
<1>1. ~failed
  BY DEF Log, Restart
<1>2. FullState(Current) /\ Cardinality(HolesOf(names)) <= restarts
  BY <1>1 DEF Filled
<1>3. /\ Cardinality(HolesOf(names)) \in Nat /\ restarts \in Nat
      /\ \A ns : Cardinality(HolesOf(ns)) \in Nat
  BY HolesFinite DEF TypeOK
<1>4. ASSUME NEW creates \in BOOLEAN, NEW writes \in BOOLEAN, Log({}, creates, writes)
      PROVE  /\ \A i \in 1 .. MaxFiles : names'[i] # 0 => Len(files'[names'[i]]) > MaxSize
             /\ Cardinality(HolesOf(names')) <= restarts + d
  <2> DEFINE state == Ready({}, creates)
  <2>1. Written(state, writes) /\ Sound(state)
    BY <1>4, LogReady, ReadySound
  <2>2. FullState(state) /\ Cardinality(HolesOf(state.names)) <= Cardinality(HolesOf(names))
    BY <1>2, ReadyFull
  <2> HIDE DEF state
  <2>3. \A i \in 1 .. MaxFiles : names'[i] # 0 => Len(files'[names'[i]]) > MaxSize
    BY <2>1, <2>2, WrittenFull
  <2>4. names' = state.names
    BY <2>1 DEF Written
  <2>5. Cardinality(HolesOf(names')) <= restarts + d
    BY <1>2, <1>3, <2>2, <2>4
  <2> QED
    BY <2>3, <2>5
<1>5. ASSUME NEW k \in Names, Restart(k), k # 0 => d = 1
      PROVE  /\ \A i \in 1 .. MaxFiles : names'[i] # 0 => Len(files'[names'[i]]) > MaxSize
             /\ Cardinality(HolesOf(names')) <= restarts + d
  <2> DEFINE state == Opened(Stopped(k))
  <2>1. names' = state.names /\ files' = state.files /\ (~Due => k = MaxFiles)
    BY <1>5 DEF Restart
  <2>2. /\ FullState(state)
        /\ Cardinality(HolesOf(state.names)) <= Cardinality(HolesOf(names)) + (IF k = 0 THEN 0 ELSE 1)
    BY <1>2, <2>1, OpenedFull
  <2> HIDE DEF state
  <2>3. Cardinality(HolesOf(names')) <= restarts + d
    BY <1>2, <1>3, <1>5, <2>1, <2>2
  <2> QED
    BY <2>1, <2>2, <2>3 DEF FullState
<1>6. FullState(Current)' <=> \A i \in 1 .. MaxFiles : names'[i] # 0 => Len(files'[names'[i]]) > MaxSize
  BY DEF FullState, Current
<1> QED
  BY <1>4, <1>5, <1>6

LEMMA FilledNext == TypeOK /\ Recorded /\ WritesFound /\ Filled /\ [Next]_vars => Filled'
<1> SUFFICES ASSUME TypeOK, Recorded, WritesFound, Filled, [Next]_vars, ~failed'
             PROVE  FullState(Current)' /\ Cardinality(HolesOf(names)') <= restarts'
  BY DEF Filled
<1>0. HolesOf(names)' = HolesOf(names')
  BY DEF HolesOf
<1>1. ASSUME NEW refused \in SUBSET Names, NEW creates \in BOOLEAN, NEW writes \in BOOLEAN,
             Log(refused, creates, writes)
      PROVE  FullState(Current)' /\ Cardinality(HolesOf(names')) <= restarts'
  <2>1. refused = {}
    <3>1. failed' = (failed \/ refused # {})
      BY <1>1 DEF Log
    <3> QED
      BY <3>1, Zenon
  <2>2. restarts' = restarts /\ Cardinality(HolesOf(names')) \in Nat
    BY <1>1, HolesFinite DEF Log
  <2>3. FullState(Current)' /\ Cardinality(HolesOf(names')) <= restarts + 0
    BY <1>1, <2>1, FilledStep
  <2>4. restarts \in Nat
    BY DEF TypeOK
  <2> QED
    BY <2>2, <2>3, <2>4
<1>2. ASSUME NEW k \in Names, Restart(k)
      PROVE  FullState(Current)' /\ Cardinality(HolesOf(names')) <= restarts'
  <2>1. restarts' = restarts + 1
    BY <1>2 DEF Restart
  <2>2. FullState(Current)' /\ Cardinality(HolesOf(names')) <= restarts + 1
    BY <1>2, FilledStep
  <2> QED
    BY <2>1, <2>2
<1>3. CASE UNCHANGED vars
  <2>1. Filled' <=> Filled
    BY <1>3 DEF vars, Filled, FullState, Current, HolesOf
  <2> QED
    BY <1>0, <2>1 DEF Filled
<1> QED
  BY <1>0, <1>1, <1>2, <1>3 DEF Next

LEMMA FilledAlways == Spec => []Filled
<1> QED
  BY RotationTypes, RecordedAlways, HandleFound, FilledInit, FilledNext, PTL DEF Spec

\* The files of more than MaxSize.
Big == {i \in Names : Len(Content(i)) > MaxSize}

\* If the last name is taken, every other one is, but for the gaps; and each is
\* that of a big file.
LEMMA BigCounted ==
  TypeOK /\ FullState(Current) /\ names[MaxFiles] # 0 =>
    /\ Cardinality(Big) \in Nat
    /\ MaxFiles <= Cardinality(Big) + Cardinality(HolesOf(names))
    /\ 0 \in Big => MaxFiles + 1 <= Cardinality(Big) + Cardinality(HolesOf(names))
<1> SUFFICES ASSUME TypeOK, FullState(Current), names[MaxFiles] # 0
             PROVE  /\ Cardinality(Big) \in Nat
                    /\ MaxFiles <= Cardinality(Big) + Cardinality(HolesOf(names))
                    /\ 0 \in Big => MaxFiles + 1 <= Cardinality(Big) + Cardinality(HolesOf(names))
  OBVIOUS
<1> DEFINE Rotates == 1 .. MaxFiles
           Free == {i \in Rotates : names[i] = 0}
           H == HolesOf(names)
<1>1. MaxFiles \in Nat \ {0} /\ Names = 0 .. MaxFiles
  BY RotationAssumption DEF Names
<1>2. IsFiniteSet(Rotates) /\ Cardinality(Rotates) = MaxFiles
  BY <1>1, FS_Interval
<1>3. IsFiniteSet(Big) /\ Cardinality(Big) \in Nat
  <2>1. IsFiniteSet(Names) /\ Big \in SUBSET Names
    BY <1>1, FS_Interval DEF Big
  <2> QED
    BY <2>1, FS_Subset, FS_CardinalityType
<1>4. Free = H
  <2>1. \A i \in Rotates : names[i] = 0 => MaxFiles \in Names /\ MaxFiles > i
    BY <1>1
  <2> QED
    BY <2>1 DEF HolesOf
<1>5. Rotates \ H \in SUBSET Big
  <2>1. ASSUME NEW i \in Rotates, names[i] # 0
        PROVE  i \in Big
    <3>1. i \in Names /\ Len(files[names[i]]) > MaxSize
      BY <1>1, <2>1 DEF FullState, Current
    <3> QED
      BY <2>1, <3>1 DEF Big, Content
  <2> QED
    BY <1>4, <2>1
<1>6. IsFiniteSet(Rotates \ H) /\ Cardinality(Rotates \ H) = MaxFiles - Cardinality(H)
  <2>1. Rotates \cap H = H
    BY DEF HolesOf
  <2> HIDE DEF Rotates, H
  <2> QED
    BY <1>2, <2>1, FS_Difference
<1>7. Cardinality(H) \in Nat
  BY HolesFinite
<1>8. 0 \notin Rotates
  OBVIOUS
<1> HIDE DEF Rotates, H
<1>9. Cardinality(Rotates \ H) <= Cardinality(Big)
  BY <1>3, <1>5, FS_Subset
<1>10. ASSUME 0 \in Big
       PROVE  Cardinality(Rotates \ H) + 1 <= Cardinality(Big)
  <2>1. (Rotates \ H) \union {0} \in SUBSET Big
    BY <1>5, <1>10
  <2>2. Cardinality((Rotates \ H) \union {0}) = Cardinality(Rotates \ H) + 1
    BY <1>6, <1>8, FS_AddElement
  <2>3. Cardinality((Rotates \ H) \union {0}) <= Cardinality(Big)
    BY <1>3, <2>1, FS_Subset
  <2> QED
    BY <2>2, <2>3
<1> QED
  BY <1>1, <1>3, <1>6, <1>7, <1>9, <1>10 DEF H

LEMMA BigCountedNext ==
  ASSUME TypeOK', FullState(Current)', names'[MaxFiles] # 0
  PROVE  /\ Cardinality(Big') \in Nat
         /\ MaxFiles <= Cardinality(Big') + Cardinality(HolesOf(names'))
         /\ 0 \in Big' => MaxFiles + 1 <= Cardinality(Big') + Cardinality(HolesOf(names'))
<1>1. (TypeOK /\ FullState(Current) /\ names[MaxFiles] # 0 =>
        /\ Cardinality(Big) \in Nat
        /\ MaxFiles <= Cardinality(Big) + Cardinality(HolesOf(names))
        /\ 0 \in Big => MaxFiles + 1 <= Cardinality(Big) + Cardinality(HolesOf(names)))'
  BY BigCounted, PTL
<1>2. HolesOf(names)' = HolesOf(names')
  BY DEF HolesOf
<1> QED
  BY <1>1, <1>2

\* Less is read only if something was dropped.
LEMMA LessRead ==
  ASSUME TypeOK, NEW state, Sound(state), NEW y, Drops(state, y), Len(OnDisk') < Len(OnDisk),
         OnDisk' = Joined(Shown(state)) \/ OnDisk' = Append(Joined(Shown(state)), logged + 1)
  PROVE  y # <<>>
<1> DEFINE z == Joined(Shown(state))
           S == 1 .. logged + 1
<1>1. Seq(1 .. logged) \subseteq Seq(S) /\ logged + 1 \in S
  <2>1. 1 .. logged \subseteq S /\ logged + 1 \in S
    BY DEF TypeOK
  <2> QED
    BY <2>1, SeqMonotonic
<1>2. z \in Seq(S)
  BY <1>1, JoinedSound
<1>3. OnDisk = y \o z
  BY DEF Drops
<1> HIDE DEF z, S
<1>4. Len(z) \in Nat /\ Len(Append(z, logged + 1)) = Len(z) + 1
  BY <1>1, <1>2, LenProperties, AppendProperties
<1>5. Len(OnDisk') >= Len(z)
  BY <1>4 DEF z
<1>6. ASSUME y = <<>>
      PROVE  FALSE
  <2>1. OnDisk = z
    BY <1>2, <1>3, <1>6, ConcatEmptySeq
  <2> QED
    BY <1>4, <1>5, <2>1
<1> QED
  BY <1>6

\* A rotation that drops something leaves a file under the last name.
LEMMA LastReplaced ==
  ASSUME TypeOK, Due, names[MaxFiles - 1] # 0, NEW k \in Names, k < MaxFiles
  PROVE  LET named == Shifted({i \in Names : i < k})
         IN  /\ named[MaxFiles] # 0
             /\ Created(named).names[MaxFiles] # 0
             /\ k # 0 => named[0] = names[0]
<1> DEFINE named == Shifted({i \in Names : i < k})
<1>1. named \in [Names -> 0 .. Len(files)]
  BY ShiftedNames
<1>2. /\ named[MaxFiles] = IF names[MaxFiles - 1] # 0 THEN names[MaxFiles - 1] ELSE names[MaxFiles]
      /\ \A i \in Names : i < k => named[i] = names[i]
  BY ShiftedFrom
<1>3. MaxFiles \in Names \ {0} /\ 0 \in Names /\ (k # 0 => 0 < k)
  BY RotationAssumption DEF Names
<1> HIDE DEF named
<1>4. Created(named).names[MaxFiles] = named[MaxFiles]
  BY <1>1, <1>3, CreatedProperties
<1> QED
  BY <1>2, <1>3, <1>4 DEF named

LEMMA DroppingNext ==
  TypeOK /\ TypeOK' /\ Recorded /\ WritesFound /\ Filled /\ [Next]_vars =>
    [~failed' /\ Len(OnDisk') < Len(OnDisk) =>
       Cardinality({i \in Names : Len(Content(i)') > MaxSize}) + restarts >= MaxFiles]_vars
<1> SUFFICES ASSUME TypeOK, TypeOK', Recorded, WritesFound, Filled, Next, ~failed', Len(OnDisk') < Len(OnDisk)
             PROVE  Cardinality(Big') + restarts >= MaxFiles
  BY DEF Big
<1>0. restarts \in Nat /\ MaxFiles \in Nat /\ \A ns : Cardinality(HolesOf(ns)) \in Nat
  <2>1. restarts \in Nat
    BY RotationAssumption DEF TypeOK
  <2>2. MaxFiles \in Nat
    BY RotationAssumption
  <2>3. \A ns : Cardinality(HolesOf(ns)) \in Nat
    BY HolesFinite
  <2> QED
    BY <2>1, <2>2, <2>3
<1>1. ASSUME NEW refused \in SUBSET Names, NEW creates \in BOOLEAN, NEW writes \in BOOLEAN,
             Log(refused, creates, writes)
      PROVE  Cardinality(Big') + restarts >= MaxFiles
  <2> DEFINE state == Ready({}, creates)
             named == Shifted({i \in Names : i < 0})
  <2>1. refused = {}
    <3>1. failed' = (failed \/ refused # {})
      BY <1>1 DEF Log
    <3> QED
      BY <3>1, Zenon
  <2>2. Written(state, writes) /\ Sound(state) /\ logged' = logged + 1
    BY <1>1, <2>1, LogReady, ReadySound DEF Log
  <2>3. OnDisk' = Joined(Shown(state)) \/ OnDisk' = Append(Joined(Shown(state)), logged + 1)
    BY <2>2, WrittenAppends
  <2>4. PICK y : Drops(state, y)
    BY ReadyDrops
  <2>5. Due /\ names[MaxFiles - 1] # 0
    <3>1. y # <<>>
      <4> HIDE DEF state
      <4> QED
        BY <2>2, <2>3, <2>4, LessRead
    <3> QED
      BY <2>4, <3>1 DEF Drops
  <2>6. 0 \in Names /\ 0 < MaxFiles /\ {i \in Names : i < 0} = {}
    BY NameRange DEF Names
  <2>7. named[MaxFiles] # 0 /\ Created(named).names[MaxFiles] # 0
    BY <2>5, <2>6, LastReplaced
  <2>8. state = IF creates THEN Created(named) ELSE [names |-> named, files |-> files, handle |-> file_handle]
    BY <2>5, <2>6 DEF Ready, Rotated
  <2> HIDE DEF state, named
  <2>9. names'[MaxFiles] # 0
    BY <2>2, <2>7, <2>8 DEF Written
  <2>10. FullState(Current)' /\ Cardinality(HolesOf(names')) <= restarts + 0
    BY <1>1, <2>1, FilledStep
  <2>11. Cardinality(Big') \in Nat /\ MaxFiles <= Cardinality(Big') + Cardinality(HolesOf(names'))
    BY <2>9, <2>10, BigCountedNext
  <2> QED
    BY <1>0, <2>10, <2>11
<1>2. ASSUME NEW k \in Names, Restart(k)
      PROVE  Cardinality(Big') + restarts >= MaxFiles
  <2> DEFINE state == Opened(Stopped(k))
             named == Shifted({i \in Names : i < k})
  <2>1. names' = state.names /\ files' = state.files /\ (~Due => k = MaxFiles)
    BY <1>2 DEF Restart
  <2>2. OnDisk' = Joined(Shown(state))
    <3>1. Shown([names |-> names', files |-> files', handle |-> file_handle']) = Shown(state)
      BY <2>1 DEF Shown
    <3> QED
      BY <3>1, OnDiskShownNext
  <2>3. Sound(state)
    BY OpenedSound
  <2>4. PICK y : Drops(state, y) /\ (y # <<>> => k < MaxFiles)
    BY <2>1, OpenedDrops
  <2>5. Due /\ names[MaxFiles - 1] # 0 /\ k < MaxFiles
    <3>1. y # <<>>
      <4> HIDE DEF state
      <4> QED
        BY <2>2, <2>3, <2>4, LessRead
    <3> QED
      BY <2>4, <3>1 DEF Drops
  <2>6. named[MaxFiles] # 0 /\ Created(named).names[MaxFiles] # 0 /\ (k # 0 => named[0] = names[0])
    BY <2>5, LastReplaced
  <2>7. state = IF named[0] # 0 THEN [names |-> named, files |-> files, handle |-> named[0]] ELSE Created(named)
    BY <2>5 DEF Stopped, Opened
  <2> HIDE DEF state, named
  <2>8. names'[MaxFiles] # 0
    BY <2>1, <2>6, <2>7
  <2>9. CASE k = 0
    <3>1. FullState(Current)' /\ Cardinality(HolesOf(names')) <= restarts + 0
      BY <1>2, <2>9, FilledStep
    <3>2. Cardinality(Big') \in Nat /\ MaxFiles <= Cardinality(Big') + Cardinality(HolesOf(names'))
      BY <2>8, <3>1, BigCountedNext
    <3> QED
      BY <1>0, <3>1, <3>2
  <2>10. CASE k # 0
    <3>1. FullState(Current)' /\ Cardinality(HolesOf(names')) <= restarts + 1
      BY <1>2, FilledStep
    <3>2. 0 \in Big'
      <4>1. names[0] # 0 /\ Len(files[names[0]]) > MaxSize
        BY <2>5 DEF Due
      <4>2. names'[0] = names[0] /\ files' = files
        BY <2>1, <2>6, <2>7, <2>10, <4>1
      <4> QED
        BY <4>1, <4>2, NameRange DEF Big, Content
    <3>3. Cardinality(Big') \in Nat /\ MaxFiles + 1 <= Cardinality(Big') + Cardinality(HolesOf(names'))
      BY <2>8, <3>1, <3>2, BigCountedNext
    <3> QED
      BY <1>0, <3>1, <3>3
  <2> QED
    BY <2>9, <2>10
<1> QED
  BY <1>1, <1>2 DEF Next

\* Until a rename is refused, nothing that was logged is given up before there
\* are MaxFiles files too large to add to, less one for every stop so far.
THEOREM RotationKeeps == Spec => FullBeforeDropping
<1> QED
  BY RotationTypes, RecordedAlways, HandleFound, FilledAlways, DroppingNext, PTL DEF Spec, FullBeforeDropping
=============================================================================
