----------------------- MODULE SnowflakeIdGenerator_proofs -----------------------
(***************************************************************************)
(* The identifiers of SnowflakeIdGenerator are unique, for any number of   *)
(* threads, JVMs, restarts and set-backs and any widths of the fields,     *)
(* but for those a generator repeats that restarted unaware of a set-back. *)
(* The invariant relates every identifier already returned to the          *)
(* generator that returned it, in this life or an earlier one, and to the  *)
(* thread that is about to return the next one.                            *)
(***************************************************************************)
EXTENDS SnowflakeIdGenerator, TLAPS

-----------------------------------------------------------------------------
(* Arithmetic of the fields. *)

LEMMA Scale ==
    ASSUME NEW a \in Nat, NEW b \in Nat, NEW c \in Nat, a < b
    PROVE  a * c + c <= b * c
<1> DEFINE k == b - a - 1
<1>1. k \in Nat /\ b = a + 1 + k  OBVIOUS
<1>2. k * c \in Nat /\ a * c \in Nat /\ b * c \in Nat  BY <1>1
<1> HIDE DEF k
<1>3. b * c = a * c + c + k * c  BY <1>1
<1> QED  BY <1>2, <1>3

LEMMA Wrap ==
    ASSUME NEW q \in 0..(SequenceMax - 1)
    PROVE  /\ NextSequence(q) \in 0..(SequenceMax - 1)
           /\ NextSequence(q) # 0 => NextSequence(q) = q + 1
<1>1. CASE q + 1 < SequenceMax
  BY <1>1, FieldAssumption DEF NextSequence
<1>2. CASE q + 1 = SequenceMax
  BY <1>2, FieldAssumption DEF NextSequence
<1> QED  BY <1>1, <1>2, FieldAssumption

-----------------------------------------------------------------------------
(* Type correctness. *)

LEMMA InitType == Init => TypeOK
BY FieldAssumption, ClockAssumption, BoundAssumption, ThreadAssumption DEF Init, TypeOK

LEMMA NextType ==
    ASSUME TypeOK, [Next]_vars
    PROVE  TypeOK'
<1> USE FieldAssumption, ClockAssumption, BoundAssumption, ThreadAssumption DEF TypeOK
<1>1. ASSUME NEW t \in Thread, Enter(t)  PROVE TypeOK'
  BY <1>1 DEF Enter, generatorVars, pastVars, boundVars
<1>2. ASSUME NEW t \in Thread, Refuse(t)  PROVE TypeOK'
  BY <1>2 DEF Refuse, generatorVars, pastVars, boundVars
<1>3. ASSUME NEW t \in Thread, ReadClock(t)  PROVE TypeOK'
  <2> DEFINE q == IF clock = lastTimestamp[gen[t]] THEN NextSequence(sequence[gen[t]]) ELSE 0
  <2>1. q \in 0..(SequenceMax - 1)
    BY Wrap
  <2>2. sequence' = [sequence EXCEPT ![gen[t]] = q]
    BY <1>3 DEF ReadClock
  <2> HIDE DEF q
  <2>3. sequence' \in [Generator -> 0..(SequenceMax - 1)]
    BY <2>1, <2>2
  <2> QED  BY <1>3, <2>3 DEF ReadClock, pastVars, boundVars
<1>4. ASSUME NEW t \in Thread, TilNextMillis(t)  PROVE TypeOK'
  BY <1>4 DEF TilNextMillis, generatorVars, pastVars, boundVars
<1>5. ASSUME NEW t \in Thread, Return(t)  PROVE TypeOK'
  <2>1. Issued(t) \in Identifier
    BY DEF Issued, Identifier
  <2> QED  BY <1>5, <2>1 DEF Return, pastVars, boundVars
<1>6. CASE Tick
  BY <1>6 DEF Tick, generatorVars, threadVars, pastVars, boundVars
<1>7. CASE SetBack
  <2>1. \A i \in earlier : i.gen \in Generator  BY DEF Identifier
  <2>2. unaware' \subseteq Generator  BY <1>7, <2>1 DEF SetBack
  <2> QED  BY <1>7, <2>2 DEF SetBack, generatorVars, threadVars
<1>8. ASSUME NEW g \in Generator, Restart(g)  PROVE TypeOK'
  BY <1>8 DEF Restart
<1>9. CASE UNCHANGED vars
  BY <1>9 DEF vars, generatorVars, threadVars, pastVars, boundVars
<1> QED  BY <1>1, <1>2, <1>3, <1>4, <1>5, <1>6, <1>7, <1>8, <1>9 DEF Next, ThreadStep

\* Every reachable state of the generators, the clock and the threads has its
\* type: in particular the sequence never leaves its field.
THEOREM TypeCorrect == Spec => []TypeOK
<1>1. TypeOK /\ [Next]_vars => TypeOK'  BY NextType
<1> QED  BY InitType, <1>1, PTL DEF Spec

-----------------------------------------------------------------------------
(* The invariant. *)

\* A thread inside nextId() holds the monitor of its generator.
Holds(t) == pc[t] # "app" => monitor[gen[t]] = t

Inside(g) == \E t \in Thread : gen[t] = g /\ pc[t] \in {"tilNextMillis", "return"}

Less(i, j) == i.timestamp < j.timestamp \/ (i.timestamp = j.timestamp /\ i.sequence < j.sequence)

\* An identifier of this life: the generator has counted it.
Counted(i) ==
    \/ i.timestamp < lastTimestamp[i.gen]
    \/ i.timestamp = lastTimestamp[i.gen] /\ (i.sequence <= sequence[i.gen] \/ Inside(i.gen))

\* An identifier of an earlier life is in the past of a generator that is not unaware.
Past(i) ==
    i.gen \notin unaware =>
        IF lastTimestamp[i.gen] = -1 THEN i.timestamp < clock
                                     ELSE i.timestamp < lastTimestamp[i.gen]

\* The identifier a thread is about to return follows all others of its generator.
Follows(t) ==
    pc[t] = "return" =>
        /\ \A i \in issued : i.gen = gen[t] => Less(i, Issued(t))
        /\ gen[t] \notin unaware =>
              \A i \in earlier : i.gen = gen[t] => i.timestamp < timestamp[t]

\* While the clock has not been set back, nobody is ahead of it.
Steady ==
    backs = 0 =>
        /\ unaware = {}
        /\ \A g \in Generator : lastTimestamp[g] <= clock
        /\ \A t \in Thread : timestamp[t] <= clock

Inv ==
    /\ \A t \in Thread : Holds(t)
    /\ \A i \in issued : Counted(i)
    /\ \A i \in earlier : Past(i)
    /\ \A t \in Thread : Follows(t)
    /\ Steady

LEMMA InitInv == Init => Inv
<1> SUFFICES ASSUME Init PROVE Inv  OBVIOUS
<1>1. Steady  BY DEF Init, Steady
<1> QED  BY <1>1 DEF Init, Inv, Holds, Follows

LEMMA Alone ==
    ASSUME TypeOK, Inv, NEW t \in Thread, pc[t] # "app"
    PROVE  \A o \in Thread : gen[o] = gen[t] /\ pc[o] # "app" => o = t
BY DEF Inv, Holds

\* The fields of identifiers are numbers.
LEMMA Fields ==
    ASSUME TypeOK
    PROVE  \A i \in issued \cup earlier :
              i.gen \in Generator /\ i.timestamp \in Nat /\ i.sequence \in Nat
BY FieldAssumption, ClockAssumption DEF TypeOK, Identifier

\* No step of a thread makes a generator unaware, or turns back the clock.
LEMMA NextSteady ==
    ASSUME TypeOK, Inv, [Next]_vars
    PROVE  Steady'
<1> USE FieldAssumption, ClockAssumption, BoundAssumption, ThreadAssumption DEF TypeOK, Inv, Steady
<1>1. ASSUME NEW t \in Thread, Enter(t) \/ Refuse(t)  PROVE Steady'
  BY <1>1 DEF Enter, Refuse, generatorVars, pastVars, boundVars
<1>2. ASSUME NEW t \in Thread, ReadClock(t)  PROVE Steady'
  <2>1. /\ timestamp' = [timestamp EXCEPT ![t] = clock]
        /\ UNCHANGED <<clock, lastTimestamp, unaware, backs>>
    BY <1>2 DEF ReadClock, pastVars, boundVars
  <2> QED  BY <2>1
<1>3. ASSUME NEW t \in Thread, TilNextMillis(t)  PROVE Steady'
  <2>1. /\ timestamp' = [timestamp EXCEPT ![t] = clock]
        /\ UNCHANGED <<clock, lastTimestamp, unaware, backs>>
    BY <1>3 DEF TilNextMillis, generatorVars, pastVars, boundVars
  <2> QED  BY <2>1
<1>4. ASSUME NEW t \in Thread, Return(t)  PROVE Steady'
  <2>1. /\ timestamp' = [timestamp EXCEPT ![t] = 0]
        /\ lastTimestamp' = [lastTimestamp EXCEPT ![gen[t]] = timestamp[t]]
        /\ UNCHANGED <<clock, unaware, backs>>
    BY <1>4 DEF Return, pastVars, boundVars
  <2> QED  BY <2>1
<1>5. CASE Tick
  BY <1>5 DEF Tick, generatorVars, threadVars, pastVars, boundVars
<1>6. CASE SetBack
  BY <1>6 DEF SetBack
<1>7. ASSUME NEW g \in Generator, Restart(g)  PROVE Steady'
  <2>1. /\ clock' = clock + 1 /\ backs' = backs
        /\ lastTimestamp' = [lastTimestamp EXCEPT ![g] = -1]
        /\ \A t \in Thread : timestamp'[t] = 0 \/ timestamp'[t] = timestamp[t]
        /\ unaware' = IF clock < lastTimestamp[g] THEN unaware \cup {g} ELSE unaware
    BY <1>7 DEF Restart
  <2> QED  BY <2>1
<1>8. CASE UNCHANGED vars
  BY <1>8 DEF vars, generatorVars, threadVars, pastVars, boundVars
<1> QED  BY <1>1, <1>2, <1>3, <1>4, <1>5, <1>6, <1>7, <1>8 DEF Next, ThreadStep

\* A step inside nextId() of t: the threads of other generators do not notice.
LEMMA OthersFollow ==
    ASSUME TypeOK, NEW t \in Thread, NEW o \in Thread, o # t, Follows(o),
           timestamp'[o] = timestamp[o], pc'[o] = pc[o], sequence'[gen[o]] = sequence[gen[o]],
           UNCHANGED <<issued, earlier, unaware>>
    PROVE  Follows(o)'
BY DEF Follows, Less, Issued

LEMMA NextInv ==
    ASSUME TypeOK, TypeOK', Inv, [Next]_vars
    PROVE  Inv'
<1> USE FieldAssumption, ClockAssumption, ThreadAssumption DEF TypeOK, Inv
<1>0. Steady'  BY NextSteady
<1> DEFINE Rest == /\ \A t \in Thread : Holds(t)
                   /\ \A i \in issued : Counted(i)
                   /\ \A i \in earlier : Past(i)
                   /\ \A t \in Thread : Follows(t)
<1> HIDE DEF Inv
<1>a. TypeOK /\ Rest  BY DEF Inv
<1>1. ASSUME NEW t \in Thread, Enter(t)  PROVE Rest'
  BY <1>a, <1>1 DEF Enter, generatorVars, pastVars, boundVars, Holds, Counted, Past, Inside, Follows, Issued
<1>2. ASSUME NEW t \in Thread, Refuse(t)  PROVE Rest'
  BY <1>a, <1>2, Alone DEF Refuse, generatorVars, pastVars, boundVars, Holds, Counted, Past, Inside, Follows, Issued
<1>3. ASSUME NEW t \in Thread, ReadClock(t)  PROVE Rest'
  <2> DEFINE g == gen[t]
             q == IF clock = lastTimestamp[g] THEN NextSequence(sequence[g]) ELSE 0
             exhausted == clock = lastTimestamp[g] /\ q = 0
  <2>1. /\ pc[t] = "nextId" /\ clock >= lastTimestamp[g]
        /\ timestamp' = [timestamp EXCEPT ![t] = clock]
        /\ sequence' = [sequence EXCEPT ![g] = q]
        /\ pc' = [pc EXCEPT ![t] = IF exhausted THEN "tilNextMillis" ELSE "return"]
        /\ UNCHANGED <<clock, lastTimestamp, monitor, issued, earlier, unaware>>
    BY <1>3 DEF ReadClock, pastVars
  <2>2. \A o \in Thread : gen[o] = g /\ pc[o] # "app" => o = t
    BY <2>1, Alone
  <2>3. q \in 0..(SequenceMax - 1) /\ (clock = lastTimestamp[g] /\ q # 0 => q = sequence[g] + 1)
    BY Wrap
  <2> HIDE DEF q
  <2>4. \A o \in Thread : Holds(o)'
    BY <1>a, <2>1 DEF Holds
  <2>5. Inside(g)'
    BY <2>1 DEF Inside
  <2>6. \A h \in Generator : h # g => Inside(h)' = Inside(h)
    BY <2>1 DEF Inside
  <2>7. \A i \in issued \cup earlier : i.gen \in Generator /\ i.timestamp \in Nat /\ i.sequence \in Nat
    BY Fields
  <2>8. ASSUME NEW i \in issued  PROVE Counted(i)'
    <3>1. CASE i.gen = g
      BY <1>a, <3>1, <2>1, <2>5, <2>7 DEF Counted
    <3>2. CASE i.gen # g
      BY <1>a, <3>2, <2>1, <2>6, <2>7 DEF Counted
    <3> QED  BY <3>1, <3>2
  <2>9. ASSUME NEW o \in Thread  PROVE Follows(o)'
    <3>1. CASE o = t
      <4> SUFFICES ASSUME ~exhausted
                   PROVE  /\ \A i \in issued : i.gen = g => Less(i, Issued(t))'
                          /\ g \notin unaware =>
                                \A i \in earlier : i.gen = g => i.timestamp < clock
        BY <3>1, <2>1 DEF Follows
      <4>1. ~Inside(g)
        BY <2>1, <2>2 DEF Inside
      <4>2. Issued(t)' = [gen |-> g, timestamp |-> clock, sequence |-> q]
        BY <2>1 DEF Issued
      <4>3. ASSUME NEW i \in issued, i.gen = g  PROVE Less(i, Issued(t))'
        <5>1. i.timestamp < clock \/ (i.timestamp = clock /\ i.sequence < q)
          BY <1>a, <2>1, <2>3, <2>7, <4>1, <4>3 DEF Counted
        <5> QED  BY <4>2, <5>1 DEF Less
      <4>4. ASSUME g \notin unaware, NEW i \in earlier, i.gen = g  PROVE i.timestamp < clock
        BY <1>a, <2>1, <2>7, <4>4 DEF Past
      <4> QED  BY <4>3, <4>4
    <3>2. CASE o # t /\ gen[o] = g
      BY <3>2, <2>1, <2>2 DEF Follows
    <3>3. CASE o # t /\ gen[o] # g
      BY <1>a, <3>3, <2>1, OthersFollow
    <3> QED  BY <3>1, <3>2, <3>3
  <2>10. \A i \in earlier : Past(i)'
    BY <1>a, <2>1 DEF Past
  <2> QED  BY <2>1, <2>4, <2>8, <2>9, <2>10
<1>4. ASSUME NEW t \in Thread, TilNextMillis(t)  PROVE Rest'
  <2> DEFINE g == gen[t]
  <2>1. /\ pc[t] = "tilNextMillis" /\ clock > lastTimestamp[g]
        /\ timestamp' = [timestamp EXCEPT ![t] = clock]
        /\ pc' = [pc EXCEPT ![t] = "return"]
        /\ UNCHANGED <<clock, lastTimestamp, sequence, monitor, issued, earlier, unaware>>
    BY <1>4 DEF TilNextMillis, generatorVars, pastVars
  <2>2. \A o \in Thread : Holds(o)'
    BY <1>a, <2>1 DEF Holds
  <2>3. \A h \in Generator : Inside(h)' = Inside(h)
    BY <2>1 DEF Inside
  <2>4. \A i \in issued \cup earlier : i.gen \in Generator /\ i.timestamp \in Nat /\ i.sequence \in Nat
    BY Fields
  <2>5. \A i \in issued : Counted(i)'
    BY <1>a, <2>1, <2>3, <2>4 DEF Counted
  <2>6. \A i \in earlier : Past(i)'
    BY <1>a, <2>1 DEF Past
  <2>7. ASSUME NEW o \in Thread  PROVE Follows(o)'
    <3>1. CASE o = t
      <4>1. \A i \in issued : i.gen = g => i.timestamp < clock
        BY <1>a, <2>1, <2>4 DEF Counted
      <4>2. g \notin unaware => \A i \in earlier : i.gen = g => i.timestamp < clock
        BY <1>a, <2>1, <2>4 DEF Past
      <4>3. Issued(t)'.timestamp = clock /\ timestamp'[t] = clock
        BY <2>1 DEF Issued
      <4> QED  BY <3>1, <2>1, <4>1, <4>2, <4>3 DEF Follows, Less
    <3>2. CASE o # t
      BY <1>a, <3>2, <2>1, OthersFollow
    <3> QED  BY <3>1, <3>2
  <2> QED  BY <2>1, <2>2, <2>5, <2>6, <2>7
<1>5. ASSUME NEW t \in Thread, Return(t)  PROVE Rest'
  <2> DEFINE g == gen[t]
  <2>1. /\ pc[t] = "return"
        /\ lastTimestamp' = [lastTimestamp EXCEPT ![g] = timestamp[t]]
        /\ issued' = issued \cup {Issued(t)}
        /\ monitor' = [monitor EXCEPT ![g] = NoThread]
        /\ pc' = [pc EXCEPT ![t] = "app"]
        /\ timestamp' = [timestamp EXCEPT ![t] = 0]
        /\ UNCHANGED <<clock, sequence, earlier, unaware>>
    BY <1>5 DEF Return, pastVars
  <2>2. \A o \in Thread : gen[o] = g /\ pc[o] # "app" => o = t
    BY <2>1, Alone
  <2>3. \A o \in Thread : Holds(o)'
    BY <1>a, <2>1, <2>2 DEF Holds
  <2>4. \A h \in Generator : h # g => Inside(h)' = Inside(h)
    BY <2>1 DEF Inside
  <2>5. /\ \A i \in issued \cup earlier : i.gen \in Generator /\ i.timestamp \in Nat /\ i.sequence \in Nat
        /\ Issued(t) = [gen |-> g, timestamp |-> timestamp[t], sequence |-> sequence[g]]
    BY Fields DEF Issued
  <2>6. ASSUME NEW i \in issued'  PROVE Counted(i)'
    <3>1. CASE i = Issued(t)
      BY <3>1, <2>1, <2>5 DEF Counted
    <3>2. CASE i \in issued /\ i.gen = g
      <4>1. Less(i, Issued(t))
        BY <1>a, <3>2, <2>1 DEF Follows
      <4> QED  BY <3>2, <4>1, <2>1, <2>5 DEF Less, Counted
    <3>3. CASE i \in issued /\ i.gen # g
      BY <1>a, <3>3, <2>1, <2>4, <2>5 DEF Counted
    <3> QED  BY <3>1, <3>2, <3>3, <2>1
  <2>7. ASSUME NEW i \in earlier  PROVE Past(i)'
    <3>1. CASE i.gen = g
      <4>1. g \notin unaware => i.timestamp < timestamp[t]
        BY <1>a, <3>1, <2>1 DEF Follows
      <4>2. lastTimestamp'[g] = timestamp[t] /\ timestamp[t] # -1
        BY <2>1
      <4> QED  BY <3>1, <2>1, <4>1, <4>2 DEF Past
    <3>2. CASE i.gen # g
      BY <1>a, <3>2, <2>1, <2>5 DEF Past
    <3> QED  BY <3>1, <3>2
  <2>8. ASSUME NEW o \in Thread  PROVE Follows(o)'
    <3>1. CASE gen[o] = g
      BY <3>1, <2>1, <2>2 DEF Follows
    <3>2. CASE gen[o] # g
      BY <1>a, <3>2, <2>1, <2>5 DEF Follows, Less, Issued
    <3> QED  BY <3>1, <3>2
  <2> QED  BY <2>1, <2>3, <2>6, <2>7, <2>8
<1>6. ASSUME Tick  PROVE Rest'
  <2>1. clock' = clock + 1 /\ UNCHANGED <<generatorVars, monitor, threadVars, issued, pastVars>>
    BY <1>6 DEF Tick
  <2>2. \A t \in Thread : Holds(t)' /\ Follows(t)'
    BY <1>a, <2>1 DEF Holds, Follows, Issued, generatorVars, threadVars, pastVars
  <2>3. \A i \in issued : Counted(i)'
    BY <1>a, <2>1 DEF Counted, Inside, generatorVars, threadVars
  <2>4. \A i \in earlier : Past(i)'
    BY <1>a, <2>1, Fields DEF Past, generatorVars, pastVars
  <2> QED  BY <2>1, <2>2, <2>3, <2>4 DEF pastVars
<1>7. ASSUME SetBack  PROVE Rest'
  <2>1. /\ unaware' = unaware \cup {i.gen : i \in {k \in earlier : lastTimestamp[k.gen] = -1}}
        /\ UNCHANGED <<generatorVars, monitor, threadVars, issued, earlier>>
    BY <1>7 DEF SetBack
  <2>2. \A t \in Thread : Holds(t)' /\ Follows(t)'
    BY <1>a, <2>1 DEF Holds, Follows, Issued, generatorVars, threadVars
  <2>3. \A i \in issued : Counted(i)'
    BY <1>a, <2>1 DEF Counted, Inside, generatorVars, threadVars
  <2>4. ASSUME NEW i \in earlier  PROVE Past(i)'
    <3>1. CASE lastTimestamp[i.gen] = -1
      BY <3>1, <2>1 DEF Past, generatorVars
    <3>2. CASE lastTimestamp[i.gen] # -1
      BY <1>a, <3>2, <2>1 DEF Past, generatorVars
    <3> QED  BY <3>1, <3>2
  <2> QED  BY <2>1, <2>2, <2>3, <2>4
<1>8. ASSUME NEW g \in Generator, Restart(g)  PROVE Rest'
  <2>1. /\ clock' = clock + 1
        /\ lastTimestamp' = [lastTimestamp EXCEPT ![g] = -1]
        /\ sequence' = [sequence EXCEPT ![g] = 0]
        /\ monitor' = [monitor EXCEPT ![g] = NoThread]
        /\ pc' = [t \in Thread |-> IF gen[t] = g THEN "app" ELSE pc[t]]
        /\ timestamp' = [t \in Thread |-> IF gen[t] = g THEN 0 ELSE timestamp[t]]
        /\ earlier' = earlier \cup {i \in issued : i.gen = g}
        /\ issued' = {i \in issued : i.gen # g}
        /\ unaware' = IF clock < lastTimestamp[g] THEN unaware \cup {g} ELSE unaware
    BY <1>8 DEF Restart
  <2>2. \A t \in Thread : Holds(t)'
    BY <1>a, <2>1 DEF Holds
  <2>3. \A h \in Generator : h # g => Inside(h)' = Inside(h)
    BY <2>1 DEF Inside
  <2>4. \A i \in issued \cup earlier : i.gen \in Generator /\ i.timestamp \in Nat /\ i.sequence \in Nat
    BY Fields
  <2>5. ASSUME NEW i \in issued'  PROVE Counted(i)'
    BY <1>a, <2>1, <2>3, <2>4 DEF Counted
  <2>6. ASSUME NEW i \in earlier'  PROVE Past(i)'
    <3>1. CASE i \in issued /\ i.gen = g
      <4>1. i.timestamp <= lastTimestamp[g]
        BY <1>a, <3>1, <2>4 DEF Counted
      <4> QED  BY <3>1, <2>1, <2>4, <4>1 DEF Past
    <3>2. CASE i \in earlier /\ i.gen = g
      <4>1. g \notin unaware' => g \notin unaware /\ lastTimestamp[g] <= clock
        BY <2>1
      <4>2. g \notin unaware' => i.timestamp < clock
        BY <1>a, <3>2, <2>4, <4>1 DEF Past
      <4> QED  BY <3>2, <2>1, <2>4, <4>2 DEF Past
    <3>3. CASE i \in earlier /\ i.gen # g
      BY <1>a, <3>3, <2>1, <2>4 DEF Past
    <3> QED  BY <3>1, <3>2, <3>3, <2>1
  <2>7. ASSUME NEW t \in Thread  PROVE Follows(t)'
    <3>1. CASE gen[t] = g
      BY <3>1, <2>1 DEF Follows
    <3>2. CASE gen[t] # g
      BY <1>a, <3>2, <2>1 DEF Follows, Less, Issued
    <3> QED  BY <3>1, <3>2
  <2> QED  BY <2>2, <2>5, <2>6, <2>7
<1>9. ASSUME UNCHANGED vars  PROVE Rest'
  BY <1>a, <1>9 DEF vars, generatorVars, threadVars, pastVars, boundVars, Holds, Counted, Past, Inside, Follows, Issued
<1>10. Rest'
  BY <1>1, <1>2, <1>3, <1>4, <1>5, <1>6, <1>7, <1>8, <1>9 DEF Next, ThreadStep
<1> QED  BY <1>0, <1>10 DEF Inv

LEMMA InvCorrect == Spec => [](TypeOK /\ Inv)
<1>1. TypeOK /\ Inv /\ [Next]_vars => (TypeOK /\ Inv)'  BY NextType, NextInv
<1> QED  BY InitType, InitInv, <1>1, PTL DEF Spec

-----------------------------------------------------------------------------
(* The words. *)

WordOf(i) == Word(i.gen, i.timestamp, i.sequence)

\* The low bits of a word do not reach the data center.
LEMMA LowBits ==
    ASSUME NEW i \in Identifier
    PROVE  /\ datacenterId[i.gen] \in Nat /\ DatacenterUnit \in Nat
           /\ i.timestamp * TimestampUnit + i.sequence \in Nat
           /\ i.timestamp * TimestampUnit + i.sequence < DatacenterUnit
<1> DEFINE ts == i.timestamp
<1>1. ts \in Nat /\ ts < TimestampRange /\ i.sequence \in Nat /\ i.sequence < TimestampUnit
  BY ClockAssumption, FieldAssumption DEF Identifier
<1>2. TimestampUnit \in Nat /\ TimestampRange \in Nat
  BY FieldAssumption
<1>3. datacenterId[i.gen] \in Nat
  BY DatacenterAssumption, FieldAssumption DEF Identifier
<1> HIDE DEF ts
<1>4. ts * TimestampUnit + TimestampUnit <= TimestampRange * TimestampUnit
  BY <1>1, <1>2, Scale
<1>5. ts * TimestampUnit \in Nat /\ TimestampRange * TimestampUnit \in Nat
  BY <1>1, <1>2
<1>6. DatacenterUnit = TimestampRange * TimestampUnit
  BY <1>2 DEF DatacenterUnit
<1> QED  BY <1>1, <1>2, <1>3, <1>4, <1>5, <1>6 DEF ts

LEMMA LessWord ==
    ASSUME NEW i \in Identifier, NEW j \in Identifier, i.gen = j.gen, Less(i, j)
    PROVE  WordOf(i) < WordOf(j)
<1>1. /\ i.timestamp \in Nat /\ i.sequence \in Nat /\ i.sequence < TimestampUnit
      /\ j.timestamp \in Nat /\ j.sequence \in Nat
      /\ TimestampUnit \in Nat
  BY ClockAssumption, FieldAssumption DEF Identifier
<1>2. i.timestamp * TimestampUnit \in Nat /\ j.timestamp * TimestampUnit \in Nat
  BY <1>1
<1>3. CASE i.timestamp < j.timestamp
  <2>1. i.timestamp * TimestampUnit + TimestampUnit <= j.timestamp * TimestampUnit
    BY <1>1, <1>3, Scale
  <2> QED  BY <1>1, <1>2, <2>1, LowBits DEF WordOf, Word
<1>4. CASE i.timestamp = j.timestamp /\ i.sequence < j.sequence
  BY <1>1, <1>2, <1>4, LowBits DEF WordOf, Word
<1> QED  BY <1>3, <1>4 DEF Less

LEMMA SplitWord ==
    ASSUME NEW i \in Identifier
    PROVE  WordOf(i) = datacenterId[i.gen] * DatacenterUnit + (i.timestamp * TimestampUnit + i.sequence)
<1>1. i.timestamp * TimestampUnit \in Int /\ i.sequence \in Int
  BY ClockAssumption, FieldAssumption DEF Identifier
<1>2. datacenterId[i.gen] * DatacenterUnit \in Int
  BY LowBits
<1> QED  BY <1>1, <1>2 DEF WordOf, Word

\* The words of two data centers lie apart.
LEMMA DatacenterOrder ==
    ASSUME NEW i \in Identifier, NEW j \in Identifier, datacenterId[i.gen] < datacenterId[j.gen]
    PROVE  WordOf(i) < WordOf(j)
<1> DEFINE a == datacenterId[i.gen]
           b == datacenterId[j.gen]
           m == i.timestamp * TimestampUnit + i.sequence
           n == j.timestamp * TimestampUnit + j.sequence
<1>1. a \in Nat /\ b \in Nat /\ a < b /\ DatacenterUnit \in Nat
  BY LowBits
<1>2. m \in Nat /\ m < DatacenterUnit /\ n \in Nat
  BY LowBits
<1>3. WordOf(i) = a * DatacenterUnit + m /\ WordOf(j) = b * DatacenterUnit + n
  BY SplitWord
<1> HIDE DEF a, b, m, n
<1>4. a * DatacenterUnit + DatacenterUnit <= b * DatacenterUnit
  BY <1>1, Scale
<1>5. a * DatacenterUnit \in Nat /\ b * DatacenterUnit \in Nat
  BY <1>1
<1> QED  BY <1>1, <1>2, <1>3, <1>4, <1>5

SignBit == DatacenterHalf * DatacenterUnit

\* A word has 64 bits, and the high bit of the data center is its sign.
LEMMA WordRange ==
    ASSUME NEW i \in Identifier
    PROVE  /\ SignBit \in Nat
           /\ WordOf(i) \in Nat
           /\ WordOf(i) < 2 * SignBit
           /\ WordOf(i) >= SignBit <=> datacenterId[i.gen] >= DatacenterHalf
<1> DEFINE a == datacenterId[i.gen]
           low == i.timestamp * TimestampUnit + i.sequence
<1>1. a \in Nat /\ DatacenterUnit \in Nat /\ low \in Nat /\ low < DatacenterUnit
  BY LowBits
<1>2. DatacenterHalf \in Nat /\ a < 2 * DatacenterHalf
  BY DatacenterAssumption, FieldAssumption DEF Identifier
<1>3. WordOf(i) = a * DatacenterUnit + low
  BY SplitWord
<1> HIDE DEF a, low
<1>4. a * DatacenterUnit \in Nat /\ DatacenterHalf * DatacenterUnit \in Nat
  BY <1>1, <1>2
<1>5. a * DatacenterUnit + DatacenterUnit <= (2 * DatacenterHalf) * DatacenterUnit
  BY <1>1, <1>2, Scale
<1>6. (2 * DatacenterHalf) * DatacenterUnit = 2 * (DatacenterHalf * DatacenterUnit)
  BY <1>1, <1>2
<1>7. a < DatacenterHalf => a * DatacenterUnit + DatacenterUnit <= DatacenterHalf * DatacenterUnit
  BY <1>1, <1>2, Scale
<1>8. a > DatacenterHalf => DatacenterHalf * DatacenterUnit + DatacenterUnit <= a * DatacenterUnit
  BY <1>1, <1>2, Scale
<1>9. /\ SignBit \in Nat /\ WordOf(i) \in Nat /\ WordOf(i) < 2 * SignBit
      /\ WordOf(i) >= SignBit <=> a >= DatacenterHalf
  BY <1>1, <1>2, <1>3, <1>4, <1>5, <1>6, <1>7, <1>8 DEF SignBit
<1> QED  BY <1>9 DEF a

LEMMA IdWord ==
    ASSUME NEW i \in Identifier
    PROVE  IdOf(i) = IF WordOf(i) >= SignBit THEN WordOf(i) - 2 * SignBit ELSE WordOf(i)
<1>1. DatacenterHalf \in Nat /\ DatacenterUnit \in Nat
  BY FieldAssumption, LowBits
<1>2. 2 * DatacenterHalf * DatacenterUnit = 2 * SignBit
  BY <1>1 DEF SignBit
<1> QED  BY <1>2 DEF IdOf, Id, Signed, WordOf, SignBit

LEMMA LessId ==
    ASSUME NEW i \in Identifier, NEW j \in Identifier, i.gen = j.gen, Less(i, j)
    PROVE  IdOf(i) < IdOf(j)
BY LessWord, WordRange, IdWord

LEMMA DistinctDatacenters ==
    ASSUME NEW i \in Identifier, NEW j \in Identifier, datacenterId[i.gen] # datacenterId[j.gen]
    PROVE  IdOf(i) # IdOf(j)
<1>1. datacenterId[i.gen] \in Nat /\ datacenterId[j.gen] \in Nat
  BY LowBits
<1>2. WordOf(i) # WordOf(j)
  BY <1>1, DatacenterOrder, WordRange
<1> QED  BY <1>2, WordRange, IdWord

-----------------------------------------------------------------------------
LEMMA ReturnFollows ==
    ASSUME TypeOK, Inv, NEW t \in Thread, Return(t)
    PROVE  /\ Issued(t) \in Identifier /\ Issued(t).gen = gen[t]
           /\ \A i \in issued : i.gen = gen[t] => IdOf(i) < IdOf(Issued(t))
           /\ gen[t] \notin unaware =>
                 \A i \in earlier : i.gen = gen[t] => IdOf(i) < IdOf(Issued(t))
<1>1. /\ issued \subseteq Identifier /\ earlier \subseteq Identifier
      /\ Issued(t) \in Identifier /\ Issued(t).gen = gen[t]
  BY ThreadAssumption DEF TypeOK, Identifier, Issued
<1>2. pc[t] = "return" /\ Follows(t)
  BY DEF Inv, Return
<1>3. ASSUME NEW i \in issued, i.gen = gen[t]  PROVE IdOf(i) < IdOf(Issued(t))
  <2>1. Less(i, Issued(t))  BY <1>2, <1>3 DEF Follows
  <2> QED  BY <1>1, <1>3, <2>1, LessId
<1>4. ASSUME gen[t] \notin unaware, NEW i \in earlier, i.gen = gen[t]
      PROVE  IdOf(i) < IdOf(Issued(t))
  <2>1. i.timestamp < timestamp[t]  BY <1>2, <1>4 DEF Follows
  <2>2. Less(i, Issued(t))  BY <2>1 DEF Less, Issued
  <2> QED  BY <1>1, <1>4, <2>2, LessId
<1> QED  BY <1>1, <1>3, <1>4

\* The identifiers a generator returns increase, whatever its threads and the clock
\* do (nextId), and go on increasing after a restart, unless the new generator could
\* not know that the clock was set back (lastTimestamp is not stored).
THEOREM IdsIncrease == Spec => Increasing
<1>1. TypeOK /\ Inv /\ [Next]_vars =>
        [\A t \in Thread : Return(t) =>
            /\ \A i \in issued : i.gen = gen[t] => IdOf(i) < IdOf(Issued(t))
            /\ gen[t] \notin unaware =>
                  \A i \in earlier : i.gen = gen[t] => IdOf(i) < IdOf(Issued(t))]_vars
  BY ReturnFollows
<1> QED  BY <1>1, InvCorrect, PTL DEF Spec, Increasing

DistinctIds == \A g, h \in Generator : datacenterId[g] = datacenterId[h] => g = h

LEMMA ReturnDiffers ==
    ASSUME DistinctIds, TypeOK, Inv, NEW t \in Thread, Return(t), NEW i \in issued \cup earlier,
           IdOf(i) = IdOf(Issued(t))
    PROVE  i \in earlier /\ i.gen = gen[t] /\ gen[t] \in unaware
<1>1. i \in Identifier /\ Issued(t) \in Identifier /\ Issued(t).gen = gen[t]
  BY ReturnFollows DEF TypeOK
<1>2. IdOf(i) \in Int
  BY <1>1, IdWord, WordRange
<1>3. i.gen = gen[t]
  <2>1. i.gen \in Generator /\ gen[t] \in Generator
    BY <1>1, ThreadAssumption DEF Identifier
  <2>2. datacenterId[i.gen] = datacenterId[Issued(t).gen]
    BY <1>1, DistinctDatacenters
  <2> QED  BY <1>1, <2>1, <2>2 DEF DistinctIds
<1>4. ~(IdOf(i) < IdOf(Issued(t)))
  BY <1>2
<1> QED  BY <1>3, <1>4, ReturnFollows

\* JVMs with distinct data center ids never return the same identifier twice
\* ("Generate unique IDs"), through any restarts and set-backs of the clock, but for
\* a generator that restarted and could not know that the clock was set back.
THEOREM IdsUnique ==
    ASSUME DistinctIds
    PROVE  Spec => Unique
<1>1. TypeOK /\ Inv /\ [Next]_vars =>
        [\A t \in Thread : Return(t) =>
            /\ \A i \in issued : IdOf(i) # IdOf(Issued(t))
            /\ \A i \in earlier :
                  IdOf(i) = IdOf(Issued(t)) => i.gen = gen[t] /\ gen[t] \in unaware]_vars
  <2> SUFFICES ASSUME TypeOK, Inv, NEW t \in Thread, Return(t)
               PROVE  /\ \A i \in issued : IdOf(i) # IdOf(Issued(t))
                      /\ \A i \in earlier :
                            IdOf(i) = IdOf(Issued(t)) => i.gen = gen[t] /\ gen[t] \in unaware
    OBVIOUS
  <2>1. ASSUME NEW i \in issued, IdOf(i) = IdOf(Issued(t))  PROVE FALSE
    <3>1. i \in Identifier /\ Issued(t) \in Identifier /\ i.gen = gen[t]
      BY <2>1, ReturnDiffers, ReturnFollows DEF TypeOK
    <3>2. IdOf(i) < IdOf(Issued(t)) /\ IdOf(i) \in Int
      BY <3>1, ReturnFollows, IdWord, WordRange
    <3> QED  BY <2>1, <3>2
  <2>2. ASSUME NEW i \in earlier, IdOf(i) = IdOf(Issued(t))
        PROVE  i.gen = gen[t] /\ gen[t] \in unaware
    BY <2>2, ReturnDiffers
  <2> QED  BY <2>1, <2>2
<1> QED  BY <1>1, InvCorrect, PTL DEF Spec, Unique

\* A clock that is never set back is all that uniqueness needs, across any restarts.
THEOREM SteadyClockUnique ==
    ASSUME DistinctIds, MaxBack = 0
    PROVE  Spec => NeverTwice
<1>1. TypeOK /\ Inv /\ [Next]_vars =>
        [\A t \in Thread : Return(t) =>
            \A i \in issued \cup earlier : IdOf(i) # IdOf(Issued(t))]_vars
  <2> SUFFICES ASSUME TypeOK, Inv, NEW t \in Thread, Return(t), NEW i \in issued \cup earlier,
                      IdOf(i) = IdOf(Issued(t))
               PROVE  FALSE
    OBVIOUS
  <2>1. unaware = {}
    BY DEF TypeOK, Inv, Steady
  <2> QED  BY <2>1, ReturnDiffers
<1> QED  BY <1>1, InvCorrect, PTL DEF Spec, NeverTwice

\* An identifier is a positive long exactly when the data center id of its
\* generator leaves the sign bit clear: "64 bit positive longs" holds for half
\* of the machines only.
THEOREM PositiveHalfCorrect == Spec => []PositiveHalf
<1>1. ASSUME NEW i \in Identifier
      PROVE  IdOf(i) >= 0 <=> datacenterId[i.gen] < DatacenterHalf
  <2>1. datacenterId[i.gen] \in Nat /\ DatacenterHalf \in Nat
    BY LowBits, FieldAssumption
  <2> QED  BY <2>1, WordRange, IdWord
<1>2. TypeOK => PositiveHalf
  BY <1>1 DEF TypeOK, PositiveHalf
<1> QED  BY <1>2, InvCorrect, PTL
=============================================================================
