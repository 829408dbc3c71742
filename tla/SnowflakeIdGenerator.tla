-------------------------- MODULE SnowflakeIdGenerator --------------------------
(***************************************************************************)
(* nextId() of SnowflakeIdGenerator: the threads of the application, one   *)
(* generator per JVM, its monitor (nextId is synchronized), the wall clock *)
(* that may be set back, and JVM restarts, which forget lastTimestamp.     *)
(*                                                                         *)
(* An identifier is a word of three fields: the data center in the high    *)
(* bits, sign bit included, the timestamp, the sequence.  In the code      *)
(* SequenceMax = 2^12, TimestampUnit = 2^13, TimestampRange = 2^41 and     *)
(* DatacenterHalf = 2^9.  Time counts from twepoch.                        *)
(***************************************************************************)
EXTENDS Integers

CONSTANTS
    Generator,        \* one per JVM that writes to the graph
    Thread,
    gen,              \* gen[t], the generator of the JVM of thread t
    NoThread,         \* a free monitor
    datacenterId,     \* datacenterId[g], from the hardware address of its machine
    SequenceMax,      \* identifiers per millisecond
    TimestampUnit,    \* 2^timestampLeftShift
    TimestampRange,   \* 2^timestampBits
    DatacenterHalf,   \* half of maxDatacenterId + 1: the ids with the high bit clear
    MaxClock,         \* bound: the last millisecond
    MaxBack,          \* bound: how often the clock is set back
    MaxRestart        \* bound: how often a JVM restarts

ASSUME FieldAssumption ==
    /\ SequenceMax \in Nat \ {0} /\ TimestampUnit \in Nat /\ SequenceMax <= TimestampUnit
    /\ TimestampRange \in Nat \ {0}
    /\ DatacenterHalf \in Nat \ {0}
ASSUME DatacenterAssumption == datacenterId \in [Generator -> 0..(2 * DatacenterHalf - 1)]
ASSUME ClockAssumption == MaxClock \in Nat /\ MaxClock < TimestampRange
ASSUME BoundAssumption == MaxBack \in Nat /\ MaxRestart \in Nat
ASSUME ThreadAssumption == gen \in [Thread -> Generator] /\ NoThread \notin Thread

VARIABLES
    clock,          \* System.currentTimeMillis()
    lastTimestamp, sequence,  \* of each generator
    monitor,        \* the thread inside nextId() of a generator, or NoThread
    pc,             \* where a thread is
    timestamp,      \* the local variable of nextId(), 0 outside it
    issued,         \* history: the identifiers returned since the last restart of
    earlier,        \* their generator, and those returned before it
    unaware,        \* history: the generators that cannot know of a set-back
    backs, restarts

generatorVars == <<lastTimestamp, sequence>>
threadVars == <<pc, timestamp>>
pastVars == <<earlier, unaware>>
boundVars == <<backs, restarts>>
vars == <<clock, generatorVars, monitor, threadVars, issued, pastVars, boundVars>>

Init ==
    /\ clock = 0
    /\ lastTimestamp = [g \in Generator |-> -1]
    /\ sequence = [g \in Generator |-> 0]
    /\ monitor = [g \in Generator |-> NoThread]
    /\ pc = [t \in Thread |-> "app"]
    /\ timestamp = [t \in Thread |-> 0]
    /\ issued = {} /\ earlier = {}
    /\ unaware = {}
    /\ backs = 0
    /\ restarts = 0

-----------------------------------------------------------------------------
DatacenterUnit == TimestampUnit * TimestampRange

\* A word as a Java long: the upper half of the range is negative.
Signed(w) ==
    IF w >= DatacenterHalf * DatacenterUnit THEN w - 2 * DatacenterHalf * DatacenterUnit ELSE w

\* The word nextId() composes.  No two fields overlap (FieldAssumption,
\* ClockAssumption), so "|" is "+".  (The variant is the layout of Twitter's
\* generator: the timestamp first.)
WordTimestampFirst(g, ts, seq) ==
    ts * 2 * DatacenterHalf * TimestampUnit + datacenterId[g] * TimestampUnit + seq
Word(g, ts, seq) == datacenterId[g] * DatacenterUnit + ts * TimestampUnit + seq
Id(g, ts, seq) == Signed(Word(g, ts, seq))

-----------------------------------------------------------------------------
\* A thread calls nextId() and gets the monitor.  (The variant is nextId()
\* without synchronized.)
EnterUnsynchronized(t) ==
    /\ pc[t] = "app"
    /\ monitor' = [monitor EXCEPT ![gen[t]] = t]
    /\ pc' = [pc EXCEPT ![t] = "nextId"]
    /\ UNCHANGED <<clock, generatorVars, timestamp, issued, pastVars, boundVars>>
Enter(t) ==
    /\ pc[t] = "app"
    /\ monitor[gen[t]] = NoThread
    /\ monitor' = [monitor EXCEPT ![gen[t]] = t]
    /\ pc' = [pc EXCEPT ![t] = "nextId"]
    /\ UNCHANGED <<clock, generatorVars, timestamp, issued, pastVars, boundVars>>

\* The clock went backwards: IllegalArgumentException.
Refuse(t) ==
    /\ pc[t] = "nextId"
    /\ clock < lastTimestamp[gen[t]]
    /\ pc' = [pc EXCEPT ![t] = "app"]
    /\ monitor' = [monitor EXCEPT ![gen[t]] = NoThread]
    /\ UNCHANGED <<clock, generatorVars, timestamp, issued, pastVars, boundVars>>

NextSequenceUnbounded(q) == q + 1
NextSequence(q) == (q + 1) % SequenceMax

\* The clock is read and the sequence advances; a sequence that wraps around
\* sends the thread into tilNextMillis().
ReadClock(t) ==
    LET g == gen[t]
        q == IF clock = lastTimestamp[g] THEN NextSequence(sequence[g]) ELSE 0
        exhausted == clock = lastTimestamp[g] /\ q = 0
    IN
    /\ pc[t] = "nextId"
    /\ clock >= lastTimestamp[g]
    /\ timestamp' = [timestamp EXCEPT ![t] = clock]
    /\ sequence' = [sequence EXCEPT ![g] = q]
    /\ pc' = [pc EXCEPT ![t] = IF exhausted THEN "tilNextMillis" ELSE "return"]
    /\ UNCHANGED <<clock, lastTimestamp, monitor, issued, pastVars, boundVars>>

\* The busy wait ends when the clock has passed lastTimestamp.
\* (The variants end it in the same millisecond, or never read the clock again.)
TilNextMillisEarly(t) ==
    /\ pc[t] = "tilNextMillis"
    /\ clock >= lastTimestamp[gen[t]]
    /\ timestamp' = [timestamp EXCEPT ![t] = clock]
    /\ pc' = [pc EXCEPT ![t] = "return"]
    /\ UNCHANGED <<clock, generatorVars, monitor, issued, pastVars, boundVars>>
TilNextMillisStale(t) ==
    /\ pc[t] = "tilNextMillis"
    /\ timestamp[t] > lastTimestamp[gen[t]]
    /\ pc' = [pc EXCEPT ![t] = "return"]
    /\ UNCHANGED <<clock, generatorVars, monitor, timestamp, issued, pastVars, boundVars>>
TilNextMillis(t) ==
    /\ pc[t] = "tilNextMillis"
    /\ clock > lastTimestamp[gen[t]]
    /\ timestamp' = [timestamp EXCEPT ![t] = clock]
    /\ pc' = [pc EXCEPT ![t] = "return"]
    /\ UNCHANGED <<clock, generatorVars, monitor, issued, pastVars, boundVars>>

Issued(t) == [gen |-> gen[t], timestamp |-> timestamp[t], sequence |-> sequence[gen[t]]]

\* lastTimestamp is set, the monitor is released and the identifier returned.
Return(t) ==
    /\ pc[t] = "return"
    /\ lastTimestamp' = [lastTimestamp EXCEPT ![gen[t]] = timestamp[t]]
    /\ issued' = issued \cup {Issued(t)}
    /\ monitor' = [monitor EXCEPT ![gen[t]] = NoThread]
    /\ pc' = [pc EXCEPT ![t] = "app"]
    /\ timestamp' = [timestamp EXCEPT ![t] = 0]
    /\ UNCHANGED <<clock, sequence, pastVars, boundVars>>

-----------------------------------------------------------------------------
\* The environment.

Tick ==
    /\ clock < MaxClock
    /\ clock' = clock + 1
    /\ UNCHANGED <<generatorVars, monitor, threadVars, issued, pastVars, boundVars>>

\* The clock is set back, to any time.  A generator that has returned identifiers
\* since its last restart finds out in nextId(); one that has not, and whose past
\* lives have, compares with lastTimestamp = -1.
SetBack ==
    /\ backs < MaxBack
    /\ \E c \in 0..(clock - 1) : clock' = c
    /\ unaware' = unaware \cup {i.gen : i \in {k \in earlier : lastTimestamp[k.gen] = -1}}
    /\ backs' = backs + 1
    /\ UNCHANGED <<generatorVars, monitor, threadVars, issued, earlier, restarts>>

\* The JVM of g restarts, which takes a millisecond or more: the threads in it are
\* gone, and a new generator starts from lastTimestamp = -1 whatever the clock says.
\* It cannot know if the clock has yet to catch up with the identifiers of the old one.
Restart(g) ==
    /\ restarts < MaxRestart
    /\ clock < MaxClock
    /\ clock' = clock + 1
    /\ lastTimestamp' = [lastTimestamp EXCEPT ![g] = -1]
    /\ sequence' = [sequence EXCEPT ![g] = 0]
    /\ monitor' = [monitor EXCEPT ![g] = NoThread]
    /\ pc' = [t \in Thread |-> IF gen[t] = g THEN "app" ELSE pc[t]]
    /\ timestamp' = [t \in Thread |-> IF gen[t] = g THEN 0 ELSE timestamp[t]]
    /\ earlier' = earlier \cup {i \in issued : i.gen = g}
    /\ issued' = {i \in issued : i.gen # g}
    /\ unaware' = IF clock < lastTimestamp[g] THEN unaware \cup {g} ELSE unaware
    /\ restarts' = restarts + 1
    /\ UNCHANGED backs

-----------------------------------------------------------------------------
ThreadStep(t) ==
    \/ Enter(t) \/ Refuse(t) \/ ReadClock(t) \/ TilNextMillis(t) \/ Return(t)

Next ==
    \/ \E t \in Thread : ThreadStep(t)
    \/ Tick \/ SetBack
    \/ \E g \in Generator : Restart(g)

Spec == Init /\ [][Next]_vars

\* Time passes, and a thread inside nextId() keeps running.
FairSpec ==
    /\ Spec
    /\ WF_vars(Tick)
    /\ \A t \in Thread : WF_vars(Refuse(t) \/ ReadClock(t) \/ TilNextMillis(t) \/ Return(t))

-----------------------------------------------------------------------------
Identifier == [gen : Generator, timestamp : 0..MaxClock, sequence : 0..(SequenceMax - 1)]

TypeOK ==
    /\ clock \in 0..MaxClock
    /\ lastTimestamp \in [Generator -> -1..MaxClock]
    /\ sequence \in [Generator -> 0..(SequenceMax - 1)]
    /\ monitor \in [Generator -> Thread \cup {NoThread}]
    /\ pc \in [Thread -> {"app", "nextId", "tilNextMillis", "return"}]
    /\ timestamp \in [Thread -> 0..MaxClock]
    /\ issued \subseteq Identifier /\ earlier \subseteq Identifier
    /\ unaware \subseteq Generator
    /\ backs \in 0..MaxBack /\ restarts \in 0..MaxRestart

IdOf(i) == Id(i.gen, i.timestamp, i.sequence)

\* The identifiers of one generator increase: an identifier tells which of two
\* nodes was created first.  Within one life of the generator, whatever the clock
\* does; across restarts, unless the clock was set back behind its back.
Increasing ==
    [][\A t \in Thread : Return(t) =>
          /\ \A i \in issued : i.gen = gen[t] => IdOf(i) < IdOf(Issued(t))
          /\ gen[t] \notin unaware =>
                \A i \in earlier : i.gen = gen[t] => IdOf(i) < IdOf(Issued(t))]_vars

\* No identifier is returned twice, by any thread of any JVM, as long as the data
\* center ids are distinct: only a generator that restarted, and could not know that
\* the clock had been set back, may return one of its own past lives.
Unique ==
    [][\A t \in Thread : Return(t) =>
          /\ \A i \in issued : IdOf(i) # IdOf(Issued(t))
          /\ \A i \in earlier :
                IdOf(i) = IdOf(Issued(t)) => i.gen = gen[t] /\ gen[t] \in unaware]_vars

\* "Generate unique IDs", without exception.
NeverTwice ==
    [][\A t \in Thread : Return(t) =>
          \A i \in issued \cup earlier : IdOf(i) # IdOf(Issued(t))]_vars

\* A thread that is inside nextId(), its monitor held, leaves it: one that has
\* used up the identifiers of a millisecond does not spin for ever.  (As long as
\* the bounded clock has time left.)
NextIdEnds ==
    \A t \in Thread :
        pc[t] # "app" /\ lastTimestamp[gen[t]] < MaxClock ~> pc[t] = "app"

\* The machines whose data center id has its high bit clear return positive
\* identifiers, the other half of the machines negative ones: the comment ("Snowflake
\* IDs are 64 bit positive longs") holds for the former only.
PositiveHalf ==
    \A i \in issued \cup earlier : IdOf(i) >= 0 <=> datacenterId[i.gen] < DatacenterHalf
=============================================================================
