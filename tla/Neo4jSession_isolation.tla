----------------------- MODULE Neo4jSession_isolation -----------------------
(***************************************************************************)
(* Isolation and atomicity of units of work that do not nest, for every    *)
(* number of sessions, nodes and modifications.  What a unit modifies is   *)
(* held by its session alone until the unit commits, whatever becomes of   *)
(* the instances after an exception or a rollback; when it rolls back,     *)
(* and the application drops its instances, nobody holds it any more.      *)
(***************************************************************************)
EXTENDS Neo4jSession_locking

\* The committed graph contains modification t.
Stored(t) == \E n \in Node : t \in store[n].val

\* Session s holds t, in an uncommitted row or in an instance.
Held(s, t) == \E n \in Node : (Wrote(s, n) /\ t \in own[s][n].val) \/ t \in inst[s][n].val

\* What was rolled back is nowhere any more.
DoomedGone == \A t \in doomed : ~Stored(t) /\ \A s \in Session : ~Held(s, t)

\* What an open unit has done is known to its session only.
UnitAlone(s) ==
    \A t \in unit[s] :
        /\ ~Stored(t) /\ t \notin doomed
        /\ \A o \in Session \ {s} : ~Held(o, t) /\ t \notin unit[o]

\* Inside a unit there is a transaction, outside it there is no history.
UnitHasTx(s) ==
    /\ stack[s] = <<>> => unit[s] = {}
    /\ stack[s] # <<>> => Active(s)

IsoInv == (~Reuse => DoomedGone) /\ \A s \in Session : UnitAlone(s) /\ UnitHasTx(s)

LEMMA IsoInit == Init => IsoInv
BY DEF Init, IsoInv, DoomedGone, UnitAlone, UnitHasTx

LEMMA UsedHas ==
    ASSUME NEW t, NEW s \in Session, t \in doomed \/ Stored(t) \/ Held(s, t) \/ t \in unit[s]
    PROVE  t \in Used
<1>1. \/ t \in doomed
      \/ \E n \in Node : t \in store[n].val
      \/ t \in unit[s]
      \/ \E n \in Node : t \in inst[s][n].val
      \/ \E n \in Node : t \in IF own[s][n] = NoRow THEN {} ELSE own[s][n].val
  BY DEF Stored, Held, Wrote
<1> QED BY <1>1 DEF Used

-----------------------------------------------------------------------------
(***************************************************************************)
(* Where the modifications in a row or an instance of node n come from in  *)
(* a step of s, and what the step does to the history.                     *)
(***************************************************************************)

Sources(s, n) == inst[s][n].val \cup Visible(s, n).val

RowFlow(s, n) ==
    /\ \A t \in inst'[s][n].val : t \in Sources(s, n) \/ t \notin Used
    /\ own'[s][n] # NoRow => own'[s][n].val \subseteq Sources(s, n)
    /\ store'[n] = store[n] \/ (store'[n].val \subseteq Sources(s, n) /\ unit'[s] = {})

Forgotten(s) == store' = store /\ own'[s] = NoWrites /\ inst'[s] = NoInstances

UnitFlow(s) ==
    /\ \A t \in unit'[s] : t \in unit[s] \/ t \notin Used
    /\ \A o \in Session \ {s} : unit'[o] = unit[o]
    /\ \/ doomed' = doomed
       \/ doomed' = doomed \cup unit[s] /\ unit'[s] = {} /\ (~Reuse => Forgotten(s))
    /\ UnitHasTx(s)'

Flow(s) == UnitFlow(s) /\ \A n \in Node : RowFlow(s, n)

LEMMA SourcesKnown ==
    ASSUME NEW s \in Session, NEW n \in Node, NEW t \in Sources(s, n)
    PROVE  Held(s, t) \/ Stored(t)
BY DEF Sources, Visible, Held, Stored, Wrote

\* Such a step keeps the invariant.
LEMMA FlowKeeps ==
    ASSUME IsoInv, NEW s \in Session, Flow(s), \A o \in Session \ {s} : Same(o)
    PROVE  IsoInv'
<1>1. ASSUME NEW t, Held(s, t)' PROVE Held(s, t) \/ Stored(t) \/ t \notin Used
  <2>1. PICK n \in Node : (own'[s][n] # NoRow /\ t \in own'[s][n].val) \/ t \in inst'[s][n].val
    BY <1>1 DEF Held, Wrote
  <2>2. t \in Sources(s, n) \/ t \notin Used BY <2>1 DEF Flow, RowFlow
  <2> QED BY <2>2, SourcesKnown
<1>2. ASSUME NEW t, Stored(t)' PROVE Stored(t) \/ (Held(s, t) /\ unit'[s] = {})
  <2>1. PICK n \in Node : t \in store'[n].val BY <1>2 DEF Stored
  <2>2. CASE store'[n] = store[n] BY <2>1, <2>2 DEF Stored
  <2>3. CASE store'[n] # store[n]
    <3>1. t \in Sources(s, n) /\ unit'[s] = {} BY <2>1, <2>3 DEF Flow, RowFlow
    <3> QED BY <3>1, SourcesKnown
  <2> QED BY <2>2, <2>3
<1>3. ASSUME NEW o \in Session \ {s}, NEW t PROVE Held(o, t)' <=> Held(o, t)
  BY DEF Held, Wrote, Same
<1>4. UnitFlow(s) BY DEF Flow
<1>5. ~Reuse => DoomedGone'
  <2> SUFFICES ASSUME ~Reuse, NEW t \in doomed'
               PROVE  ~Stored(t)' /\ \A o \in Session : ~Held(o, t)'
    BY DEF DoomedGone
  <2>1. CASE t \in doomed
    <3>1. ~Stored(t) /\ \A o \in Session : ~Held(o, t)
      BY <2>1 DEF IsoInv, DoomedGone
    <3>2. t \in Used BY <2>1, UsedHas
    <3> QED BY <1>1, <1>2, <1>3, <3>1, <3>2
  <2>2. CASE t \notin doomed
    <3>1. t \in unit[s] /\ Forgotten(s) BY <1>4, <2>2 DEF UnitFlow
    <3>2. ~Stored(t) /\ \A o \in Session \ {s} : ~Held(o, t)
      BY <3>1 DEF IsoInv, UnitAlone
    <3>3. ~Stored(t)' BY <3>1, <3>2 DEF Stored, Forgotten
    <3>4. ~Held(s, t)'
      BY <3>1 DEF Held, Wrote, Forgotten, NoWrites, NoInstances, NoInstance
    <3> QED BY <1>3, <3>2, <3>3, <3>4
  <2> QED BY <2>1, <2>2
<1>6. ASSUME NEW p \in Session PROVE UnitAlone(p)'
  <2> SUFFICES ASSUME NEW t \in unit'[p]
               PROVE  /\ ~Stored(t)' /\ t \notin doomed'
                      /\ \A o \in Session \ {p} : ~Held(o, t)' /\ t \notin unit'[o]
    BY DEF UnitAlone
  <2>1. CASE p = s
    <3>1. doomed' = doomed BY <1>4, <2>1 DEF UnitFlow
    <3>2. CASE t \in unit[s]
      <4>1. /\ ~Stored(t) /\ t \notin doomed
            /\ \A o \in Session \ {s} : ~Held(o, t) /\ t \notin unit[o]
        BY <3>2 DEF IsoInv, UnitAlone
      <4> QED BY <1>2, <1>3, <1>4, <2>1, <3>1, <4>1 DEF UnitFlow
    <3>3. CASE t \notin unit[s]
      <4>1. t \notin Used BY <1>4, <2>1, <3>3 DEF UnitFlow
      <4>2. /\ ~Stored(t) /\ t \notin doomed
            /\ \A o \in Session \ {s} : ~Held(o, t) /\ t \notin unit[o]
        BY <4>1, UsedHas
      <4> QED BY <1>2, <1>3, <1>4, <2>1, <3>1, <4>2 DEF UnitFlow
    <3> QED BY <3>2, <3>3
  <2>2. CASE p # s
    <3>1. t \in unit[p] BY <1>4, <2>2 DEF UnitFlow
    <3>2. /\ ~Stored(t) /\ t \notin doomed
          /\ \A o \in Session \ {p} : ~Held(o, t) /\ t \notin unit[o]
      BY <3>1 DEF IsoInv, UnitAlone
    <3>3. t \in Used BY <3>1, UsedHas
    <3>4. ~Stored(t)' BY <1>2, <2>2, <3>2
    <3>5. t \notin doomed' BY <1>4, <2>2, <3>2 DEF UnitFlow
    <3>6. ASSUME NEW o \in Session \ {p} PROVE ~Held(o, t)' /\ t \notin unit'[o]
      <4>1. CASE o = s BY <1>1, <1>4, <3>2, <3>3, <4>1 DEF UnitFlow
      <4>2. CASE o # s BY <1>3, <1>4, <3>2, <4>2 DEF UnitFlow
      <4> QED BY <4>1, <4>2
    <3> QED BY <3>4, <3>5, <3>6
  <2> QED BY <2>1, <2>2
<1>7. ASSUME NEW p \in Session PROVE UnitHasTx(p)'
  <2>1. CASE p = s BY <1>4, <2>1 DEF UnitFlow
  <2>2. CASE p # s
    BY <1>4, <2>2 DEF IsoInv, UnitHasTx, UnitFlow, Same, Active
  <2> QED BY <2>1, <2>2
<1> QED BY <1>5, <1>6, <1>7 DEF IsoInv

-----------------------------------------------------------------------------
(* The kinds of steps.                                                      *)

\* Rows and instances stay.
LEMMA RowsStay ==
    ASSUME NEW s \in Session, store' = store, own'[s] = own[s], inst'[s] = inst[s]
    PROVE  \A n \in Node : RowFlow(s, n)
BY DEF RowFlow, Sources, Visible

\* The session drops its instances, the native transaction may end.
LEMMA RowsDropped ==
    ASSUME NEW s \in Session, store' = store, own'[s] = own[s] \/ own'[s] = NoWrites,
           inst'[s] = NoInstances
    PROVE  \A n \in Node : RowFlow(s, n)
BY DEF RowFlow, Sources, Visible, NoInstances, NoInstance, NoWrites

\* The units of work stay as they are.
LEMMA UnitStays ==
    ASSUME IsoInv, NEW s \in Session, unit' = unit, doomed' = doomed, stack' = stack,
           tx'[s] = tx[s] \/ tx'[s] \in {"default", "active", "readonly"} \/ stack[s] = <<>>
    PROVE  UnitFlow(s)
BY DEF UnitFlow, UnitHasTx, IsoInv, Active

\* A unit that ends is the outermost one.
LEMMA UnitEnds ==
    ASSUME TypeOK, Shallow, NEW s \in Session, NEW r \in BOOLEAN, stack[s] # <<>>,
           PopUnit(s), EndHistory(s, r)
    PROVE  /\ stack'[s] = <<>> /\ unit'[s] = {}
           /\ \A o \in Session \ {s} : unit'[o] = unit[o]
           /\ doomed' = IF r THEN doomed \cup unit[s] ELSE doomed
<1>1. stack[s] \in Seq({"owner", "joined"}) BY DEF TypeOK
<1>2. Len(stack[s]) \in Nat /\ Len(stack[s]) # 0 BY <1>1, EmptySeq
<1>3. Len(stack[s]) <= 1 BY DEF Shallow
<1>4. \A l \in Nat : l # 0 /\ l <= 1 => l = 1 OBVIOUS
<1>5. Last(s) BY <1>2, <1>3, <1>4 DEF Last
<1>6. stack'[s] = <<>> BY <1>5, PopStack DEF Last
<1> QED BY <1>5, <1>6 DEF EndHistory, TypeOK

LEMMA RollbackFlow ==
    ASSUME TypeOK, Shallow, OneLevel, NEW s \in Session, stack[s] # <<>>,
           NEW i \in [Session -> [Node -> Instance]],
           \A n \in Node : i[s][n].val = inst[s][n].val,
           RollbackOwner(s, i)
    PROVE  Flow(s)
<1>1. store' = store /\ own'[s] = NoWrites /\ inst'[s] \in {i[s], NoInstances}
  BY DEF RollbackOwner, NativeRollback, ClearSession, TypeOK
<1>2. ~Reuse => Forgotten(s)
  BY <1>1 DEF RollbackOwner, NativeRollback, ClearSession, TypeOK, Forgotten
<1>3. /\ stack'[s] = <<>> /\ unit'[s] = {}
      /\ \A o \in Session \ {s} : unit'[o] = unit[o]
      /\ doomed' = doomed \cup unit[s]
  BY UnitEnds DEF RollbackOwner
<1>4. UnitFlow(s) BY <1>2, <1>3 DEF UnitFlow, UnitHasTx
<1>5. ASSUME NEW n \in Node PROVE RowFlow(s, n)
  <2>1. inst'[s][n].val = inst[s][n].val \/ inst'[s][n].val = {}
    BY <1>1 DEF NoInstances, NoInstance
  <2> QED BY <1>1, <2>1 DEF RowFlow, Sources, NoWrites
<1> QED BY <1>4, <1>5 DEF Flow

LEMMA CommitFlow ==
    ASSUME TypeOK, Shallow, OneLevel, NEW s \in Session, stack[s] # <<>>, Commit(s)
    PROVE  Flow(s)
<1>1. /\ stack'[s] = <<>> /\ unit'[s] = {}
      /\ \A o \in Session \ {s} : unit'[o] = unit[o]
      /\ doomed' = doomed
  BY UnitEnds DEF Commit
<1>2. UnitFlow(s) BY <1>1 DEF UnitFlow, UnitHasTx
<1>3. ASSUME NEW n \in Node PROVE RowFlow(s, n)
  <2>1. store'[n] = Visible(s, n) /\ own'[s][n] = NoRow
    BY DEF Commit, Committed, NoWrites, TypeOK
  <2>2. inst'[s][n] = inst[s][n] \/ inst'[s][n].val = {}
    BY DEF Commit, EndSession, ClearSession, cacheVars, TypeOK, NoInstances, NoInstance
  <2> QED BY <1>1, <2>1, <2>2 DEF RowFlow, Sources
<1> QED BY <1>2, <1>3 DEF Flow

LEMMA UnitStepFlow ==
    ASSUME TypeOK, LifeInv, Shallow, OneLevel, IsoInv, NEW s \in Session, UnitStep(s)
    PROVE  Flow(s)
<1>1. ASSUME NEW mode \in Mode, Begin(s, mode) PROVE Flow(s)
  <2>1. \A n \in Node : RowFlow(s, n)
    BY <1>1, RowsStay DEF Begin, dbVars, cacheVars
  <2>2. Active(s)'
    BY <1>1, TxModeAssumption
    DEF Begin, isExistingTransaction, beginTransaction, Active, TypeOK
  <2>3. stack'[s] # <<>>
    <3>1. PICK w \in {"owner", "joined"} : stack' = [stack EXCEPT ![s] = Append(@, w)]
      BY <1>1 DEF Begin
    <3>2. stack[s] \in Seq({"owner", "joined"}) BY DEF TypeOK
    <3>3. stack'[s] = Append(stack[s], w) BY <3>1 DEF TypeOK
    <3> QED BY <3>2, <3>3, AppendProperties
  <2>4. UnitFlow(s) BY <1>1, <2>2, <2>3 DEF Begin, ghostVars, UnitFlow, UnitHasTx
  <2> QED BY <2>1, <2>4 DEF Flow
<1>2. ASSUME EndRollback(s) PROVE Flow(s)
  BY <1>2, RollbackFlow DEF EndRollback, TypeOK
<1>3. ~EndRollbackJoined(s) /\ ~EndCommitJoined(s)
  BY OnlyOwners DEF EndRollbackJoined, EndCommitJoined
<1>4. ASSUME EndCommit(s) PROVE Flow(s)
  BY <1>4, RowsStay, UnitStays
  DEF EndCommit, StartFlush, dbVars, txVars, cacheVars, ghostVars, Flow
<1>5. ASSUME CommitUnflushed(s) PROVE Flow(s)
  <2>1. /\ stack'[s] = <<>> /\ unit'[s] = {}
        /\ \A o \in Session \ {s} : unit'[o] = unit[o]
        /\ doomed' = doomed
    BY <1>5, UnitEnds DEF CommitUnflushed
  <2>2. UnitFlow(s) BY <2>1 DEF UnitFlow, UnitHasTx
  <2>3. inst'[s] = inst[s] \/ inst'[s] = NoInstances
    BY <1>5 DEF CommitUnflushed, EndSession, ClearSession, cacheVars, TypeOK
  <2> QED BY <1>5, <2>2, <2>3, RowsStay, RowsDropped DEF CommitUnflushed, dbVars, Flow
<1>6. ASSUME Commit(s) PROVE Flow(s)
  <2>1. stack[s] # <<>> BY <1>6 DEF Commit, LifeInv, Life
  <2> QED BY <1>6, <2>1, CommitFlow
<1> QED BY <1>1, <1>2, <1>3, <1>4, <1>5, <1>6 DEF UnitStep

-----------------------------------------------------------------------------
(* The statements of flush().                                               *)

LEMMA RaiseFlow ==
    ASSUME TypeOK, LifeInv, Shallow, OneLevel, IsoInv, NEW s \in Session,
           NEW i \in [Session -> [Node -> Instance]],
           \A n \in Node : i[s][n].val = inst[s][n].val,
           Raise(s, i)
    PROVE  Flow(s)
<1>1. CASE pc[s] = "commit" /\ RollbackOwner(s, i)
  <2>1. stack[s] # <<>> BY <1>1 DEF LifeInv, Life
  <2> QED BY <1>1, <2>1, RollbackFlow
<1>2. CASE inst' = i /\ UNCHANGED <<dbVars, txVars, cached, ghostVars>>
  <2>1. UnitFlow(s) BY <1>2, UnitStays DEF txVars, ghostVars
  <2>2. \A n \in Node : RowFlow(s, n) BY <1>2 DEF dbVars, RowFlow, Sources, Visible
  <2> QED BY <2>1, <2>2 DEF Flow
<1> QED BY <1>1, <1>2 DEF Raise

LEMMA FlushInsertsFlow ==
    ASSUME TypeOK, IsoInv, NEW s \in Session, FlushInserts(s)
    PROVE  Flow(s)
<1>1. UnitFlow(s) BY UnitStays DEF FlushInserts, txVars, ghostVars
<1>2. ASSUME NEW n \in Node PROVE RowFlow(s, n)
  <2>1. inst'[s][n].val = inst[s][n].val
    <3>1. inst[s][n] \in Instance BY InstanceType
    <3> QED BY <3>1 DEF FlushInserts, Tracked, TypeOK, Instance
  <2>2. own'[s][n] = own[s][n] \/ own'[s][n].val = inst[s][n].val
    BY DEF FlushInserts, NewRow, TypeOK
  <2> QED BY <2>1, <2>2 DEF FlushInserts, RowFlow, Sources, Visible
<1> QED BY <1>1, <1>2 DEF Flow

LEMMA FlushUpdateFlow ==
    ASSUME TypeOK, LifeInv, Shallow, OneLevel, IsoInv, NEW s \in Session,
           NEW m \in Node, FlushUpdate(s, m)
    PROVE  Flow(s)
<1> DEFINE v == NextVersion(m, inst[s][m].ver)
           written == [inst EXCEPT ![s][m].ver = v, ![s][m].dirty = FALSE]
           refused == [inst EXCEPT ![s][m].ver = v]
<1>1. inst[s][m] \in Instance BY InstanceType
<1>2. v \in 0..MaxVersion BY NextVersionType
<1>3. CASE Raise(s, refused)
  <2>1. [inst[s][m] EXCEPT !.ver = v] \in Instance BY <1>1, <1>2 DEF Instance
  <2>2. refused \in [Session -> [Node -> Instance]] BY <2>1 DEF TypeOK
  <2>3. \A n \in Node : refused[s][n].val = inst[s][n].val
    BY <1>1 DEF TypeOK, Instance
  <2> QED BY <1>3, <2>2, <2>3, RaiseFlow
<1>4. CASE /\ inst' = written /\ UNCHANGED <<store, txVars, ghostVars>>
           /\ \/ own' = own
              \/ own' = [own EXCEPT ![s][m] = [live |-> TRUE, ver |-> v, val |-> inst[s][m].val]]
  <2>1. UnitFlow(s) BY <1>4, UnitStays DEF txVars, ghostVars
  <2>2. ASSUME NEW n \in Node PROVE RowFlow(s, n)
    <3>1. inst'[s][n].val = inst[s][n].val BY <1>1, <1>4 DEF TypeOK, Instance
    <3>2. own'[s][n] = own[s][n] \/ own'[s][n].val = inst[s][n].val
      BY <1>4 DEF TypeOK
    <3> QED BY <1>4, <3>1, <3>2 DEF RowFlow, Sources, Visible
  <2> QED BY <2>1, <2>2 DEF Flow
<1> QED BY <1>3, <1>4 DEF FlushUpdate, dbVars

LEMMA FlushDeletesFlow ==
    ASSUME TypeOK, IsoInv, NEW s \in Session, FlushDeletes(s)
    PROVE  Flow(s)
<1>1. UnitFlow(s) BY UnitStays DEF FlushDeletes, txVars, ghostVars
<1>2. ASSUME NEW n \in Node PROVE RowFlow(s, n)
  <2>1. own'[s][n] = own[s][n] \/ own'[s][n].val = Visible(s, n).val
    BY VisibleType DEF FlushDeletes, TypeOK, Row
  <2> QED BY <2>1 DEF FlushDeletes, cacheVars, RowFlow, Sources, Visible
<1> QED BY <1>1, <1>2 DEF Flow

LEMMA FlushStepFlow ==
    ASSUME TypeOK, LifeInv, Shallow, OneLevel, IsoInv, NEW s \in Session, FlushStep(s)
    PROVE  Flow(s)
<1>1. ASSUME Flush(s) \/ FlushWithoutTransaction(s) \/ FlushDone(s) PROVE Flow(s)
  BY <1>1, RowsStay, UnitStays
  DEF Flush, StartFlush, FlushWithoutTransaction, FlushDone, dbVars, txVars, cacheVars,
      ghostVars, Flow
<1>2. ASSUME StatementFails(s) PROVE Flow(s)
  BY <1>2, RaiseFlow DEF StatementFails, TypeOK
<1> QED
  BY <1>1, <1>2, FlushInsertsFlow, FlushDeletesFlow, FlushUpdateFlow DEF FlushStep

-----------------------------------------------------------------------------
(* The application's calls.                                                 *)

\* A modification that is new goes to the instance and to the open unit.
LEMMA NewTagFlow ==
    ASSUME TypeOK, IsoInv, NEW s \in Session, NEW m \in Node, NEW t \in Tag, t \notin Used,
           inst'[s][m].val \subseteq inst[s][m].val \cup {t},
           \A n \in Node \ {m} : inst'[s][n] = inst[s][n],
           Remember(s, t), UNCHANGED <<dbVars, txVars, doomed>>
    PROVE  Flow(s)
<1>1. ASSUME NEW n \in Node PROVE RowFlow(s, n)
  BY DEF RowFlow, Sources, Visible, dbVars
<1>2. UnitFlow(s)
  <2>1. \A x \in unit'[s] : x \in unit[s] \/ x \notin Used BY DEF Remember, TypeOK
  <2>2. \A o \in Session \ {s} : unit'[o] = unit[o] BY DEF Remember, TypeOK
  <2>3. UnitHasTx(s)' BY DEF Remember, IsoInv, UnitHasTx, txVars, Active
  <2> QED BY <2>1, <2>2, <2>3 DEF UnitFlow
<1> QED BY <1>1, <1>2 DEF Flow

LEMMA CreateFlow ==
    ASSUME TypeOK, IsoInv, NEW s \in Session, NEW m \in Node, NEW t \in Tag, Create(s, m, t)
    PROVE  Flow(s)
<1>1. /\ inst'[s][m].val = {t}
      /\ \A n \in Node \ {m} : inst'[s][n] = inst[s][n]
  BY DEF Create, TypeOK
<1> QED BY <1>1, NewTagFlow DEF Create

LEMMA ModifyFlow ==
    ASSUME TypeOK, IsoInv, NEW s \in Session, NEW m \in Node, NEW t \in Tag, Modify(s, m, t)
    PROVE  Flow(s)
<1>1. inst[s][m] \in Instance BY InstanceType
<1>2. /\ inst'[s][m].val = inst[s][m].val \cup {t}
      /\ \A n \in Node \ {m} : inst'[s][n] = inst[s][n]
  BY <1>1 DEF Modify, TypeOK, Instance
<1> QED BY <1>2, NewTagFlow DEF Modify

LEMMA SaveNewNativeFlow ==
    ASSUME TypeOK, IsoInv, NEW s \in Session, NEW m \in Node, SaveNewNative(s, m)
    PROVE  Flow(s)
<1>1. UnitFlow(s) BY UnitStays DEF SaveNewNative, txVars, ghostVars
<1>2. inst[s][m] \in Instance BY InstanceType
<1>3. ASSUME NEW n \in Node PROVE RowFlow(s, n)
  <2>1. inst'[s][n].val = inst[s][n].val
    BY <1>2 DEF SaveNewNative, TypeOK, Instance
  <2>2. NewRow(inst[s][m]).val = inst[s][m].val BY DEF NewRow
  <2>3. CASE Active(s)
    <3>1. store' = store /\ own' = [own EXCEPT ![s][m] = NewRow(inst[s][m])]
      BY <2>3 DEF SaveNewNative
    <3>2. own'[s][n] = own[s][n] \/ own'[s][n].val = inst[s][n].val
      BY <2>2, <3>1 DEF TypeOK
    <3> QED BY <2>1, <3>1, <3>2 DEF RowFlow, Sources, Visible
  <2>4. CASE ~Active(s)
    <3>1. own' = own /\ store' = [store EXCEPT ![m] = NewRow(inst[s][m])]
      BY <2>4 DEF SaveNewNative
    <3>2. store'[n] = store[n] \/ store'[n].val = inst[s][n].val
      BY <2>2, <3>1 DEF TypeOK
    <3>3. unit'[s] = {} BY <2>4 DEF SaveNewNative, ghostVars, IsoInv, UnitHasTx
    <3> QED BY <2>1, <3>1, <3>2, <3>3 DEF RowFlow, Sources, Visible
  <2> QED BY <2>3, <2>4
<1> QED BY <1>1, <1>3 DEF Flow

LEMMA GetFlow ==
    ASSUME TypeOK, IsoInv, NEW s \in Session, NEW m \in Node, Get(s, m)
    PROVE  Flow(s)
<1>1. tx'[s] = tx[s] \/ tx'[s] = "default" BY DEF Get, assertTransaction, TypeOK
<1>2. UnitFlow(s) BY <1>1, UnitStays DEF Get, ghostVars
<1>3. ASSUME NEW n \in Node PROVE RowFlow(s, n)
  <2>1. inst'[s][n] = inst[s][n] \/ inst'[s][n].val = Visible(s, n).val
    BY DEF Get, TypeOK
  <2> QED BY <2>1 DEF Get, dbVars, RowFlow, Sources, Visible
<1> QED BY <1>2, <1>3 DEF Flow

LEMMA AppStepFlow ==
    ASSUME TypeOK, IsoInv, NEW s \in Session, AppStep(s)
    PROVE  Flow(s)
<1>1. ASSUME NEW m \in Node, SaveExisting(s, m) \/ SaveNewReadOnly(s, m) PROVE Flow(s)
  BY <1>1, RowsStay, UnitStays
  DEF SaveExisting, SaveNewReadOnly, dbVars, txVars, cacheVars, ghostVars, Flow
<1>2. ASSUME NEW m \in Node, SaveNew(s, m) \/ Delete(s, m) PROVE Flow(s)
  <2>1. UnitFlow(s) BY <1>2, UnitStays DEF SaveNew, Delete, txVars, ghostVars
  <2>2. inst[s][m] \in Instance BY InstanceType
  <2>3. ASSUME NEW n \in Node PROVE inst'[s][n].val = inst[s][n].val
    <3>1. CASE SaveNew(s, m) BY <2>2, <3>1 DEF SaveNew, TypeOK, Instance
    <3>2. CASE Delete(s, m) BY <2>2, <3>2 DEF Delete, TypeOK, Instance
    <3> QED BY <1>2, <3>1, <3>2
  <2>4. \A n \in Node : RowFlow(s, n)
    BY <1>2, <2>3 DEF SaveNew, Delete, dbVars, RowFlow, Sources, Visible
  <2> QED BY <2>1, <2>4 DEF Flow
<1>3. ASSUME Recover(s) PROVE Flow(s)
  <2>1. inst'[s] = inst[s] \/ inst'[s] = NoInstances
    BY <1>3 DEF Recover, ClearSession, cacheVars, TypeOK
  <2> QED
    BY <1>3, <2>1, RowsStay, RowsDropped, UnitStays
    DEF Recover, dbVars, txVars, ghostVars, Flow
<1>4. ASSUME Disconnect(s) PROVE Flow(s)
  <2>1. /\ inst'[s] = inst[s] \/ inst'[s] = NoInstances
        /\ own'[s] = NoWrites /\ store' = store
    BY <1>4 DEF Disconnect, NativeRollback, ClearSession, TypeOK
  <2>2. \A n \in Node : RowFlow(s, n)
    BY <2>1 DEF RowFlow, Sources, NoWrites, NoInstances, NoInstance
  <2>3. UnitFlow(s) BY <1>4, UnitStays DEF Disconnect, ghostVars
  <2> QED BY <2>2, <2>3 DEF Flow
<1> QED
  BY <1>1, <1>2, <1>3, <1>4, CreateFlow, ModifyFlow, SaveNewNativeFlow, GetFlow DEF AppStep

-----------------------------------------------------------------------------
(* The theorems.                                                            *)

LEMMA IsoStep ==
    ASSUME TypeOK, LifeInv, Shallow, OneLevel, IsoInv, [Next]_vars
    PROVE  IsoInv'
<1>1. CASE UNCHANGED vars
  BY <1>1
  DEF vars, IsoInv, DoomedGone, UnitAlone, UnitHasTx, Stored, Held, Wrote, Active
<1>2. ASSUME NEW s \in Session, UnitStep(s) \/ FlushStep(s) \/ AppStep(s) PROVE IsoInv'
  <2>1. \A o \in Session \ {s} : Same(o) BY <1>2, UnitLocal, FlushLocal, AppLocal
  <2>2. Flow(s) BY <1>2, UnitStepFlow, FlushStepFlow, AppStepFlow
  <2> QED BY <2>1, <2>2, FlowKeeps
<1> QED BY <1>1, <1>2 DEF Next

THEOREM IsoCorrect ==
    ASSUME OneLevel
    PROVE  Spec => []IsoInv
<1>1. TypeOK /\ LifeInv /\ Shallow /\ IsoInv /\ [Next]_vars => IsoInv'
  BY IsoStep
<1> QED BY <1>1, IsoInit, LockCorrect, PTL DEF Spec

\* What was modified in a unit of work that rolled back, by the application or
\* because a statement of its flush failed, is never in the graph.
THEOREM RolledBackStaysOut ==
    ASSUME Flat
    PROVE  Spec => []RolledBackNeverCommitted
<1>1. IsoInv => RolledBackNeverCommitted
  BY DEF Flat, IsoInv, DoomedGone, Stored, RolledBackNeverCommitted, InGraph
<1>2. OneLevel BY DEF Flat
<1> QED BY <1>1, <1>2, IsoCorrect, PTL

\* What an open unit of work has modified is not in the graph, however often it
\* has been flushed, and whatever the application does with instances of units that
\* were rolled back.
THEOREM OpenUnitHidden ==
    ASSUME OneLevel
    PROVE  Spec => []OpenUnitInvisible
<1>1. IsoInv => OpenUnitInvisible
  BY DEF IsoInv, UnitAlone, Stored, OpenUnitInvisible, InGraph
<1> QED BY <1>1, IsoCorrect, PTL
=============================================================================
