------------------------- MODULE Neo4jSession_proofs -------------------------
(***************************************************************************)
(* What holds of Neo4jSession for every number of sessions, nodes and      *)
(* modifications.                                                          *)
(***************************************************************************)
EXTENDS Neo4jSession, SequenceTheorems, TLAPS

-----------------------------------------------------------------------------
(* Type correctness.                                                        *)

\* A unit that ends leaves a well-formed stack.
LEMMA PopType ==
    ASSUME TypeOK, NEW s \in Session, PopUnit(s)
    PROVE  stack' \in [Session -> Seq({"owner", "joined"})]
<1>1. stack[s] \in Seq({"owner", "joined"}) BY DEF TypeOK
<1>2. SubSeq(stack[s], 1, Len(stack[s]) - 1) \in Seq({"owner", "joined"})
  BY <1>1, SubSeqProperties
<1> QED BY <1>2 DEF TypeOK, PopUnit

\* The parts of TypeOK that clearing a session can disturb.
LEMMA ClearType ==
    ASSUME TypeOK, NEW s \in Session,
           NEW i \in [Session -> [Node -> Instance]], ClearSession(s, i)
    PROVE  /\ inst' \in [Session -> [Node -> Instance]]
           /\ cached' \in [Session -> SUBSET Node]
           /\ ins' \in [Session -> SUBSET Node]
           /\ upd' \in [Session -> SUBSET Node]
           /\ del' \in [Session -> SUBSET Node]
<1>1. NoInstances \in [Node -> Instance]
  BY BoundAssumption DEF NoInstances, NoInstance, Instance
<1> QED BY <1>1 DEF ClearSession, TypeOK

\* The history variables stay sets of modifications.
LEMMA HistoryType ==
    ASSUME TypeOK, NEW s \in Session, NEW r, EndHistory(s, r)
    PROVE  unit' \in [Session -> SUBSET Tag] /\ doomed' \subseteq Tag
BY DEF EndHistory, TypeOK

LEMMA TxType ==
    ASSUME TypeOK, NEW s \in Session
    PROVE  TxAfterUnit(s) \in [Session -> {"none", "default", "active", "readonly", "closed"}]
BY DEF TypeOK, TxAfterUnit

LEMMA NativeRollbackType ==
    ASSUME TypeOK, NEW s \in Session, NativeRollback(s)
    PROVE  own' \in [Session -> [Node -> Row \cup {NoRow}]]
BY DEF TypeOK, NativeRollback, NoWrites

\* The rollback of the unit that owns the transaction.
LEMMA RollbackType ==
    ASSUME TypeOK, NEW s \in Session,
           NEW i \in [Session -> [Node -> Instance]], RollbackOwner(s, i)
    PROVE  TypeOK'
<1>1. stack' \in [Session -> Seq({"owner", "joined"})] BY PopType DEF RollbackOwner
<1>2. /\ inst' \in [Session -> [Node -> Instance]]
      /\ cached' \in [Session -> SUBSET Node]
      /\ ins' \in [Session -> SUBSET Node]
      /\ upd' \in [Session -> SUBSET Node]
      /\ del' \in [Session -> SUBSET Node]
  BY ClearType DEF RollbackOwner
<1>3. unit' \in [Session -> SUBSET Tag] /\ doomed' \subseteq Tag
  BY HistoryType DEF RollbackOwner
<1>4. tx' \in [Session -> {"none", "default", "active", "readonly", "closed"}]
  BY TxType DEF RollbackOwner
<1>5. own' \in [Session -> [Node -> Row \cup {NoRow}]]
  BY NativeRollbackType DEF RollbackOwner
<1>6. store' \in [Node -> Row] /\ pc' \in [Session -> {"app", "flush", "commit", "failed"}]
  BY DEF RollbackOwner, TypeOK
<1> QED BY <1>1, <1>2, <1>3, <1>4, <1>5, <1>6 DEF TypeOK

LEMMA VisibleType ==
    ASSUME TypeOK, NEW s \in Session, NEW n \in Node
    PROVE  Visible(s, n) \in Row
BY DEF TypeOK, Visible

LEMMA NewRowType ==
    ASSUME NEW i \in Instance
    PROVE  NewRow(i) \in Row
BY BoundAssumption DEF NewRow, Row, Instance

LEMMA InstanceType ==
    ASSUME TypeOK, NEW s \in Session, NEW n \in Node
    PROVE  inst[s][n] \in Instance
BY DEF TypeOK

\* The version an update raises an instance to.
LEMMA NextVersionType ==
    ASSUME TypeOK, NEW s \in Session, NEW n \in Node, FlushUpdate(s, n)
    PROVE  NextVersion(n, inst[s][n].ver) \in 0..MaxVersion
<1>1. inst[s][n].ver \in 0..MaxVersion BY InstanceType DEF Instance
<1>2. NextVersion(n, inst[s][n].ver) <= MaxVersion BY DEF FlushUpdate
<1> QED BY <1>1, <1>2, BoundAssumption DEF NextVersion

LEMMA TrackedType ==
    ASSUME TypeOK, NEW s \in Session, NEW nodes
    PROVE  Tracked(s, nodes) \in [Session -> [Node -> Instance]]
<1>1. ASSUME NEW n \in Node PROVE [inst[s][n] EXCEPT !.dirty = FALSE] \in Instance
  BY InstanceType DEF Instance
<1> QED BY <1>1 DEF TypeOK, Tracked

\* A changed instance of s for one node.
LEMMA InstUpdateType ==
    ASSUME TypeOK, NEW s \in Session, NEW n \in Node, NEW i \in Instance
    PROVE  [inst EXCEPT ![s] = [@ EXCEPT ![n] = i]] \in [Session -> [Node -> Instance]]
BY DEF TypeOK

THEOREM InitTypeOK == Init => TypeOK
<1> SUFFICES ASSUME Init PROVE TypeOK OBVIOUS
<1>1. store \in [Node -> Row] BY BoundAssumption DEF Init, Row
<1>2. inst \in [Session -> [Node -> Instance]]
  BY BoundAssumption DEF Init, NoInstances, NoInstance, Instance
<1> QED BY <1>1, <1>2 DEF Init, TypeOK, NoWrites

\* The actions that open and close units of work.
LEMMA UnitStepType ==
    ASSUME TypeOK, NEW s \in Session, UnitStep(s)
    PROVE  TypeOK'
<1>1. ASSUME NEW mode \in Mode, Begin(s, mode) PROVE TypeOK'
  <2>1. mode \in {"active", "readonly"} BY TxModeAssumption
  <2>2. tx' \in [Session -> {"none", "default", "active", "readonly", "closed"}]
    BY <1>1, <2>1 DEF TypeOK, Begin, beginTransaction
  <2>3. stack' \in [Session -> Seq({"owner", "joined"})]
    <3>1. stack[s] \in Seq({"owner", "joined"}) BY DEF TypeOK
    <3>2. \A w \in {"owner", "joined"} : Append(stack[s], w) \in Seq({"owner", "joined"})
      BY <3>1, AppendProperties
    <3> QED BY <1>1, <3>2 DEF TypeOK, Begin
  <2> QED BY <1>1, <2>2, <2>3 DEF TypeOK, Begin, dbVars, cacheVars, pendVars, ghostVars
<1>2. ASSUME EndRollback(s) PROVE TypeOK'
  BY <1>2, RollbackType DEF EndRollback, TypeOK
<1>3. ASSUME EndRollbackJoined(s) PROVE TypeOK'
  <2>1. stack' \in [Session -> Seq({"owner", "joined"})]
    BY <1>3, PopType DEF EndRollbackJoined
  <2>2. unit' \in [Session -> SUBSET Tag] /\ doomed' \subseteq Tag
    BY <1>3, HistoryType DEF EndRollbackJoined
  <2>3. own' \in [Session -> [Node -> Row \cup {NoRow}]]
    BY <1>3, NativeRollbackType DEF EndRollbackJoined
  <2> QED BY <1>3, <2>1, <2>2, <2>3 DEF EndRollbackJoined, TypeOK, cacheVars, pendVars
<1>4. ASSUME EndCommit(s) PROVE TypeOK'
  BY <1>4 DEF EndCommit, StartFlush, Spool, TypeOK, dbVars, txVars, cacheVars, ghostVars
<1>5. ASSUME EndCommitJoined(s) PROVE TypeOK'
  <2>1. stack' \in [Session -> Seq({"owner", "joined"})]
    BY <1>5, PopType DEF EndCommitJoined
  <2>2. unit' \in [Session -> SUBSET Tag] /\ doomed' \subseteq Tag
    BY <1>5, HistoryType DEF EndCommitJoined
  <2> QED BY <1>5, <2>1, <2>2 DEF EndCommitJoined, TypeOK, dbVars, cacheVars, pendVars
<1>6. ASSUME EndSession(s)
      PROVE /\ inst' \in [Session -> [Node -> Instance]]
            /\ cached' \in [Session -> SUBSET Node]
            /\ ins' \in [Session -> SUBSET Node]
            /\ upd' \in [Session -> SUBSET Node]
            /\ del' \in [Session -> SUBSET Node]
  <2>1. CASE Closing(s) BY <1>6, <2>1, ClearType DEF EndSession, TypeOK
  <2>2. CASE ~Closing(s) BY <1>6, <2>2 DEF EndSession, TypeOK, cacheVars, pendVars
  <2> QED BY <2>1, <2>2
<1>7. ASSUME CommitUnflushed(s) PROVE TypeOK'
  <2>1. stack' \in [Session -> Seq({"owner", "joined"})]
    BY <1>7, PopType DEF CommitUnflushed
  <2>2. unit' \in [Session -> SUBSET Tag] /\ doomed' \subseteq Tag
    BY <1>7, HistoryType DEF CommitUnflushed
  <2>3. tx' \in [Session -> {"none", "default", "active", "readonly", "closed"}]
    BY <1>7, TxType DEF CommitUnflushed
  <2> QED BY <1>6, <1>7, <2>1, <2>2, <2>3 DEF CommitUnflushed, TypeOK, dbVars
<1>8. ASSUME Commit(s) PROVE TypeOK'
  <2>1. stack' \in [Session -> Seq({"owner", "joined"})] BY <1>8, PopType DEF Commit
  <2>2. unit' \in [Session -> SUBSET Tag] /\ doomed' \subseteq Tag
    BY <1>8, HistoryType DEF Commit
  <2>3. tx' \in [Session -> {"none", "default", "active", "readonly", "closed"}]
    BY <1>8, TxType DEF Commit
  <2>4. store' \in [Node -> Row] BY <1>8, VisibleType DEF Commit, Committed
  <2>5. own' \in [Session -> [Node -> Row \cup {NoRow}]]
    BY <1>8 DEF Commit, TypeOK, NoWrites
  <2>6. pc' \in [Session -> {"app", "flush", "commit", "failed"}]
    BY <1>8 DEF Commit, TypeOK
  <2> QED BY <1>6, <1>8, <2>1, <2>2, <2>3, <2>4, <2>5, <2>6 DEF Commit, TypeOK
<1> QED BY <1>1, <1>2, <1>3, <1>4, <1>5, <1>7, <1>8 DEF UnitStep

\* The statements of flush().
LEMMA RaiseType ==
    ASSUME TypeOK, NEW s \in Session,
           NEW i \in [Session -> [Node -> Instance]], Raise(s, i)
    PROVE  TypeOK'
<1>1. CASE RollbackOwner(s, i) BY <1>1, RollbackType
<1>2. CASE pc[s] = "flush" /\ ~RollbackOwner(s, i)
  BY <1>2 DEF Raise, TypeOK, dbVars, txVars, ghostVars
<1> QED BY <1>1, <1>2 DEF Raise

LEMMA FlushStepType ==
    ASSUME TypeOK, NEW s \in Session, FlushStep(s)
    PROVE  TypeOK'
<1>1. ASSUME Flush(s) PROVE TypeOK'
  BY <1>1 DEF Flush, StartFlush, Spool, TypeOK, dbVars, txVars, cacheVars, ghostVars
<1>2. ASSUME FlushWithoutTransaction(s) PROVE TypeOK'
  BY <1>2 DEF FlushWithoutTransaction, TypeOK, dbVars, txVars, cacheVars, pendVars, ghostVars
<1>3. ASSUME FlushInserts(s) PROVE TypeOK'
  <2>1. \A n \in Node : NewRow(inst[s][n]) \in Row
    BY InstanceType, NewRowType
  <2>2. own' \in [Session -> [Node -> Row \cup {NoRow}]]
    BY <1>3, <2>1 DEF FlushInserts, TypeOK
  <2>3. inst' \in [Session -> [Node -> Instance]]
    BY <1>3, TrackedType DEF FlushInserts
  <2> QED BY <1>3, <2>2, <2>3 DEF FlushInserts, TypeOK, txVars, ghostVars
<1>4. ASSUME FlushDeletes(s) PROVE TypeOK'
  <2>1. ASSUME NEW n \in Node PROVE [Visible(s, n) EXCEPT !.live = FALSE] \in Row
    BY VisibleType DEF Row
  <2>2. own' \in [Session -> [Node -> Row \cup {NoRow}]]
    BY <1>4, <2>1 DEF FlushDeletes, TypeOK
  <2> QED BY <1>4, <2>2 DEF FlushDeletes, TypeOK, txVars, cacheVars, ghostVars
<1>5. ASSUME FlushDone(s) PROVE TypeOK'
  BY <1>5 DEF FlushDone, TypeOK, dbVars, txVars, cacheVars, pendVars, ghostVars
<1>6. ASSUME StatementFails(s) PROVE TypeOK'
  BY <1>6, RaiseType DEF StatementFails, TypeOK
<1>7. ASSUME NEW n \in Node, FlushUpdate(s, n) PROVE TypeOK'
  <2> DEFINE v == NextVersion(n, inst[s][n].ver)
             written == [inst EXCEPT ![s][n].ver = v, ![s][n].dirty = FALSE]
             refused == [inst EXCEPT ![s][n].ver = v]
  <2>1. inst[s][n] \in Instance BY InstanceType
  <2>2. v \in 0..MaxVersion BY <1>7, NextVersionType
  <2>3. [inst[s][n] EXCEPT !.ver = v] \in Instance BY <2>1, <2>2 DEF Instance
  <2>4. [inst[s][n] EXCEPT !.ver = v, !.dirty = FALSE] \in Instance
    BY <2>1, <2>2 DEF Instance
  <2>5. written \in [Session -> [Node -> Instance]] BY <2>4 DEF TypeOK
  <2>6. refused \in [Session -> [Node -> Instance]] BY <2>3 DEF TypeOK
  <2>7. [live |-> TRUE, ver |-> v, val |-> inst[s][n].val] \in Row
    BY <2>1, <2>2 DEF Instance, Row
  <2>8. CASE Raise(s, refused) BY <2>6, <2>8, RaiseType
  <2>9. CASE /\ inst' = written
             /\ upd' = [upd EXCEPT ![s] = @ \ {n}]
             /\ UNCHANGED <<dbVars, txVars, cached, ins, del, pc, ghostVars>>
    BY <2>5, <2>9 DEF TypeOK, dbVars, txVars, ghostVars
  <2>10. CASE /\ own' = [own EXCEPT ![s][n] = [live |-> TRUE, ver |-> v, val |-> inst[s][n].val]]
              /\ inst' = written
              /\ upd' = [upd EXCEPT ![s] = @ \ {n}]
              /\ UNCHANGED <<store, txVars, cached, ins, del, pc, ghostVars>>
    <3>1. own' \in [Session -> [Node -> Row \cup {NoRow}]] BY <2>7, <2>10 DEF TypeOK
    <3> QED BY <2>5, <2>10, <3>1 DEF TypeOK, dbVars, txVars, ghostVars
  <2> QED BY <1>7, <2>8, <2>9, <2>10 DEF FlushUpdate
<1> QED BY <1>1, <1>2, <1>3, <1>4, <1>5, <1>6, <1>7 DEF FlushStep

\* The application's calls.
LEMMA AppStepType ==
    ASSUME TypeOK, NEW s \in Session, AppStep(s)
    PROVE  TypeOK'
<1>1. ASSUME NEW t \in Tag, Remember(s, t) PROVE unit' \in [Session -> SUBSET Tag]
  BY <1>1 DEF Remember, TypeOK
<1>2. ASSUME NEW n \in Node, Cache(s, n) PROVE cached' \in [Session -> SUBSET Node]
  BY <1>2 DEF Cache, TypeOK
<1>3. ASSUME NEW n \in Node, NEW t \in Tag, Create(s, n, t) PROVE TypeOK'
  <2>1. [st |-> "transient", ver |-> 0, val |-> {t}, dirty |-> TRUE] \in Instance
    BY BoundAssumption DEF Instance
  <2>2. inst' \in [Session -> [Node -> Instance]] BY <1>3, <2>1 DEF Create, TypeOK
  <2>3. unit' \in [Session -> SUBSET Tag] BY <1>1, <1>3 DEF Create
  <2>4. UNCHANGED <<store, own, tx, stack, cached, ins, upd, del, pc, doomed>>
    BY <1>3 DEF Create, dbVars, txVars, pendVars
  <2> QED BY <2>2, <2>3, <2>4 DEF TypeOK
<1>4. ASSUME NEW n \in Node, NEW t \in Tag, Modify(s, n, t) PROVE TypeOK'
  <2> DEFINE i == [inst[s][n] EXCEPT !.val = @ \cup {t}, !.dirty = TRUE]
  <2>1. i \in Instance
    BY InstanceType DEF Instance
  <2>2. inst' \in [Session -> [Node -> Instance]]
    <3>1. inst' = [inst EXCEPT ![s] = [@ EXCEPT ![n] = i]]
      BY <1>4 DEF Modify, TypeOK
    <3> HIDE DEF i
    <3> QED BY <2>1, <3>1, InstUpdateType
  <2>3. unit' \in [Session -> SUBSET Tag] BY <1>1, <1>4 DEF Modify
  <2>4. UNCHANGED <<store, own, tx, stack, cached, ins, upd, del, pc, doomed>>
    BY <1>4 DEF Modify, dbVars, txVars, pendVars
  <2> QED BY <2>2, <2>3, <2>4 DEF TypeOK
<1>5. ASSUME NEW n \in Node, SaveExisting(s, n) PROVE TypeOK'
  BY <1>2, <1>5 DEF SaveExisting, TypeOK, dbVars, txVars, ghostVars
<1>6. ASSUME NEW n \in Node, SaveNew(s, n) PROVE TypeOK'
  <2>1. [inst[s][n] EXCEPT !.st = "persistent"] \in Instance
    BY InstanceType DEF Instance
  <2>2. inst' \in [Session -> [Node -> Instance]] BY <1>6, <2>1 DEF SaveNew, TypeOK
  <2> QED BY <1>2, <1>6, <2>2 DEF SaveNew, TypeOK, dbVars, txVars, ghostVars
<1>7. ASSUME NEW n \in Node, SaveNewNative(s, n) PROVE TypeOK'
  <2>1. [inst[s][n] EXCEPT !.st = "persistent", !.dirty = FALSE] \in Instance
    BY InstanceType DEF Instance
  <2>2. inst' \in [Session -> [Node -> Instance]]
    <3>1. inst' = [inst EXCEPT ![s][n].st = "persistent", ![s][n].dirty = FALSE]
      BY <1>7 DEF SaveNewNative
    <3> QED BY <2>1, <3>1 DEF TypeOK
  <2>3. NewRow(inst[s][n]) \in Row BY InstanceType, NewRowType
  <2>4. store' \in [Node -> Row] BY <1>7, <2>3 DEF SaveNewNative, TypeOK
  <2>5. own' \in [Session -> [Node -> Row \cup {NoRow}]]
    <3>1. own' = own \/ own' = [own EXCEPT ![s][n] = NewRow(inst[s][n])]
      BY <1>7 DEF SaveNewNative
    <3>2. CASE own' = own BY <3>2 DEF TypeOK
    <3>3. CASE own' = [own EXCEPT ![s][n] = NewRow(inst[s][n])] BY <2>3, <3>3 DEF TypeOK
    <3> QED BY <3>1, <3>2, <3>3
  <2> QED BY <1>2, <1>7, <2>2, <2>4, <2>5 DEF SaveNewNative, TypeOK, txVars, ghostVars
<1>8. ASSUME NEW n \in Node, SaveNewReadOnly(s, n) PROVE TypeOK'
  BY <1>8 DEF SaveNewReadOnly, TypeOK, dbVars, txVars, cacheVars, pendVars, ghostVars
<1>9. ASSUME NEW n \in Node, Get(s, n) PROVE TypeOK'
  <2>1. [st |-> "persistent", ver |-> Visible(s, n).ver,
         val |-> Visible(s, n).val, dirty |-> FALSE] \in Instance
    BY VisibleType DEF Instance, Row
  <2>2. inst' \in [Session -> [Node -> Instance]] BY <1>9, <2>1 DEF Get, TypeOK
  <2>3. tx' \in [Session -> {"none", "default", "active", "readonly", "closed"}]
    BY <1>9 DEF Get, assertTransaction, TypeOK
  <2> QED BY <1>2, <1>9, <2>2, <2>3 DEF Get, TypeOK, dbVars, pendVars, ghostVars
<1>10. ASSUME NEW n \in Node, Delete(s, n) PROVE TypeOK'
  <2>1. [inst[s][n] EXCEPT !.st = "removed"] \in Instance
    BY InstanceType DEF Instance
  <2>2. inst' \in [Session -> [Node -> Instance]] BY <1>10, <2>1 DEF Delete, TypeOK
  <2> QED BY <1>10, <2>2 DEF Delete, TypeOK, dbVars, txVars, ghostVars
<1>11. ASSUME Recover(s) PROVE TypeOK'
  <2>1. CASE Reuse
    BY <1>11, <2>1 DEF Recover, TypeOK, dbVars, txVars, cacheVars, pendVars, ghostVars
  <2>2. CASE ~Reuse
    <3>1. ClearSession(s, inst) BY <1>11, <2>2 DEF Recover
    <3> QED BY <1>11, <3>1, ClearType DEF Recover, TypeOK, dbVars, txVars, ghostVars
  <2> QED BY <2>1, <2>2
<1>12. ASSUME Disconnect(s) PROVE TypeOK'
  <2>1. own' \in [Session -> [Node -> Row \cup {NoRow}]]
    BY <1>12, NativeRollbackType DEF Disconnect
  <2>2. ClearSession(s, inst) BY <1>12 DEF Disconnect
  <2> QED BY <1>12, <2>1, <2>2, ClearType DEF Disconnect, TypeOK, ghostVars
<1> QED
  BY <1>3, <1>4, <1>5, <1>6, <1>7, <1>8, <1>9, <1>10, <1>11, <1>12 DEF AppStep

LEMMA NextType == TypeOK /\ [Next]_vars => TypeOK'
<1> SUFFICES ASSUME TypeOK, [Next]_vars PROVE TypeOK' OBVIOUS
<1>1. CASE Next BY <1>1, UnitStepType, FlushStepType, AppStepType DEF Next
<1>2. CASE UNCHANGED vars BY <1>2 DEF vars, TypeOK
<1> QED BY <1>1, <1>2

\* Every reachable state is well-formed: in particular every row and every
\* instance has a version within its bound whatever runs and fails.
THEOREM TypeCorrect == Spec => []TypeOK
BY InitTypeOK, NextType, PTL DEF Spec

-----------------------------------------------------------------------------
(***************************************************************************)
(* The life of the session's transaction.  NoOrphanTransaction is not      *)
(* inductive: that no transaction outlives its unit rests on the outermost *)
(* unit owning it, and that rests on where a flush can be when it fails.   *)
(***************************************************************************)

Writable(s) == tx[s] \in {"default", "active"}

Life(s) ==
    /\ Flushing(s) => Writable(s)
    /\ pc[s] = "commit" => stack[s] # <<>> /\ Innermost(s) = "owner"
    /\ stack[s] = <<>> => tx[s] \notin {"active", "readonly"}
    /\ ~Writable(s) => own[s] = NoWrites
    /\ stack[s] # <<>> => stack[s][1] = "owner"

LifeInv == \A s \in Session : Life(s)

\* What ending a unit leaves on the stack.
LEMMA PopStack ==
    ASSUME TypeOK, NEW s \in Session, stack[s] # <<>>, PopUnit(s)
    PROVE  /\ stack'[s] = <<>> <=> Len(stack[s]) = 1
           /\ stack'[s] # <<>> => stack'[s][1] = stack[s][1]
<1> DEFINE t == SubSeq(stack[s], 1, Len(stack[s]) - 1)
<1>1. stack[s] \in Seq({"owner", "joined"}) /\ Len(stack[s]) \in Nat \ {0}
  BY EmptySeq DEF TypeOK
<1>2. /\ t \in Seq({"owner", "joined"})
      /\ Len(t) = Len(stack[s]) - 1
      /\ \A i \in 1..Len(stack[s]) - 1 : t[i] = stack[s][i]
  BY <1>1, SubSeqProperties
<1>3. stack'[s] = t BY DEF PopUnit, TypeOK
<1> HIDE DEF t
<1>4. t = <<>> <=> Len(t) = 0 BY <1>2, EmptySeq
<1>5. ASSUME t # <<>> PROVE t[1] = stack[s][1]
  <2>1. 1 \in 1..Len(stack[s]) - 1 BY <1>1, <1>2, <1>4, <1>5
  <2> QED BY <1>2, <2>1
<1>6. t = <<>> <=> Len(stack[s]) = 1 BY <1>1, <1>2, <1>4
<1> QED BY <1>3, <1>5, <1>6

\* A joined unit is never the outermost one.
LEMMA JoinedIsInner ==
    ASSUME TypeOK, NEW s \in Session, Life(s), stack[s] # <<>>, Innermost(s) = "joined"
    PROVE  Len(stack[s]) # 1
BY DEF Life, Innermost

LEMMA LifeInit == Init => LifeInv
BY DEF Init, LifeInv, Life, Flushing, Writable, NoWrites

\* A step of one session leaves the others alone.
Same(o) ==
    /\ own'[o] = own[o] /\ tx'[o] = tx[o] /\ stack'[o] = stack[o]
    /\ inst'[o] = inst[o] /\ pc'[o] = pc[o]
    /\ cached'[o] = cached[o]
    /\ ins'[o] = ins[o] /\ upd'[o] = upd[o] /\ del'[o] = del[o]

LEMMA RollbackLocal ==
    ASSUME TypeOK, NEW s \in Session, NEW o \in Session, o # s,
           RollbackOwner(s, inst)
    PROVE  Same(o)
BY DEF RollbackOwner, NativeRollback, TxAfterUnit, PopUnit, ClearSession, TypeOK, Same

LEMMA UnitLocal ==
    ASSUME TypeOK, NEW s \in Session, NEW o \in Session, o # s, UnitStep(s)
    PROVE  Same(o)
<1>1. ASSUME NEW mode \in Mode, Begin(s, mode) PROVE Same(o)
  BY <1>1 DEF Begin, dbVars, cacheVars, pendVars, TypeOK, Same
<1>2. ASSUME EndRollback(s) PROVE Same(o)
  BY <1>2, RollbackLocal DEF EndRollback
<1>3. ASSUME EndRollbackJoined(s) PROVE Same(o)
  BY <1>3 DEF EndRollbackJoined, NativeRollback, PopUnit, cacheVars, pendVars, TypeOK, Same
<1>4. ASSUME EndCommit(s) PROVE Same(o)
  BY <1>4 DEF EndCommit, StartFlush, dbVars, txVars, cacheVars, TypeOK, Same
<1>5. ASSUME EndCommitJoined(s) PROVE Same(o)
  BY <1>5 DEF EndCommitJoined, PopUnit, dbVars, cacheVars, pendVars, TypeOK, Same
<1>6. ASSUME EndSession(s)
      PROVE  /\ inst'[o] = inst[o] /\ cached'[o] = cached[o]
             /\ ins'[o] = ins[o] /\ upd'[o] = upd[o] /\ del'[o] = del[o]
  BY <1>6 DEF EndSession, ClearSession, cacheVars, pendVars, TypeOK
<1>7. ASSUME CommitUnflushed(s) PROVE Same(o)
  BY <1>6, <1>7 DEF CommitUnflushed, TxAfterUnit, PopUnit, dbVars, TypeOK, Same
<1>8. ASSUME Commit(s) PROVE Same(o)
  BY <1>6, <1>8 DEF Commit, TxAfterUnit, PopUnit, TypeOK, Same
<1> QED BY <1>1, <1>2, <1>3, <1>4, <1>5, <1>7, <1>8 DEF UnitStep

\* (An exception of flush() gives the session the instances i.)
LEMMA RaiseLocal ==
    ASSUME TypeOK, NEW s \in Session, NEW o \in Session, o # s,
           NEW i \in [Session -> [Node -> Instance]], i[o] = inst[o], Raise(s, i)
    PROVE  Same(o)
<1>1. CASE RollbackOwner(s, i)
  BY <1>1 DEF RollbackOwner, NativeRollback, TxAfterUnit, PopUnit, ClearSession, TypeOK, Same
<1>2. CASE ~RollbackOwner(s, i)
  BY <1>2 DEF Raise, dbVars, txVars, TypeOK, Same
<1> QED BY <1>1, <1>2

LEMMA FlushLocal ==
    ASSUME TypeOK, NEW s \in Session, NEW o \in Session, o # s, FlushStep(s)
    PROVE  Same(o)
<1>1. ASSUME Flush(s) PROVE Same(o)
  BY <1>1 DEF Flush, StartFlush, dbVars, txVars, cacheVars, TypeOK, Same
<1>2. ASSUME FlushWithoutTransaction(s) PROVE Same(o)
  BY <1>2 DEF FlushWithoutTransaction, dbVars, txVars, cacheVars, pendVars, TypeOK, Same
<1>3. ASSUME FlushInserts(s) PROVE Same(o)
  BY <1>3 DEF FlushInserts, Tracked, txVars, TypeOK, Same
<1>4. ASSUME FlushDeletes(s) PROVE Same(o)
  BY <1>4 DEF FlushDeletes, txVars, cacheVars, TypeOK, Same
<1>5. ASSUME FlushDone(s) PROVE Same(o)
  BY <1>5 DEF FlushDone, dbVars, txVars, cacheVars, pendVars, TypeOK, Same
<1>6. ASSUME StatementFails(s) PROVE Same(o)
  BY <1>6, RaiseLocal DEF StatementFails, TypeOK
<1>7. ASSUME NEW n \in Node, FlushUpdate(s, n) PROVE Same(o)
  <2> DEFINE v == NextVersion(n, inst[s][n].ver)
             written == [inst EXCEPT ![s][n].ver = v, ![s][n].dirty = FALSE]
             refused == [inst EXCEPT ![s][n].ver = v]
  <2>1. written[o] = inst[o] /\ refused[o] = inst[o] BY DEF TypeOK
  <2>2. refused \in [Session -> [Node -> Instance]]
    <3>1. inst[s][n] \in Instance BY InstanceType
    <3>2. v \in 0..MaxVersion BY <1>7, NextVersionType
    <3>3. [inst[s][n] EXCEPT !.ver = v] \in Instance BY <3>1, <3>2 DEF Instance
    <3> HIDE DEF v
    <3> QED BY <3>3 DEF TypeOK
  <2>3. CASE Raise(s, refused) BY <2>1, <2>2, <2>3, RaiseLocal
  <2>4. CASE ~Raise(s, refused)
    BY <1>7, <2>1, <2>4 DEF FlushUpdate, dbVars, txVars, TypeOK, Same
  <2> QED BY <2>3, <2>4
<1> QED BY <1>1, <1>2, <1>3, <1>4, <1>5, <1>6, <1>7 DEF FlushStep

LEMMA AppLocal ==
    ASSUME TypeOK, NEW s \in Session, NEW o \in Session, o # s, AppStep(s)
    PROVE  Same(o)
<1> USE DEF dbVars, txVars, cacheVars, pendVars, Cache, TypeOK, Same
<1>1. ASSUME NEW n \in Node, NEW t \in Tag, Create(s, n, t) PROVE Same(o)
  BY <1>1 DEF Create
<1>2. ASSUME NEW n \in Node, NEW t \in Tag, Modify(s, n, t) PROVE Same(o)
  BY <1>2 DEF Modify
<1>3. ASSUME NEW n \in Node, SaveExisting(s, n) PROVE Same(o)
  BY <1>3 DEF SaveExisting
<1>4. ASSUME NEW n \in Node, SaveNew(s, n) PROVE Same(o)
  BY <1>4 DEF SaveNew
<1>5. ASSUME NEW n \in Node, SaveNewNative(s, n) PROVE Same(o)
  BY <1>5 DEF SaveNewNative
<1>6. ASSUME NEW n \in Node, SaveNewReadOnly(s, n) PROVE Same(o)
  BY <1>6 DEF SaveNewReadOnly
<1>7. ASSUME NEW n \in Node, Get(s, n) PROVE Same(o)
  BY <1>7 DEF Get, assertTransaction
<1>8. ASSUME NEW n \in Node, Delete(s, n) PROVE Same(o)
  BY <1>8 DEF Delete
<1>9. ASSUME Recover(s) PROVE Same(o)
  BY <1>9 DEF Recover, ClearSession
<1>10. ASSUME Disconnect(s) PROVE Same(o)
  BY <1>10 DEF Disconnect, NativeRollback, ClearSession
<1> QED BY <1>1, <1>2, <1>3, <1>4, <1>5, <1>6, <1>7, <1>8, <1>9, <1>10 DEF AppStep

\* The owner of the transaction ends: the transaction ends with it.
LEMMA OwnerEnds ==
    ASSUME TypeOK, NEW s \in Session, Life(s), stack[s] # <<>>, PopUnit(s),
           tx' = TxAfterUnit(s), own'[s] = NoWrites, pc'[s] = "app"
    PROVE  Life(s)'
<1>1. tx'[s] \in {"none", "closed"} BY DEF TxAfterUnit, TypeOK
<1>2. stack'[s] # <<>> => stack'[s][1] = "owner" BY PopStack DEF Life
<1> QED BY <1>1, <1>2 DEF Life, Flushing, Writable

LEMMA RollbackLife ==
    ASSUME TypeOK, NEW s \in Session, Life(s), stack[s] # <<>>,
           NEW i, RollbackOwner(s, i)
    PROVE  Life(s)'
<1>1. own'[s] = NoWrites BY DEF RollbackOwner, NativeRollback, TypeOK
<1>2. pc'[s] = "app" BY DEF RollbackOwner, TypeOK
<1> QED BY <1>1, <1>2, OwnerEnds DEF RollbackOwner

\* A step that touches neither the transaction, nor the units, nor a flush.
LEMMA AwayFromTx ==
    ASSUME TypeOK, NEW s \in Session, Life(s),
           tx'[s] = tx[s], stack'[s] = stack[s], own'[s] = own[s],
           pc'[s] = pc[s] \/ pc'[s] \in {"app", "failed"}
    PROVE  Life(s)'
BY DEF Life, Flushing, Writable, Innermost

LEMMA UnitLife ==
    ASSUME TypeOK, NEW s \in Session, Life(s), UnitStep(s)
    PROVE  Life(s)'
<1>0. stack[s] \in Seq({"owner", "joined"}) BY DEF TypeOK
<1>1. ASSUME NEW mode \in Mode, Begin(s, mode) PROVE Life(s)'
  <2>1. mode \in {"active", "readonly"} BY TxModeAssumption
  <2>2. pc'[s] = "app" /\ own'[s] = own[s]
    BY <1>1 DEF Begin, dbVars
  <2>3. PICK w \in {"owner", "joined"} :
          /\ stack'[s] = Append(stack[s], w)
          /\ w = "joined" => isExistingTransaction(s)
    BY <1>1 DEF Begin, TypeOK
  <2>4. stack'[s] # <<>> /\ stack'[s][1] = IF stack[s] = <<>> THEN w ELSE stack[s][1]
    <3>1. w \in {"owner", "joined"} BY <2>3
    <3>2. Append(stack[s], w) # <<>> BY <1>0, <3>1, AppendProperties
    <3>3. CASE stack[s] = <<>>
      <4>1. Append(stack[s], w)[1] = w BY <1>0, <3>1, <3>3, AppendProperties, EmptySeq
      <4> QED BY <2>3, <3>2, <3>3, <4>1
    <3>4. CASE stack[s] # <<>>
      <4>1. 1 \in 1..Len(stack[s]) BY <1>0, <3>4, EmptySeq
      <4>2. Append(stack[s], w)[1] = stack[s][1] BY <1>0, <3>1, <4>1, AppendProperties
      <4> QED BY <2>3, <3>2, <3>4, <4>2
    <3> QED BY <3>3, <3>4
  <2>5. stack[s] = <<>> => ~isExistingTransaction(s)
    BY DEF Life, isExistingTransaction
  <2>6. ~Writable(s)' => own'[s] = NoWrites
    BY <1>1, <2>1, <2>2 DEF Begin, Life, Writable, beginTransaction, Active, TypeOK
  <2>7. stack'[s][1] = "owner"
    <3>1. CASE stack[s] = <<>> BY <2>3, <2>4, <2>5, <3>1
    <3>2. CASE stack[s] # <<>> BY <2>4, <3>2 DEF Life
    <3> QED BY <3>1, <3>2
  <2> QED BY <2>2, <2>4, <2>6, <2>7 DEF Life, Flushing
<1>2. ASSUME EndRollback(s) PROVE Life(s)'
  BY <1>2, RollbackLife DEF EndRollback
<1>3. ASSUME EndRollbackJoined(s) PROVE Life(s)'
  <2>1. own'[s] = NoWrites /\ tx'[s] = "closed" /\ pc'[s] = "app"
    BY <1>3 DEF EndRollbackJoined, NativeRollback, TypeOK
  <2>2. stack'[s] # <<>> => stack'[s][1] = "owner"
    BY <1>3, PopStack DEF EndRollbackJoined, Life
  <2> QED BY <2>1, <2>2 DEF Life, Flushing, Writable
<1>4. ASSUME EndCommit(s) PROVE Life(s)'
  <2>1. /\ tx'[s] = tx[s] /\ stack'[s] = stack[s] /\ own'[s] = own[s]
        /\ pc'[s] = "commit" /\ Writable(s)
    BY <1>4 DEF EndCommit, StartFlush, dbVars, txVars, TypeOK, Writable
  <2> QED BY <1>4, <2>1 DEF EndCommit, Life, Flushing, Writable, Innermost
<1>5. ASSUME EndCommitJoined(s) PROVE Life(s)'
  <2>1. tx'[s] = tx[s] /\ own'[s] = own[s] /\ pc'[s] = "app"
    BY <1>5 DEF EndCommitJoined, dbVars
  <2>2. stack'[s] # <<>> /\ stack'[s][1] = "owner"
    BY <1>5, PopStack, JoinedIsInner DEF EndCommitJoined, Life
  <2> QED BY <2>1, <2>2 DEF Life, Flushing, Writable
<1>6. ASSUME CommitUnflushed(s) PROVE Life(s)'
  <2>1. own'[s] = NoWrites /\ pc'[s] = "app"
    BY <1>6 DEF CommitUnflushed, Life, Writable, dbVars
  <2> QED BY <1>6, <2>1, OwnerEnds DEF CommitUnflushed
<1>7. ASSUME Commit(s) PROVE Life(s)'
  <2>1. own'[s] = NoWrites /\ pc'[s] = "app" BY <1>7 DEF Commit, TypeOK
  <2>2. stack[s] # <<>> BY <1>7 DEF Commit, Life
  <2> QED BY <1>7, <2>1, <2>2, OwnerEnds DEF Commit
<1> QED BY <1>1, <1>2, <1>3, <1>4, <1>5, <1>6, <1>7 DEF UnitStep

LEMMA RaiseLife ==
    ASSUME TypeOK, NEW s \in Session, Life(s), NEW i, Raise(s, i)
    PROVE  Life(s)'
<1>1. CASE RollbackOwner(s, i) /\ pc[s] = "commit"
  BY <1>1, RollbackLife DEF Life
<1>2. CASE pc[s] = "flush" /\ UNCHANGED <<dbVars, txVars>> /\ pc' = [pc EXCEPT ![s] = "failed"]
  BY <1>2, AwayFromTx DEF dbVars, txVars, TypeOK
<1> QED BY <1>1, <1>2 DEF Raise

\* A statement that flush() runs: the transaction is there to write in.
LEMMA StatementLife ==
    ASSUME TypeOK, NEW s \in Session, Life(s), Flushing(s),
           tx' = tx, stack' = stack, pc' = pc
    PROVE  Life(s)'
BY DEF Life, Flushing, Writable, Innermost

LEMMA FlushLife ==
    ASSUME TypeOK, NEW s \in Session, Life(s), FlushStep(s)
    PROVE  Life(s)'
<1>1. ASSUME Flush(s) PROVE Life(s)'
  BY <1>1 DEF Flush, StartFlush, Life, Flushing, Writable, dbVars, txVars, TypeOK
<1>2. ASSUME FlushWithoutTransaction(s) PROVE Life(s)'
  BY <1>2, AwayFromTx DEF FlushWithoutTransaction, dbVars, txVars, TypeOK
<1>3. ASSUME FlushInserts(s) PROVE Life(s)'
  BY <1>3, StatementLife DEF FlushInserts, txVars
<1>4. ASSUME FlushDeletes(s) PROVE Life(s)'
  BY <1>4, StatementLife DEF FlushDeletes, txVars
<1>5. ASSUME FlushDone(s) PROVE Life(s)'
  BY <1>5, AwayFromTx DEF FlushDone, dbVars, txVars, TypeOK
<1>6. ASSUME StatementFails(s) PROVE Life(s)'
  BY <1>6, RaiseLife DEF StatementFails
<1>7. ASSUME NEW n \in Node, FlushUpdate(s, n) PROVE Life(s)'
  <2> DEFINE refused == [inst EXCEPT ![s][n].ver = NextVersion(n, inst[s][n].ver)]
  <2>1. Flushing(s) BY <1>7 DEF FlushUpdate
  <2>2. CASE tx' = tx /\ stack' = stack /\ pc' = pc BY <2>1, <2>2, StatementLife
  <2>3. CASE Raise(s, refused) BY <2>3, RaiseLife
  <2> QED BY <1>7, <2>2, <2>3 DEF FlushUpdate, txVars
<1> QED BY <1>1, <1>2, <1>3, <1>4, <1>5, <1>6, <1>7 DEF FlushStep

LEMMA AppLife ==
    ASSUME TypeOK, NEW s \in Session, Life(s), AppStep(s)
    PROVE  Life(s)'
<1>1. ASSUME NEW n \in Node, NEW t \in Tag, Create(s, n, t) \/ Modify(s, n, t) PROVE Life(s)'
  BY <1>1, AwayFromTx DEF Create, Modify, dbVars, txVars
<1>2. ASSUME NEW n \in Node,
             SaveExisting(s, n) \/ SaveNew(s, n) \/ SaveNewReadOnly(s, n) \/ Delete(s, n)
      PROVE  Life(s)'
  BY <1>2, AwayFromTx
  DEF SaveExisting, SaveNew, SaveNewReadOnly, Delete, dbVars, txVars, TypeOK
<1>3. ASSUME NEW n \in Node, SaveNewNative(s, n) PROVE Life(s)'
  <2>1. tx' = tx /\ stack' = stack /\ pc' = pc BY <1>3 DEF SaveNewNative, txVars
  <2>2. Writable(s) \/ own' = own
    BY <1>3 DEF SaveNewNative, Active, Writable
  <2> QED BY <2>1, <2>2 DEF Life, Flushing, Writable, Innermost
<1>4. ASSUME NEW n \in Node, Get(s, n) PROVE Life(s)'
  <2>1. stack' = stack /\ pc' = pc /\ own' = own /\ pc[s] = "app"
    BY <1>4 DEF Get, dbVars
  <2>2. tx'[s] = tx[s] \/ tx'[s] = "default"
    BY <1>4 DEF Get, assertTransaction, TypeOK
  <2> QED BY <2>1, <2>2 DEF Life, Flushing, Writable
<1>5. ASSUME Recover(s) PROVE Life(s)'
  BY <1>5, AwayFromTx DEF Recover, dbVars, txVars, TypeOK
<1>6. ASSUME Disconnect(s) PROVE Life(s)'
  BY <1>6 DEF Disconnect, NativeRollback, Life, Flushing, Writable, TypeOK
<1> QED BY <1>1, <1>2, <1>3, <1>4, <1>5, <1>6 DEF AppStep

LEMMA LifeNext == TypeOK /\ LifeInv /\ [Next]_vars => LifeInv'
<1> SUFFICES ASSUME TypeOK, LifeInv, [Next]_vars, NEW o \in Session PROVE Life(o)'
  BY DEF LifeInv
<1>1. CASE UNCHANGED vars
  BY <1>1 DEF vars, LifeInv, Life, Flushing, Writable, Innermost
<1>2. ASSUME NEW s \in Session, UnitStep(s) \/ FlushStep(s) \/ AppStep(s) PROVE Life(o)'
  <2>1. CASE o = s BY <1>2, <2>1, UnitLife, FlushLife, AppLife DEF LifeInv
  <2>2. CASE o # s
    <3>1. Same(o) BY <1>2, <2>2, UnitLocal, FlushLocal, AppLocal
    <3> QED BY <3>1, AwayFromTx DEF Same, LifeInv
  <2> QED BY <2>1, <2>2
<1> QED BY <1>1, <1>2 DEF Next

THEOREM LifeCorrect == Spec => []LifeInv
<1>1. TypeOK /\ LifeInv /\ [Next]_vars => LifeInv' BY LifeNext
<1> QED BY <1>1, LifeInit, TypeCorrect, PTL DEF Spec

\* Whatever nests, fails, is rolled back or caught: no transaction that a unit
\* of work began is open when the session is outside all units, and a session
\* without an open transaction has no uncommitted write.
THEOREM NoOrphan == Spec => []NoOrphanTransaction
<1>1. LifeInv => NoOrphanTransaction
  BY DEF LifeInv, Life, NoOrphanTransaction, Active, Writable
<1> QED BY <1>1, LifeCorrect, PTL

-----------------------------------------------------------------------------
(* What doCommit writes.                                                    *)

\* From the start of the flush of doCommit to the commit, every changed instance
\* of the cache is pending, and its pending insert, if it has one, is not executed.
ChangedPending(s) ==
    pc[s] = "commit" =>
        \A n \in cached[s] \ NativeId : inst[s][n].dirty => n \in ins[s] \cup upd[s]

PendingInv == \A s \in Session : ChangedPending(s)

\* FlushUpdate drops its instance from the pending updates when it has written it.
LEMMA UpdatePending ==
    ASSUME TypeOK, NEW s \in Session, NEW m \in Node, FlushUpdate(s, m), ChangedPending(s)
    PROVE  ChangedPending(s)'
<1> DEFINE v == NextVersion(m, inst[s][m].ver)
           written == [inst EXCEPT ![s][m].ver = v, ![s][m].dirty = FALSE]
           refused == [inst EXCEPT ![s][m].ver = v]
<1>1. CASE Raise(s, refused)
  <2>1. pc'[s] # "commit" BY <1>1 DEF Raise, RollbackOwner, TypeOK
  <2> QED BY <2>1 DEF ChangedPending
<1>2. CASE inst' = written /\ upd' = [upd EXCEPT ![s] = @ \ {m}] /\ UNCHANGED <<cached, ins, pc>>
  <2>1. inst[s][m] \in Instance BY InstanceType
  <2>2. ~inst'[s][m].dirty BY <1>2, <2>1 DEF TypeOK, Instance
  <2>3. \A n \in Node \ {m} : inst'[s][n] = inst[s][n] BY <1>2 DEF TypeOK
  <2>4. upd'[s] = upd[s] \ {m} /\ cached[s] \subseteq Node BY <1>2 DEF TypeOK
  <2> QED BY <1>2, <2>2, <2>3, <2>4 DEF ChangedPending
<1> QED BY <1>1, <1>2 DEF FlushUpdate, txVars, ghostVars, dbVars

LEMMA FlushPending ==
    ASSUME TypeOK, NEW s \in Session, FlushStep(s), ChangedPending(s)
    PROVE  ChangedPending(s)'
<1>1. ASSUME Flush(s) \/ FlushWithoutTransaction(s) \/ FlushDone(s) \/ StatementFails(s)
      PROVE  ChangedPending(s)'
  <2>1. pc'[s] # "commit"
    BY <1>1
    DEF Flush, StartFlush, FlushWithoutTransaction, FlushDone, StatementFails, Raise,
        RollbackOwner, TypeOK
  <2> QED BY <2>1 DEF ChangedPending
<1>2. ASSUME FlushInserts(s) PROVE ChangedPending(s)'
  <2>1. UNCHANGED <<cached, upd, pc>> /\ cached[s] \subseteq Node
    BY <1>2 DEF FlushInserts, TypeOK
  <2>2. ASSUME NEW n \in Node \ NativeId, inst'[s][n].dirty
        PROVE  n \notin ins[s] /\ inst[s][n].dirty
    <3>1. inst[s][n] \in Instance BY InstanceType
    <3> QED BY <1>2, <2>2, <3>1 DEF FlushInserts, Tracked, TypeOK, Instance
  <2> QED BY <2>1, <2>2 DEF ChangedPending
<1>3. ASSUME FlushDeletes(s) PROVE ChangedPending(s)'
  BY <1>3 DEF FlushDeletes, cacheVars, ChangedPending
<1> QED BY <1>1, <1>2, <1>3, UpdatePending DEF FlushStep

LEMMA UnitPending ==
    ASSUME TypeOK, NEW s \in Session, UnitStep(s), ChangedPending(s)
    PROVE  ChangedPending(s)'
<1>1. ASSUME EndCommit(s) PROVE ChangedPending(s)'
  BY <1>1 DEF EndCommit, StartFlush, cacheVars, Spool, ChangedPending, TypeOK
<1>2. ASSUME ~EndCommit(s) PROVE ChangedPending(s)'
  <2>1. pc'[s] # "commit"
    BY <1>2
    DEF UnitStep, Begin, EndRollback, EndRollbackJoined, RollbackOwner, EndCommitJoined,
        CommitUnflushed, Commit, TypeOK
  <2> QED BY <2>1 DEF ChangedPending
<1> QED BY <1>1, <1>2

LEMMA AppPending ==
    ASSUME TypeOK, NEW s \in Session, AppStep(s)
    PROVE  ChangedPending(s)'
<1>1. pc'[s] # "commit"
  BY DEF AppStep, Create, Modify, SaveExisting, SaveNew, SaveNewNative, SaveNewReadOnly,
         Get, Delete, Recover, Disconnect, TypeOK
<1> QED BY <1>1 DEF ChangedPending

LEMMA PendingNext ==
    ASSUME TypeOK, PendingInv, [Next]_vars
    PROVE  PendingInv'
<1> SUFFICES ASSUME NEW o \in Session PROVE ChangedPending(o)' BY DEF PendingInv
<1>0. ChangedPending(o) BY DEF PendingInv
<1>1. CASE UNCHANGED vars BY <1>0, <1>1 DEF vars, ChangedPending
<1>2. ASSUME NEW s \in Session, UnitStep(s) \/ FlushStep(s) \/ AppStep(s)
      PROVE  ChangedPending(o)'
  <2>1. CASE o = s BY <1>0, <1>2, <2>1, UnitPending, FlushPending, AppPending
  <2>2. CASE o # s
    <3>1. Same(o) BY <1>2, <2>2, UnitLocal, FlushLocal, AppLocal
    <3> QED BY <1>0, <3>1 DEF Same, ChangedPending
  <2> QED BY <2>1, <2>2
<1> QED BY <1>1, <1>2 DEF Next

\* A commit leaves no changed instance of the cache unwritten, whatever was saved or
\* modified when and whatever was flushed before, if its identifier is not native.
\* (With a native one it may: run session_native_dirty.)
GeneratedWritten ==
    [][\A s \in Session : Commit(s) =>
          \A n \in cached[s] \ NativeId : ~inst[s][n].dirty]_vars

THEOREM NoGeneratedDirty == Spec => GeneratedWritten
<1>1. Init => PendingInv BY DEF Init, PendingInv, ChangedPending
<1>2. TypeOK /\ PendingInv /\ [Next]_vars => PendingInv' BY PendingNext
<1>3. PendingInv =>
        [\A s \in Session : Commit(s) =>
            \A n \in cached[s] \ NativeId : ~inst[s][n].dirty]_vars
  BY DEF PendingInv, ChangedPending, Commit, Flushed
<1> QED BY <1>1, <1>2, <1>3, TypeCorrect, PTL DEF Spec, GeneratedWritten

\* If no identifiers are native, that is every instance of the cache.
THEOREM NothingDirty ==
    ASSUME NativeId = {}
    PROVE  Spec => NothingLeftDirty
<1>1. [\A s \in Session : Commit(s) =>
          \A n \in cached[s] \ NativeId : ~inst[s][n].dirty]_vars
      => [\A s \in Session : Commit(s) => \A n \in cached[s] : ~inst[s][n].dirty]_vars
  OBVIOUS
<1> QED BY <1>1, NoGeneratedDirty, PTL DEF GeneratedWritten, NothingLeftDirty
=============================================================================
