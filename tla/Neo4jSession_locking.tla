------------------------ MODULE Neo4jSession_locking ------------------------
(***************************************************************************)
(* Optimistic locking, for every number of sessions, nodes and             *)
(* modifications.  However deep units nest and whatever becomes of the     *)
(* instances after an exception, a commit that changes a versioned node    *)
(* raises its version.  Sessions whose units do not nest and that drop     *)
(* their instances after an exception or a rollback implement              *)
(* VersionedGraph.  There both conditions are needed: without the second   *)
(* NoLostUpdate fails; the run session_joined_rollback shows what happens  *)
(* without the first.  One invariant serves both: its parts about content  *)
(* are conditional on Flat.                                                *)
(***************************************************************************)
EXTENDS Neo4jSession_proofs

\* Units of work that do not nest ...
OneLevel == MaxDepth <= 1

\* ... of applications that drop their instances after an exception or a rollback.
Flat == OneLevel /\ ~Reuse

KnowsRow(s, n) == inst[s][n].st \in {"persistent", "removed"}
Wrote(s, n) == own[s][n] # NoRow

\* s is bringing node n into the graph, and has not committed it.
Creating(s, n) ==
    \/ inst[s][n].st = "transient"
    \/ n \in ins[s] \ NativeId
    \/ Wrote(s, n) /\ own[s][n].live /\ ~store[n].live

\* A node that is being created is known to nobody else.
CreatedAlone(s, n) ==
    Creating(s, n) =>
        /\ ~store[n].live
        /\ \A o \in Session \ {s} : inst[o][n].st = "none" /\ ~Wrote(o, n)

\* The CREATE that still has to run writes the first row of its node.
Unwritten(s, n) ==
    inst[s][n].st = "transient" \/ n \in ins[s] \ NativeId =>
        inst[s][n].ver = 0 /\ ~Wrote(s, n)

\* Only instances that were saved or read are pending or cached.
PendingKnown(s, n) ==
    n \in ins[s] \cup upd[s] \cup del[s] \cup cached[s] => KnowsRow(s, n)

\* Uncommitted writes of two sessions never meet in a node.
Exclusive(s, n) == Wrote(s, n) => \A o \in Session \ {s} : ~Wrote(o, n)

\* Instance i is behind the row, or carries everything the row carries.
Covers(i, row) == i.ver <= row.ver /\ (i.ver = row.ver => row.val \subseteq i.val)

\* An uncommitted row is derived from the committed row it will replace: it has a
\* later version always, and under Flat it has all of its content.
Derived(s, n) ==
    n \in Versioned /\ Wrote(s, n) /\ own[s][n].live /\ store[n].live =>
        /\ own[s][n].ver > store[n].ver
        /\ Flat => store[n].val \subseteq own[s][n].val

\* The version of an instance tells whether the instance is stale: it is behind
\* the row the session sees, or carries everything that row carries.  (An instance
\* that outlives the rollback of a joined unit is ahead of the row.)
InstanceCovers(s, n) ==
    /\ Flat
    /\ n \in Versioned
    /\ pc[s] # "failed"
    /\ KnowsRow(s, n)
    /\ Visible(s, n).live
    => Covers(inst[s][n], Visible(s, n))

NodeInv(s, n) ==
    /\ CreatedAlone(s, n) /\ Unwritten(s, n) /\ PendingKnown(s, n)
    /\ Exclusive(s, n) /\ Derived(s, n) /\ InstanceCovers(s, n)

LockInv == \A s \in Session, n \in Node : NodeInv(s, n)

LEMMA LockInit == Init => LockInv
<1> SUFFICES ASSUME Init, NEW s \in Session, NEW n \in Node PROVE NodeInv(s, n)
  BY DEF LockInv
<1>1. /\ inst[s][n].st = "none" /\ own[s][n] = NoRow
      /\ ins[s] = {} /\ upd[s] = {} /\ del[s] = {} /\ cached[s] = {}
  BY DEF Init, NoInstances, NoInstance, NoWrites
<1> QED
  BY <1>1 DEF NodeInv, CreatedAlone, Creating, Unwritten, PendingKnown, Exclusive, Derived,
              InstanceCovers, KnowsRow, Wrote

-----------------------------------------------------------------------------
(***************************************************************************)
(* What a step of s can do to node n as far as the other sessions see it:  *)
(* commit s's own row, or create the node at once; write where nobody else *)
(* has written; learn of a row it sees, or of a node nobody knows.         *)
(***************************************************************************)

StoreEffect(s, n) ==
    \/ store'[n] = store[n]
    \/ Wrote(s, n) /\ store'[n] = own[s][n]
    \/ inst[s][n].st = "transient"

WriteEffect(s, n) ==
    own'[s][n] # NoRow /\ ~Wrote(s, n) =>
        /\ \A o \in Session \ {s} : ~Wrote(o, n)
        /\ store[n].live \/ inst[s][n].st # "none"

InstEffect(s, n) ==
    inst'[s][n].st # "none" /\ inst[s][n].st = "none" =>
        \/ Visible(s, n).live
        \/ \A o \in Session : inst[o][n].st = "none" /\ ~Wrote(o, n)

Effect(s, n) == StoreEffect(s, n) /\ WriteEffect(s, n) /\ InstEffect(s, n)

\* Such a step keeps the invariant of every other session.
LEMMA Others ==
    ASSUME TypeOK, TypeOK', LockInv, NEW s \in Session, NEW n \in Node, Effect(s, n),
           \A o \in Session \ {s} : Same(o),
           NEW o \in Session, o # s
    PROVE  NodeInv(o, n)'
<1> USE DEF Wrote, KnowsRow
<1>1. NodeInv(o, n) /\ NodeInv(s, n) BY DEF LockInv
<1>2. Same(o) OBVIOUS
<1>3. ASSUME Creating(o, n)
      PROVE  ~store[n].live /\ store'[n] = store[n] /\ inst[s][n].st = "none" /\ ~Wrote(s, n)
  BY <1>1, <1>3 DEF NodeInv, CreatedAlone, Effect, StoreEffect
<1>4. ASSUME Creating(o, n)' PROVE Creating(o, n)
  BY <1>1, <1>2, <1>4 DEF Creating, Same, Effect, StoreEffect, NodeInv, Exclusive, CreatedAlone
<1>5. CreatedAlone(o, n)'
  <2> SUFFICES ASSUME Creating(o, n)'
               PROVE  /\ ~store'[n].live
                      /\ \A p \in Session \ {o} : inst'[p][n].st = "none" /\ own'[p][n] = NoRow
    BY DEF CreatedAlone
  <2>1. Creating(o, n) BY <1>4
  <2>2. own'[s][n] = NoRow BY <1>3, <2>1 DEF Effect, WriteEffect
  <2>3. inst'[s][n].st = "none"
    <3>1. ~Visible(s, n).live BY <1>3, <2>1 DEF Visible
    <3>2. inst[o][n].st # "none" \/ Wrote(o, n)
      BY <1>1, <2>1 DEF Creating, NodeInv, PendingKnown
    <3> QED BY <1>3, <2>1, <3>1, <3>2 DEF Effect, InstEffect
  <2>4. ASSUME NEW p \in Session \ {o, s}
        PROVE  inst'[p][n].st = "none" /\ own'[p][n] = NoRow
    BY <1>1, <2>1 DEF NodeInv, CreatedAlone, Same
  <2> QED BY <1>3, <2>1, <2>2, <2>3, <2>4
<1>6. Unwritten(o, n)' /\ PendingKnown(o, n)'
  BY <1>1, <1>2 DEF NodeInv, Unwritten, PendingKnown, Same
<1>7. Exclusive(o, n)'
  <2> SUFFICES ASSUME Wrote(o, n) PROVE \A p \in Session \ {o} : own'[p][n] = NoRow
    BY <1>2 DEF Exclusive, Same
  <2>1. \A p \in Session \ {o} : ~Wrote(p, n) BY <1>1 DEF NodeInv, Exclusive
  <2>2. own'[s][n] = NoRow BY <2>1 DEF Effect, WriteEffect
  <2> QED BY <2>1, <2>2 DEF Same
<1>8. CASE store'[n] = store[n]
  BY <1>1, <1>2, <1>5, <1>6, <1>7, <1>8
  DEF NodeInv, Derived, InstanceCovers, Same, Visible
<1>9. CASE ~Wrote(o, n) /\ inst[o][n].st = "none"
  BY <1>2, <1>5, <1>6, <1>7, <1>9 DEF NodeInv, Derived, InstanceCovers, Same
<1>10. CASE inst[s][n].st = "transient"
  BY <1>1, <1>9, <1>10 DEF NodeInv, CreatedAlone, Creating
<1>11. CASE Wrote(s, n) /\ store'[n] = own[s][n]
  <2>1. ~Wrote(o, n) BY <1>1, <1>11 DEF NodeInv, Exclusive
  <2>2. Derived(o, n)' BY <1>2, <2>1 DEF Derived, Same
  <2>3. InstanceCovers(o, n)'
    <3> SUFFICES ASSUME Flat, n \in Versioned, pc[o] # "failed", KnowsRow(o, n), own[s][n].live
                 PROVE  Covers(inst[o][n], own[s][n])
      BY <1>2, <1>11, <2>1 DEF InstanceCovers, Visible, Same
    <3>1. store[n].live
      BY <1>1, <1>11 DEF NodeInv, CreatedAlone, Creating
    <3>2. Covers(inst[o][n], store[n])
      BY <1>1, <2>1, <3>1 DEF NodeInv, InstanceCovers, Visible
    <3>3. own[s][n].ver > store[n].ver BY <1>1, <1>11, <3>1 DEF NodeInv, Derived
    <3>4. inst[o][n].ver \in Int /\ store[n].ver \in Int /\ own[s][n].ver \in Int
      <4>1. inst[o][n] \in Instance BY InstanceType
      <4>2. store[n] \in Row /\ own[s][n] \in Row BY <1>11 DEF TypeOK
      <4>3. \A x \in 0..MaxVersion : x \in Int BY BoundAssumption
      <4> QED BY <4>1, <4>2, <4>3 DEF Instance, Row
    <3> QED BY <3>2, <3>3, <3>4 DEF Covers
  <2> QED BY <1>5, <1>6, <1>7, <2>2, <2>3 DEF NodeInv
<1> QED BY <1>8, <1>10, <1>11 DEF Effect, StoreEffect

-----------------------------------------------------------------------------
(* What a step of s does to s.                                              *)

Kept(s, n) == NodeInv(s, n)' /\ Effect(s, n)

\* The session forgets everything, its native transaction may end.
LEMMA SelfCleared ==
    ASSUME TypeOK, LockInv, NEW s \in Session, NEW n \in Node,
           store' = store, own'[s] = own[s] \/ own'[s] = NoWrites,
           inst'[s] = NoInstances, cached'[s] = {},
           ins'[s] = {}, upd'[s] = {}, del'[s] = {},
           \A o \in Session \ {s} : Same(o)
    PROVE  Kept(s, n)
<1> USE DEF Wrote, KnowsRow
<1>1. NodeInv(s, n) BY DEF LockInv
<1>2. inst'[s][n].st = "none" /\ (own'[s][n] = own[s][n] \/ own'[s][n] = NoRow)
  BY DEF NoInstances, NoInstance, NoWrites
<1>3. CreatedAlone(s, n)'
  BY <1>1, <1>2 DEF NodeInv, CreatedAlone, Creating, Same
<1>4. Exclusive(s, n)' /\ Derived(s, n)'
  BY <1>1, <1>2 DEF NodeInv, Exclusive, Derived, Same
<1>5. Unwritten(s, n)' /\ PendingKnown(s, n)' /\ InstanceCovers(s, n)'
  BY <1>2 DEF Unwritten, PendingKnown, InstanceCovers
<1>6. Effect(s, n) BY <1>2 DEF Effect, StoreEffect, WriteEffect, InstEffect
<1> QED BY <1>3, <1>4, <1>5, <1>6 DEF Kept, NodeInv

\* The row and the instance stay as they are, a pending insert is at most dropped.
LEMMA SelfQuiet ==
    ASSUME TypeOK, LockInv, NEW s \in Session, NEW n \in Node,
           store'[n] = store[n], own'[s][n] = own[s][n], inst'[s][n] = inst[s][n],
           n \in ins'[s] => n \in ins[s], PendingKnown(s, n)',
           Flat => pc[s] # "failed" \/ pc'[s] = "failed",
           \A o \in Session \ {s} : Same(o)
    PROVE  Kept(s, n)
<1> USE DEF Wrote, KnowsRow
<1>1. NodeInv(s, n) BY DEF LockInv
<1>2. CreatedAlone(s, n)'
  BY <1>1 DEF NodeInv, CreatedAlone, Creating, Same
<1>3. Exclusive(s, n)' /\ Derived(s, n)'
  BY <1>1 DEF NodeInv, Exclusive, Derived, Same
<1>4. Unwritten(s, n)'
  BY <1>1 DEF NodeInv, Unwritten
<1>5. InstanceCovers(s, n)'
  BY <1>1 DEF NodeInv, InstanceCovers, Visible
<1>6. Effect(s, n)
  <2>1. StoreEffect(s, n) BY DEF StoreEffect
  <2>2. WriteEffect(s, n) BY DEF WriteEffect
  <2>3. InstEffect(s, n) BY DEF InstEffect
  <2> QED BY <2>1, <2>2, <2>3 DEF Effect
<1> QED BY <1>2, <1>3, <1>4, <1>5, <1>6 DEF Kept, NodeInv

\* The instance outlives its session or its transaction.
LEMMA SelfReused ==
    ASSUME TypeOK, LockInv, ~Flat, NEW s \in Session, NEW n \in Node,
           store'[n] = store[n], own'[s][n] = own[s][n] \/ own'[s][n] = NoRow,
           inst'[s][n].st = inst[s][n].st,
           inst'[s][n].ver = inst[s][n].ver \/ (KnowsRow(s, n) /\ n \notin ins'[s]),
           n \in ins'[s] => n \in ins[s], PendingKnown(s, n)',
           \A o \in Session \ {s} : Same(o)
    PROVE  Kept(s, n)
<1> USE DEF Wrote, KnowsRow
<1>1. NodeInv(s, n) BY DEF LockInv
<1>2. CreatedAlone(s, n)'
  BY <1>1 DEF NodeInv, CreatedAlone, Creating, Same
<1>3. Exclusive(s, n)' /\ Derived(s, n)'
  BY <1>1 DEF NodeInv, Exclusive, Derived, Same
<1>4. Unwritten(s, n)'
  BY <1>1 DEF NodeInv, Unwritten
<1>5. InstanceCovers(s, n)' BY DEF InstanceCovers
<1>6. Effect(s, n)
  <2>1. StoreEffect(s, n) BY DEF StoreEffect
  <2>2. WriteEffect(s, n) BY DEF WriteEffect
  <2>3. InstEffect(s, n) BY DEF InstEffect
  <2> QED BY <2>1, <2>2, <2>3 DEF Effect
<1> QED BY <1>2, <1>3, <1>4, <1>5, <1>6 DEF Kept, NodeInv

\* The session is cleared; the application keeps the instances i, or drops them.
LEMMA ClearedKept ==
    ASSUME TypeOK, LockInv, NEW s \in Session, NEW n \in Node,
           NEW i \in [Session -> [Node -> Instance]],
           i[s][n].st = inst[s][n].st, i[s][n] = inst[s][n] \/ n \in upd[s],
           store' = store, own'[s] = own[s] \/ own'[s] = NoWrites,
           ClearSession(s, i), \A o \in Session \ {s} : Same(o)
    PROVE  Kept(s, n)
<1>1. cached'[s] = {} /\ ins'[s] = {} /\ upd'[s] = {} /\ del'[s] = {}
  BY DEF ClearSession, TypeOK
<1>2. CASE Reuse
  <2>1. inst'[s][n] = i[s][n] BY <1>2 DEF ClearSession
  <2>2. own'[s][n] = own[s][n] \/ own'[s][n] = NoRow BY DEF NoWrites
  <2>3. PendingKnown(s, n)' BY <1>1 DEF PendingKnown
  <2>4. n \in upd[s] => KnowsRow(s, n) BY DEF LockInv, NodeInv, PendingKnown
  <2> QED BY <1>1, <1>2, <2>1, <2>2, <2>3, <2>4, SelfReused DEF Flat
<1>3. CASE ~Reuse
  <2>1. inst'[s] = NoInstances BY <1>3 DEF ClearSession
  <2> QED BY <1>1, <2>1, SelfCleared
<1> QED BY <1>2, <1>3

-----------------------------------------------------------------------------
(* Units of work.  When they do not nest, each owns its transaction.        *)

Shallow == \A s \in Session : Len(stack[s]) <= 1

LEMMA OnlyOwners ==
    ASSUME TypeOK, LifeInv, Shallow, NEW s \in Session, stack[s] # <<>>
    PROVE  Innermost(s) = "owner"
<1>1. stack[s] \in Seq({"owner", "joined"}) BY DEF TypeOK
<1>2. Len(stack[s]) \in Nat /\ Len(stack[s]) # 0 BY <1>1, EmptySeq
<1>3. Len(stack[s]) <= 1 BY DEF Shallow
<1>4. \A l \in Nat : l # 0 /\ l <= 1 => l = 1 OBVIOUS
<1>5. Len(stack[s]) = 1 BY <1>2, <1>3, <1>4
<1>6. stack[s][1] = "owner" BY DEF LifeInv, Life
<1> QED BY <1>5, <1>6 DEF Innermost

LEMMA RollbackKept ==
    ASSUME TypeOK, LockInv, NEW s \in Session, NEW n \in Node,
           NEW i \in [Session -> [Node -> Instance]],
           i[s][n].st = inst[s][n].st, i[s][n] = inst[s][n] \/ n \in upd[s],
           RollbackOwner(s, i), \A o \in Session \ {s} : Same(o)
    PROVE  Kept(s, n)
<1>1. own'[s] = NoWrites BY DEF RollbackOwner, NativeRollback, TypeOK
<1>2. store' = store /\ ClearSession(s, i) BY DEF RollbackOwner
<1> QED BY <1>1, <1>2, ClearedKept

LEMMA StartFlushKept ==
    ASSUME TypeOK, LockInv, NEW s \in Session, NEW n \in Node, NEW phase,
           pc[s] # "failed", StartFlush(s, phase),
           \A o \in Session \ {s} : Same(o)
    PROVE  Kept(s, n)
<1>1. /\ store' = store /\ own' = own /\ inst' = inst /\ cached' = cached
      /\ ins' = ins /\ del' = del /\ upd'[s] = upd[s] \cup Spool(s)
  BY DEF StartFlush, dbVars, cacheVars, TypeOK
<1>2. PendingKnown(s, n) BY DEF LockInv, NodeInv
<1>3. PendingKnown(s, n)' BY <1>1, <1>2 DEF PendingKnown, Spool, KnowsRow
<1> QED BY <1>1, <1>3, SelfQuiet

LEMMA CommitKept ==
    ASSUME TypeOK, LockInv, NEW s \in Session, NEW n \in Node, Commit(s),
           \A o \in Session \ {s} : Same(o)
    PROVE  Kept(s, n)
<1> USE DEF Wrote, KnowsRow
<1>1. NodeInv(s, n) BY DEF LockInv
<1>2. store'[n] = Visible(s, n) /\ own'[s][n] = NoRow
  BY DEF Commit, Committed, NoWrites, TypeOK
<1>3. \/ inst' = [inst EXCEPT ![s] = NoInstances]
      \/ inst' = inst
  BY DEF Commit, EndSession, ClearSession, cacheVars
<1>4. /\ ins'[s] \subseteq ins[s] /\ upd'[s] \subseteq upd[s]
      /\ del'[s] \subseteq del[s] /\ cached'[s] \subseteq cached[s]
      /\ inst' # inst => ins'[s] = {} /\ upd'[s] = {} /\ del'[s] = {} /\ cached'[s] = {}
  BY DEF Commit, EndSession, ClearSession, cacheVars, pendVars, TypeOK
<1>5. Effect(s, n)
  <2>1. inst'[s][n].st # "none" => inst[s][n].st # "none"
    BY <1>3 DEF TypeOK, NoInstances, NoInstance
  <2> QED BY <1>2, <2>1 DEF Effect, StoreEffect, WriteEffect, InstEffect, Visible
<1>6. CASE inst' # inst
  <2>1. inst'[s][n].st = "none" BY <1>3, <1>6 DEF TypeOK, NoInstances, NoInstance
  <2> QED
    BY <1>2, <1>4, <1>5, <1>6, <2>1
    DEF Kept, NodeInv, CreatedAlone, Creating, Unwritten, PendingKnown, Exclusive, Derived,
        InstanceCovers
<1>7. CASE inst' = inst
  <2>1. ins[s] = {} /\ pc[s] # "failed" BY DEF Commit, Flushed
  <2>2. CreatedAlone(s, n)'
    BY <1>1, <1>2, <1>4, <1>7, <2>1 DEF NodeInv, CreatedAlone, Creating, Unwritten, Visible, Same
  <2>3. Unwritten(s, n)' /\ PendingKnown(s, n)'
    BY <1>1, <1>2, <1>4, <1>7 DEF NodeInv, Unwritten, PendingKnown
  <2>4. Exclusive(s, n)' /\ Derived(s, n)' BY <1>2 DEF Exclusive, Derived
  <2>5. InstanceCovers(s, n)'
    BY <1>1, <1>2, <1>7, <2>1 DEF NodeInv, InstanceCovers, Visible
  <2> QED BY <1>5, <2>2, <2>3, <2>4, <2>5 DEF Kept, NodeInv
<1> QED BY <1>6, <1>7

LEMMA UnitKept ==
    ASSUME TypeOK, LifeInv, LockInv, OneLevel => Shallow,
           NEW s \in Session, NEW n \in Node, UnitStep(s),
           \A o \in Session \ {s} : Same(o)
    PROVE  Kept(s, n)
<1>0. PendingKnown(s, n) BY DEF LockInv, NodeInv
<1>1. ASSUME NEW mode \in Mode, Begin(s, mode) PROVE Kept(s, n)
  <2>1. UNCHANGED <<store, own, inst, cached, ins, upd, del, pc>> /\ pc[s] = "app"
    BY <1>1 DEF Begin, dbVars, cacheVars, pendVars
  <2>2. PendingKnown(s, n)' BY <1>0, <2>1 DEF PendingKnown, KnowsRow
  <2> QED BY <2>1, <2>2, SelfQuiet
<1>2. ASSUME EndRollback(s) PROVE Kept(s, n)
  BY <1>2, RollbackKept DEF EndRollback, TypeOK
<1>3. ASSUME EndRollbackJoined(s) \/ EndCommitJoined(s) PROVE Kept(s, n)
  <2>1. ~Flat BY <1>3, OnlyOwners DEF EndRollbackJoined, EndCommitJoined, Flat
  <2>2. UNCHANGED <<store, inst, cached, ins, upd, del>>
    BY <1>3 DEF EndRollbackJoined, EndCommitJoined, dbVars, cacheVars, pendVars
  <2>3. own'[s][n] = own[s][n] \/ own'[s][n] = NoRow
    <3>1. own' = [own EXCEPT ![s] = NoWrites] \/ own' = own
      BY <1>3 DEF EndRollbackJoined, EndCommitJoined, NativeRollback, dbVars
    <3> QED BY <3>1 DEF NoWrites, TypeOK
  <2>4. PendingKnown(s, n)' BY <1>0, <2>2 DEF PendingKnown, KnowsRow
  <2> QED BY <2>1, <2>2, <2>3, <2>4, SelfReused
<1>4. ASSUME EndCommit(s) PROVE Kept(s, n)
  BY <1>4, StartFlushKept DEF EndCommit
<1>5. ASSUME CommitUnflushed(s) PROVE Kept(s, n)
  <2>1. UNCHANGED <<store, own, pc>> /\ pc[s] = "app"
    BY <1>5 DEF CommitUnflushed, dbVars
  <2>2. CASE Closing(s)
    <3>1. ClearSession(s, inst) BY <1>5, <2>2 DEF CommitUnflushed, EndSession
    <3> QED BY <2>1, <3>1, ClearedKept DEF TypeOK
  <2>3. CASE ~Closing(s)
    <3>1. UNCHANGED <<inst, cached, ins, upd, del>>
      BY <1>5, <2>3 DEF CommitUnflushed, EndSession, cacheVars, pendVars
    <3>2. PendingKnown(s, n)' BY <1>0, <3>1 DEF PendingKnown, KnowsRow
    <3> QED BY <2>1, <3>1, <3>2, SelfQuiet
  <2> QED BY <2>2, <2>3
<1>6. ASSUME Commit(s) PROVE Kept(s, n) BY <1>6, CommitKept
<1> QED BY <1>1, <1>2, <1>3, <1>4, <1>5, <1>6 DEF UnitStep

-----------------------------------------------------------------------------
(* The statements of flush().                                               *)

LEMMA RaiseKept ==
    ASSUME TypeOK, LockInv, NEW s \in Session, NEW n \in Node,
           NEW i \in [Session -> [Node -> Instance]],
           \A k \in Node : /\ i[s][k].st = inst[s][k].st
                           /\ i[s][k] = inst[s][k] \/ (k \in upd[s] /\ ins[s] = {}),
           Raise(s, i), \A o \in Session \ {s} : Same(o)
    PROVE  Kept(s, n)
<1>1. CASE RollbackOwner(s, i) BY <1>1, RollbackKept
<1>2. CASE ~RollbackOwner(s, i)
  <2> USE DEF Wrote, KnowsRow
  <2>1. NodeInv(s, n) BY DEF LockInv
  <2>2. /\ store' = store /\ own' = own /\ cached' = cached /\ inst' = i
        /\ ins'[s] = {} /\ upd'[s] = {} /\ del'[s] = {} /\ pc'[s] = "failed"
    BY <1>2 DEF Raise, dbVars, TypeOK
  <2>3. inst'[s][n].st = inst[s][n].st BY <2>2
  <2>4. CreatedAlone(s, n)'
    BY <2>1, <2>2, <2>3 DEF NodeInv, CreatedAlone, Creating, Same
  <2>5. Exclusive(s, n)' /\ Derived(s, n)'
    BY <2>1, <2>2 DEF NodeInv, Exclusive, Derived, Same
  <2>6. Unwritten(s, n)'
    BY <2>1, <2>2, <2>3 DEF NodeInv, Unwritten, PendingKnown
  <2>7. PendingKnown(s, n)'
    BY <2>1, <2>2, <2>3 DEF NodeInv, PendingKnown
  <2>8. InstanceCovers(s, n)' BY <2>2 DEF InstanceCovers
  <2>9. Effect(s, n)
    BY <2>2, <2>3 DEF Effect, StoreEffect, WriteEffect, InstEffect
  <2> QED BY <2>4, <2>5, <2>6, <2>7, <2>8, <2>9 DEF Kept, NodeInv
<1> QED BY <1>1, <1>2

LEMMA FlushInsertsKept ==
    ASSUME TypeOK, LockInv, NEW s \in Session, NEW n \in Node, FlushInserts(s),
           \A o \in Session \ {s} : Same(o)
    PROVE  Kept(s, n)
<1> USE DEF Wrote, KnowsRow
<1>1. NodeInv(s, n) BY DEF LockInv
<1>2. /\ store' = store /\ cached' = cached /\ upd' = upd /\ del' = del /\ pc' = pc
      /\ ins'[s] = {} /\ pc[s] # "failed"
  BY DEF FlushInserts, Flushing, TypeOK
<1>3. /\ inst'[s][n].st = inst[s][n].st /\ inst'[s][n].ver = inst[s][n].ver
      /\ inst'[s][n].val = inst[s][n].val
  <2>1. inst[s][n] \in Instance BY InstanceType
  <2> QED BY <2>1 DEF FlushInserts, Tracked, TypeOK, Instance
<1>4. CASE n \in ins[s] \ NativeId
  <2>1. own'[s][n] = NewRow(inst[s][n]) BY <1>4 DEF FlushInserts, TypeOK
  <2>2. own'[s][n].live /\ own'[s][n].ver = 0 /\ own'[s][n].val = inst[s][n].val
    BY <2>1 DEF NewRow
  <2>3. /\ ~store[n].live
        /\ \A o \in Session \ {s} : inst[o][n].st = "none" /\ ~Wrote(o, n)
        /\ inst[s][n].ver = 0 /\ KnowsRow(s, n) /\ ~Wrote(s, n)
    BY <1>1, <1>4 DEF NodeInv, CreatedAlone, Creating, Unwritten, PendingKnown
  <2>4. CreatedAlone(s, n)' /\ Exclusive(s, n)'
    BY <1>2, <2>3 DEF CreatedAlone, Exclusive, Same
  <2>5. Unwritten(s, n)' BY <1>2, <1>3, <2>3 DEF Unwritten
  <2>6. PendingKnown(s, n)' BY <1>3, <2>3 DEF PendingKnown
  <2>7. Derived(s, n)' BY <1>2, <2>3 DEF Derived
  <2>8. InstanceCovers(s, n)'
    <3>1. own'[s][n] # NoRow
      BY <2>1, NewRowType, InstanceType, NoRowAssumption
    <3> QED BY <1>3, <2>2, <2>3, <3>1 DEF InstanceCovers, Visible, Covers
  <2>9. Effect(s, n) BY <1>2, <1>3, <2>3 DEF Effect, StoreEffect, WriteEffect, InstEffect
  <2> QED BY <2>4, <2>5, <2>6, <2>7, <2>8, <2>9 DEF Kept, NodeInv
<1>5. CASE n \notin ins[s] \ NativeId
  <2>1. own'[s][n] = own[s][n] BY <1>5 DEF FlushInserts, TypeOK
  <2>2. CreatedAlone(s, n)' /\ Exclusive(s, n)' /\ Derived(s, n)'
    BY <1>1, <1>2, <1>3, <2>1
    DEF NodeInv, CreatedAlone, Creating, Exclusive, Derived, Same
  <2>3. Unwritten(s, n)' /\ PendingKnown(s, n)'
    BY <1>1, <1>2, <1>3, <2>1 DEF NodeInv, Unwritten, PendingKnown
  <2>4. InstanceCovers(s, n)'
    BY <1>1, <1>2, <1>3, <2>1 DEF NodeInv, InstanceCovers, Visible, Covers
  <2>5. Effect(s, n)
    BY <1>2, <1>3, <2>1 DEF Effect, StoreEffect, WriteEffect, InstEffect
  <2> QED BY <2>2, <2>3, <2>4, <2>5 DEF Kept, NodeInv
<1> QED BY <1>4, <1>5

LEMMA FlushUpdateKept ==
    ASSUME TypeOK, LockInv, NEW s \in Session, NEW n \in Node,
           NEW m \in Node, FlushUpdate(s, m),
           \A o \in Session \ {s} : Same(o)
    PROVE  Kept(s, n)
<1> USE DEF Wrote, KnowsRow
<1> DEFINE v == NextVersion(m, inst[s][m].ver)
           written == [inst EXCEPT ![s][m].ver = v, ![s][m].dirty = FALSE]
           refused == [inst EXCEPT ![s][m].ver = v]
<1>1. NodeInv(s, n) BY DEF LockInv
<1>2. inst[s][m] \in Instance BY InstanceType
<1>3. v \in 0..MaxVersion BY NextVersionType
<1>4. Flushing(s) /\ pc[s] # "failed" /\ ins[s] = {} /\ m \in upd[s] /\ ~LockedByOther(s, m)
  BY DEF FlushUpdate, Flushing
<1>5. CASE Raise(s, refused)
  <2>1. [inst[s][m] EXCEPT !.ver = v] \in Instance BY <1>2, <1>3 DEF Instance
  <2>2. refused \in [Session -> [Node -> Instance]] BY <2>1 DEF TypeOK
  <2>3. ASSUME NEW k \in Node
        PROVE  /\ refused[s][k].st = inst[s][k].st
               /\ refused[s][k] = inst[s][k] \/ (k \in upd[s] /\ ins[s] = {})
    <3>1. CASE k = m
      <4>1. refused[s][m] = [inst[s][m] EXCEPT !.ver = v] BY DEF TypeOK
      <4>2. refused[s][m].st = inst[s][m].st BY <1>2, <4>1 DEF Instance
      <4> QED BY <1>4, <3>1, <4>2
    <3>2. CASE k # m BY <3>2 DEF TypeOK
    <3> QED BY <3>1, <3>2
  <2> QED BY <1>5, <2>2, <2>3, RaiseKept
<1>6. CASE /\ inst' = written /\ upd' = [upd EXCEPT ![s] = @ \ {m}]
           /\ UNCHANGED <<store, cached, ins, del, pc>>
           /\ \/ own' = own /\ m \notin Versioned
              \/ /\ own' = [own EXCEPT ![s][m] = [live |-> TRUE, ver |-> v, val |-> inst[s][m].val]]
                 /\ Matches(s, m)
  <2>1. PendingKnown(s, n)'
    <3>1. inst'[s][n].st = inst[s][n].st BY <1>2, <1>6 DEF TypeOK, Instance
    <3>2. upd'[s] \subseteq upd[s] BY <1>6 DEF TypeOK
    <3> QED BY <1>1, <1>6, <3>1, <3>2 DEF NodeInv, PendingKnown
  <2>2. CASE n # m
    <3>1. inst'[s][n] = inst[s][n] /\ own'[s][n] = own[s][n]
      BY <1>6, <2>2 DEF TypeOK
    <3> QED BY <1>4, <1>6, <2>1, <3>1, SelfQuiet
  <2>3. CASE n = m
    <3>1. /\ inst'[s][n].st = inst[s][n].st /\ inst'[s][n].val = inst[s][n].val
          /\ inst'[s][n].ver = v
      BY <1>2, <1>3, <1>6, <2>3 DEF TypeOK, Instance
    <3>2. KnowsRow(s, n) BY <1>1, <1>4, <2>3 DEF NodeInv, PendingKnown
    <3>3. ins'[s] = {} BY <1>4, <1>6
    <3>4. Unwritten(s, n)' BY <3>1, <3>2, <3>3 DEF Unwritten
    <3>5. \A o \in Session \ {s} : ~Wrote(o, n) BY <1>4, <2>3 DEF LockedByOther
    <3>6. Exclusive(s, n)' BY <3>5 DEF Exclusive, Same
    <3>7. CASE own' = own /\ m \notin Versioned
      <4>1. CreatedAlone(s, n)'
        BY <1>1, <1>6, <3>1, <3>2, <3>3, <3>7 DEF NodeInv, CreatedAlone, Creating, Same
      <4>2. Derived(s, n)' /\ InstanceCovers(s, n)'
        BY <2>3, <3>7 DEF Derived, InstanceCovers
      <4>3. Effect(s, n)
        BY <1>6, <3>2, <3>7 DEF Effect, StoreEffect, WriteEffect, InstEffect
      <4> QED BY <2>1, <3>4, <3>6, <4>1, <4>2, <4>3 DEF Kept, NodeInv
    <3>8. CASE /\ own' = [own EXCEPT ![s][m] = [live |-> TRUE, ver |-> v, val |-> inst[s][m].val]]
               /\ Matches(s, m)
      <4>1. own'[s][n] = [live |-> TRUE, ver |-> v, val |-> inst[s][n].val]
        BY <2>3, <3>8 DEF TypeOK
      <4>2. own'[s][n].live /\ own'[s][n].ver = v /\ own'[s][n].val = inst[s][n].val
        BY <4>1
      <4>3. Visible(s, n).live BY <2>3, <3>8 DEF Matches
      <4>4. CreatedAlone(s, n)'
        <5> SUFFICES ASSUME Creating(s, n)'
                     PROVE  /\ ~store'[n].live
                            /\ \A o \in Session \ {s} : (inst[o][n].st = "none" /\ ~Wrote(o, n))'
          BY DEF CreatedAlone
        <5>1. ~store'[n].live BY <3>1, <3>2, <3>3 DEF Creating
        <5>2. ~store[n].live BY <1>6, <5>1
        <5>3. Wrote(s, n) /\ own[s][n].live BY <4>3, <5>2 DEF Visible
        <5>4. Creating(s, n) BY <5>2, <5>3 DEF Creating
        <5>5. \A o \in Session \ {s} : inst[o][n].st = "none" /\ ~Wrote(o, n)
          BY <1>1, <5>4 DEF NodeInv, CreatedAlone
        <5> QED BY <5>1, <5>5 DEF Same
      <4>5. InstanceCovers(s, n)'
        <5>1. own'[s][n] \in Row BY <1>2, <1>3, <2>3, <4>1 DEF Row, Instance
        <5>2. own'[s][n] # NoRow BY <5>1, NoRowAssumption
        <5> QED BY <1>3, <3>1, <4>2, <5>2 DEF InstanceCovers, Visible, Covers
      <4>6. Derived(s, n)'
        <5> SUFFICES ASSUME n \in Versioned, store[n].live
                     PROVE  /\ v > store[n].ver
                            /\ Flat => store[n].val \subseteq inst[s][n].val
          BY <1>6, <4>2 DEF Derived
        <5>1. v = inst[s][n].ver + 1 /\ Visible(s, n).ver = inst[s][n].ver
          BY <2>3, <3>8 DEF NextVersion, Matches
        <5>2. Flat => Visible(s, n).val \subseteq inst[s][n].val
          BY <1>1, <1>4, <3>2, <4>3, <5>1 DEF NodeInv, InstanceCovers, Covers
        <5>3. Visible(s, n).ver \in Nat /\ store[n].ver \in Nat
          BY VisibleType, BoundAssumption DEF Row, TypeOK
        <5>4. /\ store[n].ver <= Visible(s, n).ver
              /\ Flat => store[n].val \subseteq Visible(s, n).val
          <6>1. CASE Wrote(s, n)
            BY <1>1, <4>3, <5>3, <6>1 DEF NodeInv, Derived, Visible
          <6>2. CASE ~Wrote(s, n) BY <5>3, <6>2 DEF Visible
          <6> QED BY <6>1, <6>2
        <5> QED BY <5>1, <5>2, <5>3, <5>4
      <4>7. Effect(s, n)
        BY <1>6, <3>2, <3>5 DEF Effect, StoreEffect, WriteEffect, InstEffect
      <4> QED BY <2>1, <3>4, <3>6, <4>4, <4>5, <4>6, <4>7 DEF Kept, NodeInv
    <3> QED BY <1>6, <3>7, <3>8
  <2> QED BY <2>2, <2>3
<1> QED BY <1>5, <1>6 DEF FlushUpdate, txVars, ghostVars, dbVars

LEMMA FlushDeletesKept ==
    ASSUME TypeOK, LockInv, NEW s \in Session, NEW n \in Node, FlushDeletes(s),
           \A o \in Session \ {s} : Same(o)
    PROVE  Kept(s, n)
<1> USE DEF Wrote, KnowsRow
<1>1. NodeInv(s, n) BY DEF LockInv
<1>2. /\ UNCHANGED <<store, inst, cached, ins, upd, pc>>
      /\ pc[s] # "failed" /\ del'[s] = {} /\ ins[s] = {}
  BY DEF FlushDeletes, Flushing, cacheVars, TypeOK
<1>3. PendingKnown(s, n)' BY <1>1, <1>2 DEF NodeInv, PendingKnown
<1>4. CASE n \in del[s] /\ Visible(s, n).live
  <2>1. own'[s][n] = [Visible(s, n) EXCEPT !.live = FALSE]
    BY <1>4 DEF FlushDeletes, TypeOK
  <2>2. ~own'[s][n].live /\ own'[s][n] \in Row
    BY <2>1, VisibleType DEF Row
  <2>3. own'[s][n] # NoRow BY <2>2, NoRowAssumption
  <2>4. \A o \in Session \ {s} : ~Wrote(o, n)
    BY <1>4 DEF FlushDeletes, LockedByOther
  <2>5. KnowsRow(s, n) BY <1>1, <1>4 DEF NodeInv, PendingKnown
  <2>6. CreatedAlone(s, n)' /\ Unwritten(s, n)'
    BY <1>2, <2>2, <2>5 DEF CreatedAlone, Creating, Unwritten
  <2>7. Exclusive(s, n)' BY <2>4 DEF Exclusive, Same
  <2>8. Derived(s, n)' /\ InstanceCovers(s, n)'
    BY <2>2, <2>3 DEF Derived, InstanceCovers, Visible
  <2>9. Effect(s, n)
    BY <1>2, <2>4, <2>5 DEF Effect, StoreEffect, WriteEffect, InstEffect
  <2> QED BY <1>3, <2>6, <2>7, <2>8, <2>9 DEF Kept, NodeInv
<1>5. CASE ~(n \in del[s] /\ Visible(s, n).live)
  <2>1. own'[s][n] = own[s][n] BY <1>5 DEF FlushDeletes, TypeOK
  <2> QED BY <1>2, <1>3, <2>1, SelfQuiet
<1> QED BY <1>4, <1>5

LEMMA FlushKept ==
    ASSUME TypeOK, LockInv, NEW s \in Session, NEW n \in Node, FlushStep(s),
           \A o \in Session \ {s} : Same(o)
    PROVE  Kept(s, n)
<1>0. PendingKnown(s, n) BY DEF LockInv, NodeInv
<1>1. ASSUME Flush(s) PROVE Kept(s, n)
  BY <1>1, StartFlushKept DEF Flush
<1>2. ASSUME FlushWithoutTransaction(s) \/ FlushDone(s) PROVE Kept(s, n)
  <2>1. UNCHANGED <<store, own, inst, cached, ins, upd, del>> /\ pc[s] # "failed"
    BY <1>2 DEF FlushWithoutTransaction, FlushDone, dbVars, cacheVars, pendVars
  <2>2. PendingKnown(s, n)' BY <1>0, <2>1 DEF PendingKnown, KnowsRow
  <2> QED BY <2>1, <2>2, SelfQuiet
<1>3. ASSUME StatementFails(s) PROVE Kept(s, n)
  BY <1>3, RaiseKept DEF StatementFails, TypeOK
<1> QED
  BY <1>1, <1>2, <1>3, FlushInsertsKept, FlushDeletesKept, FlushUpdateKept DEF FlushStep

-----------------------------------------------------------------------------
(* The application's calls on node m, as they affect node n.                *)

LEMMA CreateKept ==
    ASSUME TypeOK, LockInv, NEW s \in Session, NEW n \in Node,
           NEW m \in Node, NEW t \in Tag, Create(s, m, t),
           \A o \in Session \ {s} : Same(o)
    PROVE  Kept(s, n)
<1> USE DEF Wrote, KnowsRow
<1>1. NodeInv(s, n) BY DEF LockInv
<1>2. /\ UNCHANGED <<store, own, cached, ins, upd, del, pc>> /\ pc[s] # "failed"
      /\ inst' = [inst EXCEPT ![s][m] = [st |-> "transient", ver |-> 0, val |-> {t}, dirty |-> TRUE]]
  BY DEF Create, dbVars, pendVars
<1>3. CASE n = m
  <2>1. inst'[s][n] = [st |-> "transient", ver |-> 0, val |-> {t}, dirty |-> TRUE]
    BY <1>2, <1>3 DEF TypeOK
  <2>2. inst'[s][n].st = "transient" /\ inst'[s][n].ver = 0 BY <2>1
  <2>3. ~store[n].live /\ \A o \in Session : inst[o][n].st = "none" /\ ~Wrote(o, n)
    BY <1>3 DEF Create
  <2>4. n \notin ins[s] \cup upd[s] \cup del[s] \cup cached[s]
    BY <1>1, <2>3 DEF NodeInv, PendingKnown
  <2>5. CreatedAlone(s, n)' BY <1>2, <2>3 DEF CreatedAlone, Same
  <2>6. Unwritten(s, n)' /\ PendingKnown(s, n)'
    BY <1>2, <2>2, <2>3, <2>4 DEF Unwritten, PendingKnown
  <2>7. Exclusive(s, n)' /\ Derived(s, n)' BY <1>2, <2>3 DEF Exclusive, Derived
  <2>8. InstanceCovers(s, n)' BY <2>2 DEF InstanceCovers
  <2>9. Effect(s, n) BY <1>2, <2>3 DEF Effect, StoreEffect, WriteEffect, InstEffect
  <2> QED BY <2>5, <2>6, <2>7, <2>8, <2>9 DEF Kept, NodeInv
<1>4. CASE n # m
  <2>1. inst'[s][n] = inst[s][n] BY <1>2, <1>4 DEF TypeOK
  <2>2. PendingKnown(s, n)' BY <1>1, <1>2, <2>1 DEF NodeInv, PendingKnown
  <2> QED BY <1>2, <2>1, <2>2, SelfQuiet
<1> QED BY <1>3, <1>4

LEMMA ModifyKept ==
    ASSUME TypeOK, LockInv, NEW s \in Session, NEW n \in Node,
           NEW m \in Node, NEW t \in Tag, Modify(s, m, t),
           \A o \in Session \ {s} : Same(o)
    PROVE  Kept(s, n)
<1> USE DEF Wrote, KnowsRow
<1>1. NodeInv(s, n) BY DEF LockInv
<1>2. /\ UNCHANGED <<store, own, cached, ins, upd, del, pc>> /\ pc[s] # "failed"
      /\ inst' = [inst EXCEPT ![s][m].val = @ \cup {t}, ![s][m].dirty = TRUE]
  BY DEF Modify, dbVars, pendVars
<1>3. /\ inst'[s][n].st = inst[s][n].st /\ inst'[s][n].ver = inst[s][n].ver
      /\ inst[s][n].val \subseteq inst'[s][n].val
  <2>1. inst[s][n] \in Instance BY InstanceType
  <2>2. CASE n = m BY <1>2, <2>1, <2>2 DEF TypeOK, Instance
  <2>3. CASE n # m BY <1>2, <2>3 DEF TypeOK
  <2> QED BY <2>2, <2>3
<1>4. CreatedAlone(s, n)' /\ Exclusive(s, n)' /\ Derived(s, n)'
  <2>1. CreatedAlone(s, n)'
    <3>1. Creating(s, n)' = Creating(s, n) BY <1>2, <1>3 DEF Creating
    <3>2. \A o \in Session \ {s} : inst'[o][n] = inst[o][n] BY DEF Same
    <3>3. CreatedAlone(s, n) BY <1>1 DEF NodeInv
    <3> QED BY <1>2, <3>1, <3>2, <3>3 DEF CreatedAlone
  <2>2. Exclusive(s, n)' BY <1>1, <1>2 DEF NodeInv, Exclusive
  <2>3. Derived(s, n)' BY <1>1, <1>2 DEF NodeInv, Derived
  <2> QED BY <2>1, <2>2, <2>3
<1>5. Unwritten(s, n)' /\ PendingKnown(s, n)'
  BY <1>1, <1>2, <1>3 DEF NodeInv, Unwritten, PendingKnown
<1>6. InstanceCovers(s, n)'
  BY <1>1, <1>2, <1>3 DEF NodeInv, InstanceCovers, Visible, Covers
<1>7. Effect(s, n) BY <1>2, <1>3 DEF Effect, StoreEffect, WriteEffect, InstEffect
<1> QED BY <1>4, <1>5, <1>6, <1>7 DEF Kept, NodeInv

LEMMA SaveNewKept ==
    ASSUME TypeOK, LockInv, NEW s \in Session, NEW n \in Node,
           NEW m \in Node, SaveNew(s, m),
           \A o \in Session \ {s} : Same(o)
    PROVE  Kept(s, n)
<1> USE DEF Wrote, KnowsRow
<1>1. NodeInv(s, n) BY DEF LockInv
<1>2. /\ UNCHANGED <<store, own, upd, del, pc>> /\ pc[s] # "failed"
      /\ inst' = [inst EXCEPT ![s][m].st = "persistent"]
      /\ cached'[s] = cached[s] \cup {m} /\ ins'[s] = ins[s] \cup {m}
  BY DEF SaveNew, Cache, dbVars, TypeOK
<1>3. CASE n = m
  <2>1. inst'[s][n].st = "persistent" /\ inst'[s][n].ver = inst[s][n].ver
    <3>1. inst[s][n] \in Instance BY InstanceType
    <3> QED BY <1>2, <1>3, <3>1 DEF TypeOK, Instance
  <2>2. inst[s][n].st = "transient" BY <1>3 DEF SaveNew
  <2>3. /\ ~store[n].live /\ ~Wrote(s, n) /\ inst[s][n].ver = 0
        /\ \A o \in Session \ {s} : inst[o][n].st = "none" /\ ~Wrote(o, n)
    BY <1>1, <2>2 DEF NodeInv, CreatedAlone, Creating, Unwritten
  <2>4. CreatedAlone(s, n)' /\ Unwritten(s, n)'
    BY <1>2, <2>1, <2>3 DEF CreatedAlone, Unwritten, Same
  <2>5. PendingKnown(s, n)' BY <2>1 DEF PendingKnown
  <2>6. Exclusive(s, n)' /\ Derived(s, n)' BY <1>2, <2>3 DEF Exclusive, Derived
  <2>7. InstanceCovers(s, n)' BY <1>2, <2>3 DEF InstanceCovers, Visible
  <2>8. Effect(s, n) BY <1>2, <2>2, <2>3 DEF Effect, StoreEffect, WriteEffect, InstEffect
  <2> QED BY <2>4, <2>5, <2>6, <2>7, <2>8 DEF Kept, NodeInv
<1>4. CASE n # m
  <2>1. inst'[s][n] = inst[s][n] BY <1>2, <1>4 DEF TypeOK
  <2>2. PendingKnown(s, n)' BY <1>1, <1>2, <1>4, <2>1 DEF NodeInv, PendingKnown
  <2> QED BY <1>2, <1>4, <2>1, <2>2, SelfQuiet
<1> QED BY <1>3, <1>4

LEMMA SaveNewNativeKept ==
    ASSUME TypeOK, LockInv, NEW s \in Session, NEW n \in Node,
           NEW m \in Node, SaveNewNative(s, m),
           \A o \in Session \ {s} : Same(o)
    PROVE  Kept(s, n)
<1> USE DEF Wrote, KnowsRow
<1>1. NodeInv(s, n) BY DEF LockInv
<1>2. /\ UNCHANGED <<upd, del, pc>> /\ pc[s] # "failed" /\ m \in NativeId
      /\ inst' = [inst EXCEPT ![s][m].st = "persistent", ![s][m].dirty = FALSE]
      /\ cached'[s] = cached[s] \cup {m} /\ ins'[s] = ins[s] \cup {m}
  BY DEF SaveNewNative, Cache, TypeOK
<1>3. \/ own' = [own EXCEPT ![s][m] = NewRow(inst[s][m])] /\ store' = store
      \/ store' = [store EXCEPT ![m] = NewRow(inst[s][m])] /\ own' = own
  BY DEF SaveNewNative
<1>4. CASE n = m
  <2>1. /\ inst'[s][n].st = "persistent" /\ inst'[s][n].ver = inst[s][n].ver
        /\ inst'[s][n].val = inst[s][n].val
    <3>1. inst[s][n] \in Instance BY InstanceType
    <3> QED BY <1>2, <1>4, <3>1 DEF TypeOK, Instance
  <2>2. inst[s][n].st = "transient" BY <1>4 DEF SaveNewNative
  <2>3. /\ ~store[n].live /\ ~Wrote(s, n) /\ inst[s][n].ver = 0
        /\ \A o \in Session \ {s} : inst[o][n].st = "none" /\ ~Wrote(o, n)
    BY <1>1, <2>2 DEF NodeInv, CreatedAlone, Creating, Unwritten
  <2> DEFINE row == NewRow(inst[s][n])
  <2>4. row.live /\ row.ver = 0 /\ row.val = inst[s][n].val /\ row # NoRow
    <3>1. row # NoRow BY NewRowType, InstanceType, NoRowAssumption
    <3> QED BY <3>1 DEF NewRow
  <2>5. Unwritten(s, n)' /\ PendingKnown(s, n)'
    BY <1>2, <1>4, <2>1 DEF Unwritten, PendingKnown
  <2>6. CASE own'[s][n] = row /\ store' = store
    <3>1. CreatedAlone(s, n)' /\ Exclusive(s, n)' /\ Derived(s, n)'
      BY <2>3, <2>6 DEF CreatedAlone, Exclusive, Derived, Same
    <3>2. InstanceCovers(s, n)'
      BY <2>1, <2>3, <2>4, <2>6 DEF InstanceCovers, Visible, Covers
    <3>3. Effect(s, n)
      BY <2>2, <2>3, <2>6 DEF Effect, StoreEffect, WriteEffect, InstEffect
    <3> QED BY <2>5, <3>1, <3>2, <3>3 DEF Kept, NodeInv
  <2>7. CASE store'[n] = row /\ own' = own
    <3>1. CreatedAlone(s, n)'
      BY <1>1, <1>2, <1>4, <2>1, <2>3, <2>7 DEF CreatedAlone, Creating
    <3>2. Exclusive(s, n)' /\ Derived(s, n)' BY <2>3, <2>7 DEF Exclusive, Derived
    <3>3. InstanceCovers(s, n)'
      BY <2>1, <2>3, <2>4, <2>7 DEF InstanceCovers, Visible, Covers
    <3>4. Effect(s, n)
      BY <2>2, <2>3, <2>7 DEF Effect, StoreEffect, WriteEffect, InstEffect
    <3> QED BY <2>5, <3>1, <3>2, <3>3, <3>4 DEF Kept, NodeInv
  <2> QED BY <1>3, <1>4, <2>6, <2>7 DEF TypeOK
<1>5. CASE n # m
  <2>1. inst'[s][n] = inst[s][n] BY <1>2, <1>5 DEF TypeOK
  <2>2. store'[n] = store[n] /\ own'[s][n] = own[s][n] BY <1>3, <1>5 DEF TypeOK
  <2>3. PendingKnown(s, n)' BY <1>1, <1>2, <1>5, <2>1 DEF NodeInv, PendingKnown
  <2> QED BY <1>2, <1>5, <2>1, <2>2, <2>3, SelfQuiet
<1> QED BY <1>4, <1>5

LEMMA GetKept ==
    ASSUME TypeOK, LockInv, NEW s \in Session, NEW n \in Node,
           NEW m \in Node, Get(s, m),
           \A o \in Session \ {s} : Same(o)
    PROVE  Kept(s, n)
<1> USE DEF Wrote, KnowsRow
<1>1. NodeInv(s, n) BY DEF LockInv
<1>2. /\ UNCHANGED <<store, own, ins, upd, del, pc>> /\ pc[s] # "failed"
      /\ inst' = [inst EXCEPT ![s][m] = [st |-> "persistent", ver |-> Visible(s, m).ver,
                                         val |-> Visible(s, m).val, dirty |-> FALSE]]
      /\ cached'[s] = cached[s] \cup {m}
  BY DEF Get, Cache, dbVars, pendVars, TypeOK
<1>3. CASE n = m
  <2>1. inst'[s][n] = [st |-> "persistent", ver |-> Visible(s, n).ver,
                       val |-> Visible(s, n).val, dirty |-> FALSE]
    BY <1>2, <1>3 DEF TypeOK
  <2>2. /\ inst'[s][n].st = "persistent" /\ inst'[s][n].ver = Visible(s, n).ver
        /\ inst'[s][n].val = Visible(s, n).val
    BY <2>1
  <2>3. Visible(s, n).live /\ n \notin ins[s] BY <1>3 DEF Get
  <2>4. CreatedAlone(s, n)'
    BY <1>1, <1>2, <2>2, <2>3 DEF NodeInv, CreatedAlone, Creating, Same
  <2>5. Unwritten(s, n)' /\ PendingKnown(s, n)'
    BY <1>2, <2>2, <2>3 DEF Unwritten, PendingKnown
  <2>6. Exclusive(s, n)' /\ Derived(s, n)'
    BY <1>1, <1>2 DEF NodeInv, Exclusive, Derived, Same
  <2>7. InstanceCovers(s, n)'
    <3>1. Visible(s, n)' = Visible(s, n) BY <1>2 DEF Visible
    <3>2. Visible(s, n).ver \in Int BY VisibleType, BoundAssumption DEF Row
    <3> QED BY <2>2, <3>1, <3>2 DEF InstanceCovers, Covers
  <2>8. Effect(s, n)
    BY <1>2, <2>3 DEF Effect, StoreEffect, WriteEffect, InstEffect
  <2> QED BY <2>4, <2>5, <2>6, <2>7, <2>8 DEF Kept, NodeInv
<1>4. CASE n # m
  <2>1. inst'[s][n] = inst[s][n] BY <1>2, <1>4 DEF TypeOK
  <2>2. PendingKnown(s, n)' BY <1>1, <1>2, <1>4, <2>1 DEF NodeInv, PendingKnown
  <2> QED BY <1>2, <2>1, <2>2, SelfQuiet
<1> QED BY <1>3, <1>4

LEMMA DeleteKept ==
    ASSUME TypeOK, LockInv, NEW s \in Session, NEW n \in Node,
           NEW m \in Node, Delete(s, m),
           \A o \in Session \ {s} : Same(o)
    PROVE  Kept(s, n)
<1> USE DEF Wrote, KnowsRow
<1>1. NodeInv(s, n) BY DEF LockInv
<1>2. /\ UNCHANGED <<store, own, ins, upd, pc>> /\ pc[s] # "failed"
      /\ inst' = [inst EXCEPT ![s][m].st = "removed"]
      /\ cached'[s] = cached[s] \ {m} /\ del'[s] = del[s] \cup {m}
      /\ inst[s][m].st = "persistent"
  BY DEF Delete, dbVars, TypeOK
<1>3. /\ inst'[s][n].ver = inst[s][n].ver /\ inst'[s][n].val = inst[s][n].val
      /\ IF n = m THEN inst'[s][n].st = "removed" ELSE inst'[s][n].st = inst[s][n].st
  <2>1. inst[s][n] \in Instance BY InstanceType
  <2>2. CASE n = m BY <1>2, <2>1, <2>2 DEF TypeOK, Instance
  <2>3. CASE n # m BY <1>2, <2>3 DEF TypeOK
  <2> QED BY <2>2, <2>3
<1>4. CreatedAlone(s, n)' /\ Exclusive(s, n)' /\ Derived(s, n)'
  BY <1>1, <1>2, <1>3
  DEF NodeInv, CreatedAlone, Creating, Exclusive, Derived, Same
<1>5. Unwritten(s, n)' /\ PendingKnown(s, n)'
  BY <1>1, <1>2, <1>3 DEF NodeInv, Unwritten, PendingKnown
<1>6. InstanceCovers(s, n)'
  BY <1>1, <1>2, <1>3 DEF NodeInv, InstanceCovers, Visible, Covers
<1>7. Effect(s, n) BY <1>2, <1>3 DEF Effect, StoreEffect, WriteEffect, InstEffect
<1> QED BY <1>4, <1>5, <1>6, <1>7 DEF Kept, NodeInv

LEMMA AppKept ==
    ASSUME TypeOK, LockInv, NEW s \in Session, NEW n \in Node, AppStep(s),
           \A o \in Session \ {s} : Same(o)
    PROVE  Kept(s, n)
<1>0. PendingKnown(s, n) BY DEF LockInv, NodeInv
<1>1. ASSUME NEW m \in Node, SaveExisting(s, m) PROVE Kept(s, n)
  <2>1. /\ UNCHANGED <<store, own, inst, ins, del, pc>> /\ pc[s] # "failed"
        /\ inst[s][m].st = "persistent" /\ cached'[s] = cached[s] \cup {m}
        /\ upd'[s] \subseteq upd[s] \cup {m}
    BY <1>1 DEF SaveExisting, Cache, dbVars, TypeOK
  <2>2. PendingKnown(s, n)' BY <1>0, <2>1 DEF PendingKnown, KnowsRow
  <2> QED BY <2>1, <2>2, SelfQuiet
<1>2. ASSUME NEW m \in Node, SaveNewReadOnly(s, m) PROVE Kept(s, n)
  <2>1. UNCHANGED <<store, own, inst, cached, ins, upd, del>> /\ pc[s] # "failed"
    BY <1>2 DEF SaveNewReadOnly, dbVars, cacheVars, pendVars
  <2>2. PendingKnown(s, n)' BY <1>0, <2>1 DEF PendingKnown, KnowsRow
  <2> QED BY <2>1, <2>2, SelfQuiet
<1>3. inst \in [Session -> [Node -> Instance]] BY DEF TypeOK
<1>4. ASSUME Recover(s) PROVE Kept(s, n)
  <2>1. store' = store /\ own' = own BY <1>4 DEF Recover, dbVars
  <2>2. CASE Reuse
    <3>1. UNCHANGED <<inst, cached, ins, upd, del>>
      BY <1>4, <2>2 DEF Recover, cacheVars, pendVars
    <3>2. PendingKnown(s, n)' BY <1>0, <3>1 DEF PendingKnown, KnowsRow
    <3> QED BY <2>1, <2>2, <3>1, <3>2, SelfReused DEF Flat
  <2>3. CASE ~Reuse
    <3>1. ClearSession(s, inst) BY <1>4, <2>3 DEF Recover
    <3> QED BY <1>3, <2>1, <3>1, ClearedKept
  <2> QED BY <2>2, <2>3
<1>5. ASSUME Disconnect(s) PROVE Kept(s, n)
  <2>1. own'[s] = NoWrites BY <1>5 DEF Disconnect, NativeRollback, TypeOK
  <2> QED BY <1>3, <1>5, <2>1, ClearedKept DEF Disconnect
<1> QED
  BY <1>1, <1>2, <1>4, <1>5, CreateKept, ModifyKept, SaveNewKept, SaveNewNativeKept,
     GetKept, DeleteKept DEF AppStep

-----------------------------------------------------------------------------
(* The theorems.                                                            *)

\* How a step of s can change its units of work.
LEMMA StackSteps ==
    ASSUME NEW s \in Session, UnitStep(s) \/ FlushStep(s) \/ AppStep(s)
    PROVE  \/ stack' = stack
           \/ PopUnit(s)
           \/ /\ Len(stack[s]) < MaxDepth
              /\ \E w \in {"owner", "joined"} : stack' = [stack EXCEPT ![s] = Append(@, w)]
<1>1. CASE UnitStep(s)
  BY <1>1 DEF UnitStep, Begin, EndRollback, EndRollbackJoined, RollbackOwner, EndCommit,
              StartFlush, EndCommitJoined, CommitUnflushed, Commit, txVars
<1>2. CASE FlushStep(s)
  BY <1>2 DEF FlushStep, Flush, StartFlush, FlushWithoutTransaction, FlushInserts,
              FlushDeletes, FlushDone, StatementFails, FlushUpdate, Raise, RollbackOwner, txVars
<1>3. CASE AppStep(s)
  BY <1>3 DEF AppStep, Create, Modify, SaveExisting, SaveNew, SaveNewNative, SaveNewReadOnly,
              Get, Delete, Recover, Disconnect, txVars
<1> QED BY <1>1, <1>2, <1>3

LEMMA ShallowNext ==
    ASSUME TypeOK, Shallow, OneLevel, [Next]_vars
    PROVE  Shallow'
<1> SUFFICES ASSUME NEW o \in Session PROVE Len(stack'[o]) <= 1 BY DEF Shallow
<1>0. stack[o] \in Seq({"owner", "joined"}) /\ Len(stack[o]) \in Nat /\ Len(stack[o]) <= 1
  BY LenProperties DEF TypeOK, Shallow
<1>1. CASE stack'[o] = stack[o] BY <1>0, <1>1
<1>2. ASSUME PopUnit(o) PROVE Len(stack'[o]) <= 1
  <2>1. stack'[o] = SubSeq(stack[o], 1, Len(stack[o]) - 1) BY <1>2 DEF PopUnit, TypeOK
  <2>2. Len(stack'[o]) = IF 1 <= Len(stack[o]) - 1 THEN Len(stack[o]) - 1 - 1 + 1 ELSE 0
    BY <1>0, <2>1, SubSeqProperties
  <2> QED BY <1>0, <2>2
<1>3. ASSUME NEW w \in {"owner", "joined"}, Len(stack[o]) < MaxDepth,
             stack' = [stack EXCEPT ![o] = Append(@, w)]
      PROVE  Len(stack'[o]) <= 1
  <2>1. Len(stack'[o]) = Len(stack[o]) + 1 BY <1>0, <1>3, AppendProperties DEF TypeOK
  <2> QED BY <1>0, <1>3, <2>1, BoundAssumption DEF OneLevel
<1>4. ASSUME NEW s \in Session, UnitStep(s) \/ FlushStep(s) \/ AppStep(s), o # s
      PROVE  stack'[o] = stack[o]
  BY <1>4, UnitLocal, FlushLocal, AppLocal DEF Same
<1>5. CASE Next
  <2>1. PICK s \in Session : UnitStep(s) \/ FlushStep(s) \/ AppStep(s) BY <1>5 DEF Next
  <2>2. CASE o = s BY <1>1, <1>2, <1>3, <2>1, <2>2, StackSteps
  <2>3. CASE o # s BY <1>1, <1>4, <2>1, <2>3
  <2> QED BY <2>2, <2>3
<1>6. CASE UNCHANGED vars BY <1>1, <1>6 DEF vars
<1> QED BY <1>5, <1>6

\* What a step may do to the committed row of a versioned node.
Superseded(n) ==
    store[n].live /\ store'[n].live /\ store'[n] # store[n] =>
        /\ store'[n].ver > store[n].ver
        /\ Flat => store[n].val \subseteq store'[n].val

\* Every step of a session keeps the invariant of all sessions, and replaces
\* rows of the graph only by rows that supersede them.
LEMMA LockStep ==
    ASSUME TypeOK, TypeOK', LifeInv, LockInv, OneLevel => Shallow, [Next]_vars
    PROVE  LockInv' /\ \A n \in Versioned : Superseded(n)
<1>1. CASE UNCHANGED vars
  <2>1. ASSUME NEW s \in Session, NEW n \in Node PROVE NodeInv(s, n)'
    <3>1. NodeInv(s, n) BY DEF LockInv
    <3> QED
      BY <1>1, <3>1
      DEF vars, NodeInv, CreatedAlone, Creating, Unwritten, PendingKnown, Exclusive, Derived,
          InstanceCovers, Visible, KnowsRow, Wrote
  <2> QED BY <1>1, <2>1 DEF vars, LockInv, Superseded
<1>2. ASSUME NEW s \in Session, UnitStep(s) \/ FlushStep(s) \/ AppStep(s)
      PROVE  LockInv' /\ \A n \in Versioned : Superseded(n)
  <2>1. \A o \in Session \ {s} : Same(o) BY <1>2, UnitLocal, FlushLocal, AppLocal
  <2>2. \A n \in Node : Kept(s, n) BY <1>2, <2>1, UnitKept, FlushKept, AppKept
  <2>3. ASSUME NEW o \in Session, NEW n \in Node PROVE NodeInv(o, n)'
    <3>1. CASE o = s BY <2>2, <3>1 DEF Kept
    <3>2. CASE o # s BY <2>1, <2>2, <3>2, Others DEF Kept
    <3> QED BY <3>1, <3>2
  <2>4. LockInv' BY <2>3 DEF LockInv
  <2>5. ASSUME NEW n \in Versioned PROVE Superseded(n)
    <3>1. n \in Node BY NodeAssumption
    <3>2. NodeInv(s, n) BY <3>1 DEF LockInv
    <3>3. StoreEffect(s, n) BY <2>2, <3>1 DEF Kept, Effect
    <3>4. CASE Wrote(s, n) /\ store'[n] = own[s][n]
      BY <3>2, <3>4 DEF NodeInv, Derived, Superseded
    <3>5. CASE inst[s][n].st = "transient"
      BY <3>2, <3>5 DEF NodeInv, CreatedAlone, Creating, Superseded
    <3> QED BY <3>3, <3>4, <3>5 DEF StoreEffect, Superseded
  <2> QED BY <2>4, <2>5
<1> QED BY <1>1, <1>2 DEF Next

THEOREM LockCorrect ==
    Spec => [](TypeOK /\ LifeInv /\ (OneLevel => Shallow) /\ LockInv)
<1>1. Init => Shallow BY BoundAssumption DEF Init, Shallow
<1>2. /\ TypeOK /\ TypeOK' /\ LifeInv /\ (OneLevel => Shallow) /\ LockInv /\ [Next]_vars
      => (OneLevel => Shallow)' /\ LockInv'
  BY ShallowNext, LockStep
<1> QED BY <1>1, <1>2, LockInit, TypeCorrect, LifeCorrect, PTL DEF Spec

\* The version tells the content apart: whatever sessions nest, roll back, flush or
\* use again after an exception, a commit that changes the content of a versioned
\* node raises its version.
THEOREM ContentBumpsVersion == Spec => ContentChangeBumpsVersion
<1>1. /\ TypeOK /\ LifeInv /\ (OneLevel => Shallow) /\ LockInv /\ TypeOK' /\ [Next]_vars
      => [\A n \in Versioned :
             /\ store[n].live /\ store'[n].live
             /\ store'[n].val # store[n].val
             => store'[n].ver > store[n].ver]_vars
  BY LockStep DEF Superseded
<1> QED BY <1>1, LockCorrect, TypeCorrect, PTL DEF Spec, ContentChangeBumpsVersion

\* Optimistic locking is implemented: with units of work that do not nest and
\* applications that drop their instances after an exception or a rollback, every
\* commit to a versioned node builds on the row it replaces and shows in the
\* version.
THEOREM LockingImplemented ==
    ASSUME Flat
    PROVE  Spec => ImplementsVersionedGraph
<1>1. Init => VG!Init BY DEF Init, VG!Init
<1>2. ASSUME TypeOK, LifeInv, OneLevel => Shallow, LockInv, TypeOK', [Next]_vars
      PROVE  VG!Commit
  <2>1. \A n \in Versioned : Superseded(n) BY <1>2, LockStep
  <2>2. \A n \in Node : VG!Succeeds(n, store[n], store'[n])
    BY <2>1 DEF Superseded, VG!Succeeds
  <2>3. DOMAIN store' = Node BY <1>2 DEF TypeOK
  <2> QED BY <2>2, <2>3 DEF VG!Commit
<1>3. /\ TypeOK /\ LifeInv /\ (OneLevel => Shallow) /\ LockInv /\ TypeOK' /\ [Next]_vars
      => [VG!Commit]_store
  BY <1>2
<1> QED
  BY <1>1, <1>3, LockCorrect, PTL DEF Spec, ImplementsVersionedGraph, VG!Spec

\* Under the same conditions no commit to a versioned node drops a modification
\* that another session has committed.
THEOREM NothingLost ==
    ASSUME Flat
    PROVE  Spec => NoLostUpdate
<1>1. /\ TypeOK /\ LifeInv /\ (OneLevel => Shallow) /\ LockInv /\ TypeOK' /\ [Next]_vars
      => [\A n \in Versioned :
             store[n].live /\ store'[n].live => store[n].val \subseteq store'[n].val]_vars
  BY LockStep DEF Superseded
<1> QED BY <1>1, LockCorrect, PTL DEF Spec, NoLostUpdate
=============================================================================
