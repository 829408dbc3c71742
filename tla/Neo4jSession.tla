----------------------------- MODULE Neo4jSession -----------------------------
(***************************************************************************)
(* GORM sessions over one Neo4j graph: the life cycle of a session's       *)
(* Neo4jTransaction, the units of work (withTransaction) that the          *)
(* Neo4jDatastoreTransactionManager opens on it, the first-level cache,    *)
(* the pending inserts, updates and deletes, and flush(), one Cypher       *)
(* statement per step.  A session belongs to one thread; the sessions      *)
(* interleave between any two statements.                                  *)
(*                                                                         *)
(* The content of a node is the set of the modifications (Tag) it carries, *)
(* as in OptimisticLockingSpec, where every writer appends to the name it  *)
(* has read: a modification that disappears from a live node is a lost     *)
(* update.                                                                 *)
(***************************************************************************)
EXTENDS Naturals, Sequences, FiniteSets

CONSTANTS
    Session,     \* threads, each with its current Neo4jSession
    Node,        \* node identities
    Fresh,       \* the nodes that do not exist initially
    NativeId,    \* the nodes of entities whose id Neo4j generates
    Versioned,   \* the nodes of entities mapped with a version
    Tag,         \* the modifications the application makes
    Mode,        \* the transaction definitions in use: "active" (read-write), "readonly"
    MaxDepth,    \* bound: how deep units of work nest
    MaxVersion,  \* bound: the largest version number
    PreBound,    \* TRUE: a session outlives its units (session per request)
    Reuse,       \* TRUE: instances are used again after an exception or rollback
    NoRow        \* no uncommitted write

Row == [live: BOOLEAN, ver: 0..MaxVersion, val: SUBSET Tag]

ASSUME NodeAssumption == Fresh \subseteq Node /\ NativeId \subseteq Node /\ Versioned \subseteq Node
ASSUME TxModeAssumption == Mode \subseteq {"active", "readonly"}
ASSUME BoundAssumption == MaxDepth \in Nat /\ MaxVersion \in Nat
ASSUME ModeAssumption == PreBound \in BOOLEAN /\ Reuse \in BOOLEAN
ASSUME NoRowAssumption == NoRow \notin Row

Instance == [st: {"none", "transient", "persistent", "removed"},
             ver: 0..MaxVersion, val: SUBSET Tag, dirty: BOOLEAN]

NoInstance == [st |-> "none", ver |-> 0, val |-> {}, dirty |-> FALSE]

VARIABLES
    store,   \* the committed graph
    own,     \* own[s][n]: the row s wrote in its open native transaction, or NoRow
    tx,      \* the Neo4jTransaction of the session; "default" is sessionCreated
    stack,   \* the open units of work: "owner" began the transaction, "joined" did not
    inst,    \* the instance of n that thread s holds
    cached,  \* the first-level cache: the nodes whose instance the session knows
    ins,     \* pending inserts (those of native ids are already executed)
    upd,     \* pending updates
    del,     \* pending deletes
    pc,      \* "app", or inside flush() / commit, or an exception was thrown
    unit,    \* history: modifications made in the outermost open unit
    doomed   \* history: modifications made in units that were rolled back

dbVars == <<store, own>>
txVars == <<tx, stack>>
pendVars == <<ins, upd, del>>
cacheVars == <<inst, cached>>
ghostVars == <<unit, doomed>>
vars == <<store, own, tx, stack, inst, cached, ins, upd, del, pc, unit, doomed>>

Active(s) == tx[s] \in {"default", "active", "readonly"}

\* What a statement of s reads: its own writes over the committed graph.
Visible(s, n) == IF own[s][n] # NoRow THEN own[s][n] ELSE store[n]

\* The write lock the server holds for an uncommitted write of another session.
LockedByOther(s, n) == \E o \in Session \ {s} : own[o][n] # NoRow

NoWrites == [n \in Node |-> NoRow]

\* The native transaction of s ends without a commit.  (The variant rolls back
\* nothing: its writes stay for the next commit.)
NativeRollbackForgotten(s) == UNCHANGED own
NativeRollback(s) == own' = [own EXCEPT ![s] = NoWrites]

NoInstances == [n \in Node |-> NoInstance]
Used ==
    doomed \cup UNION
        ({store[n].val : n \in Node} \cup {unit[s] : s \in Session}
         \cup {inst[s][n].val : s \in Session, n \in Node}
         \cup {IF own[s][n] = NoRow THEN {} ELSE own[s][n].val : s \in Session, n \in Node})

Init ==
    /\ store = [n \in Node |-> [live |-> n \notin Fresh, ver |-> 0, val |-> {}]]
    /\ own = [s \in Session |-> NoWrites]
    /\ tx = [s \in Session |-> "none"]
    /\ stack = [s \in Session |-> <<>>]
    /\ inst = [s \in Session |-> NoInstances]
    /\ cached = [s \in Session |-> {}]
    /\ ins = [s \in Session |-> {}]
    /\ upd = [s \in Session |-> {}]
    /\ del = [s \in Session |-> {}]
    /\ pc = [s \in Session |-> "app"]
    /\ unit = [s \in Session |-> {}]
    /\ doomed = {}

-----------------------------------------------------------------------------
(***************************************************************************)
(* Units of work.  A unit joins the transaction of the session when that   *)
(* is active and was not created by the session itself; otherwise it       *)
(* begins one, and owns it.                                                *)
(***************************************************************************)

isExistingTransaction(s) == tx[s] \in {"active", "readonly"}

\* A session-created transaction is still active when doBegin asks for a
\* transaction: beginTransactionInternal hands it out as it is.
beginTransaction(s, mode) == IF Active(s) THEN tx[s] ELSE mode

\* The application can use the session: it is bound to the thread, or a unit
\* of work opened it.
Bound(s) == PreBound \/ stack[s] # <<>>

Begin(s, mode) ==
    /\ pc[s] = "app"
    /\ Len(stack[s]) < MaxDepth
    /\ IF isExistingTransaction(s)
         THEN /\ stack' = [stack EXCEPT ![s] = Append(@, "joined")]
              /\ UNCHANGED tx
         ELSE /\ stack' = [stack EXCEPT ![s] = Append(@, "owner")]
              /\ tx' = [tx EXCEPT ![s] = beginTransaction(s, mode)]
    /\ UNCHANGED <<dbVars, cacheVars, pendVars, pc, ghostVars>>

Last(s) == Len(stack[s]) = 1
Innermost(s) == stack[s][Len(stack[s])]
PopUnit(s) == stack' = [stack EXCEPT ![s] = SubSeq(@, 1, Len(@) - 1)]

\* History of the end of a unit: a rollback at any depth dooms all that the
\* outermost unit has done so far ("Both transactions are rolled back").
EndHistory(s, rolledBack) ==
    /\ doomed' = IF rolledBack THEN doomed \cup unit[s] ELSE doomed
    /\ unit' = IF Last(s) THEN [unit EXCEPT ![s] = {}] ELSE unit

\* The session forgets everything: session.clear(), or a new session follows.
ClearSession(s, i) ==
    /\ cached' = [cached EXCEPT ![s] = {}]
    /\ ins' = [ins EXCEPT ![s] = {}]
    /\ upd' = [upd EXCEPT ![s] = {}]
    /\ del' = [del EXCEPT ![s] = {}]
    /\ inst' = IF Reuse THEN i ELSE [i EXCEPT ![s] = NoInstances]

\* After the outermost unit a session that was opened for it is disconnected.
Closing(s) == Last(s) /\ ~PreBound
TxLeftOpen(s) == [tx EXCEPT ![s] = IF Closing(s) THEN "none" ELSE @]
TxAfterUnit(s) == [tx EXCEPT ![s] = IF Closing(s) THEN "none" ELSE "closed"]

\* doRollback of the unit that owns the transaction: native rollback, and the
\* session is cleared.
RollbackOwner(s, i) ==
    /\ NativeRollback(s)
    /\ tx' = TxAfterUnit(s)
    /\ PopUnit(s)
    /\ ClearSession(s, i)
    /\ EndHistory(s, TRUE)
    /\ pc' = [pc EXCEPT ![s] = "app"]
    /\ UNCHANGED store

\* A unit is rolled back: it threw, or called setRollbackOnly().
EndRollback(s) ==
    /\ pc[s] \in {"app", "failed"}
    /\ stack[s] # <<>>
    /\ Innermost(s) = "owner"
    /\ RollbackOwner(s, inst)

\* doSetRollbackOnly of a joined unit: the native transaction is rolled back
\* and closed at once, the session keeps its cache and its pending operations.
EndRollbackJoined(s) ==
    /\ pc[s] \in {"app", "failed"}
    /\ stack[s] # <<>>
    /\ Innermost(s) = "joined"
    /\ NativeRollback(s)
    /\ tx' = [tx EXCEPT ![s] = "closed"]
    /\ PopUnit(s)
    /\ EndHistory(s, TRUE)
    /\ pc' = [pc EXCEPT ![s] = "app"]
    /\ UNCHANGED <<store, cacheVars, pendVars>>

\* A joined unit ends normally: nothing is flushed or committed.
EndCommitJoined(s) ==
    /\ pc[s] = "app"
    /\ stack[s] # <<>>
    /\ Innermost(s) = "joined"
    /\ PopUnit(s)
    /\ EndHistory(s, FALSE)
    /\ UNCHANGED <<dbVars, tx, cacheVars, pendVars, pc>>

-----------------------------------------------------------------------------
(***************************************************************************)
(* flush().                                                                *)
(***************************************************************************)

\* persistDirtyButUnsavedInstances: every changed instance of the cache that is
\* not pending yet becomes a pending update.
SpoolNothing(s) == {}
Spool(s) == {n \in cached[s] : inst[s][n].dirty /\ n \notin ins[s] \cup upd[s]}

StartFlush(s, phase) ==
    /\ tx[s] \in {"default", "active"}
    /\ upd' = [upd EXCEPT ![s] = @ \cup Spool(s)]
    /\ pc' = [pc EXCEPT ![s] = phase]
    /\ UNCHANGED <<dbVars, txVars, cacheVars, ins, del, ghostVars>>

Flush(s) ==
    /\ pc[s] = "app"
    /\ Bound(s)
    /\ StartFlush(s, "flush")

\* flush() without a transaction throws; with a terminated or a read-only one
\* it returns without doing anything, which is no step.
FlushWithoutTransaction(s) ==
    /\ pc[s] = "app"
    /\ Bound(s)
    /\ tx[s] = "none"
    /\ pc' = [pc EXCEPT ![s] = "failed"]
    /\ UNCHANGED <<dbVars, txVars, cacheVars, pendVars, ghostVars>>

\* doCommit of the unit that owns the transaction flushes first.
EndCommit(s) ==
    /\ pc[s] = "app"
    /\ stack[s] # <<>>
    /\ Innermost(s) = "owner"
    /\ StartFlush(s, "commit")

Flushing(s) == pc[s] \in {"flush", "commit"}

\* An exception leaves flush(): the pending operations are dropped; doCommit
\* rolls the unit back.
Raise(s, i) ==
    \/ /\ pc[s] = "flush"
       /\ pc' = [pc EXCEPT ![s] = "failed"]
       /\ ins' = [ins EXCEPT ![s] = {}]
       /\ upd' = [upd EXCEPT ![s] = {}]
       /\ del' = [del EXCEPT ![s] = {}]
       /\ inst' = i
       /\ UNCHANGED <<dbVars, txVars, cached, ghostVars>>
    \/ /\ pc[s] = "commit"
       /\ RollbackOwner(s, i)

\* The instances of s after the ones in nodes have been written.
Tracked(s, nodes) ==
    [inst EXCEPT ![s] = [n \in Node |->
                            IF n \in nodes THEN [inst[s][n] EXCEPT !.dirty = FALSE]
                                   ELSE inst[s][n]]]

NewRowNoVersion(i) == [live |-> TRUE, val |-> i.val]
NewRow(i) == [live |-> TRUE, ver |-> 0, val |-> i.val]

\* (The variant runs the CREATE outside the session's transaction.)
FlushInsertsAutoCommit(s) ==
    LET nodes == ins[s] \ NativeId IN
    /\ Flushing(s)
    /\ ins[s] # {}
    /\ store' = [n \in Node |-> IF n \in nodes THEN NewRow(inst[s][n]) ELSE store[n]]
    /\ inst' = Tracked(s, nodes)
    /\ ins' = [ins EXCEPT ![s] = {}]
    /\ UNCHANGED <<own, txVars, cached, upd, del, pc, ghostVars>>

\* flushPendingInserts: one CREATE for all inserts that were not executed yet.
FlushInserts(s) ==
    LET nodes == ins[s] \ NativeId IN
    /\ Flushing(s)
    /\ ins[s] # {}
    /\ own' = [own EXCEPT ![s] = [n \in Node |-> IF n \in nodes THEN NewRow(inst[s][n]) ELSE own[s][n]]]
    /\ inst' = Tracked(s, nodes)
    /\ ins' = [ins EXCEPT ![s] = {}]
    /\ UNCHANGED <<store, txVars, cached, upd, del, pc, ghostVars>>

\* The UPDATE statement finds its row: the version is compared when there is one.
MatchesAnyVersion(s, n) == Visible(s, n).live
Matches(s, n) ==
    /\ Visible(s, n).live
    /\ n \in Versioned => Visible(s, n).ver = inst[s][n].ver

SameVersion(n, v) == v
NextVersion(n, v) == IF n \in Versioned THEN v + 1 ELSE v

\* flushPendingUpdates, one pending update.  The version of the instance is
\* raised before the statement runs, and stays raised when no row matches.  (An
\* instance whose update is pending has changed properties.)
FlushUpdate(s, n) ==
    LET v == NextVersion(n, inst[s][n].ver)
        written == [inst EXCEPT ![s][n].ver = v, ![s][n].dirty = FALSE]
        refused == [inst EXCEPT ![s][n].ver = v]
    IN
    /\ Flushing(s)
    /\ ins[s] = {}
    /\ n \in upd[s]
    /\ ~LockedByOther(s, n)
    /\ v <= MaxVersion
    /\ \/ /\ Matches(s, n)
          /\ own' = [own EXCEPT ![s][n] = [live |-> TRUE, ver |-> v, val |-> inst[s][n].val]]
          /\ inst' = written
          /\ upd' = [upd EXCEPT ![s] = @ \ {n}]
          /\ UNCHANGED <<store, txVars, cached, ins, del, pc, ghostVars>>
       \/ /\ ~Matches(s, n)
          /\ n \notin Versioned
          /\ inst' = written
          /\ upd' = [upd EXCEPT ![s] = @ \ {n}]
          /\ UNCHANGED <<dbVars, txVars, cached, ins, del, pc, ghostVars>>
       \/ /\ ~Matches(s, n)
          /\ n \in Versioned
          /\ Raise(s, refused)

\* flushPendingDeletes: one DETACH DELETE for all pending deletes.
FlushDeletes(s) ==
    /\ Flushing(s)
    /\ ins[s] = {} /\ upd[s] = {} /\ del[s] # {}
    /\ \A n \in del[s] : ~LockedByOther(s, n)
    /\ own' = [own EXCEPT ![s] = [n \in Node |->
                  IF n \in del[s] /\ Visible(s, n).live
                    THEN [Visible(s, n) EXCEPT !.live = FALSE] ELSE own[s][n]]]
    /\ del' = [del EXCEPT ![s] = {}]
    /\ UNCHANGED <<store, txVars, cacheVars, ins, upd, pc, ghostVars>>

\* The driver reports an error: connection lost, timeout, deadlock detected.
StatementFails(s) == Flushing(s) /\ Raise(s, inst)

Flushed(s) == ins[s] = {} /\ upd[s] = {} /\ del[s] = {}

FlushDone(s) ==
    /\ pc[s] = "flush"
    /\ Flushed(s)
    /\ pc' = [pc EXCEPT ![s] = "app"]
    /\ UNCHANGED <<dbVars, txVars, cacheVars, pendVars, ghostVars>>

\* The graph after the native transaction of s commits.
Committed(s) == [n \in Node |-> Visible(s, n)]

EndSession(s) ==
    IF Closing(s) THEN ClearSession(s, inst) ELSE UNCHANGED <<cacheVars, pendVars>>

\* Neo4jTransaction.commit() after the flush of doCommit.
Commit(s) ==
    /\ pc[s] = "commit"
    /\ Flushed(s)
    /\ store' = Committed(s)
    /\ own' = [own EXCEPT ![s] = NoWrites]
    /\ tx' = TxAfterUnit(s)
    /\ PopUnit(s)
    /\ EndSession(s)
    /\ EndHistory(s, FALSE)
    /\ pc' = [pc EXCEPT ![s] = "app"]

\* doCommit when flush() returned at once.  A terminated transaction commits
\* nothing, without an exception; a read-only one has written nothing.
CommitUnflushed(s) ==
    /\ pc[s] = "app"
    /\ stack[s] # <<>>
    /\ Innermost(s) = "owner"
    /\ tx[s] \in {"closed", "readonly"}
    /\ tx' = TxAfterUnit(s)
    /\ PopUnit(s)
    /\ EndSession(s)
    /\ EndHistory(s, FALSE)
    /\ UNCHANGED <<dbVars, pc>>

-----------------------------------------------------------------------------
(***************************************************************************)
(* The application's calls.                                                *)
(***************************************************************************)

Remember(s, t) ==
    unit' = IF stack[s] = <<>> THEN unit ELSE [unit EXCEPT ![s] = @ \cup {t}]

\* new Entity(..): a node nobody else creates.
Create(s, n, t) ==
    /\ pc[s] = "app" /\ Bound(s)
    /\ n \in Fresh /\ ~store[n].live
    /\ \A o \in Session : inst[o][n].st = "none" /\ own[o][n] = NoRow
    /\ t \notin Used
    /\ inst' = [inst EXCEPT ![s][n] = [st |-> "transient", ver |-> 0, val |-> {t}, dirty |-> TRUE]]
    /\ Remember(s, t)
    /\ UNCHANGED <<dbVars, txVars, cached, pendVars, pc, doomed>>

Modify(s, n, t) ==
    /\ pc[s] = "app" /\ Bound(s)
    /\ inst[s][n].st = "persistent"
    /\ t \notin Used
    /\ inst' = [inst EXCEPT ![s][n].val = @ \cup {t}, ![s][n].dirty = TRUE]
    /\ Remember(s, t)
    /\ UNCHANGED <<dbVars, txVars, cached, pendVars, pc, doomed>>

Cache(s, n) == cached' = [cached EXCEPT ![s] = @ \cup {n}]

\* persistEntity of an instance that has an identifier; it is ignored when it is
\* pending already or has not changed.
SaveExisting(s, n) ==
    /\ pc[s] = "app" /\ Bound(s)
    /\ inst[s][n].st = "persistent"
    /\ Cache(s, n)
    /\ upd' = IF n \in ins[s] \cup upd[s] \/ ~inst[s][n].dirty THEN upd
              ELSE [upd EXCEPT ![s] = @ \cup {n}]
    /\ UNCHANGED <<dbVars, txVars, inst, ins, del, pc, ghostVars>>

\* persistEntity of a new instance whose id is generated: the CREATE waits for
\* the flush.
SaveNew(s, n) ==
    /\ pc[s] = "app" /\ Bound(s)
    /\ inst[s][n].st = "transient" /\ n \notin NativeId
    /\ inst' = [inst EXCEPT ![s][n].st = "persistent"]
    /\ Cache(s, n)
    /\ ins' = [ins EXCEPT ![s] = @ \cup {n}]
    /\ UNCHANGED <<dbVars, txVars, upd, del, pc, ghostVars>>

\* persistEntity of a new instance with a native id: the CREATE runs at once, in
\* the native transaction, or in a transaction of its own on the bolt session
\* when the session has no active one.
SaveNewNative(s, n) ==
    /\ pc[s] = "app" /\ Bound(s)
    /\ inst[s][n].st = "transient" /\ n \in NativeId
    /\ tx[s] # "readonly"
    /\ IF Active(s)
         THEN /\ own' = [own EXCEPT ![s][n] = NewRow(inst[s][n])]
              /\ UNCHANGED store
         ELSE /\ store' = [store EXCEPT ![n] = NewRow(inst[s][n])]
              /\ UNCHANGED own
    /\ inst' = [inst EXCEPT ![s][n].st = "persistent", ![s][n].dirty = FALSE]
    /\ Cache(s, n)
    /\ ins' = [ins EXCEPT ![s] = @ \cup {n}]
    /\ UNCHANGED <<txVars, upd, del, pc, ghostVars>>

\* The server refuses a CREATE in a transaction opened with READ access.
SaveNewReadOnly(s, n) ==
    /\ pc[s] = "app" /\ Bound(s)
    /\ inst[s][n].st = "transient" /\ n \in NativeId
    /\ tx[s] = "readonly"
    /\ pc' = [pc EXCEPT ![s] = "failed"]
    /\ UNCHANGED <<dbVars, txVars, cacheVars, pendVars, ghostVars>>

\* assertTransaction, called by every query: without a transaction a default one
\* starts.  Whether a terminated one is replaced outside a unit depends on what
\* the session holder returns for it.
assertTransaction(s) ==
    \/ Active(s) /\ UNCHANGED tx
    \/ tx[s] = "closed" /\ UNCHANGED tx
    \/ /\ tx[s] = "none" \/ (tx[s] = "closed" /\ stack[s] = <<>>)
       /\ tx' = [tx EXCEPT ![s] = "default"]

\* get(id) when the cache has no instance: the row is read and cached.
Get(s, n) ==
    /\ pc[s] = "app" /\ Bound(s)
    /\ n \notin cached[s] \cup ins[s] \cup upd[s] \cup del[s]
    /\ Visible(s, n).live
    /\ assertTransaction(s)
    /\ inst' = [inst EXCEPT ![s][n] = [st |-> "persistent", ver |-> Visible(s, n).ver,
                                       val |-> Visible(s, n).val, dirty |-> FALSE]]
    /\ Cache(s, n)
    /\ UNCHANGED <<dbVars, stack, pendVars, pc, ghostVars>>

\* deleteEntity: the instance leaves the cache, the DELETE waits for the flush.
Delete(s, n) ==
    /\ pc[s] = "app" /\ Bound(s)
    /\ inst[s][n].st = "persistent"
    /\ inst' = [inst EXCEPT ![s][n].st = "removed"]
    /\ cached' = [cached EXCEPT ![s] = @ \ {n}]
    /\ del' = [del EXCEPT ![s] = @ \cup {n}]
    /\ UNCHANGED <<dbVars, txVars, ins, upd, pc, ghostVars>>

\* The application catches an exception inside the unit.  Unless it reuses its
\* instances it clears the session, as OptimisticLockingSpec does.
Recover(s) ==
    /\ pc[s] = "failed"
    /\ pc' = [pc EXCEPT ![s] = "app"]
    /\ IF Reuse THEN UNCHANGED <<cacheVars, pendVars>> ELSE ClearSession(s, inst)
    /\ UNCHANGED <<dbVars, txVars, ghostVars>>

\* disconnect() outside a unit: a transaction the session started is closed,
\* which rolls it back; the thread goes on with a new session.
Disconnect(s) ==
    /\ PreBound
    /\ pc[s] = "app" /\ stack[s] = <<>>
    /\ tx[s] # "none" \/ cached[s] # {} \/ ~Flushed(s)
    /\ NativeRollback(s)
    /\ tx' = [tx EXCEPT ![s] = "none"]
    /\ ClearSession(s, inst)
    /\ UNCHANGED <<store, stack, pc, ghostVars>>

-----------------------------------------------------------------------------
UnitStep(s) ==
    \/ \E mode \in Mode : Begin(s, mode)
    \/ EndRollback(s) \/ EndRollbackJoined(s)
    \/ EndCommit(s) \/ EndCommitJoined(s) \/ CommitUnflushed(s) \/ Commit(s)

FlushStep(s) ==
    \/ Flush(s) \/ FlushWithoutTransaction(s)
    \/ FlushInserts(s) \/ FlushDeletes(s) \/ FlushDone(s) \/ StatementFails(s)
    \/ \E n \in Node : FlushUpdate(s, n)

AppStep(s) ==
    \/ \E n \in Node, t \in Tag : Create(s, n, t) \/ Modify(s, n, t)
    \/ \E n \in Node :
          \/ SaveExisting(s, n) \/ SaveNew(s, n) \/ SaveNewNative(s, n)
          \/ SaveNewReadOnly(s, n) \/ Get(s, n) \/ Delete(s, n)
    \/ Recover(s) \/ Disconnect(s)

Next == \E s \in Session : UnitStep(s) \/ FlushStep(s) \/ AppStep(s)

Spec == Init /\ [][Next]_vars

-----------------------------------------------------------------------------
(***************************************************************************)
(* Correctness.                                                            *)
(***************************************************************************)

TypeOK ==
    /\ store \in [Node -> Row]
    /\ own \in [Session -> [Node -> Row \cup {NoRow}]]
    /\ tx \in [Session -> {"none", "default", "active", "readonly", "closed"}]
    /\ stack \in [Session -> Seq({"owner", "joined"})]
    /\ inst \in [Session -> [Node -> Instance]]
    /\ cached \in [Session -> SUBSET Node]
    /\ ins \in [Session -> SUBSET Node]
    /\ upd \in [Session -> SUBSET Node]
    /\ del \in [Session -> SUBSET Node]
    /\ pc \in [Session -> {"app", "flush", "commit", "failed"}]
    /\ unit \in [Session -> SUBSET Tag]
    /\ doomed \subseteq Tag

InGraph == UNION {store[n].val : n \in Node}

\* Nothing that was modified in a unit of work that rolled back is ever in the
\* graph, whatever the session still caches or has pending when the rollback
\* happens, and whatever transaction the session opens next.
RolledBackNeverCommitted == doomed \cap InGraph = {}

\* Nobody sees a modification of a unit that is still open: flush() inside the
\* unit writes only to the unit's transaction.
OpenUnitInvisible == \A s \in Session : unit[s] \cap InGraph = {}

\* Optimistic locking: a commit never drops a modification that another session
\* committed to a versioned node (neither flush order nor caching hides it).
NoLostUpdate ==
    [][\A n \in Versioned :
          store[n].live /\ store'[n].live => store[n].val \subseteq store'[n].val]_vars

\* The committed graph behaves as VersionedGraph: with all sessions, caches and
\* flushes hidden, every commit to a versioned node builds on the row it
\* replaces and shows in the version.
VG == INSTANCE VersionedGraph WITH graph <- store
ImplementsVersionedGraph == VG!Spec

\* The version a session compares with tells the content apart: the content of
\* a versioned node never changes under the same version.
ContentChangeBumpsVersion ==
    [][\A n \in Versioned :
          /\ store[n].live /\ store'[n].live
          /\ store'[n].val # store[n].val
          => store'[n].ver > store[n].ver]_vars

\* When doCommit has flushed and commits, every changed instance the session
\* knows has been written (persistDirtyButUnsavedInstances: "in case a known
\* instance is modified and not explicitly saved").
NothingLeftDirty ==
    [][\A s \in Session : Commit(s) => \A n \in cached[s] : ~inst[s][n].dirty]_vars

\* Outside every unit no transaction begun by a transaction manager is open: its
\* bolt session and its write locks are gone when the unit has ended.
NoOrphanTransaction ==
    \A s \in Session :
        /\ stack[s] = <<>> => tx[s] \notin {"active", "readonly"}
        /\ ~Active(s) => own[s] = NoWrites
=============================================================================
