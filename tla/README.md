# A TLA+ model of GORM for Neo4j

TLA+ specifications of the parts of this repository that carry its own logic:
sessions and units of work, the flush, optimistic locking, the insertion of
object graphs, changes of one-to-many associations, the mapping of
associations to relationships, and the Snowflake identifier generator. Each module
is checked by TLC on small instances; the most important properties are proved
with TLAPS for every value of the constants.

Abbreviations for the sources used below, all under
`src/grails-datastore-gorm-neo4j/src/main/groovy/org/grails/datastore/gorm/neo4j/`:
**S** = `Neo4jSession.java`, **P** = `engine/Neo4jEntityPersister.java`,
**M** = `Neo4jDatastoreTransactionManager.java`, **T** = `Neo4jTransaction.groovy`,
**G** = `identity/SnowflakeIdGenerator.java`, **R** = `engine/RelationshipPendingInsert.java`,
**U** = `RelationshipUtils.groovy`.

Contents: 1 inventory, 2 modules and their correspondence to the code, 3 runs,
4 bounds, 5 fairness, 6 proofs, 7 assumptions and known limits, 8 what is not
modelled, 9 plan.

## 1. Inventory

### 1.1 Components

**Sessions and transactions** (S, M, T). State: the session's `Neo4jTransaction`
(native transaction, `active`, `rollbackOnly`, read-only, `sessionCreated`), the
bolt session, the stack of Spring units of work on the thread. Operations:
`beginTransaction` (S 172-191), `assertTransaction`, `disconnect`, and in M
`doBegin`, `doCommit`, `doRollback`, `doSetRollbackOnly`, `isExistingTransaction`.
The transaction manager calls the session, the session calls the driver; the
application calls both. Hard: whose transaction a unit gets depends on the whole
sequence of earlier calls; a joined unit that rolls back ends the native
transaction under the outer unit; exceptions in the middle of a commit. Correct
if: a unit of work is atomic and isolated, what is rolled back is never
committed, and no transaction survives its unit.

**First-level cache, pending operations, flush** (S, P). State: cached instances
with their dirty flags, pending inserts, updates and deletes. Operations:
`persistEntity`, `updateEntity`, `deleteEntity`, `get`, `clear`, `flush` =
`persistDirtyButUnsavedInstances`, `flushPendingInserts`, `flushPendingUpdates`,
`flushPendingDeletes`. Flush runs one Cypher statement after another; other
sessions interleave between any two. Hard: instances change between save and
flush, a statement fails after others have run, cached instances are stale.
Correct if: at commit every change of a known instance has been written, exactly
once, in the unit's transaction.

**Optimistic locking** (S 285-315, `GraphPersistentEntity.formatMatchAndUpdate`).
State: the version of the instance and of the row. Hard: all interleavings of
read, flush and commit of several sessions; retries after
`OptimisticLockingException`. Correct if: no commit drops what another session
committed.

**Pending inserts of one flush** (S 409-673). State: the pending inserts and
their `executed` flags, `pendingRelationshipInserts`, the batch under
construction, the cascading operations. Two nested loops reach one insert several
times. Hard: parents create their waiting children, children refer back to their
parents, listeners veto, native ids are created earlier, statements with dynamic
labels are not batched. Correct if: one node per insert, every relationship, an
event for every insert.

**Pending relationship updates** (S 62-134 and 322-407, `engine/RelationshipPendingInsert`,
`engine/RelationshipPendingDelete`, `collection/GraphAdapter`). State: the two
caches of pending relationship inserts and deletes, the collections that record
into them. Hard: inserts run before deletes whatever the order of the calls,
bidirectional associations are recorded from both sides, other sessions move the
same child. Correct if: after a flush the relationships are those of the
collections the session has changed.

**Persisting an object graph** (P 800-1038). State: the persister's recursion over
associations. Hard: cyclic graphs, both sides of a bidirectional association,
proxies. Correct if: every reachable changed instance is saved once, and the walk
ends.

**Snowflake identifiers** (G). State: `lastTimestamp`, `sequence`, the monitor.
Hard: threads, clocks that go back, sequence wrap-around, restarts that forget
`lastTimestamp`. Correct if: identifiers are unique, increasing and positive, and
`nextId` returns.

**Relationship direction and type** (U). Pure functions from the kind, the type and
the direction of an association to its pattern. Every part of the program that
touches an association calls them for its own side: the persister to decide which
side records, the flush to find the key, R to delete and to write, the executor to
read. Hard: they have to agree without talking to each other, for every kind of
association, whichever side the application changes. Correct if: what one side
records and another writes or deletes is what both sides read, a to-one has one
value, and nothing else is deleted.

**Queries** (`engine/Neo4jQuery`, `CypherBuilder`, `engine/Neo4jAssociationQueryExecutor`,
finders). Criteria to Cypher text, result rows to instances. State: none of their
own; reads fill the first-level cache.

**Collections** (`collection/*`). Lazy sets, lists and sorted sets, with or without
dirty tracking; result lists that read the cursor on demand. State: initialised or
not, the cursor, the recorded additions and removals. Correct if: what is read is
what the association holds, whichever way it is read.

**Dynamic properties and associations** (`engine/DynamicAssociationSupport`,
`DynamicToOneAssociation`): properties that are not part of the mapping, added when read.

**Datastore and connections** (`Neo4jDatastore`, `connections/*`, `config/*`):
start-up, indexes, tenants to connection sources.

**Mapping model** (`GraphPersistentEntity`, `RelationshipPersistentEntity`,
`Neo4jMappingContext`, `mapping/*`): labels, id generators, relationship entities,
statement templates. Immutable after start-up.

**Static API, traits, services, proxies, stemmer, embedded server, plugins**:
delegation, AST transformations, string processing, process start-up.

### 1.2 Interactions

The application runs a unit of work through the transaction manager (M), which
asks the session for a transaction; `save`, `delete` and `get` go through the
static API to the session and its persister (P), which fills the session's queues.
`doCommit` flushes the session and commits the native transaction; `doRollback`
rolls it back and clears the session. Collections call back into the session's
relationship queues. The flush turns queues into statements of the driver; the
server holds a write lock for every uncommitted write. The identifier generator is
called by the persister, from any thread. `PROJECT.json` lists for every component
its files and status, and every hazard at its line with the properties that would
catch it.

## 2. Modules

| module | what it is |
|---|---|
| `VersionedGraph` | abstract specification of optimistic locking: a graph of versioned rows, one commit per step |
| `Neo4jSession` | sessions, units of work, cache, pending operations, flush, statement by statement |
| `PendingInserts` | the inside of one `flushPendingInserts` |
| `RelationshipUpdates` | changes of a one-to-many association: what a session records, the statements of `flushPendingUpdates` |
| `AssociationMapping` | from the mapping of an association to relationships and back: what a side records, writes, deletes and reads |
| `SnowflakeIdGenerator` | `nextId` statement by statement, the clock, restarts |
| `MC...` | TLC instances of these, with symmetry sets and constant functions |
| `Neo4jSession_proofs`, `Neo4jSession_locking`, `Neo4jSession_isolation`, `PendingInserts_proofs`, `RelationshipUpdates_proofs`, `RelationshipUpdates_written`, `AssociationMapping_proofs`, `SnowflakeIdGenerator_proofs` | the theorems |

`Neo4jSession` is the frame: it treats the inserts of a flush as one CREATE and
leaves associations out. `PendingInserts` opens up its insert phase,
`RelationshipUpdates` its update phase for the associations of existing nodes.
They are separate modules because their states have nothing in common but the
phase of the flush, and because a product of the three could not be checked.
`AssociationMapping` is the other cut: one session, one change at a time, one
atomic flush, but five kinds of association with their directions and types, where
`RelationshipUpdates` has the interleavings of one kind.

Some definitions exist in a second form right before the one that is used
(`FlushInsertsAutoCommit`, `NextSequenceUnbounded`, ...): a plausible mistake in
the code it models. With such a variant in place of the definition, TLC finds the
properties violated; the variants are not used otherwise.

### 2.1 Neo4jSession

A session belongs to a thread. `store` is the committed graph, `own[s]` the
uncommitted writes of the native transaction of `s` (`Visible` puts one over the
other, `LockedByOther` is the server's write lock). The content of a node is the
set of modifications (`Tag`) it carries, as in `OptimisticLockingSpec`, where
every writer appends to the name it has read: a lost update is a tag that
disappears.

| model | code |
|---|---|
| `tx[s]`: none, default (`sessionCreated`), active, readonly, closed | `Neo4jTransaction` of the session and its flags |
| `stack[s]` | the open units of the thread; "owner" began the transaction, "joined" did not |
| `inst`, `cached` | instances the thread holds, first-level cache |
| `ins`, `upd`, `del` | pending operations of `AbstractSession` |
| `pc[s]` | in application code, in `flush()`, in `doCommit`, or an exception is on its way |
| `Begin` | M `doGetTransaction`/`isExistingTransaction`/`doBegin`, S `beginTransactionInternal` |
| `EndCommit`, flush steps, `Commit`, `CommitUnflushed` | M `doCommit`: flush, then T `commit` |
| `EndRollback`, `EndRollbackJoined`, `EndCommitJoined` | M `doRollback`, `doSetRollbackOnly`, end of a joined unit |
| `Spool` in `StartFlush` | S `persistDirtyButUnsavedInstances` |
| `FlushInserts`, `FlushUpdate`, `FlushDeletes` | S `flushPendingInserts`, `flushPendingUpdates`, `flushPendingDeletes` |
| `StatementFails`, `Raise` | any driver exception, `OptimisticLockingException` |
| `SaveNew`, `SaveNewNative`, `SaveNewReadOnly`, `SaveExisting` | P `persistEntity` by kind of identifier |
| `Get`, `assertTransaction`, `Delete`, `Disconnect` | P `retrieveEntity`, S `assertTransaction`, P `deleteEntity`, S `disconnect` |

`unit` and `doomed` are history variables: the modifications made in the open
outermost unit, and those made in units that were rolled back. `Reuse` and
`PreBound` are modes of the application: whether instances are used again after
an exception, and whether a session outlives its units (session per request).

### 2.2 PendingInserts

`Neo4jSession` treats `flushPendingInserts` as one CREATE. This module opens it
up: the first loop visits the keys of `pendingRelationshipInserts`, the second the
entities with pending inserts; each visit is a pass of `processInsertsForEntity`
over all pending inserts of an entity (`pass`, `left`); `ProcessExecuted`,
`ProcessVetoed` and `ProcessNew` are the three ways an insert is handled;
`CreateRows` runs the CREATE of the pass; `RunMerge`, `FireEvent` are
`executePendings(cascadingOperations)`. `executed` is the flag of the
`PendingInsertAdapter`s, `rels` the multimap of pending relationships, `nested`
the children created inside the batch of a parent, `merges` the queued
`RelationshipPendingInsert`s and `due` the queued post-insert operations.
`back[i]` are the keys that the to-one properties of `i` point at: a reversed
association looks up the key of its parent (S 371-386). `Init` is any state in
which a flush can begin: any instances pending, some of them executed by
`persist` (native ids), some that a listener will cancel, any pending
relationships.

### 2.3 SnowflakeIdGenerator

One generator per JVM, threads inside it one at a time (`synchronized`, variable
`monitor`), `nextId` in the steps Enter, Refuse, ReadClock, TilNextMillis, Return,
with the clock free to tick between any two. The environment sets the clock back,
to any time (`SetBack`), and restarts JVMs (`Restart`). A new generator starts with
`lastTimestamp = -1`: the constructor looks at no clock, so a restart is possible
whatever the clock says. `Word` composes the bit fields and `Signed` reads the 64
bits as a Java long.

`issued` (since the last restart of their generator), `earlier` (before it) and
`unaware` are history variables. A generator is unaware when the clock was set
back where it cannot notice: its JVM restarted while the clock was behind its
`lastTimestamp`, or the clock was set back between the restart and its first
identifier.

### 2.4 RelationshipUpdates

One association between existing nodes, one-to-many, either unidirectional or
bidirectional (`kind`); both are checked in one run. `graph` is the set of
committed relationships, `own[s]` what the open transaction did to each, with the
locks the server holds for it. `ses[s]` is what the session knows and has
pending:

| model | code |
|---|---|
| `loaded`, `coll` | the initialised collections of the parents |
| `ref` | the to-one property of the children, `Unread` until the session reads it |
| `dirty`, `parented` | dirty-checking state: the instances whose association changed, the children whose recorded original value is not null |
| `ins[p]`, `del[p]` | `pendingRelationshipInserts` and `pendingRelationshipDeletes` (S 69-79) under the key (p, collection) |
| `nulled` | `pendingRelationshipDeletes` under the keys (child, to-one) |
| `upd` | the pending updates of `AbstractSession` |
| `stmts` | what is left to run of the pending update that is being flushed |
| `Load`, `Initialised` | reading a collection, which populates the to-one of its elements |
| `addTo`, `removeFrom` | `addTo`/`removeFrom`, the collections and `GraphAdapter` |
| `SetParent` | setting the to-one property |
| `Save` | P `persistEntity` with `persistAssociationsOfEntity`: the cascade to the other side |
| `Flush`, `Spooled` | S `flush`, `persistDirtyButUnsavedInstances` |
| `FlushUpdate` | one pending update of S `flushPendingUpdates`, with `processPendingRelationshipUpdates` |
| `RunStatement` | one statement: R (delete the previous relationship, MERGE) or `RelationshipPendingDelete` |
| `FlushDone`, `Commit`, `Rollback` | the end of the flush, of the unit |

`hist[s]` is history: the relationships the application removed in this unit, the
children it changed again while a change of them was pending, the relationships
that other sessions committed changes of meanwhile, and the number of changes.

### 2.5 AssociationMapping

One association between the instances `A` of the class that owns it and `B` of the
other class, of any of five kinds: unidirectional to-many and to-one, one-to-many
with its inverse, many-to-many, one-to-one. Side "a" is the property of the owning
class, "b" the inverse property; `mapping.circular` says that both classes are
one, and `mapping.type`, `mapping.direction` are the `type` and `direction` that
the mapping block gives each side, or `Unset`.

| model | code |
|---|---|
| `Incoming`, `RelationshipType`, `Outgoing` | U `isIncomingRelationship`, `getRelationshipType`, the arrow heads of `matchForAssociation` |
| `Matches` | that pattern, read by the server |
| `Read` | the query of `Neo4jAssociationQueryExecutor` |
| `Recorded` | what `save()` puts into `pendingRelationshipInserts` for a changed property: P 919-953 for collections, P 954-1019 for a to-one |
| `Connect` | the application adds `y` to the collection, or sets the to-one, of `x`, and saves it; P populates the other side and saves that too |
| `Disconnect` | `y` is taken out of a collection that writes (`GraphAdapter` 58-79; the save records what is left in it again), or a to-one is set to null (P 1021-1030) |
| `Keys`, `Flushed` | S 370-395: under which keys a pending instance looks for entries |
| `KeysWithout` | the same for an instance whose to-one is null: its own key, also if the side is reversed (S 380) |
| `Deleted` | `RelationshipPendingDelete`, with the DELETE of `GraphPersistentEntity.formatAssociationDelete`, after the inserts of its key |
| `Previous` | the DELETE of R 151-172 |
| `Merged` | the MERGE of R 174-195 |
| `FlushedByInserts`, `Flush` | inserts flush first, with `isUpdate` false, then updates; a key is served once |
| `stored` | the nodes; any of them may exist at the start, and `save()` creates the others |

Whether populating the other side of a one-to-one makes that instance dirty
depends on the property access of the library; `Connect` does both. A
unidirectional to-one is taken to be of class `OneToOne`. Circular are the to-many,
the to-one and the one-to-many only: `IsMapping` leaves out circular many-to-many
and circular one-to-one associations, where one property may be its own inverse, and
nothing here says anything about them. `AdoptByNew` is a mode
of the application: whether it moves an instance that has a parent to a parent
that is new.

`Sound` names the mappings for which the properties hold. All mappings without
explicit types and directions are sound; what the others do is in section 7.

## 3. Runs

| run | module, cfg | result |
|---|---|---|
| `session_units` | `MCNeo4jSession_units` | passes, 1.9 M states, about 2 min |
| `session_nested` | `MCNeo4jSession_nested` | passes, 0.9 M states, 45 s |
| `session_joined_rollback` | `MCNeo4jSession_joined_rollback` | violation of `RolledBackNeverCommitted` |
| `session_native_dirty` | `MCNeo4jSession_native_dirty` | violation of `NothingLeftDirty` |
| `inserts_flush` | `MCPendingInserts_flush` | passes, 0.4 M states, 8 s |
| `inserts_labels` | `MCPendingInserts_labels` | violation of `InstanceLabels` |
| `relationships_units` | `MCRelationshipUpdates_units` | passes, 0.53 M states, 35 s |
| `relationships_again` | `MCRelationshipUpdates_again` | violation of `EveryChangeWritten` |
| `associations_sides` | `MCAssociationMapping_sides` | passes, 75 000 states, 70 s |
| `associations_adopt` | `MCAssociationMapping_adopt` | violation of `SingleEnded` |
| `snowflake_unique` | `MCSnowflakeIdGenerator_unique` | passes, 0.81 M states, about 2 min 20 s |
| `snowflake_restart` | `MCSnowflakeIdGenerator_restart` | violation of `NeverTwice` |

**session_units**: two sessions, one level of units, a versioned node and a node
that is created during the run. What a unit has done is invisible until it
commits (`OpenUnitInvisible`) and never comes back after a rollback
(`RolledBackNeverCommitted`), whichever statement of the flush fails; no commit
loses another session's update (`NoLostUpdate`), and seen from outside the
committed graph is `VersionedGraph` (`ImplementsVersionedGraph`); a commit leaves
no changed instance unwritten (`NothingLeftDirty`); no transaction is left over
(`NoOrphanTransaction`).

**session_nested**: two levels of units, read-write and read-only, sessions that
outlive them, a node with a native id. `NoOrphanTransaction` again, now with
joined units that roll back, transactions the session created itself and
read-only transactions; and `ContentChangeBumpsVersion`.

**The violations** are behaviours of the code that differ from what a comment, a
test or the guide says:

- `session_joined_rollback`: an inner unit joins and calls `setRollbackOnly`. M
  rolls back and closes the native transaction at once, but the session keeps its
  changed instance. The next inner unit finds no active transaction, begins a new
  one as its owner, and its commit flushes the change that was rolled back. (The same
  property also fails without a second unit: after the rollback, `save()` of an
  instance with a native id runs its CREATE on the bare bolt session, P 754,
  where it commits at once, and the outer unit's rollback does not reach it.)
- `session_native_dirty`: an instance with a native id stays pending after its
  CREATE; a property set between `save()` and the commit is not spooled, because
  the instance is pending, and its executed insert writes nothing.
- `inserts_labels`: a child created in the batch of its parent gets the static
  labels of its entity although its labels depend on the instance.
- `relationships_again`: a child is taken out of a collection and put back before
  the flush. The collection ends as it began, but both changes are recorded, and
  S 397-407 runs the inserts of a key before its deletes: the MERGE finds the
  relationship, the DELETE removes it. `OneToManyUpdateSpec` expects "the
  relationship is correct"; its child was not stored under the parent before.
- `associations_adopt`: an existing child of a one-to-many is moved to a parent
  that is saved for the first time. The insert of the parent flushes the shared
  key, and R deletes previous relationships only for updates: the child has two
  parents, and its to-one is whichever row the server returns first. The persister
  means to report that ("Single-ended association has more than one associated
  identifier", P 514), but `IteratorUtil.singleOrNull` does not throw.
- `snowflake_restart`: a generator has issued an identifier, its JVM restarts, and
  the clock is set back. `lastTimestamp` is -1 again, so the test of G 62 passes and
  the identifier is issued once more. Without the restart the same set-back is
  reported as "Clock moved backwards".

One more divergence needs no counterexample: the high bit of the ten-bit data center
id is the sign bit of the identifier (G 76), so that half of the machines issue
negative identifiers, where the comment promises "64 bit positive longs" (G 30).
`PositiveHalf` says for which machines the comment is right.

**inserts_flush**: a club with two teams, an association from club to teams with
an inverse to-one, and a circular one between teams: at the end of the flush
every insert that no listener cancelled has one node (`NodesCreatedOnce`), every
relationship the flush had to create is there and no other
(`RelationshipsComplete`), and PostInsert was published for every insert
(`PostInsertFired`).

**relationships_units**: two sessions, two parents, two children. A commit deletes
only relationships that its unit removed, or the previous one of a child that gets
another parent (`OnlyRemovedDisappear`): neither stale collections, nor the
cascade of `save()` that makes every element of a changed collection a pending
insert, nor the DELETE before the MERGE takes anything else away. A child of a
bidirectional association gets a second parent only if another session moved it
at the same time (`OneParentUnlessRaced`; when two sessions do, neither sees the
other's relationship to delete it, and the locks only order them). And when a
unit commits, the graph has the relationships of the collections the session has
read (`CollectionsWritten`): nothing recorded is dropped by an update that flushes
another's key, by `clearPendingOperations`, or by the cascade. It excepts the
children the unit changed again while a change of them was pending, which is what
`relationships_again` shows, and those another session changed. With the same
exceptions, a child whose to-one is null at the commit has no parent in the graph
(`ToOneWritten`), also where a collection of the session still shows it: the delete
was recorded, from the original value of the to-one or by the collection, and no
MERGE of the stale collection brings the relationship back.

**associations_sides**: every sound mapping of the kinds of section 2.5 (circular
many-to-many and one-to-one associations are not among them), two instances of each
class that exist or not, connected and taken apart from either side again and
again. What was
connected is read through the same side after the flush (`ConnectedIsRead`): a
reversed side leaves recording to its inverse, the key it flushes is that of the
inverse, and the relationship has the type and direction it reads. What was taken
out of a collection, or of a to-one that was set to null, is not read any more
(`DisconnectedIsGone`): a reversed to-one, which never writes, looks under its own
key and deletes what the inverse wrote, and the elements that the save of a
collection records again do not bring the removed one back. The two sides of
a one-to-many and of a many-to-many always read the same pairs (`SidesAgree`). A
to-one has one value (`SingleEnded`), the other side of what `associations_adopt`
shows. And a flush takes away only what is replaced or taken back (`OthersKept`):
neither the siblings of a child that moves or goes, nor, in a circular association,
the relationships in the other direction, nor anything else of a many-to-many.

**snowflake_unique**: three threads in two JVMs, a clock that is set back at any
time, a restart at any time. Within one life of its JVM a generator never repeats
an identifier and its identifiers increase; across a restart too, unless it is
unaware of a set-back, and then it repeats only its own (`Unique`, `Increasing`).
`snowflake_restart` is the other side of that exception: it is all that is missing
from `NeverTwice`. A thread that has used up a millisecond, or whose clock was set
back, gets out of `tilNextMillis` (`NextIdEnds`). The sign of an identifier is that
of the data center id (`PositiveHalf`).

Deadlock is not checked in any run: every model really may stop, when the
modifications of `Tag`, the versions or the milliseconds are used up, or the
flush is done.

## 4. Bounds

- `Tag = {t1, t2}`: two modifications are enough for one to lose the other; every
  violation above needs at most two. `Tag` and `Session` are symmetric.
- `MaxVersion = 2`: an update and a concurrent update.
- `MaxDepth`: 1 in `session_units`, 2 in `session_nested`; a third level behaves
  as the second (both are joined).
- Two sessions: every property speaks of one session and its environment, or of
  the pair that shares a node.
- `PendingInserts`: three instances give a child that waits in two associations,
  a child that is a parent, a cycle, and every combination of vetoed, executed
  and existing instances.
- `RelationshipUpdates`: two parents are what a child can move between, two
  children are what one statement can treat together, and two sessions race.
  `MaxCalls = 3` changes in total by the open units: enough to change two children,
  or to move one and change it again. `OverlapBound` restricts overlapping units:
  they change one child, each once, and after one of them has committed a change
  the other ends before a third begins. A unit alone makes all three changes, of
  any children. (One session with four changes also passes, in more time than the
  others together.) Sessions, parents and children are symmetric.
- `AssociationMapping`: two instances of each class are a parent and another one, a
  child and a sibling; in a circular association all four are of one class. `Type`
  has one name: the types that differ are the explicit one and the names of the two
  sides. All directions, on both sides, but of the circular to-many, whose graphs
  are most of the states, only the default mapping: its one side would have another
  name. The number of connections and removals is not bounded. (Every sound
  mapping also passes, 154 000 states; the proofs are about all of them.)
- Snowflake: `SequenceMax = 2`, three milliseconds, one set-back, one restart, in
  either order: the sequence wraps in every millisecond, and both ways of becoming
  unaware occur. The fields are scaled down
  (`TimestampUnit = 4`, `TimestampRange = 8`, `DatacenterHalf = 1`), the layout is
  that of the code; the proofs hold for any widths, those of the code included.

The proved properties do not depend on these bounds.

## 5. Fairness

Only `NextIdEnds` is a liveness property. `FairSpec` assumes weak fairness of
`Tick` (time passes: the clock is outside the program) and of the steps of a
thread inside `nextId` (a running thread keeps running: the loop of
`tilNextMillis` waits for nothing but the clock). Fairness of `Enter` is not
assumed: a Java monitor does not promise who gets in next, and the property does
not claim it. The property is restricted to `lastTimestamp < MaxClock` since the
bounded clock stops there. The sessions have no fairness: an application may stop
calling at any time, and their properties are safety properties.

## 6. Proofs

All constants are arbitrary, subject to the named ASSUMEs of the module.

**Neo4jSession_proofs.** `TypeCorrect`: every reachable state is well typed.
`NoOrphan` proves `NoOrphanTransaction` for any depth of nesting and any failures.
The invariant `Life` strengthens it: a flush is only under way with a writable
transaction; a commit is only under way in an owning unit; the outermost unit
owns the transaction; without a writable transaction there are no uncommitted
writes. `NoOrphanTransaction` alone is not inductive, because a commit that fails
rolls back "the owner", and nothing in it says that the outermost unit is one.
`NoGeneratedDirty` proves, without hypotheses, that a commit leaves no changed
instance of the cache unwritten whose identifier is not native
(`GeneratedWritten`); `NothingDirty` is the corollary that `NothingLeftDirty` holds
under `NativeId = {}`. The invariant: from the start of the flush of a commit on,
every such instance that has changed is pending. It is established by the spooling at
the start of the flush and kept because an instance leaves the queues only in the
statement that writes it, which also makes it clean. A native identifier breaks
the second half (`session_native_dirty`): its insert has been executed, and leaves
the queue without writing.

**Neo4jSession_locking.** `ContentBumpsVersion` proves `ContentChangeBumpsVersion` for
any depth of nesting, any failures, and instances used again or not.
`LockingImplemented` proves that sessions implement `VersionedGraph` (initial states
map to initial states, every step to a commit or a stutter) and `NothingLost` proves
`NoLostUpdate`, both under the hypothesis `Flat`: units do not nest (`OneLevel ==
MaxDepth <= 1`), and instances are dropped after an exception or a rollback
(`~Reuse`). One inductive invariant, `LockInv`, serves all three. It says of every
session and node: a node under creation is known to nobody else (`CreatedAlone`) and
its first row is still to be written (`Unwritten`); only saved or read instances are
pending (`PendingKnown`); two sessions never both have an uncommitted write on a node
(`Exclusive`); an uncommitted row has a higher version than the committed row
(`Derived`); and under `Flat` the uncommitted row also carries all of the committed
one (`Derived`), and an instance is behind the row it would be compared with, or
carries everything in it (`InstanceCovers`). `Derived` is what makes a commit safe;
`InstanceCovers` is what makes the second half of `Derived` hold when an update
matches. The versions need no hypothesis because an update only ever replaces the row
it has compared itself with, and `Exclusive` keeps that row in place until the commit.
The content needs both halves of `Flat`. `~Reuse`: see section 7. A joined rollback
(`session_joined_rollback`) lets a session go on with instances of a transaction that
was rolled back; their versions are ahead of the row, and may meet a row of the same
version that another session has written meanwhile, whose content they do not carry.

**Neo4jSession_isolation.** `OpenUnitHidden` proves `OpenUnitInvisible` under
`OneLevel`, with instances used again or not, and `RolledBackStaysOut` proves
`RolledBackNeverCommitted` under `Flat`, for any sessions, nodes, modifications and
kinds of identifier. An application that goes on with the instances of a unit that was
rolled back may save them in the next one, so the second needs `~Reuse`. The invariant
`IsoInv`: what the open unit of a session has modified is held, in an uncommitted row
or in an instance, by that session alone, and is not in the committed graph
(`UnitAlone`); what was rolled back is held by nobody, unless instances are used again
(`DoomedGone`); and inside a unit there is an active transaction, outside it there is
no history (`UnitHasTx`). The argument is one lemma about the flow of modifications
(`Flow`): a step takes what it writes from the rows the session sees and from its
instances, or makes a modification nobody has used; it puts something into the
committed graph only where it also ends the unit. `UnitHasTx` is the part that looks
redundant and is not: without it the CREATE of a native identifier could go to the
bare bolt session and commit at once, inside a unit. That, and a session that goes on
with the instances of a unit that was rolled back, are the two ways
`session_joined_rollback` breaks the property when units nest, so `OneLevel` is
needed.

**PendingInserts_proofs.** `CreatesOnce`, `ConnectsAll`, `PublishesAll` and
`TypeCorrect`, without further hypotheses; `LabelsWritten`
under `PlainChildren`. The invariant:
the executed flag separates the inserts that have a node, in the graph or in the
batch of the pass, from those that have none (`Once`); an insert that is not yet
dealt with is still ahead of the second loop (`Reached`); every wanted
relationship is in its queue, in the batch, among the MERGE operations or in the
graph, unless one of its ends was vetoed (`Whereabouts`); nothing else is
(`NothingMadeUp`).
`LabelsWritten` says where the finding of `inserts_labels` ends: `InstanceLabels` is
violated only through a batched association that leads from an entity with fixed labels
to one whose labels depend on the instance. Without such an association
(`PlainChildren`) it always holds, because the nodes of a pass are all of its entity,
and the children nested below them are never of an entity with dynamic labels
(`Labelled`).

**RelationshipUpdates_proofs.** `TypeCorrect`, `OnlyRemovedDisappearCorrect` and
`OneParentUnlessRacedCorrect`, for any parents, children and sessions and any
number of changes. The invariant says that two sessions never have uncommitted
changes that touch one child (`LocksExclusive`, from the locks), and of each
session: what is queued for deletion the application has removed (`QueuesRemoved`);
in the statements of a bidirectional pending update, the MERGE of a set of children
directly follows the deletion of their previous relationships (`Planned`); every
relationship the transaction has deleted was removed by the application, or its
child has another parent, or the MERGE that gives it one is the next statement
(`Accounted`); a child whose relationships nobody else changed has at most one
parent, also in the middle of a flush (`Single`); and outside a flush no statement
is left (`Resting`). `Accounted` is why the order inside
R matters: between its two statements the relationship is gone and only the next
statement justifies it. `TypeCorrect` needs one fact about behaviour: a child that
is dirty has been read, so that its to-one is never `Unread` when it is saved.

**RelationshipUpdates_written.** `CollectionsWrittenCorrect`, for any parents,
children and sessions, any number and order of changes, of saves (by hand or by the
cascade) and of keys in any number of flushes, and both kinds of association.
`CollectionsWritten` speaks of the moment of the commit; what makes it true happens
over the whole unit. The invariant `FitsInv` is therefore relative to what the graph
*will* be when the statements in flight have run (`Future`; `Expected` parents of a
child). For each child of a bidirectional association that no other session moved
and the unit did not change twice (`Undisturbed`), two collections of the session
both have the child (`Torn`; the property says nothing of such a child) or it
`Fits`: a pending insert is what the instances say, or a repetition that a pending
delete takes away again (`InsertsFit`); a pending delete is under the parent whose
collection lost the child (`DeletesFit`); without a pending insert the to-one is the
expected parent, is null while a delete, a nulled to-one or an unsaved change says
why, or is unread (`RefFits`, `NotParented`); a read collection shows what is
expected and not removed (`Shown`); and every entry of the queues is under a key
that some pending update will look up (`Keyed`). `Keyed` is why
`clearPendingOperations` loses nothing. For a unidirectional association the
invariant is about one parent and one child (`OneWay`).

The argument has three kinds of steps. A change by the application leaves the
graph alone and keeps the child fitting (`Carrying`, one lemma for each of
load, add, remove, setParent, save). `FlushUpdate` turns the entries of a key into
statements, and changes `Future` exactly by those entries (`KeyOutcome`): this is where the
order of the statements of S 363-425 enters. `RunStatement` moves one effect from
the statements to the graph and leaves `Future` as it is (`OutcomeStep`). The commit
of another session changes what this one sees only of children that count as raced. The
instances of a session may disagree in between: a `save()` of the old parent, for
another child's sake, cascades to a child that `setParent` moved away and takes it back. The
invariant tolerates that as `Torn` or as an unsaved to-one, and `CollectionsWritten`
claims nothing of the instances that still disagree at the commit (`Consistent`).

**AssociationMapping_proofs.** All six properties of `associations_sides`, for any
instances, types and sequence of changes, and every set of mappings that are
`Sound`; `SingleEndedCorrect` and `OthersKeptCorrect` also assume `~AdoptByNew`.
The lemma the rest stands on is `Directions`: in a sound mapping exactly one side
of a one-to-many or many-to-many writes, and both have the same type. From it, the
invariant: every relationship was written by a side that is not reversed, from an
instance of its own end (`Shaped`), so that what one side reads the other reads
(`Mirror`); every entry of the queue was recorded by such a side, under a key that
the flush reaches, and is the connection itself or already in the graph; what is
taken back is in the graph and recorded by no entry (`Planned`); and what the last
flush had to write is there, what it had to delete is not (`FlushedChange`). A
removal deletes the elements of a one-to-many before it writes them again:
`FlushRemoves` follows each of them to its entry.
`SingleEdges`, one relationship for a to-one, is kept because
everything the new relationship competes with is in `Previous` of a key that an
update serves; the only key that an insert serves instead is that of an instance
without a node, which has no relationships, or of a new parent, which is where
`~AdoptByNew` is needed (`Competitor`).

**SnowflakeIdGenerator_proofs.** `IdsIncrease`, `IdsUnique`, `SteadyClockUnique`,
`PositiveHalfCorrect` and `TypeCorrect`, for any number of threads, JVMs, restarts and
set-backs, and any field widths. The invariant: a thread inside `nextId` holds the
monitor (`Holds`); every identifier issued in this life of its generator is counted by
its `lastTimestamp` and `sequence` (`Counted`); one of an earlier life, of a generator
that is not unaware, is older than its `lastTimestamp`, or than the clock if it has
issued nothing yet (`Past`); what a thread is about to return follows all of these
(`Follows`). `IdsIncrease` (`Increasing`) and `IdsUnique` (`Unique`) follow; the latter
assumes `DistinctIds`, since equal data center ids make equal identifiers. A generator
becomes unaware only through a set-back (`Steady`): with a clock that is never set
back, `MaxBack = 0`, `SteadyClockUnique` has `NeverTwice` without exception, across any
number of restarts. `PositiveHalfCorrect` proves that an identifier is positive exactly
when the high bit of the data center id is clear.

**Only model-checked**: `NextIdEnds`, which is liveness under fairness and out of
the prover's reach, `ToOneWritten`, and everything a violation run shows.

## 7. Assumptions and known limits

About code outside this repository (`AbstractSession`, Spring's transaction
support, the driver, the server), from how the code here uses it:

- `doCommit` flushes, then commits; an exception in it rolls the unit back.
  `doRollback` rolls back and clears the session.
- The pending operations are dropped when a flush fails. An inserted instance is
  tracked as clean afterwards.
- `MATCH ... WHERE version ... SET` is atomic under the server's write lock, and
  reads see committed rows and the own writes. Native commit and rollback succeed.
- Whether the session holder hands out a terminated transaction outside a unit is
  a nondeterministic choice (`assertTransaction`).
- Listeners do not veto in `Neo4jSession`; they do in `PendingInserts`.
- `REQUIRES_NEW` is not modelled (`TransactionPropagationSpec` ignores it), nor
  is saving a detached instance again with an assigned identifier.
- Delete statements do not compare versions, in the code and in the model.
- `PendingInserts` takes the inserts of a pass, and the cascading operations, in
  any order; the iterator of the relationship cache is weakly consistent and may
  or may not deliver a key that was removed (`SkipKey`). A parent that exists
  already, and that no new child refers to, is left to the flush of updates.
- `RelationshipUpdates`: pending updates are flushed in any order (they are in a
  map); a statement is atomic and locks both ends of what it changes; `save` is
  atomic, since nothing of it but reads goes to the server. Instances that are
  added or set are initialised; an element that the session had read earlier, or
  as a proxy, may keep its to-one when a collection is initialised (`kept`).
  `session.clear` drops the queues, and a session lasts for one unit of work.
- Snowflake: a restart takes a millisecond or more (the clock ticks in `Restart`);
  nothing is assumed about when the clock is set back or how far. The clock fits in the timestamp field (`ClockAssumption`; in the code until
  2080), so that `|` is `+`. `datacenterId` is a constant; how it is computed from
  the hardware address (G 88-107) is not modelled.

Known limits of the code, for the children `CollectionsWritten` excepts, those that a
unit changes again while a change of them is pending and those that another session
changes:

- a child moved to another parent after a `save` of the first parent has cascaded
  to it is still a pending insert there: depending on the order of the pending
  updates, the stale insert takes it back (S 402);
- a to-one property set between `save()` of the child and the flush is recorded
  nowhere, since the child is a pending update already (P 833);
- swapping two children of two parents may lose one of them, for the same reasons;
- adding a child and taking it out again in a bidirectional association removes it
  from its previous parent, which the collections do not show.

- two sessions that change one child, or one collection, do not notice each other,
  since an update of associations raises no version (S 284): the child may end with
  two parents, and an element that another session took out may be merged again.
  `OneParentUnlessRaced`, `CollectionsWritten` and `ToOneWritten` except these children.

Known limits of the code, for retries and events:

- `flushPendingUpdates` raises the version of the instance before the statement
  and leaves it raised when no row matches (S 300). Saving the same instance again
  after `OptimisticLockingException` compares with that version, which is by now
  the version of the other session's row, and overwrites its update: with
  `Reuse = TRUE`, `NoLostUpdate` does not hold. `OptimisticLockingSpec` clears the
  session after the exception.
- PostInsert is published once for every pass that meets an executed insert
  (S 452), so an instance that owns a pending relationship gets it twice;
  `PostInsertFired` claims that it comes, not that it comes once.

Known limits of the mapping of associations, for mappings that are not `Sound`:

- an explicit type on one side of a bidirectional association only, as in the
  guide's example (`associations.adoc`:25-41), makes the other side read the default
  type: it finds nothing;
- INCOMING or BOTH on the only side that writes (a unidirectional association, the
  inverse side of a many-to-many) makes that side leave the recording to an inverse
  that does not record: the connection is not written, although the guide says
  that a relationship `(from)<-[r:PETZ]->(to)` is created;
- INCOMING or BOTH on the collection of a one-to-many makes S 379 take the
  collection for an instance (`IsMapping` excludes it);
- OUTGOING or BOTH on the to-one of a circular one-to-many makes it read the
  relationships of both directions, children as parents;
- a one-to-one is two relationships, one per side: setting one side to another
  instance, or to null, leaves the previous partner pointing back.

Statements of `RelationshipPendingDelete` are taken to do what they say: their
parameter syntax, `{start}`, is that of Neo4j up to 3.5.

Known limit: `OpenUnitInvisible` is checked with one level of units. With two
levels and a session that outlives its units it does not hold: a transaction the
session created for a query is handed to the first unit, `isExistingTransaction`
stays false because of `sessionCreated`, and the unit nested in it becomes an
owner too, whose commit commits the outer unit's work.

## 8. Not modelled

- In all three modules of associations: relationship entities and dynamic
  associations, with their own patterns (U 126-167), and orphan removal.
- Circular many-to-many and circular one-to-one associations.
- Many-to-many and one-to-one associations, and parents and children that are new,
  under concurrent sessions: `AssociationMapping` has them in one session, with an
  atomic flush. In `RelationshipUpdates` also:
  `clear`/`retainAll`/`removeAll` on a collection (the first two record no delete
  for the elements they drop), collections changed before they are initialised,
  and the limit of 5000 keys of the two caches.
- Removal from the collection of a many-to-many that owns the association: it is
  reversed, so `GraphAdapter` records nothing (line 75), and whether the other
  collection, which does write, is changed along is up to the library's
  `removeFrom`. Several changes in one unit of work: `RelationshipUpdates` has them
  for the one-to-many.
- The walk of `persist` over cyclic graphs beyond one association; lazy collections
  and result lists as cursors.
- Failing native commit and rollback (T skips `close()`), transaction timeouts,
  `updateAll` and `deleteAll`.
- Generation of Cypher text, conversion of values, AST transformations, the
  stemmer, the embedded server, the plugins: sequential string processing or
  start-up with no protocol of its own.
- Integer overflow of versions (`Long`).

## 9. Plan

Done: `VersionedGraph` and `Neo4jSession`, `SnowflakeIdGenerator`, `PendingInserts`
(the refinement of the insert phase of the flush), `RelationshipUpdates` (the
association part of the update phase), `AssociationMapping` (five kinds of
association, one connection or removal at a time), each with its proofs.

What would come next, in this order:

1. Many-to-many and one-to-one under concurrent sessions: the patterns of
   `AssociationMapping` in the statements of `RelationshipUpdates`.
2. `PersistCascade`: the persister's walk over cyclic object graphs, both sides of
   an association, proxies and uninitialised collections. Property: every
   reachable changed instance is pending once, and the walk ends. Its result is
   `Init` of `PendingInserts`.
3. `LazyCollections`: lazy sets and result lists, initialisation from the cursor,
   changes before initialisation, `clear` and `retainAll`.
4. `Neo4jSession` extensions: failing native commit and rollback,
   `updateAll`/`deleteAll`, default transactions under nested units.
