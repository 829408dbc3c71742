---------------------------- MODULE PendingInserts ----------------------------
(***************************************************************************)
(* flushPendingInserts: one flush of the pending inserts of a session.     *)
(* It passes over the pending inserts of an entity once for every pending  *)
(* relationship that an instance of the entity owns, and once more for     *)
(* every entity; what keeps a second pass from creating a node again is    *)
(* the executed flag of the pending insert.  A pass batches its nodes into *)
(* one CREATE, and creates together with a parent the children that wait   *)
(* in one of its batched associations; the other relationships become      *)
(* MERGE operations that run after all passes.                             *)
(*                                                                         *)
(* A pass takes the pending inserts in the order they were saved; the      *)
(* model takes them in any order.                                          *)
(***************************************************************************)
EXTENDS Naturals, FiniteSets

CONSTANTS
    Entity,         \* the persistent entities
    Instance,       \* their instances
    entityOf,
    Association,    \* the associations that are not reversed
    ownerOf,
    targetOf,
    Batched,        \* the associations that are an owning side or circular
    Bidirectional,  \* those whose inverse side is a to-one of the child
    DynamicLabels,  \* the entities whose labels depend on the instance
    NoEntity        \* no pass is under way

\* A key of pendingRelationshipInserts, and a relationship.
Key == {k \in [parent : Instance, assoc : Association] : entityOf[k.parent] = ownerOf[k.assoc]}
Rel == [key : Key, child : Instance]

ASSUME EntityAssumption == entityOf \in [Instance -> Entity] /\ DynamicLabels \subseteq Entity
ASSUME AssociationAssumption ==
    /\ ownerOf \in [Association -> Entity] /\ targetOf \in [Association -> Entity]
    /\ Batched \subseteq Association /\ Bidirectional \subseteq Association
ASSUME NoEntityAssumption == NoEntity \notin Entity

VARIABLES
    inserts,   \* the pending inserts
    vetoed,    \* those a listener cancels
    back,      \* back[i]: the keys the to-one properties of i refer to
    wanted,    \* history: the pending relationships when the flush began
    rels,      \* pendingRelationshipInserts; {} is an absent or empty queue
    executed,  \* the pending inserts whose executed flag is set
    phase,     \* the two loops, the cascading operations, the end
    keys,      \* the keys the first loop has yet to visit
    entities,  \* the entities the second loop has yet to visit
    pass,      \* the entity whose pending inserts are processed
    left,      \* the ones this pass has not reached
    rows,      \* the nodes, and
    nested,    \* the children of these nodes, that the CREATE of this pass makes
    merges,    \* the queued RelationshipPendingInserts
    due,       \* due[i]: how often the post-insert operation of i is queued
    node,      \* node[i]: how many nodes of the graph stand for i
    labelled,  \* the nodes that carry the labels of their instance
    graph,     \* the relationships of the graph
    fired      \* fired[i]: how often PostInsert was published for i

inputVars == <<inserts, vetoed, back, wanted>>
passVars == <<pass, left, rows, nested>>
loopVars == <<phase, keys, entities>>
queueVars == <<rels, executed, merges, due>>
dbVars == <<node, labelled, graph>>
vars == <<inputVars, passVars, loopVars, queueVars, dbVars, fired>>

InsertsOf(e) == {i \in inserts : entityOf[i] = e}
Occupied(r) == {k \in Key : r[k] # {}}

\* Pending relationships connect a parent to instances of the target entity.
Fitting(r) == \A k \in Key : \A c \in r[k] : entityOf[c] = targetOf[k.assoc] /\ c # k.parent

\* A to-one is set to a parent whose collection the child was added to.
BackOf(r, i) == {b \in SUBSET {k \in Key : k.assoc \in Bidirectional /\ i \in r[k]} :
                    \A k, l \in b : k.assoc = l.assoc => k = l}

\* Native identifiers: persist() has created the node and set the flag already;
\* a vetoed insert of that kind never becomes pending.
Init ==
    /\ inserts \in SUBSET Instance
    /\ executed \in SUBSET inserts
    /\ vetoed \in SUBSET (inserts \ executed)
    /\ rels \in {r \in [Key -> SUBSET Instance] : Fitting(r)}
    /\ back \in {b \in [Instance -> SUBSET Key] : \A i \in Instance : b[i] \in BackOf(rels, i)}
    /\ wanted = rels
    /\ phase = "keys"
    /\ keys = Occupied(rels)
    /\ entities = {}
    /\ pass = NoEntity
    /\ left = {} /\ rows = {} /\ nested = {} /\ merges = {}
    /\ due = [i \in Instance |-> 0]
    /\ node = [i \in Instance |-> IF i \in inserts \ executed THEN 0 ELSE 1]
    /\ labelled = Instance \ (inserts \ executed)
    /\ graph = {}
    /\ fired = [i \in Instance |-> 0]

-----------------------------------------------------------------------------
(***************************************************************************)
(* The two loops of flushPendingInserts.                                   *)
(***************************************************************************)

StartPass(e) ==
    /\ pass' = e
    /\ left' = InsertsOf(e)
    /\ UNCHANGED <<rows, nested>>

\* Owners without pending inserts are passed over.
VisitKey(k) ==
    /\ phase = "keys" /\ pass = NoEntity
    /\ k \in keys
    /\ keys' = keys \ {k}
    /\ IF InsertsOf(ownerOf[k.assoc]) # {} THEN StartPass(ownerOf[k.assoc])
                                           ELSE UNCHANGED passVars
    /\ UNCHANGED <<inputVars, phase, entities, queueVars, dbVars, fired>>

\* The iterator may or may not still deliver a key that a pass has removed.
SkipKey(k) ==
    /\ phase = "keys" /\ pass = NoEntity
    /\ k \in keys /\ rels[k] = {}
    /\ keys' = keys \ {k}
    /\ UNCHANGED <<inputVars, passVars, phase, entities, queueVars, dbVars, fired>>

EndKeys ==
    /\ phase = "keys" /\ pass = NoEntity
    /\ keys = {}
    /\ phase' = "entities"
    /\ entities' = {e \in Entity : InsertsOf(e) # {}}
    /\ UNCHANGED <<inputVars, passVars, keys, queueVars, dbVars, fired>>

VisitEntity(e) ==
    /\ phase = "entities" /\ pass = NoEntity
    /\ e \in entities
    /\ entities' = entities \ {e}
    /\ StartPass(e)
    /\ UNCHANGED <<inputVars, phase, keys, queueVars, dbVars, fired>>

EndEntities ==
    /\ phase = "entities" /\ pass = NoEntity
    /\ entities = {}
    /\ phase' = "cascade"
    /\ UNCHANGED <<inputVars, passVars, keys, entities, queueVars, dbVars, fired>>

-----------------------------------------------------------------------------
(***************************************************************************)
(* processInsertsForEntity, one pending insert at a time.                  *)
(***************************************************************************)

\* The keys that processPendingRelationshipUpdates looks up for i: its own, and
\* for a reversed to-one the key of the parent it refers to.
KeysOfOwnSideOnly(i) == {k \in Key : k.parent = i}
KeysOf(i) == {k \in Key : k.parent = i} \cup back[i]

\* processPendingRelationshipUpdates: the queues of these keys become pending
\* operations and leave the map.
QueueRelationships(i, r) ==
    /\ merges' = merges \cup {[key |-> k, ids |-> r[k]] : k \in KeysOf(i) \cap Occupied(r)}
    /\ rels' = [k \in Key |-> IF k \in KeysOf(i) THEN {} ELSE r[k]]

QueueEvents(is) == due' = [j \in Instance |-> IF j \in is THEN due[j] + 1 ELSE due[j]]

Reach(i) ==
    /\ pass # NoEntity
    /\ i \in left
    /\ left' = left \ {i}

\* (The variant takes the post-insert operation for done.)
ProcessExecutedNoEvents(i) ==
    /\ Reach(i)
    /\ i \in executed
    /\ QueueRelationships(i, rels)
    /\ UNCHANGED <<inputVars, loopVars, pass, rows, nested, executed, due, dbVars, fired>>

ProcessExecuted(i) ==
    /\ Reach(i)
    /\ i \in executed
    /\ QueueRelationships(i, rels)
    /\ QueueEvents({i})
    /\ UNCHANGED <<inputVars, loopVars, pass, rows, nested, executed, dbVars, fired>>

\* A listener cancels the insert: nothing is created, the flag is set.
ProcessVetoed(i) ==
    /\ Reach(i)
    /\ i \in vetoed \ executed
    /\ executed' = executed \cup {i}
    /\ UNCHANGED <<inputVars, loopVars, pass, rows, nested, rels, merges, due, dbVars, fired>>

\* The pending inserts that wait in a batched association of i.  Statements for
\* dynamic labels are not batched.  (The variant takes the children that exist
\* already for new ones.)
WaitingExistingToo(i) ==
    {r \in Rel :
        /\ r.key.parent = i
        /\ r.key.assoc \in Batched
        /\ entityOf[i] \notin DynamicLabels
        /\ r.child \in rels[r.key]
        /\ r.child \notin executed \cup {i}}

Waiting(i) ==
    {r \in Rel :
        /\ r.key.parent = i
        /\ r.key.assoc \in Batched
        /\ entityOf[i] \notin DynamicLabels
        /\ r.child \in rels[r.key]
        /\ r.child \in inserts \ (executed \cup {i})}

Children(rs) == {r.child : r \in rs}

\* Every waiting child is taken up by one association, the first that has it;
\* its flag is set, and unless it is vetoed it is created with its parent.
TakesUp(i, taken) ==
    /\ taken \subseteq Waiting(i)
    /\ Children(taken) = Children(Waiting(i))
    /\ \A r, q \in taken : r.child = q.child => r = q

NestedOf(taken) == {r \in taken : r.child \notin vetoed}

RelsWithout(rs) == [k \in Key |-> rels[k] \ {r.child : r \in {q \in rs : q.key = k}}]

\* (The variant does not set the flag of the children.)
ProcessNewChildrenUnmarked(i) ==
    /\ Reach(i)
    /\ i \notin vetoed \cup executed
    /\ \E taken \in SUBSET Waiting(i) :
        /\ TakesUp(i, taken)
        /\ executed' = executed \cup {i}
        /\ rows' = rows \cup {i}
        /\ nested' = nested \cup NestedOf(taken)
        /\ QueueRelationships(i, RelsWithout(NestedOf(taken)))
        /\ QueueEvents({i} \cup Children(NestedOf(taken)))
    /\ UNCHANGED <<inputVars, loopVars, pass, dbVars, fired>>

ProcessNew(i) ==
    /\ Reach(i)
    /\ i \notin vetoed \cup executed
    /\ \E taken \in SUBSET Waiting(i) :
        /\ TakesUp(i, taken)
        /\ executed' = executed \cup {i} \cup Children(taken)
        /\ rows' = rows \cup {i}
        /\ nested' = nested \cup NestedOf(taken)
        /\ QueueRelationships(i, RelsWithout(NestedOf(taken)))
        /\ QueueEvents({i} \cup Children(NestedOf(taken)))
    /\ UNCHANGED <<inputVars, loopVars, pass, dbVars, fired>>

\* The CREATE of the pass: nodes of dynamic labels carry the labels of their
\* instance, all others, nested children included, those of their entity.
CreateRows ==
    /\ pass # NoEntity
    /\ left = {}
    /\ node' = [i \in Instance |-> node[i] + (IF i \in rows THEN 1 ELSE 0)
                                          + Cardinality({r \in nested : r.child = i})]
    /\ labelled' = labelled \cup (IF pass \in DynamicLabels THEN rows ELSE {})
    /\ graph' = graph \cup nested
    /\ pass' = NoEntity
    /\ rows' = {} /\ nested' = {}
    /\ UNCHANGED <<inputVars, loopVars, left, queueVars, fired>>

-----------------------------------------------------------------------------
(***************************************************************************)
(* executePendings(cascadingOperations).                                   *)
(***************************************************************************)

\* MATCH (from), (to) .. MERGE: connects the nodes that exist.
RunMerge(m) ==
    /\ phase = "cascade"
    /\ m \in merges
    /\ merges' = merges \ {m}
    /\ graph' = graph \cup {r \in Rel : /\ r.key = m.key /\ r.child \in m.ids
                                        /\ node[r.key.parent] > 0 /\ node[r.child] > 0}
    /\ UNCHANGED <<inputVars, loopVars, passVars, rels, executed, due, node, labelled, fired>>

FireEvent(i) ==
    /\ phase = "cascade"
    /\ due[i] > 0
    /\ due' = [due EXCEPT ![i] = @ - 1]
    /\ fired' = [fired EXCEPT ![i] = @ + 1]
    /\ UNCHANGED <<inputVars, loopVars, passVars, rels, executed, merges, dbVars>>

Done ==
    /\ phase = "cascade"
    /\ merges = {} /\ \A i \in Instance : due[i] = 0
    /\ phase' = "done"
    /\ UNCHANGED <<inputVars, keys, entities, passVars, queueVars, dbVars, fired>>

-----------------------------------------------------------------------------
Next ==
    \/ \E k \in Key : VisitKey(k) \/ SkipKey(k)
    \/ \E e \in Entity : VisitEntity(e)
    \/ EndKeys \/ EndEntities \/ CreateRows \/ Done
    \/ \E i \in Instance :
          ProcessExecuted(i) \/ ProcessVetoed(i) \/ ProcessNew(i) \/ FireEvent(i)
    \/ \E m \in merges : RunMerge(m)

Spec == Init /\ [][Next]_vars

-----------------------------------------------------------------------------
(***************************************************************************)
(* Correctness.                                                            *)
(***************************************************************************)

TypeOK ==
    /\ inserts \subseteq Instance
    /\ executed \subseteq inserts /\ vetoed \subseteq inserts
    /\ back \in [Instance -> SUBSET Key]
    /\ wanted \in [Key -> SUBSET Instance] /\ rels \in [Key -> SUBSET Instance]
    /\ phase \in {"keys", "entities", "cascade", "done"}
    /\ keys \subseteq Key
    /\ entities \subseteq Entity
    /\ pass \in Entity \cup {NoEntity}
    /\ left \subseteq inserts /\ rows \subseteq inserts /\ nested \subseteq Rel
    /\ merges \subseteq [key : Key, ids : SUBSET Instance]
    /\ due \in [Instance -> Nat] /\ node \in [Instance -> Nat] /\ fired \in [Instance -> Nat]
    /\ labelled \subseteq Instance
    /\ graph \subseteq Rel

\* However many passes reach a pending insert, and whether it is batched, nested
\* under a parent or executed before the flush: one node stands for it at the
\* end, and none if a listener has cancelled it.
NodesCreatedOnce ==
    /\ \A i \in Instance : node[i] <= 1
    /\ phase \in {"cascade", "done"} =>
          \A i \in inserts : node[i] = IF i \in vetoed THEN 0 ELSE 1

\* A relationship between nodes that exist after the flush.
Wanted == {r \in Rel : r.child \in wanted[r.key] /\ r.key.parent \notin vetoed /\ r.child \notin vetoed}

\* The keys this flush has to serve: those of the new parents, and those of the
\* parents that new children refer to.  (The others are left to the updates.)
Served == {k \in Key : \E i \in inserts \ vetoed : k.parent = i \/ k \in back[i]}

\* No pending relationship of a new instance is lost between the batch that takes
\* children out of a queue, the passes that remove queues from the map, and the
\* MERGE statements; and none is made up.
RelationshipsComplete ==
    /\ graph \subseteq Wanted
    /\ phase = "done" => {r \in Wanted : r.key \in Served} \subseteq graph

\* PostInsert is published for every instance that was inserted.
PostInsertFired == phase = "done" => \A i \in inserts \ vetoed : fired[i] > 0

\* labelStrategy.adoc: labels can be defined based on an instance.
InstanceLabels ==
    \A i \in inserts : entityOf[i] \in DynamicLabels /\ node[i] > 0 => i \in labelled
=============================================================================
