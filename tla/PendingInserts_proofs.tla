------------------------- MODULE PendingInserts_proofs -------------------------
(***************************************************************************)
(* One flush of pending inserts creates one node for every insert that is  *)
(* not vetoed, creates every relationship it has to, and publishes an      *)
(* event for every insert, for any entities, associations and instances.   *)
(*                                                                         *)
(* The invariant has three parts.  Once: the executed flag separates the   *)
(* inserts with a node (in the graph or in the batch of this pass) from    *)
(* the others.  Ahead: an insert not dealt with yet is still to be reached *)
(* by the second loop.  Whereabouts: a wanted relationship is always in    *)
(* one of the queues, in the batch, among the merges or in the graph.      *)
(***************************************************************************)
EXTENDS PendingInserts, FiniteSetTheorems, TLAPS

Idle ==
    /\ pass = NoEntity => left = {} /\ rows = {} /\ nested = {}
    /\ pass # NoEntity => phase \in {"keys", "entities"}

\* i is about to be created by the CREATE of this pass.
InBatch(i) == i \in rows \/ \E r \in nested : r.child = i

Once ==
    /\ rows \subseteq executed \ vetoed
    /\ \A r \in nested : r.child \in executed \ vetoed /\ r.child \notin rows
    /\ \A r, q \in nested : r.child = q.child => r = q
    /\ \A i \in Instance :
          node[i] = IF i \in inserts /\ (i \notin executed \/ i \in vetoed \/ InBatch(i))
                      THEN 0 ELSE 1

\* The second loop has not dealt with i yet.
Ahead(i) ==
    \/ phase = "keys"
    \/ phase = "entities" /\ (entityOf[i] \in entities \/ (pass = entityOf[i] /\ i \in left))

Reached ==
    \A i \in inserts : ~Ahead(i) =>
        /\ i \in executed
        /\ i \notin vetoed => due[i] + fired[i] > 0
        /\ i \notin vetoed => \A k \in KeysOf(i) : rels[k] = {}

Queued(r) == \E m \in merges : m.key = r.key /\ r.child \in m.ids

Whereabouts ==
    \A r \in Rel :
        r.child \in wanted[r.key] =>
            \/ r.child \in rels[r.key] \/ r \in nested \/ r \in graph \/ Queued(r)
            \/ r.key.parent \in vetoed \/ r.child \in vetoed

NothingMadeUp ==
    /\ \A k \in Key : rels[k] \subseteq wanted[k]
    /\ \A m \in merges : m.ids \subseteq wanted[m.key]
    /\ nested \subseteq Wanted
    /\ graph \subseteq Wanted

Inv == TypeOK /\ Idle /\ Once /\ Reached /\ Whereabouts /\ NothingMadeUp

-----------------------------------------------------------------------------
(* Type correctness. *)

LEMMA InitType == Init => TypeOK
<1> SUFFICES ASSUME Init PROVE TypeOK  OBVIOUS
<1>1. /\ inserts \subseteq Instance /\ executed \subseteq inserts /\ vetoed \subseteq inserts
      /\ rels \in [Key -> SUBSET Instance] /\ back \in [Instance -> SUBSET Key]
  BY DEF Init
<1>2. Occupied(rels) \subseteq Key  BY DEF Occupied
<1> QED  BY <1>1, <1>2 DEF Init, TypeOK

LEMMA QueueType ==
    ASSUME TypeOK, NEW i \in Instance, NEW r \in [Key -> SUBSET Instance], QueueRelationships(i, r)
    PROVE  /\ merges' \subseteq [key : Key, ids : SUBSET Instance]
           /\ rels' \in [Key -> SUBSET Instance]
<1>1. \A k \in Occupied(r) : k \in Key /\ r[k] \in SUBSET Instance  BY DEF Occupied
<1> QED  BY <1>1 DEF QueueRelationships, TypeOK

LEMMA RelsWithoutType ==
    ASSUME TypeOK, NEW rs
    PROVE  RelsWithout(rs) \in [Key -> SUBSET Instance]
BY DEF RelsWithout, TypeOK

LEMMA TakenType ==
    ASSUME TypeOK, NEW i \in Instance, NEW taken, TakesUp(i, taken)
    PROVE  /\ taken \subseteq Rel
           /\ Children(taken) \subseteq inserts \ (executed \cup {i})
           /\ NestedOf(taken) \subseteq taken
           /\ Children(NestedOf(taken)) = Children(taken) \ vetoed
BY DEF TakesUp, Waiting, Children, NestedOf

\* A child is in the batch once, so that the CREATE makes one node for it.
LEMMA BatchCount ==
    ASSUME Once, NEW i \in Instance
    PROVE  Cardinality({r \in nested : r.child = i}) = IF \E r \in nested : r.child = i THEN 1 ELSE 0
<1> DEFINE S == {r \in nested : r.child = i}
<1>1. CASE \E r \in nested : r.child = i
  <2>1. PICK r \in nested : r.child = i  BY <1>1
  <2>2. S = {r}  BY <2>1 DEF Once
  <2> QED  BY <1>1, <2>2, FS_Singleton
<1>2. CASE ~\E r \in nested : r.child = i
  <2>1. S = {}  BY <1>2
  <2> QED  BY <1>2, <2>1, FS_EmptySet
<1> QED  BY <1>1, <1>2

LEMMA NextType ==
    ASSUME TypeOK, Once, [Next]_vars
    PROVE  TypeOK'
<1> USE DEF inputVars, passVars, loopVars, queueVars, dbVars
<1>1. ASSUME NEW k \in Key, VisitKey(k)  PROVE TypeOK'
  <2>1. ownerOf[k.assoc] \in Entity  BY AssociationAssumption DEF Key
  <2>2. InsertsOf(ownerOf[k.assoc]) \subseteq inserts  BY DEF InsertsOf
  <2> QED  BY <1>1, <2>1, <2>2 DEF VisitKey, StartPass, TypeOK
<1>2. ASSUME NEW k \in Key, SkipKey(k)  PROVE TypeOK'
  BY <1>2 DEF SkipKey, TypeOK
<1>3. ASSUME NEW e \in Entity, VisitEntity(e)  PROVE TypeOK'
  BY <1>3 DEF VisitEntity, StartPass, InsertsOf, TypeOK
<1>4. ASSUME EndKeys  PROVE TypeOK'
  BY <1>4 DEF EndKeys, TypeOK
<1>5. ASSUME EndEntities  PROVE TypeOK'
  BY <1>5 DEF EndEntities, TypeOK
<1>6. ASSUME CreateRows  PROVE TypeOK'
  <2>1. \A i \in Instance : Cardinality({r \in nested : r.child = i}) \in Nat
    BY BatchCount
  <2>2. node' \in [Instance -> Nat]  BY <1>6, <2>1 DEF CreateRows, TypeOK
  <2>3. rows \subseteq Instance  BY DEF TypeOK
  <2> QED  BY <1>6, <2>2, <2>3 DEF CreateRows, TypeOK
<1>7. ASSUME Done  PROVE TypeOK'
  BY <1>7 DEF Done, TypeOK
<1>8. ASSUME NEW i \in Instance, ProcessExecuted(i)  PROVE TypeOK'
  <2>1. rels \in [Key -> SUBSET Instance]  BY DEF TypeOK
  <2>2. /\ merges' \subseteq [key : Key, ids : SUBSET Instance]
        /\ rels' \in [Key -> SUBSET Instance]
    BY <1>8, <2>1, QueueType DEF ProcessExecuted
  <2>3. due' \in [Instance -> Nat]
    BY <1>8 DEF ProcessExecuted, QueueEvents, TypeOK
  <2> QED  BY <1>8, <2>2, <2>3 DEF ProcessExecuted, Reach, TypeOK
<1>9. ASSUME NEW i \in Instance, ProcessVetoed(i)  PROVE TypeOK'
  BY <1>9 DEF ProcessVetoed, Reach, TypeOK
<1>10. ASSUME NEW i \in Instance, ProcessNew(i)  PROVE TypeOK'
  <2>1. PICK taken \in SUBSET Waiting(i) :
           /\ TakesUp(i, taken)
           /\ executed' = executed \cup {i} \cup Children(taken)
           /\ rows' = rows \cup {i}
           /\ nested' = nested \cup NestedOf(taken)
           /\ QueueRelationships(i, RelsWithout(NestedOf(taken)))
           /\ QueueEvents({i} \cup Children(NestedOf(taken)))
    BY <1>10 DEF ProcessNew
  <2>2. /\ merges' \subseteq [key : Key, ids : SUBSET Instance]
        /\ rels' \in [Key -> SUBSET Instance]
    BY <2>1, RelsWithoutType, QueueType
  <2>3. due' \in [Instance -> Nat]
    BY <2>1 DEF QueueEvents, TypeOK
  <2>4. taken \subseteq Rel /\ Children(taken) \subseteq inserts /\ NestedOf(taken) \subseteq Rel
    BY <2>1, TakenType
  <2>5. i \in inserts  BY <1>10 DEF ProcessNew, Reach, TypeOK
  <2> QED  BY <1>10, <2>1, <2>2, <2>3, <2>4, <2>5 DEF ProcessNew, Reach, TypeOK
<1>11. ASSUME NEW i \in Instance, FireEvent(i)  PROVE TypeOK'
  <2>1. due' \in [Instance -> Nat] /\ fired' \in [Instance -> Nat]
    BY <1>11 DEF FireEvent, TypeOK
  <2> QED  BY <1>11, <2>1 DEF FireEvent, TypeOK
<1>12. ASSUME NEW m \in merges, RunMerge(m)  PROVE TypeOK'
  BY <1>12 DEF RunMerge, TypeOK
<1>13. CASE UNCHANGED vars
  BY <1>13 DEF vars, TypeOK
<1> QED
  BY <1>1, <1>2, <1>3, <1>4, <1>5, <1>6, <1>7, <1>8, <1>9, <1>10, <1>11, <1>12, <1>13 DEF Next

-----------------------------------------------------------------------------
(* The passes. *)

LEMMA InitInv == Init => Inv
<1> SUFFICES ASSUME Init PROVE Inv  OBVIOUS
<1>1. TypeOK  BY InitType
<1>2. Idle  BY DEF Init, Idle
<1>3. Once  BY DEF Init, Once, InBatch
<1>4. Reached  BY DEF Init, Reached, Ahead
<1>5. Whereabouts  BY DEF Init, Whereabouts
<1>6. NothingMadeUp  BY DEF Init, NothingMadeUp
<1> QED  BY <1>1, <1>2, <1>3, <1>4, <1>5, <1>6 DEF Inv

LEMMA NextIdle ==
    ASSUME Inv, [Next]_vars
    PROVE  Idle'
<1> USE DEF inputVars, passVars, loopVars, queueVars, dbVars, Idle
<1>0. TypeOK /\ Idle  BY DEF Inv
<1>1. ASSUME NEW k \in Key, VisitKey(k)  PROVE Idle'
  BY <1>0, <1>1, AssociationAssumption, NoEntityAssumption DEF VisitKey, StartPass, Key, TypeOK
<1>2. ASSUME NEW k \in Key, SkipKey(k)  PROVE Idle'
  BY <1>0, <1>2 DEF SkipKey
<1>3. ASSUME NEW e \in Entity, VisitEntity(e)  PROVE Idle'
  BY <1>0, <1>3, NoEntityAssumption DEF VisitEntity, StartPass
<1>4. ASSUME EndKeys  PROVE Idle'
  BY <1>0, <1>4 DEF EndKeys
<1>5. ASSUME EndEntities  PROVE Idle'
  BY <1>0, <1>5 DEF EndEntities
<1>6. ASSUME CreateRows  PROVE Idle'
  BY <1>0, <1>6 DEF CreateRows
<1>7. ASSUME Done  PROVE Idle'
  BY <1>0, <1>7 DEF Done
<1>8. ASSUME NEW i \in Instance, ProcessExecuted(i)  PROVE Idle'
  BY <1>0, <1>8 DEF ProcessExecuted, Reach
<1>9. ASSUME NEW i \in Instance, ProcessVetoed(i)  PROVE Idle'
  BY <1>0, <1>9 DEF ProcessVetoed, Reach
<1>10. ASSUME NEW i \in Instance, ProcessNew(i)  PROVE Idle'
  BY <1>0, <1>10 DEF ProcessNew, Reach
<1>11. ASSUME NEW i \in Instance, FireEvent(i)  PROVE Idle'
  BY <1>0, <1>11 DEF FireEvent
<1>12. ASSUME NEW m \in merges, RunMerge(m)  PROVE Idle'
  BY <1>0, <1>12 DEF RunMerge
<1>13. CASE UNCHANGED vars
  BY <1>0, <1>13 DEF vars
<1> QED
  BY <1>1, <1>2, <1>3, <1>4, <1>5, <1>6, <1>7, <1>8, <1>9, <1>10, <1>11, <1>12, <1>13 DEF Next

\* The actions that leave the batch, the flags and the nodes alone.
LEMMA OnceUnchanged ==
    ASSUME Once, UNCHANGED <<inserts, vetoed, executed, rows, nested, node>>
    PROVE  Once'
BY DEF Once, InBatch

LEMMA NextOnce ==
    ASSUME Inv, [Next]_vars
    PROVE  Once'
<1> USE DEF inputVars, passVars, loopVars, queueVars, dbVars
<1>0. TypeOK /\ Idle /\ Once  BY DEF Inv
<1>1. ASSUME NEW k \in Key, VisitKey(k)  PROVE Once'
  BY <1>0, <1>1, OnceUnchanged DEF VisitKey, StartPass
<1>2. ASSUME NEW k \in Key, SkipKey(k)  PROVE Once'
  BY <1>0, <1>2, OnceUnchanged DEF SkipKey
<1>3. ASSUME NEW e \in Entity, VisitEntity(e)  PROVE Once'
  BY <1>0, <1>3, OnceUnchanged DEF VisitEntity, StartPass
<1>4. ASSUME EndKeys \/ EndEntities \/ Done \/ UNCHANGED vars  PROVE Once'
  BY <1>0, <1>4, OnceUnchanged DEF EndKeys, EndEntities, Done, vars
<1>5. ASSUME CreateRows  PROVE Once'
  <2>1. rows' = {} /\ nested' = {} /\ UNCHANGED <<inserts, vetoed, executed>>
    BY <1>5 DEF CreateRows
  <2>2. ASSUME NEW i \in Instance
        PROVE  node'[i] = IF i \in inserts /\ (i \notin executed \/ i \in vetoed) THEN 0 ELSE 1
    <3>1. node'[i] = node[i] + (IF i \in rows THEN 1 ELSE 0)
                             + (IF \E r \in nested : r.child = i THEN 1 ELSE 0)
      BY <1>0, <1>5, BatchCount DEF CreateRows
    <3>2. CASE i \in rows
      BY <1>0, <3>1, <3>2 DEF Once, InBatch, TypeOK
    <3>3. CASE \E r \in nested : r.child = i
      BY <1>0, <3>1, <3>3 DEF Once, InBatch, TypeOK
    <3>4. CASE i \notin rows /\ ~\E r \in nested : r.child = i
      BY <1>0, <3>1, <3>4 DEF Once, InBatch, TypeOK
    <3> QED  BY <3>2, <3>3, <3>4
  <2> QED  BY <2>1, <2>2 DEF Once, InBatch
<1>6. ASSUME NEW i \in Instance, ProcessExecuted(i)  PROVE Once'
  BY <1>0, <1>6, OnceUnchanged DEF ProcessExecuted
<1>7. ASSUME NEW i \in Instance, ProcessVetoed(i)  PROVE Once'
  BY <1>0, <1>7 DEF ProcessVetoed, Once, InBatch
<1>8. ASSUME NEW i \in Instance, ProcessNew(i)  PROVE Once'
  <2>1. PICK taken \in SUBSET Waiting(i) :
           /\ TakesUp(i, taken)
           /\ executed' = executed \cup {i} \cup Children(taken)
           /\ rows' = rows \cup {i}
           /\ nested' = nested \cup NestedOf(taken)
    BY <1>8 DEF ProcessNew
  <2>2. i \in inserts \ (vetoed \cup executed) /\ UNCHANGED <<inserts, vetoed, node>>
    BY <1>0, <1>8 DEF ProcessNew, Reach, TypeOK
  <2>3. /\ Children(taken) \subseteq inserts \ (executed \cup {i})
        /\ NestedOf(taken) \subseteq taken
        /\ \A r \in taken : r.child \in Children(taken)
        /\ \A r \in NestedOf(taken) : r.child \notin vetoed
        /\ \A r \in taken : r.child \in vetoed \/ r \in NestedOf(taken)
        /\ \A r, q \in taken : r.child = q.child => r = q
    BY <1>0, <2>1, TakenType DEF Children, NestedOf, TakesUp
  <2>4. rows' \subseteq executed' \ vetoed'
    BY <1>0, <2>1, <2>2 DEF Once
  <2>5. \A r \in nested' : r.child \in executed' \ vetoed' /\ r.child \notin rows'
    BY <1>0, <2>1, <2>2, <2>3 DEF Once
  <2>6. \A r, q \in nested' : r.child = q.child => r = q
    BY <1>0, <2>1, <2>3 DEF Once
  <2>7. \A j \in Instance :
           node'[j] = IF j \in inserts' /\ (j \notin executed' \/ j \in vetoed' \/ InBatch(j)')
                        THEN 0 ELSE 1
    <3> SUFFICES ASSUME NEW j \in Instance
                 PROVE  node'[j] = IF j \in inserts' /\ (j \notin executed' \/ j \in vetoed' \/ InBatch(j)')
                                     THEN 0 ELSE 1
      OBVIOUS
    <3>1. CASE j = i
      BY <1>0, <2>1, <2>2, <3>1 DEF Once, InBatch
    <3>2. CASE j \in Children(taken)
      BY <1>0, <2>1, <2>2, <2>3, <3>2 DEF Once, InBatch, Children
    <3>3. CASE j # i /\ j \notin Children(taken)
      <4>1. j \in executed' <=> j \in executed  BY <2>1, <3>3
      <4>2. InBatch(j)' <=> InBatch(j)  BY <2>1, <2>3, <3>3 DEF InBatch
      <4> QED  BY <1>0, <2>2, <4>1, <4>2 DEF Once
    <3> QED  BY <3>1, <3>2, <3>3
  <2> QED  BY <2>4, <2>5, <2>6, <2>7 DEF Once
<1>9. ASSUME NEW i \in Instance, FireEvent(i)  PROVE Once'
  BY <1>0, <1>9, OnceUnchanged DEF FireEvent
<1>10. ASSUME NEW m \in merges, RunMerge(m)  PROVE Once'
  BY <1>0, <1>10, OnceUnchanged DEF RunMerge
<1> QED
  BY <1>1, <1>2, <1>3, <1>4, <1>5, <1>6, <1>7, <1>8, <1>9, <1>10 DEF Next

-----------------------------------------------------------------------------
(* Nothing is left behind. *)

\* What a step may do to an insert it does not process.
Kept(i) ==
    /\ i \in executed => i \in executed'
    /\ due'[i] + fired'[i] >= due[i] + fired[i]
    /\ \A k \in KeysOf(i) : rels'[k] \subseteq rels[k]

LEMMA ReachedKept ==
    ASSUME Inv, NEW i \in inserts, Kept(i), UNCHANGED <<inserts, vetoed, back>>, TypeOK',
           ~Ahead(i)
    PROVE  /\ i \in executed'
           /\ i \notin vetoed' => due'[i] + fired'[i] > 0
           /\ i \notin vetoed' => \A k \in KeysOf(i)' : rels'[k] = {}
BY DEF Inv, Reached, Kept, KeysOf, TypeOK

LEMMA QueueShrinks ==
    ASSUME TypeOK, NEW i \in Instance, NEW r \in [Key -> SUBSET Instance], QueueRelationships(i, r),
           \A k \in Key : r[k] \subseteq rels[k]
    PROVE  /\ \A k \in KeysOf(i) : rels'[k] = {}
           /\ \A k \in Key : rels'[k] \subseteq rels[k]
<1>1. KeysOf(i) \subseteq Key  BY DEF KeysOf, TypeOK
<1> QED  BY <1>1 DEF QueueRelationships

LEMMA NextReached ==
    ASSUME Inv, [Next]_vars
    PROVE  Reached'
<1> USE DEF inputVars, passVars, loopVars, queueVars, dbVars
<1>0. /\ TypeOK /\ TypeOK' /\ Idle
      /\ \A i \in inserts : entityOf[i] \in Entity
      /\ \A i \in inserts : KeysOf(i) \subseteq Key
  BY NextType, EntityAssumption DEF Inv, TypeOK, KeysOf
<1>u. UNCHANGED inputVars
  BY DEF Next, VisitKey, SkipKey, VisitEntity, EndKeys, EndEntities, CreateRows, Done,
         ProcessExecuted, ProcessVetoed, ProcessNew, FireEvent, RunMerge, vars
<1> SUFFICES ASSUME NEW i \in inserts, ~Ahead(i)'
             PROVE  /\ i \in executed'
                    /\ i \notin vetoed' => due'[i] + fired'[i] > 0
                    /\ i \notin vetoed' => \A k \in KeysOf(i)' : rels'[k] = {}
  BY <1>u DEF Reached
<1>i. i \in Instance  BY <1>0 DEF TypeOK
<1>k. KeysOf(i)' = KeysOf(i)  BY <1>u DEF KeysOf
<1>1. ASSUME NEW k \in Key, VisitKey(k) \/ SkipKey(k)  PROVE FALSE
  BY <1>1 DEF VisitKey, SkipKey, Ahead
<1>2. ASSUME NEW e \in Entity, VisitEntity(e)
      PROVE  ~Ahead(i) /\ UNCHANGED queueVars /\ UNCHANGED fired
  <2>1. InsertsOf(e)' = InsertsOf(e)  BY <1>u DEF InsertsOf
  <2>2. i \in InsertsOf(entityOf[i])  BY DEF InsertsOf
  <2> QED  BY <1>0, <1>2, <2>2, NoEntityAssumption DEF VisitEntity, StartPass, Ahead
<1>3. ASSUME EndKeys  PROVE FALSE
  <2>1. InsertsOf(entityOf[i]) # {}  BY DEF InsertsOf
  <2> QED  BY <1>0, <1>3, <2>1 DEF EndKeys, Ahead
<1>4. ASSUME EndEntities  PROVE ~Ahead(i) /\ UNCHANGED queueVars /\ UNCHANGED fired
  BY <1>0, <1>4, NoEntityAssumption DEF EndEntities, Ahead
<1>5. ASSUME CreateRows  PROVE ~Ahead(i) /\ UNCHANGED queueVars /\ UNCHANGED fired
  BY <1>0, <1>5 DEF CreateRows, Ahead
<1>6. ASSUME Done  PROVE ~Ahead(i) /\ UNCHANGED queueVars /\ UNCHANGED fired
  BY <1>6 DEF Done, Ahead
<1>7. ASSUME NEW j \in Instance, ProcessExecuted(j), i # j  PROVE ~Ahead(i) /\ Kept(i)
  <2>1. \A k \in Key : rels'[k] \subseteq rels[k]
    BY <1>0, <1>7, QueueShrinks DEF ProcessExecuted, TypeOK
  <2> QED  BY <1>0, <1>7, <1>i, <2>1 DEF ProcessExecuted, Reach, QueueEvents, Ahead, Kept, TypeOK
<1>8. ASSUME NEW j \in Instance, ProcessVetoed(j), i # j  PROVE ~Ahead(i) /\ Kept(i)
  BY <1>0, <1>8, <1>i DEF ProcessVetoed, Reach, Ahead, Kept, TypeOK
<1>9. ASSUME NEW j \in Instance, ProcessNew(j)
      PROVE  /\ \A k \in KeysOf(j) : rels'[k] = {}
             /\ \A k \in Key : rels'[k] \subseteq rels[k]
             /\ \A h \in Instance : due'[h] >= due[h]
             /\ due'[j] = due[j] + 1
             /\ j \in executed' /\ executed \subseteq executed'
  <2>1. PICK taken \in SUBSET Waiting(j) :
           /\ executed' = executed \cup {j} \cup Children(taken)
           /\ QueueRelationships(j, RelsWithout(NestedOf(taken)))
           /\ QueueEvents({j} \cup Children(NestedOf(taken)))
    BY <1>9 DEF ProcessNew
  <2>2. \A k \in Key : RelsWithout(NestedOf(taken))[k] \subseteq rels[k]
    BY DEF RelsWithout
  <2>3. /\ \A k \in KeysOf(j) : rels'[k] = {}
        /\ \A k \in Key : rels'[k] \subseteq rels[k]
    BY <1>0, <2>1, <2>2, RelsWithoutType, QueueShrinks
  <2> QED  BY <1>0, <2>1, <2>3 DEF QueueEvents, TypeOK
<1>10. ASSUME NEW j \in Instance, ProcessNew(j), i # j  PROVE ~Ahead(i) /\ Kept(i)
  <2>1. UNCHANGED <<phase, entities, pass, fired>> /\ left' = left \ {j}
    BY <1>10 DEF ProcessNew, Reach
  <2>2. Kept(i)  BY <1>0, <1>9, <1>10, <1>i, <2>1 DEF Kept, TypeOK
  <2> QED  BY <1>10, <2>1, <2>2 DEF Ahead
<1>11. ASSUME NEW j \in Instance, FireEvent(j)  PROVE ~Ahead(i) /\ Kept(i)
  BY <1>0, <1>11, <1>i DEF FireEvent, Ahead, Kept, TypeOK
<1>12. ASSUME NEW m \in merges, RunMerge(m)  PROVE ~Ahead(i) /\ Kept(i)
  BY <1>0, <1>12, <1>i DEF RunMerge, Ahead, Kept, TypeOK
<1>13. CASE UNCHANGED vars
  BY <1>0, <1>13, <1>i, <1>u, ReachedKept DEF vars, Ahead, Kept, TypeOK
<1>14. ASSUME UNCHANGED queueVars, UNCHANGED fired  PROVE Kept(i)
  BY <1>0, <1>14, <1>i DEF Kept, TypeOK
<1>15. CASE ProcessExecuted(i)
  <2>1. \A k \in KeysOf(i) : rels'[k] = {}
    BY <1>0, <1>15, <1>i, QueueShrinks DEF ProcessExecuted, TypeOK
  <2> QED  BY <1>0, <1>15, <1>i, <1>k, <2>1 DEF ProcessExecuted, QueueEvents, TypeOK
<1>16. CASE ProcessVetoed(i)
  BY <1>16 DEF ProcessVetoed
<1>17. CASE ProcessNew(i)
  <2>1. fired' = fired  BY <1>17 DEF ProcessNew
  <2> QED  BY <1>0, <1>9, <1>17, <1>i, <1>k, <2>1 DEF TypeOK
<1> HIDE DEF inputVars, passVars, loopVars, queueVars, dbVars
<1>18. CASE ~Ahead(i) /\ Kept(i)
  BY <1>0, <1>18, <1>u, ReachedKept DEF inputVars
<1> QED
  BY <1>1, <1>2, <1>3, <1>4, <1>5, <1>6, <1>7, <1>8, <1>10, <1>11, <1>12, <1>13, <1>14,
     <1>15, <1>16, <1>17, <1>18 DEF Next

\* When the passes are over, every node is there that is not vetoed.
LEMMA AllCreated ==
    ASSUME Inv, phase \in {"cascade", "done"}, NEW i \in Instance
    PROVE  node[i] = IF i \in vetoed THEN 0 ELSE 1
<1>1. rows = {} /\ nested = {}  BY DEF Inv, Idle
<1>2. i \in inserts => i \in executed  BY DEF Inv, Reached, Ahead
<1>3. vetoed \subseteq inserts  BY DEF Inv, TypeOK
<1> QED  BY <1>1, <1>2, <1>3 DEF Inv, Once, InBatch

-----------------------------------------------------------------------------
(* Where a wanted relationship is. *)

LEMMA QueueKeeps ==
    ASSUME TypeOK, NEW i \in Instance, NEW q \in [Key -> SUBSET Instance], QueueRelationships(i, q),
           NEW r \in Rel
    PROVE  /\ r.child \in q[r.key] => r.child \in rels'[r.key] \/ Queued(r)'
           /\ Queued(r) => Queued(r)'
<1>1. r.key \in Key  BY DEF Rel
<1>2. ASSUME r.child \in q[r.key], r.key \in KeysOf(i)  PROVE Queued(r)'
  <2> DEFINE m == [key |-> r.key, ids |-> q[r.key]]
  <2>1. r.key \in KeysOf(i) \cap Occupied(q)  BY <1>1, <1>2 DEF Occupied
  <2>2. m \in merges'  BY <2>1 DEF QueueRelationships
  <2>3. m.key = r.key /\ r.child \in m.ids  BY <1>2
  <2> QED  BY <2>2, <2>3 DEF Queued
<1>3. ASSUME r.child \in q[r.key], r.key \notin KeysOf(i)  PROVE r.child \in rels'[r.key]
  BY <1>1, <1>3 DEF QueueRelationships
<1>4. Queued(r) => Queued(r)'  BY DEF Queued, QueueRelationships
<1> QED  BY <1>2, <1>3, <1>4

LEMMA QueueInvents ==
    ASSUME TypeOK, NothingMadeUp, UNCHANGED wanted, NEW i \in Instance,
           NEW q \in [Key -> SUBSET Instance], QueueRelationships(i, q),
           \A k \in Key : q[k] \subseteq rels[k]
    PROVE  /\ \A k \in Key : rels'[k] \subseteq wanted'[k]
           /\ \A m \in merges' : m.ids \subseteq wanted'[m.key]
<1>1. \A k \in Key : rels'[k] \subseteq wanted'[k]
  BY QueueShrinks DEF NothingMadeUp
<1>2. ASSUME NEW m \in merges'  PROVE m.ids \subseteq wanted'[m.key]
  <2>1. CASE m \in merges  BY <2>1 DEF NothingMadeUp
  <2>2. CASE m \notin merges
    <3>1. PICK k \in KeysOf(i) \cap Occupied(q) : m = [key |-> k, ids |-> q[k]]
      BY <2>2 DEF QueueRelationships
    <3>2. k \in Key  BY <3>1 DEF Occupied
    <3> QED  BY <3>1, <3>2 DEF NothingMadeUp
  <2> QED  BY <2>1, <2>2
<1> QED  BY <1>1, <1>2

\* The two parts over one step.
LEMMA NextWhereabouts ==
    ASSUME Inv, [Next]_vars
    PROVE  Whereabouts' /\ NothingMadeUp'
<1> USE DEF inputVars, passVars, loopVars, queueVars, dbVars
<1>0. TypeOK /\ Idle /\ Once /\ Whereabouts /\ NothingMadeUp  BY DEF Inv
<1>1. ASSUME UNCHANGED <<inputVars, rels, merges, nested, graph>>
      PROVE  Whereabouts' /\ NothingMadeUp'
  BY <1>0, <1>1 DEF Whereabouts, NothingMadeUp, Queued, Wanted
<1>2. ASSUME NEW k \in Key, VisitKey(k) \/ SkipKey(k)  PROVE Whereabouts' /\ NothingMadeUp'
  BY <1>1, <1>2 DEF VisitKey, SkipKey, StartPass
<1>3. ASSUME NEW e \in Entity, VisitEntity(e)  PROVE Whereabouts' /\ NothingMadeUp'
  BY <1>1, <1>3 DEF VisitEntity, StartPass
<1>4. ASSUME EndKeys \/ EndEntities \/ Done \/ UNCHANGED vars  PROVE Whereabouts' /\ NothingMadeUp'
  BY <1>1, <1>4 DEF EndKeys, EndEntities, Done, vars
<1>5. ASSUME CreateRows  PROVE Whereabouts' /\ NothingMadeUp'
  <2>1. /\ UNCHANGED <<inputVars, rels, merges>>
        /\ graph' = graph \cup nested /\ nested' = {}
    BY <1>5 DEF CreateRows
  <2> QED  BY <1>0, <2>1 DEF Whereabouts, NothingMadeUp, Queued, Wanted
<1>6. ASSUME NEW i \in Instance, ProcessExecuted(i)  PROVE Whereabouts' /\ NothingMadeUp'
  <2>1. /\ rels \in [Key -> SUBSET Instance] /\ QueueRelationships(i, rels)
        /\ UNCHANGED <<inputVars, nested, graph>>
    BY <1>0, <1>6 DEF ProcessExecuted, TypeOK
  <2>2. Whereabouts'
    BY <1>0, <2>1, QueueKeeps DEF Whereabouts
  <2>3. /\ \A k \in Key : rels'[k] \subseteq wanted'[k]
        /\ \A m \in merges' : m.ids \subseteq wanted'[m.key]
    BY <1>0, <2>1, QueueInvents
  <2> QED  BY <1>0, <2>1, <2>2, <2>3 DEF NothingMadeUp, Wanted
<1>7. ASSUME NEW i \in Instance, ProcessVetoed(i)  PROVE Whereabouts' /\ NothingMadeUp'
  BY <1>1, <1>7 DEF ProcessVetoed
<1>8. ASSUME NEW i \in Instance, ProcessNew(i)  PROVE Whereabouts' /\ NothingMadeUp'
  <2>1. PICK taken \in SUBSET Waiting(i) :
           /\ TakesUp(i, taken)
           /\ nested' = nested \cup NestedOf(taken)
           /\ QueueRelationships(i, RelsWithout(NestedOf(taken)))
    BY <1>8 DEF ProcessNew
  <2>2. UNCHANGED <<inputVars, graph>> /\ i \notin vetoed
    BY <1>8 DEF ProcessNew
  <2> DEFINE q == RelsWithout(NestedOf(taken))
  <2>3. q \in [Key -> SUBSET Instance]  BY <1>0, RelsWithoutType
  <2>4. \A k \in Key : q[k] \subseteq rels[k]  BY DEF RelsWithout
  <2>5. ASSUME NEW r \in Rel, r.child \in rels[r.key]
        PROVE  r \in NestedOf(taken) \/ r.child \in q[r.key]
    <3>1. r.key \in Key  BY DEF Rel
    <3>2. CASE \E p \in NestedOf(taken) : p.key = r.key /\ p.child = r.child
      <4>1. PICK p \in NestedOf(taken) : p.key = r.key /\ p.child = r.child  BY <3>2
      <4>2. p \in Rel  BY DEF NestedOf, Waiting
      <4>3. p = r  BY <4>1, <4>2 DEF Rel
      <4> QED  BY <4>1, <4>3
    <3>3. CASE ~\E p \in NestedOf(taken) : p.key = r.key /\ p.child = r.child
      BY <2>5, <3>1, <3>3 DEF RelsWithout
    <3> QED  BY <3>2, <3>3
  <2>6. QueueRelationships(i, q)  BY <2>1
  <2> HIDE DEF q
  <2>7. Whereabouts'
    <3> SUFFICES ASSUME NEW r \in Rel, r.child \in wanted'[r.key]
                 PROVE  \/ r.child \in rels'[r.key] \/ r \in nested' \/ r \in graph' \/ Queued(r)'
                        \/ r.key.parent \in vetoed' \/ r.child \in vetoed'
      BY DEF Whereabouts
    <3>1. \/ r.child \in rels[r.key] \/ r \in nested \/ r \in graph \/ Queued(r)
          \/ r.key.parent \in vetoed \/ r.child \in vetoed
      BY <1>0, <2>2 DEF Whereabouts
    <3>2. /\ r.child \in q[r.key] => r.child \in rels'[r.key] \/ Queued(r)'
          /\ Queued(r) => Queued(r)'
      BY <1>0, <2>3, <2>6, QueueKeeps
    <3> QED  BY <2>1, <2>2, <2>5, <3>1, <3>2
  <2>8. NestedOf(taken) \subseteq Wanted
    <3> SUFFICES ASSUME NEW r \in NestedOf(taken) PROVE r \in Wanted  OBVIOUS
    <3>1. /\ r \in Rel /\ r.key.parent = i /\ r.child \in rels[r.key] /\ r.child \notin vetoed
      BY <2>1 DEF NestedOf, Waiting
    <3>2. r.key \in Key  BY <3>1 DEF Rel
    <3> QED  BY <1>0, <2>2, <3>1, <3>2 DEF NothingMadeUp, Wanted
  <2>9. /\ \A k \in Key : rels'[k] \subseteq wanted'[k]
        /\ \A m \in merges' : m.ids \subseteq wanted'[m.key]
    BY <1>0, <2>2, <2>3, <2>4, <2>6, QueueInvents
  <2>10. Wanted' = Wanted  BY <2>2 DEF Wanted
  <2> QED  BY <1>0, <2>1, <2>2, <2>7, <2>8, <2>9, <2>10 DEF NothingMadeUp
<1>9. ASSUME NEW i \in Instance, FireEvent(i)  PROVE Whereabouts' /\ NothingMadeUp'
  BY <1>1, <1>9 DEF FireEvent
<1>10. ASSUME NEW m \in merges, RunMerge(m)  PROVE Whereabouts' /\ NothingMadeUp'
  <2> DEFINE new == {r \in Rel : /\ r.key = m.key /\ r.child \in m.ids
                                 /\ node[r.key.parent] > 0 /\ node[r.child] > 0}
  <2>1. /\ UNCHANGED <<inputVars, rels, nested>> /\ phase = "cascade"
        /\ merges' = merges \ {m} /\ graph' = graph \cup new
    BY <1>10 DEF RunMerge
  <2>2. \A i \in Instance : node[i] = IF i \in vetoed THEN 0 ELSE 1
    BY <2>1, AllCreated
  <2>3. \A r \in Rel : r.key.parent \in Instance /\ r.child \in Instance
    BY DEF Rel, Key
  <2>4. new = {r \in Rel : /\ r.key = m.key /\ r.child \in m.ids
                           /\ r.key.parent \notin vetoed /\ r.child \notin vetoed}
    BY <2>2, <2>3
  <2> HIDE DEF new
  <2>5. Whereabouts'
    BY <1>0, <2>1, <2>4 DEF Whereabouts, Queued
  <2>6. new \subseteq Wanted
    BY <1>0, <2>4 DEF NothingMadeUp, Wanted
  <2> QED  BY <1>0, <2>1, <2>5, <2>6 DEF NothingMadeUp, Wanted
<1> QED
  BY <1>2, <1>3, <1>4, <1>5, <1>6, <1>7, <1>8, <1>9, <1>10 DEF Next

-----------------------------------------------------------------------------
(* Theorems. *)

LEMMA InvHolds == Spec => []Inv
<1>1. Init => Inv  BY InitInv
<1>2. Inv /\ [Next]_vars => Inv'
  <2> SUFFICES ASSUME Inv, [Next]_vars PROVE Inv'  OBVIOUS
  <2>1. TypeOK'  BY NextType DEF Inv
  <2>2. Idle' /\ Once' /\ Reached'  BY NextIdle, NextOnce, NextReached
  <2>3. Whereabouts' /\ NothingMadeUp'  BY NextWhereabouts
  <2> QED  BY <2>1, <2>2, <2>3 DEF Inv
<1> QED  BY <1>1, <1>2, PTL DEF Spec

(* A flush of pending inserts never leaves its types: only pending inserts are   *)
(* batched or flagged.                                                           *)
THEOREM TypeCorrect == Spec => []TypeOK
<1>1. Inv => TypeOK  BY DEF Inv
<1> QED  BY <1>1, InvHolds, PTL

(* One node stands for every insert that is not vetoed, whatever passes reach it. *)
THEOREM CreatesOnce == Spec => []NodesCreatedOnce
<1>1. Inv => NodesCreatedOnce
  <2> SUFFICES ASSUME Inv PROVE NodesCreatedOnce  OBVIOUS
  <2>1. \A i \in Instance : node[i] <= 1  BY DEF Inv, Once
  <2>2. phase \in {"cascade", "done"} =>
           \A i \in inserts : node[i] = IF i \in vetoed THEN 0 ELSE 1
    BY AllCreated DEF Inv, TypeOK
  <2> QED  BY <2>1, <2>2 DEF NodesCreatedOnce
<1> QED  BY <1>1, InvHolds, PTL

(* Every relationship this flush has to serve is in the graph at its end, and the *)
(* graph has no relationship that nobody wanted.                                  *)
THEOREM ConnectsAll == Spec => []RelationshipsComplete
<1> DEFINE Empty == phase = "done" => merges = {}
<1>1. Init => Empty  BY DEF Init
<1>2. Empty /\ Inv /\ [Next]_vars => Empty'
  <2> SUFFICES ASSUME Empty, Inv, [Next]_vars PROVE Empty'  OBVIOUS
  <2>1. phase = "done" => pass = NoEntity  BY DEF Inv, Idle
  <2> QED
    BY <2>1 DEF Next, VisitKey, SkipKey, VisitEntity, StartPass, EndKeys, EndEntities, CreateRows,
       Done, ProcessExecuted, ProcessVetoed, ProcessNew, Reach, FireEvent, RunMerge, vars,
       inputVars, passVars, loopVars, queueVars, dbVars
<1>3. Empty /\ Inv => RelationshipsComplete
  <2> SUFFICES ASSUME Empty, Inv PROVE RelationshipsComplete  OBVIOUS
  <2>1. graph \subseteq Wanted  BY DEF Inv, NothingMadeUp
  <2>2. ASSUME phase = "done", NEW r \in Wanted, r.key \in Served  PROVE r \in graph
    <3>1. r \in Rel /\ r.child \in wanted[r.key] /\ r.key.parent \notin vetoed /\ r.child \notin vetoed
      BY DEF Wanted
    <3>2. PICK i \in inserts \ vetoed : r.key.parent = i \/ r.key \in back[i]
      BY <2>2 DEF Served
    <3>3. r.key \in KeysOf(i)  BY <3>1, <3>2 DEF KeysOf, Rel
    <3>4. rels[r.key] = {}  BY <2>2, <3>2, <3>3 DEF Inv, Reached, Ahead
    <3>5. nested = {}  BY <2>2 DEF Inv, Idle
    <3>6. ~Queued(r)  BY <2>2 DEF Queued
    <3> QED  BY <3>1, <3>4, <3>5, <3>6 DEF Inv, Whereabouts
  <2> QED  BY <2>1, <2>2 DEF RelationshipsComplete
<1> HIDE DEF Empty
<1> QED  BY <1>1, <1>2, <1>3, InvHolds, PTL DEF Spec

(* At the end of the flush PostInsert has been published for every insert.        *)
THEOREM PublishesAll == Spec => []PostInsertFired
<1> DEFINE None == phase = "done" => \A i \in Instance : due[i] = 0
<1>1. Init => None  BY DEF Init
<1>2. None /\ Inv /\ [Next]_vars => None'
  <2> SUFFICES ASSUME None, Inv, [Next]_vars PROVE None'  OBVIOUS
  <2>1. phase = "done" => pass = NoEntity  BY DEF Inv, Idle
  <2> QED
    BY <2>1 DEF Next, VisitKey, SkipKey, VisitEntity, StartPass, EndKeys, EndEntities, CreateRows,
       Done, ProcessExecuted, ProcessVetoed, ProcessNew, Reach, FireEvent, RunMerge, vars,
       inputVars, passVars, loopVars, queueVars, dbVars
<1>3. None /\ Inv => PostInsertFired
  <2> SUFFICES ASSUME None, Inv, phase = "done", NEW i \in inserts \ vetoed PROVE fired[i] > 0
    BY DEF PostInsertFired
  <2>1. due[i] + fired[i] > 0  BY DEF Inv, Reached, Ahead
  <2>2. due[i] = 0 /\ fired[i] \in Nat  BY DEF Inv, TypeOK
  <2> QED  BY <2>1, <2>2
<1> HIDE DEF None
<1> QED  BY <1>1, <1>2, <1>3, InvHolds, PTL DEF Spec

-----------------------------------------------------------------------------
(* Labels that depend on the instance.                                      *)

\* No batched association leads from an entity with fixed labels to one whose
\* labels depend on the instance.
PlainChildren ==
    \A a \in Batched : targetOf[a] \in DynamicLabels => ownerOf[a] \in DynamicLabels

\* The batch of a pass has nodes of its entity, and below them children that
\* need no labels of their own.
Labelled ==
    /\ \A i \in left \cup rows : entityOf[i] = pass
    /\ \A r \in nested : entityOf[r.child] \notin DynamicLabels
    /\ \A k \in Key : \A c \in wanted[k] : entityOf[c] = targetOf[k.assoc]
    /\ InstanceLabels

LEMMA InitLabelled == Init => Labelled
<1> SUFFICES ASSUME Init PROVE Labelled  OBVIOUS
<1>1. \A k \in Key : \A c \in wanted[k] : entityOf[c] = targetOf[k.assoc]
  BY DEF Init, Fitting
<1>2. \A i \in inserts : node[i] > 0 => i \in labelled  BY DEF Init
<1> QED  BY <1>1, <1>2 DEF Init, Labelled, InstanceLabels

LEMMA LabelledUnchanged ==
    ASSUME Labelled, UNCHANGED <<inserts, wanted, pass, left, rows, nested, node, labelled>>
    PROVE  Labelled'
BY DEF Labelled, InstanceLabels

\* What a pass nests is the child of a batched association of its entity.
LEMMA NestedPlain ==
    ASSUME PlainChildren, Inv, Labelled, NEW i \in Instance,
           NEW taken \in SUBSET Waiting(i), NEW r \in NestedOf(taken)
    PROVE  entityOf[r.child] \notin DynamicLabels
<1>1. /\ r \in Rel /\ r.key.parent = i /\ r.key.assoc \in Batched
      /\ entityOf[i] \notin DynamicLabels /\ r.child \in rels[r.key]
  BY DEF NestedOf, Waiting
<1>2. r.key \in Key /\ ownerOf[r.key.assoc] = entityOf[i]  BY <1>1 DEF Rel, Key
<1>3. r.child \in wanted[r.key]  BY <1>1, <1>2 DEF Inv, NothingMadeUp
<1>4. entityOf[r.child] = targetOf[r.key.assoc]  BY <1>2, <1>3 DEF Labelled
<1>5. targetOf[r.key.assoc] \notin DynamicLabels  BY <1>1, <1>2 DEF PlainChildren
<1> QED  BY <1>4, <1>5

LEMMA CreateRowsLabels ==
    ASSUME Inv, Labelled, CreateRows
    PROVE  InstanceLabels'
<1> SUFFICES ASSUME NEW i \in inserts, entityOf[i] \in DynamicLabels, node'[i] > 0
             PROVE  i \in labelled'
  BY DEF CreateRows, inputVars, InstanceLabels
<1>1. i \in Instance /\ node[i] \in Nat  BY DEF Inv, TypeOK
<1>2. ~\E r \in nested : r.child = i  BY DEF Labelled
<1>3. node'[i] = node[i] + (IF i \in rows THEN 1 ELSE 0) + 0
  BY <1>1, <1>2, BatchCount DEF CreateRows, Inv
<1>4. CASE i \in rows
  <2>1. pass \in DynamicLabels  BY <1>4 DEF Labelled
  <2> QED  BY <1>4, <2>1 DEF CreateRows
<1>5. CASE i \notin rows
  <2>1. node[i] > 0  BY <1>1, <1>3, <1>5
  <2> QED  BY <2>1 DEF CreateRows, Labelled, InstanceLabels
<1> QED  BY <1>4, <1>5

LEMMA NextLabelled ==
    ASSUME PlainChildren, Inv, Labelled, [Next]_vars
    PROVE  Labelled'
<1> USE DEF inputVars, passVars, loopVars, queueVars, dbVars
<1>0. pass = NoEntity => left = {} /\ rows = {} /\ nested = {}  BY DEF Inv, Idle
<1>1. ASSUME NEW e, pass = NoEntity, StartPass(e), UNCHANGED <<inputVars, dbVars>>
      PROVE  Labelled'
  BY <1>0, <1>1 DEF StartPass, InsertsOf, Labelled, InstanceLabels
<1>2. ASSUME NEW k \in Key, VisitKey(k)  PROVE Labelled'
  <2>1. CASE StartPass(ownerOf[k.assoc])
    BY <1>1, <1>2, <2>1 DEF VisitKey
  <2>2. CASE UNCHANGED passVars
    BY <1>2, <2>2, LabelledUnchanged DEF VisitKey
  <2> QED  BY <1>2, <2>1, <2>2 DEF VisitKey
<1>3. ASSUME NEW e \in Entity, VisitEntity(e)  PROVE Labelled'
  BY <1>1, <1>3 DEF VisitEntity
<1>4. ASSUME NEW i \in Instance, ProcessExecuted(i) \/ ProcessVetoed(i)  PROVE Labelled'
  <2>1. left' \subseteq left  BY <1>4 DEF ProcessExecuted, ProcessVetoed, Reach
  <2>2. UNCHANGED <<inserts, wanted, pass, rows, nested, node, labelled>>
    BY <1>4 DEF ProcessExecuted, ProcessVetoed
  <2> QED  BY <2>1, <2>2 DEF Labelled, InstanceLabels
<1>5. ASSUME NEW i \in Instance, ProcessNew(i)  PROVE Labelled'
  <2>1. PICK taken \in SUBSET Waiting(i) :
           rows' = rows \cup {i} /\ nested' = nested \cup NestedOf(taken)
    BY <1>5 DEF ProcessNew
  <2>2. i \in left /\ left' = left \ {i} /\ UNCHANGED <<inserts, wanted, pass, node, labelled>>
    BY <1>5 DEF ProcessNew, Reach
  <2>3. \A r \in NestedOf(taken) : entityOf[r.child] \notin DynamicLabels  BY NestedPlain
  <2> QED  BY <2>1, <2>2, <2>3 DEF Labelled, InstanceLabels
<1>6. ASSUME CreateRows  PROVE Labelled'
  <2>1. left' = {} /\ rows' = {} /\ nested' = {} /\ wanted' = wanted
    BY <1>6 DEF CreateRows
  <2> QED  BY <1>6, <2>1, CreateRowsLabels DEF Labelled
<1>7. ASSUME \/ \E k \in Key : SkipKey(k)
             \/ \E i \in Instance : FireEvent(i)
             \/ \E m \in merges : RunMerge(m)
             \/ EndKeys \/ EndEntities \/ Done \/ UNCHANGED vars
      PROVE  Labelled'
  <2>1. UNCHANGED <<inserts, wanted, pass, left, rows, nested, node, labelled>>
    BY <1>7 DEF SkipKey, FireEvent, RunMerge, EndKeys, EndEntities, Done, vars
  <2> QED  BY <2>1, LabelledUnchanged
<1> QED
  BY <1>2, <1>3, <1>4, <1>5, <1>6, <1>7 DEF Next

(* Nodes carry the labels of their instance unless a batched association of an    *)
(* entity with fixed labels creates them below their parent: where no such        *)
(* association exists, the labels the documentation promises are always written.  *)
THEOREM LabelsWritten ==
    ASSUME PlainChildren
    PROVE  Spec => []InstanceLabels
<1>1. Labelled /\ Inv /\ [Next]_vars => Labelled'  BY NextLabelled
<1>2. Labelled => InstanceLabels  BY DEF Labelled
<1> QED  BY <1>1, <1>2, InitLabelled, InvHolds, PTL DEF Spec
=============================================================================
