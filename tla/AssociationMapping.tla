------------------------- MODULE AssociationMapping -------------------------
(***************************************************************************)
(* From the mapping of an association to relationships and back: which     *)
(* side of an association records a change, with which type and direction  *)
(* the flush writes it, what it deletes first, and what each side reads.   *)
(*                                                                         *)
(* Side "a" is the property of the class that owns the association, side   *)
(* "b" the inverse property, if there is one.  A unit of work connects two *)
(* instances through one side, or takes their connection back, saves, and  *)
(* flushes; the next unit may do the same from the other side.             *)
(***************************************************************************)
EXTENDS FiniteSets

CONSTANTS
    A, B,        \* the instances of the class that owns the association, of the other
    Mapping,     \* the mappings of the association that are considered
    Type,        \* relationship types that a mapping can name
    Unset,       \* a mapping names no type, no direction
    AdoptByNew,  \* the application moves an instance to a parent that is not yet stored
    Nothing      \* no change has been made

ClassOf ==
    [toMany     |-> [a |-> "OneToMany"],
     toOne      |-> [a |-> "OneToOne"],
     oneToMany  |-> [a |-> "OneToMany", b |-> "ManyToOne"],
     manyToMany |-> [a |-> "ManyToMany", b |-> "ManyToMany"],
     oneToOne   |-> [a |-> "OneToOne", b |-> "OneToOne"]]

Direction == {"OUTGOING", "INCOMING", "BOTH"}

\* Circular: both ends are instances of one class.  Not considered are circular
\* many-to-many and circular one-to-one associations, where a property may be its
\* own inverse.
IsMapping(m) ==
    /\ m.kind \in DOMAIN ClassOf
    /\ m.circular \in BOOLEAN
    /\ m.circular => m.kind \in {"toMany", "toOne", "oneToMany"}
    /\ m.type \in [{"a", "b"} -> Type \cup {Unset}]
    /\ m.direction \in [{"a", "b"} -> Direction \cup {Unset}]
    \* Otherwise processPendingRelationshipUpdates takes the collection for an
    \* instance of the class of its elements.
    /\ m.kind = "oneToMany" => m.direction["a"] \notin {"INCOMING", "BOTH"}

ASSUME MappingAssumption == \A m \in Mapping : IsMapping(m)
ASSUME NameAssumption == ({"a", "b"} \cap Type = {}) /\ Unset \notin Type \cup Direction
ASSUME NodeAssumption == A \cap B = {} /\ Nothing \notin {"a", "b"} \X (A \cup B) \X (A \cup B)

VARIABLES
    mapping,  \* the mapping of the association, fixed at start-up
    stored,   \* the nodes in the graph
    graph,    \* the relationships in the graph
    change,   \* the last change <<side, x, y>>: of y, reached from x through side
    connects, \* whether it connected them
    queue,    \* pendingRelationshipInserts: <<side, owner, target>>
    removals, \* pendingRelationshipDeletes
    phase     \* "app", or "saved": there are pending operations

vars == <<mapping, stored, graph, change, connects, queue, removals, phase>>

Bidirectional == mapping.kind \in {"oneToMany", "manyToMany", "oneToOne"}
Side == IF Bidirectional THEN {"a", "b"} ELSE {"a"}
Inverse(s) == IF s = "a" THEN "b" ELSE "a"
Class(s) == ClassOf[mapping.kind][s]
ToMany(s) == Class(s) \in {"OneToMany", "ManyToMany"}
Node == A \cup B
End(s) == IF mapping.circular THEN Node ELSE IF s = "a" THEN A ELSE B

-----------------------------------------------------------------------------
(***************************************************************************)
(* RelationshipUtils: the pattern -[:TYPE]-> of a side.                    *)
(***************************************************************************)

\* isIncomingRelationship.  (Variant: nobody asks which many-to-many side owns.)
IncomingEitherOwner(s) ==
    \/ mapping.direction[s] \in {"INCOMING", "BOTH"}
    \/ Bidirectional /\ Class(s) \in {"ManyToOne", "ManyToMany"}

Incoming(s) ==
    \/ mapping.direction[s] \in {"INCOMING", "BOTH"}
    \/ Bidirectional /\ Class(s) = "ManyToOne"
    \/ Bidirectional /\ Class(s) = "ManyToMany" /\ s = "a"

\* getRelationshipType: the name of the property stands for the side.  (Variant: a
\* reversed side uses its own name.)
RelationshipTypeOwnName(s) == IF mapping.type[s] # Unset THEN mapping.type[s] ELSE s

RelationshipType(s) ==
    IF mapping.type[s] # Unset THEN mapping.type[s]
    ELSE IF Incoming(s) /\ Bidirectional THEN Inverse(s) ELSE s

Outgoing(s) == mapping.direction[s] \in {"OUTGOING", "BOTH"} \/ ~Incoming(s)

\* (x)<-[:TYPE]->(y) matches in both directions.
Matches(s, x, r, y) ==
    /\ r.type = RelationshipType(s)
    /\ \/ Outgoing(s) /\ r.from = x /\ r.to = y
       \/ Incoming(s) /\ r.from = y /\ r.to = x

\* What the association query of x returns.
Read(s, x) == {y \in End(Inverse(s)) : \E r \in graph : Matches(s, x, r, y)}

\* What MERGE creates if nothing matches; it may pick the direction of an undirected
\* pattern.
Merged(s, x, y, right) ==
    LET forward == Outgoing(s) /\ (right \/ ~Incoming(s))
    IN [type |-> RelationshipType(s),
        from |-> IF forward THEN x ELSE y, to |-> IF forward THEN y ELSE x]

-----------------------------------------------------------------------------
(***************************************************************************)
(* Recording.                                                              *)
(***************************************************************************)

\* What saving o records, after n was added to its collection or its to-one was set
\* to n.  A reversed side leaves it to the inverse.
Recorded(s, o, n) ==
    IF ~Incoming(s) THEN {<<s, o, e>> : e \in IF ToMany(s) THEN Read(s, o) \cup {n} ELSE {n}}
    ELSE IF Bidirectional /\ ~ToMany(s) THEN {<<Inverse(s), n, o>>} ELSE {}

\* An instance of the owning class that has no node yet takes y from its parent.
Adopts(s, x, y) ==
    LET parent == IF s = "a" THEN x ELSE y
        child == IF s = "a" THEN y ELSE x
    IN mapping.kind = "oneToMany" /\ parent \notin stored /\ Read("b", child) # {}

\* The application connects y to x through side s; save() populates the other side
\* and cascades to it.  Whether populating a one-to-one makes the other instance
\* dirty is up to the property access of the library.
Connect(s, x, y) ==
    /\ phase = "app"
    /\ x \in End(s) /\ y \in End(Inverse(s)) /\ x # y
    /\ y \notin Read(s, x)
    /\ Adopts(s, x, y) => AdoptByNew
    /\ change' = <<s, x, y>>
    /\ connects' = TRUE
    /\ \/ /\ Bidirectional
          /\ queue' = Recorded(s, x, y) \cup Recorded(Inverse(s), y, x)
       \/ /\ mapping.kind \in {"toMany", "toOne", "oneToOne"}
          /\ queue' = Recorded(s, x, y)
    /\ removals' = {}
    /\ phase' = "saved"
    /\ UNCHANGED <<mapping, stored, graph>>

\* y is removed from a collection of x, which records the other elements as well when
\* it is saved, or a to-one is set to null.  (What the removal from a reversed
\* collection records is up to the library, which changes the other side.)
Disconnect(s, x, y) ==
    /\ phase = "app"
    /\ x \in End(s) /\ y \in Read(s, x)
    /\ ToMany(s) => ~Incoming(s)
    /\ change' = <<s, x, y>>
    /\ connects' = FALSE
    /\ queue' = IF ToMany(s) THEN {<<s, x, e>> : e \in Read(s, x) \ {y}} ELSE {}
    /\ removals' = {<<s, x, y>>}
    /\ phase' = "saved"
    /\ UNCHANGED <<mapping, stored, graph>>

-----------------------------------------------------------------------------
(***************************************************************************)
(* The flush.                                                              *)
(***************************************************************************)

\* processPendingRelationshipUpdates: the keys of the queue that an instance o
\* flushes, whose property s refers to v.
Keys(s, o, v) ==
    IF ~Incoming(s) \/ ~Bidirectional THEN {<<s, o>>}
    ELSE IF Class(s) = "ManyToMany" THEN {} ELSE {<<Inverse(s), v>>}

\* Those of an instance whose property s refers to nothing any more, or is a
\* collection that writes.  (Variant: a reversed side leaves it to the other side.)
KeysWithoutReversed(s, o) == IF Incoming(s) THEN {} ELSE {<<s, o>>}

KeysWithout(s, o) == {<<s, o>>}

Targets(k) == {t \in Node : <<k[1], k[2], t>> \in queue}

\* RelationshipPendingInsert.run: the previous relationships that it deletes, if the
\* queue has anything under the key.
\* (Variants: a to-one has none; the elements of any collection have one.)
PreviousOfElements(k) ==
    {r \in graph :
        /\ ~Incoming(k[1]) /\ Bidirectional /\ Class(k[1]) = "OneToMany"
        /\ \E f \in End(k[1]), t \in Targets(k) : Matches(k[1], f, r, t)}

PreviousOfAnyElements(k) ==
    {r \in graph :
        /\ ~Incoming(k[1])
        /\ \/ /\ Class(k[1]) = "OneToMany"
              /\ \E f \in End(k[1]), t \in Targets(k) : Matches(k[1], f, r, t)
           \/ /\ Class(k[1]) = "OneToOne" /\ Targets(k) # {}
              /\ \E t \in End(Inverse(k[1])) : Matches(k[1], k[2], r, t)}

Previous(k) ==
    {r \in graph :
        /\ ~Incoming(k[1])
        /\ \/ /\ Bidirectional /\ Class(k[1]) = "OneToMany"
              /\ \E f \in End(k[1]), t \in Targets(k) : Matches(k[1], f, r, t)
           \/ /\ Class(k[1]) = "OneToOne" /\ Targets(k) # {}
              /\ \E t \in End(Inverse(k[1])) : Matches(k[1], k[2], r, t)}

\* The keys that the two pending instances of a connection flush, and those that an
\* instance without a node flushes: flushPendingInserts comes first.
Flushed(s, x, y) ==
    Keys(s, x, y) \cup (IF Bidirectional THEN Keys(Inverse(s), y, x) ELSE {})

FlushedByInserts(s, x, y) ==
    (IF x \notin stored THEN Keys(s, x, y) ELSE {}) \cup
    (IF Bidirectional /\ y \notin stored THEN Keys(Inverse(s), y, x) ELSE {})

FlushedKeys ==
    IF connects THEN Flushed(change[1], change[2], change[3]) ELSE KeysWithout(change[1], change[2])

\* RelationshipPendingDelete: the statement of a reversed side names no other end.
Deleted(r) ==
    \E d \in removals :
        /\ <<d[1], d[2]>> \in FlushedKeys
        /\ \E t \in End(Inverse(d[1])) : Matches(d[1], d[2], r, t) /\ (~Incoming(d[1]) => t = d[3])

\* The nodes after the flush.  (Variant: save() does not cascade to the other end.)
NodesOfOwner(x, y) == stored \cup {x}

NodesWith(x, y) == stored \cup {x, y}

\* Inserts do not delete previous relationships (isUpdate is false).  The deletes of a
\* key come after its inserts.
Flush ==
    /\ phase = "saved"
    /\ LET updates == FlushedKeys \ FlushedByInserts(change[1], change[2], change[3])
           kept == {r \in graph : \A k \in updates : r \notin Previous(k)}
           merges == {q \in queue : <<q[1], q[2]>> \in FlushedKeys}
           missing == {q \in merges : \A r \in kept : ~Matches(q[1], q[2], r, q[3])}
       IN \E right \in BOOLEAN :
             graph' = {r \in kept \cup {Merged(q[1], q[2], q[3], right) : q \in missing} :
                          ~Deleted(r)}
    /\ stored' = NodesWith(change[2], change[3])
    /\ queue' = {}
    /\ removals' = {}
    /\ phase' = "app"
    /\ UNCHANGED <<mapping, change, connects>>

Init ==
    /\ mapping \in Mapping
    /\ stored \in SUBSET Node
    /\ graph = {}
    /\ change = Nothing
    /\ connects = FALSE
    /\ queue = {}
    /\ removals = {}
    /\ phase = "app"

Next ==
    \/ \E s \in Side : \E x, y \in Node : Connect(s, x, y)
    \/ \E s \in Side : \E x, y \in Node : Disconnect(s, x, y)
    \/ Flush

Spec == Init /\ [][Next]_vars

-----------------------------------------------------------------------------
(***************************************************************************)
(* Properties.                                                             *)
(***************************************************************************)

TypeOK ==
    /\ mapping \in Mapping
    /\ stored \subseteq Node
    /\ graph \subseteq [type : Type \cup {"a", "b"}, from : stored, to : stored]
    /\ change \in (Side \X Node \X Node) \cup {Nothing}
    /\ connects \in BOOLEAN
    /\ queue \subseteq Side \X Node \X Node
    /\ removals \subseteq Side \X Node \X Node
    /\ phase \in {"app", "saved"}
    /\ phase = "saved" => change # Nothing

\* The mappings for which the code does what an association promises: both sides name
\* the same type, the side that writes is not reversed, and the to-one of a circular
\* association does not name a direction that is read both ways.
Sound(m) ==
    /\ m.kind \in {"oneToMany", "manyToMany"} => m.type["a"] = m.type["b"]
    /\ m.kind \in {"toMany", "toOne", "oneToOne"} => m.direction["a"] \in {Unset, "OUTGOING"}
    /\ m.kind \in {"manyToMany", "oneToOne"} => m.direction["b"] \in {Unset, "OUTGOING"}
    /\ m.kind = "oneToMany" /\ m.circular => m.direction["b"] \in {Unset, "INCOMING"}

\* What a unit of work has connected is there when it is read through the same side:
\* whichever side records it, and whichever side writes it.
ConnectedIsRead ==
    phase = "app" /\ connects => change[3] \in Read(change[1], change[2])

\* What it has taken back is gone, also when the side that took it back does not
\* write, and no element that is recorded again brings it back.
DisconnectedIsGone ==
    phase = "app" /\ change # Nothing /\ ~connects => change[3] \notin Read(change[1], change[2])

\* The two sides of an association that have one relationship read the same.
SidesAgree ==
    mapping.kind \in {"oneToMany", "manyToMany"} =>
        \A x \in End("a"), y \in End("b") : y \in Read("a", x) <=> x \in Read("b", y)

\* A to-one property has one value: the loader takes the first row it gets, and means
\* to report a "Single-ended association [with] more than one associated identifier".
SingleEnded ==
    \A s \in Side : ~ToMany(s) =>
        \A x \in End(s) : \A y, z \in Read(s, x) : y = z

\* A flush takes from a side only what the connection replaces, the parent of a child
\* that gets another one, the previous value of a to-one; or what was taken back.
Replaced(x, y) ==
    LET made == IF change[1] = "a" THEN <<change[2], change[3]>> ELSE <<change[3], change[2]>>
    IN \/ connects /\ mapping.kind = "oneToMany" /\ y = made[2]
       \/ connects /\ mapping.kind \in {"toOne", "oneToOne"} /\ x = made[1]
       \/ ~connects /\ <<x, y>> = made

OthersKept ==
    [][\A x \in End("a") : \A y \in Read("a", x) \ Read("a", x)' : Replaced(x, y)]_vars
=============================================================================
