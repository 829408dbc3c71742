---------------------- MODULE AssociationMapping_proofs ----------------------
(***************************************************************************)
(* For every association whose mapping is sound, for any instances and any *)
(* sequence of connections and removals through either side.               *)
(***************************************************************************)
EXTENDS AssociationMapping, TLAPS

AllSound == \A m \in Mapping : Sound(m)

\* The side whose pattern is written, where there is only one.
Writer == IF mapping.kind = "manyToMany" THEN "b" ELSE "a"

TwoSided == mapping.kind \in {"oneToMany", "manyToMany"}

-----------------------------------------------------------------------------
(***************************************************************************)
(* What the kinds of association come to.                                  *)
(***************************************************************************)

LEMMA Kinds ==
    ASSUME mapping \in Mapping
    PROVE  /\ IsMapping(mapping)
           /\ mapping.kind \in {"toMany", "toOne", "oneToMany", "manyToMany", "oneToOne"}
           /\ mapping.kind = "toMany" => Side = {"a"} /\ Class("a") = "OneToMany"
           /\ mapping.kind = "toOne" => Side = {"a"} /\ Class("a") = "OneToOne"
           /\ mapping.kind = "oneToMany" => /\ Side = {"a", "b"} /\ Class("a") = "OneToMany"
                                            /\ Class("b") = "ManyToOne"
           /\ mapping.kind = "manyToMany" => /\ Side = {"a", "b"} /\ Class("a") = "ManyToMany"
                                             /\ Class("b") = "ManyToMany"
           /\ mapping.kind = "oneToOne" => /\ Side = {"a", "b"} /\ Class("a") = "OneToOne"
                                           /\ Class("b") = "OneToOne"
<1>1. IsMapping(mapping) BY MappingAssumption
<1>2. DOMAIN ClassOf = {"toMany", "toOne", "oneToMany", "manyToMany", "oneToOne"} BY DEF ClassOf
<1>3. mapping.kind \in {"toMany", "toOne", "oneToMany", "manyToMany", "oneToOne"}
  BY <1>1, <1>2 DEF IsMapping
<1>4. CASE mapping.kind = "toMany" BY <1>1, <1>4 DEF Side, Bidirectional, Class, ClassOf
<1>5. CASE mapping.kind = "toOne" BY <1>1, <1>5 DEF Side, Bidirectional, Class, ClassOf
<1>6. CASE mapping.kind = "oneToMany" BY <1>1, <1>6 DEF Side, Bidirectional, Class, ClassOf
<1>7. CASE mapping.kind = "manyToMany" BY <1>1, <1>7 DEF Side, Bidirectional, Class, ClassOf
<1>8. CASE mapping.kind = "oneToOne" BY <1>1, <1>8 DEF Side, Bidirectional, Class, ClassOf
<1> QED BY <1>3, <1>4, <1>5, <1>6, <1>7, <1>8

LEMMA Ends == \A s \in {"a", "b"} : End(s) \subseteq Node
BY DEF End, Node

LEMMA TypeOfSide ==
    ASSUME mapping \in Mapping, NEW s \in Side
    PROVE  RelationshipType(s) \in Type \cup {"a", "b"}
<1>1. s \in {"a", "b"} BY DEF Side
<1>2. mapping.type[s] \in Type \cup {Unset} BY <1>1, MappingAssumption DEF IsMapping
<1> QED BY <1>1, <1>2 DEF RelationshipType, Inverse

\* Which sides of a sound mapping write, and with which pattern they read.
LEMMA Directions ==
    ASSUME mapping \in Mapping, AllSound
    PROVE  /\ mapping.kind # "manyToMany" => ~Incoming("a") /\ Outgoing("a")
           /\ mapping.kind \in {"manyToMany", "oneToOne"} => ~Incoming("b") /\ Outgoing("b")
           /\ mapping.kind = "oneToMany" => Incoming("b")
           /\ mapping.kind = "oneToMany" /\ mapping.circular => ~Outgoing("b")
           /\ mapping.kind = "manyToMany" => Incoming("a")
           /\ mapping.kind \in {"oneToOne", "manyToMany"} => ~mapping.circular
           /\ TwoSided => RelationshipType("a") = RelationshipType("b")
<1>1. IsMapping(mapping) /\ Sound(mapping) BY MappingAssumption DEF AllSound
<1>2. \A s \in {"a", "b"} : mapping.direction[s] \in Direction \cup {Unset} BY <1>1 DEF IsMapping
<1>3. CASE mapping.kind \in {"toMany", "toOne"}
  BY <1>1, <1>2, <1>3, Kinds, NameAssumption
  DEF IsMapping, Sound, Incoming, Outgoing, Bidirectional, Direction, TwoSided
<1>4. CASE mapping.kind = "oneToMany"
  <2>1. ~Incoming("a") /\ Outgoing("a")
    BY <1>1, <1>2, <1>4, Kinds, NameAssumption DEF IsMapping, Incoming, Outgoing, Direction
  <2>2. Incoming("b") BY <1>4, Kinds DEF Incoming, Bidirectional
  <2>3. mapping.circular => ~Outgoing("b")
    BY <1>1, <1>2, <1>4, <2>2, NameAssumption DEF Sound, Outgoing, Direction
  <2>4. RelationshipType("a") = RelationshipType("b")
    BY <1>1, <1>4, <2>1, <2>2 DEF Sound, RelationshipType, Inverse, Bidirectional
  <2> QED BY <1>4, <2>1, <2>2, <2>3, <2>4
<1>5. CASE mapping.kind = "manyToMany"
  <2>1. Incoming("a") BY <1>5, Kinds DEF Incoming, Bidirectional
  <2>2. ~Incoming("b") /\ Outgoing("b")
    BY <1>1, <1>2, <1>5, Kinds, NameAssumption DEF Sound, Incoming, Outgoing, Direction
  <2>3. RelationshipType("a") = RelationshipType("b")
    BY <1>1, <1>5, <2>1, <2>2 DEF Sound, RelationshipType, Inverse, Bidirectional
  <2> QED BY <1>1, <1>5, <2>1, <2>2, <2>3 DEF IsMapping
<1>6. CASE mapping.kind = "oneToOne"
  BY <1>1, <1>2, <1>6, Kinds, NameAssumption
  DEF IsMapping, Sound, Incoming, Outgoing, Direction, TwoSided
<1> QED BY <1>3, <1>4, <1>5, <1>6, Kinds

\* The mapping is fixed: what depends on it alone does not change.
LEMMA Fixed ==
    ASSUME mapping' = mapping
    PROVE  /\ Side' = Side /\ Bidirectional' = Bidirectional
           /\ \A s : /\ Class(s)' = Class(s) /\ ToMany(s)' = ToMany(s) /\ End(s)' = End(s)
                     /\ Incoming(s)' = Incoming(s) /\ Outgoing(s)' = Outgoing(s)
                     /\ RelationshipType(s)' = RelationshipType(s)
           /\ \A s, x, r, y : Matches(s, x, r, y)' = Matches(s, x, r, y)
           /\ \A s, x : Read(s, x)' = {y \in End(Inverse(s)) : \E r \in graph' : Matches(s, x, r, y)}
<1>1. Side' = Side /\ Bidirectional' = Bidirectional BY DEF Side, Bidirectional
<1>2. \A s : Class(s)' = Class(s) /\ End(s)' = End(s) BY DEF Class, End
<1>3. \A s : ToMany(s)' = ToMany(s) BY <1>2 DEF ToMany
<1>4. \A s : Incoming(s)' = Incoming(s) BY <1>1, <1>2 DEF Incoming
<1>5. \A s : Outgoing(s)' = Outgoing(s) BY <1>4 DEF Outgoing
<1>6. \A s : RelationshipType(s)' = RelationshipType(s) BY <1>1, <1>4 DEF RelationshipType
<1>7. \A s, x, r, y : Matches(s, x, r, y)' = Matches(s, x, r, y) BY <1>4, <1>5, <1>6 DEF Matches
<1>8. \A s, x : Read(s, x)' = {y \in End(Inverse(s)) : \E r \in graph' : Matches(s, x, r, y)}
  BY <1>2, <1>7 DEF Read
<1> QED BY <1>1, <1>2, <1>3, <1>4, <1>5, <1>6, <1>7, <1>8

-----------------------------------------------------------------------------
(***************************************************************************)
(* A side that is not reversed writes and reads one relationship.          *)
(***************************************************************************)

Edge(w, x, y) == [type |-> RelationshipType(w), from |-> x, to |-> y]

LEMMA MatchesEdge ==
    ASSUME TypeOK, NEW r \in graph, NEW w, NEW x, NEW y, ~Incoming(w)
    PROVE  Matches(w, x, r, y) <=> r = Edge(w, x, y)
<1>1. r \in [type : Type \cup {"a", "b"}, from : stored, to : stored] BY DEF TypeOK
<1>2. r = [type |-> r.type, from |-> r.from, to |-> r.to] BY <1>1
<1>3. r = Edge(w, x, y) <=> r.type = RelationshipType(w) /\ r.from = x /\ r.to = y
  BY <1>2 DEF Edge
<1> QED BY <1>3 DEF Matches, Outgoing

LEMMA ReadEdge ==
    ASSUME TypeOK, NEW w, NEW x, NEW y, ~Incoming(w)
    PROVE  y \in Read(w, x) <=> y \in End(Inverse(w)) /\ Edge(w, x, y) \in graph
<1>1. ASSUME y \in Read(w, x) PROVE y \in End(Inverse(w)) /\ Edge(w, x, y) \in graph
  BY <1>1, MatchesEdge DEF Read
<1>2. ASSUME y \in End(Inverse(w)), Edge(w, x, y) \in graph PROVE y \in Read(w, x)
  <2>1. Matches(w, x, Edge(w, x, y), y) BY <1>2, MatchesEdge
  <2> QED BY <1>2, <2>1 DEF Read
<1> QED BY <1>1, <1>2

\* Every relationship was written by a side that is not reversed.
Shaped ==
    \A r \in graph : \E w \in Side :
        ~Incoming(w) /\ r.type = RelationshipType(w) /\ r.from \in End(w) /\ r.to \in End(Inverse(w))

\* With one relationship for two sides, what one reads the other reads.
LEMMA Mirror ==
    ASSUME TypeOK, Shaped, AllSound, TwoSided, NEW x \in End("a"), NEW y \in End("b")
    PROVE  y \in Read("a", x) <=> x \in Read("b", y)
<1>0. mapping \in Mapping BY DEF TypeOK
<1>1. RelationshipType("a") = RelationshipType("b") BY <1>0, Directions
<1>2. Inverse("a") = "b" /\ Inverse("b") = "a" BY DEF Inverse
<1>3. CASE mapping.kind = "oneToMany"
  <2>1. ~Incoming("a") /\ Outgoing("a") /\ Incoming("b") BY <1>0, <1>3, Directions
  <2>2. ASSUME NEW r \in graph, r.from = y, r.to = x, Outgoing("b") PROVE FALSE
    <3>1. ~mapping.circular BY <1>0, <1>3, <2>2, Directions
    <3>2. r.from \in End("a") BY <1>2, <1>3, <2>1, <2>2, Kinds DEF Shaped, TypeOK
    <3> QED BY <2>2, <3>1, <3>2, NodeAssumption DEF End
  <2>3. \A r \in graph : Matches("a", x, r, y) <=> Matches("b", y, r, x)
    BY <1>1, <2>1, <2>2 DEF Matches
  <2> QED BY <1>2, <2>3 DEF Read
<1>4. CASE mapping.kind = "manyToMany"
  <2>1. ~Incoming("b") /\ Outgoing("b") /\ Incoming("a") /\ ~mapping.circular
    BY <1>0, <1>4, Directions
  <2>2. ASSUME NEW r \in graph, r.from = x, r.to = y PROVE FALSE
    <3>1. r.from \in End("b") BY <1>0, <1>2, <1>4, <2>1, <2>2, Kinds DEF Shaped
    <3> QED BY <2>1, <2>2, <3>1, NodeAssumption DEF End
  <2>3. \A r \in graph : Matches("a", x, r, y) <=> Matches("b", y, r, x)
    BY <1>1, <2>1, <2>2 DEF Matches
  <2> QED BY <1>2, <2>3 DEF Read
<1> QED BY <1>3, <1>4 DEF TwoSided

-----------------------------------------------------------------------------
(***************************************************************************)
(* What is pending between save() and the flush.                           *)
(***************************************************************************)

Opposite == <<Inverse(change[1]), change[3], change[2]>>

\* Recorded by a side that is not reversed, between the right ends, under a key that
\* the flush reaches; new, or already in the graph.
PlannedInsert(q) ==
    /\ q[1] \in Side /\ ~Incoming(q[1]) /\ q[2] \in End(q[1]) /\ q[3] \in End(Inverse(q[1]))
    /\ <<q[1], q[2]>> \in FlushedKeys
    /\ \/ connects /\ q \in {change, Opposite}
       \/ ToMany(q[1]) /\ q[3] \in Read(q[1], q[2])

PlannedConnection ==
    /\ (IF Incoming(change[1]) THEN Opposite ELSE change) \in queue
    /\ removals = {}
    /\ Adopts(change[1], change[2], change[3]) => AdoptByNew

\* What is taken back is in the graph, and nothing records it again.
PlannedRemoval ==
    /\ removals = {change}
    /\ change[2] \in stored /\ change[3] \in stored
    /\ change[3] \in Read(change[1], change[2])
    /\ ToMany(change[1]) => ~Incoming(change[1])
    /\ \A q \in queue : q[1] = change[1] /\ ToMany(q[1]) /\ q[3] # change[3]

Planned ==
    /\ phase = "app" => queue = {} /\ removals = {}
    /\ phase = "saved" =>
          /\ change[1] \in Side
          /\ change[2] \in End(change[1]) /\ change[3] \in End(Inverse(change[1]))
          /\ \A q \in queue : PlannedInsert(q)
          /\ IF connects THEN PlannedConnection ELSE PlannedRemoval

\* The edge of the last change, as the side that writes it has it.
ChangedEdge ==
    IF Incoming(change[1]) THEN Edge(Inverse(change[1]), change[3], change[2])
    ELSE Edge(change[1], change[2], change[3])

\* What the last flush was to write has been written, what it was to delete is gone.
FlushedChange == phase = "app" /\ change # Nothing => (connects <=> ChangedEdge \in graph)

ChangeOK ==
    /\ connects => change # Nothing
    /\ change # Nothing =>
          /\ change[1] \in Side
          /\ change[2] \in End(change[1]) /\ change[3] \in End(Inverse(change[1]))

LinkInv == TypeOK /\ Shaped /\ Planned /\ ChangeOK /\ FlushedChange

LEMMA RecordedShape ==
    ASSUME TypeOK, AllSound, NEW s \in Side, NEW o \in End(s), NEW n \in End(Inverse(s)),
           NEW q \in Recorded(s, o, n)
    PROVE  /\ q \in Side \X Node \X Node
           /\ ~Incoming(q[1]) /\ q[2] \in End(q[1]) /\ q[3] \in End(Inverse(q[1]))
           /\ <<q[1], q[2]>> \in Keys(s, o, n)
           /\ \/ q = <<s, o, n>>
              \/ q = <<Inverse(s), n, o>>
              \/ ToMany(q[1]) /\ q[3] \in Read(q[1], q[2])
<1>0. mapping \in Mapping /\ s \in {"a", "b"} /\ Inverse(s) \in {"a", "b"}
  BY DEF TypeOK, Side, Inverse
<1>1. CASE ~Incoming(s)
  <2>1. PICK e \in IF ToMany(s) THEN Read(s, o) \cup {n} ELSE {n} : q = <<s, o, e>>
    BY <1>1 DEF Recorded
  <2>2. e \in End(Inverse(s)) /\ (e = n \/ (ToMany(s) /\ e \in Read(s, o)))
    BY <2>1 DEF Read
  <2>3. <<s, o>> \in Keys(s, o, n) BY <1>1 DEF Keys
  <2>4. o \in Node /\ e \in Node BY <1>0, <2>2, Ends
  <2> QED BY <1>1, <2>1, <2>2, <2>3, <2>4
<1>2. CASE Incoming(s)
  <2>1. Bidirectional /\ ~ToMany(s) /\ q = <<Inverse(s), n, o>> BY <1>2 DEF Recorded
  <2>2. mapping.kind = "oneToMany" /\ s = "b"
    BY <1>0, <1>2, <2>1, Kinds, Directions DEF ToMany, Bidirectional
  <2>3. Inverse(s) = "a" /\ Inverse("a") = s /\ "a" \in Side /\ ~Incoming("a")
    BY <1>0, <2>2, Kinds, Directions DEF Inverse
  <2>4. <<Inverse(s), n>> \in Keys(s, o, n) BY <1>0, <1>2, <2>1, <2>2, Kinds DEF Keys
  <2>5. o \in Node /\ n \in Node BY <1>0, Ends
  <2> QED BY <2>1, <2>3, <2>4, <2>5
<1> QED BY <1>1, <1>2

LEMMA LinkInit == Init => LinkInv
<1> SUFFICES ASSUME Init PROVE LinkInv OBVIOUS
<1>1. TypeOK BY DEF Init, TypeOK
<1>2. Shaped /\ Planned /\ ChangeOK /\ FlushedChange
  BY DEF Init, Shaped, Planned, ChangeOK, FlushedChange
<1> QED BY <1>1, <1>2 DEF LinkInv

LEMMA LinkConnect ==
    ASSUME LinkInv, AllSound, NEW s \in Side, NEW x \in Node, NEW y \in Node, Connect(s, x, y)
    PROVE  LinkInv'
<1> USE DEF LinkInv
<1>1. mapping' = mapping /\ stored' = stored /\ graph' = graph /\ phase' = "saved"
      /\ change' = <<s, x, y>> /\ connects' = TRUE /\ removals' = {} BY DEF Connect
<1>2. x \in End(s) /\ y \in End(Inverse(s)) /\ x # y /\ (Adopts(s, x, y) => AdoptByNew)
  BY DEF Connect
<1>3. mapping \in Mapping BY DEF TypeOK
<1>4. s \in {"a", "b"} /\ Inverse(Inverse(s)) = s BY DEF Side, Inverse
<1>5. \/ Bidirectional /\ queue' = Recorded(s, x, y) \cup Recorded(Inverse(s), y, x)
      \/ mapping.kind \in {"toMany", "toOne", "oneToOne"} /\ queue' = Recorded(s, x, y)
  BY DEF Connect
<1>6. Opposite' = <<Inverse(s), y, x>> BY <1>1 DEF Opposite
<1>7. ASSUME NEW q \in queue'
      PROVE  /\ q \in Side \X Node \X Node
             /\ ~Incoming(q[1]) /\ q[2] \in End(q[1]) /\ q[3] \in End(Inverse(q[1]))
             /\ <<q[1], q[2]>> \in Flushed(s, x, y)
             /\ q \in {<<s, x, y>>, <<Inverse(s), y, x>>} \/ (ToMany(q[1]) /\ q[3] \in Read(q[1], q[2]))
  <2>1. CASE q \in Recorded(s, x, y)
    <3>1. <<q[1], q[2]>> \in Keys(s, x, y) BY <1>2, <2>1, RecordedShape
    <3>2. <<q[1], q[2]>> \in Flushed(s, x, y) BY <3>1 DEF Flushed
    <3> QED BY <1>2, <2>1, <3>2, RecordedShape
  <2>2. CASE Bidirectional /\ q \in Recorded(Inverse(s), y, x)
    <3>1. Inverse(s) \in Side BY <1>4, <2>2 DEF Side, Inverse
    <3>2. y \in End(Inverse(s)) /\ x \in End(Inverse(Inverse(s))) BY <1>2, <1>4
    <3>3. <<q[1], q[2]>> \in Keys(Inverse(s), y, x) BY <2>2, <3>1, <3>2, RecordedShape
    <3>4. <<q[1], q[2]>> \in Flushed(s, x, y) BY <2>2, <3>3 DEF Flushed
    <3>5. \/ q = <<Inverse(s), y, x>>
          \/ q = <<Inverse(Inverse(s)), x, y>>
          \/ (ToMany(q[1]) /\ q[3] \in Read(q[1], q[2]))
      BY <2>2, <3>1, <3>2, RecordedShape
    <3>6. q \in {<<s, x, y>>, <<Inverse(s), y, x>>} \/ (ToMany(q[1]) /\ q[3] \in Read(q[1], q[2]))
      BY <1>4, <3>5
    <3> QED BY <2>2, <3>1, <3>2, <3>4, <3>6, RecordedShape
  <2> QED BY <1>5, <2>1, <2>2
<1>8. (IF Incoming(s) THEN <<Inverse(s), y, x>> ELSE <<s, x, y>>) \in queue'
  <2>1. CASE ~Incoming(s)
    <3>1. <<s, x, y>> \in Recorded(s, x, y) BY <2>1 DEF Recorded
    <3> QED BY <1>5, <2>1, <3>1
  <2>2. CASE Incoming(s)
    <3>1. \/ (mapping.kind = "oneToMany" /\ s = "b")
          \/ (mapping.kind = "manyToMany" /\ s = "a")
      BY <1>3, <1>4, <2>2, Kinds, Directions
    <3>2. Bidirectional BY <3>1 DEF Bidirectional
    <3>3. queue' = Recorded(s, x, y) \cup Recorded(Inverse(s), y, x) BY <1>5, <3>1
    <3>4. CASE mapping.kind = "oneToMany" /\ s = "b"
      <4>1. <<Inverse(s), y, x>> \in Recorded(s, x, y)
        BY <1>3, <2>2, <3>2, <3>4, Kinds DEF Recorded, ToMany
      <4> QED BY <2>2, <3>3, <4>1
    <3>5. CASE mapping.kind = "manyToMany" /\ s = "a"
      <4>1. Inverse(s) = "b" /\ ~Incoming("b") BY <1>3, <3>5, Directions DEF Inverse
      <4>2. <<Inverse(s), y, x>> \in Recorded(Inverse(s), y, x) BY <4>1 DEF Recorded
      <4> QED BY <2>2, <3>3, <4>2
    <3> QED BY <3>1, <3>4, <3>5
  <2> QED BY <2>1, <2>2
<1>9. <<s, x, y>> # Nothing BY NodeAssumption, <1>4 DEF Node
<1>10. TypeOK' BY <1>1, <1>7, <1>9, Fixed DEF TypeOK
<1>11. Shaped' BY <1>1, Fixed DEF Shaped
<1>13. FlushedKeys' = Flushed(s, x, y) BY <1>1, Fixed DEF FlushedKeys, Flushed, Keys
<1>14. \A z, w : Read(z, w)' = Read(z, w) BY <1>1, Fixed DEF Read
<1>15. \A q \in queue' : PlannedInsert(q)'
  BY <1>1, <1>6, <1>7, <1>13, <1>14, Fixed DEF PlannedInsert
<1>16. Adopts(s, x, y)' = Adopts(s, x, y) BY <1>1, <1>14 DEF Adopts
<1>17. PlannedConnection' BY <1>1, <1>2, <1>6, <1>8, <1>16, Fixed DEF PlannedConnection
<1>18. Planned' BY <1>1, <1>2, <1>15, <1>17, Fixed DEF Planned
<1>19. ChangeOK' /\ FlushedChange' BY <1>1, <1>2, <1>9, Fixed DEF ChangeOK, FlushedChange
<1> QED BY <1>10, <1>11, <1>18, <1>19

LEMMA LinkDisconnect ==
    ASSUME LinkInv, AllSound, NEW s \in Side, NEW x \in Node, NEW y \in Node, Disconnect(s, x, y)
    PROVE  LinkInv'
<1> USE DEF LinkInv
<1>1. mapping' = mapping /\ stored' = stored /\ graph' = graph /\ phase' = "saved"
      /\ change' = <<s, x, y>> /\ connects' = FALSE /\ removals' = {<<s, x, y>>}
  BY DEF Disconnect
<1>2. x \in End(s) /\ y \in Read(s, x) /\ (ToMany(s) => ~Incoming(s)) BY DEF Disconnect
<1>3. ASSUME NEW q \in queue'
      PROVE  /\ q \in Side \X Node \X Node /\ q[1] = s /\ q[2] = x /\ ToMany(s)
             /\ q[3] \in Read(s, x) /\ q[3] # y
  <2>1. ToMany(s) BY DEF Disconnect
  <2>2. PICK e \in Read(s, x) \ {y} : q = <<s, x, e>> BY <2>1 DEF Disconnect
  <2>3. e \in Node BY <2>2, Ends DEF Read, Inverse
  <2> QED BY <2>1, <2>2, <2>3
<1>4. x \in stored /\ y \in stored
  <2>1. PICK r \in graph : Matches(s, x, r, y) BY <1>2 DEF Read
  <2>2. r.from \in stored /\ r.to \in stored BY DEF TypeOK
  <2> QED BY <2>1, <2>2 DEF Matches
<1>5. y \in End(Inverse(s)) BY <1>2 DEF Read
<1>6. <<s, x, y>> # Nothing BY NodeAssumption DEF Node, Side
<1>7. TypeOK'
  <2>1. queue' \subseteq Side \X Node \X Node BY <1>3
  <2>2. <<s, x, y>> \in Side \X Node \X Node OBVIOUS
  <2> QED BY <1>1, <1>6, <2>1, <2>2, Fixed DEF TypeOK
<1>8. Shaped' BY <1>1, Fixed DEF Shaped
<1>9. \A z, w : Read(z, w)' = Read(z, w) BY <1>1, Fixed DEF Read
<1>10. FlushedKeys' = {<<s, x>>} BY <1>1 DEF FlushedKeys, KeysWithout
<1>11. ASSUME NEW q \in queue' PROVE PlannedInsert(q)'
  <2>1. ~Incoming(s) /\ q[3] \in End(Inverse(s)) BY <1>2, <1>3 DEF Read
  <2>2. <<q[1], q[2]>> = <<s, x>> BY <1>3
  <2>3. (q[1] \in Side)' /\ ~Incoming(q[1])' /\ (q[2] \in End(q[1]))' /\ (q[3] \in End(Inverse(q[1])))'
    BY <1>1, <1>2, <1>3, <2>1, Fixed
  <2>4. ToMany(q[1])' /\ (q[3] \in Read(q[1], q[2]))' BY <1>1, <1>3, <1>9, Fixed
  <2> QED BY <1>10, <2>2, <2>3, <2>4 DEF PlannedInsert
<1>12. PlannedRemoval'
  <2>1. \A q \in queue' : q[1] = s /\ ToMany(q[1])' /\ q[3] # y BY <1>1, <1>3, Fixed
  <2> QED BY <1>1, <1>2, <1>4, <1>9, <2>1, Fixed DEF PlannedRemoval
<1>13. Planned' BY <1>1, <1>2, <1>5, <1>11, <1>12, Fixed DEF Planned
<1>14. ChangeOK' /\ FlushedChange' BY <1>1, <1>2, <1>5, Fixed DEF ChangeOK, FlushedChange
<1> QED BY <1>7, <1>8, <1>13, <1>14

-----------------------------------------------------------------------------
(***************************************************************************)
(* The flush: the relationships that it keeps and one for each entry of    *)
(* the queue, without those that it deletes at the end.                    *)
(***************************************************************************)

Updates == FlushedKeys \ FlushedByInserts(change[1], change[2], change[3])

Kept == {r \in graph : \A k \in Updates : r \notin Previous(k)}

LEMMA FlushGraph ==
    ASSUME LinkInv, AllSound, Flush
    PROVE  graph' = {r \in Kept \cup {Edge(q[1], q[2], q[3]) : q \in queue} : ~Deleted(r)}
<1> DEFINE merges == {q \in queue : <<q[1], q[2]>> \in FlushedKeys}
           missing == {q \in merges : \A r \in Kept : ~Matches(q[1], q[2], r, q[3])}
<1>1. PICK right \in BOOLEAN :
        graph' = {r \in Kept \cup {Merged(q[1], q[2], q[3], right) : q \in missing} : ~Deleted(r)}
  BY DEF Flush, Kept, Updates
<1>2. \A q \in queue : PlannedInsert(q) BY DEF LinkInv, Planned, Flush
<1>3. merges = queue BY <1>2 DEF PlannedInsert
<1>4. \A q \in queue : ~Incoming(q[1]) BY <1>2 DEF PlannedInsert
<1>5. \A q \in queue : Merged(q[1], q[2], q[3], right) = Edge(q[1], q[2], q[3])
  BY <1>4 DEF Merged, Edge, Outgoing
<1>6. ASSUME NEW q \in queue
      PROVE  q \in missing <=> Edge(q[1], q[2], q[3]) \notin Kept
  <2>1. \A r \in Kept : Matches(q[1], q[2], r, q[3]) <=> r = Edge(q[1], q[2], q[3])
    BY <1>4, MatchesEdge DEF Kept, LinkInv
  <2> QED BY <1>3, <2>1
<1>7. \A q \in missing : q \in queue OBVIOUS
<1> HIDE DEF missing
<1>8. Kept \cup {Merged(q[1], q[2], q[3], right) : q \in missing}
        = Kept \cup {Edge(q[1], q[2], q[3]) : q \in queue}
  BY <1>5, <1>6, <1>7
<1> QED BY <1>1, <1>8

\* What is new in the graph is the connection that was made.
LEMMA FlushedEdge ==
    ASSUME LinkInv, AllSound, Flush, NEW q \in queue
    PROVE  \/ connects /\ q \in {change, Opposite}
           \/ Edge(q[1], q[2], q[3]) \in graph
<1>1. PlannedInsert(q) BY DEF LinkInv, Planned, Flush
<1> QED BY <1>1, ReadEdge DEF PlannedInsert, LinkInv

LEMMA LinkFlush ==
    ASSUME LinkInv, AllSound, Flush
    PROVE  LinkInv'
<1> USE DEF LinkInv
<1>1. mapping' = mapping /\ change' = change /\ queue' = {} /\ phase' = "app" /\ phase = "saved"
      /\ stored' = stored \cup {change[2], change[3]} /\ removals' = {} /\ connects' = connects
  BY DEF Flush, NodesWith
<1>2. graph' = {r \in Kept \cup {Edge(q[1], q[2], q[3]) : q \in queue} : ~Deleted(r)} BY FlushGraph
<1>3. mapping \in Mapping /\ change # Nothing BY <1>1 DEF TypeOK
<1>4. \A q \in queue : PlannedInsert(q) BY <1>1 DEF Planned
<1>5. change[1] \in Side /\ change[2] \in End(change[1]) /\ change[3] \in End(Inverse(change[1]))
  BY <1>1, <1>3 DEF ChangeOK
<1>6. change = <<change[1], change[2], change[3]>> /\ change[1] \in {"a", "b"}
      /\ change[2] \in Node /\ change[3] \in Node
  BY <1>3, <1>5 DEF TypeOK, Side
<1>7. ASSUME NEW q \in queue
      PROVE  Edge(q[1], q[2], q[3]) \in [type : Type \cup {"a", "b"}, from : stored', to : stored']
  <2>1. CASE Edge(q[1], q[2], q[3]) \in graph BY <1>1, <2>1 DEF TypeOK
  <2>2. CASE q \in {change, Opposite}
    <3>1. q[2] \in stored' /\ q[3] \in stored' BY <1>1, <1>6, <2>2 DEF Opposite
    <3>2. RelationshipType(q[1]) \in Type \cup {"a", "b"}
      BY <1>3, <1>4, TypeOfSide DEF PlannedInsert
    <3> QED BY <3>1, <3>2 DEF Edge
  <2> QED BY <2>1, <2>2, FlushedEdge
<1>8. TypeOK'
  <2>1. Kept \subseteq [type : Type \cup {"a", "b"}, from : stored', to : stored']
    BY <1>1 DEF Kept, TypeOK
  <2>2. graph' \subseteq [type : Type \cup {"a", "b"}, from : stored', to : stored']
    BY <1>2, <1>7, <2>1
  <2>3. stored' \subseteq Node BY <1>1, <1>6 DEF TypeOK
  <2> QED BY <1>1, <1>3, <2>2, <2>3, Fixed DEF TypeOK
<1>9. Shaped'
  <2>1. ASSUME NEW r \in graph'
        PROVE  \E w \in Side : /\ ~Incoming(w) /\ r.type = RelationshipType(w)
                              /\ r.from \in End(w) /\ r.to \in End(Inverse(w))
    <3>1. CASE r \in Kept BY <3>1 DEF Kept, Shaped
    <3>2. ASSUME NEW q \in queue, r = Edge(q[1], q[2], q[3])
          PROVE  /\ q[1] \in Side /\ ~Incoming(q[1]) /\ r.type = RelationshipType(q[1])
                 /\ r.from \in End(q[1]) /\ r.to \in End(Inverse(q[1]))
      BY <1>4, <3>2 DEF PlannedInsert, Edge
    <3> QED BY <1>2, <3>1, <3>2
  <2> QED BY <1>1, <2>1, Fixed DEF Shaped
<1>10. Planned' BY <1>1 DEF Planned
<1>11. ChangeOK' BY <1>1, <1>5, Fixed DEF ChangeOK
<1>12. ChangedEdge' = ChangedEdge BY <1>1, Fixed DEF ChangedEdge, Edge
<1>13. ASSUME connects PROVE FlushedChange'
  <2>1. (IF Incoming(change[1]) THEN Opposite ELSE change) \in queue /\ removals = {}
    BY <1>1, <1>13 DEF Planned, PlannedConnection
  <2>2. \A r : ~Deleted(r) BY <2>1 DEF Deleted
  <2>3. ChangedEdge \in graph'
    <3>1. CASE Incoming(change[1])
      <4>1. Edge(Opposite[1], Opposite[2], Opposite[3]) \in graph' BY <1>2, <2>1, <2>2, <3>1
      <4> QED BY <3>1, <4>1 DEF Opposite, ChangedEdge
    <3>2. CASE ~Incoming(change[1])
      <4>1. Edge(change[1], change[2], change[3]) \in graph' BY <1>2, <2>1, <2>2, <3>2
      <4> QED BY <3>2, <4>1 DEF ChangedEdge
    <3> QED BY <3>1, <3>2
  <2> QED BY <1>1, <1>12, <1>13, <2>3 DEF FlushedChange
<1>14. ASSUME ~connects PROVE FlushedChange'
  <2>1. change \in removals BY <1>1, <1>14 DEF Planned, PlannedRemoval
  <2>2. <<change[1], change[2]>> \in FlushedKeys BY <1>14 DEF FlushedKeys, KeysWithout
  <2>3. Matches(change[1], change[2], ChangedEdge, change[3])
    <3>1. CASE Incoming(change[1])
      <4>1. TwoSided /\ Inverse(change[1]) \in {"a", "b"}
        BY <1>3, <1>5, <1>6, <3>1, Kinds, Directions DEF TwoSided, Inverse
      <4>2. RelationshipType(Inverse(change[1])) = RelationshipType(change[1])
        BY <1>3, <1>6, <4>1, Directions DEF Inverse
      <4> QED BY <3>1, <4>2 DEF Matches, ChangedEdge, Edge
    <3>2. CASE ~Incoming(change[1]) BY <3>2 DEF Matches, Outgoing, ChangedEdge, Edge
    <3> QED BY <3>1, <3>2
  <2>4. Deleted(ChangedEdge) BY <1>5, <2>1, <2>2, <2>3 DEF Deleted
  <2>5. ChangedEdge \notin graph' BY <1>2, <2>4
  <2> QED BY <1>1, <1>12, <1>14, <2>5 DEF FlushedChange
<1> QED BY <1>8, <1>9, <1>10, <1>11, <1>13, <1>14

LEMMA LinkStutter == LinkInv /\ UNCHANGED vars => LinkInv'
<1> SUFFICES ASSUME LinkInv, UNCHANGED vars PROVE LinkInv' OBVIOUS
<1> USE DEF LinkInv, vars
<1>1. \A z, w : Read(z, w)' = Read(z, w) BY Fixed DEF Read
<1>2. TypeOK' BY Fixed DEF TypeOK
<1>3. Shaped' BY Fixed DEF Shaped
<1>4. FlushedKeys' = FlushedKeys
  <2>1. \A z, v, w : Flushed(z, v, w)' = Flushed(z, v, w) BY Fixed DEF Flushed, Keys
  <2> QED BY <2>1 DEF FlushedKeys, KeysWithout
<1>5. Opposite' = Opposite BY DEF Opposite
<1>6. \A q : PlannedInsert(q)' = PlannedInsert(q) BY <1>1, <1>4, <1>5, Fixed DEF PlannedInsert
<1>7. \A z, v, w : Adopts(z, v, w)' = Adopts(z, v, w) BY <1>1 DEF Adopts
<1>8. PlannedConnection' = PlannedConnection BY <1>5, <1>7, Fixed DEF PlannedConnection
<1>9. PlannedRemoval' = PlannedRemoval BY <1>1, Fixed DEF PlannedRemoval
<1>10. Planned' BY <1>6, <1>8, <1>9, Fixed DEF Planned
<1>11. ChangeOK' /\ FlushedChange' BY Fixed DEF ChangeOK, FlushedChange, ChangedEdge, Edge
<1> QED BY <1>2, <1>3, <1>10, <1>11

LEMMA LinkInvariant == ASSUME AllSound PROVE Spec => []LinkInv
<1>1. Init => LinkInv BY LinkInit
<1>2. LinkInv /\ [Next]_vars => LinkInv'
  BY LinkConnect, LinkDisconnect, LinkFlush, LinkStutter DEF Next, LinkInv, TypeOK
<1> QED BY <1>1, <1>2, PTL DEF Spec

-----------------------------------------------------------------------------
(***************************************************************************)
(* A to-one has one value, unless a new parent adopts a child.             *)
(***************************************************************************)

\* One parent for a child; one target for each to-one of an instance.
SingleEdges ==
    \A r1, r2 \in graph :
        /\ mapping.kind = "oneToMany" /\ r1.to = r2.to => r1.from = r2.from
        /\ mapping.kind \in {"toOne", "oneToOne"} /\ r1.type = r2.type /\ r1.from = r2.from
              => r1.to = r2.to

\* In a one-to-many all entries of the queue are of one parent.
LEMMA OneParent ==
    ASSUME LinkInv, AllSound, Flush, connects, mapping.kind = "oneToMany"
    PROVE  LET p == IF change[1] = "a" THEN change[2] ELSE change[3]
               c == IF change[1] = "a" THEN change[3] ELSE change[2]
           IN /\ FlushedKeys = {<<"a", p>>}
              /\ \A q \in queue : /\ q[1] = "a" /\ q[2] = p
                                 /\ (q[3] = c \/ Edge("a", p, q[3]) \in graph)
              /\ <<"a", p>> \notin Updates => p \notin stored \/ c \notin stored
<1> DEFINE p == IF change[1] = "a" THEN change[2] ELSE change[3]
           c == IF change[1] = "a" THEN change[3] ELSE change[2]
<1>1. mapping \in Mapping /\ Bidirectional BY DEF LinkInv, TypeOK, Bidirectional
<1>2. ~Incoming("a") /\ Incoming("b") /\ Class("b") = "ManyToOne" /\ Side = {"a", "b"}
  BY <1>1, Kinds, Directions
<1>3. change[1] \in {"a", "b"} BY <1>2 DEF LinkInv, Planned, Flush
<1>4. Inverse("a") = "b" /\ Inverse("b") = "a" BY DEF Inverse
<1>5. \A o, v : Keys("a", o, v) = {<<"a", o>>} /\ Keys("b", o, v) = {<<"a", v>>}
  BY <1>1, <1>2, <1>4 DEF Keys
<1>6. FlushedKeys = {<<"a", p>>} BY <1>1, <1>3, <1>4, <1>5 DEF FlushedKeys, Flushed
<1>7. ASSUME NEW q \in queue PROVE q[1] = "a" /\ q[2] = p /\ (q[3] = c \/ Edge("a", p, q[3]) \in graph)
  <2>1. PlannedInsert(q) BY DEF LinkInv, Planned, Flush
  <2>2. q[1] = "a" /\ q[2] = p
    <3>1. <<q[1], q[2]>> \in {<<"a", p>>} BY <1>6, <2>1 DEF PlannedInsert
    <3> QED BY <3>1
  <2>3. CASE q = change BY <1>3, <2>2, <2>3
  <2>4. CASE q = Opposite
    <3>1. q[1] = Inverse(change[1]) /\ q[3] = change[2] BY <2>4 DEF Opposite
    <3> QED BY <1>3, <1>4, <2>2, <3>1
  <2> QED BY <2>2, <2>3, <2>4, FlushedEdge
<1>8. <<"a", p>> \notin Updates => p \notin stored \/ c \notin stored
  BY <1>3, <1>4, <1>6 DEF Updates, FlushedByInserts
<1> QED BY <1>6, <1>7, <1>8

\* A to-one that is written belongs to the instance that flushes it.
LEMMA OwnKey ==
    ASSUME LinkInv, AllSound, Flush, connects, mapping.kind \in {"toOne", "oneToOne"},
           NEW q \in queue, q[2] \in stored
    PROVE  <<q[1], q[2]>> \in Updates /\ q \in {change, Opposite}
<1>1. mapping \in Mapping BY DEF LinkInv, TypeOK
<1>2. PlannedInsert(q) BY DEF LinkInv, Planned, Flush
<1>3. \A s \in Side : ~Incoming(s) /\ ~ToMany(s) BY <1>1, Kinds, Directions DEF ToMany
<1>4. \A s \in Side : \A o, v : Keys(s, o, v) = {<<s, o>>} BY <1>3 DEF Keys
<1>5. change[1] \in Side /\ (Bidirectional => Inverse(change[1]) \in Side)
  BY DEF LinkInv, Planned, Flush, Side, Inverse
<1>6. q \in {change, Opposite} BY <1>2, <1>3 DEF PlannedInsert
<1>7. <<q[1], q[2]>> \in FlushedKeys BY <1>2 DEF PlannedInsert
<1>8. <<q[1], q[2]>> \notin FlushedByInserts(change[1], change[2], change[3])
  <2>1. ASSUME <<q[1], q[2]>> = <<change[1], change[2]>>, change[2] \notin stored PROVE FALSE
    BY <2>1
  <2>2. ASSUME <<q[1], q[2]>> = <<Inverse(change[1]), change[3]>>, change[3] \notin stored PROVE FALSE
    BY <2>2
  <2> QED BY <1>4, <1>5, <2>1, <2>2 DEF FlushedByInserts
<1> QED BY <1>6, <1>7, <1>8 DEF Updates

\* A flush deletes what the new edge would compete with.
LEMMA Competitor ==
    ASSUME LinkInv, AllSound, ~AdoptByNew, SingleEdges, Flush, connects, NEW r \in Kept,
           NEW q \in queue
    PROVE  /\ mapping.kind = "oneToMany" /\ r.to = q[3] => r.from = q[2]
           /\ mapping.kind \in {"toOne", "oneToOne"} /\ r.type = RelationshipType(q[1])
                 /\ r.from = q[2] => r.to = q[3]
<1>0. mapping \in Mapping /\ r \in graph BY DEF LinkInv, TypeOK, Kept
<1>1. r.from \in stored /\ r.to \in stored BY <1>0 DEF LinkInv, TypeOK
<1>2. PICK w \in Side : /\ ~Incoming(w) /\ r.type = RelationshipType(w)
                       /\ r.from \in End(w) /\ r.to \in End(Inverse(w))
  BY <1>0 DEF LinkInv, Shaped
<1>3. r = Edge(w, r.from, r.to)
  <2>1. Matches(w, r.from, r, r.to) BY <1>2 DEF Matches, Outgoing
  <2> QED BY <1>0, <1>2, <2>1, MatchesEdge DEF LinkInv
<1>4. PlannedInsert(q) BY DEF LinkInv, Planned, Flush
<1>5. \A k \in Updates : r \notin Previous(k) BY DEF Kept
<1>6. ASSUME mapping.kind = "oneToMany", r.to = q[3] PROVE r.from = q[2]
  <2> DEFINE p == IF change[1] = "a" THEN change[2] ELSE change[3]
             c == IF change[1] = "a" THEN change[3] ELSE change[2]
  <2>1. q[1] = "a" /\ q[2] = p /\ (q[3] = c \/ Edge("a", p, q[3]) \in graph)
    BY <1>6, OneParent
  <2>2. <<"a", p>> \notin Updates => p \notin stored \/ c \notin stored BY <1>6, OneParent
  <2>3. /\ ~Incoming("a") /\ Incoming("b") /\ Class("a") = "OneToMany" /\ Bidirectional
        /\ Side = {"a", "b"} /\ Inverse("a") = "b" /\ Inverse("b") = "a"
    BY <1>0, <1>6, Kinds, Directions DEF Bidirectional, Inverse
  <2>4. w = "a" BY <1>2, <2>3
  <2>5. CASE Edge("a", p, q[3]) \in graph
    <3>1. Edge("a", p, q[3]).to = q[3] /\ Edge("a", p, q[3]).from = p BY DEF Edge
    <3> QED BY <1>0, <1>6, <2>1, <2>5, <3>1 DEF SingleEdges
  <2>6. CASE <<"a", p>> \in Updates
    <3>1. q[3] \in Targets(<<"a", p>>)
      <4>1. q \in Side \X Node \X Node BY DEF LinkInv, TypeOK
      <4>2. q = <<"a", p, q[3]>> /\ q[3] \in Node BY <2>1, <4>1
      <4> QED BY <4>2 DEF Targets
    <3>2. Matches("a", r.from, r, q[3]) BY <1>2, <1>6, <2>3, <2>4 DEF Matches, Outgoing
    <3>3. r \in Previous(<<"a", p>>) BY <1>0, <1>2, <2>3, <2>4, <3>1, <3>2 DEF Previous
    <3> QED BY <1>5, <2>6, <3>3
  <2>7. CASE q[3] = c /\ <<"a", p>> \notin Updates
    <3>1. p \notin stored BY <1>1, <1>6, <2>2, <2>7
    <3>2. r.from \in Read("b", c)
      <4>1. c \in Read("a", r.from) BY <1>0, <1>2, <1>3, <1>6, <2>3, <2>4, <2>7, ReadEdge DEF LinkInv
      <4> QED BY <1>2, <1>6, <2>3, <2>4, <2>7, <4>1, Mirror DEF LinkInv, TwoSided
    <3>3. Adopts(change[1], change[2], change[3]) BY <1>6, <3>1, <3>2 DEF Adopts
    <3> QED BY <3>3 DEF LinkInv, Planned, PlannedConnection, Flush
  <2> QED BY <2>1, <2>5, <2>6, <2>7
<1>7. ASSUME mapping.kind \in {"toOne", "oneToOne"}, r.type = RelationshipType(q[1]), r.from = q[2]
      PROVE  r.to = q[3]
  <2>1. <<q[1], q[2]>> \in Updates BY <1>1, <1>7, OwnKey
  <2>2. q[1] \in Side /\ q[2] \in End(q[1]) /\ ~Incoming(q[1]) BY <1>4 DEF PlannedInsert
  <2>3. Class(q[1]) = "OneToOne" BY <1>0, <1>7, <2>2, Kinds
  <2>4. q[3] \in Targets(<<q[1], q[2]>>)
    <3>1. q \in Side \X Node \X Node BY DEF LinkInv, TypeOK
    <3>2. q = <<q[1], q[2], q[3]>> /\ q[3] \in Node BY <3>1
    <3> QED BY <3>2 DEF Targets
  <2>5. r.to \in End(Inverse(q[1]))
    <3>1. CASE mapping.kind = "toOne" BY <1>0, <1>2, <2>2, <3>1, Kinds
    <3>2. CASE mapping.kind = "oneToOne"
      <4>1. ~mapping.circular BY <1>0, <3>2, Directions
      <4>2. w = q[1] BY <1>2, <1>7, <2>2, <4>1, NodeAssumption DEF End, Side
      <4> QED BY <1>2, <4>2
    <3> QED BY <1>7, <3>1, <3>2
  <2>6. Matches(q[1], q[2], r, r.to) BY <1>7, <2>2 DEF Matches, Outgoing
  <2>7. r \in Previous(<<q[1], q[2]>>) BY <1>0, <2>2, <2>3, <2>4, <2>5, <2>6 DEF Previous
  <2> QED BY <1>5, <2>1, <2>7
<1> QED BY <1>6, <1>7

LEMMA SingleFlush ==
    ASSUME LinkInv, AllSound, ~AdoptByNew, SingleEdges, Flush, connects
    PROVE  SingleEdges'
<1> DEFINE Conflict(r1, r2) ==
        \/ mapping.kind = "oneToMany" /\ r1.to = r2.to /\ r1.from # r2.from
        \/ mapping.kind \in {"toOne", "oneToOne"} /\ r1.type = r2.type /\ r1.from = r2.from
           /\ r1.to # r2.to
<1>0. mapping \in Mapping /\ mapping' = mapping BY DEF LinkInv, TypeOK, Flush
<1>1. graph' \subseteq Kept \cup {Edge(q[1], q[2], q[3]) : q \in queue} BY FlushGraph
<1>2. \A w, x, y : /\ Edge(w, x, y).type = RelationshipType(w)
                  /\ Edge(w, x, y).from = x /\ Edge(w, x, y).to = y
  BY DEF Edge
<1>3. ASSUME NEW r1 \in Kept, NEW r2 \in Kept PROVE ~Conflict(r1, r2)
  BY DEF SingleEdges, Kept
<1>4. ASSUME NEW r \in Kept, NEW q \in queue PROVE ~Conflict(r, Edge(q[1], q[2], q[3]))
  BY <1>2, <1>4, Competitor
<1>5. ASSUME NEW q1 \in queue, NEW q2 \in queue
      PROVE  ~Conflict(Edge(q1[1], q1[2], q1[3]), Edge(q2[1], q2[2], q2[3]))
  <2>1. CASE mapping.kind = "oneToMany"
    <3>1. q1[2] = q2[2] BY <2>1, OneParent
    <3> QED BY <1>2, <2>1, <3>1
  <2>2. ASSUME mapping.kind \in {"toOne", "oneToOne"}, q1[2] = q2[2] PROVE q1[3] = q2[3]
    <3>1. PlannedInsert(q1) /\ PlannedInsert(q2) BY DEF LinkInv, Planned, Flush
    <3>2. \A s \in Side : ~ToMany(s) BY <1>0, <2>2, Kinds DEF ToMany
    <3>3. q1 \in {change, Opposite} /\ q2 \in {change, Opposite} BY <3>1, <3>2 DEF PlannedInsert
    <3>4. q1[1] = q2[1]
      <4>1. CASE mapping.kind = "toOne" BY <1>0, <3>1, <4>1, Kinds DEF PlannedInsert
      <4>2. CASE mapping.kind = "oneToOne"
        <5>1. ~mapping.circular BY <1>0, <4>2, Directions
        <5>2. q1[2] \in End(q1[1]) /\ q1[2] \in End(q2[1]) /\ q1[1] \in Side /\ q2[1] \in Side
          BY <2>2, <3>1 DEF PlannedInsert
        <5> QED BY <5>1, <5>2, NodeAssumption DEF End, Side
      <4> QED BY <2>2, <4>1, <4>2
    <3>5. change[1] # Inverse(change[1]) BY DEF Inverse
    <3>6. Opposite[1] = Inverse(change[1]) BY DEF Opposite
    <3> QED BY <3>3, <3>4, <3>5, <3>6
  <2> QED BY <1>2, <2>1, <2>2
<1>6. \A r1, r2 : Conflict(r1, r2) <=> Conflict(r2, r1) OBVIOUS
<1>7. \A r1, r2 \in graph' : ~Conflict(r1, r2) BY <1>1, <1>3, <1>4, <1>5, <1>6
<1> QED BY <1>0, <1>7 DEF SingleEdges

\* What a removal records again is there already.
LEMMA RemovalFlush ==
    ASSUME LinkInv, AllSound, Flush, ~connects
    PROVE  graph' \subseteq graph
<1>1. \A q \in queue : Edge(q[1], q[2], q[3]) \in graph BY FlushedEdge
<1> QED BY <1>1, FlushGraph DEF Kept

LEMMA SingleInvariant == ASSUME AllSound, ~AdoptByNew PROVE Spec => [](LinkInv /\ SingleEdges)
<1>1. Init => SingleEdges BY DEF Init, SingleEdges
<1>2. LinkInv /\ SingleEdges /\ [Next]_vars => SingleEdges'
  <2> SUFFICES ASSUME LinkInv, SingleEdges, [Next]_vars PROVE SingleEdges' OBVIOUS
  <2>1. ASSUME NEW s \in Side, NEW x \in Node, NEW y \in Node, Connect(s, x, y) PROVE SingleEdges'
    BY <2>1 DEF Connect, SingleEdges
  <2>2. ASSUME NEW s \in Side, NEW x \in Node, NEW y \in Node, Disconnect(s, x, y) PROVE SingleEdges'
    BY <2>2 DEF Disconnect, SingleEdges
  <2>3. CASE Flush /\ connects BY <2>3, SingleFlush
  <2>4. CASE Flush /\ ~connects
    <3>1. graph' \subseteq graph /\ mapping' = mapping BY <2>4, RemovalFlush DEF Flush
    <3> QED BY <3>1 DEF SingleEdges
  <2>5. CASE UNCHANGED vars BY <2>5 DEF vars, SingleEdges
  <2> QED BY <2>1, <2>2, <2>3, <2>4, <2>5 DEF Next
<1> QED BY <1>1, <1>2, LinkInvariant, PTL DEF Spec

-----------------------------------------------------------------------------
(***************************************************************************)
(* The theorems.                                                           *)
(***************************************************************************)

\* The graph holds relationships between stored nodes, and the queue entries of the
\* association's sides, whatever is connected.
THEOREM TypeCorrect == ASSUME AllSound PROVE Spec => []TypeOK
<1>1. LinkInv => TypeOK BY DEF LinkInv
<1> QED BY <1>1, LinkInvariant, PTL

\* getRelationshipType and matchForAssociation give the two sides of a one-to-many or
\* many-to-many patterns that read the same relationships, from either end.
THEOREM SidesAgreeCorrect == ASSUME AllSound PROVE Spec => []SidesAgree
<1>1. LinkInv => SidesAgree BY Mirror DEF LinkInv, SidesAgree, TwoSided
<1> QED BY <1>1, LinkInvariant, PTL

\* A side reads what the side that writes has.
LEMMA ReadsChange ==
    ASSUME LinkInv, AllSound, change # Nothing
    PROVE  change[3] \in Read(change[1], change[2]) <=> ChangedEdge \in graph
<1>0. mapping \in Mapping BY DEF LinkInv, TypeOK
<1>1. change[1] \in Side /\ change[2] \in End(change[1]) /\ change[3] \in End(Inverse(change[1]))
  BY DEF LinkInv, ChangeOK
<1>2. CASE ~Incoming(change[1]) BY <1>1, <1>2, ReadEdge DEF LinkInv, ChangedEdge
<1>3. CASE Incoming(change[1])
  <2>1. \/ (mapping.kind = "oneToMany" /\ change[1] = "b")
        \/ (mapping.kind = "manyToMany" /\ change[1] = "a")
    BY <1>0, <1>1, <1>3, Kinds, Directions DEF Side
  <2>2. Inverse("a") = "b" /\ Inverse("b") = "a" BY DEF Inverse
  <2>3. ~Incoming(Inverse(change[1])) BY <1>0, <2>1, <2>2, Directions
  <2>4. change[2] \in Read(Inverse(change[1]), change[3]) <=> ChangedEdge \in graph
    BY <1>1, <1>3, <2>1, <2>2, <2>3, ReadEdge DEF LinkInv, ChangedEdge
  <2> QED BY <1>1, <2>1, <2>2, <2>4, Mirror DEF LinkInv, TwoSided
<1> QED BY <1>2, <1>3

\* What is connected through a side and flushed is what that side reads: a reversed
\* side leaves the recording to its inverse, and nothing falls between the two.
THEOREM ConnectedIsReadCorrect == ASSUME AllSound PROVE Spec => []ConnectedIsRead
<1>1. ASSUME LinkInv, phase = "app", connects, change = Nothing PROVE FALSE
  BY <1>1 DEF LinkInv, ChangeOK
<1>2. LinkInv => ConnectedIsRead BY <1>1, ReadsChange DEF ConnectedIsRead, LinkInv, FlushedChange
<1> QED BY <1>2, LinkInvariant, PTL

\* What is taken out of a to-one or of a collection that writes is not read any more: a
\* reversed to-one deletes by its own pattern what the other side wrote, and no entry of
\* the queue writes it again.
THEOREM DisconnectedIsGoneCorrect == ASSUME AllSound PROVE Spec => []DisconnectedIsGone
<1>1. LinkInv => DisconnectedIsGone BY ReadsChange DEF DisconnectedIsGone, LinkInv, FlushedChange
<1> QED BY <1>1, LinkInvariant, PTL

\* The flush deletes the previous parent of a child and the previous value of a to-one
\* before it writes the new one, if no instance without a node adopts a child: then
\* the row that the loader takes is the only one.
THEOREM SingleEndedCorrect == ASSUME AllSound, ~AdoptByNew PROVE Spec => []SingleEnded
<1>1. ASSUME LinkInv, SingleEdges, NEW s \in Side, ~ToMany(s), NEW x \in End(s),
             NEW y \in Read(s, x), NEW z \in Read(s, x)
      PROVE  y = z
  <2>0. mapping \in Mapping BY <1>1 DEF LinkInv, TypeOK
  <2>1. y \in End(Inverse(s)) /\ z \in End(Inverse(s)) BY DEF Read
  <2>2. CASE mapping.kind = "oneToMany"
    <3>1. s = "b" /\ ~Incoming("a") /\ Inverse("b") = "a"
      BY <1>1, <2>0, <2>2, Kinds, Directions DEF ToMany, Inverse
    <3>2. x \in Read("a", y) /\ x \in Read("a", z)
      BY <1>1, <2>1, <2>2, <3>1, Mirror DEF LinkInv, TwoSided
    <3>3. Edge("a", y, x) \in graph /\ Edge("a", z, x) \in graph
      BY <1>1, <3>1, <3>2, ReadEdge DEF LinkInv
    <3>4. Edge("a", y, x).from = Edge("a", z, x).from BY <1>1, <2>2, <3>3 DEF SingleEdges, Edge
    <3> QED BY <3>4 DEF Edge
  <2>3. CASE mapping.kind \in {"toOne", "oneToOne"}
    <3>1. ~Incoming(s) BY <2>0, <2>3, Kinds, Directions
    <3>2. Edge(s, x, y) \in graph /\ Edge(s, x, z) \in graph
      BY <1>1, <3>1, ReadEdge DEF LinkInv
    <3>3. Edge(s, x, y).to = Edge(s, x, z).to BY <1>1, <2>3, <3>2 DEF SingleEdges, Edge
    <3> QED BY <3>3 DEF Edge
  <2>4. mapping.kind \in {"oneToMany", "toOne", "oneToOne"} BY <1>1, <2>0, Kinds DEF ToMany
  <2> QED BY <2>2, <2>3, <2>4
<1>2. LinkInv /\ SingleEdges => SingleEnded BY <1>1 DEF SingleEnded
<1> QED BY <1>2, SingleInvariant, PTL

\* A flush deletes no relationship but those that the connection replaces.
LEMMA FlushReplaces ==
    ASSUME LinkInv, AllSound, SingleEdges, Flush, connects, NEW x \in End("a"),
           NEW y \in Read("a", x), y \notin Read("a", x)'
    PROVE  Replaced(x, y)
<1>0. mapping \in Mapping /\ mapping' = mapping BY DEF LinkInv, TypeOK, Flush
<1>1. PICK r \in graph : Matches("a", x, r, y) BY DEF Read
<1>2. graph' = Kept \cup {Edge(q[1], q[2], q[3]) : q \in queue}
  <2>1. removals = {} BY DEF LinkInv, Planned, PlannedConnection, Flush
  <2>2. \A e : ~Deleted(e) BY <2>1 DEF Deleted
  <2> QED BY <2>2, FlushGraph
<1>3. r \notin graph' /\ y \in End(Inverse("a")) BY <1>0, <1>1, Fixed DEF Read
<1>4. PICK k \in Updates : r \in Previous(k) BY <1>2, <1>3 DEF Kept
<1>5. k \in Flushed(change[1], change[2], change[3]) BY <1>4 DEF Updates, FlushedKeys
<1>6. change[1] \in Side /\ change[1] \in {"a", "b"} BY DEF LinkInv, Planned, Flush, Side
<1>7. Inverse("a") = "b" /\ Inverse("b") = "a" BY DEF Inverse
<1>8. CASE mapping.kind \in {"toMany", "toOne"}
  <2>1. Side = {"a"} /\ ~Bidirectional /\ ~Incoming("a") BY <1>0, <1>8, Kinds, Directions DEF Bidirectional
  <2>2. change[1] = "a" /\ k = <<"a", change[2]>> BY <1>5, <1>6, <2>1 DEF Flushed, Keys
  <2>3. Class("a") = "OneToOne" BY <1>4, <2>1, <2>2 DEF Previous
  <2>4. mapping.kind = "toOne" BY <1>0, <1>8, <2>3, Kinds
  <2>5. PICK t \in End(Inverse("a")) : Matches("a", change[2], r, t)
    BY <1>4, <2>1, <2>2 DEF Previous
  <2>6. x = change[2] BY <1>1, <2>1, <2>5 DEF Matches
  <2> QED BY <2>2, <2>4, <2>6 DEF Replaced
<1>9. CASE mapping.kind = "oneToMany"
  <2> DEFINE p == IF change[1] = "a" THEN change[2] ELSE change[3]
             c == IF change[1] = "a" THEN change[3] ELSE change[2]
  <2>1. ~Incoming("a") /\ Class("a") = "OneToMany" BY <1>0, <1>9, Kinds, Directions
  <2>2. k = <<"a", p>> BY <1>5, <1>9, OneParent DEF FlushedKeys
  <2>3. PICK f \in End("a"), t \in Targets(<<"a", p>>) : Matches("a", f, r, t)
    BY <1>4, <2>1, <2>2 DEF Previous
  <2>4. <<"a", p, t>> \in queue BY <2>3 DEF Targets
  <2>5. r.to = t /\ r.to = y BY <1>1, <2>1, <2>3 DEF Matches
  <2>6. CASE t = c BY <1>6, <1>9, <2>5, <2>6 DEF Replaced
  <2>7. CASE Edge("a", p, t) \in graph
    <3>1. Edge("a", p, t).from = p /\ Edge("a", p, t).to = t BY DEF Edge
    <3>2. r.from = p BY <1>9, <2>5, <2>7, <3>1 DEF SingleEdges
    <3>3. Matches("a", p, r, t) BY <1>1, <2>1, <2>5, <3>2 DEF Matches, Outgoing
    <3>4. r = Edge("a", p, t) BY <2>1, <3>3, MatchesEdge DEF LinkInv
    <3>5. r \in graph' BY <1>2, <2>4, <3>4
    <3> QED BY <1>3, <3>5
  <2>8. t = c \/ Edge("a", p, t) \in graph BY <1>9, <2>4, OneParent
  <2> QED BY <2>6, <2>7, <2>8
<1>10. CASE mapping.kind = "manyToMany"
  <2>1. Side = {"a", "b"} /\ \A s \in {"a", "b"} : Class(s) = "ManyToMany" BY <1>0, <1>10, Kinds
  <2>2. k[1] \in {"a", "b"} BY <1>5, <1>6, <1>7 DEF Flushed, Keys
  <2> QED BY <1>4, <2>1, <2>2 DEF Previous
<1>11. CASE mapping.kind = "oneToOne"
  <2>1. /\ Side = {"a", "b"} /\ Class("a") = "OneToOne" /\ Class("b") = "OneToOne"
        /\ ~Incoming("a") /\ ~Incoming("b") /\ ~mapping.circular
    BY <1>0, <1>11, Kinds, Directions
  <2>2. k \in {<<change[1], change[2]>>, <<Inverse(change[1]), change[3]>>}
    BY <1>5, <1>6, <1>7, <2>1 DEF Flushed, Keys
  <2>3. k[1] \in {"a", "b"} BY <1>6, <1>7, <2>2
  <2>4. PICK t \in End(Inverse(k[1])) : Matches(k[1], k[2], r, t)
    BY <1>4, <2>1, <2>3 DEF Previous
  <2>5. r.from = x /\ r.from = k[2] BY <1>1, <2>1, <2>3, <2>4 DEF Matches
  <2>6. k[2] \in End(k[1]) BY <1>6, <1>7, <2>2 DEF LinkInv, Planned, Flush
  <2>7. k[1] = "a" BY <2>1, <2>3, <2>5, <2>6, NodeAssumption DEF End
  <2>8. x = (IF change[1] = "a" THEN change[2] ELSE change[3]) BY <1>6, <1>7, <2>2, <2>5, <2>7
  <2> QED BY <1>6, <1>11, <2>8 DEF Replaced
<1> QED BY <1>0, <1>8, <1>9, <1>10, <1>11, Kinds

\* A removal deletes no relationship but its own: what it deletes before it records the
\* other elements again, it writes again.
LEMMA FlushRemoves ==
    ASSUME LinkInv, AllSound, SingleEdges, Flush, ~connects, NEW x \in End("a"),
           NEW y \in Read("a", x), y \notin Read("a", x)'
    PROVE  Replaced(x, y)
<1>0. mapping \in Mapping /\ mapping' = mapping BY DEF LinkInv, TypeOK, Flush
<1>1. PICK r \in graph : Matches("a", x, r, y) BY DEF Read
<1>2. r \notin graph' /\ y \in End(Inverse("a")) BY <1>0, <1>1, Fixed DEF Read
<1>3. /\ change[1] \in Side /\ change[1] \in {"a", "b"}
      /\ change[2] \in End(change[1]) /\ change[3] \in End(Inverse(change[1]))
      /\ change = <<change[1], change[2], change[3]>>
  BY DEF LinkInv, TypeOK, Planned, Flush, Side
<1>4. /\ removals = {change} /\ change[3] \in Read(change[1], change[2])
      /\ ToMany(change[1]) => ~Incoming(change[1])
      /\ \A q \in queue : q[1] = change[1] /\ ToMany(q[1])
  BY DEF LinkInv, Planned, PlannedRemoval, Flush
<1>5. FlushedKeys = {<<change[1], change[2]>>} BY DEF FlushedKeys, KeysWithout
<1>6. Inverse("a") = "b" /\ Inverse("b") = "a" BY DEF Inverse
<1>7. r \in Kept \cup {Edge(q[1], q[2], q[3]) : q \in queue}
  <2>1. SUFFICES ASSUME r \notin Kept PROVE \E q \in queue : r = Edge(q[1], q[2], q[3])
    OBVIOUS
  <2>2. r \in Previous(<<change[1], change[2]>>) BY <1>5, <2>1 DEF Kept, Updates
  <2> DEFINE ts == Targets(<<change[1], change[2]>>)
  <2>3. \A t \in ts : <<change[1], change[2], t>> \in queue BY DEF Targets
  <2>4. ts = {} \/ ToMany(change[1]) BY <1>4, <2>3
  <2> HIDE DEF ts
  <2>5. ~Incoming(change[1]) BY <2>2 DEF Previous
  <2>6. Class(change[1]) # "OneToOne"
    <3>1. Class(change[1]) = "OneToOne" => ~ToMany(change[1]) /\ ts # {} BY <2>2 DEF Previous, ToMany, ts
    <3> QED BY <2>4, <3>1
  <2>7. /\ Bidirectional /\ Class(change[1]) = "OneToMany"
        /\ \E f \in End(change[1]), t \in ts : Matches(change[1], f, r, t)
    BY <2>2, <2>6 DEF Previous, ts
  <2>8. mapping.kind = "oneToMany" /\ change[1] = "a"
    BY <1>0, <1>3, <2>7, Kinds DEF Bidirectional
  <2>9. PICK f \in End("a"), t \in ts : Matches("a", f, r, t) BY <2>7, <2>8
  <2>10. <<"a", change[2], t>> \in queue BY <2>3, <2>8
  <2>11. Edge("a", change[2], t) \in graph
    <3>1. \A q \in queue : Edge(q[1], q[2], q[3]) \in graph BY FlushedEdge
    <3> QED BY <2>10, <3>1
  <2>12. r.to = t /\ r.type = RelationshipType("a") BY <2>5, <2>8, <2>9 DEF Matches
  <2>13. Edge("a", change[2], t).to = t /\ Edge("a", change[2], t).from = change[2] BY DEF Edge
  <2>14. r.from = change[2] BY <2>8, <2>11, <2>12, <2>13 DEF SingleEdges
  <2>15. Matches("a", change[2], r, t) BY <2>5, <2>8, <2>12, <2>14 DEF Matches, Outgoing
  <2>16. r = Edge("a", change[2], t) BY <2>5, <2>8, <2>15, MatchesEdge DEF LinkInv
  <2> QED BY <2>10, <2>16
<1>8. Deleted(r) BY <1>2, <1>7, FlushGraph
<1>9. PICK t \in End(Inverse(change[1])) :
        Matches(change[1], change[2], r, t) /\ (~Incoming(change[1]) => t = change[3])
  BY <1>4, <1>8 DEF Deleted
<1>10. CASE change[1] = "a"
  <2>1. ~Incoming("a")
    <3>1. Incoming("a") => mapping.kind = "manyToMany" BY <1>0, Directions
    <3>2. mapping.kind = "manyToMany" => ToMany("a") BY <1>0, Kinds DEF ToMany
    <3> QED BY <1>4, <1>10, <3>1, <3>2
  <2>2. x = change[2] /\ y = change[3] BY <1>1, <1>9, <1>10, <2>1 DEF Matches
  <2> QED BY <1>10, <2>2 DEF Replaced
<1>11. CASE change[1] = "b"
  <2>1. mapping.kind \in {"oneToMany", "manyToMany", "oneToOne"} BY <1>3, <1>11 DEF Side, Bidirectional
  <2>2. <<x, y>> = <<change[3], change[2]>>
    <3>1. CASE mapping.kind = "oneToMany"
      <4>1. ~Incoming("a") /\ Outgoing("a") /\ (mapping.circular => ~Outgoing("b"))
        BY <1>0, <3>1, Directions
      <4>2. change[2] \in Read("a", change[3])
        BY <1>3, <1>4, <1>6, <1>11, <3>1, Mirror DEF LinkInv, TwoSided
      <4>3. Edge("a", change[3], change[2]) \in graph BY <4>1, <4>2, ReadEdge DEF LinkInv
      <4>4. r.from = x /\ r.to = y BY <1>1, <4>1 DEF Matches
      <4>5. r.to = change[2]
        <5>1. SUFFICES ASSUME Outgoing("b"), r.from = change[2] PROVE FALSE
          BY <1>9, <1>11 DEF Matches
        <5> QED BY <1>3, <1>11, <4>1, <4>4, <5>1, NodeAssumption DEF End
      <4>6. Edge("a", change[3], change[2]).to = change[2]
            /\ Edge("a", change[3], change[2]).from = change[3] BY DEF Edge
      <4>7. r.from = change[3] BY <3>1, <4>3, <4>5, <4>6 DEF SingleEdges
      <4> QED BY <4>4, <4>5, <4>7
    <3>2. CASE mapping.kind \in {"manyToMany", "oneToOne"}
      <4>1. ~Incoming("b") /\ ~mapping.circular BY <1>0, <3>2, Directions
      <4>2. r.from = change[2] /\ r.to = change[3] BY <1>9, <1>11, <4>1 DEF Matches
      <4>3. r.from # x BY <1>3, <1>11, <4>1, <4>2, NodeAssumption DEF End
      <4> QED BY <1>1, <4>2, <4>3 DEF Matches
    <3> QED BY <2>1, <3>1, <3>2
  <2> QED BY <1>11, <2>2 DEF Replaced
<1> QED BY <1>3, <1>10, <1>11

\* processPendingRelationshipUpdates and RelationshipPendingInsert delete by patterns
\* that span both ends: what goes is the parent of the child that moves, the value that
\* is set, or the pair that is taken apart, never a relationship of another instance or
\* of a sibling.
THEOREM OthersKeptCorrect == ASSUME AllSound, ~AdoptByNew PROVE Spec => OthersKept
<1> DEFINE Lost == \A x \in End("a") : \A y \in Read("a", x) \ Read("a", x)' : Replaced(x, y)
<1>1. LinkInv /\ SingleEdges /\ [Next]_vars => [Lost]_vars
  <2> SUFFICES ASSUME LinkInv, SingleEdges, Next PROVE Lost BY DEF vars
  <2>1. ASSUME NEW s \in Side, NEW x \in Node, NEW y \in Node, Connect(s, x, y) PROVE Lost
    <3>1. graph' = graph /\ mapping' = mapping BY <2>1 DEF Connect
    <3>2. \A w, z : Read(w, z)' = Read(w, z) BY <3>1, Fixed DEF Read
    <3> QED BY <3>2
  <2>2. ASSUME NEW s \in Side, NEW x \in Node, NEW y \in Node, Disconnect(s, x, y) PROVE Lost
    <3>1. graph' = graph /\ mapping' = mapping BY <2>2 DEF Disconnect
    <3>2. \A w, z : Read(w, z)' = Read(w, z) BY <3>1, Fixed DEF Read
    <3> QED BY <3>2
  <2>3. CASE Flush BY <2>3, FlushReplaces, FlushRemoves
  <2> QED BY <2>1, <2>2, <2>3 DEF Next
<1> QED BY <1>1, SingleInvariant, PTL DEF Spec, OthersKept
=============================================================================
