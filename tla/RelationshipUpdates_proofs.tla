----------------------- MODULE RelationshipUpdates_proofs -----------------------
(***************************************************************************)
(* Type correctness of RelationshipUpdates, and two of its action          *)
(* properties: what a commit may delete, and that the parent of a child    *)
(* stays unique.                                                           *)
(***************************************************************************)
EXTENDS RelationshipUpdates, SequenceTheorems, TLAPS

\* A dirty child has been read, so that saving it finds the parent it refers to.
DirtyRead == \A s \in Session, c \in Child : c \in ses[s].dirty => ses[s].ref[c] # Unread

TypeInv == TypeOK /\ DirtyRead

-----------------------------------------------------------------------------
(***************************************************************************)
(* What the recorded changes preserve.                                     *)
(***************************************************************************)

Read(b) == \A c \in Child : c \in b.dirty => b.ref[c] # Unread

\* d is b after changes that record no removal.
Quiet(b, d) ==
    /\ d.del = b.del /\ d.nulled = b.nulled
    /\ \A c \in Child : d.ref[c] = NoParent => b.ref[c] = NoParent

LEMMA NodeTypes == /\ \A p \in Parent : p \in Node /\ p # NoParent /\ p # Unread
                   /\ \A c \in Child : c \in Node
                   /\ NoParent # Unread
BY NullAssumption DEF Node

LEMMA BlankType == Blank \in SessionState /\ Read(Blank)
BY DEF Blank, SessionState, Read

LEMMA InsertKeeps ==
    ASSUME NEW b \in SessionState, NEW p \in Parent, NEW cs \in SUBSET Child
    PROVE  LET d == addPendingRelationshipInsert(b, p, cs) IN
           /\ d \in SessionState
           /\ d.ref = b.ref /\ d.dirty = b.dirty /\ d.del = b.del /\ d.nulled = b.nulled
<1>1. [b.ins EXCEPT ![p] = @ \cup cs] \in [Parent -> SUBSET Child]
  BY DEF SessionState
<1> QED
  BY <1>1 DEF addPendingRelationshipInsert, SessionState

LEMMA DeleteKeeps ==
    ASSUME NEW b \in SessionState, NEW p \in Parent, NEW cs \in SUBSET Child
    PROVE  LET d == addPendingRelationshipDelete(b, p, cs) IN
           /\ d \in SessionState
           /\ d.ref = b.ref /\ d.dirty = b.dirty /\ d.nulled = b.nulled
           /\ d.del = [b.del EXCEPT ![p] = @ \cup cs]
<1>1. [b.del EXCEPT ![p] = @ \cup cs] \in [Parent -> SUBSET Child]
  BY DEF SessionState
<1> QED
  BY <1>1 DEF addPendingRelationshipDelete, SessionState

LEMMA AddedKeeps ==
    ASSUME NEW b \in SessionState, Read(b), NEW p \in Parent, NEW c \in Child
    PROVE  Added(b, p, c) \in SessionState /\ Read(Added(b, p, c)) /\ Quiet(b, Added(b, p, c))
<1> DEFINE rf == IF Bidirectional THEN [b.ref EXCEPT ![c] = p] ELSE b.ref
           d == [b EXCEPT !.coll[p] = @ \cup {c}, !.dirty = @ \cup {p}, !.ref = rf]
<1>1. rf \in [Child -> Parent \cup {NoParent, Unread}]
  BY DEF SessionState
<1>2. Added(b, p, c) = addPendingRelationshipInsert(d, p, {c})
  BY DEF Added
<1>3. /\ d \in SessionState
      /\ d.ref = rf /\ d.dirty = b.dirty \cup {p} /\ d.del = b.del /\ d.nulled = b.nulled
  <2> HIDE DEF rf
  <2>1. [b.coll EXCEPT ![p] = @ \cup {c}] \in [Parent -> SUBSET Child]
    BY DEF SessionState
  <2> QED
    BY <1>1, <2>1, NodeTypes DEF SessionState
<1> HIDE DEF d
<1>4. Added(b, p, c) \in SessionState
  BY <1>2, <1>3, InsertKeeps
<1>5. /\ Added(b, p, c).ref = rf /\ Added(b, p, c).dirty = b.dirty \cup {p}
      /\ Added(b, p, c).del = b.del /\ Added(b, p, c).nulled = b.nulled
  BY <1>2, <1>3, InsertKeeps
<1>6. \A e \in Child : rf[e] = b.ref[e] \/ rf[e] = p
  BY DEF SessionState
<1>7. p \notin Child
  BY NodeAssumption
<1> QED
  BY <1>4, <1>5, <1>6, <1>7, NodeTypes DEF Read, Quiet

LEMMA RemovedKeeps ==
    ASSUME NEW b \in SessionState, Read(b), NEW p \in Parent, NEW c \in Child
    PROVE  /\ Removed(b, p, c) \in SessionState
           /\ Read(Removed(b, p, c))
           /\ Removed(b, p, c).del = [b.del EXCEPT ![p] = @ \cup {c}]
           /\ Removed(b, p, c).nulled = b.nulled
           /\ \A e \in Child : Removed(b, p, c).ref[e] = NoParent =>
                 b.ref[e] = NoParent \/ (e = c /\ Bidirectional)
<1> DEFINE rf == IF Bidirectional THEN [b.ref EXCEPT ![c] = NoParent] ELSE b.ref
           d == [b EXCEPT !.coll[p] = @ \ {c}, !.dirty = @ \cup {p}, !.ref = rf]
<1>1. rf \in [Child -> Parent \cup {NoParent, Unread}]
  BY DEF SessionState
<1>2. Removed(b, p, c) = addPendingRelationshipDelete(d, p, {c})
  BY DEF Removed
<1>3. /\ d \in SessionState
      /\ d.ref = rf /\ d.dirty = b.dirty \cup {p} /\ d.del = b.del /\ d.nulled = b.nulled
  <2> HIDE DEF rf
  <2>1. [b.coll EXCEPT ![p] = @ \ {c}] \in [Parent -> SUBSET Child]
    BY DEF SessionState
  <2> QED
    BY <1>1, <2>1, NodeTypes DEF SessionState
<1> HIDE DEF d
<1> HIDE DEF rf
<1>4. {c} \in SUBSET Child
  OBVIOUS
<1>5. /\ Removed(b, p, c) \in SessionState
      /\ Removed(b, p, c).ref = rf /\ Removed(b, p, c).dirty = b.dirty \cup {p}
      /\ Removed(b, p, c).del = [b.del EXCEPT ![p] = @ \cup {c}]
      /\ Removed(b, p, c).nulled = b.nulled
  BY <1>2, <1>3, <1>4, DeleteKeeps
<1>6. \A e \in Child : rf[e] = b.ref[e] \/ (rf[e] = NoParent /\ e = c /\ Bidirectional)
  BY DEF SessionState, rf
<1>7. p \notin Child
  BY NodeAssumption
<1> QED
  BY <1>5, <1>6, <1>7, NodeTypes DEF Read

LEMMA InitialisedKeeps ==
    ASSUME NEW b \in SessionState, Read(b), NEW seen, NEW p \in Parent, NEW kept \in BOOLEAN
    PROVE  LET d == Initialised(b, seen, p, kept) IN
           d \in SessionState /\ Read(d) /\ Quiet(b, d) /\ p \in d.loaded
<1> DEFINE es == {c \in Child : <<p, c>> \in seen}
           known == {c \in es : b.ref[c] # Unread}
           adopted == IF Bidirectional THEN (IF kept THEN es \ known ELSE es) ELSE {}
           rf == [c \in Child |-> IF c \in adopted THEN p ELSE b.ref[c]]
           d == Initialised(b, seen, p, kept)
<1>1. rf \in [Child -> Parent \cup {NoParent, Unread}]
  BY DEF SessionState
<1>2. d = [b EXCEPT !.loaded = @ \cup {p}, !.coll[p] = es, !.ref = rf]
  BY DEF Initialised
<1> HIDE DEF d, rf
<1>3. d \in SessionState
  BY <1>1, <1>2 DEF SessionState
<1>4. d.ref = rf /\ d.dirty = b.dirty /\ d.del = b.del /\ d.nulled = b.nulled /\ p \in d.loaded
  BY <1>2 DEF SessionState
<1>5. \A e \in Child : rf[e] = b.ref[e] \/ rf[e] = p
  BY DEF rf
<1>6. Read(d) /\ Quiet(b, d)
  BY <1>4, <1>5, NodeTypes DEF Read, Quiet
<1> QED
  BY <1>3, <1>4, <1>6 DEF d

LEMMA SavedParentKeeps ==
    ASSUME NEW b \in SessionState, Read(b), NEW p \in Parent
    PROVE  SavedParent(b, p) \in SessionState /\ Read(SavedParent(b, p)) /\ Quiet(b, SavedParent(b, p))
<1> DEFINE es == IF Bidirectional THEN b.coll[p] ELSE {}
           rf == [c \in Child |-> IF c \in es THEN p ELSE b.ref[c]]
           d == [b EXCEPT !.ref = rf, !.parented = @ \cup (es \ b.dirty),
                          !.dirty = @ \cup es, !.upd = @ \cup {p} \cup es]
<1>1. es \subseteq Child /\ rf \in [Child -> Parent \cup {NoParent, Unread}]
  BY DEF SessionState
<1>2. SavedParent(b, p) = addPendingRelationshipInsert(d, p, b.coll[p])
  BY DEF SavedParent
<1>3. \A e \in Child : rf[e] = (IF e \in es THEN p ELSE b.ref[e])
  OBVIOUS
<1> HIDE DEF rf, es
<1>4. /\ d \in SessionState
      /\ d.ref = rf /\ d.dirty = b.dirty \cup es /\ d.del = b.del /\ d.nulled = b.nulled
  BY <1>1, NodeTypes DEF SessionState
<1> HIDE DEF d
<1>5. b.coll[p] \in SUBSET Child
  BY DEF SessionState
<1>6. /\ SavedParent(b, p) \in SessionState
      /\ SavedParent(b, p).ref = rf /\ SavedParent(b, p).dirty = b.dirty \cup es
      /\ SavedParent(b, p).del = b.del /\ SavedParent(b, p).nulled = b.nulled
  BY <1>2, <1>4, <1>5, InsertKeeps
<1> QED
  BY <1>3, <1>6, NodeTypes DEF Read, Quiet

\* Saving a child whose to-one is null records the removal only here.
LEMMA SavedChildKeeps ==
    ASSUME NEW b \in SessionState, Read(b), NEW seen, NEW c \in Child, NEW kept \in BOOLEAN,
           c \in b.dirty
    PROVE  LET d == SavedChild(b, seen, c, kept) IN
           /\ d \in SessionState /\ Read(d)
           /\ \/ Quiet(b, d)
              \/ /\ b.ref[c] = NoParent
                 /\ d.del = b.del /\ d.ref = b.ref /\ d.nulled = b.nulled \cup {c}
<1> DEFINE q == b.ref[c]
           registered == [b EXCEPT !.upd = @ \cup {c}]
           loaded == IF q \in b.loaded THEN registered ELSE Initialised(registered, seen, q, kept)
           joined == IF c \in loaded.coll[q] THEN loaded ELSE Added(loaded, q, c)
           saved == SavedIfChanged(joined, q)
           d == SavedChild(b, seen, c, kept)
<1>1. /\ registered \in SessionState /\ Read(registered) /\ Quiet(b, registered)
      /\ registered.ref = b.ref /\ registered.dirty = b.dirty
      /\ registered.del = b.del /\ registered.nulled = b.nulled
  BY NodeTypes DEF SessionState, Read, Quiet
<1>2. CASE q = NoParent
  <2>1. d = [registered EXCEPT !.nulled = IF c \in b.parented THEN @ \cup {c} ELSE @]
    BY <1>2 DEF SavedChild
  <2> HIDE DEF d, registered
  <2>2. d \in SessionState
    BY <1>1, <2>1 DEF SessionState
  <2>3. d.ref = b.ref /\ d.dirty = b.dirty /\ d.del = b.del
    BY <1>1, <2>1 DEF SessionState
  <2>4. d.nulled = b.nulled \/ d.nulled = b.nulled \cup {c}
    BY <1>1, <2>1 DEF SessionState
  <2> QED
    BY <1>2, <2>2, <2>3, <2>4 DEF Read, Quiet, d
<1>3. CASE q # NoParent
  <2>1. q \in Parent
    BY <1>3 DEF SessionState, Read
  <2>2. loaded \in SessionState /\ Read(loaded) /\ Quiet(registered, loaded)
    <3>1. CASE q \in b.loaded
      BY <1>1, <3>1 DEF Quiet
    <3>2. CASE q \notin b.loaded
      BY <1>1, <2>1, <3>2, InitialisedKeeps
    <3> QED
      BY <3>1, <3>2
  <2> HIDE DEF loaded
  <2>3. joined \in SessionState /\ Read(joined) /\ Quiet(loaded, joined)
    <3>1. CASE c \in loaded.coll[q]
      BY <2>2, <3>1 DEF Quiet
    <3>2. CASE c \notin loaded.coll[q]
      BY <2>1, <2>2, <3>2, AddedKeeps
    <3> QED
      BY <3>1, <3>2
  <2> HIDE DEF joined
  <2>4. saved \in SessionState /\ Read(saved) /\ Quiet(joined, saved)
    <3>1. CASE shouldIgnore(joined, q)
      BY <2>3, <3>1 DEF SavedIfChanged, Quiet
    <3>2. CASE ~shouldIgnore(joined, q)
      BY <2>1, <2>3, <3>2, SavedParentKeeps DEF SavedIfChanged
    <3> QED
      BY <3>1, <3>2
  <2>5. d = addPendingRelationshipInsert(saved, q, {c})
    BY <1>3 DEF SavedChild, loaded, joined
  <2> HIDE DEF saved, registered
  <2>6. d \in SessionState
    BY <2>1, <2>4, <2>5, InsertKeeps
  <2>7. d.ref = saved.ref /\ d.dirty = saved.dirty /\ d.del = saved.del /\ d.nulled = saved.nulled
    BY <2>1, <2>4, <2>5, InsertKeeps
  <2>8. Quiet(b, d)
    BY <1>1, <2>2, <2>3, <2>4, <2>7 DEF Quiet
  <2> QED
    BY <2>4, <2>6, <2>7, <2>8 DEF Read
<1> QED
  BY <1>2, <1>3

LEMMA FlushedKeyKeeps ==
    ASSUME NEW b \in SessionState, Read(b), NEW p \in Parent, NEW x
    PROVE  LET d == Tracked([b EXCEPT !.ins[p] = {}, !.del[p] = {}], x) IN
           /\ d \in SessionState /\ Read(d)
           /\ d.ref = b.ref /\ d.nulled = b.nulled /\ d.del = [b.del EXCEPT ![p] = {}]
<1> DEFINE e == [b EXCEPT !.ins[p] = {}, !.del[p] = {}]
           d == Tracked(e, x)
<1>1. /\ [b.ins EXCEPT ![p] = {}] \in [Parent -> SUBSET Child]
      /\ [b.del EXCEPT ![p] = {}] \in [Parent -> SUBSET Child]
  BY DEF SessionState
<1>2. /\ e \in SessionState
      /\ e.ref = b.ref /\ e.dirty = b.dirty /\ e.nulled = b.nulled /\ e.del = [b.del EXCEPT ![p] = {}]
  BY <1>1 DEF SessionState
<1> HIDE DEF e
<1>3. /\ d \in SessionState
      /\ d.ref = e.ref /\ d.dirty = e.dirty \ {x} /\ d.nulled = e.nulled /\ d.del = e.del
  BY <1>2 DEF SessionState, Tracked
<1>4. Read(d)
  BY <1>2, <1>3 DEF Read
<1> QED
  BY <1>2, <1>3, <1>4 DEF e

LEMMA FlushedNullKeeps ==
    ASSUME NEW b \in SessionState, Read(b), NEW x
    PROVE  LET d == Tracked([b EXCEPT !.nulled = b.nulled \ {x}], x) IN
           /\ d \in SessionState /\ Read(d)
           /\ d.ref = b.ref /\ d.nulled = b.nulled \ {x} /\ d.del = b.del
BY DEF SessionState, Tracked, Read

LEMMA ClearedKeeps ==
    ASSUME NEW b \in SessionState, Read(b)
    PROVE  /\ Cleared(b) \in SessionState /\ Read(Cleared(b))
           /\ Cleared(b).ref = b.ref /\ Cleared(b).nulled = {}
           /\ Cleared(b).del = [p \in Parent |-> {}]
BY DEF SessionState, Cleared, Read

LEMMA StatementTypes ==
    ASSUME NEW b \in SessionState, NEW p \in Parent
    PROVE  KeyStatements(b, p) \in Seq(StatementType)
<1>1. \A op \in {"previous", "merge", "delete"}, cs \in SUBSET Child :
         Statement(op, p, cs) \in StatementType
  BY DEF Statement, StatementType
<1>2. b.ins[p] \in SUBSET Child /\ b.del[p] \in SUBSET Child
  BY DEF SessionState
<1>3. InsertStatements(p, b.ins[p]) \in Seq(StatementType)
  BY <1>1, <1>2 DEF InsertStatements
<1>4. <<Statement("delete", p, b.del[p])>> \in Seq(StatementType)
  BY <1>1, <1>2
<1> HIDE DEF StatementType
<1> QED
  BY <1>3, <1>4 DEF KeyStatements

-----------------------------------------------------------------------------
(***************************************************************************)
(* Type correctness.                                                       *)
(***************************************************************************)

LEMMA TypeInit == Init => TypeInv
<1> SUFFICES ASSUME Init PROVE TypeInv
  OBVIOUS
<1>1. NoHistory \in History
  BY DEF NoHistory, History
<1>2. Untouched \in [Rel -> {"none", "there", "gone"}]
  BY DEF Untouched
<1>3. ses \in [Session -> SessionState] /\ hist \in [Session -> History]
  BY <1>1, BlankType DEF Init
<1>4. DirtyRead
  BY BlankType DEF Init, DirtyRead, Read
<1> QED
  BY <1>2, <1>3, <1>4 DEF Init, TypeInv, TypeOK

LEMMA SessionRead == ASSUME TypeInv, NEW s \in Session PROVE ses[s] \in SessionState /\ Read(ses[s])
BY DEF TypeInv, TypeOK, DirtyRead, Read

LEMMA UpdateType ==
    ASSUME TypeInv, NEW s \in Session, NEW b \in SessionState, Read(b), Update(s, b),
           hist' \in [Session -> History]
    PROVE  TypeInv'
<1>1. ses' \in [Session -> SessionState]
  BY DEF TypeInv, TypeOK, Update
<1>2. DirtyRead'
  <2> SUFFICES ASSUME NEW o \in Session, NEW c \in Child, c \in ses'[o].dirty
               PROVE  ses'[o].ref[c] # Unread
    BY DEF DirtyRead
  <2>1. ses' = [ses EXCEPT ![s] = b] /\ ses \in [Session -> SessionState]
    BY DEF Update, TypeInv, TypeOK
  <2>2. CASE o = s
    BY <2>1, <2>2 DEF Read
  <2>3. CASE o # s
    BY <2>1, <2>3 DEF TypeInv, DirtyRead
  <2> QED
    BY <2>2, <2>3
<1> QED
  BY <1>1, <1>2 DEF TypeInv, TypeOK, Update, dbVars

LEMMA RecordedType ==
    ASSUME TypeInv, NEW s \in Session, NEW rs \in SUBSET Rel, NEW cs \in SUBSET Child,
           Recorded(s, rs, cs)
    PROVE  /\ hist' \in [Session -> History] /\ hist'[s].removed = hist[s].removed \cup rs
           /\ hist'[s].raced = hist[s].raced
           /\ \A o \in Session \ {s} : hist'[o] = hist[o]
<1> DEFINE h == hist[s]
           k == [h EXCEPT !.removed = h.removed \cup rs, !.again = h.again \cup cs,
                          !.calls = h.calls + 1]
<1>1. hist \in [Session -> History] /\ h \in History
  BY DEF TypeInv, TypeOK
<1>2. hist' = [hist EXCEPT ![s] = k]
  BY DEF Recorded
<1>3. k \in History /\ k.removed = h.removed \cup rs /\ k.raced = h.raced
  <2> HIDE DEF h
  <2>1. /\ h.removed \cup rs \in SUBSET Rel /\ h.again \cup cs \in SUBSET Child
        /\ h.calls + 1 \in Nat
    BY <1>1 DEF History
  <2> QED
    BY <1>1, <2>1 DEF History
<1> HIDE DEF k
<1> QED
  BY <1>1, <1>2, <1>3

LEMMA RepeatsType == \A s, c, again : c \in Child => Repeats(s, c, again) \in SUBSET Child
BY DEF Repeats

LEMMA IdleType ==
    ASSUME TypeInv, NEW s \in Session, Idle(s), hist' \in [Session -> History],
           graph' \subseteq Rel, UNCHANGED kind
    PROVE  TypeInv'
<1>1. Untouched \in [Rel -> {"none", "there", "gone"}]
  BY DEF Untouched
<1>2. own' \in [Session -> [Rel -> {"none", "there", "gone"}]] /\ ses' \in [Session -> SessionState]
  BY <1>1, BlankType DEF TypeInv, TypeOK, Idle
<1>3. DirtyRead'
  BY BlankType DEF TypeInv, TypeOK, DirtyRead, Idle, Read
<1> QED
  BY <1>2, <1>3 DEF TypeInv, TypeOK, Idle

\* d is b after a change, when the application has removed rs so far.
Follows(b, d, rs) ==
    /\ \A p \in Parent : \A c \in d.del[p] : c \in b.del[p] \/ <<p, c>> \in rs
    /\ \A c \in d.nulled : c \in b.nulled \/ b.ref[c] = NoParent
    /\ \A c \in Child :
          d.ref[c] = NoParent =>
             b.ref[c] = NoParent \/ (Bidirectional /\ \E p \in Parent : <<p, c>> \in rs)

\* A step of the application that changes instances and queues only.
Changes(s) ==
    \/ \E p \in Parent, kept \in BOOLEAN : Load(s, p, kept)
    \/ \E p \in Parent, c \in Child : addTo(s, p, c) \/ removeFrom(s, p, c)
    \/ \E c \in Child, q \in Parent \cup {NoParent} : SetParent(s, c, q)
    \/ \E x \in Node, kept \in BOOLEAN : Save(s, x, kept)

Changing(s, b) ==
    /\ b \in SessionState /\ Read(b) /\ Update(s, b)
    /\ hist' \in [Session -> History]
    /\ \A o \in Session \ {s} : hist'[o] = hist[o]
    /\ hist[s].removed \subseteq hist'[s].removed /\ hist'[s].raced = hist[s].raced
    /\ Follows(ses[s], b, hist'[s].removed)

LEMMA QuietFollows == \A b, d, rs : Quiet(b, d) => Follows(b, d, rs)
BY DEF Quiet, Follows

LEMMA SetParentFollows ==
    ASSUME TypeInv, NEW s \in Session, NEW c \in Child, NEW q \in Parent \cup {NoParent},
           SetParent(s, c, q)
    PROVE  \E b : Changing(s, b)
<1> DEFINE v == ses[s]
           old == IF v.ref[c] # Unread THEN {v.ref[c]}
                  ELSE IF ParentsOf(c, Visible(s)) = {} THEN {NoParent} ELSE ParentsOf(c, Visible(s))
           b(p) == [v EXCEPT !.ref[c] = q, !.dirty = @ \cup {c},
                             !.parented = IF p # NoParent /\ c \notin v.dirty THEN @ \cup {c} ELSE @]
<1>1. PICK p \in old \ {q} :
        /\ Update(s, b(p))
        /\ Recorded(s, ({p} \ {NoParent}) \X {c},
                    Repeats(s, c, \/ c \in v.upd \/ ConnectsAgain(v, q, c) \/ RemovesAgain(s, p, c)))
  BY DEF SetParent
<1>2. v \in SessionState /\ Read(v)
  BY SessionRead
<1>3. p \in Parent \cup {NoParent} /\ p # q /\ Bidirectional
  BY <1>1, <1>2 DEF SetParent, SessionState, ParentsOf
<1> HIDE DEF v, old
<1>4. /\ b(p) \in SessionState /\ b(p).del = v.del /\ b(p).nulled = v.nulled
      /\ b(p).dirty = v.dirty \cup {c} /\ b(p).ref = [v.ref EXCEPT ![c] = q]
  <2>1. [v.ref EXCEPT ![c] = q] \in [Child -> Parent \cup {NoParent, Unread}]
    BY <1>2 DEF SessionState
  <2> DEFINE rf == [v.ref EXCEPT ![c] = q]
             dt == v.dirty \cup {c}
             pt == IF p # NoParent /\ c \notin v.dirty THEN v.parented \cup {c} ELSE v.parented
  <2>2. b(p) = [v EXCEPT !.ref = rf, !.dirty = dt, !.parented = pt]
    BY <1>2 DEF SessionState
  <2>3. dt \in SUBSET Node /\ pt \in SUBSET Child
    BY <1>2, NodeTypes DEF SessionState
  <2> HIDE DEF b, rf, pt, dt
  <2>4. b(p) \in SessionState /\ b(p).del = v.del /\ b(p).nulled = v.nulled
        /\ b(p).dirty = dt /\ b(p).ref = rf
    BY <1>2, <2>1, <2>2, <2>3 DEF SessionState, rf
  <2> QED
    BY <2>4 DEF dt, rf
<1>5. Read(b(p))
  BY <1>2, <1>4, NodeTypes DEF Read, SessionState
<1> HIDE DEF b
<1>6. ({p} \ {NoParent}) \X {c} \in SUBSET Rel
  BY <1>3 DEF Rel
<1>7. /\ hist' \in [Session -> History] /\ \A o \in Session \ {s} : hist'[o] = hist[o]
      /\ hist'[s].removed = hist[s].removed \cup (({p} \ {NoParent}) \X {c})
      /\ hist'[s].raced = hist[s].raced
  BY <1>1, <1>6, RecordedType, RepeatsType
<1>8. Follows(v, b(p), hist'[s].removed)
  <2>1. q = NoParent => p \in Parent /\ <<p, c>> \in hist'[s].removed
    BY <1>3, <1>7, NodeTypes
  <2>2. \A e \in Child : b(p).ref[e] = v.ref[e] \/ (e = c /\ b(p).ref[e] = q)
    BY <1>2, <1>4 DEF SessionState
  <2> QED
    BY <1>3, <1>4, <2>1, <2>2 DEF Follows
<1> QED
  BY <1>1, <1>4, <1>5, <1>7, <1>8 DEF Changing, v

LEMMA ChangesFollow ==
    ASSUME TypeInv, NEW s \in Session, Changes(s)
    PROVE  \E b : Changing(s, b)
<1> DEFINE v == ses[s]
<1>1. v \in SessionState /\ Read(v) /\ hist \in [Session -> History]
  BY SessionRead DEF TypeInv, TypeOK
<1>2. ASSUME NEW p \in Parent, NEW kept \in BOOLEAN, Load(s, p, kept)
      PROVE  \E b : Changing(s, b)
  <2>1. Update(s, Initialised(v, Visible(s), p, kept)) /\ hist' = hist
    BY <1>2 DEF Load
  <2> QED
    BY <1>1, <1>2, <2>1, InitialisedKeeps, QuietFollows DEF Changing
<1>3. ASSUME NEW p \in Parent, NEW c \in Child, addTo(s, p, c)
      PROVE  \E b : Changing(s, b)
  <2>1. Update(s, Added(v, p, c)) /\ Recorded(s, {}, Repeats(s, c, ConnectsAgain(v, p, c)))
    BY <1>3 DEF addTo
  <2>2. {} \in SUBSET Rel
    OBVIOUS
  <2>3. /\ hist' \in [Session -> History] /\ \A o \in Session \ {s} : hist'[o] = hist[o]
        /\ hist'[s].removed = hist[s].removed \cup {} /\ hist'[s].raced = hist[s].raced
    BY <2>1, <2>2, RecordedType, RepeatsType
  <2> QED
    BY <1>1, <2>1, <2>3, AddedKeeps, QuietFollows DEF Changing
<1>4. ASSUME NEW p \in Parent, NEW c \in Child, removeFrom(s, p, c)
      PROVE  \E b : Changing(s, b)
  <2>1. Update(s, Removed(v, p, c)) /\ Recorded(s, {<<p, c>>}, Repeats(s, c, RemovesAgain(s, p, c)))
    BY <1>4 DEF removeFrom
  <2>2. {<<p, c>>} \in SUBSET Rel
    BY DEF Rel
  <2>3. /\ hist' \in [Session -> History] /\ \A o \in Session \ {s} : hist'[o] = hist[o]
        /\ hist'[s].removed = hist[s].removed \cup {<<p, c>>}
        /\ hist'[s].raced = hist[s].raced
    BY <2>1, <2>2, RecordedType, RepeatsType
  <2>4. v.del \in [Parent -> SUBSET Child]
    BY <1>1 DEF SessionState
  <2> DEFINE d == Removed(v, p, c)
  <2>5. /\ d \in SessionState /\ Read(d)
        /\ d.del = [v.del EXCEPT ![p] = @ \cup {c}] /\ d.nulled = v.nulled
        /\ \A e \in Child : d.ref[e] = NoParent => v.ref[e] = NoParent \/ (e = c /\ Bidirectional)
    BY <1>1, RemovedKeeps
  <2> HIDE DEF d, v
  <2>6. \A q \in Parent : \A e \in d.del[q] : e \in v.del[q] \/ <<q, e>> = <<p, c>>
    BY <2>4, <2>5
  <2>7. <<p, c>> \in hist'[s].removed
    BY <2>3
  <2>8. Follows(v, d, hist'[s].removed)
    BY <2>5, <2>6, <2>7 DEF Follows
  <2> QED
    BY <1>1, <2>1, <2>3, <2>5, <2>8 DEF Changing, v, d
<1>5. ASSUME NEW x \in Node, NEW kept \in BOOLEAN, Save(s, x, kept)
      PROVE  \E b : Changing(s, b)
  <2>1. hist' = hist /\ x \in v.dirty
    BY <1>5 DEF Save, shouldIgnore
  <2>2. CASE x \in Parent
    <3>1. Update(s, SavedParent(v, x))
      BY <1>5, <2>2 DEF Save
    <3> QED
      BY <1>1, <2>1, <2>2, <3>1, SavedParentKeeps, QuietFollows DEF Changing
  <2>3. CASE x \notin Parent
    <3> DEFINE d == SavedChild(v, Visible(s), x, kept)
    <3>1. Update(s, d) /\ x \in Child
      BY <1>5, <2>3 DEF Save, Node
    <3>2. /\ d \in SessionState /\ Read(d)
          /\ \/ Quiet(v, d)
             \/ v.ref[x] = NoParent /\ d.del = v.del /\ d.ref = v.ref /\ d.nulled = v.nulled \cup {x}
      BY <1>1, <2>1, <3>1, SavedChildKeeps
    <3> HIDE DEF d, v
    <3>3. CASE Quiet(v, d)
      BY <2>1, <1>1, <3>1, <3>2, <3>3, QuietFollows DEF Changing, v
    <3>4. CASE v.ref[x] = NoParent /\ d.del = v.del /\ d.ref = v.ref /\ d.nulled = v.nulled \cup {x}
      <4>1. Follows(v, d, hist'[s].removed)
        BY <3>4 DEF Follows
      <4> QED
        BY <1>1, <2>1, <3>1, <3>2, <4>1 DEF Changing, v
    <3> QED
      BY <3>2, <3>3, <3>4
  <2> QED
    BY <2>2, <2>3
<1> QED
  BY <1>2, <1>3, <1>4, <1>5, SetParentFollows DEF Changes

\* A flush takes one key out of the queues b, which leaves d, and its statements are sts.
Taken(b, d, sts) ==
    /\ Read(d) /\ d.ref = b.ref /\ d.nulled \subseteq b.nulled
    /\ \A p \in Parent : d.del[p] \subseteq b.del[p]
    /\ \/ \E p \in Parent : sts = KeyStatements(b, p)
       \/ sts = <<>>
       \/ \E c \in b.nulled : sts = <<Statement("orphan", NoParent, {c})>>

LEMMA FlushUpdateTakes ==
    ASSUME TypeInv, NEW s \in Session, NEW x \in Node, FlushUpdate(s, x)
    PROVE  \E d \in SessionState, sts \in Seq(StatementType) :
              /\ Taken(ses[s], d, sts)
              /\ ses' = [ses EXCEPT ![s] = d] /\ stmts' = [stmts EXCEPT ![s] = sts]
<1> DEFINE b == ses[s]
           p == KeyParent(b, x)
<1>1. b \in SessionState /\ Read(b)
  BY SessionRead
<1>2. CASE p \in Parent
  <2> DEFINE d == Tracked([b EXCEPT !.ins[p] = {}, !.del[p] = {}], x)
             sts == KeyStatements(b, p)
  <2>1. stmts' = [stmts EXCEPT ![s] = sts] /\ ses' = [ses EXCEPT ![s] = d]
    BY <1>2 DEF FlushUpdate
  <2> HIDE DEF b, p
  <2>2. d \in SessionState /\ Read(d) /\ d.ref = b.ref /\ d.nulled = b.nulled /\ d.del = [b.del EXCEPT ![p] = {}]
    BY <1>1, <1>2, FlushedKeyKeeps
  <2>3. sts \in Seq(StatementType)
    BY <1>1, <1>2, StatementTypes
  <2>4. \A q \in Parent : d.del[q] \subseteq b.del[q]
    BY <1>1, <2>2 DEF SessionState
  <2>5. Taken(b, d, sts)
    BY <1>2, <2>2, <2>4 DEF Taken
  <2> HIDE DEF d, sts
  <2> QED
    BY <2>1, <2>2, <2>3, <2>5 DEF b
<1>3. CASE p \notin Parent
  <2> DEFINE d == Tracked([b EXCEPT !.nulled = b.nulled \ {x}], x)
             sts == IF x \in b.nulled THEN <<Statement("orphan", NoParent, {x})>> ELSE <<>>
  <2>1. stmts' = [stmts EXCEPT ![s] = sts] /\ ses' = [ses EXCEPT ![s] = d]
    BY <1>3 DEF FlushUpdate
  <2> HIDE DEF b, p
  <2>2. d \in SessionState /\ Read(d) /\ d.ref = b.ref /\ d.nulled = b.nulled \ {x} /\ d.del = b.del
    BY <1>1, FlushedNullKeeps
  <2>3. x \in b.nulled => Statement("orphan", NoParent, {x}) \in StatementType
    BY <1>1 DEF Statement, StatementType, SessionState
  <2>4. sts \in Seq(StatementType)
    <3> HIDE DEF StatementType
    <3> QED
      BY <2>3
  <2>5. Taken(b, d, sts)
    BY <2>2 DEF Taken
  <2> HIDE DEF d, sts
  <2> QED
    BY <2>1, <2>2, <2>4, <2>5 DEF b
<1> QED
  BY <1>2, <1>3

\* Type correctness is inductive with DirtyRead, which the cascade of a child needs
\* to find its parent.
LEMMA TypeNext == TypeInv /\ [Next]_vars => TypeInv'
<1> SUFFICES ASSUME TypeInv, [Next]_vars PROVE TypeInv'
  OBVIOUS
<1> USE DEF TypeInv, TypeOK
<1>0. NoHistory \in History
  BY DEF NoHistory, History
<1>1. CASE UNCHANGED vars
  BY <1>1 DEF vars, dbVars, DirtyRead
<1>2. ASSUME NEW s \in Session, Changes(s) PROVE TypeInv'
  <2> HIDE DEF TypeInv, TypeOK
  <2> QED
    BY <1>2, ChangesFollow, UpdateType DEF Changing
<1>3. ASSUME NEW s \in Session, Begin(s) PROVE TypeInv'
  BY <1>3 DEF Begin, dbVars, DirtyRead
<1>4. ASSUME NEW s \in Session, Rollback(s) PROVE TypeInv'
  <2>1. hist' \in [Session -> History] /\ graph' \subseteq Rel
    BY <1>0, <1>4 DEF Rollback
  <2> HIDE DEF TypeInv, TypeOK
  <2> QED
    BY <1>4, <2>1, IdleType DEF Rollback
<1>5. ASSUME NEW s \in Session, NEW commits \in BOOLEAN, Flush(s, commits) PROVE TypeInv'
  BY <1>5 DEF Flush, dbVars, DirtyRead
<1>6. ASSUME NEW s \in Session, Spooled(s) PROVE TypeInv'
  BY <1>6 DEF Spooled, dbVars, DirtyRead
<1>7. ASSUME NEW s \in Session, NEW x \in Node, FlushUpdate(s, x) PROVE TypeInv'
  <2>1. PICK d \in SessionState, sts \in Seq(StatementType) :
           Read(d) /\ ses' = [ses EXCEPT ![s] = d] /\ stmts' = [stmts EXCEPT ![s] = sts]
    BY <1>7, FlushUpdateTakes DEF Taken
  <2>2. DirtyRead'
    BY <2>1 DEF DirtyRead, Read
  <2> QED
    BY <1>7, <2>1, <2>2 DEF FlushUpdate, dbVars
<1>8. ASSUME NEW s \in Session, RunStatement(s) PROVE TypeInv'
  <2>1. stmts' \in [Session -> Seq(StatementType)]
    <3>1. stmts[s] \in Seq(StatementType) /\ stmts[s] # <<>>
      BY <1>8 DEF RunStatement
    <3>2. Tail(stmts[s]) \in Seq(StatementType)
      BY <3>1
    <3> QED
      BY <1>8, <3>2 DEF RunStatement
  <2>2. own' \in [Session -> [Rel -> {"none", "there", "gone"}]]
    BY <1>8 DEF RunStatement
  <2> QED
    BY <1>8, <2>1, <2>2 DEF RunStatement, DirtyRead
<1>9. ASSUME NEW s \in Session, FlushDone(s) PROVE TypeInv'
  <2>1. Cleared(ses[s]) \in SessionState /\ Read(Cleared(ses[s]))
    BY SessionRead, ClearedKeeps
  <2>2. ses' \in [Session -> SessionState] /\ DirtyRead'
    BY <1>9, <2>1 DEF FlushDone, DirtyRead, Read
  <2> QED
    BY <1>9, <2>2 DEF FlushDone, dbVars
<1>10. ASSUME NEW s \in Session, Commit(s) PROVE TypeInv'
  <2>1. graph' \subseteq Rel
    BY <1>10 DEF Commit, Visible
  <2>2. \A h \in History : [h EXCEPT !.raced = h.raced \cup Changed(graph, graph')] \in History
    BY <2>1 DEF History, Changed
  <2>3. hist' \in [Session -> History]
    BY <1>0, <1>10, <2>2 DEF Commit
  <2> HIDE DEF TypeInv, TypeOK
  <2> QED
    BY <1>10, <2>1, <2>3, IdleType DEF Commit
<1>11. CASE Next
  BY <1>2, <1>3, <1>4, <1>5, <1>6, <1>7, <1>8, <1>9, <1>10, <1>11
  DEF Next, AppStep, FlushStep, Changes
<1> QED
  BY <1>1, <1>11

\* Every variable keeps its type: the session's instances and queues, the statements
\* and the transactions, for any nodes and sessions and either kind of association.
THEOREM TypeCorrect == Spec => []TypeOK
<1>1. TypeInv => TypeOK
  BY DEF TypeInv
<1> QED
  BY <1>1, TypeInit, TypeNext, PTL DEF Spec

-----------------------------------------------------------------------------
(***************************************************************************)
(* The inductive invariant.  rs is what the unit of work has removed, sts  *)
(* are the statements that the flush has still to run, vis is what they    *)
(* see, ow is what the transaction has done.                               *)
(***************************************************************************)

Orphan(c, rs) == Bidirectional /\ \E p \in Parent : <<p, c>> \in rs

\* Only what the application removed waits for deletion.
QueuesRemoved(b, rs) ==
    /\ \A p \in Parent : \A c \in b.del[p] : <<p, c>> \in rs
    /\ \A c \in Child : c \in b.nulled \/ b.ref[c] = NoParent => Orphan(c, rs)

WellPlaced(st, rs) ==
    /\ st.op = "previous" => Bidirectional
    /\ st.op = "merge" => st.parent \in Parent
    /\ st.op = "delete" => \A c \in st.ids : <<st.parent, c>> \in rs
    /\ st.op = "orphan" => \A c \in st.ids : Orphan(c, rs)

\* The deletion of the previous relationships and the MERGE follow each other.
Planned(sts, rs) ==
    \A i \in 1..Len(sts) :
        /\ WellPlaced(sts[i], rs)
        /\ sts[i].op = "previous" =>
              i < Len(sts) /\ sts[i + 1].op = "merge" /\ sts[i + 1].ids = sts[i].ids
        /\ sts[i].op = "merge" /\ i > 1 =>
              sts[i - 1].op = "previous" /\ sts[i - 1].ids = sts[i].ids

\* The next statement connects c.
Awaited(sts, c) == sts # <<>> /\ Head(sts).op = "merge" /\ c \in Head(sts).ids

Kept(vis, sts, rs, c) ==
    Bidirectional /\ ((\E q \in Parent : <<q, c>> \in vis \cup rs) \/ Awaited(sts, c))

Accounted(ow, vis, sts, rs) ==
    \A r \in Rel : ow[r] = "gone" => r \in rs \/ Kept(vis, sts, rs, r[2])

\* Children that no other session changed keep one parent, g being the graph.
Single(g, vis, sts, raced) ==
    Bidirectional =>
        \A c \in Child :
            (\A r \in raced : r[2] # c) /\ OneParent(c, g) =>
                OneParent(c, vis) /\ (Awaited(sts, c) => ParentsOf(c, vis) = {})

Resting(s) == pc[s] = "idle" => own[s] = Untouched /\ stmts[s] = <<>>

LocksExclusive ==
    \A s, o \in Session : s # o =>
        \A r, q \in Rel : own[s][r] # "none" /\ own[o][q] # "none" => r[2] # q[2]

Local(s) ==
    /\ QueuesRemoved(ses[s], hist[s].removed)
    /\ Planned(stmts[s], hist[s].removed)
    /\ Accounted(own[s], Visible(s), stmts[s], hist[s].removed)
    /\ Single(graph, Visible(s), stmts[s], hist[s].raced)
    /\ Resting(s)

Inv == TypeInv /\ LocksExclusive /\ \A s \in Session : Local(s)

-----------------------------------------------------------------------------
(***************************************************************************)
(* What the statements of a key are, and what running one changes.         *)
(***************************************************************************)

LEMMA Joined == \A P, M, D : <<P, M>> \o <<D>> = <<P, M, D>> /\ <<M>> \o <<D>> = <<M, D>>
<1> TAKE P, M, D
<1> DEFINE S == {P, M, D}
<1>1. /\ <<P, M>> \in Seq(S) /\ <<M>> \in Seq(S) /\ <<D>> \in Seq(S)
      /\ <<P, M, D>> \in Seq(S) /\ <<M, D>> \in Seq(S)
  OBVIOUS
<1> HIDE DEF S
<1>2. <<P, M>> \o <<D>> \in Seq(S) /\ <<M>> \o <<D>> \in Seq(S)
  BY <1>1
<1>3. /\ Len(<<P, M>> \o <<D>>) = 3 /\ Len(<<P, M, D>>) = 3
      /\ \A i \in 1..3 : (<<P, M>> \o <<D>>)[i] = <<P, M, D>>[i]
  BY <1>1
<1>4. /\ Len(<<M>> \o <<D>>) = 2 /\ Len(<<M, D>>) = 2
      /\ \A i \in 1..2 : (<<M>> \o <<D>>)[i] = <<M, D>>[i]
  BY <1>1
<1>5. <<P, M>> \o <<D>> = <<P, M, D>>
  BY <1>1, <1>2, <1>3, SeqEqual
<1>6. <<M>> \o <<D>> = <<M, D>>
  BY <1>1, <1>2, <1>4, SeqEqual
<1> QED
  BY <1>5, <1>6

LEMMA KeyPlanned ==
    ASSUME NEW b \in SessionState, NEW p \in Parent, NEW rs, \A c \in b.del[p] : <<p, c>> \in rs
    PROVE  /\ Planned(KeyStatements(b, p), rs)
           /\ Bidirectional => \A c : ~Awaited(KeyStatements(b, p), c)
<1> DEFINE P == Statement("previous", p, b.ins[p])
           M == Statement("merge", p, b.ins[p])
           D == Statement("delete", p, b.del[p])
           sts == KeyStatements(b, p)
<1>1. /\ P.op = "previous" /\ M.op = "merge" /\ D.op = "delete"
      /\ P.ids = M.ids /\ M.parent = p /\ D.parent = p /\ D.ids = b.del[p]
  BY DEF Statement
<1>2. /\ Bidirectional => sts \in {<<>>, <<D>>, <<P, M>>, <<P, M, D>>}
      /\ ~Bidirectional => sts \in {<<>>, <<D>>, <<M>>, <<M, D>>}
  <2> HIDE DEF P, M, D
  <2>1. InsertStatements(p, b.ins[p]) = IF Bidirectional THEN <<P, M>> ELSE <<M>>
    BY DEF InsertStatements, P, M
  <2>2. <<P, M>> \o <<D>> = <<P, M, D>> /\ <<M>> \o <<D>> = <<M, D>>
    BY Joined
  <2>3. <<P, M>> \o <<>> = <<P, M>> /\ <<M>> \o <<>> = <<M>> /\ <<>> \o <<D>> = <<D>> /\ <<>> \o <<>> = <<>>
    OBVIOUS
  <2> QED
    BY <2>1, <2>2, <2>3 DEF KeyStatements, D
<1>3. /\ Bidirectional => WellPlaced(P, rs)
      /\ WellPlaced(M, rs) /\ WellPlaced(D, rs)
  BY <1>1 DEF WellPlaced
<1> HIDE DEF P, M, D, sts
<1>4. CASE sts = <<>>
  BY <1>4 DEF Planned, Awaited, sts
<1>5. CASE sts = <<D>>
  BY <1>1, <1>3, <1>5 DEF Planned, Awaited, sts
<1>6. CASE Bidirectional /\ sts = <<P, M>>
  BY <1>1, <1>3, <1>6 DEF Planned, Awaited, sts
<1>7. CASE Bidirectional /\ sts = <<P, M, D>>
  BY <1>1, <1>3, <1>7 DEF Planned, Awaited, sts
<1>8. CASE ~Bidirectional /\ sts = <<M>>
  BY <1>1, <1>3, <1>8 DEF Planned, Awaited, sts
<1>9. CASE ~Bidirectional /\ sts = <<M, D>>
  BY <1>1, <1>3, <1>9 DEF Planned, Awaited, sts
<1> QED
  BY <1>2, <1>4, <1>5, <1>6, <1>7, <1>8, <1>9

LEMMA TailPlanned ==
    ASSUME NEW sts \in Seq(StatementType), sts # <<>>, NEW rs, Planned(sts, rs)
    PROVE  /\ Planned(Tail(sts), rs) /\ WellPlaced(Head(sts), rs)
           /\ Head(sts).op = "previous" => \A c : Awaited(Tail(sts), c) <=> c \in Head(sts).ids
           /\ Head(sts).op # "previous" => \A c : ~Awaited(Tail(sts), c)
<1> DEFINE tl == Tail(sts)
<1> HIDE DEF StatementType
<1>1. /\ Len(sts) \in Nat \ {0} /\ Len(tl) = Len(sts) - 1
      /\ \A i \in 1..Len(tl) : tl[i] = sts[i + 1]
      /\ Head(sts) = sts[1] /\ tl \in Seq(StatementType)
  OBVIOUS
<1>2. WellPlaced(Head(sts), rs)
  BY <1>1 DEF Planned
<1>3. (tl # <<>> <=> Len(sts) > 1) /\ (tl # <<>> => Head(tl) = tl[1])
  <2> HIDE DEF tl
  <2>1. tl # <<>> <=> Len(tl) # 0
    BY <1>1
  <2> QED
    BY <1>1, <2>1
<1>4. tl # <<>> => Head(tl) = sts[2]
  <2> HIDE DEF tl
  <2> QED
    BY <1>1, <1>3
<1>5. Planned(tl, rs)
  <2> SUFFICES ASSUME NEW i \in 1..Len(tl)
               PROVE  /\ WellPlaced(tl[i], rs)
                      /\ tl[i].op = "previous" =>
                            i < Len(tl) /\ tl[i + 1].op = "merge" /\ tl[i + 1].ids = tl[i].ids
                      /\ tl[i].op = "merge" /\ i > 1 =>
                            tl[i - 1].op = "previous" /\ tl[i - 1].ids = tl[i].ids
    BY DEF Planned
  <2> HIDE DEF tl
  <2>1. i + 1 \in 1..Len(sts) /\ (i + 1) - 1 = i /\ tl[i] = sts[i + 1]
    BY <1>1
  <2>2. i < Len(tl) => tl[i + 1] = sts[(i + 1) + 1]
    BY <1>1
  <2>3. i > 1 => tl[i - 1] = sts[i]
    BY <1>1
  <2> QED
    BY <1>1, <2>1, <2>2, <2>3 DEF Planned
<1> HIDE DEF tl
<1>6. Head(sts).op = "previous" =>
        tl # <<>> /\ Head(tl).op = "merge" /\ Head(tl).ids = Head(sts).ids
  BY <1>1, <1>3, <1>4 DEF Planned
<1>7. tl # <<>> /\ Head(tl).op = "merge" => Head(sts).op = "previous"
  BY <1>1, <1>3, <1>4 DEF Planned
<1> QED
  BY <1>2, <1>5, <1>6, <1>7 DEF Awaited, tl

\* What s sees changes by the relationships that its statement deletes and creates.
LEMMA StatementRuns ==
    ASSUME TypeInv, NEW s \in Session, RunStatement(s)
    PROVE  LET st == Head(stmts[s])
               gone == Deletes(st, Visible(s))
               made == Creates(st, Visible(s)) IN
           /\ Visible(s)' = {r \in Rel : (r \in Visible(s) /\ r \notin gone) \/ (r \in made /\ r \notin gone)}
           /\ \A r \in Rel : own'[s][r] = IF r \in gone THEN "gone"
                                          ELSE IF r \in made THEN "there" ELSE own[s][r]
           /\ stmts' = [stmts EXCEPT ![s] = Tail(stmts[s])]
           /\ own' \in [Session -> [Rel -> {"none", "there", "gone"}]]
           /\ \A o \in Session \ {s} : own'[o] = own[o]
           /\ gone \subseteq Visible(s)
<1> DEFINE st == Head(stmts[s])
           gone == Deletes(st, Visible(s))
           made == Creates(st, Visible(s))
<1>1. own \in [Session -> [Rel -> {"none", "there", "gone"}]]
  BY DEF TypeInv, TypeOK
<1>2. own' = [own EXCEPT ![s] = [r \in Rel |->
          IF r \in gone THEN "gone" ELSE IF r \in made THEN "there" ELSE own[s][r]]]
  BY DEF RunStatement
<1>3. graph' = graph /\ stmts' = [stmts EXCEPT ![s] = Tail(stmts[s])]
  BY DEF RunStatement
<1>4. gone \subseteq Visible(s)
  BY DEF Deletes
<1> HIDE DEF gone, made
<1>5. \A r \in Rel : own'[s][r] = IF r \in gone THEN "gone"
                                  ELSE IF r \in made THEN "there" ELSE own[s][r]
  BY <1>1, <1>2
<1>6. own' \in [Session -> [Rel -> {"none", "there", "gone"}]] /\ \A o \in Session \ {s} : own'[o] = own[o]
  BY <1>1, <1>2
<1>7. Visible(s)' = {r \in Rel : (r \in Visible(s) /\ r \notin gone) \/ (r \in made /\ r \notin gone)}
  BY <1>3, <1>5 DEF Visible
<1> QED
  BY <1>3, <1>4, <1>5, <1>6, <1>7 DEF gone, made

LEMMA RunLocal == ASSUME Inv, NEW s \in Session, RunStatement(s) PROVE Local(s)'
<1> DEFINE sts == stmts[s]
           st == Head(sts)
           seen == Visible(s)
           gone == Deletes(st, seen)
           made == Creates(st, seen)
           vis == {r \in Rel : (r \in seen /\ r \notin gone) \/ (r \in made /\ r \notin gone)}
           rs == hist[s].removed
           tl == Tail(sts)
<1>1. TypeInv /\ Local(s)
  BY DEF Inv
<1>2. sts \in Seq(StatementType) /\ sts # <<>> /\ seen \subseteq Rel
  BY <1>1 DEF TypeInv, TypeOK, RunStatement, Visible
<1>3. /\ QueuesRemoved(ses[s], rs) /\ Planned(sts, rs) /\ Accounted(own[s], seen, sts, rs)
      /\ Single(graph, seen, sts, hist[s].raced)
  BY <1>1 DEF Local
<1>4. /\ Visible(s)' = vis /\ stmts'[s] = tl
      /\ \A r \in Rel : own'[s][r] = "gone" => r \in gone \/ (own[s][r] = "gone" /\ r \notin made)
  <2>1. stmts' = [stmts EXCEPT ![s] = tl] /\ stmts \in [Session -> Seq(StatementType)]
    BY <1>1, StatementRuns DEF TypeInv, TypeOK
  <2>2. Visible(s)' = vis
    BY <1>1, StatementRuns
  <2>3. \A r \in Rel : own'[s][r] = IF r \in gone THEN "gone"
                                    ELSE IF r \in made THEN "there" ELSE own[s][r]
    BY <1>1, StatementRuns
  <2> HIDE DEF vis, gone, made, tl
  <2> QED
    BY <2>1, <2>2, <2>3
<1>5. /\ Planned(tl, rs) /\ WellPlaced(st, rs)
      /\ st.op = "previous" => \A c : Awaited(tl, c) <=> c \in st.ids
      /\ st.op # "previous" => \A c : ~Awaited(tl, c)
  BY <1>2, <1>3, TailPlanned
<1>6. st \in StatementType
  <2> HIDE DEF StatementType
  <2> QED
    BY <1>2
<1>7. st.op \in {"previous", "merge", "delete", "orphan"} /\ st.ids \subseteq Child
  BY <1>6 DEF StatementType
<1>8. /\ \A r \in Rel : r \in gone <=>
            /\ r \in seen /\ r[2] \in st.ids
            /\ st.op \in {"previous", "orphan"} \/ (st.op = "delete" /\ r[1] = st.parent)
      /\ st.op = "merge" => \A c \in st.ids : <<st.parent, c>> \in seen \cup made
      /\ st.op = "merge" => \A r \in made : r[1] = st.parent /\ r[2] \in st.ids
      /\ st.op # "merge" => made = {}
  BY <1>2 DEF Deletes, Creates
<1>9. \A c : Awaited(sts, c) <=> st.op = "merge" /\ c \in st.ids
  BY <1>2 DEF Awaited
<1> HIDE DEF sts, st, seen, gone, made, rs, tl
<1>10. \A c \in Child : Kept(seen, sts, rs, c) => Kept(vis, tl, rs, c)
  <2> SUFFICES ASSUME NEW c \in Child, Kept(seen, sts, rs, c), ~Awaited(tl, c),
                      \A q \in Parent : <<q, c>> \notin rs
               PROVE  \E q \in Parent : <<q, c>> \in vis
    BY DEF Kept
  <2>1. CASE Awaited(sts, c)
    <3>1. st.parent \in Parent /\ <<st.parent, c>> \in seen \cup made /\ st.op = "merge"
      BY <1>5, <1>8, <1>9, <2>1 DEF WellPlaced
    <3>2. <<st.parent, c>> \in Rel
      BY <3>1 DEF Rel
    <3> QED
      BY <1>8, <3>1, <3>2
  <2>2. ASSUME NEW q \in Parent, <<q, c>> \in seen
        PROVE  <<q, c>> \in vis
    <3>1. <<q, c>> \in Rel /\ <<q, c>>[1] = q /\ <<q, c>>[2] = c
      BY DEF Rel
    <3>2. <<q, c>> \notin gone
      BY <1>5, <1>7, <1>8, <3>1 DEF WellPlaced, Orphan
    <3> QED
      BY <2>2, <3>1, <3>2
  <2> QED
    BY <2>1, <2>2 DEF Kept
<1>11. \A r \in Rel : r \in gone => r \in rs \/ Kept(vis, tl, rs, r[2])
  <2> SUFFICES ASSUME NEW q \in Parent, NEW c \in Child, <<q, c>> \in gone
               PROVE  <<q, c>> \in rs \/ Kept(vis, tl, rs, c)
    BY DEF Rel
  <2>1. <<q, c>> \in Rel /\ <<q, c>>[1] = q /\ <<q, c>>[2] = c
    BY DEF Rel
  <2> QED
    BY <1>5, <1>7, <1>8, <2>1 DEF WellPlaced, Orphan, Kept
<1>12. \A r \in Rel : r[2] \in Child
  BY DEF Rel
<1>13. \A r \in Rel : own'[s][r] = "gone" => r \in rs \/ Kept(vis, tl, rs, r[2])
  BY <1>3, <1>4, <1>10, <1>11, <1>12 DEF Accounted
<1>14. Bidirectional => \A c \in Child : (\A r \in hist[s].raced : r[2] # c) /\ OneParent(c, graph) =>
          OneParent(c, vis) /\ (Awaited(tl, c) => ParentsOf(c, vis) = {})
  <2> SUFFICES ASSUME Bidirectional, NEW c \in Child, OneParent(c, seen),
                      Awaited(sts, c) => ParentsOf(c, seen) = {}
               PROVE  OneParent(c, vis) /\ (Awaited(tl, c) => ParentsOf(c, vis) = {})
    BY <1>3 DEF Single
  <2>1. \A q \in Parent : <<q, c>> \in Rel /\ <<q, c>>[1] = q /\ <<q, c>>[2] = c
    BY DEF Rel
  <2>2. Awaited(tl, c) => ParentsOf(c, vis) = {}
    <3> SUFFICES ASSUME Awaited(tl, c), NEW q \in Parent, <<q, c>> \in vis PROVE FALSE
      BY DEF ParentsOf
    <3>1. st.op = "previous" /\ c \in st.ids
      BY <1>5
    <3> QED
      BY <1>8, <2>1, <3>1
  <2>3. CASE Awaited(sts, c)
    <3>1. \A q \in Parent : <<q, c>> \in vis => q = st.parent
      BY <1>8, <1>9, <2>1, <2>3 DEF ParentsOf
    <3> QED
      BY <2>2, <3>1 DEF OneParent, ParentsOf
  <2>4. CASE ~Awaited(sts, c)
    <3>1. \A q \in Parent : <<q, c>> \in vis => <<q, c>> \in seen
      BY <1>8, <1>9, <2>1, <2>4
    <3> QED
      BY <2>2, <3>1 DEF OneParent, ParentsOf
  <2> QED
    BY <2>3, <2>4
<1>15. /\ kind' = kind /\ graph' = graph /\ ses' = ses /\ hist' = hist /\ pc' = pc
       /\ pc[s] # "idle"
  BY DEF RunStatement
<1> HIDE DEF vis
<1>16. QueuesRemoved(ses[s], hist[s].removed)'
  BY <1>3, <1>15 DEF QueuesRemoved, Orphan, Bidirectional, rs
<1>17. Planned(stmts[s], hist[s].removed)'
  BY <1>4, <1>5, <1>15 DEF Planned, WellPlaced, Orphan, Bidirectional, rs
<1>18. Accounted(own[s], Visible(s), stmts[s], hist[s].removed)'
  BY <1>4, <1>13, <1>15 DEF Accounted, Kept, Awaited, Bidirectional, rs
<1>19. Single(graph, Visible(s), stmts[s], hist[s].raced)'
  BY <1>4, <1>14, <1>15 DEF Single, OneParent, ParentsOf, Awaited, Bidirectional
<1>20. Resting(s)'
  BY <1>15 DEF Resting
<1> QED
  BY <1>16, <1>17, <1>18, <1>19, <1>20 DEF Local

LEMMA RunLocks == ASSUME Inv, NEW s \in Session, RunStatement(s) PROVE LocksExclusive'
<1> DEFINE st == Head(stmts[s])
           gone == Deletes(st, Visible(s))
           made == Creates(st, Visible(s))
<1>1. TypeInv /\ LocksExclusive
  BY DEF Inv
<1>2. /\ \A o \in Session \ {s} : own'[o] = own[o]
      /\ \A r \in Rel : own'[s][r] # "none" => own[s][r] # "none" \/ r \in gone \cup made
  <2> HIDE DEF st, gone, made
  <2> QED
    BY <1>1, StatementRuns DEF st, gone, made
<1>3. \A r \in gone \cup made : ~LockedByOther(s, r)
  BY DEF RunStatement
<1> HIDE DEF gone, made
<1>4. \A o \in Session \ {s} : \A r, q \in Rel :
         own'[s][r] # "none" /\ own[o][q] # "none" => r[2] # q[2]
  <2> SUFFICES ASSUME NEW o \in Session \ {s}, NEW r \in Rel, NEW q \in Rel,
                      own'[s][r] # "none", own[o][q] # "none"
               PROVE  r[2] # q[2]
    OBVIOUS
  <2>1. CASE own[s][r] # "none"
    BY <1>1, <2>1 DEF LocksExclusive
  <2>2. CASE r \in gone \cup made
    <3>1. q[2] \in Locks(o)
      BY DEF Locks
    <3>2. {r[1], r[2]} \cap Locks(o) = {}
      BY <1>3, <2>2 DEF LockedByOther
    <3> QED
      BY <3>1, <3>2
  <2> QED
    BY <1>2, <2>1, <2>2
<1> QED
  BY <1>1, <1>2, <1>4 DEF LocksExclusive

-----------------------------------------------------------------------------
(***************************************************************************)
(* The other steps.                                                        *)
(***************************************************************************)

\* A session that ends its unit of work, or has none.
LEMMA IdleLocal ==
    ASSUME NEW s \in Session, ses'[s] = Blank, stmts'[s] = <<>>, own'[s] = Untouched,
           graph' \subseteq Rel
    PROVE  Local(s)'
<1>1. QueuesRemoved(ses[s], hist[s].removed)'
  BY NullAssumption DEF QueuesRemoved, Blank
<1>2. Planned(stmts[s], hist[s].removed)'
  BY DEF Planned
<1>3. \A r \in Rel : own'[s][r] = "none"
  BY DEF Untouched
<1>4. Accounted(own[s], Visible(s), stmts[s], hist[s].removed)'
  BY <1>3 DEF Accounted
<1>5. Visible(s)' = graph'
  BY <1>3 DEF Visible
<1>6. Single(graph, Visible(s), stmts[s], hist[s].raced)'
  BY <1>5 DEF Single, Awaited
<1> QED
  BY <1>1, <1>2, <1>4, <1>6 DEF Local, Resting

\* A step that leaves the transaction of s alone and adds to what it has removed.
LEMMA QueueLocal ==
    ASSUME Inv, NEW s \in Session, own'[s] = own[s], graph' = graph, kind' = kind,
           stmts'[s] = stmts[s], pc'[s] = "idle" => pc[s] = "idle",
           hist[s].removed \subseteq hist'[s].removed, hist'[s].raced = hist[s].raced,
           QueuesRemoved(ses'[s], hist'[s].removed)
    PROVE  Local(s)'
<1>1. Local(s)
  BY DEF Inv
<1>2. QueuesRemoved(ses[s], hist[s].removed)'
  BY DEF QueuesRemoved, Orphan, Bidirectional
<1>3. Planned(stmts[s], hist[s].removed)'
  <2>1. \A st : WellPlaced(st, hist[s].removed) => WellPlaced(st, hist[s].removed)'
    BY DEF WellPlaced, Orphan, Bidirectional
  <2> QED
    BY <1>1, <2>1 DEF Local, Planned
<1>4. Visible(s)' = Visible(s)
  BY DEF Visible
<1>5. Accounted(own[s], Visible(s), stmts[s], hist[s].removed)'
  BY <1>1, <1>4 DEF Local, Accounted, Kept, Awaited, Bidirectional
<1>6. Single(graph, Visible(s), stmts[s], hist[s].raced)'
  BY <1>1, <1>4 DEF Local, Single, OneParent, ParentsOf, Awaited, Bidirectional
<1>7. Resting(s)'
  BY <1>1 DEF Local, Resting
<1> QED
  BY <1>2, <1>3, <1>5, <1>6, <1>7 DEF Local

LEMMA OtherLocal ==
    ASSUME Inv, NEW o \in Session, own'[o] = own[o], graph' = graph, kind' = kind,
           stmts'[o] = stmts[o], pc'[o] = pc[o], ses'[o] = ses[o], hist'[o] = hist[o]
    PROVE  Local(o)'
<1>1. QueuesRemoved(ses'[o], hist'[o].removed)
  BY DEF Inv, Local
<1> QED
  BY <1>1, QueueLocal

LEMMA ChangesLocal ==
    ASSUME Inv, NEW s \in Session, NEW b, Changing(s, b)
    PROVE  Local(s)'
<1>1. /\ own' = own /\ graph' = graph /\ kind' = kind /\ stmts' = stmts /\ pc' = pc
      /\ ses' = [ses EXCEPT ![s] = b]
  BY DEF Changing, Update, dbVars
<1>2. ses'[s] = b
  BY <1>1 DEF Inv, TypeInv, TypeOK
<1>3. QueuesRemoved(ses[s], hist[s].removed)
  BY DEF Inv, Local
<1>4. QueuesRemoved(b, hist'[s].removed)
  BY <1>3 DEF Changing, Follows, QueuesRemoved, Orphan
<1> QED
  BY <1>1, <1>2, <1>4, QueueLocal DEF Changing

LEMMA FlushUpdateLocal ==
    ASSUME Inv, NEW s \in Session, NEW x \in Node, FlushUpdate(s, x)
    PROVE  Local(s)'
<1> DEFINE rs == hist[s].removed
<1>1. TypeInv /\ Local(s)
  BY DEF Inv
<1>2. PICK d \in SessionState, sts \in Seq(StatementType) :
         /\ Taken(ses[s], d, sts)
         /\ ses' = [ses EXCEPT ![s] = d] /\ stmts' = [stmts EXCEPT ![s] = sts]
  BY <1>1, FlushUpdateTakes
<1>3. /\ own' = own /\ graph' = graph /\ kind' = kind /\ pc' = pc /\ hist' = hist
      /\ stmts[s] = <<>>
  BY DEF FlushUpdate, dbVars
<1>4. ses'[s] = d /\ stmts'[s] = sts
  BY <1>1, <1>2 DEF TypeInv, TypeOK
<1>5. QueuesRemoved(ses[s], rs) /\ ses[s] \in SessionState
  BY <1>1, SessionRead DEF Local
<1>6. QueuesRemoved(d, rs)
  BY <1>2, <1>5 DEF Taken, QueuesRemoved
<1>7. Planned(sts, rs) /\ (Bidirectional => \A c : ~Awaited(sts, c))
  <2>1. ASSUME NEW p \in Parent, sts = KeyStatements(ses[s], p)
        PROVE  Planned(sts, rs) /\ (Bidirectional => \A c : ~Awaited(sts, c))
    BY <1>5, <2>1, KeyPlanned DEF QueuesRemoved
  <2>2. CASE sts = <<>>
    BY <2>2 DEF Planned, Awaited
  <2>3. ASSUME NEW c \in ses[s].nulled, sts = <<Statement("orphan", NoParent, {c})>>
        PROVE  Planned(sts, rs) /\ (Bidirectional => \A e : ~Awaited(sts, e))
    <3>1. Orphan(c, rs)
      BY <1>5 DEF QueuesRemoved, SessionState
    <3>2. Len(sts) = 1 /\ sts[1] = Statement("orphan", NoParent, {c}) /\ Head(sts) = sts[1]
      BY <2>3
    <3>3. sts[1].op = "orphan" /\ sts[1].ids = {c}
      BY <3>2 DEF Statement
    <3>4. WellPlaced(sts[1], rs)
      BY <3>1, <3>3 DEF WellPlaced
    <3> HIDE DEF rs
    <3>5. Planned(sts, rs)
      <4> SUFFICES ASSUME NEW i \in 1..Len(sts)
                   PROVE  WellPlaced(sts[i], rs) /\ sts[i].op = "orphan"
        BY DEF Planned
      <4> QED
        BY <3>2, <3>3, <3>4
    <3> QED
      BY <3>2, <3>3, <3>5 DEF Awaited
  <2> QED
    BY <1>2, <2>1, <2>2, <2>3 DEF Taken
<1>8. Visible(s)' = Visible(s)
  BY <1>3 DEF Visible
<1>9. \A c : ~Awaited(<<>>, c)
  BY DEF Awaited
<1> HIDE DEF rs
<1>10. QueuesRemoved(ses[s], hist[s].removed)'
  BY <1>3, <1>4, <1>6 DEF QueuesRemoved, Orphan, Bidirectional, rs
<1>11. Planned(stmts[s], hist[s].removed)'
  BY <1>3, <1>4, <1>7 DEF Planned, WellPlaced, Orphan, Bidirectional, rs
<1>12. Accounted(own[s], Visible(s), stmts[s], hist[s].removed)'
  BY <1>1, <1>3, <1>8, <1>9 DEF Local, Accounted, Kept, Bidirectional
<1>13. Single(graph, Visible(s), stmts[s], hist[s].raced)'
  BY <1>1, <1>3, <1>4, <1>7, <1>8 DEF Local, Single, OneParent, ParentsOf, Awaited, Bidirectional
<1>14. Resting(s)'
  BY <1>1, <1>3 DEF FlushUpdate, Resting
<1> QED
  BY <1>10, <1>11, <1>12, <1>13, <1>14 DEF Local

\* What another session commits does not touch the children that s has locked.
LEMMA CommitOther ==
    ASSUME Inv, NEW s \in Session, NEW o \in Session \ {s}, Commit(s)
    PROVE  Local(o)'
<1> DEFINE rs == hist[o].removed
<1>1. TypeInv /\ LocksExclusive /\ Local(o) /\ o # s
  BY DEF Inv
<1>2. /\ own'[o] = own[o] /\ ses'[o] = ses[o] /\ stmts'[o] = stmts[o] /\ pc'[o] = pc[o]
      /\ kind' = kind /\ graph' = Visible(s) /\ graph' \subseteq Rel
  BY <1>1 DEF Commit, Idle, TypeInv, TypeOK, Visible
<1>3. /\ hist'[o].removed = rs
      /\ pc[o] # "idle" => hist'[o].raced = hist[o].raced \cup Changed(graph, graph')
  BY <1>1 DEF Commit, TypeInv, TypeOK, History
<1>4. Planned(stmts[o], rs) /\ QueuesRemoved(ses[o], rs)
  BY <1>1 DEF Local
<1>5. QueuesRemoved(ses[o], hist[o].removed)'
  BY <1>2, <1>3, <1>4 DEF QueuesRemoved, Orphan, Bidirectional
<1>6. Planned(stmts[o], hist[o].removed)'
  <2>1. \A st : WellPlaced(st, rs) => WellPlaced(st, hist[o].removed)'
    BY <1>2, <1>3 DEF WellPlaced, Orphan, Bidirectional
  <2> HIDE DEF rs
  <2> QED
    BY <1>2, <1>3, <1>4, <2>1 DEF Planned
<1>7. ASSUME NEW r \in Rel, own[o][r] = "gone", NEW q \in Parent, <<q, r[2]>> \in Visible(o)
      PROVE  <<q, r[2]>> \in Visible(o)'
  <2>1. /\ <<q, r[2]>> \in Rel /\ <<q, r[2]>>[2] = r[2]
        /\ own[o][<<q, r[2]>>] = "there" \/ (own[o][<<q, r[2]>>] = "none" /\ <<q, r[2]>> \in graph)
    BY <1>7 DEF Visible
  <2>2. own[s][<<q, r[2]>>] = "none"
    BY <1>1, <1>7, <2>1 DEF LocksExclusive
  <2> QED
    BY <1>2, <2>1, <2>2 DEF Visible
<1>8. Accounted(own[o], Visible(o), stmts[o], hist[o].removed)'
  <2>1. \A r \in Rel : own[o][r] = "gone" => r \in rs \/ Kept(Visible(o), stmts[o], rs, r[2])
    BY <1>1 DEF Local, Accounted
  <2>2. \A r \in Rel : own[o][r] = "gone" => r \in rs \/ Kept(Visible(o)', stmts[o], rs, r[2])
    BY <1>7, <2>1 DEF Kept
  <2> QED
    BY <1>2, <1>3, <2>2 DEF Accounted, Kept, Awaited, Bidirectional
<1>9. Single(graph, Visible(o), stmts[o], hist[o].raced)'
  <2>1. CASE pc[o] = "idle"
    <3>1. own'[o] = Untouched /\ stmts'[o] = <<>>
      BY <1>1, <1>2, <2>1 DEF Local, Resting
    <3>2. Visible(o)' = graph'
      BY <1>2, <3>1 DEF Visible, Untouched
    <3> QED
      BY <3>1, <3>2 DEF Single, Awaited
  <2>2. CASE pc[o] # "idle"
    <3> SUFFICES ASSUME Bidirectional, NEW c \in Child, \A r \in hist'[o].raced : r[2] # c,
                        OneParent(c, graph')
                 PROVE  /\ OneParent(c, Visible(o)')
                        /\ Awaited(stmts[o], c) => ParentsOf(c, Visible(o)') = {}
      BY <1>2 DEF Single, OneParent, ParentsOf, Awaited, Bidirectional
    <3>1. \A q \in Parent : <<q, c>> \in Rel /\ <<q, c>>[2] = c
      BY DEF Rel
    <3>2. \A r \in hist[o].raced : r[2] # c
      BY <1>3, <2>2
    <3>3. \A q \in Parent : <<q, c>> \in graph <=> <<q, c>> \in graph'
      BY <1>3, <2>2, <3>1 DEF Changed
    <3>4. \A q \in Parent : <<q, c>> \in Visible(o)' <=> <<q, c>> \in Visible(o)
      BY <1>2, <3>1, <3>3 DEF Visible
    <3>5. OneParent(c, graph)
      BY <3>3 DEF OneParent, ParentsOf
    <3>6. OneParent(c, Visible(o)) /\ (Awaited(stmts[o], c) => ParentsOf(c, Visible(o)) = {})
      BY <1>1, <3>2, <3>5 DEF Local, Single
    <3> QED
      BY <3>4, <3>6 DEF OneParent, ParentsOf
  <2> QED
    BY <2>1, <2>2
<1>10. Resting(o)'
  BY <1>1, <1>2 DEF Local, Resting
<1> QED
  BY <1>5, <1>6, <1>8, <1>9, <1>10 DEF Local

-----------------------------------------------------------------------------
(***************************************************************************)
(* The invariant, and the action properties.                               *)
(***************************************************************************)

LEMMA InvInit == Init => Inv
<1> SUFFICES ASSUME Init PROVE Inv
  OBVIOUS
<1>1. TypeInv
  BY TypeInit
<1>2. LocksExclusive
  BY DEF Init, LocksExclusive, Untouched
<1>3. ASSUME NEW s \in Session PROVE Local(s)
  <2>1. ses[s] = Blank /\ stmts[s] = <<>> /\ own[s] = Untouched
    BY DEF Init
  <2>2. QueuesRemoved(ses[s], hist[s].removed)
    BY <2>1, NullAssumption DEF QueuesRemoved, Blank
  <2>3. \A r \in Rel : own[s][r] = "none"
    BY <2>1 DEF Untouched
  <2>4. Visible(s) = graph
    BY <1>1, <2>3 DEF Visible, TypeInv, TypeOK
  <2> QED
    BY <2>1, <2>2, <2>3, <2>4 DEF Local, Planned, Accounted, Single, Awaited, Resting
<1> QED
  BY <1>1, <1>2, <1>3 DEF Inv

LEMMA InvNext == Inv /\ [Next]_vars => Inv'
<1> SUFFICES ASSUME Inv, [Next]_vars PROVE Inv'
  OBVIOUS
<1>1. TypeInv' /\ TypeInv /\ LocksExclusive
  BY TypeNext DEF Inv
<1>2. CASE UNCHANGED vars
  <2>1. \A o \in Session : Local(o)'
    BY <1>2, OtherLocal DEF vars, dbVars
  <2> QED
    BY <1>1, <1>2, <2>1 DEF Inv, LocksExclusive, vars, dbVars
<1>3. ASSUME NEW s \in Session, own' = own, graph' = graph, kind' = kind, Local(s)',
             \A o \in Session \ {s} : /\ stmts'[o] = stmts[o] /\ pc'[o] = pc[o]
                                      /\ ses'[o] = ses[o] /\ hist'[o] = hist[o]
      PROVE  Inv'
  <2>1. \A o \in Session \ {s} : Local(o)'
    BY <1>3, OtherLocal
  <2> QED
    BY <1>1, <1>3, <2>1 DEF Inv, LocksExclusive
<1>4. /\ pc \in [Session -> {"idle", "app", "spool", "write"}]
      /\ stmts \in [Session -> Seq(StatementType)] /\ ses \in [Session -> SessionState]
      /\ own \in [Session -> [Rel -> {"none", "there", "gone"}]]
      /\ hist \in [Session -> History]
  BY <1>1 DEF TypeInv, TypeOK
<1>5. ASSUME NEW s \in Session, Changes(s) PROVE Inv'
  <2>1. PICK b : Changing(s, b)
    BY <1>1, <1>5, ChangesFollow
  <2>2. Local(s)'
    BY <2>1, ChangesLocal
  <2>3. /\ own' = own /\ graph' = graph /\ kind' = kind
        /\ \A o \in Session \ {s} : /\ stmts'[o] = stmts[o] /\ pc'[o] = pc[o]
                                    /\ ses'[o] = ses[o] /\ hist'[o] = hist[o]
    BY <1>4, <2>1 DEF Changing, Update, dbVars
  <2> QED
    BY <1>3, <2>2, <2>3
<1>6. ASSUME NEW s \in Session, Begin(s) \/ (\E commits \in BOOLEAN : Flush(s, commits)) \/ Spooled(s)
      PROVE  Inv'
  <2>1. /\ own' = own /\ graph' = graph /\ kind' = kind /\ ses' = ses /\ stmts' = stmts /\ hist' = hist
        /\ pc'[s] # "idle"
        /\ \A o \in Session \ {s} : pc'[o] = pc[o]
    BY <1>4, <1>6 DEF Begin, Flush, Spooled, dbVars
  <2>2. QueuesRemoved(ses'[s], hist'[s].removed)
    BY <2>1 DEF Inv, Local
  <2>3. Local(s)'
    BY <2>1, <2>2, QueueLocal
  <2> QED
    BY <1>3, <2>1, <2>3
<1>7. ASSUME NEW s \in Session, NEW x \in Node, FlushUpdate(s, x) PROVE Inv'
  <2>1. Local(s)'
    BY <1>7, FlushUpdateLocal
  <2>2. PICK d, sts : ses' = [ses EXCEPT ![s] = d] /\ stmts' = [stmts EXCEPT ![s] = sts]
    BY <1>1, <1>7, FlushUpdateTakes
  <2>3. /\ own' = own /\ graph' = graph /\ kind' = kind
        /\ \A o \in Session \ {s} : /\ stmts'[o] = stmts[o] /\ pc'[o] = pc[o]
                                    /\ ses'[o] = ses[o] /\ hist'[o] = hist[o]
    BY <1>4, <1>7, <2>2 DEF FlushUpdate, dbVars
  <2> QED
    BY <1>3, <2>1, <2>3
<1>8. ASSUME NEW s \in Session, FlushDone(s) PROVE Inv'
  <2>1. /\ own' = own /\ graph' = graph /\ kind' = kind /\ stmts' = stmts /\ hist' = hist
        /\ pc'[s] # "idle" /\ ses'[s] = Cleared(ses[s])
        /\ \A o \in Session \ {s} : pc'[o] = pc[o] /\ ses'[o] = ses[o]
    BY <1>4, <1>8 DEF FlushDone, dbVars
  <2>2. QueuesRemoved(ses'[s], hist'[s].removed)
    <3>1. QueuesRemoved(ses[s], hist[s].removed) /\ ses[s] \in SessionState /\ Read(ses[s])
      BY <1>1, SessionRead DEF Inv, Local
    <3>2. /\ Cleared(ses[s]).ref = ses[s].ref /\ Cleared(ses[s]).nulled = {}
          /\ Cleared(ses[s]).del = [p \in Parent |-> {}]
      BY <3>1, ClearedKeeps
    <3> QED
      BY <2>1, <3>1, <3>2 DEF QueuesRemoved
  <2>3. Local(s)'
    BY <2>1, <2>2, QueueLocal
  <2> QED
    BY <1>3, <2>1, <2>3
<1>9. ASSUME NEW s \in Session, RunStatement(s) PROVE Inv'
  <2>1. Local(s)' /\ LocksExclusive'
    BY <1>9, RunLocal, RunLocks
  <2>2. /\ stmts' = [stmts EXCEPT ![s] = Tail(stmts[s])]
        /\ \A o \in Session \ {s} : own'[o] = own[o]
    BY <1>1, <1>9, StatementRuns
  <2>3. \A o \in Session \ {s} : Local(o)'
    BY <1>4, <1>9, <2>2, OtherLocal DEF RunStatement
  <2> QED
    BY <1>1, <2>1, <2>3 DEF Inv
<1>10. ASSUME NEW s \in Session, Rollback(s) \/ Commit(s) PROVE Inv'
  <2>1. /\ ses'[s] = Blank /\ stmts'[s] = <<>> /\ own'[s] = Untouched
        /\ \A o \in Session \ {s} : /\ own'[o] = own[o] /\ stmts'[o] = stmts[o]
                                    /\ ses'[o] = ses[o] /\ pc'[o] = pc[o]
    BY <1>4, <1>10 DEF Rollback, Commit, Idle
  <2>2. graph' \subseteq Rel
    BY <1>1 DEF TypeInv, TypeOK
  <2>3. Local(s)'
    BY <2>1, <2>2, IdleLocal
  <2>4. \A o \in Session \ {s} : Local(o)'
    <3>1. CASE Commit(s)
      BY <3>1, CommitOther
    <3>2. CASE Rollback(s)
      <4>1. \A o \in Session \ {s} : hist'[o] = hist[o]
        BY <1>4, <3>2 DEF Rollback
      <4> QED
        BY <2>1, <3>2, <4>1, OtherLocal DEF Rollback
    <3> QED
      BY <1>10, <3>1, <3>2
  <2>5. LocksExclusive'
    <3>1. \A r \in Rel : own'[s][r] = "none"
      BY <2>1 DEF Untouched
    <3> QED
      BY <1>1, <2>1, <3>1 DEF LocksExclusive
  <2> QED
    BY <1>1, <2>3, <2>4, <2>5 DEF Inv
<1>11. CASE Next
  BY <1>5, <1>6, <1>7, <1>8, <1>9, <1>10, <1>11 DEF Next, AppStep, FlushStep, Changes
<1> QED
  BY <1>2, <1>11

LEMMA InvAlways == Spec => []Inv
BY InvInit, InvNext, PTL DEF Spec

\* Nothing vanishes at a commit that the unit did not remove: neither the stale
\* collections that the cascade saves, nor the queues, nor the deletion of previous
\* relationships that RelationshipPendingInsert makes take anything else away.
THEOREM OnlyRemovedDisappearCorrect == Spec => OnlyRemovedDisappear
<1>1. ASSUME Inv, NEW s \in Session, Commit(s), NEW r \in graph \ graph'
      PROVE  \/ r \in hist[s].removed
             \/ /\ Bidirectional
                /\ \E q \in Parent : <<q, r[2]>> \in graph' \cup hist[s].removed
  <2>1. r \in Rel /\ own[s] \in [Rel -> {"none", "there", "gone"}]
    BY <1>1 DEF Inv, TypeInv, TypeOK
  <2>2. graph' = Visible(s) /\ stmts[s] = <<>>
    BY <1>1 DEF Commit, Written
  <2>3. own[s][r] = "gone"
    BY <1>1, <2>1, <2>2 DEF Visible
  <2>4. r \in hist[s].removed \/ Kept(Visible(s), stmts[s], hist[s].removed, r[2])
    BY <1>1, <2>1, <2>3 DEF Inv, Local, Accounted
  <2> QED
    BY <2>2, <2>4 DEF Kept, Awaited
<1>2. Inv => [\A s \in Session : Commit(s) =>
                 \A r \in graph \ graph' :
                    \/ r \in hist[s].removed
                    \/ /\ Bidirectional
                       /\ \E q \in Parent : <<q, r[2]>> \in graph' \cup hist[s].removed]_vars
  BY <1>1
<1> QED
  BY <1>2, InvAlways, PTL DEF OnlyRemovedDisappear

\* For any number of parents, children and sessions, and pending updates in any
\* order: a commit gives a child a second parent only if another session changed its
\* relationships meanwhile.
THEOREM OneParentUnlessRacedCorrect == Spec => OneParentUnlessRaced
<1>1. ASSUME Inv, NEW s \in Session, Commit(s), Bidirectional, NEW c \in Child,
             \A r \in hist[s].raced : r[2] # c, OneParent(c, graph)
      PROVE  OneParent(c, graph')
  <2>1. OneParent(c, Visible(s))
    BY <1>1 DEF Inv, Local, Single
  <2> QED
    BY <1>1, <2>1 DEF Commit
<1>2. Inv => [\A s \in Session : Commit(s) /\ Bidirectional =>
                 \A c \in Child :
                    \/ \E r \in hist[s].raced : r[2] = c
                    \/ OneParent(c, graph) => OneParent(c, graph')]_vars
  BY <1>1
<1> QED
  BY <1>2, InvAlways, PTL DEF OneParentUnlessRaced
=============================================================================
