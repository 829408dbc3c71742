----------------------- MODULE RelationshipUpdates_written -----------------------
(***************************************************************************)
(* CollectionsWritten: when a unit commits, the graph has the              *)
(* relationships of the collections its session has read, for any number   *)
(* of parents, children, sessions and changes, and any order of saves and  *)
(* flushes.                                                                *)
(*                                                                         *)
(* The argument is about one child of one session or, in a unidirectional  *)
(* association, one parent and one child.  The instances may contradict    *)
(* each other for a while: the cascade of a save() of the old parent, for  *)
(* another child's sake, undoes a setParent.  The invariant says what the  *)
(* queues, the statements in flight and the graph then add up to.          *)
(***************************************************************************)
EXTENDS RelationshipUpdates_proofs

-----------------------------------------------------------------------------
(***************************************************************************)
(* What the graph will be once the statements of a flush have run.         *)
(***************************************************************************)

Kills(st, r) ==
    /\ r[2] \in st.ids
    /\ st.op \in {"previous", "orphan"} \/ (st.op = "delete" /\ r[1] = st.parent)

Makes(st, r) == st.op = "merge" /\ r[1] = st.parent /\ r[2] \in st.ids

\* r is there after the statements sts have run on the relationships vis.
Outcome(vis, sts, r) ==
    \/ r \in vis /\ \A i \in 1..Len(sts) : ~Kills(sts[i], r)
    \/ \E i \in 1..Len(sts) : /\ Makes(sts[i], r)
                              /\ \A j \in (i + 1)..Len(sts) : ~Kills(sts[j], r)

Later(s, r) == Outcome(Visible(s), stmts[s], r)

\* The relationships, and the parents of c, after the statements in flight.
Future(s) == {r \in Rel : Later(s, r)}
Expected(s, c) == ParentsOf(c, Future(s))

-----------------------------------------------------------------------------
(***************************************************************************)
(* The invariant of one child of a bidirectional association: b are the    *)
(* instances and queues of the session, w the parents the child will have. *)
(***************************************************************************)

\* Two collections have c.  Nothing but another change of c repairs that.
Torn(b, c) == \E p, q \in b.loaded : p # q /\ c \in b.coll[p] /\ c \in b.coll[q]

Removing(b, c) == {p \in Parent : c \in b.del[p]}

\* The to-one of c has changed and was not saved.
Unsaved(b, c) == c \in b.dirty \ b.upd

\* A pending insert is what the instances say, unless it is removed again: then the
\* insert was a repetition.
InsertsFit(b, w, c) ==
    \A p \in Parent : c \in b.ins[p] =>
        /\ p \in b.loaded
        /\ \/ /\ c \in b.del[p] /\ b.ref[c] = NoParent /\ w \subseteq {p}
              /\ \A q \in b.loaded : c \notin b.coll[q]
              /\ \A q \in Parent \ {p} : c \notin b.ins[q]
           \/ /\ c \notin b.del[p] /\ b.ref[c] = p /\ c \in b.coll[p]
              /\ c \in b.upd \/ p \notin w

DeletesFit(b, c) ==
    \A p \in Parent : c \in b.del[p] =>
        p \in b.loaded /\ c \notin b.coll[p] /\ b.ref[c] # p /\ b.ref[c] # Unread

\* Without a pending insert the graph has, or will have, what the to-one says.
ParentFits(b, w, c) ==
    /\ b.ref[c] \in Parent
    /\ Unsaved(b, c) => c \in b.coll[b.ref[c]]
    => w = {b.ref[c]}

NullFits(b, w, c) ==
    b.ref[c] = NoParent =>
        \/ w \subseteq Removing(b, c)
        \/ c \in b.nulled /\ c \in b.upd
        \/ Unsaved(b, c) /\ c \in b.parented

UnreadFits(b, w, c) == b.ref[c] = Unread => w \cap b.loaded = {}

RefFits(b, w, c) ==
    (\A p \in Parent : c \notin b.ins[p]) =>
        ParentFits(b, w, c) /\ NullFits(b, w, c) /\ UnreadFits(b, w, c)

\* A child that changed from null needs no deletion.
NotParented(b, w, c) == Unsaved(b, c) /\ c \notin b.parented => w \subseteq Removing(b, c)

\* The collections show what is in the graph and not removed.
Shown(b, w, c) == \A p \in b.loaded : p \in w => c \in b.coll[p] \/ c \in b.del[p]

\* Every queue entry is under a key that a pending update looks up.
Keyed(b, c) ==
    \A p \in Parent :
        /\ c \in b.ins[p] => p \in b.dirty \cup b.upd \/ (c \in b.upd /\ b.ref[c] = p)
        /\ c \in b.del[p] => p \in b.dirty \cup b.upd

ReadIn(b, c) == \A p \in Parent : c \in b.coll[p] => p \in b.loaded /\ b.ref[c] # Unread

Fits(b, w, c) ==
    /\ InsertsFit(b, w, c) /\ DeletesFit(b, c) /\ RefFits(b, w, c) /\ NotParented(b, w, c)
    /\ Shown(b, w, c) /\ Keyed(b, c) /\ ReadIn(b, c)

Fitting(b, w, c) == Torn(b, c) \/ Fits(b, w, c)

-----------------------------------------------------------------------------
(***************************************************************************)
(* The fields of a session after each call.                                *)
(***************************************************************************)

LEMMA InsertFields ==
    ASSUME NEW b \in SessionState, NEW p \in Parent, NEW cs \in SUBSET Child
    PROVE  LET d == addPendingRelationshipInsert(b, p, cs) IN
           /\ d.loaded = b.loaded /\ d.coll = b.coll /\ d.ref = b.ref /\ d.dirty = b.dirty
           /\ d.parented = b.parented /\ d.del = b.del /\ d.nulled = b.nulled /\ d.upd = b.upd
           /\ d.ins = [b.ins EXCEPT ![p] = @ \cup cs]
BY DEF addPendingRelationshipInsert, SessionState

LEMMA AddedFields ==
    ASSUME NEW b \in SessionState, NEW p \in Parent, NEW e \in Child
    PROVE  LET d == Added(b, p, e) IN
           /\ d.loaded = b.loaded /\ d.coll = [b.coll EXCEPT ![p] = @ \cup {e}]
           /\ d.dirty = b.dirty \cup {p} /\ d.parented = b.parented
           /\ d.ins = [b.ins EXCEPT ![p] = @ \cup {e}]
           /\ d.del = b.del /\ d.nulled = b.nulled /\ d.upd = b.upd
<1> DEFINE rf == IF Bidirectional THEN [b.ref EXCEPT ![e] = p] ELSE b.ref
           g == [b EXCEPT !.coll[p] = @ \cup {e}, !.dirty = @ \cup {p}, !.ref = rf]
<1>1. Added(b, p, e) = addPendingRelationshipInsert(g, p, {e})
  BY DEF Added
<1> HIDE DEF rf
<1>2. /\ g.loaded = b.loaded /\ g.coll = [b.coll EXCEPT ![p] = @ \cup {e}]
      /\ g.ref = rf /\ g.dirty = b.dirty \cup {p} /\ g.parented = b.parented
      /\ g.ins = b.ins /\ g.del = b.del /\ g.nulled = b.nulled /\ g.upd = b.upd
  BY DEF SessionState
<1>3. rf \in [Child -> Parent \cup {NoParent, Unread}]
  BY DEF SessionState, rf
<1>4. g \in SessionState
  <2>1. [b.coll EXCEPT ![p] = @ \cup {e}] \in [Parent -> SUBSET Child]
    BY DEF SessionState
  <2> QED
    BY <1>3, <2>1, NodeTypes DEF SessionState
<1> HIDE DEF g
<1> QED
  BY <1>1, <1>2, <1>4, InsertFields DEF rf

LEMMA AddedRef ==
    ASSUME NEW b \in SessionState, NEW p \in Parent, NEW e \in Child, Bidirectional
    PROVE  Added(b, p, e).ref = [b.ref EXCEPT ![e] = p]
<1>1. [b.ref EXCEPT ![e] = p] \in [Child -> Parent \cup {NoParent, Unread}]
  BY DEF SessionState
<1> QED
  BY <1>1 DEF Added, addPendingRelationshipInsert, SessionState

LEMMA RemovedFields ==
    ASSUME NEW b \in SessionState, NEW p \in Parent, NEW e \in Child
    PROVE  LET d == Removed(b, p, e) IN
           /\ d.loaded = b.loaded /\ d.coll = [b.coll EXCEPT ![p] = @ \ {e}]
           /\ d.dirty = b.dirty \cup {p} /\ d.parented = b.parented
           /\ d.ins = b.ins /\ d.del = [b.del EXCEPT ![p] = @ \cup {e}]
           /\ d.nulled = b.nulled /\ d.upd = b.upd
<1> DEFINE rf == IF Bidirectional THEN [b.ref EXCEPT ![e] = NoParent] ELSE b.ref
           g == [b EXCEPT !.coll[p] = @ \ {e}, !.dirty = @ \cup {p}, !.ref = rf]
<1>1. Removed(b, p, e) = [g EXCEPT !.del[p] = @ \cup {e}]
  BY DEF Removed, addPendingRelationshipDelete
<1> HIDE DEF rf
<1>2. /\ g.loaded = b.loaded /\ g.coll = [b.coll EXCEPT ![p] = @ \ {e}]
      /\ g.ref = rf /\ g.dirty = b.dirty \cup {p} /\ g.parented = b.parented
      /\ g.ins = b.ins /\ g.del = b.del /\ g.nulled = b.nulled /\ g.upd = b.upd
  BY DEF SessionState
<1>3. rf \in [Child -> Parent \cup {NoParent, Unread}]
  BY DEF SessionState, rf
<1>4. g \in SessionState
  <2>1. [b.coll EXCEPT ![p] = @ \ {e}] \in [Parent -> SUBSET Child]
    BY DEF SessionState
  <2> QED
    BY <1>3, <2>1, NodeTypes DEF SessionState
<1> HIDE DEF g
<1>5. LET d == [g EXCEPT !.del[p] = @ \cup {e}] IN
      /\ d.loaded = g.loaded /\ d.coll = g.coll /\ d.ref = g.ref /\ d.dirty = g.dirty
      /\ d.parented = g.parented /\ d.ins = g.ins /\ d.nulled = g.nulled /\ d.upd = g.upd
      /\ d.del = [g.del EXCEPT ![p] = @ \cup {e}]
  BY <1>4 DEF SessionState
<1> QED
  BY <1>1, <1>2, <1>5 DEF rf

LEMMA RemovedRef ==
    ASSUME NEW b \in SessionState, NEW p \in Parent, NEW e \in Child, Bidirectional
    PROVE  Removed(b, p, e).ref = [b.ref EXCEPT ![e] = NoParent]
<1>1. [b.ref EXCEPT ![e] = NoParent] \in [Child -> Parent \cup {NoParent, Unread}]
  BY DEF SessionState
<1> QED
  BY <1>1 DEF Removed, addPendingRelationshipDelete, SessionState

LEMMA AddedDirty ==
    ASSUME NEW b \in SessionState, NEW p \in Parent, NEW e \in Child, NEW d, d = Added(b, p, e)
    PROVE  d.dirty = b.dirty \cup {p} /\ d.upd = b.upd
BY AddedFields

LEMMA RemovedDirty ==
    ASSUME NEW b \in SessionState, NEW p \in Parent, NEW e \in Child, NEW d, d = Removed(b, p, e)
    PROVE  d.dirty = b.dirty \cup {p} /\ d.upd = b.upd
BY RemovedFields

LEMMA ParentSetKeeps ==
    ASSUME NEW b \in SessionState, NEW e \in Child, NEW q \in Parent \cup {NoParent}, NEW parent
    PROVE  [b EXCEPT !.ref[e] = q, !.dirty = @ \cup {e},
                     !.parented = IF parent /\ e \notin b.dirty THEN @ \cup {e} ELSE @]
           \in SessionState
<1> DEFINE rf == [b.ref EXCEPT ![e] = q]
           dt == b.dirty \cup {e}
           pt == IF parent /\ e \notin b.dirty THEN b.parented \cup {e} ELSE b.parented
           d == [b EXCEPT !.ref[e] = q, !.dirty = @ \cup {e},
                          !.parented = IF parent /\ e \notin b.dirty THEN @ \cup {e} ELSE @]
<1>1. rf \in [Child -> Parent \cup {NoParent, Unread}]
  BY DEF SessionState
<1>2. dt \in SUBSET Node /\ pt \in SUBSET Child
  BY NodeTypes DEF SessionState
<1>3. d = [b EXCEPT !.ref = rf, !.dirty = dt, !.parented = pt]
  BY DEF SessionState
<1> HIDE DEF rf, dt, pt, d
<1>4. d \in SessionState
  BY <1>1, <1>2, <1>3 DEF SessionState
<1> QED
  BY <1>4 DEF d

LEMMA InitialisedFields ==
    ASSUME NEW b \in SessionState, NEW seen, NEW p \in Parent, NEW kept \in BOOLEAN
    PROVE  LET d == Initialised(b, seen, p, kept) IN
           /\ d.loaded = b.loaded \cup {p}
           /\ d.dirty = b.dirty /\ d.parented = b.parented /\ d.ins = b.ins /\ d.del = b.del
           /\ d.nulled = b.nulled /\ d.upd = b.upd
BY DEF Initialised, SessionState

LEMMA InitialisedElements ==
    ASSUME NEW b \in SessionState, NEW seen, NEW p \in Parent, NEW kept \in BOOLEAN
    PROVE  LET d == Initialised(b, seen, p, kept) IN
           \A q \in Parent, c \in Child :
              c \in d.coll[q] <=> IF q = p THEN <<p, c>> \in seen ELSE c \in b.coll[q]
<1> DEFINE d == Initialised(b, seen, p, kept)
           es == {c \in Child : <<p, c>> \in seen}
<1>1. d.coll = [b.coll EXCEPT ![p] = es]
  BY DEF Initialised, SessionState
<1>2. \A c \in Child : c \in es <=> <<p, c>> \in seen
  OBVIOUS
<1> HIDE DEF d, es
<1> QED
  BY <1>1, <1>2 DEF SessionState, d

\* Only elements that were read, or proxies, keep another parent.
LEMMA InitialisedRefs ==
    ASSUME NEW b \in SessionState, NEW seen, NEW p \in Parent, NEW kept \in BOOLEAN, NEW c \in Child
    PROVE  LET d == Initialised(b, seen, p, kept) IN
           \/ d.ref[c] = b.ref[c] /\ (Bidirectional /\ <<p, c>> \in seen => b.ref[c] # Unread)
           \/ d.ref[c] = p /\ Bidirectional /\ <<p, c>> \in seen
<1> DEFINE es == {e \in Child : <<p, e>> \in seen}
           known == {e \in es : b.ref[e] # Unread}
           adopted == IF Bidirectional THEN (IF kept THEN es \ known ELSE es) ELSE {}
           rf == [e \in Child |-> IF e \in adopted THEN p ELSE b.ref[e]]
           d == Initialised(b, seen, p, kept)
<1>1. d.ref = rf
  BY DEF Initialised, SessionState
<1>2. rf[c] = IF c \in adopted THEN p ELSE b.ref[c]
  OBVIOUS
<1>3. /\ c \in adopted => Bidirectional /\ <<p, c>> \in seen
      /\ c \notin adopted /\ Bidirectional /\ <<p, c>> \in seen => b.ref[c] # Unread
  OBVIOUS
<1> HIDE DEF d, rf, adopted
<1> QED
  BY <1>1, <1>2, <1>3 DEF d

LEMMA SavedParentFields ==
    ASSUME NEW b \in SessionState, NEW p \in Parent
    PROVE  LET d == SavedParent(b, p) IN
           /\ d.loaded = b.loaded /\ d.coll = b.coll /\ d.del = b.del /\ d.nulled = b.nulled
           /\ d.ins = [b.ins EXCEPT ![p] = @ \cup b.coll[p]]
BY DEF SavedParent, addPendingRelationshipInsert, SessionState

LEMMA SavedParentCascade ==
    ASSUME NEW b \in SessionState, NEW p \in Parent, Bidirectional
    PROVE  LET d == SavedParent(b, p) IN
           /\ \A c \in Child : d.ref[c] = IF c \in b.coll[p] THEN p ELSE b.ref[c]
           /\ d.parented = b.parented \cup (b.coll[p] \ b.dirty)
           /\ d.dirty = b.dirty \cup b.coll[p]
           /\ d.upd = b.upd \cup {p} \cup b.coll[p]
BY DEF SavedParent, addPendingRelationshipInsert, SessionState

LEMMA SavedParentAlone ==
    ASSUME NEW b \in SessionState, NEW p \in Parent, ~Bidirectional
    PROVE  SavedParent(b, p).dirty = b.dirty /\ SavedParent(b, p).upd = b.upd \cup {p}
BY DEF SavedParent, addPendingRelationshipInsert, SessionState

-----------------------------------------------------------------------------
(***************************************************************************)
(* What a call does to the invariant of a child.                           *)
(***************************************************************************)

\* d is b as far as c is concerned; other instances may have become pending.
SameFor(b, d, c) ==
    /\ d.loaded = b.loaded /\ d.ref[c] = b.ref[c]
    /\ \A p \in Parent : /\ c \in d.coll[p] <=> c \in b.coll[p]
                         /\ c \in d.ins[p] <=> c \in b.ins[p]
                         /\ c \in d.del[p] <=> c \in b.del[p]
                         /\ p \in b.dirty \cup b.upd => p \in d.dirty \cup d.upd
    /\ c \in d.dirty <=> c \in b.dirty
    /\ c \in d.upd <=> c \in b.upd
    /\ c \in d.parented <=> c \in b.parented
    /\ c \in d.nulled <=> c \in b.nulled

LEMMA SameFits ==
    ASSUME NEW b \in SessionState, NEW d \in SessionState, NEW c \in Child, NEW w,
           SameFor(b, d, c), Fitting(b, w, c)
    PROVE  Fitting(d, w, c)
<1>0. b.loaded \subseteq Parent
  BY DEF SessionState
<1>1. CASE Torn(b, c)
  BY <1>0, <1>1 DEF Torn, SameFor, Fitting
<1>2. CASE Fits(b, w, c)
  <2>1. InsertsFit(d, w, c)
    BY <1>0, <1>2 DEF Fits, InsertsFit, SameFor
  <2>2. DeletesFit(d, c) /\ Removing(d, c) = Removing(b, c)
    BY <1>2 DEF Fits, DeletesFit, SameFor, Removing
  <2>3. Unsaved(d, c) <=> Unsaved(b, c)
    BY DEF Unsaved, SameFor
  <2>4. RefFits(d, w, c)
    BY <1>2, <2>2, <2>3 DEF Fits, RefFits, ParentFits, NullFits, UnreadFits, SameFor
  <2>5. NotParented(d, w, c)
    BY <1>2, <2>2, <2>3 DEF Fits, NotParented, SameFor
  <2>6. Shown(d, w, c)
    BY <1>0, <1>2 DEF Fits, Shown, SameFor
  <2>7. Keyed(d, c) /\ ReadIn(d, c)
    BY <1>2 DEF Fits, Keyed, ReadIn, SameFor
  <2> QED
    BY <2>1, <2>2, <2>4, <2>5, <2>6, <2>7 DEF Fits, Fitting
<1> QED
  BY <1>1, <1>2 DEF Fitting

\* A collection is read: an element of it has no other parent and nothing pending, or
\* is now in two collections.
LEMMA InitialisedFits ==
    ASSUME NEW b \in SessionState, NEW c \in Child, NEW w, NEW seen, NEW p \in Parent,
           p \notin b.loaded,
           NEW kept \in BOOLEAN, Bidirectional,
           w \subseteq Parent, \A q \in Parent : q \in w <=> <<q, c>> \in seen,
           \A q, r \in w : q = r,
           Fitting(b, w, c),
           NEW d, d = Initialised(b, seen, p, kept)
    PROVE  Fitting(d, w, c)
<1>1. /\ d.loaded = b.loaded \cup {p}
      /\ d.dirty = b.dirty /\ d.parented = b.parented /\ d.ins = b.ins /\ d.del = b.del
      /\ d.nulled = b.nulled /\ d.upd = b.upd
      /\ p \notin w => d.ref[c] = b.ref[c]
      /\ p \in w => d.ref[c] = p \/ (b.ref[c] # Unread /\ d.ref[c] = b.ref[c])
  <2>1. /\ d.loaded = b.loaded \cup {p}
        /\ d.dirty = b.dirty /\ d.parented = b.parented /\ d.ins = b.ins /\ d.del = b.del
        /\ d.nulled = b.nulled /\ d.upd = b.upd
    BY InitialisedFields
  <2>2. \/ d.ref[c] = b.ref[c] /\ (Bidirectional /\ <<p, c>> \in seen => b.ref[c] # Unread)
        \/ d.ref[c] = p /\ Bidirectional /\ <<p, c>> \in seen
    BY InitialisedRefs
  <2>3. p \in w <=> <<p, c>> \in seen
    OBVIOUS
  <2> QED
    BY <2>1, <2>2, <2>3
<1>2. /\ \A q \in Parent \ {p} : c \in d.coll[q] <=> c \in b.coll[q]
      /\ c \in d.coll[p] <=> p \in w
      /\ b.loaded \subseteq Parent /\ p \notin b.loaded
  <2>1. \A q \in Parent : c \in d.coll[q] <=> IF q = p THEN <<p, c>> \in seen ELSE c \in b.coll[q]
    BY InitialisedElements
  <2> QED
    BY <2>1 DEF SessionState
<1>3. CASE Torn(b, c)
  BY <1>1, <1>2, <1>3 DEF Torn, Fitting
<1>4. CASE Fits(b, w, c) /\ p \notin w
  <2>1. c \notin b.coll[p] /\ d.ref[c] = b.ref[c]
    BY <1>1, <1>2, <1>4 DEF Fits, ReadIn
  <2>2. \A q \in Parent : c \in d.coll[q] <=> c \in b.coll[q]
    BY <1>2, <1>4, <2>1
  <2>3. InsertsFit(d, w, c) /\ DeletesFit(d, c)
    BY <1>1, <1>2, <1>4, <2>1, <2>2 DEF Fits, InsertsFit, DeletesFit
  <2>4. RefFits(d, w, c)
    BY <1>1, <1>2, <1>4, <2>1, <2>2
    DEF Fits, RefFits, ParentFits, NullFits, UnreadFits, Unsaved, Removing
  <2>5. NotParented(d, w, c)
    BY <1>1, <1>4 DEF Fits, NotParented, Unsaved, Removing
  <2>6. Shown(d, w, c)
    BY <1>1, <1>2, <1>4, <2>2 DEF Fits, Shown
  <2>7. Keyed(d, c) /\ ReadIn(d, c)
    BY <1>1, <1>4, <2>1, <2>2 DEF Fits, Keyed, ReadIn
  <2> QED
    BY <2>3, <2>4, <2>5, <2>6, <2>7 DEF Fits, Fitting
<1>5. CASE Fits(b, w, c) /\ p \in w /\ \E q \in b.loaded : c \in b.coll[q]
  <2>1. PICK q \in b.loaded : c \in b.coll[q]
    BY <1>5
  <2> QED
    BY <1>1, <1>2, <1>5, <2>1 DEF Torn, Fitting
<1>6. CASE Fits(b, w, c) /\ p \in w /\ \A q \in b.loaded : c \notin b.coll[q]
  <2>1. w = {p}
    BY <1>6
  <2>2. \A q \in Parent : c \notin b.ins[q]
    BY <1>2, <1>6 DEF Fits, InsertsFit
  <2>3. c \notin b.del[p]
    BY <1>2, <1>6 DEF Fits, DeletesFit
  <2>4. \A q \in Parent : c \in d.coll[q] <=> q = p
    BY <1>2, <1>6 DEF Fits, ReadIn
  <2>5. InsertsFit(d, w, c) /\ Shown(d, w, c)
    BY <1>1, <2>1, <2>2, <2>4 DEF InsertsFit, Shown
  <2>6. DeletesFit(d, c)
    BY <1>1, <1>2, <1>6, <2>3, <2>4, NodeTypes DEF Fits, DeletesFit
  <2>7. Removing(d, c) = Removing(b, c) /\ (Unsaved(d, c) <=> Unsaved(b, c))
    BY <1>1 DEF Removing, Unsaved
  <2>8. ParentFits(b, w, c) /\ NullFits(b, w, c) /\ UnreadFits(b, w, c)
    BY <1>6, <2>2 DEF Fits, RefFits
  <2>9. RefFits(d, w, c)
    <3>1. CASE d.ref[c] = p
      BY <2>1, <3>1, NodeTypes DEF RefFits, ParentFits, NullFits, UnreadFits
    <3>2. CASE d.ref[c] # p /\ b.ref[c] # Unread /\ d.ref[c] = b.ref[c]
      BY <1>1, <2>1, <2>4, <2>7, <2>8, <3>2 DEF RefFits, ParentFits, NullFits, UnreadFits
    <3> QED
      BY <1>1, <1>6, <3>1, <3>2
  <2>10. NotParented(d, w, c)
    BY <1>1, <1>6, <2>7 DEF Fits, NotParented
  <2>11. Keyed(d, c)
    BY <1>1, <1>6, <2>2 DEF Fits, Keyed
  <2>12. ReadIn(d, c)
    BY <1>1, <1>6, <2>4, NodeTypes DEF ReadIn
  <2> QED
    BY <2>5, <2>6, <2>9, <2>10, <2>11, <2>12 DEF Fits, Fitting
<1> QED
  BY <1>3, <1>4, <1>5, <1>6 DEF Fitting

\* A parent is saved: its elements are inserted again and refer to it.
LEMMA SavedParentFits ==
    ASSUME NEW b \in SessionState, NEW c \in Child, NEW w, NEW p \in Parent, Bidirectional,
           Fitting(b, w, c), NEW d \in SessionState, d = SavedParent(b, p)
    PROVE  Fitting(d, w, c)
<1>1. /\ d.loaded = b.loaded /\ d.coll = b.coll
      /\ \A e \in Child : d.ref[e] = IF e \in b.coll[p] THEN p ELSE b.ref[e]
      /\ d.parented = b.parented \cup (b.coll[p] \ b.dirty)
      /\ d.dirty = b.dirty \cup b.coll[p] /\ d.upd = b.upd \cup {p} \cup b.coll[p]
      /\ d.ins = [b.ins EXCEPT ![p] = @ \cup b.coll[p]]
      /\ d.del = b.del /\ d.nulled = b.nulled
  <2>1. /\ d.loaded = b.loaded /\ d.coll = b.coll /\ d.del = b.del /\ d.nulled = b.nulled
        /\ d.ins = [b.ins EXCEPT ![p] = @ \cup b.coll[p]]
    BY SavedParentFields
  <2> QED
    BY <2>1, SavedParentCascade
<1>3. /\ \A q \in Parent \ {p} : d.ins[q] = b.ins[q]
      /\ d.ins[p] = b.ins[p] \cup b.coll[p]
      /\ d.ref[c] = IF c \in b.coll[p] THEN p ELSE b.ref[c]
      /\ c # p /\ b.loaded \subseteq Parent
  BY <1>1, NodeAssumption DEF SessionState
<1>4. CASE Torn(b, c)
  BY <1>1, <1>4 DEF Torn, Fitting
<1>5. CASE c \notin b.coll[p]
  <2>1. SameFor(b, d, c)
    BY <1>1, <1>3, <1>5 DEF SameFor
  <2> QED
    BY <2>1, SameFits
<1>6. CASE Fits(b, w, c) /\ ~Torn(b, c) /\ c \in b.coll[p]
  <2>1. p \in b.loaded /\ \A q \in b.loaded \ {p} : c \notin b.coll[q]
    BY <1>6 DEF Fits, ReadIn, Torn
  <2>2. \A q \in Parent : c \in d.ins[q] <=> q = p
    BY <1>3, <1>6, <2>1 DEF Fits, InsertsFit
  <2>3. c \notin b.del[p]
    BY <1>6 DEF Fits, DeletesFit
  <2>4. d.ref[c] = p /\ c \in d.upd /\ p \in d.upd
    BY <1>1, <1>3, <1>6
  <2>5. InsertsFit(d, w, c)
    BY <1>1, <1>6, <2>1, <2>2, <2>3, <2>4 DEF InsertsFit
  <2>6. DeletesFit(d, c)
    BY <1>1, <1>6, <2>3, <2>4, NodeTypes DEF Fits, DeletesFit
  <2>7. RefFits(d, w, c) /\ NotParented(d, w, c)
    BY <2>2, <2>4 DEF RefFits, NotParented, Unsaved
  <2>8. Shown(d, w, c)
    BY <1>1, <1>6 DEF Fits, Shown
  <2>9. Keyed(d, c)
    BY <1>1, <1>6, <2>2, <2>4 DEF Fits, Keyed
  <2>10. ReadIn(d, c)
    BY <1>1, <1>6, <2>4, NodeTypes DEF Fits, ReadIn
  <2> QED
    BY <2>5, <2>6, <2>7, <2>8, <2>9, <2>10 DEF Fits, Fitting
<1> QED
  BY <1>4, <1>5, <1>6 DEF Fitting

LEMMA OutcomeNone == \A vis, r : Outcome(vis, <<>>, r) <=> r \in vis
BY DEF Outcome

\* Running the next statement does not change what will be in the end.
LEMMA OutcomeStep ==
    ASSUME NEW sts \in Seq(StatementType), sts # <<>>, NEW vis, NEW seen, NEW r,
           r \in seen <=> (r \in vis /\ ~Kills(Head(sts), r)) \/ Makes(Head(sts), r)
    PROVE  Outcome(vis, sts, r) <=> Outcome(seen, Tail(sts), r)
<1> DEFINE n == Len(sts)
           tl == Tail(sts)
           K(i) == Kills(sts[i], r)
           M(i) == Makes(sts[i], r)
<1> HIDE DEF StatementType
<1>1. /\ n \in Nat \ {0} /\ Len(tl) = n - 1
      /\ \A i \in 1..(n - 1) : tl[i] = sts[i + 1]
      /\ Head(sts) = sts[1]
  OBVIOUS
<1>2. /\ Outcome(vis, sts, r) <=>
            \/ r \in vis /\ \A i \in 1..n : ~K(i)
            \/ \E i \in 1..n : M(i) /\ \A j \in (i + 1)..n : ~K(j)
      /\ r \in seen <=> (r \in vis /\ ~K(1)) \/ M(1)
  BY <1>1 DEF Outcome
<1>3. Outcome(seen, tl, r) <=>
         \/ r \in seen /\ \A i \in 1..(n - 1) : ~K(i + 1)
         \/ \E i \in 1..(n - 1) : M(i + 1) /\ \A j \in (i + 1)..(n - 1) : ~K(j + 1)
  BY <1>1 DEF Outcome
<1> HIDE DEF n, tl, K, M
<1>4. ASSUME r \in vis, \A i \in 1..n : ~K(i)
      PROVE  r \in seen /\ \A i \in 1..(n - 1) : ~K(i + 1)
  BY <1>1, <1>2, <1>4
<1>5. ASSUME NEW i \in 1..n, M(i), \A j \in (i + 1)..n : ~K(j)
      PROVE  Outcome(seen, tl, r)
  <2>1. CASE i = 1
    BY <1>1, <1>2, <1>3, <1>5, <2>1
  <2>2. CASE i # 1
    <3>1. i - 1 \in 1..(n - 1) /\ (i - 1) + 1 = i
      BY <1>1, <2>2
    <3>2. \A j \in i..(n - 1) : ~K(j + 1)
      BY <1>1, <1>5
    <3> QED
      BY <1>3, <1>5, <3>1, <3>2
  <2> QED
    BY <2>1, <2>2
<1>6. ASSUME r \in seen, \A i \in 1..(n - 1) : ~K(i + 1)
      PROVE  Outcome(vis, sts, r)
  <2>1. \A j \in 2..n : ~K(j)
    <3> SUFFICES ASSUME NEW j \in 2..n PROVE ~K(j)
      OBVIOUS
    <3>1. j - 1 \in 1..(n - 1) /\ (j - 1) + 1 = j
      BY <1>1
    <3> QED
      BY <1>6, <3>1
  <2>2. 1 \in 1..n /\ 1 + 1 = 2 /\ \A j \in 1..n : j = 1 \/ j \in 2..n
    BY <1>1
  <2> QED
    BY <1>2, <1>6, <2>1, <2>2
<1>7. ASSUME NEW i \in 1..(n - 1), M(i + 1), \A j \in (i + 1)..(n - 1) : ~K(j + 1)
      PROVE  Outcome(vis, sts, r)
  <2>1. i + 1 \in 1..n
    BY <1>1
  <2>2. \A j \in ((i + 1) + 1)..n : ~K(j)
    <3> SUFFICES ASSUME NEW j \in ((i + 1) + 1)..n PROVE ~K(j)
      OBVIOUS
    <3>1. j - 1 \in (i + 1)..(n - 1) /\ (j - 1) + 1 = j
      BY <1>1
    <3> QED
      BY <1>7, <3>1
  <2> QED
    BY <1>2, <1>7, <2>1, <2>2
<1> QED
  BY <1>2, <1>3, <1>4, <1>5, <1>6, <1>7 DEF tl

\* The statements sts begin with st and go on with tl, as far as r is concerned.
Continues(sts, st, tl, r) ==
    \A vis : \E seen : /\ Outcome(vis, sts, r) <=> Outcome(seen, tl, r)
                       /\ r \in seen <=> (r \in vis /\ ~Kills(st, r)) \/ Makes(st, r)

LEMMA OutcomeFirst ==
    ASSUME NEW sts \in Seq(StatementType), sts # <<>>, NEW r
    PROVE  Continues(sts, Head(sts), Tail(sts), r)
<1> SUFFICES ASSUME NEW vis
             PROVE  \E seen : /\ Outcome(vis, sts, r) <=> Outcome(seen, Tail(sts), r)
                              /\ r \in seen <=> (r \in vis /\ ~Kills(Head(sts), r)) \/ Makes(Head(sts), r)
  BY DEF Continues
<1> DEFINE u == IF (r \in vis /\ ~Kills(Head(sts), r)) \/ Makes(Head(sts), r) THEN {r} ELSE {}
<1>1. r \in u <=> (r \in vis /\ ~Kills(Head(sts), r)) \/ Makes(Head(sts), r)
  OBVIOUS
<1> HIDE DEF u
<1>2. Outcome(vis, sts, r) <=> Outcome(u, Tail(sts), r)
  BY <1>1, OutcomeStep
<1> QED
  BY <1>1, <1>2

\* What the statements of the key of p make of the relationships.
LEMMA KeyOutcome ==
    ASSUME NEW b \in SessionState, NEW p \in Parent, NEW vis, NEW q \in Parent, NEW c \in Child
    PROVE  Outcome(vis, KeyStatements(b, p), <<q, c>>) <=>
              /\ ~(q = p /\ c \in b.del[p])
              /\ IF c \in b.ins[p] THEN q = p \/ (~Bidirectional /\ <<q, c>> \in vis)
                                   ELSE <<q, c>> \in vis
<1> DEFINE P == Statement("previous", p, b.ins[p])
           M == Statement("merge", p, b.ins[p])
           D == Statement("delete", p, b.del[p])
           r == <<q, c>>
           sts == KeyStatements(b, p)
<1>1. /\ \A op \in {"previous", "merge", "delete"}, cs \in SUBSET Child :
            Statement(op, p, cs) \in StatementType
      /\ b.ins[p] \in SUBSET Child /\ b.del[p] \in SUBSET Child
  BY DEF Statement, StatementType, SessionState
<1>2. P \in StatementType /\ M \in StatementType /\ D \in StatementType
  BY <1>1
<1>3. /\ Kills(P, r) <=> c \in b.ins[p]
      /\ ~Kills(M, r)
      /\ Kills(D, r) <=> q = p /\ c \in b.del[p]
      /\ ~Makes(P, r) /\ ~Makes(D, r)
      /\ Makes(M, r) <=> q = p /\ c \in b.ins[p]
  BY DEF Kills, Makes, Statement
<1>4. sts = (IF b.ins[p] # {} THEN (IF Bidirectional THEN <<P, M>> ELSE <<M>>) ELSE <<>>)
            \o (IF b.del[p] # {} THEN <<D>> ELSE <<>>)
  BY DEF KeyStatements, InsertStatements
<1> HIDE DEF StatementType, P, M, D, r, sts
<1>5. /\ <<P, M>> \o <<D>> = <<P, M, D>> /\ <<M>> \o <<D>> = <<M, D>>
      /\ <<P, M>> \o <<>> = <<P, M>> /\ <<M>> \o <<>> = <<M>>
      /\ <<>> \o <<D>> = <<D>> /\ <<>> \o <<>> = <<>>
  BY Joined, <1>2
<1> DEFINE PMD == <<P, M, D>>
           PM == <<P, M>>
           MD == <<M, D>>
           ML == <<M>>
           DL == <<D>>
<1>6. /\ Tail(PMD) = MD /\ Tail(PM) = ML /\ Tail(MD) = DL /\ Tail(ML) = <<>> /\ Tail(DL) = <<>>
      /\ Head(PMD) = P /\ Head(PM) = P /\ Head(MD) = M /\ Head(ML) = M /\ Head(DL) = D
      /\ PMD \in Seq(StatementType) /\ PM \in Seq(StatementType) /\ MD \in Seq(StatementType)
      /\ ML \in Seq(StatementType) /\ DL \in Seq(StatementType)
      /\ PMD # <<>> /\ PM # <<>> /\ MD # <<>> /\ ML # <<>> /\ DL # <<>>
  BY <1>2
<1> HIDE DEF PMD, PM, MD, ML, DL
<1>7. /\ Continues(PMD, P, MD, r) /\ Continues(PM, P, ML, r) /\ Continues(MD, M, DL, r)
      /\ Continues(ML, M, <<>>, r) /\ Continues(DL, D, <<>>, r)
  BY <1>6, OutcomeFirst
<1>8. \A v : Outcome(v, DL, r) <=> r \in v /\ ~Kills(D, r)
  BY <1>3, <1>7, OutcomeNone DEF Continues
<1>9. \A v : Outcome(v, ML, r) <=> r \in v \/ Makes(M, r)
  BY <1>3, <1>7, OutcomeNone DEF Continues
<1>10. \A v : Outcome(v, MD, r) <=> (r \in v \/ Makes(M, r)) /\ ~Kills(D, r)
  BY <1>3, <1>7, <1>8 DEF Continues
<1>11. \A v : Outcome(v, PM, r) <=> (r \in v /\ ~Kills(P, r)) \/ Makes(M, r)
  BY <1>3, <1>7, <1>9 DEF Continues
<1>12. \A v : Outcome(v, PMD, r) <=> ((r \in v /\ ~Kills(P, r)) \/ Makes(M, r)) /\ ~Kills(D, r)
  BY <1>3, <1>7, <1>10 DEF Continues
<1>13. CASE b.ins[p] = {}
  BY <1>3, <1>4, <1>5, <1>8, <1>13, OutcomeNone DEF r, sts, DL
<1>14. CASE b.ins[p] # {} /\ Bidirectional
  BY <1>3, <1>4, <1>5, <1>11, <1>12, <1>14 DEF r, sts, PM, PMD
<1>15. CASE b.ins[p] # {} /\ ~Bidirectional
  BY <1>3, <1>4, <1>5, <1>9, <1>10, <1>15 DEF r, sts, ML, MD
<1> QED
  BY <1>13, <1>14, <1>15

LEMMA OrphanOutcome ==
    ASSUME NEW x \in Child, NEW vis, NEW q \in Parent, NEW c \in Child
    PROVE  Outcome(vis, <<Statement("orphan", NoParent, {x})>>, <<q, c>>) <=> <<q, c>> \in vis /\ c # x
<1> DEFINE st == Statement("orphan", NoParent, {x})
           sts == <<st>>
<1>1. st \in StatementType /\ (Kills(st, <<q, c>>) <=> c = x) /\ ~Makes(st, <<q, c>>)
  BY DEF Statement, StatementType, Kills, Makes
<1> HIDE DEF st
<1>2. Len(sts) = 1 /\ sts[1] = st
  OBVIOUS
<1> HIDE DEF sts
<1> QED
  BY <1>1, <1>2 DEF Outcome, sts, st

-----------------------------------------------------------------------------
(***************************************************************************)
(* What a flush does to the invariant of a child.                          *)
(***************************************************************************)

\* The session after the update of x has turned the queues of p into statements.
Served(b, p, x) == Tracked([b EXCEPT !.ins[p] = {}, !.del[p] = {}], x)

LEMMA KeyFields ==
    ASSUME NEW b \in SessionState, NEW p \in Parent, NEW x, NEW d, d = Served(b, p, x)
    PROVE  /\ d.loaded = b.loaded /\ d.coll = b.coll /\ d.ref = b.ref /\ d.nulled = b.nulled
           /\ d.upd = b.upd \ {x} /\ d.dirty = b.dirty \ {x} /\ d.parented = b.parented \ {x}
           /\ \A q \in Parent : d.ins[q] = IF q = p THEN {} ELSE b.ins[q]
           /\ \A q \in Parent : d.del[q] = IF q = p THEN {} ELSE b.del[q]
<1>1. /\ d.loaded = b.loaded /\ d.coll = b.coll /\ d.ref = b.ref /\ d.nulled = b.nulled
      /\ d.ins = [b.ins EXCEPT ![p] = {}] /\ d.del = [b.del EXCEPT ![p] = {}]
      /\ d.upd = b.upd \ {x} /\ d.dirty = b.dirty \ {x} /\ d.parented = b.parented \ {x}
  BY DEF Served, Tracked, SessionState
<1>2. b.ins \in [Parent -> SUBSET Child] /\ b.del \in [Parent -> SUBSET Child]
  BY DEF SessionState
<1>3. \A q \in Parent : d.ins[q] = IF q = p THEN {} ELSE b.ins[q]
  BY <1>1, <1>2
<1>4. \A q \in Parent : d.del[q] = IF q = p THEN {} ELSE b.del[q]
  BY <1>1, <1>2
<1> QED
  BY <1>1, <1>3, <1>4

\* The update of x flushes the key of p: the graph will have for c what the queues of
\* the key say, and the other keys still fit.
LEMMA KeyFits ==
    ASSUME NEW b \in SessionState, NEW c \in Child, NEW w, NEW p \in Parent, NEW x \in b.upd,
           KeyParent(b, x) = p, b.dirty \subseteq b.upd, w \subseteq Parent, Fitting(b, w, c),
           NEW v, v \subseteq Parent,
           \A q \in Parent : q \in v <=> /\ ~(q = p /\ c \in b.del[p])
                                         /\ IF c \in b.ins[p] THEN q = p ELSE q \in w,
           NEW d, d = Served(b, p, x)
    PROVE  Fitting(d, v, c)
<1>1. /\ d.loaded = b.loaded /\ d.coll = b.coll /\ d.ref = b.ref /\ d.nulled = b.nulled
      /\ d.upd = b.upd \ {x} /\ d.dirty = b.dirty \ {x} /\ d.parented = b.parented \ {x}
  BY KeyFields
<1>2. /\ \A q \in Parent : d.ins[q] = IF q = p THEN {} ELSE b.ins[q]
      /\ \A q \in Parent : d.del[q] = IF q = p THEN {} ELSE b.del[q]
  BY KeyFields
<1>3. /\ x = c => b.ref[c] = p
      /\ \A q \in Parent \ {p} : q # x
      /\ ~Unsaved(d, c) /\ ~Unsaved(b, c)
      /\ Removing(d, c) = Removing(b, c) \ {p}
      /\ b.loaded \subseteq Parent
      /\ \A q \in Parent : q \in b.dirty \cup b.upd /\ q # p => q \in d.dirty \cup d.upd
  BY <1>1, <1>2, NodeAssumption DEF KeyParent, Unsaved, Removing, SessionState
<1>4. CASE Torn(b, c)
  BY <1>1, <1>4 DEF Torn, Fitting
<1>5. CASE Fits(b, w, c)
  <2>1. DeletesFit(d, c) /\ ReadIn(d, c)
    BY <1>1, <1>2, <1>5 DEF Fits, DeletesFit, ReadIn
  <2>2. Keyed(d, c)
    BY <1>1, <1>2, <1>3, <1>5 DEF Fits, Keyed
  <2>3. NotParented(d, v, c)
    BY <1>3 DEF NotParented
  <2>4. CASE c \in b.ins[p] /\ c \in b.del[p]
    <3>1. v = {}
      BY <2>4
    <3>2. \A q \in Parent : c \notin d.ins[q]
      BY <1>2, <1>5, <2>4 DEF Fits, InsertsFit
    <3>3. b.ref[c] = NoParent
      BY <1>5, <2>4 DEF Fits, InsertsFit
    <3>4. RefFits(d, v, c)
      BY <1>1, <3>1, <3>3, NodeTypes DEF RefFits, ParentFits, NullFits, UnreadFits
    <3> QED
      BY <2>1, <2>2, <2>3, <3>1, <3>2, <3>4 DEF Fits, Fitting, InsertsFit, Shown
  <2>5. CASE c \in b.ins[p] /\ c \notin b.del[p]
    <3>1. v = {p}
      BY <2>5
    <3>2. b.ref[c] = p /\ c \in b.coll[p] /\ p \in b.loaded
      BY <1>5, <2>5 DEF Fits, InsertsFit
    <3>3. \A q \in Parent : c \notin d.ins[q]
      BY <1>2, <1>5, <3>2, NodeTypes DEF Fits, InsertsFit
    <3>4. RefFits(d, v, c)
      BY <1>1, <3>1, <3>2, NodeTypes DEF RefFits, ParentFits, NullFits, UnreadFits
    <3>5. Shown(d, v, c)
      BY <1>1, <3>1, <3>2 DEF Shown
    <3> QED
      BY <2>1, <2>2, <2>3, <3>3, <3>4, <3>5 DEF Fits, Fitting, InsertsFit
  <2>6. CASE c \notin b.ins[p]
    <3>1. v \subseteq w /\ \A q \in w : q \in v \/ (q = p /\ c \in b.del[p])
      BY <2>6
    <3>2. InsertsFit(d, v, c)
      BY <1>1, <1>2, <1>3, <1>5, <3>1 DEF Fits, InsertsFit
    <3>3. ASSUME \A q \in Parent : c \notin d.ins[q]
          PROVE  ParentFits(d, v, c) /\ NullFits(d, v, c) /\ UnreadFits(d, v, c)
      <4>1. ParentFits(b, w, c) /\ NullFits(b, w, c) /\ UnreadFits(b, w, c)
        BY <1>2, <1>5, <2>6, <3>3 DEF Fits, RefFits
      <4>2. c \in b.del[p] => b.ref[c] # p
        BY <1>5 DEF Fits, DeletesFit
      <4>3. ParentFits(d, v, c)
        BY <1>1, <1>3, <3>1, <4>1, <4>2 DEF ParentFits
      <4>4. NullFits(d, v, c)
        BY <1>1, <1>3, <3>1, <4>1, NodeTypes DEF NullFits, Removing
      <4>5. UnreadFits(d, v, c)
        BY <1>1, <3>1, <4>1 DEF UnreadFits
      <4> QED
        BY <4>3, <4>4, <4>5
    <3>4. Shown(d, v, c)
      BY <1>1, <1>2, <1>3, <1>5, <3>1 DEF Fits, Shown
    <3> QED
      BY <2>1, <2>2, <2>3, <3>2, <3>3, <3>4 DEF Fits, Fitting, RefFits
  <2> QED
    BY <2>4, <2>5, <2>6
<1> QED
  BY <1>4, <1>5 DEF Fitting

\* The update of x flushes no collection: if the to-one of c became null, its
\* relationships are deleted.
LEMMA NullKeyFits ==
    ASSUME NEW b \in SessionState, NEW c \in Child, NEW w, NEW x \in b.upd,
           KeyParent(b, x) \notin Parent, b.dirty \subseteq b.upd, w \subseteq Parent,
           Fitting(b, w, c),
           NEW v, v = IF c = x /\ x \in b.nulled THEN {} ELSE w,
           NEW d \in SessionState, d = Tracked([b EXCEPT !.nulled = b.nulled \ {x}], x)
    PROVE  Fitting(d, v, c)
<1>1. /\ d.loaded = b.loaded /\ d.coll = b.coll /\ d.ref = b.ref /\ d.nulled = b.nulled \ {x}
      /\ d.ins = b.ins /\ d.del = b.del
      /\ d.upd = b.upd \ {x} /\ d.dirty = b.dirty \ {x} /\ d.parented = b.parented \ {x}
  BY DEF Tracked, SessionState
<1>2. x \notin Parent /\ b.ref[x] \notin Parent /\ b.loaded \subseteq Parent
  BY DEF KeyParent, SessionState
<1>3. CASE c # x
  <2>1. SameFor(b, d, c)
    BY <1>1, <1>2, <1>3 DEF SameFor
  <2> QED
    BY <1>3, <2>1, SameFits
<1>4. CASE Torn(b, c)
  BY <1>1, <1>4 DEF Torn, Fitting
<1>5. CASE c = x /\ Fits(b, w, c)
  <2>1. v \subseteq w /\ (c \in b.nulled => v = {})
    BY <1>5
  <2>2. ~Unsaved(d, c) /\ ~Unsaved(b, c) /\ Removing(d, c) = Removing(b, c)
    BY <1>1, <1>5 DEF Unsaved, Removing
  <2>3. InsertsFit(d, v, c) /\ DeletesFit(d, c)
    <3>1. InsertsFit(b, w, c) /\ DeletesFit(b, c)
      BY <1>5 DEF Fits
    <3>2. InsertsFit(d, v, c)
      <4> SUFFICES ASSUME NEW p \in Parent, c \in b.ins[p]
                   PROVE  /\ p \in b.loaded /\ c \in b.del[p] /\ b.ref[c] = NoParent /\ v \subseteq {p}
                          /\ \A q \in b.loaded : c \notin b.coll[q]
                          /\ \A q \in Parent \ {p} : c \notin b.ins[q]
        BY <1>1 DEF InsertsFit
      <4>1. b.ref[c] # p
        BY <1>2, <1>5
      <4> QED
        BY <2>1, <3>1, <4>1 DEF InsertsFit
    <3>3. DeletesFit(d, c)
      BY <1>1, <3>1 DEF DeletesFit
    <3> QED
      BY <3>2, <3>3
  <2>4. RefFits(d, v, c) /\ NotParented(d, v, c)
    BY <1>1, <1>2, <1>5, <2>1, <2>2 DEF Fits, RefFits, ParentFits, NullFits, UnreadFits, NotParented
  <2>5. Shown(d, v, c) /\ ReadIn(d, c)
    BY <1>1, <1>5, <2>1 DEF Fits, Shown, ReadIn
  <2>6. Keyed(d, c)
    BY <1>1, <1>2, <1>5 DEF Fits, Keyed
  <2> QED
    BY <2>3, <2>4, <2>5, <2>6 DEF Fits, Fitting
<1> QED
  BY <1>3, <1>4, <1>5 DEF Fitting

\* When no update is pending any more, no queue has the child.
LEMMA QueuesWritten ==
    ASSUME NEW b, NEW c, NEW w, b.upd = {}, b.dirty \subseteq b.upd, Fits(b, w, c)
    PROVE  \A p \in Parent : c \notin b.ins[p] /\ c \notin b.del[p]
BY DEF Fits, Keyed

LEMMA ClearedFits ==
    ASSUME NEW b \in SessionState, NEW c \in Child, NEW w, b.upd = {}, b.dirty \subseteq b.upd,
           Fitting(b, w, c), NEW d, d = Cleared(b)
    PROVE  Fitting(d, w, c)
<1>1. /\ d.loaded = b.loaded /\ d.coll = b.coll /\ d.ref = b.ref /\ d.dirty = b.dirty
      /\ d.upd = {} /\ d.parented = b.parented
      /\ \A p \in Parent : d.ins[p] = {} /\ d.del[p] = {}
  BY DEF Cleared, SessionState
<1>2. CASE Torn(b, c)
  BY <1>1, <1>2 DEF Torn, Fitting
<1>3. CASE Fits(b, w, c)
  <2>1. \A p \in Parent : c \notin b.ins[p] /\ c \notin b.del[p]
    BY <1>3, QueuesWritten
  <2>2. Removing(b, c) = {} /\ ~Unsaved(b, c) /\ ~Unsaved(d, c)
    BY <1>1, <2>1 DEF Removing, Unsaved
  <2>3. RefFits(d, w, c) /\ NotParented(d, w, c)
    BY <1>1, <1>3, <2>1, <2>2 DEF Fits, RefFits, ParentFits, NullFits, UnreadFits, NotParented
  <2>4. InsertsFit(d, w, c) /\ DeletesFit(d, c) /\ Keyed(d, c)
    BY <1>1 DEF InsertsFit, DeletesFit, Keyed
  <2>5. Shown(d, w, c) /\ ReadIn(d, c)
    BY <1>1, <1>3, <2>1 DEF Fits, Shown, ReadIn, SessionState
  <2> QED
    BY <2>3, <2>4, <2>5 DEF Fits, Fitting
<1> QED
  BY <1>2, <1>3 DEF Fitting

LEMMA BlankFits == \A c \in Child : \A w : Fitting(Blank, w, c)
<1> TAKE c \in Child
<1> TAKE w
<1>1. /\ Blank.loaded = {} /\ Blank.dirty = {} /\ Blank.ref[c] = Unread
      /\ \A p \in Parent : Blank.ins[p] = {} /\ Blank.del[p] = {} /\ Blank.coll[p] = {}
  BY DEF Blank
<1>2. RefFits(Blank, w, c)
  BY <1>1, NodeTypes DEF RefFits, ParentFits, NullFits, UnreadFits
<1> QED
  BY <1>1, <1>2 DEF Fitting, Fits, InsertsFit, DeletesFit, NotParented, Unsaved, Shown, Keyed, ReadIn

\* When everything is written, what a child that is in one collection at most shows
\* is what the graph has.
LEMMA FittingAgrees ==
    ASSUME NEW b \in SessionState, NEW c \in Child, NEW w, b.upd = {}, b.dirty \subseteq b.upd,
           Fitting(b, w, c), \A q \in b.loaded : c \in b.coll[q] <=> b.ref[c] = q
    PROVE  \A p \in b.loaded : p \in w <=> c \in b.coll[p]
<1>1. Fits(b, w, c) /\ b.loaded \subseteq Parent
  BY DEF Fitting, Torn, SessionState
<1>2. \A p \in Parent : c \notin b.ins[p] /\ c \notin b.del[p]
  BY <1>1, QueuesWritten
<1>3. ~Unsaved(b, c)
  BY DEF Unsaved
<1>4. b.ref[c] \in Parent => w = {b.ref[c]}
  BY <1>1, <1>2, <1>3 DEF Fits, RefFits, ParentFits
<1> QED
  BY <1>1, <1>2, <1>4 DEF Fits, Shown

-----------------------------------------------------------------------------
(***************************************************************************)
(* What the application's changes do to the invariant of a child.          *)
(***************************************************************************)

\* Where the instances of a session agree, a child is in one collection at most.
LEMMA ConsistentWhole ==
    ASSUME NEW b, NEW c, Bidirectional, Consistent(b, c)
    PROVE  ~Torn(b, c) /\ \A q \in b.loaded : c \in b.coll[q] <=> b.ref[c] = q
BY DEF Consistent, Torn

LEMMA AddedFits ==
    ASSUME NEW b \in SessionState, NEW c \in Child, NEW w, NEW p \in Parent, NEW e \in Child,
           Bidirectional, w \subseteq Parent, Fitting(b, w, c),
           e = c => /\ p \in b.loaded /\ c \notin b.coll[p]
                    /\ Consistent(b, c) /\ ~ConnectsAgain(b, p, c),
           NEW d \in SessionState, d = Added(b, p, e)
    PROVE  Fitting(d, w, c)
<1>1. /\ d.loaded = b.loaded /\ d.coll = [b.coll EXCEPT ![p] = @ \cup {e}]
      /\ d.ref = [b.ref EXCEPT ![e] = p]
      /\ d.dirty = b.dirty \cup {p} /\ d.parented = b.parented
      /\ d.ins = [b.ins EXCEPT ![p] = @ \cup {e}]
      /\ d.del = b.del /\ d.nulled = b.nulled /\ d.upd = b.upd
  <2>1. d.ref = [b.ref EXCEPT ![e] = p]
    BY AddedRef
  <2>2. /\ d.loaded = b.loaded /\ d.coll = [b.coll EXCEPT ![p] = @ \cup {e}]
        /\ d.dirty = b.dirty \cup {p} /\ d.parented = b.parented
        /\ d.ins = [b.ins EXCEPT ![p] = @ \cup {e}]
        /\ d.del = b.del /\ d.nulled = b.nulled /\ d.upd = b.upd
    BY AddedFields
  <2> QED
    BY <2>1, <2>2
<1>2. /\ \A q \in Parent : d.coll[q] = IF q = p THEN b.coll[q] \cup {e} ELSE b.coll[q]
      /\ \A q \in Parent : d.ins[q] = IF q = p THEN b.ins[q] \cup {e} ELSE b.ins[q]
      /\ d.ref[c] = IF c = e THEN p ELSE b.ref[c]
      /\ b.loaded \subseteq Parent /\ c # p
  <2>1. b.coll \in [Parent -> SUBSET Child] /\ b.ins \in [Parent -> SUBSET Child]
    BY DEF SessionState
  <2>2. b.ref \in [Child -> Parent \cup {NoParent, Unread}] /\ b.loaded \subseteq Parent
    BY DEF SessionState
  <2>3. \A q \in Parent : d.coll[q] = IF q = p THEN b.coll[q] \cup {e} ELSE b.coll[q]
    BY <1>1, <2>1
  <2>4. \A q \in Parent : d.ins[q] = IF q = p THEN b.ins[q] \cup {e} ELSE b.ins[q]
    BY <1>1, <2>1
  <2>5. d.ref[c] = IF c = e THEN p ELSE b.ref[c]
    BY <1>1, <2>2
  <2> QED
    BY <2>2, <2>3, <2>4, <2>5, NodeAssumption
<1>3. CASE e # c
  <2>1. SameFor(b, d, c)
    BY <1>1, <1>2, <1>3 DEF SameFor
  <2> QED
    BY <2>1, SameFits
<1>4. CASE e = c /\ \E q \in b.loaded : c \in b.coll[q]
  <2>1. PICK q \in b.loaded : c \in b.coll[q]
    BY <1>4
  <2>2. p \in d.loaded /\ q \in d.loaded /\ p # q /\ c \in d.coll[p] /\ c \in d.coll[q]
    BY <1>1, <1>2, <1>4, <2>1
  <2> QED
    BY <2>2 DEF Torn, Fitting
<1>5. CASE e = c /\ \A q \in b.loaded : c \notin b.coll[q]
  <2>1. Fits(b, w, c) /\ p \in b.loaded
    BY <1>5, ConsistentWhole DEF Fitting
  <2>2. /\ c \notin b.del[p] /\ \A q \in Parent \ {p} : c \notin b.ins[q]
        /\ \A q \in Parent : c \in d.coll[q] <=> q = p
        /\ \A q \in Parent : c \in d.ins[q] <=> q = p
    BY <1>2, <1>5, <2>1 DEF ConnectsAgain, Fits, ReadIn
  <2>3. d.ref[c] = p /\ p \notin w
    BY <1>2, <1>5, <2>1, <2>2 DEF Fits, Shown
  <2>4. InsertsFit(d, w, c)
    BY <1>1, <2>1, <2>2, <2>3 DEF InsertsFit
  <2>5. DeletesFit(d, c)
    BY <1>1, <2>1, <2>2, <2>3, NodeTypes DEF Fits, DeletesFit
  <2>6. RefFits(d, w, c)
    BY <2>2 DEF RefFits
  <2>7. NotParented(d, w, c)
    BY <1>1, <1>2, <2>1 DEF Fits, NotParented, Unsaved, Removing
  <2>8. Shown(d, w, c)
    BY <1>1, <1>2, <2>1 DEF Fits, Shown
  <2>9. Keyed(d, c)
    BY <1>1, <2>1, <2>2 DEF Fits, Keyed
  <2>10. ReadIn(d, c)
    BY <1>1, <2>1, <2>2, <2>3, NodeTypes DEF ReadIn
  <2> QED
    BY <2>4, <2>5, <2>6, <2>7, <2>8, <2>9, <2>10 DEF Fits, Fitting
<1> QED
  BY <1>3, <1>4, <1>5

LEMMA RemovedFits ==
    ASSUME NEW b \in SessionState, NEW c \in Child, NEW w, NEW p \in Parent, NEW e \in Child,
           Bidirectional, w \subseteq Parent, Fitting(b, w, c),
           e = c => /\ p \in b.loaded /\ c \in b.coll[p] /\ Consistent(b, c)
                    /\ \A q, r \in w : q = r
                    /\ c \in b.ins[p] => p \in w /\ \A q \in Parent \ {p} : c \notin b.ins[q],
           NEW d \in SessionState, d = Removed(b, p, e)
    PROVE  Fitting(d, w, c)
<1>1. /\ d.loaded = b.loaded /\ d.coll = [b.coll EXCEPT ![p] = @ \ {e}]
      /\ d.ref = [b.ref EXCEPT ![e] = NoParent]
      /\ d.dirty = b.dirty \cup {p} /\ d.parented = b.parented
      /\ d.ins = b.ins /\ d.del = [b.del EXCEPT ![p] = @ \cup {e}]
      /\ d.nulled = b.nulled /\ d.upd = b.upd
  <2>1. /\ d.loaded = b.loaded /\ d.coll = [b.coll EXCEPT ![p] = @ \ {e}]
        /\ d.dirty = b.dirty \cup {p} /\ d.parented = b.parented
        /\ d.ins = b.ins /\ d.del = [b.del EXCEPT ![p] = @ \cup {e}]
        /\ d.nulled = b.nulled /\ d.upd = b.upd
    BY RemovedFields
  <2>2. d.ref = [b.ref EXCEPT ![e] = NoParent]
    BY RemovedRef
  <2> QED
    BY <2>1, <2>2
<1>2. /\ \A q \in Parent : d.coll[q] = IF q = p THEN b.coll[q] \ {e} ELSE b.coll[q]
      /\ \A q \in Parent : d.del[q] = IF q = p THEN b.del[q] \cup {e} ELSE b.del[q]
      /\ d.ref[c] = IF c = e THEN NoParent ELSE b.ref[c]
      /\ b.loaded \subseteq Parent /\ c # p
  <2>1. b.coll \in [Parent -> SUBSET Child] /\ b.del \in [Parent -> SUBSET Child]
    BY DEF SessionState
  <2>2. b.ref \in [Child -> Parent \cup {NoParent, Unread}] /\ b.loaded \subseteq Parent
    BY DEF SessionState
  <2>3. \A q \in Parent : d.coll[q] = IF q = p THEN b.coll[q] \ {e} ELSE b.coll[q]
    BY <1>1, <2>1
  <2>4. \A q \in Parent : d.del[q] = IF q = p THEN b.del[q] \cup {e} ELSE b.del[q]
    BY <1>1, <2>1
  <2>5. d.ref[c] = IF c = e THEN NoParent ELSE b.ref[c]
    BY <1>1, <2>2
  <2> QED
    BY <2>2, <2>3, <2>4, <2>5, NodeAssumption
<1>3. CASE e # c
  <2>1. SameFor(b, d, c)
    BY <1>1, <1>2, <1>3 DEF SameFor
  <2> QED
    BY <2>1, SameFits
<1>4. CASE e = c
  <2>1. Fits(b, w, c) /\ b.ref[c] = p /\ \A q \in b.loaded \ {p} : c \notin b.coll[q]
    BY <1>2, <1>4, ConsistentWhole DEF Fitting
  <2>2. /\ \A q \in Parent : c \notin d.coll[q]
        /\ c \in d.del[p] /\ d.ref[c] = NoParent
        /\ \A q \in Parent \ {p} : c \in d.del[q] <=> c \in b.del[q]
    <3>1. \A q \in Parent \ {p} : c \notin b.coll[q]
      BY <2>1 DEF Fits, ReadIn
    <3>2. \A q \in Parent : c \notin d.coll[q]
      BY <1>2, <1>4, <3>1
    <3>3. c \in d.del[p] /\ d.ref[c] = NoParent
      BY <1>2, <1>4
    <3>4. \A q \in Parent \ {p} : c \in d.del[q] <=> c \in b.del[q]
      BY <1>2
    <3> QED
      BY <3>2, <3>3, <3>4
  <2>3. \A q \in Parent : c \in d.ins[q] => q = p /\ p \in w
    BY <1>1, <1>4, <2>1, NodeTypes DEF Fits, InsertsFit
  <2>4. InsertsFit(d, w, c)
    BY <1>1, <1>2, <1>4, <2>2, <2>3 DEF InsertsFit
  <2>5. DeletesFit(d, c)
    BY <1>1, <1>4, <2>1, <2>2, NodeTypes DEF Fits, DeletesFit
  <2>6. Removing(d, c) = Removing(b, c) \cup {p}
    BY <2>2 DEF Removing
  <2>7. RefFits(d, w, c)
    <3> SUFFICES ASSUME \A q \in Parent : c \notin d.ins[q]
                 PROVE  w \subseteq Removing(d, c)
      BY <2>2, NodeTypes DEF RefFits, ParentFits, NullFits, UnreadFits
    <3>1. ParentFits(b, w, c)
      BY <1>1, <2>1 DEF Fits, RefFits
    <3>2. w = {p}
      BY <1>4, <2>1, <3>1 DEF ParentFits
    <3> QED
      BY <2>6, <3>2
  <2>8. NotParented(d, w, c)
    BY <1>1, <1>2, <2>1, <2>6 DEF Fits, NotParented, Unsaved
  <2>9. Shown(d, w, c)
    BY <1>1, <1>2, <2>1, <2>2 DEF Fits, Shown
  <2>10. Keyed(d, c)
    BY <1>1, <2>1, <2>2, <2>3 DEF Fits, Keyed
  <2>11. ReadIn(d, c)
    BY <2>2 DEF ReadIn
  <2> QED
    BY <2>4, <2>5, <2>7, <2>8, <2>9, <2>10, <2>11 DEF Fits, Fitting
<1> QED
  BY <1>3, <1>4

\* The to-one of e changes from p to q.
LEMMA ParentSetFits ==
    ASSUME NEW b \in SessionState, NEW c \in Child, NEW w, NEW e \in Child,
           NEW p \in Parent \cup {NoParent}, NEW q \in (Parent \cup {NoParent}) \ {p},
           Bidirectional, w \subseteq Parent, Fitting(b, w, c),
           e = c => /\ Consistent(b, c) /\ c \notin b.upd /\ ~ConnectsAgain(b, q, c)
                    /\ \/ b.ref[c] = p
                       \/ b.ref[c] = Unread /\ (p = NoParent => w = {})
                    /\ p \in Parent /\ c \in b.ins[p] => p \in w,
           NEW d \in SessionState,
           d = [b EXCEPT !.ref[e] = q, !.dirty = @ \cup {e},
                         !.parented = IF p # NoParent /\ e \notin b.dirty THEN @ \cup {e} ELSE @]
    PROVE  Fitting(d, w, c)
<1>1. /\ d.loaded = b.loaded /\ d.coll = b.coll /\ d.ref = [b.ref EXCEPT ![e] = q]
      /\ d.dirty = b.dirty \cup {e}
      /\ d.parented = IF p # NoParent /\ e \notin b.dirty THEN b.parented \cup {e} ELSE b.parented
      /\ d.ins = b.ins /\ d.del = b.del /\ d.nulled = b.nulled /\ d.upd = b.upd
  BY DEF SessionState
<1>2. d.ref[c] = (IF c = e THEN q ELSE b.ref[c]) /\ b.loaded \subseteq Parent
  BY <1>1 DEF SessionState
<1>3. CASE e # c
  <2>1. SameFor(b, d, c)
    BY <1>1, <1>2, <1>3 DEF SameFor
  <2> QED
    BY <2>1, SameFits
<1>4. CASE e = c
  <2>1. Fits(b, w, c) /\ \A r \in b.loaded : c \in b.coll[r] <=> b.ref[c] = r
    BY <1>4, ConsistentWhole DEF Fitting
  <2>2. q # Unread /\ d.ref[c] = q /\ b.ref[c] # q
    BY <1>2, <1>4, NodeTypes
  <2>3. \A r \in Parent : c \notin b.ins[r]
    <3> SUFFICES ASSUME NEW r \in Parent, c \in b.ins[r] PROVE FALSE
      OBVIOUS
    <3>1. CASE c \in b.del[r] /\ b.ref[c] = NoParent
      BY <1>4, <2>2, <3>1 DEF ConnectsAgain
    <3>2. CASE b.ref[c] = r /\ (c \in b.upd \/ r \notin w)
      BY <1>4, <3>2, NodeTypes
    <3> QED
      BY <2>1, <3>1, <3>2 DEF Fits, InsertsFit
  <2>4. q \in Parent => c \notin b.del[q] /\ c \notin b.coll[q]
    BY <1>4, <2>1, <2>2 DEF ConnectsAgain, Fits, ReadIn
  <2>5. InsertsFit(d, w, c)
    BY <1>1, <2>3 DEF InsertsFit
  <2>6. DeletesFit(d, c)
    BY <1>1, <2>1, <2>2, <2>4 DEF Fits, DeletesFit
  <2>7. Unsaved(d, c) /\ Removing(d, c) = Removing(b, c)
    BY <1>1, <1>4 DEF Unsaved, Removing
  <2>8. Unsaved(b, c) <=> c \in b.dirty
    BY <1>4 DEF Unsaved
  <2>9. RefFits(d, w, c)
    <3>1. ParentFits(d, w, c) /\ UnreadFits(d, w, c)
      BY <1>1, <2>2, <2>4, <2>7 DEF ParentFits, UnreadFits
    <3>2. NullFits(d, w, c)
      <4> SUFFICES ASSUME q = NoParent, c \notin d.parented PROVE w \subseteq Removing(b, c)
        BY <2>2, <2>7 DEF NullFits
      <4>1. Unsaved(b, c) /\ c \notin b.parented
        BY <1>1, <1>4, <2>8
      <4> QED
        BY <2>1, <4>1 DEF Fits, NotParented
    <3> QED
      BY <3>1, <3>2 DEF RefFits
  <2>10. NotParented(d, w, c)
    <3> SUFFICES ASSUME c \notin d.parented PROVE w \subseteq Removing(b, c)
      BY <2>7 DEF NotParented
    <3>1. CASE c \in b.dirty
      BY <1>1, <1>4, <2>1, <2>8, <3>1 DEF Fits, NotParented
    <3>2. CASE c \notin b.dirty
      <4>1. p = NoParent
        BY <1>1, <1>4, <3>2
      <4>2. CASE b.ref[c] = NoParent
        BY <1>4, <2>1, <2>3, <2>8, <3>2, <4>2 DEF Fits, RefFits, NullFits
      <4> QED
        BY <1>4, <4>1, <4>2
    <3> QED
      BY <3>1, <3>2
  <2>11. Shown(d, w, c) /\ ReadIn(d, c)
    BY <1>1, <2>1, <2>2 DEF Fits, Shown, ReadIn
  <2>12. Keyed(d, c)
    BY <1>1, <2>1, <2>3 DEF Fits, Keyed
  <2> QED
    BY <2>5, <2>6, <2>9, <2>10, <2>11, <2>12 DEF Fits, Fitting
<1> QED
  BY <1>3, <1>4

-----------------------------------------------------------------------------
(***************************************************************************)
(* What save() of a child does: it is registered, the collection of its    *)
(* parent is read, the child joins it, the parent is saved.                *)
(***************************************************************************)

LEMMA RegisteredFields ==
    ASSUME NEW b \in SessionState, Read(b), NEW e \in Child
    PROVE  LET d == [b EXCEPT !.upd = @ \cup {e}] IN
           /\ d \in SessionState /\ Read(d)
           /\ d.loaded = b.loaded /\ d.coll = b.coll /\ d.ref = b.ref /\ d.dirty = b.dirty
           /\ d.parented = b.parented /\ d.ins = b.ins /\ d.del = b.del /\ d.nulled = b.nulled
           /\ d.upd = b.upd \cup {e}
BY NodeTypes DEF SessionState, Read

\* The stages r, l, j, v of saving the child e.
SavedVia(b, seen, e, kept, r, l, j, v) ==
    LET q == b.ref[e] IN
    /\ r = [b EXCEPT !.upd = @ \cup {e}]
    /\ IF q \in b.loaded THEN l = r ELSE l = Initialised(r, seen, q, kept)
    /\ IF e \in l.coll[q] THEN j = l ELSE j = Added(l, q, e)
    /\ v = j \/ v = SavedParent(j, q)
    /\ SavedChild(b, seen, e, kept) = addPendingRelationshipInsert(v, q, {e})

LEMMA SavedChildStages ==
    ASSUME NEW b \in SessionState, Read(b), NEW seen, NEW e \in Child, NEW kept \in BOOLEAN,
           e \in b.dirty, NEW q, q = b.ref[e], q # NoParent
    PROVE  /\ q \in Parent
           /\ \E r, l, j, v \in SessionState : SavedVia(b, seen, e, kept, r, l, j, v)
<1> DEFINE r == [b EXCEPT !.upd = @ \cup {e}]
           l == IF q \in b.loaded THEN r ELSE Initialised(r, seen, q, kept)
           j == IF e \in l.coll[q] THEN l ELSE Added(l, q, e)
           v == SavedIfChanged(j, q)
<1>1. q \in Parent
  BY DEF SessionState, Read
<1>2. SavedChild(b, seen, e, kept) = addPendingRelationshipInsert(v, q, {e})
  BY DEF SavedChild
<1>3. r \in SessionState /\ Read(r)
  BY RegisteredFields
<1> HIDE DEF r
<1>4. l \in SessionState /\ Read(l)
  BY <1>1, <1>3, InitialisedKeeps
<1>5. IF q \in b.loaded THEN l = r ELSE l = Initialised(r, seen, q, kept)
  OBVIOUS
<1> HIDE DEF l
<1>6. j \in SessionState /\ Read(j)
  BY <1>1, <1>4, AddedKeeps
<1>7. IF e \in l.coll[q] THEN j = l ELSE j = Added(l, q, e)
  OBVIOUS
<1> HIDE DEF j
<1>8. v \in SessionState /\ (v = j \/ v = SavedParent(j, q))
  BY <1>1, <1>6, SavedParentKeeps DEF SavedIfChanged
<1> HIDE DEF v
<1>9. SavedVia(b, seen, e, kept, r, l, j, v)
  BY <1>2, <1>5, <1>7, <1>8 DEF SavedVia, r
<1> QED
  BY <1>1, <1>3, <1>4, <1>6, <1>8, <1>9

LEMMA SavedOtherFits ==
    ASSUME NEW b \in SessionState, Read(b), NEW c \in Child, NEW w, NEW seen, NEW e \in Child \ {c},
           NEW kept \in BOOLEAN, Bidirectional, e \in b.dirty,
           w \subseteq Parent, \A q \in Parent : q \in w <=> <<q, c>> \in seen,
           \A q, r \in w : q = r,
           Fitting(b, w, c),
           NEW d \in SessionState, d = SavedChild(b, seen, e, kept)
    PROVE  Fitting(d, w, c)
<1>1. CASE b.ref[e] = NoParent
  <2>1. d = [[b EXCEPT !.upd = @ \cup {e}] EXCEPT
               !.nulled = IF e \in b.parented THEN @ \cup {e} ELSE @]
    BY <1>1 DEF SavedChild
  <2>2. SameFor(b, d, c)
    BY <2>1, NodeAssumption DEF SameFor, SessionState
  <2> QED
    BY <2>2, SameFits
<1>2. CASE b.ref[e] # NoParent
  <2> DEFINE q == b.ref[e]
  <2>1. q \in Parent
    BY <1>2, SavedChildStages
  <2>0. PICK r, l, j, v \in SessionState : SavedVia(b, seen, e, kept, r, l, j, v)
    BY <1>2, SavedChildStages
  <2>2. /\ r = [b EXCEPT !.upd = @ \cup {e}]
        /\ IF q \in b.loaded THEN l = r ELSE l = Initialised(r, seen, q, kept)
        /\ IF e \in l.coll[q] THEN j = l ELSE j = Added(l, q, e)
        /\ v = j \/ v = SavedParent(j, q)
        /\ d = addPendingRelationshipInsert(v, q, {e})
    BY <2>0 DEF SavedVia
  <2> HIDE DEF q
  <2>3. Fitting(r, w, c) /\ r.loaded = b.loaded
    <3>1. /\ r.loaded = b.loaded /\ r.coll = b.coll /\ r.ref = b.ref /\ r.dirty = b.dirty
          /\ r.parented = b.parented /\ r.ins = b.ins /\ r.del = b.del /\ r.nulled = b.nulled
          /\ r.upd = b.upd \cup {e}
      BY <2>2, RegisteredFields
    <3>2. SameFor(b, r, c)
      BY <3>1 DEF SameFor
    <3> QED
      BY <3>1, <3>2, SameFits
  <2>4. Fitting(l, w, c)
    <3>1. CASE q \in b.loaded
      BY <2>2, <2>3, <3>1
    <3>2. CASE q \notin b.loaded
      <4>1. l = Initialised(r, seen, q, kept) /\ q \notin r.loaded
        BY <2>2, <2>3, <3>2
      <4> QED
        BY <2>1, <2>3, <4>1, InitialisedFits
    <3> QED
      BY <3>1, <3>2
  <2>5. Fitting(j, w, c)
    <3>1. CASE e \in l.coll[q]
      BY <2>2, <2>4, <3>1
    <3>2. CASE e \notin l.coll[q]
      BY <2>1, <2>2, <2>4, <3>2, AddedFits
    <3> QED
      BY <3>1, <3>2
  <2>6. Fitting(v, w, c)
    BY <2>1, <2>2, <2>5, SavedParentFits
  <2>7. /\ d.loaded = v.loaded /\ d.coll = v.coll /\ d.ref = v.ref /\ d.dirty = v.dirty
        /\ d.parented = v.parented /\ d.del = v.del /\ d.nulled = v.nulled /\ d.upd = v.upd
        /\ d.ins = [v.ins EXCEPT ![q] = @ \cup {e}]
    BY <2>1, <2>2, InsertFields
  <2>8. SameFor(v, d, c)
    BY <2>7 DEF SameFor, SessionState
  <2> QED
    BY <2>6, <2>8, SameFits
<1> QED
  BY <1>1, <1>2

\* x is b as far as c is concerned, which has been saved and refers to q.
Joining(b, x, c, q) ==
    /\ x.loaded = b.loaded \cup {q} /\ x.ref[c] = q /\ c \in x.upd
    /\ \A p \in Parent \ {q} : /\ c \in x.coll[p] <=> c \in b.coll[p]
                               /\ c \in x.ins[p] <=> c \in b.ins[p]
    /\ \A p \in Parent : /\ c \in x.del[p] <=> c \in b.del[p]
                         /\ p \in b.dirty \cup b.upd => p \in x.dirty \cup x.upd

LEMMA SavedJoins ==
    ASSUME NEW b \in SessionState, Read(b), NEW c \in Child, NEW seen, NEW kept \in BOOLEAN,
           Bidirectional, c \in b.dirty, b.ref[c] # NoParent,
           NEW d \in SessionState, d = SavedChild(b, seen, c, kept)
    PROVE  LET q == b.ref[c] IN
           q \in Parent /\ Joining(b, d, c, q) /\ c \in d.coll[q] /\ c \in d.ins[q]
<1> DEFINE q == b.ref[c]
<1>1. q \in Parent
  BY SavedChildStages
<1>0. PICK r, l, j, v \in SessionState : SavedVia(b, seen, c, kept, r, l, j, v)
  BY SavedChildStages
<1>2. /\ r = [b EXCEPT !.upd = @ \cup {c}]
      /\ IF q \in b.loaded THEN l = r ELSE l = Initialised(r, seen, q, kept)
      /\ IF c \in l.coll[q] THEN j = l ELSE j = Added(l, q, c)
      /\ v = j \/ v = SavedParent(j, q)
      /\ d = addPendingRelationshipInsert(v, q, {c})
  BY <1>0 DEF SavedVia
<1> HIDE DEF q
<1>3. /\ r.loaded = b.loaded /\ r.coll = b.coll /\ r.ref = b.ref /\ r.dirty = b.dirty
      /\ r.ins = b.ins /\ r.del = b.del /\ r.upd = b.upd \cup {c}
  BY <1>2, RegisteredFields
<1>4. Joining(b, l, c, q)
  <2>1. CASE q \in b.loaded
    BY <1>2, <1>3, <2>1 DEF Joining, q
  <2>2. CASE q \notin b.loaded
    <3>1. l = Initialised(r, seen, q, kept)
      BY <1>2, <2>2
    <3>2. /\ l.loaded = b.loaded \cup {q} /\ l.dirty = b.dirty /\ l.ins = b.ins /\ l.del = b.del
          /\ l.upd = b.upd \cup {c}
      BY <1>1, <1>3, <3>1, InitialisedFields
    <3>3. \A p \in Parent : c \in l.coll[p] <=> IF p = q THEN <<q, c>> \in seen ELSE c \in r.coll[p]
      BY <1>1, <3>1, InitialisedElements
    <3>4. \/ l.ref[c] = r.ref[c] /\ (Bidirectional /\ <<q, c>> \in seen => r.ref[c] # Unread)
          \/ l.ref[c] = q /\ Bidirectional /\ <<q, c>> \in seen
      BY <1>1, <3>1, InitialisedRefs
    <3> QED
      BY <1>3, <3>2, <3>3, <3>4 DEF Joining, q
  <2> QED
    BY <2>1, <2>2
<1>5. Joining(b, j, c, q) /\ c \in j.coll[q]
  <2>1. CASE c \in l.coll[q]
    BY <1>2, <1>4, <2>1
  <2>2. CASE c \notin l.coll[q]
    <3>1. j = Added(l, q, c)
      BY <1>2, <2>2
    <3>2. /\ j.loaded = l.loaded /\ j.coll = [l.coll EXCEPT ![q] = @ \cup {c}]
          /\ j.dirty = l.dirty \cup {q} /\ j.ins = [l.ins EXCEPT ![q] = @ \cup {c}]
          /\ j.del = l.del /\ j.upd = l.upd
      BY <1>1, <3>1, AddedFields
    <3>3. j.ref = [l.ref EXCEPT ![c] = q]
      BY <1>1, <3>1, AddedRef
    <3>4. /\ l.coll \in [Parent -> SUBSET Child] /\ l.ins \in [Parent -> SUBSET Child]
          /\ l.ref \in [Child -> Parent \cup {NoParent, Unread}]
      BY DEF SessionState
    <3>5. /\ \A p \in Parent \ {q} : j.coll[p] = l.coll[p] /\ j.ins[p] = l.ins[p]
          /\ c \in j.coll[q] /\ j.ref[c] = q
      BY <1>1, <3>2, <3>3, <3>4
    <3> QED
      BY <1>4, <3>2, <3>5 DEF Joining
  <2> QED
    BY <2>1, <2>2
<1>6. Joining(b, v, c, q) /\ c \in v.coll[q]
  <2>1. CASE v = j
    BY <1>5, <2>1
  <2>2. CASE v = SavedParent(j, q)
    <3>1. /\ v.loaded = j.loaded /\ v.coll = j.coll
          /\ \A e \in Child : v.ref[e] = IF e \in j.coll[q] THEN q ELSE j.ref[e]
          /\ v.dirty = j.dirty \cup j.coll[q] /\ v.upd = j.upd \cup {q} \cup j.coll[q]
          /\ v.ins = [j.ins EXCEPT ![q] = @ \cup j.coll[q]] /\ v.del = j.del
      <4>1. /\ v.loaded = j.loaded /\ v.coll = j.coll /\ v.del = j.del
            /\ v.ins = [j.ins EXCEPT ![q] = @ \cup j.coll[q]]
        BY <1>1, <2>2, SavedParentFields
      <4>2. /\ \A e \in Child : v.ref[e] = IF e \in j.coll[q] THEN q ELSE j.ref[e]
            /\ v.dirty = j.dirty \cup j.coll[q] /\ v.upd = j.upd \cup {q} \cup j.coll[q]
        BY <1>1, <2>2, SavedParentCascade
      <4> QED
        BY <4>1, <4>2
    <3>2. v.ref[c] = q /\ \A p \in Parent \ {q} : v.ins[p] = j.ins[p]
      BY <1>5, <3>1 DEF SessionState
    <3> QED
      BY <1>5, <3>1, <3>2 DEF Joining
  <2> QED
    BY <1>2, <2>1, <2>2
<1>7. /\ d.loaded = v.loaded /\ d.coll = v.coll /\ d.ref = v.ref /\ d.dirty = v.dirty
      /\ d.del = v.del /\ d.upd = v.upd /\ d.ins = [v.ins EXCEPT ![q] = @ \cup {c}]
  BY <1>1, <1>2, InsertFields
<1>8. c \in d.ins[q] /\ \A p \in Parent \ {q} : d.ins[p] = v.ins[p]
  BY <1>1, <1>7 DEF SessionState
<1> QED
  BY <1>1, <1>6, <1>7, <1>8 DEF Joining, q

\* The child itself is saved.
LEMMA SavedItselfFits ==
    ASSUME NEW b \in SessionState, Read(b), NEW c \in Child, NEW w, NEW seen,
           NEW kept \in BOOLEAN, Bidirectional, c \in b.dirty, c \notin b.upd,
           w \subseteq Parent, Fitting(b, w, c),
           NEW d \in SessionState, d = SavedChild(b, seen, c, kept)
    PROVE  Fitting(d, w, c)
<1>1. CASE b.ref[c] = NoParent
  <2>1. d = [[b EXCEPT !.upd = @ \cup {c}] EXCEPT
               !.nulled = IF c \in b.parented THEN @ \cup {c} ELSE @]
    BY <1>1 DEF SavedChild
  <2>2. /\ d.loaded = b.loaded /\ d.coll = b.coll /\ d.ref = b.ref /\ d.dirty = b.dirty
        /\ d.parented = b.parented /\ d.ins = b.ins /\ d.del = b.del
        /\ d.nulled = IF c \in b.parented THEN b.nulled \cup {c} ELSE b.nulled
        /\ d.upd = b.upd \cup {c}
    BY <2>1 DEF SessionState
  <2>3. CASE Torn(b, c)
    BY <2>2, <2>3 DEF Torn, Fitting
  <2>4. CASE Fits(b, w, c)
    <3>1. ~Unsaved(d, c) /\ Removing(d, c) = Removing(b, c)
      BY <2>2 DEF Unsaved, Removing
    <3>2. InsertsFit(d, w, c) /\ DeletesFit(d, c) /\ NotParented(d, w, c)
      BY <2>2, <2>4, <3>1 DEF Fits, InsertsFit, DeletesFit, NotParented
    <3>3. RefFits(d, w, c)
      BY <1>1, <2>2, <2>4, <3>1, NodeTypes DEF Fits, RefFits, ParentFits, NullFits, UnreadFits
    <3>4. Shown(d, w, c) /\ Keyed(d, c) /\ ReadIn(d, c)
      BY <2>2, <2>4 DEF Fits, Shown, Keyed, ReadIn
    <3> QED
      BY <3>2, <3>3, <3>4 DEF Fits, Fitting
  <2> QED
    BY <2>3, <2>4 DEF Fitting
<1>2. CASE b.ref[c] # NoParent
  <2> DEFINE q == b.ref[c]
  <2>1. q \in Parent /\ Joining(b, d, c, q) /\ c \in d.coll[q] /\ c \in d.ins[q]
    BY <1>2, SavedJoins
  <2> HIDE DEF q
  <2>2. b.loaded \subseteq Parent
    BY DEF SessionState
  <2>3. CASE \E p \in b.loaded : p # q /\ c \in b.coll[p]
    BY <2>1, <2>2, <2>3 DEF Joining, Torn, Fitting
  <2>4. CASE \A p \in b.loaded : p # q => c \notin b.coll[p]
    <3>1. Fits(b, w, c)
      BY <2>4 DEF Fitting, Torn
    <3>2. /\ \A p \in Parent \ {q} : c \notin b.coll[p] /\ c \notin b.ins[p]
          /\ c \notin b.del[q]
      BY <1>2, <2>1, <2>4, <3>1 DEF Fits, ReadIn, InsertsFit, DeletesFit, q
    <3>3. InsertsFit(d, w, c)
      BY <2>1, <3>2 DEF Joining, InsertsFit
    <3>4. DeletesFit(d, c)
      BY <2>1, <3>1, <3>2, NodeTypes DEF Joining, Fits, DeletesFit
    <3>5. RefFits(d, w, c) /\ NotParented(d, w, c)
      BY <2>1 DEF Joining, RefFits, NotParented, Unsaved
    <3>6. Shown(d, w, c)
      BY <2>1, <2>2, <3>1, <3>2 DEF Joining, Fits, Shown
    <3>7. Keyed(d, c)
      BY <2>1, <3>1, <3>2 DEF Joining, Fits, Keyed
    <3>8. ReadIn(d, c)
      BY <2>1, <3>2, NodeTypes DEF Joining, ReadIn
    <3> QED
      BY <3>3, <3>4, <3>5, <3>6, <3>7, <3>8 DEF Fits, Fitting
  <2> QED
    BY <2>3, <2>4
<1> QED
  BY <1>1, <1>2

-----------------------------------------------------------------------------
(***************************************************************************)
(* The invariant of one parent and one child of a unidirectional           *)
(* association: g is what the graph will have.                             *)
(***************************************************************************)

OneWay(b, p, c, g) ==
    /\ c \in b.ins[p] \cup b.del[p] \cup b.coll[p] => p \in b.loaded
    /\ c \in b.ins[p] \cup b.del[p] => p \in b.dirty \cup b.upd
    /\ c \in b.del[p] => c \notin b.coll[p]
    /\ c \in b.ins[p] \ b.del[p] => c \in b.coll[p]
    /\ c \notin b.ins[p] \cup b.del[p] /\ p \in b.loaded => (c \in b.coll[p] <=> <<p, c>> \in g)

\* Children have no property that could change.
ChildrenClean(b) == (b.dirty \cup b.upd) \cap Child = {}

LEMMA OneWayAdded ==
    ASSUME NEW b \in SessionState, NEW p \in Parent, NEW c \in Child, NEW g,
           NEW q \in Parent, NEW e \in Child, OneWay(b, p, c, g), q \in b.loaded,
           <<q, e>> = <<p, c>> => c \notin b.coll[p] /\ c \notin b.del[p],
           NEW d, d = Added(b, q, e)
    PROVE  OneWay(d, p, c, g)
<1>1. /\ d.loaded = b.loaded /\ d.coll = [b.coll EXCEPT ![q] = @ \cup {e}]
      /\ d.dirty = b.dirty \cup {q} /\ d.parented = b.parented
      /\ d.ins = [b.ins EXCEPT ![q] = @ \cup {e}]
      /\ d.del = b.del /\ d.nulled = b.nulled /\ d.upd = b.upd
  BY AddedFields
<1>2. b.coll \in [Parent -> SUBSET Child] /\ b.ins \in [Parent -> SUBSET Child]
  BY DEF SessionState
<1>3. /\ d.coll[p] = IF p = q THEN b.coll[p] \cup {e} ELSE b.coll[p]
      /\ d.ins[p] = IF p = q THEN b.ins[p] \cup {e} ELSE b.ins[p]
  BY <1>1, <1>2
<1>4. CASE q = p /\ e = c
  BY <1>1, <1>3, <1>4 DEF OneWay
<1>5. CASE ~(q = p /\ e = c)
  BY <1>1, <1>3, <1>5 DEF OneWay
<1> QED
  BY <1>4, <1>5

LEMMA OneWayRemoved ==
    ASSUME NEW b \in SessionState, NEW p \in Parent, NEW c \in Child, NEW g,
           NEW q \in Parent, NEW e \in Child, OneWay(b, p, c, g), q \in b.loaded,
           NEW d, d = Removed(b, q, e)
    PROVE  OneWay(d, p, c, g)
<1>1. /\ d.loaded = b.loaded /\ d.coll = [b.coll EXCEPT ![q] = @ \ {e}]
      /\ d.dirty = b.dirty \cup {q} /\ d.parented = b.parented
      /\ d.ins = b.ins /\ d.del = [b.del EXCEPT ![q] = @ \cup {e}]
      /\ d.nulled = b.nulled /\ d.upd = b.upd
  BY RemovedFields
<1>2. b.coll \in [Parent -> SUBSET Child] /\ b.del \in [Parent -> SUBSET Child]
  BY DEF SessionState
<1>3. /\ d.coll[p] = IF p = q THEN b.coll[p] \ {e} ELSE b.coll[p]
      /\ d.del[p] = IF p = q THEN b.del[p] \cup {e} ELSE b.del[p]
  BY <1>1, <1>2
<1>4. CASE q = p /\ e = c
  BY <1>1, <1>3, <1>4 DEF OneWay
<1>5. CASE ~(q = p /\ e = c)
  BY <1>1, <1>3, <1>5 DEF OneWay
<1> QED
  BY <1>4, <1>5

LEMMA OneWayInitialised ==
    ASSUME NEW b \in SessionState, NEW p \in Parent, NEW c \in Child, NEW g,
           NEW q \in Parent, q \notin b.loaded, NEW kept \in BOOLEAN, OneWay(b, p, c, g),
           NEW d, d = Initialised(b, g, q, kept)
    PROVE  OneWay(d, p, c, g)
<1>1. /\ d.loaded = b.loaded \cup {q}
      /\ d.dirty = b.dirty /\ d.parented = b.parented /\ d.ins = b.ins /\ d.del = b.del
      /\ d.nulled = b.nulled /\ d.upd = b.upd
  BY InitialisedFields
<1>2. c \in d.coll[p] <=> IF p = q THEN <<q, c>> \in g ELSE c \in b.coll[p]
  BY InitialisedElements
<1> QED
  BY <1>1, <1>2 DEF OneWay

LEMMA OneWaySaved ==
    ASSUME NEW b \in SessionState, NEW p \in Parent, NEW c \in Child, NEW g,
           NEW q \in Parent, ~Bidirectional, OneWay(b, p, c, g),
           NEW d, d = SavedParent(b, q)
    PROVE  OneWay(d, p, c, g)
<1>1. /\ d.loaded = b.loaded /\ d.coll = b.coll /\ d.del = b.del /\ d.nulled = b.nulled
      /\ d.ins = [b.ins EXCEPT ![q] = @ \cup b.coll[q]]
  BY SavedParentFields
<1>2. d.dirty = b.dirty /\ d.upd = b.upd \cup {q}
  BY SavedParentAlone
<1>3. d.ins[p] = IF p = q THEN b.ins[p] \cup b.coll[p] ELSE b.ins[p]
  BY <1>1 DEF SessionState
<1> QED
  BY <1>1, <1>2, <1>3 DEF OneWay

LEMMA OneWayKey ==
    ASSUME NEW b \in SessionState, NEW p \in Parent, NEW c \in Child, NEW g,
           NEW q \in Parent, OneWay(b, p, c, g),
           NEW h, <<p, c>> \in h <=> /\ ~(p = q /\ c \in b.del[q])
                                     /\ (p = q /\ c \in b.ins[q]) \/ <<p, c>> \in g,
           NEW d, d = Served(b, q, q)
    PROVE  OneWay(d, p, c, h)
<1>1. /\ d.loaded = b.loaded /\ d.coll = b.coll
      /\ d.upd = b.upd \ {q} /\ d.dirty = b.dirty \ {q}
      /\ d.ins[p] = IF p = q THEN {} ELSE b.ins[p]
      /\ d.del[p] = IF p = q THEN {} ELSE b.del[p]
  BY KeyFields
<1> QED
  BY <1>1 DEF OneWay

LEMMA OneWayCleared ==
    ASSUME NEW b \in SessionState, NEW p \in Parent, NEW c \in Child, NEW g,
           b.upd = {}, b.dirty \subseteq b.upd, OneWay(b, p, c, g),
           NEW d, d = Cleared(b)
    PROVE  OneWay(d, p, c, g)
<1>1. /\ d.loaded = b.loaded /\ d.coll = b.coll /\ d.dirty = b.dirty
      /\ d.ins[p] = {} /\ d.del[p] = {}
  BY DEF Cleared, SessionState
<1> QED
  BY <1>1 DEF OneWay

LEMMA OneWayBlank == \A p \in Parent, c \in Child : \A g : OneWay(Blank, p, c, g)
BY DEF OneWay, Blank

-----------------------------------------------------------------------------
(***************************************************************************)
(* The invariant of the sessions.                                          *)
(***************************************************************************)

\* The session may rely on what it read of c.
Undisturbed(s, c) ==
    /\ c \notin hist[s].again
    /\ \A r \in hist[s].raced : r[2] # c
    /\ OneParent(c, graph)

ChildFits(s, c) == Undisturbed(s, c) => Fitting(ses[s], Expected(s, c), c)

PairFits(s, p, c) ==
    c \notin hist[s].again /\ <<p, c>> \notin hist[s].raced => OneWay(ses[s], p, c, Future(s))

PhaseFits(s) ==
    /\ pc[s] = "idle" => ses[s] = Blank
    /\ pc[s] # "write" => stmts[s] = <<>>
    /\ pc[s] = "write" => ses[s].dirty \subseteq ses[s].upd

SessionFits(s) ==
    /\ PhaseFits(s)
    /\ Bidirectional => \A c \in Child : ChildFits(s, c)
    /\ ~Bidirectional => /\ ChildrenClean(ses[s])
                         /\ \A p \in Parent, c \in Child : PairFits(s, p, c)

FitsInv == Inv /\ \A s \in Session : SessionFits(s)

LEMMA QuietFuture == ASSUME NEW s \in Session, stmts[s] = <<>> PROVE Future(s) = Visible(s)
<1>1. \A r : Later(s, r) <=> r \in Visible(s)
  BY OutcomeNone DEF Later
<1> QED
  BY <1>1 DEF Future, Visible

\* d carries on what fitted, for the children that have not changed twice.
Carries(s, d) ==
    /\ Bidirectional =>
          \A c \in Child \ hist'[s].again :
              OneParent(c, Visible(s)) /\ Fitting(ses[s], ParentsOf(c, Visible(s)), c)
              => Fitting(d, ParentsOf(c, Visible(s)), c)
    /\ ~Bidirectional /\ ChildrenClean(ses[s]) =>
          /\ ChildrenClean(d)
          /\ \A p \in Parent, c \in Child \ hist'[s].again :
                OneWay(ses[s], p, c, Visible(s)) => OneWay(d, p, c, Visible(s))

Carrying(s, d) ==
    /\ d \in SessionState /\ Update(s, d) /\ pc[s] \in {"app", "spool"}
    /\ hist[s].again \subseteq hist'[s].again /\ hist'[s].raced = hist[s].raced
    /\ \A o \in Session \ {s} : hist'[o] = hist[o]
    /\ Carries(s, d)

LEMMA RecordedAgain ==
    ASSUME TypeInv, NEW s \in Session, NEW rs \in SUBSET Rel, NEW cs \in SUBSET Child,
           Recorded(s, rs, cs)
    PROVE  /\ hist'[s].again = hist[s].again \cup cs /\ hist'[s].raced = hist[s].raced
           /\ \A o \in Session \ {s} : hist'[o] = hist[o]
<1> DEFINE h == hist[s]
           k == [h EXCEPT !.removed = h.removed \cup rs, !.again = h.again \cup cs,
                          !.calls = h.calls + 1]
<1>1. hist \in [Session -> History] /\ h \in History
  BY DEF TypeInv, TypeOK
<1>2. hist' = [hist EXCEPT ![s] = k]
  BY DEF Recorded
<1>3. k.again = h.again \cup cs /\ k.raced = h.raced
  <2> HIDE DEF h
  <2> QED
    BY <1>1 DEF History
<1> HIDE DEF k
<1> QED
  BY <1>1, <1>2, <1>3

\* A child that does not count as changed twice changed where the instances agree.
LEMMA NotRepeated ==
    ASSUME NEW s, NEW c, NEW again, c \notin Repeats(s, c, again)
    PROVE  ~again /\ Consistent(ses[s], c)
BY DEF Repeats

LEMMA ParentsFacts ==
    ASSUME NEW c \in Child, NEW g
    PROVE  /\ ParentsOf(c, g) \subseteq Parent
           /\ \A q \in Parent : q \in ParentsOf(c, g) <=> <<q, c>> \in g
           /\ OneParent(c, g) => \A q, r \in ParentsOf(c, g) : q = r
BY DEF ParentsOf, OneParent

LEMMA LoadCarries ==
    ASSUME TypeInv, NEW s \in Session, NEW p \in Parent, NEW kept \in BOOLEAN, Load(s, p, kept)
    PROVE  \E d : Carrying(s, d)
<1> DEFINE b == ses[s]
           d == Initialised(b, Visible(s), p, kept)
<1>1. b \in SessionState /\ Read(b) /\ p \notin b.loaded
  BY SessionRead DEF Load
<1>2. d \in SessionState
  BY <1>1, InitialisedKeeps
<1>3. Update(s, d) /\ hist' = hist /\ pc[s] = "app"
  BY DEF Load
<1>4. d = Initialised(b, Visible(s), p, kept)
  OBVIOUS
<1> HIDE DEF b, d
<1>5. ASSUME Bidirectional, NEW c \in Child, OneParent(c, Visible(s)),
             Fitting(b, ParentsOf(c, Visible(s)), c)
      PROVE  Fitting(d, ParentsOf(c, Visible(s)), c)
  BY <1>1, <1>2, <1>4, <1>5, ParentsFacts, InitialisedFits
<1>6. ASSUME NEW q \in Parent, NEW c \in Child, OneWay(b, q, c, Visible(s))
      PROVE  OneWay(d, q, c, Visible(s))
  BY <1>1, <1>4, <1>6, OneWayInitialised
<1>7. ChildrenClean(b) => ChildrenClean(d)
  <2>1. d.dirty = b.dirty /\ d.upd = b.upd
    BY <1>1, <1>4, InitialisedFields
  <2> QED
    BY <2>1 DEF ChildrenClean
<1>8. Carries(s, d)
  BY <1>5, <1>6, <1>7 DEF Carries, b
<1> QED
  BY <1>2, <1>3, <1>8 DEF Carrying

LEMMA AddCarries ==
    ASSUME TypeInv, NEW s \in Session, NEW p \in Parent, NEW e \in Child, addTo(s, p, e)
    PROVE  \E d : Carrying(s, d)
<1> DEFINE b == ses[s]
           d == Added(b, p, e)
           cs == Repeats(s, e, ConnectsAgain(b, p, e))
<1>1. b \in SessionState /\ Read(b) /\ p \in b.loaded /\ e \notin b.coll[p]
  BY SessionRead DEF addTo
<1>2. d \in SessionState
  BY <1>1, AddedKeeps
<1>3. Update(s, d) /\ Recorded(s, {}, cs) /\ pc[s] = "app"
  BY DEF addTo, MayChange
<1>4. d = Added(b, p, e) /\ cs \in SUBSET Child /\ {} \in SUBSET Rel
  BY RepeatsType
<1>5. e \notin cs => ~ConnectsAgain(b, p, e) /\ Consistent(b, e)
  BY NotRepeated
<1> HIDE DEF b, d, cs
<1>6. /\ hist'[s].again = hist[s].again \cup cs /\ hist'[s].raced = hist[s].raced
      /\ \A o \in Session \ {s} : hist'[o] = hist[o]
  BY <1>3, <1>4, RecordedAgain
<1>7. ASSUME Bidirectional, NEW c \in Child \ hist'[s].again, Fitting(b, ParentsOf(c, Visible(s)), c)
      PROVE  Fitting(d, ParentsOf(c, Visible(s)), c)
  BY <1>1, <1>2, <1>4, <1>5, <1>6, <1>7, ParentsFacts, AddedFits
<1>8. ASSUME NEW q \in Parent, NEW c \in Child \ hist'[s].again, OneWay(b, q, c, Visible(s))
      PROVE  OneWay(d, q, c, Visible(s))
  <2>1. <<p, e>> = <<q, c>> => c \notin b.coll[q] /\ c \notin b.del[q]
    BY <1>1, <1>5, <1>6, <1>8 DEF ConnectsAgain
  <2> QED
    BY <1>1, <1>4, <1>8, <2>1, OneWayAdded
<1>9. ChildrenClean(b) => ChildrenClean(d)
  <2>1. d.dirty = b.dirty \cup {p} /\ d.upd = b.upd
    BY <1>1, <1>4, AddedDirty
  <2> QED
    BY <2>1, NodeAssumption DEF ChildrenClean
<1>10. Carries(s, d)
  BY <1>7, <1>8, <1>9 DEF Carries, b
<1> QED
  BY <1>2, <1>3, <1>6, <1>10 DEF Carrying

LEMMA RemoveCarries ==
    ASSUME TypeInv, NEW s \in Session, NEW p \in Parent, NEW e \in Child, removeFrom(s, p, e)
    PROVE  \E d : Carrying(s, d)
<1> DEFINE b == ses[s]
           d == Removed(b, p, e)
           cs == Repeats(s, e, RemovesAgain(s, p, e))
<1>1. b \in SessionState /\ Read(b) /\ p \in b.loaded /\ e \in b.coll[p]
  BY SessionRead DEF removeFrom
<1>2. d \in SessionState
  BY <1>1, RemovedKeeps
<1>3. Update(s, d) /\ Recorded(s, {<<p, e>>}, cs) /\ pc[s] = "app"
  BY DEF removeFrom, MayChange
<1>4. d = Removed(b, p, e) /\ cs \in SUBSET Child /\ {<<p, e>>} \in SUBSET Rel
  BY RepeatsType DEF Rel
<1>5. e \notin cs => /\ Consistent(b, e)
                     /\ Bidirectional /\ e \in b.ins[p] =>
                           <<p, e>> \in Visible(s) /\ \A q \in Parent \ {p} : e \notin b.ins[q]
  BY NotRepeated DEF RemovesAgain
<1> HIDE DEF b, d, cs
<1>6. /\ hist'[s].again = hist[s].again \cup cs /\ hist'[s].raced = hist[s].raced
      /\ \A o \in Session \ {s} : hist'[o] = hist[o]
  BY <1>3, <1>4, RecordedAgain
<1>7. ASSUME Bidirectional, NEW c \in Child \ hist'[s].again, OneParent(c, Visible(s)),
             Fitting(b, ParentsOf(c, Visible(s)), c)
      PROVE  Fitting(d, ParentsOf(c, Visible(s)), c)
  <2> DEFINE w == ParentsOf(c, Visible(s))
  <2>1. w \subseteq Parent /\ (\A q, r \in w : q = r) /\ (p \in w <=> <<p, c>> \in Visible(s))
    BY <1>7, ParentsFacts
  <2>2. e = c => /\ Consistent(b, c)
                 /\ c \in b.ins[p] => p \in w /\ \A q \in Parent \ {p} : c \notin b.ins[q]
    BY <1>5, <1>6, <1>7, <2>1
  <2> HIDE DEF w
  <2>3. Fitting(b, w, c)
    BY <1>7 DEF w
  <2>4. Fitting(d, w, c)
    BY <1>1, <1>2, <1>4, <1>7, <2>1, <2>2, <2>3, RemovedFits
  <2> QED
    BY <2>4 DEF w
<1>8. ASSUME NEW q \in Parent, NEW c \in Child, OneWay(b, q, c, Visible(s))
      PROVE  OneWay(d, q, c, Visible(s))
  BY <1>1, <1>4, <1>8, OneWayRemoved
<1>9. ChildrenClean(b) => ChildrenClean(d)
  <2>1. d.dirty = b.dirty \cup {p} /\ d.upd = b.upd
    BY <1>1, <1>4, RemovedDirty
  <2> QED
    BY <2>1, NodeAssumption DEF ChildrenClean
<1>10. Carries(s, d)
  BY <1>7, <1>8, <1>9 DEF Carries, b
<1> QED
  BY <1>2, <1>3, <1>6, <1>10 DEF Carrying

LEMMA SetParentCarries ==
    ASSUME TypeInv, NEW s \in Session, NEW e \in Child, NEW q \in Parent \cup {NoParent},
           SetParent(s, e, q)
    PROVE  \E d : Carrying(s, d)
<1> DEFINE b == ses[s]
           old == IF b.ref[e] # Unread THEN {b.ref[e]}
                  ELSE IF ParentsOf(e, Visible(s)) = {} THEN {NoParent} ELSE ParentsOf(e, Visible(s))
           D(p) == [b EXCEPT !.ref[e] = q, !.dirty = @ \cup {e},
                             !.parented = IF p # NoParent /\ e \notin b.dirty THEN @ \cup {e} ELSE @]
           Again(p) == e \in b.upd \/ ConnectsAgain(b, q, e) \/ RemovesAgain(s, p, e)
<1>1. PICK p \in old \ {q} :
        Update(s, D(p)) /\ Recorded(s, ({p} \ {NoParent}) \X {e}, Repeats(s, e, Again(p)))
  BY DEF SetParent
<1> DEFINE d == D(p)
           cs == Repeats(s, e, Again(p))
           rs == ({p} \ {NoParent}) \X {e}
<1>2. b \in SessionState /\ Read(b) /\ Bidirectional /\ pc[s] = "app"
  BY SessionRead DEF SetParent, MayChange
<1>3. /\ p \in Parent \cup {NoParent} /\ p # q
      /\ b.ref[e] = p \/ (b.ref[e] = Unread /\ (p = NoParent => ParentsOf(e, Visible(s)) = {}))
  BY <1>1, <1>2, NodeTypes DEF SessionState, ParentsOf
<1>4. d = [b EXCEPT !.ref[e] = q, !.dirty = @ \cup {e},
                    !.parented = IF p # NoParent /\ e \notin b.dirty THEN @ \cup {e} ELSE @]
  OBVIOUS
<1>5. e \notin cs => /\ Consistent(b, e) /\ e \notin b.upd /\ ~ConnectsAgain(b, q, e)
                     /\ ~RemovesAgain(s, p, e)
  BY NotRepeated
<1>6. Update(s, d) /\ Recorded(s, rs, cs) /\ cs \in SUBSET Child
  BY <1>1, RepeatsType
<1>7. rs \in SUBSET Rel
  BY <1>3 DEF Rel
<1> HIDE DEF d, cs, rs
<1>8. d \in SessionState
  <2> HIDE DEF b
  <2> QED
    BY <1>2, <1>4, ParentSetKeeps
<1>9. /\ hist'[s].again = hist[s].again \cup cs /\ hist'[s].raced = hist[s].raced
      /\ \A o \in Session \ {s} : hist'[o] = hist[o]
  BY <1>6, <1>7, RecordedAgain
<1>10. e \notin cs /\ p \in Parent /\ e \in b.ins[p] => <<p, e>> \in Visible(s)
  BY <1>2, <1>5 DEF RemovesAgain
<1> HIDE DEF b, old
<1>11. ASSUME NEW c \in Child \ hist'[s].again, OneParent(c, Visible(s)),
             Fitting(b, ParentsOf(c, Visible(s)), c)
       PROVE  Fitting(d, ParentsOf(c, Visible(s)), c)
  <2> DEFINE w == ParentsOf(c, Visible(s))
  <2>1. w \subseteq Parent /\ (p \in Parent => (p \in w <=> <<p, c>> \in Visible(s)))
    BY ParentsFacts
  <2>2. e = c => /\ Consistent(b, c) /\ c \notin b.upd /\ ~ConnectsAgain(b, q, c)
                 /\ b.ref[c] = p \/ (b.ref[c] = Unread /\ (p = NoParent => w = {}))
                 /\ p \in Parent /\ c \in b.ins[p] => p \in w
    BY <1>3, <1>5, <1>9, <1>10, <1>11, <2>1
  <2>3. q \in (Parent \cup {NoParent}) \ {p} /\ Fitting(b, w, c)
    BY <1>3, <1>11
  <2> HIDE DEF w
  <2>4. Fitting(d, w, c)
    BY <1>2, <1>3, <1>4, <1>8, <2>1, <2>2, <2>3, ParentSetFits
  <2> QED
    BY <2>4 DEF w
<1>12. Carries(s, d)
  BY <1>2, <1>11 DEF Carries, b
<1> QED
  BY <1>2, <1>6, <1>8, <1>9, <1>12 DEF Carrying

LEMMA SaveCarries ==
    ASSUME TypeInv, NEW s \in Session, NEW x \in Node, NEW kept \in BOOLEAN, Save(s, x, kept)
    PROVE  \E d : Carrying(s, d)
<1> DEFINE b == ses[s]
<1>1. /\ b \in SessionState /\ Read(b) /\ x \in b.dirty /\ x \notin b.upd
      /\ hist' = hist /\ pc[s] \in {"app", "spool"}
  BY SessionRead DEF Save, shouldIgnore
<1>2. CASE x \in Parent
  <2> DEFINE d == SavedParent(b, x)
  <2>1. Update(s, d) /\ d \in SessionState /\ d = SavedParent(b, x)
    BY <1>1, <1>2, SavedParentKeeps DEF Save
  <2> HIDE DEF b, d
  <2>2. ASSUME Bidirectional, NEW c \in Child, Fitting(b, ParentsOf(c, Visible(s)), c)
        PROVE  Fitting(d, ParentsOf(c, Visible(s)), c)
    BY <1>1, <1>2, <2>1, <2>2, SavedParentFits
  <2>3. ASSUME ~Bidirectional, NEW p \in Parent, NEW c \in Child, OneWay(b, p, c, Visible(s))
        PROVE  OneWay(d, p, c, Visible(s))
    BY <1>1, <1>2, <2>1, <2>3, OneWaySaved
  <2>4. ~Bidirectional /\ ChildrenClean(b) => ChildrenClean(d)
    <3> SUFFICES ASSUME ~Bidirectional, ChildrenClean(b) PROVE ChildrenClean(d)
      OBVIOUS
    <3>1. d.dirty = b.dirty /\ d.upd = b.upd \cup {x}
      BY <1>1, <1>2, <2>1, SavedParentAlone
    <3> QED
      BY <1>2, <3>1, NodeAssumption DEF ChildrenClean
  <2>5. Carries(s, d)
    BY <2>2, <2>3, <2>4 DEF Carries, b
  <2> QED
    BY <1>1, <2>1, <2>5 DEF Carrying
<1>3. CASE x \notin Parent
  <2> DEFINE d == SavedChild(b, Visible(s), x, kept)
  <2>1. x \in Child /\ Update(s, d) /\ d = SavedChild(b, Visible(s), x, kept)
    BY <1>3 DEF Save, Node
  <2>2. d \in SessionState
    BY <1>1, <2>1, SavedChildKeeps
  <2> HIDE DEF b, d
  <2>3. ASSUME Bidirectional, NEW c \in Child, OneParent(c, Visible(s)),
               Fitting(b, ParentsOf(c, Visible(s)), c)
        PROVE  Fitting(d, ParentsOf(c, Visible(s)), c)
    <3> DEFINE w == ParentsOf(c, Visible(s))
    <3>1. /\ w \subseteq Parent /\ (\A q \in Parent : q \in w <=> <<q, c>> \in Visible(s))
          /\ (\A q, r \in w : q = r) /\ Fitting(b, w, c)
      BY <2>3, ParentsFacts
    <3> HIDE DEF w
    <3>2. CASE x = c
      <4>1. Fitting(d, w, c)
        BY <1>1, <2>1, <2>2, <2>3, <3>1, <3>2, SavedItselfFits
      <4> QED
        BY <4>1 DEF w
    <3>3. CASE x # c
      <4>1. Fitting(d, w, c)
        BY <1>1, <2>1, <2>2, <2>3, <3>1, <3>3, SavedOtherFits
      <4> QED
        BY <4>1 DEF w
    <3> QED
      BY <3>2, <3>3
  <2>4. ~ChildrenClean(b)
    BY <1>1, <2>1 DEF ChildrenClean
  <2>5. Carries(s, d)
    BY <2>3, <2>4 DEF Carries, b
  <2> QED
    BY <1>1, <2>1, <2>2, <2>5 DEF Carrying
<1> QED
  BY <1>2, <1>3

LEMMA ChangesCarry ==
    ASSUME TypeInv, NEW s \in Session, Changes(s)
    PROVE  \E d : Carrying(s, d)
BY LoadCarries, AddCarries, RemoveCarries, SetParentCarries, SaveCarries DEF Changes

-----------------------------------------------------------------------------
(***************************************************************************)
(* Every step keeps the invariant.                                         *)
(***************************************************************************)

LEMMA FutureSame ==
    ASSUME NEW s \in Session, own'[s] = own[s], graph' = graph, stmts'[s] = stmts[s]
    PROVE  Visible(s)' = Visible(s) /\ Future(s)' = Future(s)
<1>1. Visible(s)' = Visible(s)
  BY DEF Visible
<1>2. \A r : Later(s, r)' <=> Later(s, r)
  BY <1>1 DEF Later, Outcome, Kills, Makes
<1> QED
  BY <1>1, <1>2 DEF Future

\* A step that changes nothing but the phase of a session.
LEMMA StillFits ==
    ASSUME NEW s \in Session, SessionFits(s), own'[s] = own[s], graph' = graph, kind' = kind,
           stmts'[s] = stmts[s], ses'[s] = ses[s], hist'[s] = hist[s], PhaseFits(s)'
    PROVE  SessionFits(s)'
<1>1. Future(s)' = Future(s)
  BY FutureSame
<1>2. ASSUME NEW c \in Child, ChildFits(s, c) PROVE ChildFits(s, c)'
  BY <1>1, <1>2 DEF ChildFits, Undisturbed, OneParent, ParentsOf, Expected
<1>3. ASSUME NEW p \in Parent, NEW c \in Child, PairFits(s, p, c) PROVE PairFits(s, p, c)'
  BY <1>1, <1>3 DEF PairFits
<1>4. Bidirectional' <=> Bidirectional
  BY DEF Bidirectional
<1> QED
  BY <1>2, <1>3, <1>4 DEF SessionFits

LEMMA CarryFits ==
    ASSUME FitsInv, NEW s \in Session, NEW d, Carrying(s, d)
    PROVE  SessionFits(s)'
<1>1. /\ Inv /\ SessionFits(s) /\ Local(s) /\ ses \in [Session -> SessionState]
  BY DEF FitsInv, Inv, TypeInv, TypeOK
<1>2. /\ own' = own /\ graph' = graph /\ kind' = kind /\ stmts' = stmts /\ pc' = pc
      /\ ses' = [ses EXCEPT ![s] = d]
  BY DEF Carrying, Update, dbVars
<1>3. ses'[s] = d /\ pc[s] \in {"app", "spool"} /\ stmts[s] = <<>>
  BY <1>1, <1>2 DEF Carrying, SessionFits, PhaseFits
<1>4. Future(s) = Visible(s) /\ Future(s)' = Visible(s)
  BY <1>2, <1>3, QuietFuture, FutureSame
<1>5. PhaseFits(s)'
  BY <1>2, <1>3 DEF PhaseFits
<1>6. hist[s].again \subseteq hist'[s].again /\ hist'[s].raced = hist[s].raced /\ Carries(s, d)
  BY DEF Carrying
<1>7. ASSUME Bidirectional, NEW c \in Child PROVE ChildFits(s, c)'
  <2> SUFFICES ASSUME Undisturbed(s, c)' PROVE Fitting(d, ParentsOf(c, Visible(s)), c)
    <3>1. Expected(s, c)' = ParentsOf(c, Visible(s))
      BY <1>4 DEF Expected, ParentsOf
    <3> QED
      BY <1>3, <3>1 DEF ChildFits
  <2>1. Undisturbed(s, c) /\ c \notin hist'[s].again
    BY <1>2, <1>6 DEF Undisturbed, OneParent, ParentsOf
  <2>2. Fitting(ses[s], ParentsOf(c, Visible(s)), c)
    BY <1>1, <1>4, <1>7, <2>1 DEF SessionFits, ChildFits, Expected
  <2>3. OneParent(c, Visible(s))
    BY <1>1, <1>7, <2>1 DEF Local, Single, Undisturbed
  <2> QED
    BY <1>6, <1>7, <2>1, <2>2, <2>3 DEF Carries
<1>8. ASSUME ~Bidirectional PROVE ChildrenClean(ses[s])'
  BY <1>1, <1>3, <1>6, <1>8 DEF Carries, SessionFits, ChildrenClean
<1>9. ASSUME ~Bidirectional, NEW p \in Parent, NEW c \in Child PROVE PairFits(s, p, c)'
  <2> SUFFICES ASSUME c \notin hist'[s].again, <<p, c>> \notin hist'[s].raced
               PROVE  OneWay(d, p, c, Visible(s))
    BY <1>3, <1>4 DEF PairFits
  <2>1. OneWay(ses[s], p, c, Visible(s)) /\ ChildrenClean(ses[s])
    BY <1>1, <1>4, <1>6, <1>9 DEF SessionFits, PairFits
  <2> QED
    BY <1>6, <1>9, <2>1 DEF Carries
<1>10. Bidirectional' <=> Bidirectional
  BY <1>2 DEF Bidirectional
<1> QED
  BY <1>5, <1>7, <1>8, <1>9, <1>10 DEF SessionFits

\* The next statement runs: the relationships will be the same in the end.
LEMMA RunFits ==
    ASSUME FitsInv, NEW s \in Session, RunStatement(s)
    PROVE  SessionFits(s)'
<1> DEFINE st == Head(stmts[s])
           gone == Deletes(st, Visible(s))
           made == Creates(st, Visible(s))
<1>1. Inv /\ TypeInv /\ SessionFits(s) /\ stmts \in [Session -> Seq(StatementType)]
  BY DEF FitsInv, Inv, TypeInv, TypeOK
<1>2. /\ graph' = graph /\ kind' = kind /\ pc' = pc /\ ses' = ses /\ hist' = hist
      /\ pc[s] = "write" /\ stmts[s] # <<>>
      /\ stmts' = [stmts EXCEPT ![s] = Tail(stmts[s])]
  BY DEF RunStatement
<1>3. stmts'[s] = Tail(stmts[s]) /\ stmts[s] \in Seq(StatementType) /\ stmts[s] # <<>>
  <2> HIDE DEF StatementType
  <2> QED
    BY <1>1, <1>2
<1>4. Visible(s)' = {r \in Rel : (r \in Visible(s) /\ r \notin gone) \/ (r \in made /\ r \notin gone)}
  BY <1>1, StatementRuns
<1>5. st \in StatementType
  <2> HIDE DEF StatementType
  <2> QED
    BY <1>3
<1> HIDE DEF gone, made
<1>6. ASSUME NEW r \in Rel
      PROVE  r \in Visible(s)' <=> (r \in Visible(s) /\ ~Kills(st, r)) \/ Makes(st, r)
  <2>1. r \in gone <=> r \in Visible(s) /\ Kills(st, r)
    BY DEF gone, Deletes, Kills
  <2>2. r \in made <=> Makes(st, r) /\ r \notin Visible(s)
    BY <1>5 DEF made, Creates, Makes, StatementType, Rel
  <2>3. ~(Kills(st, r) /\ Makes(st, r))
    BY DEF Kills, Makes
  <2> QED
    BY <1>4, <2>1, <2>2, <2>3
<1> HIDE DEF st
<1>7. ASSUME NEW r \in Rel PROVE Later(s, r)' <=> Later(s, r)
  <2> DEFINE seen == Visible(s)'
  <2>1. Outcome(Visible(s), stmts[s], r) <=> Outcome(seen, Tail(stmts[s]), r)
    <3>1. r \in seen <=> (r \in Visible(s) /\ ~Kills(Head(stmts[s]), r)) \/ Makes(Head(stmts[s]), r)
      BY <1>6 DEF st
    <3> HIDE DEF seen
    <3> QED
      BY <1>3, <3>1, OutcomeStep
  <2>2. Later(s, r)' <=> Outcome(seen, Tail(stmts[s]), r)
    BY <1>3 DEF Later, Outcome, Kills, Makes
  <2> QED
    BY <2>1, <2>2 DEF Later
<1>8. Future(s)' = Future(s)
  BY <1>7 DEF Future
<1>9. ASSUME NEW c \in Child, ChildFits(s, c) PROVE ChildFits(s, c)'
  BY <1>2, <1>8, <1>9 DEF ChildFits, Undisturbed, OneParent, ParentsOf, Expected
<1>10. ASSUME NEW p \in Parent, NEW c \in Child, PairFits(s, p, c) PROVE PairFits(s, p, c)'
  BY <1>2, <1>8, <1>10 DEF PairFits
<1>11. (Bidirectional' <=> Bidirectional) /\ PhaseFits(s)'
  BY <1>1, <1>2 DEF Bidirectional, PhaseFits, SessionFits
<1> QED
  BY <1>1, <1>2, <1>9, <1>10, <1>11 DEF SessionFits

\* An update in a unidirectional association is one of a parent.
LEMMA UpdatedParent ==
    ASSUME NEW s \in Session, ~Bidirectional, SessionFits(s), NEW x \in Node, x \in ses[s].upd
    PROVE  x \in Parent /\ KeyParent(ses[s], x) = x
BY DEF SessionFits, ChildrenClean, Node, KeyParent

\* The update of x flushes the key of a collection.
LEMMA KeyUpdateFits ==
    ASSUME FitsInv, NEW s \in Session, NEW x \in Node, FlushUpdate(s, x),
           KeyParent(ses[s], x) \in Parent
    PROVE  SessionFits(s)'
<1> DEFINE b == ses[s]
           p == KeyParent(b, x)
           d == Served(b, p, x)
           sts == KeyStatements(b, p)
<1>1. /\ TypeInv /\ SessionFits(s) /\ b \in SessionState /\ Read(b)
      /\ stmts \in [Session -> Seq(StatementType)] /\ ses \in [Session -> SessionState]
  BY SessionRead DEF FitsInv, Inv, TypeInv, TypeOK
<1>2. /\ own' = own /\ graph' = graph /\ kind' = kind /\ pc' = pc /\ hist' = hist
      /\ pc[s] = "write" /\ stmts[s] = <<>> /\ x \in b.upd
      /\ stmts' = [stmts EXCEPT ![s] = sts] /\ ses' = [ses EXCEPT ![s] = d]
  BY DEF FlushUpdate, dbVars, Served
<1>3. stmts'[s] = sts /\ ses'[s] = d
  BY <1>1, <1>2
<1>4. p \in Parent /\ d = Served(b, p, x) /\ sts = KeyStatements(b, p)
  OBVIOUS
<1>5. b.dirty \subseteq b.upd
  BY <1>1, <1>2 DEF SessionFits, PhaseFits
<1> HIDE DEF d, sts
<1>6. d.dirty = b.dirty \ {x} /\ d.upd = b.upd \ {x}
  BY <1>1, <1>4, KeyFields
<1>7. Future(s) = Visible(s) /\ Visible(s)' = Visible(s)
  BY <1>2, QuietFuture DEF Visible
<1>8. ASSUME NEW q \in Parent, NEW c \in Child
      PROVE  <<q, c>> \in Future(s)' <=>
                /\ ~(q = p /\ c \in b.del[p])
                /\ IF c \in b.ins[p] THEN q = p \/ (~Bidirectional /\ <<q, c>> \in Visible(s))
                                     ELSE <<q, c>> \in Visible(s)
  <2>1. <<q, c>> \in Future(s)' <=> Outcome(Visible(s), sts, <<q, c>>)
    BY <1>3, <1>7 DEF Future, Later, Outcome, Kills, Makes, Rel
  <2> HIDE DEF b, p
  <2> QED
    BY <1>1, <1>4, <2>1, KeyOutcome
<1>9. PhaseFits(s)'
  BY <1>2, <1>3, <1>5, <1>6 DEF PhaseFits
<1>10. ASSUME Bidirectional, NEW c \in Child PROVE ChildFits(s, c)'
  <2> SUFFICES ASSUME Undisturbed(s, c)' PROVE Fitting(d, Expected(s, c)', c)
    BY <1>3 DEF ChildFits
  <2> DEFINE w == ParentsOf(c, Visible(s))
             v == Expected(s, c)'
  <2>1. Undisturbed(s, c)
    BY <1>2 DEF Undisturbed, OneParent, ParentsOf
  <2>2. Fitting(b, w, c)
    BY <1>1, <1>7, <1>10, <2>1 DEF SessionFits, ChildFits, Expected
  <2>3. w \subseteq Parent /\ \A q \in Parent : q \in w <=> <<q, c>> \in Visible(s)
    BY ParentsFacts
  <2>4. v \subseteq Parent /\ \A q \in Parent : q \in v <=> <<q, c>> \in Future(s)'
    BY DEF Expected, ParentsOf
  <2>5. \A q \in Parent : q \in v <=> /\ ~(q = p /\ c \in b.del[p])
                                      /\ IF c \in b.ins[p] THEN q = p ELSE q \in w
    BY <1>8, <1>10, <2>3, <2>4
  <2>6. KeyParent(b, x) = p
    OBVIOUS
  <2> HIDE DEF v, w, b, p
  <2>7. Fitting(d, v, c)
    BY <1>1, <1>2, <1>4, <1>5, <2>2, <2>3, <2>4, <2>5, <2>6, KeyFits
  <2> QED
    BY <2>7 DEF v
<1>11. ASSUME ~Bidirectional PROVE ChildrenClean(ses[s])'
  BY <1>1, <1>3, <1>6, <1>11 DEF SessionFits, ChildrenClean
<1>12. ASSUME ~Bidirectional, NEW r \in Parent, NEW c \in Child PROVE PairFits(s, r, c)'
  <2> SUFFICES ASSUME c \notin hist[s].again, <<r, c>> \notin hist[s].raced
               PROVE  OneWay(d, r, c, Future(s)')
    BY <1>2, <1>3 DEF PairFits
  <2> DEFINE g == Visible(s)
             h == Future(s)'
  <2>1. OneWay(b, r, c, g)
    BY <1>1, <1>7, <1>12 DEF SessionFits, PairFits
  <2>2. p = x
    BY <1>1, <1>2, <1>12, UpdatedParent
  <2>3. <<r, c>> \in h <=> /\ ~(r = p /\ c \in b.del[p])
                           /\ (r = p /\ c \in b.ins[p]) \/ <<r, c>> \in g
    BY <1>8, <1>12
  <2>4. d = Served(b, p, p)
    BY <1>4, <2>2
  <2> HIDE DEF b, p, g, h
  <2>5. OneWay(d, r, c, h)
    BY <1>1, <1>4, <2>1, <2>3, <2>4, OneWayKey
  <2> QED
    BY <2>5 DEF h
<1>13. Bidirectional' <=> Bidirectional
  BY <1>2 DEF Bidirectional
<1> QED
  BY <1>9, <1>10, <1>11, <1>12, <1>13 DEF SessionFits

\* The update of a child without a parent flushes no collection.
LEMMA NullUpdateFits ==
    ASSUME FitsInv, NEW s \in Session, NEW x \in Node, FlushUpdate(s, x),
           KeyParent(ses[s], x) \notin Parent
    PROVE  SessionFits(s)'
<1> DEFINE b == ses[s]
           d == Tracked([b EXCEPT !.nulled = b.nulled \ {x}], x)
           sts == IF x \in b.nulled THEN <<Statement("orphan", NoParent, {x})>> ELSE <<>>
<1>1. /\ TypeInv /\ SessionFits(s) /\ b \in SessionState /\ Read(b)
      /\ stmts \in [Session -> Seq(StatementType)] /\ ses \in [Session -> SessionState]
  BY SessionRead DEF FitsInv, Inv, TypeInv, TypeOK
<1>2. /\ own' = own /\ graph' = graph /\ kind' = kind /\ pc' = pc /\ hist' = hist
      /\ pc[s] = "write" /\ stmts[s] = <<>> /\ x \in b.upd
      /\ stmts' = [stmts EXCEPT ![s] = sts] /\ ses' = [ses EXCEPT ![s] = d]
  BY DEF FlushUpdate, dbVars
<1>3. stmts'[s] = sts /\ ses'[s] = d
  BY <1>1, <1>2
<1>4. d = Tracked([b EXCEPT !.nulled = b.nulled \ {x}], x)
  OBVIOUS
<1>5. /\ b.dirty \subseteq b.upd /\ x \in Child /\ Bidirectional
  BY <1>1, <1>2, UpdatedParent DEF SessionFits, PhaseFits, Node, KeyParent
<1>6. d \in SessionState
  BY <1>1, FlushedNullKeeps
<1>7. Future(s) = Visible(s) /\ Visible(s)' = Visible(s)
  BY <1>2, QuietFuture DEF Visible
<1> HIDE DEF d
<1>8. d.dirty = b.dirty \ {x} /\ d.upd = b.upd \ {x}
  BY <1>1, <1>4 DEF Tracked, SessionState
<1>9. ASSUME NEW q \in Parent, NEW c \in Child
      PROVE  <<q, c>> \in Future(s)' <=> <<q, c>> \in Visible(s) /\ ~(c = x /\ x \in b.nulled)
  <2>1. <<q, c>> \in Future(s)' <=> Outcome(Visible(s), sts, <<q, c>>)
    <3> HIDE DEF sts
    <3> QED
      BY <1>3, <1>7 DEF Future, Later, Outcome, Kills, Makes, Rel
  <2>2. CASE x \in b.nulled
    BY <1>5, <2>1, <2>2, OrphanOutcome
  <2>3. CASE x \notin b.nulled
    BY <2>1, <2>3, OutcomeNone
  <2> QED
    BY <2>2, <2>3
<1> HIDE DEF sts
<1>10. PhaseFits(s)'
  BY <1>2, <1>3, <1>5, <1>8 DEF PhaseFits
<1>11. ASSUME NEW c \in Child PROVE ChildFits(s, c)'
  <2> SUFFICES ASSUME Undisturbed(s, c)' PROVE Fitting(d, Expected(s, c)', c)
    BY <1>3 DEF ChildFits
  <2> DEFINE w == ParentsOf(c, Visible(s))
             v == Expected(s, c)'
  <2>1. Undisturbed(s, c)
    BY <1>2 DEF Undisturbed, OneParent, ParentsOf
  <2>2. Fitting(b, w, c)
    BY <1>1, <1>5, <1>7, <2>1 DEF SessionFits, ChildFits, Expected
  <2>3. w \subseteq Parent /\ \A q \in Parent : q \in w <=> <<q, c>> \in Visible(s)
    BY ParentsFacts
  <2>4. v \subseteq Parent /\ \A q \in Parent : q \in v <=> <<q, c>> \in Future(s)'
    BY DEF Expected, ParentsOf
  <2>5. v = IF c = x /\ x \in b.nulled THEN {} ELSE w
    <3> HIDE DEF v, w, b
    <3> QED
      BY <1>9, <2>3, <2>4
  <2> HIDE DEF v, w, b
  <2>6. Fitting(d, v, c)
    BY <1>1, <1>2, <1>4, <1>5, <1>6, <2>2, <2>3, <2>5, NullKeyFits DEF b
  <2> QED
    BY <2>6 DEF v
<1>12. Bidirectional' <=> Bidirectional
  BY <1>2 DEF Bidirectional
<1> QED
  BY <1>5, <1>10, <1>11, <1>12 DEF SessionFits

\* The flush is over, and the session goes on.
LEMMA DoneFits ==
    ASSUME FitsInv, NEW s \in Session, FlushDone(s)
    PROVE  SessionFits(s)'
<1> DEFINE b == ses[s]
           d == Cleared(b)
<1>1. /\ SessionFits(s) /\ b \in SessionState /\ ses \in [Session -> SessionState]
      /\ pc \in [Session -> {"idle", "app", "spool", "write"}]
  BY DEF FitsInv, Inv, TypeInv, TypeOK
<1>2. /\ own' = own /\ graph' = graph /\ kind' = kind /\ stmts' = stmts /\ hist' = hist
      /\ pc'[s] = "app" /\ pc[s] = "write" /\ stmts[s] = <<>> /\ b.upd = {} /\ ses'[s] = d
  BY <1>1 DEF FlushDone, Written, dbVars
<1>3. b.dirty \subseteq b.upd /\ d = Cleared(b)
  BY <1>1, <1>2 DEF SessionFits, PhaseFits
<1> HIDE DEF d
<1>4. Future(s)' = Future(s)
  BY <1>2, FutureSame
<1>5. d.dirty = b.dirty /\ d.upd = {}
  BY <1>1, <1>3 DEF Cleared, SessionState
<1>6. PhaseFits(s)'
  BY <1>2 DEF PhaseFits
<1> HIDE DEF b
<1>7. ASSUME Bidirectional, NEW c \in Child PROVE ChildFits(s, c)'
  <2>1. Undisturbed(s, c)' => Undisturbed(s, c)
    BY <1>2 DEF Undisturbed, OneParent, ParentsOf
  <2>2. Expected(s, c)' = Expected(s, c)
    BY <1>4 DEF Expected, ParentsOf
  <2>3. Undisturbed(s, c) => Fitting(b, Expected(s, c), c)
    BY <1>1, <1>7 DEF SessionFits, ChildFits, b
  <2>4. Fitting(b, Expected(s, c), c) => Fitting(d, Expected(s, c), c)
    BY <1>1, <1>2, <1>3, ClearedFits
  <2> QED
    BY <1>2, <2>1, <2>2, <2>3, <2>4 DEF ChildFits
<1>8. ASSUME ~Bidirectional PROVE ChildrenClean(ses[s])'
  BY <1>1, <1>2, <1>5, <1>8 DEF SessionFits, ChildrenClean, b
<1>9. ASSUME ~Bidirectional, NEW p \in Parent, NEW c \in Child PROVE PairFits(s, p, c)'
  <2>1. OneWay(b, p, c, Future(s)) => OneWay(d, p, c, Future(s))
    BY <1>1, <1>2, <1>3, OneWayCleared
  <2> QED
    BY <1>1, <1>2, <1>4, <1>9, <2>1 DEF SessionFits, PairFits, b
<1>10. Bidirectional' <=> Bidirectional
  BY <1>2 DEF Bidirectional
<1> QED
  BY <1>6, <1>7, <1>8, <1>9, <1>10 DEF SessionFits

\* A session that ends its unit of work, or has none.
LEMMA IdleFits ==
    ASSUME NEW s \in Session, ses'[s] = Blank, stmts'[s] = <<>>, pc'[s] # "write"
    PROVE  SessionFits(s)'
<1>1. PhaseFits(s)'
  BY DEF PhaseFits, Blank
<1>2. \A c \in Child : ChildFits(s, c)'
  BY BlankFits DEF ChildFits, Blank
<1>3. \A p \in Parent, c \in Child : PairFits(s, p, c)'
  BY OneWayBlank DEF PairFits, Blank
<1>4. ChildrenClean(ses[s])'
  BY DEF ChildrenClean, Blank
<1> QED
  BY <1>1, <1>2, <1>3, <1>4 DEF SessionFits

\* What another session commits disturbs what it has changed and nothing else.
LEMMA CommitFits ==
    ASSUME FitsInv, NEW s \in Session, NEW o \in Session \ {s}, Commit(s)
    PROVE  SessionFits(o)'
<1>1. TypeInv /\ SessionFits(o) /\ Local(o) /\ o # s
  BY DEF FitsInv, Inv
<1>2. /\ own'[o] = own[o] /\ ses'[o] = ses[o] /\ stmts'[o] = stmts[o] /\ pc'[o] = pc[o]
      /\ kind' = kind
  BY <1>1 DEF Commit, Idle, TypeInv, TypeOK
<1>3. pc[o] # "idle" => /\ hist'[o].again = hist[o].again
                        /\ hist'[o].raced = hist[o].raced \cup Changed(graph, graph')
  BY <1>1 DEF Commit, TypeInv, TypeOK, History
<1>4. CASE pc[o] = "idle"
  <2>1. ses'[o] = Blank /\ stmts'[o] = <<>> /\ pc'[o] # "write"
    BY <1>1, <1>2, <1>4 DEF SessionFits, PhaseFits
  <2> QED
    BY <2>1, IdleFits
<1>5. CASE pc[o] # "idle"
  <2>1. ASSUME NEW p \in Parent, NEW c \in Child, <<p, c>> \notin hist'[o].raced
        PROVE  /\ <<p, c>> \in graph <=> <<p, c>> \in graph'
               /\ <<p, c>> \in Future(o)' <=> <<p, c>> \in Future(o)
    <3>1. <<p, c>> \in graph <=> <<p, c>> \in graph'
      BY <1>3, <1>5, <2>1 DEF Changed
    <3>2. <<p, c>> \in Visible(o)' <=> <<p, c>> \in Visible(o)
      BY <1>2, <3>1 DEF Visible
    <3>3. Later(o, <<p, c>>)' <=> Later(o, <<p, c>>)
      BY <1>2, <3>2 DEF Later, Outcome, Kills, Makes
    <3> QED
      BY <3>1, <3>3 DEF Future
  <2>2. ASSUME Bidirectional, NEW c \in Child PROVE ChildFits(o, c)'
    <3> SUFFICES ASSUME Undisturbed(o, c)' PROVE Fitting(ses[o], Expected(o, c)', c)
      BY <1>2 DEF ChildFits
    <3>1. \A p \in Parent : <<p, c>> \notin hist'[o].raced
      BY DEF Undisturbed
    <3>2. Expected(o, c)' = Expected(o, c)
      BY <2>1, <3>1 DEF Expected, ParentsOf
    <3>3. ParentsOf(c, graph') = ParentsOf(c, graph)
      BY <2>1, <3>1 DEF ParentsOf
    <3>4. Undisturbed(o, c)
      BY <1>3, <1>5, <3>3 DEF Undisturbed, OneParent
    <3> QED
      BY <1>1, <2>2, <3>2, <3>4 DEF SessionFits, ChildFits
  <2>3. ASSUME ~Bidirectional, NEW p \in Parent, NEW c \in Child PROVE PairFits(o, p, c)'
    <3> SUFFICES ASSUME c \notin hist'[o].again, <<p, c>> \notin hist'[o].raced
                 PROVE  OneWay(ses[o], p, c, Future(o)')
      BY <1>2 DEF PairFits
    <3>1. OneWay(ses[o], p, c, Future(o))
      BY <1>1, <1>3, <1>5, <2>3 DEF SessionFits, PairFits
    <3> QED
      BY <2>1, <3>1 DEF OneWay
  <2>4. (Bidirectional' <=> Bidirectional) /\ PhaseFits(o)'
    BY <1>1, <1>2 DEF Bidirectional, SessionFits, PhaseFits
  <2> QED
    BY <1>1, <1>2, <2>2, <2>3, <2>4 DEF SessionFits
<1> QED
  BY <1>4, <1>5

LEMMA FitsInit == Init => FitsInv
<1> SUFFICES ASSUME Init PROVE FitsInv
  OBVIOUS
<1>1. ASSUME NEW s \in Session PROVE SessionFits(s)
  <2>1. ses[s] = Blank /\ stmts[s] = <<>> /\ pc[s] = "idle"
    BY DEF Init
  <2>2. PhaseFits(s)
    BY <2>1 DEF PhaseFits
  <2>3. \A c \in Child : ChildFits(s, c)
    BY <2>1, BlankFits DEF ChildFits
  <2>4. \A p \in Parent, c \in Child : PairFits(s, p, c)
    BY <2>1, OneWayBlank DEF PairFits
  <2>5. ChildrenClean(ses[s])
    BY <2>1 DEF ChildrenClean, Blank
  <2> QED
    BY <2>2, <2>3, <2>4, <2>5 DEF SessionFits
<1> QED
  BY <1>1, InvInit DEF FitsInv

LEMMA FitsNext == FitsInv /\ [Next]_vars => FitsInv'
<1> SUFFICES ASSUME FitsInv, [Next]_vars PROVE FitsInv'
  OBVIOUS
<1>1. Inv' /\ Inv /\ TypeInv
  BY InvNext DEF FitsInv, Inv
<1>2. /\ pc \in [Session -> {"idle", "app", "spool", "write"}]
      /\ stmts \in [Session -> Seq(StatementType)] /\ ses \in [Session -> SessionState]
      /\ own \in [Session -> [Rel -> {"none", "there", "gone"}]]
      /\ hist \in [Session -> History]
  BY <1>1 DEF TypeInv, TypeOK
<1>3. ASSUME NEW o \in Session, own'[o] = own[o], graph' = graph, kind' = kind,
             stmts'[o] = stmts[o], ses'[o] = ses[o], pc'[o] = pc[o], hist'[o] = hist[o]
      PROVE  SessionFits(o)'
  <2>1. SessionFits(o) /\ PhaseFits(o)'
    BY <1>3 DEF FitsInv, SessionFits, PhaseFits
  <2> QED
    BY <1>3, <2>1, StillFits
<1>4. ASSUME NEW s \in Session, SessionFits(s)', own' = own, graph' = graph, kind' = kind,
             \A o \in Session \ {s} : /\ stmts'[o] = stmts[o] /\ pc'[o] = pc[o]
                                      /\ ses'[o] = ses[o] /\ hist'[o] = hist[o]
      PROVE  FitsInv'
  BY <1>1, <1>3, <1>4 DEF FitsInv
<1>5. CASE UNCHANGED vars
  BY <1>1, <1>3, <1>5 DEF FitsInv, vars, dbVars
<1>6. ASSUME NEW s \in Session, Changes(s) PROVE FitsInv'
  <2>1. PICK d : Carrying(s, d)
    BY <1>1, <1>6, ChangesCarry
  <2>2. /\ own' = own /\ graph' = graph /\ kind' = kind
        /\ \A o \in Session \ {s} : /\ stmts'[o] = stmts[o] /\ pc'[o] = pc[o]
                                    /\ ses'[o] = ses[o] /\ hist'[o] = hist[o]
    BY <1>2, <2>1 DEF Carrying, Update, dbVars
  <2> QED
    BY <1>4, <2>1, <2>2, CarryFits
<1>7. ASSUME NEW s \in Session, Begin(s) \/ (\E commits \in BOOLEAN : Flush(s, commits)) \/ Spooled(s)
      PROVE  FitsInv'
  <2>1. /\ own' = own /\ graph' = graph /\ kind' = kind /\ ses' = ses /\ stmts' = stmts /\ hist' = hist
        /\ pc'[s] = "write" => ses[s].dirty \subseteq ses[s].upd
        /\ pc'[s] # "idle" /\ pc[s] # "write"
        /\ \A o \in Session \ {s} : pc'[o] = pc[o]
    BY <1>2, <1>7 DEF Begin, Flush, Spooled, dbVars
  <2>2. SessionFits(s) /\ PhaseFits(s)'
    BY <2>1 DEF FitsInv, SessionFits, PhaseFits
  <2>3. SessionFits(s)'
    BY <2>1, <2>2, StillFits
  <2> QED
    BY <1>4, <2>1, <2>3
<1>8. ASSUME NEW s \in Session, NEW x \in Node, FlushUpdate(s, x) PROVE FitsInv'
  <2>1. SessionFits(s)'
    BY <1>8, KeyUpdateFits, NullUpdateFits
  <2>2. PICK d, sts : ses' = [ses EXCEPT ![s] = d] /\ stmts' = [stmts EXCEPT ![s] = sts]
    BY <1>1, <1>8, FlushUpdateTakes
  <2>3. /\ own' = own /\ graph' = graph /\ kind' = kind
        /\ \A o \in Session \ {s} : /\ stmts'[o] = stmts[o] /\ pc'[o] = pc[o]
                                    /\ ses'[o] = ses[o] /\ hist'[o] = hist[o]
    BY <1>2, <1>8, <2>2 DEF FlushUpdate, dbVars
  <2> QED
    BY <1>4, <2>1, <2>3
<1>9. ASSUME NEW s \in Session, FlushDone(s) PROVE FitsInv'
  <2>1. /\ own' = own /\ graph' = graph /\ kind' = kind /\ stmts' = stmts /\ hist' = hist
        /\ \A o \in Session \ {s} : pc'[o] = pc[o] /\ ses'[o] = ses[o]
    BY <1>2, <1>9 DEF FlushDone, dbVars
  <2> QED
    BY <1>4, <1>9, <2>1, DoneFits
<1>10. ASSUME NEW s \in Session, RunStatement(s) PROVE FitsInv'
  <2>1. /\ stmts' = [stmts EXCEPT ![s] = Tail(stmts[s])]
        /\ \A o \in Session \ {s} : own'[o] = own[o]
    BY <1>1, <1>10, StatementRuns
  <2>2. \A o \in Session \ {s} : SessionFits(o)'
    BY <1>2, <1>3, <1>10, <2>1 DEF RunStatement
  <2> QED
    BY <1>1, <1>10, <2>2, RunFits DEF FitsInv
<1>11. ASSUME NEW s \in Session, Rollback(s) \/ Commit(s) PROVE FitsInv'
  <2>1. /\ ses'[s] = Blank /\ stmts'[s] = <<>> /\ pc'[s] = "idle"
        /\ \A o \in Session \ {s} : /\ own'[o] = own[o] /\ stmts'[o] = stmts[o]
                                    /\ ses'[o] = ses[o] /\ pc'[o] = pc[o]
    BY <1>2, <1>11 DEF Rollback, Commit, Idle
  <2>2. SessionFits(s)'
    BY <2>1, IdleFits
  <2>3. \A o \in Session \ {s} : SessionFits(o)'
    <3>1. CASE Commit(s)
      BY <3>1, CommitFits
    <3>2. CASE Rollback(s)
      <4>1. \A o \in Session \ {s} : hist'[o] = hist[o]
        BY <1>2, <3>2 DEF Rollback
      <4> QED
        BY <1>3, <2>1, <3>2, <4>1 DEF Rollback
    <3> QED
      BY <1>11, <3>1, <3>2
  <2> QED
    BY <1>1, <2>2, <2>3 DEF FitsInv
<1>12. CASE Next
  BY <1>6, <1>7, <1>8, <1>9, <1>10, <1>11, <1>12 DEF Next, AppStep, FlushStep, Changes
<1> QED
  BY <1>5, <1>12

LEMMA FitsAlways == Spec => []FitsInv
BY FitsInit, FitsNext, PTL DEF Spec

\* At its commit a session that nothing disturbed has written what its collections show.
LEMMA CommitAgrees ==
    ASSUME FitsInv, NEW s \in Session, Commit(s), NEW p \in ses[s].loaded,
           NEW c \in Child \ hist[s].again
    PROVE  Agrees(s, p, c, graph')
<1> DEFINE b == ses[s]
<1>1. SessionFits(s) /\ b \in SessionState
  BY DEF FitsInv, Inv, TypeInv, TypeOK
<1>2. /\ graph' = Visible(s) /\ b.upd = {} /\ b.dirty \subseteq b.upd
      /\ Future(s) = Visible(s) /\ p \in Parent
  BY <1>1, QuietFuture DEF Commit, Written, SessionFits, PhaseFits, SessionState
<1>3. ASSUME Bidirectional, Consistent(b, c), OneParent(c, graph), ~Raced(hist[s], <<p, c>>)
      PROVE  <<p, c>> \in graph' <=> c \in b.coll[p]
  <2>1. \A r \in hist[s].raced : r[2] # c
    BY <1>3 DEF Raced
  <2>2. Fitting(b, Expected(s, c), c)
    BY <1>1, <1>3, <2>1 DEF SessionFits, ChildFits, Undisturbed
  <2>3. \A q \in b.loaded : c \in b.coll[q] <=> b.ref[c] = q
    BY <1>3, ConsistentWhole
  <2> HIDE DEF b
  <2>4. p \in Expected(s, c) <=> c \in b.coll[p]
    BY <1>1, <1>2, <2>2, <2>3, FittingAgrees DEF b
  <2> QED
    BY <1>2, <2>4 DEF Expected, ParentsOf
<1>4. ASSUME ~Bidirectional, ~Raced(hist[s], <<p, c>>)
      PROVE  <<p, c>> \in graph' <=> c \in b.coll[p]
  <2>1. OneWay(b, p, c, Visible(s))
    BY <1>1, <1>2, <1>4 DEF SessionFits, PairFits, Raced
  <2> QED
    BY <1>2, <2>1 DEF OneWay
<1> QED
  BY <1>3, <1>4 DEF Agrees

\* Whatever the application adds, removes and moves, in whatever order instances are
\* saved, by hand or by the cascade, and the keys of the queues flushed, in however
\* many flushes: the commit leaves in the graph the relationships of the collections
\* that the session has read, unless another session interfered, a change was
\* repeated while it was pending or the instances contradict each other.
THEOREM CollectionsWrittenCorrect == Spec => CollectionsWritten
<1>1. FitsInv => [\A s \in Session : Commit(s) =>
                     \A p \in ses[s].loaded, c \in Child \ hist[s].again :
                        Agrees(s, p, c, graph')]_vars
  BY CommitAgrees
<1> QED
  BY <1>1, FitsAlways, PTL DEF CollectionsWritten
=============================================================================
