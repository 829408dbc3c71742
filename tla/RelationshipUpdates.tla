-------------------------- MODULE RelationshipUpdates --------------------------
(***************************************************************************)
(* Changes of a one-to-many association between existing nodes: what the   *)
(* collections and the to-one properties of a session record as pending    *)
(* relationship inserts and deletes, what save() adds to it by cascading,  *)
(* and the statements that flushPendingUpdates makes of it, one statement  *)
(* per step.  Sessions of different threads interleave between any two     *)
(* steps.  A session lasts for one unit of work.                           *)
(*                                                                         *)
(* The association is unidirectional (a child may be in the collections of *)
(* several parents) or bidirectional (the child has a to-one property that *)
(* refers back to its parent).                                             *)
(***************************************************************************)
EXTENDS Naturals, Sequences

LOCAL INSTANCE Functions

CONSTANTS
    Session,    \* threads, each with its session
    Parent,     \* the nodes with the collection
    Child,      \* the nodes in it
    Kinds,      \* the kinds of association: "unidirectional", "bidirectional"
    MaxCalls,   \* bound: how many changes the open units of work make
    NoParent,   \* the to-one property is null
    Unread      \* the session has not read the child

ASSUME KindAssumption == Kinds \subseteq {"unidirectional", "bidirectional"}
ASSUME NodeAssumption == Parent \cap Child = {}
ASSUME NullAssumption == {NoParent, Unread} \cap (Parent \cup Child) = {} /\ NoParent # Unread
ASSUME UseAssumption == MaxCalls \in Nat

Node == Parent \cup Child
Rel == Parent \X Child

VARIABLES
    kind,      \* the kind of the association
    graph,     \* the committed relationships
    own,       \* own[s][r]: what the open native transaction of s did to r last
    pc,        \* "idle" (no unit), "app", or inside flush(): "spool", "write"
    ending,    \* the flush belongs to the commit of the unit
    ses,       \* the instances and queues of the session
    stmts,     \* the statements of the pending update that is being flushed
    hist       \* history of the open unit

dbVars == <<graph, own>>
vars == <<kind, graph, own, pc, ending, ses, stmts, hist>>

Bidirectional == kind = "bidirectional"

\* What the session of a thread knows and has pending.
Blank ==
    [loaded |-> {},                         \* the parents whose collection is initialised
     coll |-> [p \in Parent |-> {}],        \* their elements
     ref |-> [c \in Child |-> Unread],      \* the to-one property of the children
     dirty |-> {},                          \* the instances whose association has changed
     parented |-> {},                       \* dirty children whose original parent was not null
     ins |-> [p \in Parent |-> {}],         \* pendingRelationshipInserts, key (p, collection)
     del |-> [p \in Parent |-> {}],         \* pendingRelationshipDeletes, key (p, collection)
     nulled |-> {},                         \* pendingRelationshipDeletes, key (child, to-one)
     upd |-> {}]                            \* pending updates

\* removed: the relationships the application removed; again: the children it
\* changed while an earlier change was pending; raced: the relationships that other
\* sessions have changed since the unit began; calls: how often it changed anything.
NoHistory == [removed |-> {}, again |-> {}, raced |-> {}, calls |-> 0]

Untouched == [r \in Rel |-> "none"]

\* What a statement of s sees.
Visible(s) == {r \in Rel : own[s][r] = "there" \/ (own[s][r] = "none" /\ r \in graph)}

\* Creating or deleting a relationship locks both of its nodes until the
\* transaction ends.
Locks(s) == UNION {{r[1], r[2]} : r \in {q \in Rel : own[s][q] # "none"}}
LockedByOther(s, r) == \E o \in Session \ {s} : {r[1], r[2]} \cap Locks(o) # {}

ParentsOf(c, g) == {p \in Parent : <<p, c>> \in g}
OneParent(c, g) == \A p, q \in ParentsOf(c, g) : p = q

Init ==
    /\ kind \in Kinds
    /\ graph \in {g \in SUBSET Rel : Bidirectional => \A c \in Child : OneParent(c, g)}
    /\ own = [s \in Session |-> Untouched]
    /\ pc = [s \in Session |-> "idle"]
    /\ ending = [s \in Session |-> FALSE]
    /\ ses = [s \in Session |-> Blank]
    /\ stmts = [s \in Session |-> <<>>]
    /\ hist = [s \in Session |-> NoHistory]

-----------------------------------------------------------------------------
(***************************************************************************)
(* What is recorded.  These operators map the state b of a session to the  *)
(* state after the call.                                                   *)
(***************************************************************************)

addPendingRelationshipInsert(b, p, cs) == [b EXCEPT !.ins[p] = @ \cup cs]
addPendingRelationshipDelete(b, p, cs) == [b EXCEPT !.del[p] = @ \cup cs]

\* GraphAdapter.adaptGraphUponAdd after the collection itself has changed and
\* marked its parent dirty.
Added(b, p, c) ==
    LET grown == [b EXCEPT !.coll[p] = @ \cup {c}, !.dirty = @ \cup {p},
                           !.ref = IF Bidirectional THEN [@ EXCEPT ![c] = p] ELSE @]
    IN addPendingRelationshipInsert(grown, p, {c})

\* removeFrom: the collection shrinks, its parent is dirty, the to-one of the
\* child becomes null (without making the child dirty).
Removed(b, p, c) ==
    LET shrunk == [b EXCEPT !.coll[p] = @ \ {c}, !.dirty = @ \cup {p},
                            !.ref = IF Bidirectional THEN [@ EXCEPT ![c] = NoParent] ELSE @]
    IN addPendingRelationshipDelete(shrunk, p, {c})

\* A collection is initialised from the rows the session sees.  The to-one of an
\* element is set to the parent, unless the element is a proxy: what an element
\* that was read before refers to may be kept or not.
Initialised(b, seen, p, kept) ==
    LET es == {c \in Child : <<p, c>> \in seen}
        known == {c \in es : b.ref[c] # Unread}
        adopted == IF Bidirectional THEN (IF kept THEN es \ known ELSE es) ELSE {}
    IN [b EXCEPT !.loaded = @ \cup {p}, !.coll[p] = es,
                 !.ref = [c \in Child |-> IF c \in adopted THEN p ELSE @[c]]]

shouldIgnore(b, x) == x \in b.upd \/ x \notin b.dirty

\* persistEntity of a parent whose collection has changed.  Bidirectional: the
\* other side of every element is populated and marked dirty, which makes every
\* element a pending update.  All elements become pending inserts.
SavedParent(b, p) ==
    LET es == IF Bidirectional THEN b.coll[p] ELSE {}
        cascaded == [b EXCEPT !.ref = [c \in Child |-> IF c \in es THEN p ELSE @[c]],
                              !.parented = @ \cup (es \ b.dirty),
                              !.dirty = @ \cup es,
                              !.upd = @ \cup {p} \cup es]
    IN addPendingRelationshipInsert(cascaded, p, b.coll[p])

SavedIfChanged(b, p) == IF shouldIgnore(b, p) THEN b ELSE SavedParent(b, p)

\* persistEntity of a child whose to-one has changed: it joins the collection of
\* its parent, which is saved with it; a parent that became null is recorded for
\* deletion.  (The variant records what the to-one is, not what it was.)
SavedChildNullRecorded(b, seen, c, kept) ==
    LET q == b.ref[c]
        registered == [b EXCEPT !.upd = @ \cup {c}]
        loaded == IF q \in b.loaded THEN registered ELSE Initialised(registered, seen, q, kept)
        joined == IF c \in loaded.coll[q] THEN loaded ELSE Added(loaded, q, c)
    IN IF q = NoParent
         THEN [registered EXCEPT !.nulled = @ \cup {q}]
         ELSE addPendingRelationshipInsert(SavedIfChanged(joined, q), q, {c})

SavedChild(b, seen, c, kept) ==
    LET q == b.ref[c]
        registered == [b EXCEPT !.upd = @ \cup {c}]
        loaded == IF q \in b.loaded THEN registered ELSE Initialised(registered, seen, q, kept)
        joined == IF c \in loaded.coll[q] THEN loaded ELSE Added(loaded, q, c)
    IN IF q = NoParent
         THEN [registered EXCEPT !.nulled = IF c \in b.parented THEN @ \cup {c} ELSE @]
         ELSE addPendingRelationshipInsert(SavedIfChanged(joined, q), q, {c})

\* clearPendingOperations, in the finally block of flush().
Cleared(b) ==
    [b EXCEPT !.ins = [p \in Parent |-> {}], !.del = [p \in Parent |-> {}], !.nulled = {}, !.upd = {}]

-----------------------------------------------------------------------------
(***************************************************************************)
(* The application's calls.                                                *)
(***************************************************************************)

Idle(s) ==
    /\ pc' = [pc EXCEPT ![s] = "idle"]
    /\ ending' = [ending EXCEPT ![s] = FALSE]
    /\ ses' = [ses EXCEPT ![s] = Blank]
    /\ stmts' = [stmts EXCEPT ![s] = <<>>]
    /\ own' = [own EXCEPT ![s] = Untouched]

Begin(s) ==
    /\ pc[s] = "idle"
    /\ pc' = [pc EXCEPT ![s] = "app"]
    /\ UNCHANGED <<kind, dbVars, ending, ses, stmts, hist>>

Update(s, b) ==
    /\ ses' = [ses EXCEPT ![s] = b]
    /\ UNCHANGED <<kind, dbVars, pc, ending, stmts>>

\* A collection is read for the first time.
Load(s, p, kept) ==
    /\ pc[s] = "app"
    /\ p \in Parent \ ses[s].loaded
    /\ Update(s, Initialised(ses[s], Visible(s), p, kept))
    /\ UNCHANGED hist

MayChange(s) ==
    /\ pc[s] = "app"
    /\ SumFunctionOnSet([o \in Session |-> hist[o].calls], Session) < MaxCalls

\* The instances of a session contradict each other when the collections and the
\* to-one of a child disagree.
Consistent(b, c) ==
    Bidirectional => \A q \in b.loaded : c \in b.coll[q] <=> b.ref[c] = q

\* Connecting c with p takes back a pending removal, or overtakes a pending insert
\* elsewhere; removing it takes back an insert that moves it here.
ConnectsAgain(b, p, c) ==
    /\ p \in Parent
    /\ \/ c \in b.del[p]
       \/ Bidirectional /\ \E q \in Parent \ {p} : c \in b.ins[q]
RemovesAgain(s, p, c) ==
    /\ Bidirectional
    /\ p \in Parent /\ c \in ses[s].ins[p]
    /\ <<p, c>> \notin Visible(s) \/ \E q \in Parent \ {p} : c \in ses[s].ins[q]

\* A change that removes the relationships rs and repeats changes of the children cs.
Recorded(s, rs, cs) ==
    LET h == hist[s] IN
    hist' = [hist EXCEPT ![s] = [h EXCEPT !.removed = h.removed \cup rs,
                                          !.again = h.again \cup cs,
                                          !.calls = h.calls + 1]]

\* A change that repeats one of the child c, or starts where the instances of the
\* session contradict each other.
Repeats(s, c, again) == IF again \/ ~Consistent(ses[s], c) THEN {c} ELSE {}

addTo(s, p, c) ==
    /\ MayChange(s)
    /\ p \in ses[s].loaded /\ c \in Child \ ses[s].coll[p]
    /\ Update(s, Added(ses[s], p, c))
    /\ Recorded(s, {}, Repeats(s, c, ConnectsAgain(ses[s], p, c)))

removeFrom(s, p, c) ==
    /\ MayChange(s)
    /\ p \in ses[s].loaded /\ c \in ses[s].coll[p]
    /\ Update(s, Removed(ses[s], p, c))
    /\ Recorded(s, {<<p, c>>}, Repeats(s, c, RemovesAgain(s, p, c)))

\* The to-one property of a child is read, and set to another parent or null.
SetParent(s, c, q) ==
    LET old == IF ses[s].ref[c] # Unread THEN {ses[s].ref[c]}
               ELSE IF ParentsOf(c, Visible(s)) = {} THEN {NoParent} ELSE ParentsOf(c, Visible(s))
    IN
    /\ Bidirectional
    /\ MayChange(s)
    /\ \E p \in old \ {q} :
        /\ Update(s, [ses[s] EXCEPT
                        !.ref[c] = q,
                        !.dirty = @ \cup {c},
                        !.parented = IF p # NoParent /\ c \notin ses[s].dirty THEN @ \cup {c} ELSE @])
        /\ Recorded(s, ({p} \ {NoParent}) \X {c},
                    Repeats(s, c, \/ c \in ses[s].upd
                                  \/ ConnectsAgain(ses[s], q, c) \/ RemovesAgain(s, p, c)))

\* save(), and persistDirtyButUnsavedInstances at the start of a flush.
Save(s, x, kept) ==
    /\ pc[s] \in {"app", "spool"}
    /\ ~shouldIgnore(ses[s], x)
    /\ Update(s, IF x \in Parent THEN SavedParent(ses[s], x)
                                 ELSE SavedChild(ses[s], Visible(s), x, kept))
    /\ UNCHANGED hist

-----------------------------------------------------------------------------
(***************************************************************************)
(* flush().                                                                *)
(***************************************************************************)

Flush(s, commits) ==
    /\ pc[s] = "app"
    /\ pc' = [pc EXCEPT ![s] = "spool"]
    /\ ending' = [ending EXCEPT ![s] = commits]
    /\ UNCHANGED <<kind, dbVars, ses, stmts, hist>>

Spooled(s) ==
    /\ pc[s] = "spool"
    /\ ses[s].dirty \subseteq ses[s].upd
    /\ pc' = [pc EXCEPT ![s] = "write"]
    /\ UNCHANGED <<kind, dbVars, ending, ses, stmts, hist>>

Statement(op, p, cs) == [op |-> op, parent |-> p, ids |-> cs]

\* RelationshipPendingInsert.run: for the updates of a bidirectional one-to-many
\* the previous relationships of the targets are deleted before the MERGE.  (The
\* variants always or never delete them.)
InsertStatementsAlwaysDelete(p, cs) == <<Statement("previous", p, cs), Statement("merge", p, cs)>>
InsertStatementsNeverDelete(p, cs) == <<Statement("merge", p, cs)>>
InsertStatements(p, cs) ==
    IF Bidirectional THEN <<Statement("previous", p, cs), Statement("merge", p, cs)>>
                     ELSE <<Statement("merge", p, cs)>>

\* processPendingRelationshipUpdates, for the key (p, collection).  (The variant
\* runs the deletes first.)
KeyStatementsDeletesFirst(b, p) ==
    (IF b.del[p] # {} THEN <<Statement("delete", p, b.del[p])>> ELSE <<>>)
    \o (IF b.ins[p] # {} THEN InsertStatements(p, b.ins[p]) ELSE <<>>)

KeyStatements(b, p) ==
    (IF b.ins[p] # {} THEN InsertStatements(p, b.ins[p]) ELSE <<>>)
    \o (IF b.del[p] # {} THEN <<Statement("delete", p, b.del[p])>> ELSE <<>>)

\* The key that the pending update of x looks up: a child with a parent looks up
\* the collection of that parent, since its to-one is the reversed side.
KeyParent(b, x) == IF x \in Parent THEN x ELSE b.ref[x]

Tracked(b, x) == [b EXCEPT !.upd = @ \ {x}, !.dirty = @ \ {x}, !.parented = @ \ {x}]

\* One pending update of flushPendingUpdates.  Association-only changes write no
\* properties and no version.
FlushUpdate(s, x) ==
    LET b == ses[s]
        p == KeyParent(b, x)
    IN
    /\ pc[s] = "write" /\ stmts[s] = <<>>
    /\ x \in b.upd
    /\ IF p \in Parent
         THEN /\ stmts' = [stmts EXCEPT ![s] = KeyStatements(b, p)]
              /\ ses' = [ses EXCEPT ![s] = Tracked([b EXCEPT !.ins[p] = {}, !.del[p] = {}], x)]
         ELSE /\ stmts' = [stmts EXCEPT ![s] =
                              IF x \in b.nulled THEN <<Statement("orphan", NoParent, {x})>> ELSE <<>>]
              /\ ses' = [ses EXCEPT ![s] = Tracked([b EXCEPT !.nulled = b.nulled \ {x}], x)]
    /\ UNCHANGED <<kind, dbVars, pc, ending, hist>>

\* What a statement deletes and creates of the relationships it sees.
Deletes(st, seen) ==
    {r \in seen : /\ r[2] \in st.ids
                  /\ st.op \in {"previous", "orphan"} \/ (st.op = "delete" /\ r[1] = st.parent)}

Creates(st, seen) == IF st.op = "merge" THEN ({st.parent} \X st.ids) \ seen ELSE {}

RunStatement(s) ==
    LET seen == Visible(s)
        st == Head(stmts[s])
    IN
    /\ pc[s] = "write" /\ stmts[s] # <<>>
    /\ \A r \in Deletes(st, seen) \cup Creates(st, seen) : ~LockedByOther(s, r)
    /\ own' = [own EXCEPT ![s] = [r \in Rel |->
                  IF r \in Deletes(st, seen) THEN "gone"
                  ELSE IF r \in Creates(st, seen) THEN "there" ELSE @[r]]]
    /\ stmts' = [stmts EXCEPT ![s] = Tail(@)]
    /\ UNCHANGED <<kind, graph, pc, ending, ses, hist>>

Written(s) == pc[s] = "write" /\ stmts[s] = <<>> /\ ses[s].upd = {}

FlushDone(s) ==
    /\ Written(s) /\ ~ending[s]
    /\ pc' = [pc EXCEPT ![s] = "app"]
    /\ ses' = [ses EXCEPT ![s] = Cleared(@)]
    /\ UNCHANGED <<kind, dbVars, ending, stmts, hist>>

Changed(g, h) == (g \ h) \cup (h \ g)

Commit(s) ==
    /\ Written(s) /\ ending[s]
    /\ graph' = Visible(s)
    /\ Idle(s)
    /\ hist' = [o \in Session |->
                  IF o = s THEN NoHistory
                  ELSE IF pc[o] = "idle" THEN hist[o]
                  ELSE [hist[o] EXCEPT !.raced = @ \cup Changed(graph, graph')]]
    /\ UNCHANGED kind

\* The unit rolls back: the application asked for it, or a statement failed.  The
\* session is cleared.
Rollback(s) ==
    /\ pc[s] # "idle"
    /\ Idle(s)
    /\ hist' = [hist EXCEPT ![s] = NoHistory]
    /\ UNCHANGED <<kind, graph>>

-----------------------------------------------------------------------------
AppStep(s) ==
    \/ Begin(s) \/ Rollback(s)
    \/ \E p \in Parent, kept \in BOOLEAN : Load(s, p, kept)
    \/ \E p \in Parent, c \in Child : addTo(s, p, c) \/ removeFrom(s, p, c)
    \/ \E c \in Child, q \in Parent \cup {NoParent} : SetParent(s, c, q)
    \/ \E x \in Node, kept \in BOOLEAN : Save(s, x, kept)

FlushStep(s) ==
    \/ \E commits \in BOOLEAN : Flush(s, commits)
    \/ Spooled(s) \/ RunStatement(s) \/ FlushDone(s) \/ Commit(s)
    \/ \E x \in Node : FlushUpdate(s, x)

Next == \E s \in Session : AppStep(s) \/ FlushStep(s)

Spec == Init /\ [][Next]_vars

-----------------------------------------------------------------------------
(***************************************************************************)
(* Correctness.                                                            *)
(***************************************************************************)

SessionState ==
    [loaded : SUBSET Parent, coll : [Parent -> SUBSET Child],
     ref : [Child -> Parent \cup {NoParent, Unread}],
     dirty : SUBSET Node, parented : SUBSET Child,
     ins : [Parent -> SUBSET Child], del : [Parent -> SUBSET Child],
     nulled : SUBSET Child, upd : SUBSET Node]

StatementType ==
    [op : {"previous", "merge", "delete", "orphan"}, parent : Parent \cup {NoParent}, ids : SUBSET Child]

History ==
    [removed : SUBSET Rel, again : SUBSET Child, raced : SUBSET Rel, calls : Nat]

TypeOK ==
    /\ kind \in Kinds
    /\ graph \subseteq Rel
    /\ own \in [Session -> [Rel -> {"none", "there", "gone"}]]
    /\ pc \in [Session -> {"idle", "app", "spool", "write"}]
    /\ ending \in [Session -> BOOLEAN]
    /\ ses \in [Session -> SessionState]
    /\ stmts \in [Session -> Seq(StatementType)]
    /\ hist \in [Session -> History]

\* A relationship disappears only if the unit of work removed it.  In a
\* bidirectional association the flush also deletes the previous relationships of
\* a child it connects: then the child has another parent after the commit, or
\* the unit has removed it from one.
OnlyRemovedDisappear ==
    [][\A s \in Session : Commit(s) =>
          \A r \in graph \ graph' :
              \/ r \in hist[s].removed
              \/ /\ Bidirectional
                 /\ \E q \in Parent : <<q, r[2]>> \in graph' \cup hist[s].removed]_vars

\* The parent of a child in a bidirectional association stays unique: a second
\* one appears only if another session changed the child's relationships while
\* the unit was open, however stale the collections of the session are and in
\* whatever order their keys are flushed.
OneParentUnlessRaced ==
    [][\A s \in Session : Commit(s) /\ Bidirectional =>
          \A c \in Child :
              \/ \E r \in hist[s].raced : r[2] = c
              \/ OneParent(c, graph) => OneParent(c, graph')]_vars

Raced(h, r) == \E q \in h.raced : q = r \/ (Bidirectional /\ q[2] = r[2])

\* The relationships of the collections the session has read are those of the graph.
Agrees(s, p, c, g) ==
    /\ Consistent(ses[s], c)
    /\ ~Raced(hist[s], <<p, c>>)
    /\ Bidirectional => OneParent(c, graph)
    => (<<p, c>> \in g <=> c \in ses[s].coll[p])

\* When the unit commits, the graph has the relationships of the session's
\* collections: nothing recorded was dropped, overtaken by another queue, or undone
\* by the cascade.
CollectionsWritten ==
    [][\A s \in Session : Commit(s) =>
          \A p \in ses[s].loaded, c \in Child \ hist[s].again : Agrees(s, p, c, graph')]_vars

\* The same for the children that changed again while a change was pending.
EveryChangeWritten ==
    [][\A s \in Session : Commit(s) =>
          \A p \in ses[s].loaded, c \in Child : Agrees(s, p, c, graph')]_vars

\* A child whose to-one is null when the unit commits has no parent in the graph,
\* whatever the collections still show: its removal was recorded, by the collection
\* or by the to-one itself, and nothing has merged the relationship again.
ToOneWritten ==
    [][\A s \in Session : Commit(s) /\ Bidirectional =>
          \A c \in Child \ hist[s].again :
              /\ ses[s].ref[c] = NoParent
              /\ \A r \in hist[s].raced : r[2] # c
              /\ OneParent(c, graph)
              => ParentsOf(c, graph') = {}]_vars
=============================================================================
