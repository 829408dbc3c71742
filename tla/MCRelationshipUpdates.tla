-------------------------- MODULE MCRelationshipUpdates --------------------------
(* Small instances of RelationshipUpdates. *)
EXTENDS RelationshipUpdates, FiniteSets, TLC

MCSymmetry == Permutations(Session) \cup Permutations(Parent) \cup Permutations(Child)

\* The children that a relationship, a collection or a to-one property involves.
Involved ==
    {c \in Child : \/ \E p \in Parent : <<p, c>> \in graph
                   \/ \E s \in Session : \/ ses[s].ref[c] # Unread
                                         \/ \E p \in Parent : c \in ses[s].coll[p]}

\* Bound: two units overlap; when one has committed a change, the other ends before
\* a third begins.  They change one child, and each changes it once.  A unit alone
\* makes MaxCalls changes of all children.
OverlapBound ==
    LET open == {s \in Session : pc[s] # "idle"}
        raced == {s \in open : hist[s].raced # {}}
    IN
    /\ raced # {} => Cardinality(open) = 1
    /\ raced # {} \/ Cardinality(open) > 1 =>
          /\ Cardinality(Involved) <= 1
          /\ \A s \in open : hist[s].calls <= 1
=============================================================================
