---------------------------- MODULE VersionedGraph ----------------------------
(***************************************************************************)
(* What optimistic locking promises about the committed graph, with no     *)
(* sessions, caches, flushes or transactions: every change of a versioned  *)
(* node is derived from the row it replaces (it keeps all modifications    *)
(* that row carries) and is visible in the version.  Nodes without a       *)
(* version are replaced by whoever writes last.                            *)
(***************************************************************************)
EXTENDS Naturals

CONSTANTS Node, Fresh, Versioned

VARIABLE graph

Init == graph = [n \in Node |-> [live |-> n \notin Fresh, ver |-> 0, val |-> {}]]

\* new may replace old at node n.
Succeeds(n, old, new) ==
    \/ new = old
    \/ n \notin Versioned
    \/ ~old.live \/ ~new.live
    \/ new.ver > old.ver /\ old.val \subseteq new.val

\* A transaction commits: any number of rows are replaced in one step.
Commit ==
    /\ DOMAIN graph' = Node
    /\ \A n \in Node : Succeeds(n, graph[n], graph'[n])

Spec == Init /\ [][Commit]_graph
=============================================================================
