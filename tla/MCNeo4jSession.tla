---------------------------- MODULE MCNeo4jSession ----------------------------
(* Model-checking instances of Neo4jSession: sessions and modifications are  *)
(* interchangeable.                                                          *)
EXTENDS Neo4jSession, TLC

Symmetry == Permutations(Session) \cup Permutations(Tag)
=============================================================================
