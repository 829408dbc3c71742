---------------------------- MODULE MCPendingInserts ----------------------------
(* A small instance of PendingInserts: a club with teams (one-to-many, owning      *)
(* side, with an inverse to-one), and teams with reserve teams (circular).         *)
EXTENDS PendingInserts, TLC

CONSTANTS Club, Team, teams, reserves, c1, t1, t2

MCEntityOf == (c1 :> Club) @@ (t1 :> Team) @@ (t2 :> Team)
MCOwnerOf == (teams :> Club) @@ (reserves :> Team)
MCTargetOf == (teams :> Team) @@ (reserves :> Team)
=============================================================================
