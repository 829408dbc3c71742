------------------------- MODULE MCSnowflakeIdGenerator -------------------------
(* Small instances of SnowflakeIdGenerator: two JVMs, one of them with two      *)
(* threads; the second data center has the high bit set.                        *)
EXTENDS SnowflakeIdGenerator, TLC

CONSTANTS g1, g2, t1, t2, t3

MCDatacenterId == (g1 :> 0) @@ (g2 :> 1)
MCGen == (t1 :> g1) @@ (t2 :> g1) @@ (t3 :> g2)
=============================================================================
