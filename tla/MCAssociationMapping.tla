------------------------ MODULE MCAssociationMapping ------------------------
(* Small instances of AssociationMapping. *)
EXTENDS AssociationMapping, TLC

MCType == {"X"}

\* All mappings, and those that Sound describes.
AnyMapping ==
    {m \in [kind : DOMAIN ClassOf, circular : BOOLEAN,
            type : [{"a", "b"} -> MCType \cup {Unset}],
            direction : [{"a", "b"} -> Direction \cup {Unset}]] :
        \* the inverse of a unidirectional association has no mapping
        /\ IsMapping(m)
        /\ m.kind \in {"toMany", "toOne"} => m.type["b"] = Unset /\ m.direction["b"] = Unset}

SoundMapping == {m \in AnyMapping : Sound(m)}

DefaultMapping ==
    {m \in SoundMapping : \A s \in {"a", "b"} : m.type[s] = Unset /\ m.direction[s] = Unset}

\* Of the circular to-many, whose graphs are many, only the default mapping: a type or
\* OUTGOING of its own gives its one side another name and nothing else.
CheckedMapping ==
    {m \in SoundMapping : m.kind = "toMany" /\ m.circular => m \in DefaultMapping}

MCSymmetry == Permutations(A) \cup Permutations(B)
=============================================================================
