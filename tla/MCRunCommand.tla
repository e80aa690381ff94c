----------------------------- MODULE MCRunCommand -----------------------------
\* Three processes at two places of one directory and at one of two others.
EXTENDS RunCommand, TLC

CONSTANTS p1, p2, p3

MCPlaces    == {"run/a", "run/b", "serve/a", "compile/a"}
MCCommandOf == [pl \in MCPlaces |-> CASE pl = "serve/a" -> "serve" [] pl = "compile/a" -> "compile" [] OTHER -> "run"]
\* Processes of one command; those of two never meet.
MCTargets == {f \in [{p1, p2, p3} -> MCPlaces] :
                \A p, q \in {p1, p2, p3} : MCCommandOf[f[p]] = MCCommandOf[f[q]]}
ProcessSymmetry == Permutations({p1, p2, p3})
=============================================================================
