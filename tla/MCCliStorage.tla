---------------------------- MODULE MCCliStorage ----------------------------
EXTENDS CliStorage, TLC

CONSTANTS p1, p2, f1, f2, v1, v2, i1, i2

Symmetry == Permutations({p1, p2}) \cup Permutations({f1, f2})
            \cup Permutations({v1, v2}) \cup Permutations({i1, i2})
=============================================================================
