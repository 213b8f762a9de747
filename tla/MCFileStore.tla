----------------------------- MODULE MCFileStore -----------------------------
EXTENDS FileStore, TLC

CONSTANTS p, q, s, t, v, w

MCSymmetry == Permutations({p, q}) \cup Permutations({s, t})
                 \cup Permutations({v, w})
=============================================================================
