----------------------------- MODULE MCCoapNode -----------------------------
(* Model values and symmetry for the runs of CoapNode.                     *)
EXTENDS CoapNode, TLC

CONSTANTS r1, r2

MCRemotes0 == {}
MCRemotes1 == {r1}
MCRemotes2 == {r1, r2}

\* Remotes are interchangeable: no definition orders or names them.
SymmetryRemotes == Permutations(MCRemotes2)
=============================================================================
