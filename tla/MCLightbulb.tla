----------------------------- MODULE MCLightbulb -----------------------------
(* Model values and symmetry for the runs of Lightbulb.                    *)
EXTENDS Lightbulb, TLC

CONSTANTS t1, t2, t3, c1, c2, white, red

MCTasks1   == {t1}
MCTasks2   == {t1, t2}
MCTasks3   == {t1, t2, t3}
MCClients0 == {}
MCClients2 == {c1, c2}
MCHues     == {white, red}
MCOneHue   == {white}

\* Tasks, and clients, are interchangeable: no definition orders or names them.
SymmetryTasks == Permutations(MCTasks2)
SymmetryClients == Permutations(MCClients2)
==============================================================================
