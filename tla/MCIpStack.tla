---------------------------- MODULE MCIpStack ----------------------------
(* The sizes of the memory, and of what is sent, for the runs of IpStack.  *)
EXTENDS IpStack, TLC

MCBlocks    == [c \in Categories |-> CASE c = Small -> 4 [] c = Medium -> 2 [] c = Large -> 1]
MCEncodings == {<<Small, Medium>>}
MCSizes     == {Small, Medium}
Symmetry    == Permutations(Globals) \union Permutations(Cids)
=============================================================================
