---------------------------- MODULE MCStraySweep ----------------------------
(* Two processes, the definitions of an old and a new configuration.         *)
EXTENDS StraySweep, TLC

CONSTANTS m1, m2, old, new

MCDeployment == {{old}, {new}}
Symmetry == Permutations(Process) \cup Permutations(Stamp)
=============================================================================
