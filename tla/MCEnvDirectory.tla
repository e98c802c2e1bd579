---------------------------- MODULE MCEnvDirectory ----------------------------
(* Two environments with an ID each and one that both may be given, and two *)
(* custom domains they compete for.                                         *)
EXTENDS EnvDirectory, TLC

CONSTANTS e1, e2, i1, i2, i3, d1, d2

OwnAndShared == [e \in Envs |-> {IF e = e1 THEN i1 ELSE i2, i3}]

Symmetry == Permutations(Domains)

===============================================================================
