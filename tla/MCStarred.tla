------------------------------ MODULE MCStarred ------------------------------
(* Two tabs, two environments, one with a former ID, an event to star.      *)
EXTENDS Starred, TLC

CONSTANTS t1, t2, old, new, other, e1

MCCurrent   == (old :> new) @@ (new :> new) @@ (other :> other)
MCSchedules == {{}, {e1}}
TabSymmetry == Permutations({t1, t2})

=============================================================================
