----------------------------- MODULE MCRemoteData -----------------------------
(* Two environments; the ID of one of them was replaced, and is an alias.    *)
EXTENDS RemoteData, TLC

CONSTANTS a, a2, b, envA, envB, v1, v2, r1, r2, r3

Owner     == [i \in Ids |-> IF i = b THEN envB ELSE envA]
Successor == [i \in Ids |-> IF i = a THEN a2 ELSE None]

\* What earlier visits and other tabs leave: nothing; or an entry of either
\* environment under an ID of either, right or wrong, or a right one of an
\* older client that cannot be read any more.
Nothing  == {}
Anything == {s \in StoredValues : /\ s.instance \in {a, b} /\ s.etag
                                  /\ s.readable \/ ~Mislabelled(s)}

Symmetry == Permutations(Views) \cup Permutations(Reloads)

===============================================================================
