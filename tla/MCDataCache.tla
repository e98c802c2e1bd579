----------------------------- MODULE MCDataCache -----------------------------
(* Small instances of DataCache.  Request and publisher slots are named     *)
(* after the isolate they run in.                                           *)
EXTENDS DataCache, TLC

CONSTANTS i1, i2, d1, d2, r1, r2, r3, p1, p2

SlotHome ==
    [x \in Requests \cup Publishers |-> IF x \in {r2, p2} /\ i2 \in Isolates
                                        THEN i2 ELSE i1]

\* Both isolates in one datacenter, or one in each.
OneDatacenter  == [i \in Isolates |-> d1]
TwoDatacenters == [i \in Isolates |-> IF i = i1 THEN d1 ELSE d2]

=============================================================================
