------------------------------ MODULE Register ------------------------------
(***************************************************************************)
(* What the caches in front of NocoDB promise, without handlers, tasks,    *)
(* keys or faults: a source whose value changes, one central copy and a    *)
(* copy at each place, and a floor.  A copy may be replaced by any value   *)
(* the source has had since the floor, or be lost, at any time; the floor  *)
(* may rise to what no copy is behind.                                     *)
(*                                                                         *)
(* Values are numbered in the order in which the source takes them.  A     *)
(* copy that is put together from several reads of the source is known by  *)
(* the number of the oldest value it has a part of.                        *)
(***************************************************************************)
EXTENDS Integers

CONSTANTS
    Places,     \* where copies are kept beside the central one
    Nothing     \* no copy

VARIABLES
    source,     \* the current value
    floor,      \* no copy is older than this
    central,    \* the central copy
    copy        \* the copy at a place

vars == <<source, floor, central, copy>>

AtLeast(c, v) == c = Nothing \/ c >= v

Init ==
    /\ source = 0
    /\ floor = 0
    /\ central \in {Nothing, 0}
    /\ copy = [p \in Places |-> Nothing]

\* The source takes its next value.
Change ==
    /\ source' = source + 1
    /\ UNCHANGED <<floor, central, copy>>

Allowed == (floor .. source) \cup {Nothing}

KeepCentral ==
    /\ central' \in Allowed
    /\ UNCHANGED <<source, floor, copy>>

Keep(p) ==
    /\ \E c \in Allowed : copy' = [copy EXCEPT ![p] = c]
    /\ UNCHANGED <<source, floor, central>>

\* Copies are given up, and what they held is never kept again.
Settle ==
    /\ copy' = [p \in Places |-> Nothing]
    /\ floor' \in floor .. source
    /\ AtLeast(central, floor')
    /\ UNCHANGED <<source, central>>

Next ==
    \/ Change
    \/ KeepCentral
    \/ \E p \in Places : Keep(p)
    \/ Settle

Spec == Init /\ [][Next]_vars

=============================================================================
