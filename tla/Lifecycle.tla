------------------------------ MODULE Lifecycle ------------------------------
(***************************************************************************)
(* What the admin API promises about an environment's base, without calls, *)
(* steps, checkpoints or caches: a base is founded, brought forward by one *)
(* version, ended, saved under a name and recovered, each in one step.  A  *)
(* live base is never ended or brought forward without a saved copy to go  *)
(* back to.  Only a handler that is cut short can leave something half     *)
(* done, and nothing is promised of the base after that.                   *)
(***************************************************************************)
EXTENDS Naturals

CONSTANTS
    Bases,      \* bases that may be founded
    Latest,     \* the latest version
    NoBase,     \* the environment without a base
    Lossy       \* whether live bases may be lost

VARIABLES
    env,        \* the environment's base, at the version it is and is said to be
    saved,      \* what is saved, by name
    torn        \* whether something was left half done

vars == <<env, saved, torn>>

Base == [base : Bases, status : {"live", "lost"},
         schema : 0..Latest, recorded : 0..Latest]

Live(e) == e.status = "live"

Init ==
    /\ env = NoBase
    /\ saved = [n \in {} |-> NoBase]
    /\ torn = FALSE

\* A base as it is, or lost in the same step.
Perhaps(e) == {e} \cup (IF Lossy THEN {[e EXCEPT !.status = "lost"]} ELSE {})

\* A new base, which nothing saved is mistaken for.
Found ==
    /\ env = NoBase
    /\ \E b \in Bases :
         /\ \A n \in DOMAIN saved : saved[n].base # b
         /\ env' \in Perhaps([base |-> b, status |-> "live", schema |-> 0, recorded |-> 0])
    /\ UNCHANGED <<saved, torn>>

Forward(e) == [base |-> e.base, status |-> e.status,
               schema |-> e.schema + 1, recorded |-> e.recorded + 1]

\* One version forward, with an earlier one saved before.
Advance ==
    /\ Live(env)
    /\ env.schema = env.recorded
    /\ env.recorded < Latest
    /\ "migration" \in DOMAIN saved
    /\ saved["migration"].base = env.base
    /\ Live(saved["migration"])
    /\ saved["migration"].recorded <= env.recorded
    /\ env' \in Perhaps(Forward(env))
    /\ UNCHANGED <<saved, torn>>

\* The base is given up; a live one is saved as it is.
End ==
    /\ env # NoBase
    /\ Live(env) => "deletion" \in DOMAIN saved /\ saved["deletion"] = env
    /\ env' = NoBase
    /\ UNCHANGED <<saved, torn>>

\* A live base is lost.
Lose ==
    /\ Lossy
    /\ Live(env)
    /\ env' = [env EXCEPT !.status = "lost"]
    /\ UNCHANGED <<saved, torn>>

Save(n) ==
    /\ UNCHANGED <<torn, env>>
    /\ saved' = [m \in DOMAIN saved \cup {n} |-> IF m = n THEN env ELSE saved[m]]

Discard(n) ==
    /\ UNCHANGED <<torn, env>>
    /\ saved' = [m \in DOMAIN saved \ {n} |-> saved[m]]

Recover(n) ==
    /\ env' = saved[n]
    /\ UNCHANGED <<saved, torn>>

\* What a base may be left as: lost, or ahead of its record.
Halfway(e) ==
    {[base |-> e.base, status |-> status, schema |-> v, recorded |-> e.recorded] :
        status \in {e.status, "lost"}, v \in {e.schema, e.schema + 1}}

\* Something stops halfway.
Tear ==
    /\ torn' = TRUE
    /\ env' \in IF env = NoBase THEN {NoBase} ELSE Halfway(env)
    /\ UNCHANGED saved

\* From then on the base may become anything.
Stray ==
    /\ torn
    /\ env' \in Base \cup {NoBase}
    /\ UNCHANGED <<saved, torn>>

\* Most of what goes on is no business of the base.
Rest == UNCHANGED vars

Next ==
    \/ Rest
    \/ \E n \in {"deletion", "deployment", "migration"} : Discard(n) \/ Save(n)
    \/ \E n \in DOMAIN saved : Recover(n)
    \/ Found \/ Advance \/ End \/ Lose
    \/ Tear \/ Stray

Spec == Init /\ [][Next]_vars

=============================================================================
