---------------------------- MODULE EnvDirectory ----------------------------
(***************************************************************************)
(* How a visitor's URL leads to an environment: the four KV mappings that  *)
(* the admin API maintains (server/src/router.rs, put_link, put_env_domain,*)
(* delete_env_domain) and that the user API and the client's edge worker   *)
(* follow (get_id_env, get_domain_env).                                    *)
(*                                                                         *)
(* KV has no transactions: each handler reads and writes one key at a time *)
(* and may stop after any of them.  Handlers for different environments    *)
(* interleave; for one environment the operators make one call at a time   *)
(* (router.rs:39), so a read of a key that only this environment's handler *)
(* writes is modelled together with the step that uses it.                 *)
(***************************************************************************)
EXTENDS FiniteSets

CONSTANTS
    Envs,       \* environment names
    Ids,        \* environment IDs, the slugs in app links
    Domains,    \* custom domains
    MayUse,     \* which IDs an environment's operators choose from
    None        \* no entry under the key

ASSUME MayUseAssumption == MayUse \in [Envs -> SUBSET Ids]
ASSUME NoneAssumption == None \notin Envs \cup Ids \cup Domains

VARIABLES
    envId,       \* env:{env}:id, the environment's current ID
    idEnv,       \* id:{id}:env
    envDomain,   \* env:{env}:domain
    domainEnv,   \* domain:{domain}:env
    pc,          \* the next KV call of the environment's admin handler
    arg,         \* the ID or domain that handler was called with
    mishaps      \* what has gone wrong so far (history, read by no action)

vars == <<envId, idEnv, envDomain, domainEnv, pc, arg, mishaps>>

Labels == {"idle", "putEnvId", "dropPrevious", "putForward", "putReverse",
           "deleteForward"}

TypeOK ==
    /\ envId \in [Envs -> Ids \cup {None}]
    /\ idEnv \in [Ids -> Envs \cup {None}]
    /\ envDomain \in [Envs -> Domains \cup {None}]
    /\ domainEnv \in [Domains -> Envs \cup {None}]
    /\ pc \in [Envs -> Labels]
    /\ arg \in [Envs -> Ids \cup Domains \cup {None}]
    /\ \A e \in Envs :
         /\ pc[e] = "putEnvId" => arg[e] \in Ids
         /\ pc[e] \in {"dropPrevious", "putForward", "putReverse"} =>
              arg[e] \in Domains
    /\ mishaps \subseteq {"failed", "overlapped"}

Init ==
    /\ envId = [e \in Envs |-> None]
    /\ idEnv = [i \in Ids |-> None]
    /\ envDomain = [e \in Envs |-> None]
    /\ domainEnv = [d \in Domains |-> None]
    /\ pc = [e \in Envs |-> "idle"]
    /\ arg = [e \in Envs |-> None]
    /\ mishaps = {}

Call(e, label, x) ==
    /\ pc' = [pc EXCEPT ![e] = label]
    /\ arg' = [arg EXCEPT ![e] = x]

Goto(e, label) == pc' = [pc EXCEPT ![e] = label] /\ UNCHANGED <<arg, mishaps>>

Return(e) == Call(e, "idle", None) /\ UNCHANGED mishaps

AllIdle == \A e \in Envs : pc[e] = "idle"

\* A new call; it may overlap calls for other environments.
Begin(e, label, x) ==
    /\ pc[e] = "idle"
    /\ Call(e, label, x)
    /\ mishaps' = IF AllIdle THEN mishaps ELSE mishaps \cup {"overlapped"}

\* Any step may be the handler's last one: a KV call fails, the isolate stops.
Abort(e) ==
    /\ pc[e] # "idle"
    /\ Call(e, "idle", None)
    /\ mishaps' = mishaps \cup {"failed"}
    /\ UNCHANGED <<envId, idEnv, envDomain, domainEnv>>

-----------------------------------------------------------------------------
(* put_link: the ID's mapping is written before the environment's, so that *)
(* the new link works from the moment it is the current one.               *)

\* Variant: the two writes swapped.
PutLinkEnvFirst(e, i) ==
    /\ i \in MayUse[e]
    /\ envId[e] # i
    /\ envId' = [envId EXCEPT ![e] = i]
    /\ Begin(e, "putEnvId", i)
    /\ UNCHANGED <<idEnv, envDomain, domainEnv>>

\* put_id_env; an ID that is already current is left as it is.
PutLink(e, i) ==
    /\ i \in MayUse[e]
    /\ envId[e] # i
    /\ idEnv' = [idEnv EXCEPT ![i] = e]
    /\ Begin(e, "putEnvId", i)
    /\ UNCHANGED <<envId, envDomain, domainEnv>>

PutEnvId(e) ==
    /\ pc[e] = "putEnvId"
    /\ envId' = [envId EXCEPT ![e] = arg[e]]
    /\ Return(e)
    /\ UNCHANGED <<idEnv, envDomain, domainEnv>>

-----------------------------------------------------------------------------
(* put_env_domain and delete_env_domain.                                   *)

\* A domain of another environment is refused (DomainInUse) and nothing
\* changes; this is the call that is not refused.
PutDomain(e, d) ==
    /\ domainEnv[d] \in {None, e}
    /\ Begin(e, "dropPrevious", d)
    /\ UNCHANGED <<envId, idEnv, envDomain, domainEnv>>

\* Variant: the old reverse mapping is forgotten.
DropNothing(e) ==
    /\ pc[e] = "dropPrevious"
    /\ Goto(e, "putForward")
    /\ UNCHANGED <<envId, idEnv, envDomain, domainEnv>>

\* Remove the old reverse mapping, if the environment had another domain.
DropPrevious(e) ==
    /\ pc[e] = "dropPrevious"
    /\ domainEnv' = [d \in Domains |->
                       IF d = envDomain[e] /\ d # arg[e] THEN None
                                                         ELSE domainEnv[d]]
    /\ Goto(e, "putForward")
    /\ UNCHANGED <<envId, idEnv, envDomain>>

\* Variant: the domain of the call is used up by the first write.
PutForwardConsumes(e) ==
    /\ pc[e] = "putForward"
    /\ envDomain' = [envDomain EXCEPT ![e] = arg[e]]
    /\ Call(e, "putReverse", None)
    /\ UNCHANGED <<envId, idEnv, domainEnv, mishaps>>

PutForward(e) ==
    /\ pc[e] = "putForward"
    /\ envDomain' = [envDomain EXCEPT ![e] = arg[e]]
    /\ Goto(e, "putReverse")
    /\ UNCHANGED <<envId, idEnv, domainEnv>>

PutReverse(e) ==
    /\ pc[e] = "putReverse"
    /\ domainEnv' = [domainEnv EXCEPT ![arg[e]] = e]
    /\ Return(e)
    /\ UNCHANGED <<envId, idEnv, envDomain>>

\* delete_env_domain: the reverse mapping of the environment's domain first.
DeleteDomain(e) ==
    /\ domainEnv' = [d \in Domains |->
                       IF d = envDomain[e] THEN None ELSE domainEnv[d]]
    /\ Begin(e, "deleteForward", None)
    /\ UNCHANGED <<envId, idEnv, envDomain>>

\* Variant: the environment keeps naming the domain it has given up.
DeleteForwardKeeps(e) ==
    /\ pc[e] = "deleteForward"
    /\ Goto(e, "idle")
    /\ UNCHANGED <<envId, idEnv, envDomain, domainEnv>>

DeleteForward(e) ==
    /\ pc[e] = "deleteForward"
    /\ envDomain' = [envDomain EXCEPT ![e] = None]
    /\ Goto(e, "idle")
    /\ UNCHANGED <<envId, idEnv, domainEnv>>

-----------------------------------------------------------------------------

EnvStep(e) ==
    \/ \E i \in Ids : PutLink(e, i)
    \/ PutEnvId(e)
    \/ \E d \in Domains : PutDomain(e, d)
    \/ DropPrevious(e)
    \/ PutForward(e)
    \/ PutReverse(e)
    \/ DeleteDomain(e)
    \/ DeleteForward(e)
    \/ Abort(e)

Next == \E e \in Envs : EnvStep(e)

Spec == Init /\ [][Next]_vars

-----------------------------------------------------------------------------
(* What a visitor meets.                                                   *)

\* get_id_env: only an environment's latest ID leads to it.
Resolve(i) ==
    IF idEnv[i] # None /\ envId[idEnv[i]] = i THEN idEnv[i] ELSE None

\* A custom domain: get_domain_env answers with the current ID of the
\* domain's environment, and the edge worker serves the app with that ID.
Visit(d) ==
    IF domainEnv[d] # None /\ envId[domainEnv[d]] # None
    THEN Resolve(envId[domainEnv[d]]) ELSE None

\* The default link: get_config reports the environment's custom domain, and
\* the edge worker redirects to it.
OpenLink(i) ==
    LET e == Resolve(i)
    IN IF e # None /\ envDomain[e] # None THEN Visit(envDomain[e]) ELSE e

\* put_link does not ask whose ID it is given: only of an ID that no other
\* environment's operators ever choose can a link be sure to lead home.
Private(e, i) == \A f \in Envs \ {e} : i \notin MayUse[f]

\* Wherever the handlers stand and wherever they were cut short, the current
\* link of an environment resolves to it, and a custom domain that is mapped
\* to an environment with a link serves that environment's app: the order of
\* the two writes of put_link never leaves a current link dead.
CurrentLinkResolves ==
    \A e \in Envs : envId[e] # None /\ Private(e, envId[e]) =>
        /\ Resolve(envId[e]) = e
        /\ \A d \in Domains : domainEnv[d] = e => Visit(d) = e

\* A domain is served for an environment only while that environment names it
\* as its own domain, so put_env_domain and delete_env_domain, which look the
\* old mapping up through the environment, never leave one they cannot find:
\* in particular an environment has at most one domain that works.
ReverseImpliesForward ==
    \A d \in Domains :
        domainEnv[d] # None => envDomain[domainEnv[d]] = d

\* As long as no handler has been cut short and no two have overlapped, an
\* environment's default link leads to that environment between calls, by way
\* of its custom domain if it has one.
LinksLeadHome ==
    mishaps = {} /\ AllIdle =>
        \A e \in Envs : envId[e] # None /\ Private(e, envId[e]) =>
            OpenLink(envId[e]) = e

=============================================================================
