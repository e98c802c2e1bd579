------------------------- MODULE EnvDirectoryProofs -------------------------
(* For any environments, IDs and domains, any number of overlapping calls   *)
(* and any number of calls cut short: current links resolve, and a domain   *)
(* is served only for the environment that names it.  As long as nothing    *)
(* was cut short or overlapped, default links lead home too.                *)
EXTENDS EnvDirectory, TLAPS

LEMMA TypeInit == Init => TypeOK
  BY DEF Init, TypeOK, Labels

LEMMA TypeStep == TypeOK /\ [Next]_vars => TypeOK'
<1> SUFFICES ASSUME TypeOK, [Next]_vars PROVE TypeOK'
  OBVIOUS
<1> USE DEF TypeOK, Labels
<1>1. CASE UNCHANGED vars
  BY <1>1 DEF vars
<1>2. ASSUME NEW e \in Envs, EnvStep(e) PROVE TypeOK'
  <2> USE DEF Call, Goto, Return, Begin
  <2>1. ASSUME NEW i \in Ids, PutLink(e, i) PROVE TypeOK'
    BY <2>1 DEF PutLink
  <2>2. CASE PutEnvId(e)
    BY <2>2 DEF PutEnvId
  <2>3. ASSUME NEW d \in Domains, PutDomain(e, d) PROVE TypeOK'
    BY <2>3 DEF PutDomain
  <2>4. CASE DropPrevious(e)
    BY <2>4 DEF DropPrevious
  <2>5. CASE PutForward(e)
    BY <2>5 DEF PutForward
  <2>6. CASE PutReverse(e)
    BY <2>6 DEF PutReverse
  <2>7. CASE DeleteDomain(e)
    BY <2>7 DEF DeleteDomain
  <2>8. CASE DeleteForward(e)
    BY <2>8 DEF DeleteForward
  <2>9. CASE Abort(e)
    BY <2>9 DEF Abort
  <2> QED
    BY <1>2, <2>1, <2>2, <2>3, <2>4, <2>5, <2>6, <2>7, <2>8, <2>9 DEF EnvStep
<1> QED
  BY <1>1, <1>2 DEF Next

\* The mappings and the handlers' places always have their types; a handler
\* that is about to write an ID or a domain has one in hand.
THEOREM TypeCorrect == Spec => []TypeOK
  BY TypeInit, TypeStep, PTL DEF Spec

-----------------------------------------------------------------------------

\* A private ID that put_link is about to make current, or that is current,
\* leads to its environment.
LinkInv ==
    \A e \in Envs :
        /\ pc[e] = "putEnvId" /\ Private(e, arg[e]) => idEnv[arg[e]] = e
        /\ envId[e] # None /\ Private(e, envId[e]) => idEnv[envId[e]] = e

LEMMA LinkStep == TypeOK /\ LinkInv /\ [Next]_vars => LinkInv'
<1> SUFFICES ASSUME TypeOK, LinkInv, [Next]_vars PROVE LinkInv'
  OBVIOUS
<1> USE DEF TypeOK, Labels, LinkInv, Private
<1>1. CASE UNCHANGED vars
  BY <1>1 DEF vars
<1>2. ASSUME NEW e \in Envs, EnvStep(e) PROVE LinkInv'
  <2> USE DEF Call, Goto, Return, Begin
  <2>1. ASSUME NEW i \in Ids, PutLink(e, i) PROVE LinkInv'
    BY <2>1 DEF PutLink
  <2>2. CASE PutEnvId(e)
    BY <2>2 DEF PutEnvId
  <2>3. ASSUME NEW d \in Domains, PutDomain(e, d) PROVE LinkInv'
    BY <2>3 DEF PutDomain
  <2>4. CASE DropPrevious(e) \/ PutForward(e) \/ PutReverse(e)
    BY <2>4 DEF DropPrevious, PutForward, PutReverse
  <2>5. CASE DeleteDomain(e) \/ DeleteForward(e)
    BY <2>5 DEF DeleteDomain, DeleteForward
  <2>6. CASE Abort(e)
    BY <2>6 DEF Abort
  <2> QED
    BY <1>2, <2>1, <2>2, <2>3, <2>4, <2>5, <2>6 DEF EnvStep
<1> QED
  BY <1>1, <1>2 DEF Next

-----------------------------------------------------------------------------

\* Where the handler of an environment stands in changing its domain: which
\* reverse mappings may still lead to the environment.
DomainInv ==
    /\ ReverseImpliesForward
    /\ \A e \in Envs :
         /\ pc[e] = "putForward" =>
              \A d \in Domains : domainEnv[d] = e => d = arg[e]
         /\ pc[e] = "putReverse" => envDomain[e] = arg[e]
         /\ pc[e] = "deleteForward" =>
              \A d \in Domains : domainEnv[d] # e

LEMMA DomainStep == TypeOK /\ DomainInv /\ [Next]_vars => DomainInv'
<1> SUFFICES ASSUME TypeOK, DomainInv, [Next]_vars PROVE DomainInv'
  OBVIOUS
<1> USE NoneAssumption DEF TypeOK, Labels, DomainInv, ReverseImpliesForward
<1>1. CASE UNCHANGED vars
  BY <1>1 DEF vars
<1>2. ASSUME NEW e \in Envs, EnvStep(e) PROVE DomainInv'
  <2> USE DEF Call, Goto, Return, Begin
  <2>1. ASSUME NEW i \in Ids, PutLink(e, i) PROVE DomainInv'
    BY <2>1 DEF PutLink
  <2>2. CASE PutEnvId(e)
    BY <2>2 DEF PutEnvId
  <2>3. ASSUME NEW d \in Domains, PutDomain(e, d) PROVE DomainInv'
    BY <2>3 DEF PutDomain
  <2>4. CASE DropPrevious(e)
    BY <2>4 DEF DropPrevious
  <2>5. CASE PutForward(e)
    BY <2>5 DEF PutForward
  <2>6. CASE PutReverse(e)
    BY <2>6 DEF PutReverse
  <2>7. CASE DeleteDomain(e)
    BY <2>7 DEF DeleteDomain
  <2>8. CASE DeleteForward(e)
    BY <2>8 DEF DeleteForward
  <2>9. CASE Abort(e)
    BY <2>9 DEF Abort
  <2> QED
    BY <1>2, <2>1, <2>2, <2>3, <2>4, <2>5, <2>6, <2>7, <2>8, <2>9 DEF EnvStep
<1> QED
  BY <1>1, <1>2 DEF Next

LEMMA DirectoryInvariant == Spec => [](TypeOK /\ LinkInv /\ DomainInv)
<1>1. Init => LinkInv
  BY DEF Init, LinkInv
<1>2. Init => DomainInv
  BY NoneAssumption DEF Init, DomainInv, ReverseImpliesForward
<1> QED
  BY <1>1, <1>2, TypeInit, TypeStep, LinkStep, DomainStep, PTL DEF Spec

\* A custom domain is served only for the environment that names it, however
\* the handlers interleave and wherever they are cut short.
THEOREM DomainsAreNamed == Spec => []ReverseImpliesForward
<1>1. DomainInv => ReverseImpliesForward
  BY DEF DomainInv
<1> QED
  BY <1>1, DirectoryInvariant, PTL

LEMMA CurrentLinks == TypeOK /\ LinkInv => CurrentLinkResolves
  BY NoneAssumption DEF TypeOK, LinkInv, CurrentLinkResolves, Resolve, Visit

\* The current link of an environment, and a custom domain mapped to it, lead
\* to it at every moment of every call.
THEOREM CurrentLinksResolve == Spec => []CurrentLinkResolves
  BY CurrentLinks, DirectoryInvariant, PTL

-----------------------------------------------------------------------------

\* Without mishaps, one handler runs at a time, and both directions of a
\* domain's mapping agree except where that handler is changing them.
SerialInv ==
    mishaps = {} =>
        /\ \A e, f \in Envs : pc[e] # "idle" /\ pc[f] # "idle" => e = f
        /\ \A e \in Envs :
             /\ pc[e] \in {"idle", "putEnvId", "dropPrevious"} =>
                  (envDomain[e] # None => domainEnv[envDomain[e]] = e)
             /\ pc[e] \in {"dropPrevious", "putForward", "putReverse"} =>
                  domainEnv[arg[e]] \in {None, e}

LEMMA SerialStep ==
    TypeOK /\ DomainInv /\ SerialInv /\ [Next]_vars => SerialInv'
<1> SUFFICES ASSUME TypeOK, DomainInv, SerialInv, [Next]_vars, mishaps' = {}
             PROVE SerialInv'
  BY DEF SerialInv
<1> USE NoneAssumption DEF TypeOK, Labels, SerialInv
<1>1. CASE UNCHANGED vars
  BY <1>1 DEF vars
<1>2. ASSUME NEW e \in Envs, EnvStep(e) PROVE SerialInv'
  <2> USE DEF Call, Goto, Return, Begin, AllIdle
  <2>1. ASSUME NEW i \in Ids, PutLink(e, i) PROVE SerialInv'
    BY <2>1 DEF PutLink
  <2>2. CASE PutEnvId(e)
    BY <2>2 DEF PutEnvId
  <2>3. ASSUME NEW d \in Domains, PutDomain(e, d) PROVE SerialInv'
    BY <2>3 DEF PutDomain
  <2>4. CASE DropPrevious(e)
    BY <2>4 DEF DropPrevious
  <2>5. CASE PutForward(e)
    BY <2>5 DEF PutForward
  <2>6. CASE PutReverse(e)
    BY <2>6 DEF PutReverse, DomainInv
  <2>7. CASE DeleteDomain(e)
    BY <2>7 DEF DeleteDomain
  <2>8. CASE DeleteForward(e)
    BY <2>8 DEF DeleteForward
  <2>9. CASE Abort(e)
    BY <2>9 DEF Abort
  <2> QED
    BY <1>2, <2>1, <2>2, <2>3, <2>4, <2>5, <2>6, <2>7, <2>8, <2>9 DEF EnvStep
<1> QED
  BY <1>1, <1>2 DEF Next

\* Between calls that neither overlapped nor were cut short, every default
\* link leads to its own environment.
THEOREM DefaultLinksLeadHome == Spec => []LinksLeadHome
<1>1. Init => SerialInv
  BY DEF Init, SerialInv
<1>2. TypeOK /\ LinkInv /\ SerialInv => LinksLeadHome
  <2> SUFFICES ASSUME TypeOK, LinkInv, SerialInv, mishaps = {}, AllIdle,
                      NEW e \in Envs, envId[e] # None, Private(e, envId[e])
               PROVE  OpenLink(envId[e]) = e
    BY DEF LinksLeadHome
  <2>1. CurrentLinkResolves
    BY CurrentLinks
  <2>2. Resolve(envId[e]) = e
    BY <2>1 DEF CurrentLinkResolves
  <2>3. ASSUME envDomain[e] # None PROVE Visit(envDomain[e]) = e
    <3>1. envDomain[e] \in Domains /\ domainEnv[envDomain[e]] = e
      BY <2>3 DEF TypeOK, SerialInv, AllIdle
    <3> QED
      BY <2>1, <3>1 DEF CurrentLinkResolves
  <2> QED
    BY <2>2, <2>3, NoneAssumption DEF OpenLink
<1> QED
  BY <1>1, <1>2, SerialStep, DirectoryInvariant, PTL DEF Spec

=============================================================================
