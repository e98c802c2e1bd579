--------------------------- MODULE DataCacheProofs ---------------------------
(* TLAPS proofs about DataCache, for every number of requests, publishers,  *)
(* isolates and datacenters, and every choice of faults.                    *)
EXTENDS DataCache, FiniteSetTheorems, TLAPS

USE SlotsAssumption, BoundAssumption DEF Version, Entry, Empty

LEMMA TypeInit == Init => TypeOK
BY SwitchAssumption DEF Init, TypeOK, RequestPc, PublisherPc

LEMMA TypeStep == TypeOK /\ [Next]_vars => TypeOK'
<1> SUFFICES ASSUME TypeOK, [Next]_vars PROVE TypeOK'
  OBVIOUS
<1> USE DEF TypeOK, RequestPc, PublisherPc, requestVars, publisherVars
<1>1. CASE Edit
  BY <1>1 DEF Edit
<1>2. CASE \E d \in Datacenters : Propagate(d) \/ EdgeExpire(d)
  BY <1>2 DEF Propagate, EdgeExpire
<1>3. ASSUME NEW i \in Isolates, Recycle(i) PROVE TypeOK'
  BY <1>3 DEF Recycle
<1>4. ASSUME NEW r \in Requests, RequestStep(r) PROVE TypeOK'
  <2> USE DEF Goto, Finish, Unlock
  <2>1. CASE EdgeHit(r) \/ EdgeMiss(r) \/ Reject(r)
    BY <2>1 DEF EdgeHit, EdgeMiss, Reject, vars
  <2>2. CASE ServeStaleAndRefresh(r) \/ ServeStale(r) \/ ColdMiss(r)
    BY <2>2 DEF ServeStaleAndRefresh, ServeStale, ColdMiss
  <2>3. CASE Fetch(r) \/ FetchRest(r) \/ FetchFail(r)
    BY <2>3 DEF Fetch, FetchRest, FetchFail
  <2>4. CASE PutKV(r) \/ PutKVFail(r)
    BY <2>4 DEF PutKV, PutKVFail, WriteKV
  <2>5. CASE PutEdge(r) \/ PutEdgeFail(r)
    BY <2>5 DEF PutEdge, PutEdgeFail, AfterPutCache
  <2>6. CASE Release(r) \/ Cancel(r)
    BY <2>6 DEF Release, Cancel
  <2> QED
    BY <1>4, <2>1, <2>2, <2>3, <2>4, <2>5, <2>6 DEF RequestStep
<1>5. ASSUME NEW p \in Publishers, PublisherStep(p) PROVE TypeOK'
  <2> USE DEF PubGoto, PubFinish
  <2>1. CASE WebhookStart(p) \/ WebhookFetch(p) \/ WebhookFetchRest(p)
               \/ PublishFail(p)
    BY <2>1 DEF WebhookStart, WebhookFetch, WebhookFetchRest, PublishFail
  <2>2. CASE WebhookPutKV(p) \/ ClearKV(p)
    BY <2>2 DEF WebhookPutKV, ClearKV, WriteKV
  <2>3. CASE ClearList(p)
    BY <2>3 DEF ClearList
  <2>4. CASE Purge(p)
    BY <2>4 DEF Purge, MaxOf
  <2> QED
    BY <1>5, <2>1, <2>2, <2>3, <2>4 DEF PublisherStep
<1>6. CASE UNCHANGED vars
  BY <1>6 DEF vars
<1> QED
  BY <1>1, <1>2, <1>3, <1>4, <1>5, <1>6 DEF Next

\* Every variable keeps the type TypeOK gives it.
THEOREM TypeCorrect == Spec => []TypeOK
BY TypeInit, TypeStep, PTL DEF Spec

-----------------------------------------------------------------------------
(* The in-flight key.                                                      *)

\* SingleRefresh is not inductive alone: a second refresh is refused because
\* the first one's key is still there, and the key stays because only the
\* refresh that inserted it removes it.
LockInv ==
    /\ TypeOK
    /\ SingleRefresh
    /\ \A r \in background : pc[r] \notin {"idle", "kv"}
    /\ \A r \in background : IsolateOf[r] \in inflight
    /\ "cancel" \notin Faults =>
         \A i \in inflight : \E r \in background : IsolateOf[r] = i

LEMMA LockInvInductive == LockInv /\ [Next]_vars => LockInv'
<1> SUFFICES ASSUME LockInv, [Next]_vars PROVE LockInv'
  OBVIOUS
<1>t. TypeOK'
  BY TypeStep DEF LockInv
<1> USE <1>t DEF LockInv, SingleRefresh, requestVars, publisherVars
<1>1. CASE Edit \/ \E d \in Datacenters : Propagate(d) \/ EdgeExpire(d)
  BY <1>1 DEF Edit, Propagate, EdgeExpire
<1>2. ASSUME NEW i \in Isolates, Recycle(i) PROVE LockInv'
  BY <1>2 DEF Recycle, TypeOK
<1>3. ASSUME NEW r \in Requests, RequestStep(r) PROVE LockInv'
  <2> USE DEF Goto, Finish, Unlock
  <2>1. CASE EdgeHit(r) \/ EdgeMiss(r) \/ Reject(r)
    BY <2>1 DEF EdgeHit, EdgeMiss, Reject, vars, TypeOK
  <2>2. CASE ServeStaleAndRefresh(r)
    BY <2>2 DEF ServeStaleAndRefresh, TypeOK
  <2>3. CASE ServeStale(r) \/ ColdMiss(r)
    BY <2>3 DEF ServeStale, ColdMiss, TypeOK
  <2>4. CASE Fetch(r) \/ FetchRest(r) \/ PutKV(r) \/ PutKVFail(r)
    BY <2>4 DEF Fetch, FetchRest, PutKV, PutKVFail, WriteKV, TypeOK
  <2>5. CASE FetchFail(r) \/ Release(r)
    BY <2>5 DEF FetchFail, Release, TypeOK
  <2>6. CASE PutEdge(r) \/ PutEdgeFail(r)
    BY <2>6 DEF PutEdge, PutEdgeFail, AfterPutCache, TypeOK
  <2>7. CASE Cancel(r)
    BY <2>7 DEF Cancel, TypeOK
  <2> QED
    BY <1>3, <2>1, <2>2, <2>3, <2>4, <2>5, <2>6, <2>7 DEF RequestStep
<1>4. ASSUME NEW p \in Publishers, PublisherStep(p) PROVE LockInv'
  BY <1>4 DEF PublisherStep, WebhookStart, WebhookFetch, WebhookFetchRest, WebhookPutKV,
              ClearList, ClearKV, Purge, PublishFail, WriteKV
<1>5. CASE UNCHANGED vars
  BY <1>5 DEF vars
<1> QED
  BY <1>1, <1>2, <1>3, <1>4, <1>5 DEF Next

LEMMA LockInvariant == Spec => []LockInv
<1>1. Init => LockInv
  BY TypeInit DEF Init, LockInv, SingleRefresh
<1> QED
  BY <1>1, LockInvInductive, PTL DEF Spec

\* However requests, faults and publishers interleave, an isolate never runs
\* two background refreshes of the same data at once.
THEOREM AtMostOneRefresh == Spec => []SingleRefresh
<1>1. LockInv => SingleRefresh
  BY DEF LockInv
<1> QED
  BY <1>1, LockInvariant, PTL

\* Without cancelled tasks the in-flight set is exact: no key is left behind
\* by a failed refresh, and none is missing under a running one.
THEOREM NoKeyLeftBehind == Spec => []LockMatchesRefresh
<1>1. LockInv => LockMatchesRefresh
  BY DEF LockInv, LockMatchesRefresh, TypeOK
<1> QED
  BY <1>1, LockInvariant, PTL

-----------------------------------------------------------------------------
(* Settled announcements stay.                                             *)

AtLeast(e, v) == e = Empty \/ e >= v

\* What a clean publisher p has secured before it purges the edge caches: no
\* older fetch can still be written, and once it reached the persistent cache,
\* that cache is not older either.
Secured(p) ==
    /\ pubPc[p] \in {"deleteKV", "purge"}
    /\ pubVer[p] <= upstream
    /\ NoOlderFetch(pubVer[p])
    /\ pubPc[p] = "purge" => AtLeast(kv, pubVer[p])

\* SettledDataStay is not inductive alone: it also takes that nothing fetched
\* before the settled version is still on its way to a cache.
SettledInv ==
    /\ TypeOK
    /\ settled <= upstream
    /\ AtLeast(kv, settled)
    /\ \A d \in Datacenters : AtLeast(edge[d], settled)
    /\ NoOlderFetch(settled)
    /\ \A p \in Publishers : PubFetched(p) => pubVer[p] <= upstream
    /\ \A p \in clean : Secured(p)

LEMMA SettledInit == Init => SettledInv
BY TypeInit DEF Init, SettledInv, AtLeast, NoOlderFetch, Fetched, PubFetched, Secured

LEMMA SettledRequestStep ==
    ASSUME SettledInv, TypeOK', NEW r \in Requests, RequestStep(r)
    PROVE  SettledInv'
<1> USE DEF SettledInv, AtLeast, NoOlderFetch, Fetched, PubFetched, Secured, Goto, Finish,
            publisherVars
<1>1. CASE EdgeHit(r) \/ EdgeMiss(r) \/ Reject(r)
  BY <1>1 DEF EdgeHit, EdgeMiss, Reject, vars, requestVars, TypeOK
<1>2. CASE ServeStaleAndRefresh(r) \/ ServeStale(r) \/ ColdMiss(r)
  BY <1>2 DEF ServeStaleAndRefresh, ServeStale, ColdMiss, TypeOK
<1>3. CASE Fetch(r) \/ FetchRest(r)
  BY <1>3 DEF Fetch, FetchRest, TypeOK
<1>4. CASE FetchFail(r) \/ Release(r) \/ Cancel(r)
  BY <1>4 DEF FetchFail, Release, Cancel, TypeOK
<1>5. CASE PutKV(r)
  BY <1>5 DEF PutKV, WriteKV, TypeOK
<1>6. CASE PutKVFail(r)
  BY <1>6 DEF PutKVFail, TypeOK
<1>7. CASE PutEdge(r) \/ PutEdgeFail(r)
  BY <1>7 DEF PutEdge, PutEdgeFail, AfterPutCache, TypeOK
<1> QED
  BY <1>1, <1>2, <1>3, <1>4, <1>5, <1>6, <1>7 DEF RequestStep

LEMMA SettledPublisherStep ==
    ASSUME SettledInv, TypeOK', NEW p \in Publishers, PublisherStep(p)
    PROVE  SettledInv'
<1> USE DEF SettledInv, AtLeast, NoOlderFetch, Fetched, PubFetched, Secured,
            PubGoto, PubFinish, requestVars
<1>1. CASE WebhookStart(p)
  BY <1>1 DEF WebhookStart, TypeOK
<1>2. CASE WebhookFetch(p) \/ WebhookFetchRest(p)
  BY <1>2 DEF WebhookFetch, WebhookFetchRest, TypeOK
<1>3. CASE WebhookPutKV(p)
  <2>1. kv' = pubVer[p] /\ pubVer' = pubVer /\ upstream' = upstream
    BY <1>3 DEF WebhookPutKV, WriteKV
  <2>2. \A v \in Version : NoOlderFetch(v) => NoOlderFetch(v)'
    BY <1>3 DEF WebhookPutKV, TypeOK
  <2>3. ASSUME NEW q \in clean PROVE Secured(q)'
    <3>1. pubVer[p] >= pubVer[q] /\ q # p
      BY <1>3, <2>3 DEF WebhookPutKV, TypeOK
    <3> QED
      BY <1>3, <2>1, <2>2, <2>3, <3>1 DEF WebhookPutKV, TypeOK
  <2>4. p \in clean' => Secured(p)'
    BY <1>3, <2>1, <2>2, <2>3 DEF WebhookPutKV, TypeOK
  <2>5. AtLeast(kv', settled) /\ NoOlderFetch(settled)'
    BY <1>3, <2>1, <2>2 DEF WebhookPutKV, TypeOK
  <2> QED
    BY <1>3, <2>3, <2>4, <2>5 DEF WebhookPutKV
<1>4. CASE PublishFail(p)
  BY <1>4 DEF PublishFail, TypeOK
<1>5. CASE Purge(p)
  BY <1>5 DEF Purge, MaxOf, TypeOK
<1>6. CASE ClearList(p)
  BY <1>6 DEF ClearList, TypeOK
<1>7. CASE ClearKV(p)
  BY <1>7 DEF ClearKV, WriteKV, TypeOK
<1> QED
  BY <1>1, <1>2, <1>3, <1>4, <1>5, <1>6, <1>7 DEF PublisherStep

LEMMA SettledInductive == SettledInv /\ [Next]_vars => SettledInv'
<1> SUFFICES ASSUME SettledInv, [Next]_vars PROVE SettledInv'
  OBVIOUS
<1>t. TypeOK'
  BY TypeStep DEF SettledInv
<1> USE <1>t
<1>1. CASE Edit \/ \E d \in Datacenters : Propagate(d) \/ EdgeExpire(d)
  BY <1>1 DEF Edit, Propagate, EdgeExpire, SettledInv, AtLeast, NoOlderFetch,
              Fetched, PubFetched, Secured, requestVars, publisherVars, TypeOK
<1>2. ASSUME NEW i \in Isolates, Recycle(i) PROVE SettledInv'
  BY <1>2 DEF Recycle, SettledInv, AtLeast, NoOlderFetch, Fetched, PubFetched, Secured,
              publisherVars, TypeOK
<1>3. CASE UNCHANGED vars
  BY <1>3 DEF vars, SettledInv, AtLeast, NoOlderFetch, Fetched, PubFetched,
              Secured, requestVars, publisherVars
<1> QED
  BY <1>1, <1>2, <1>3, SettledRequestStep, SettledPublisherStep DEF Next

\* What a clean publisher published is never replaced by older data, in the
\* persistent cache or at any edge, by any number of racing refreshes.
THEOREM SettledDataNeverRegress == Spec => []SettledDataStay
<1>1. SettledInv => SettledDataStay
  BY DEF SettledInv, AtLeast, SettledDataStay, NotBefore, Stored
<1> QED
  BY <1>1, SettledInit, SettledInductive, PTL DEF Spec

-----------------------------------------------------------------------------
(* The caches are copies of a register.                                    *)

\* What a refresh is about to write is not newer than what NocoDB holds.
FetchedPast ==
    \A r \in Requests : Fetched(r) => ver[r] <= upstream

LEMMA FetchedInductive == TypeOK /\ TypeOK' /\ FetchedPast /\ [Next]_vars => FetchedPast'
<1> SUFFICES ASSUME TypeOK, TypeOK', FetchedPast, [Next]_vars PROVE FetchedPast'
  OBVIOUS
<1> USE DEF FetchedPast, Fetched, Goto, Finish, requestVars, publisherVars
<1>1. CASE Edit
  BY <1>1 DEF Edit, TypeOK
<1>2. CASE \E d \in Datacenters : Propagate(d) \/ EdgeExpire(d)
  BY <1>2 DEF Propagate, EdgeExpire
<1>3. ASSUME NEW i \in Isolates, Recycle(i) PROVE FetchedPast'
  BY <1>3 DEF Recycle
<1>4. ASSUME NEW r \in Requests, RequestStep(r) PROVE FetchedPast'
  <2>1. CASE EdgeHit(r) \/ EdgeMiss(r) \/ Reject(r)
    BY <2>1 DEF EdgeHit, EdgeMiss, Reject, vars, TypeOK
  <2>2. CASE ServeStaleAndRefresh(r) \/ ServeStale(r) \/ ColdMiss(r)
    BY <2>2 DEF ServeStaleAndRefresh, ServeStale, ColdMiss, TypeOK
  <2>3. CASE Fetch(r) \/ FetchRest(r)
    BY <2>3 DEF Fetch, FetchRest, TypeOK
  <2>4. CASE FetchFail(r) \/ Release(r) \/ Cancel(r)
    BY <2>4 DEF FetchFail, Release, Cancel, TypeOK
  <2>5. CASE PutKV(r) \/ PutKVFail(r)
    BY <2>5 DEF PutKV, PutKVFail, TypeOK
  <2>6. CASE PutEdge(r) \/ PutEdgeFail(r)
    BY <2>6 DEF PutEdge, PutEdgeFail, AfterPutCache, TypeOK
  <2> QED
    BY <1>4, <2>1, <2>2, <2>3, <2>4, <2>5, <2>6 DEF RequestStep
<1>5. ASSUME NEW p \in Publishers, PublisherStep(p) PROVE FetchedPast'
  BY <1>5 DEF PublisherStep, WebhookStart, WebhookFetch, WebhookFetchRest,
              WebhookPutKV, ClearList, ClearKV, Purge, PublishFail
<1>6. CASE UNCHANGED vars
  BY <1>6 DEF vars
<1> QED
  BY <1>1, <1>2, <1>3, <1>4, <1>5, <1>6 DEF Next

\* The steps that write a cache, as steps of the register; all others change
\* none of its variables.
LEMMA RegisterStep ==
    ASSUME TypeOK, SettledInv, FetchedPast, [Next]_vars
    PROVE  [Contract!Next]_(Contract!vars)
<1> USE DEF Contract!Next, Contract!Allowed, Contract!vars, requestVars, publisherVars
<1>1. CASE Edit
  BY <1>1 DEF Edit, Contract!Change
<1>2. ASSUME NEW d \in Datacenters, Propagate(d) PROVE UNCHANGED Contract!vars
  BY <1>2 DEF Propagate
<1>3. ASSUME NEW d \in Datacenters, EdgeExpire(d) PROVE Contract!Keep(d)
  BY <1>3 DEF EdgeExpire, Contract!Keep
<1>4. ASSUME NEW i \in Isolates, Recycle(i) PROVE UNCHANGED Contract!vars
  BY <1>4 DEF Recycle
<1>5. ASSUME NEW r \in Requests, RequestStep(r)
      PROVE  \/ Contract!KeepCentral
             \/ \E d \in Datacenters : Contract!Keep(d)
             \/ UNCHANGED Contract!vars
  <2>1. pc[r] \in {"putKV", "putEdge"} => ver[r] \in settled .. upstream
    BY DEF TypeOK, SettledInv, NoOlderFetch, FetchedPast, Fetched
  <2>2. CASE PutKV(r)
    BY <2>1, <2>2 DEF PutKV, WriteKV, Contract!KeepCentral
  <2>3. CASE PutEdge(r)
    <3>1. Home(r) \in Datacenters
      BY DEF Home
    <3>2. edge' = [edge EXCEPT ![Home(r)] = ver[r]] /\ UNCHANGED <<upstream, settled, kv>>
      BY <2>3 DEF PutEdge
    <3>3. ver[r] \in settled .. upstream
      BY <2>1, <2>3 DEF PutEdge
    <3> QED
      BY <3>1, <3>2, <3>3 DEF Contract!Keep
  <2>4. CASE EdgeHit(r) \/ EdgeMiss(r) \/ Reject(r) \/ ServeStaleAndRefresh(r)
               \/ ServeStale(r) \/ ColdMiss(r)
    BY <2>4 DEF EdgeHit, EdgeMiss, Reject, ServeStaleAndRefresh, ServeStale, ColdMiss, vars
  <2>5. CASE Fetch(r) \/ FetchRest(r) \/ FetchFail(r) \/ PutKVFail(r) \/ PutEdgeFail(r)
               \/ Release(r) \/ Cancel(r)
    BY <2>5 DEF Fetch, FetchRest, FetchFail, PutKVFail, PutEdgeFail, Release, Cancel
  <2> QED
    BY <1>5, <2>2, <2>3, <2>4, <2>5 DEF RequestStep
<1>6. ASSUME NEW p \in Publishers, PublisherStep(p)
      PROVE  \/ Contract!KeepCentral
             \/ Contract!Settle
             \/ UNCHANGED Contract!vars
  <2>1. CASE WebhookPutKV(p)
    <3>1. pubVer[p] \in settled .. upstream
      BY <2>1 DEF WebhookPutKV, TypeOK, SettledInv, NoOlderFetch, PubFetched
    <3> QED
      BY <2>1, <3>1 DEF WebhookPutKV, WriteKV, Contract!KeepCentral
  <2>2. CASE ClearKV(p)
    BY <2>2 DEF ClearKV, WriteKV, Contract!KeepCentral
  <2>3. CASE Purge(p)
    <3>1. /\ edge' = [d \in Datacenters |-> Empty]
          /\ settled' = IF p \in clean THEN MaxOf(settled, pubVer[p]) ELSE settled
          /\ UNCHANGED <<upstream, kv>>
      BY <2>3 DEF Purge
    <3>2. settled \in Nat /\ upstream \in Nat /\ settled <= upstream /\ AtLeast(kv, settled)
      BY DEF TypeOK, SettledInv
    <3>3. p \in clean => /\ pubVer[p] \in Nat /\ pubVer[p] <= upstream
                        /\ AtLeast(kv, pubVer[p])
      BY <2>3 DEF Purge, SettledInv, Secured, TypeOK
    <3>4. settled' \in settled .. upstream /\ AtLeast(kv, settled')
      BY <3>1, <3>2, <3>3 DEF MaxOf, AtLeast
    <3> QED
      BY <3>1, <3>4 DEF Contract!Settle, Contract!AtLeast, AtLeast
  <2>4. CASE WebhookStart(p) \/ WebhookFetch(p) \/ WebhookFetchRest(p) \/ ClearList(p)
               \/ PublishFail(p)
    BY <2>4 DEF WebhookStart, WebhookFetch, WebhookFetchRest, ClearList, PublishFail
  <2> QED
    BY <1>6, <2>1, <2>2, <2>3, <2>4 DEF PublisherStep
<1>7. CASE UNCHANGED vars
  BY <1>7 DEF vars
<1> QED
  BY <1>1, <1>2, <1>3, <1>4, <1>5, <1>6, <1>7 DEF Next

\* However many handlers, isolates and datacenters there are and whatever
\* fails, the caches behave as copies of one register.
THEOREM CachesAreARegister == Spec => ImplementsRegister
<1>1. Init => Contract!Init
  BY SwitchAssumption DEF Init, Contract!Init
<1>2. Init => FetchedPast
  BY DEF Init, FetchedPast
<1>3. Spec => [](TypeOK /\ SettledInv)
  BY TypeCorrect, SettledInit, SettledInductive, PTL DEF Spec
<1>4. Spec => []FetchedPast
  BY <1>2, FetchedInductive, TypeCorrect, PTL DEF Spec
<1> QED
  BY <1>1, <1>3, <1>4, RegisterStep, PTL DEF Spec, ImplementsRegister, Contract!Spec

-----------------------------------------------------------------------------
(* One warm isolate: the persistent cache only moves forward.              *)

\* Nobody fetches without the key, so a fetched version that is about to be
\* written is the only one under way and is not older than the cached one.
WarmInv ==
    WarmSingleIsolate =>
        /\ kv # Empty
        /\ kv <= upstream
        /\ \A d \in Datacenters : kvView[d] = kv
        /\ \A r \in Requests : pc[r] \notin {"idle", "kv"} => r \in background
        /\ \A r \in Requests : pc[r] \in {"pages", "putKV"} => ver[r] \in kv .. upstream

\* The step itself: whatever happens, the cached version does not decrease.
LEMMA WarmStep ==
    ASSUME LockInv, LockInv', WarmInv, WarmSingleIsolate, [Next]_vars
    PROVE  WarmInv' /\ kv' >= kv
<1> USE DEF WarmInv, LockInv, SingleRefresh, requestVars, publisherVars,
            Goto, Finish, Unlock
<1>1. CASE Edit
  BY <1>1 DEF Edit, TypeOK
<1>2. CASE \E d \in Datacenters : Propagate(d) \/ EdgeExpire(d)
  BY <1>2 DEF Propagate, EdgeExpire, TypeOK
<1>3. ASSUME NEW i \in Isolates, Recycle(i) PROVE WarmInv' /\ kv' >= kv
  BY <1>3 DEF Recycle, TypeOK
<1>4. ASSUME NEW r \in Requests, RequestStep(r) PROVE WarmInv' /\ kv' >= kv
  <2>0. Home(r) \in Datacenters /\ kvView[Home(r)] # Empty
    BY DEF Home
  <2>1. CASE EdgeHit(r) \/ EdgeMiss(r) \/ Reject(r)
    BY <2>1 DEF EdgeHit, EdgeMiss, Reject, vars, TypeOK
  <2>2. CASE ServeStaleAndRefresh(r) \/ ServeStale(r)
    BY <2>2 DEF ServeStaleAndRefresh, ServeStale, TypeOK
  <2>3. CASE ColdMiss(r)
    BY <2>0, <2>3 DEF ColdMiss, WarmSingleIsolate
  <2>4. CASE Fetch(r) \/ FetchRest(r)
    BY <2>4 DEF Fetch, FetchRest, TypeOK
  <2>5. CASE FetchFail(r) \/ Release(r) \/ Cancel(r)
    BY <2>5 DEF FetchFail, Release, Cancel, TypeOK
  <2>6. CASE PutKV(r)
    <3>1. /\ kv' = ver[r] /\ ver' = ver /\ upstream' = upstream
          /\ background' = background /\ pc' = [pc EXCEPT ![r] = "putEdge"]
      BY <2>6 DEF PutKV, WriteKV
    <3>2. \A d \in Datacenters : kvView'[d] = kv'
      BY <2>0, <2>6 DEF PutKV, WriteKV, WarmSingleIsolate
    <3>3. ver[r] \in Version /\ ver[r] >= kv /\ ver[r] <= upstream
      BY <2>6 DEF PutKV, TypeOK
    <3>4. \A s \in Requests : pc'[s] \notin {"pages", "putKV"}
      <4>1. \A s \in Requests : IsolateOf[s] = IsolateOf[r]
        BY DEF WarmSingleIsolate
      <4>2. \A s \in Requests : pc[s] \in {"pages", "putKV"} => s = r
        BY <2>6, <4>1 DEF PutKV
      <4> QED
        BY <3>1, <4>2 DEF TypeOK
    <3>5. r \in background
      BY <2>6 DEF PutKV
    <3> QED
      BY <3>1, <3>2, <3>3, <3>4, <3>5 DEF TypeOK
  <2>7. CASE PutKVFail(r)
    BY <2>7 DEF PutKVFail, TypeOK
  <2>8. CASE PutEdge(r) \/ PutEdgeFail(r)
    BY <2>8 DEF PutEdge, PutEdgeFail, AfterPutCache, TypeOK
  <2> QED
    BY <1>4, <2>1, <2>2, <2>3, <2>4, <2>5, <2>6, <2>7, <2>8 DEF RequestStep
<1>5. CASE \E p \in Publishers : PublisherStep(p)
  BY <1>5 DEF WarmSingleIsolate
<1>6. CASE UNCHANGED vars
  BY <1>6 DEF vars, TypeOK
<1> QED
  BY <1>1, <1>2, <1>3, <1>4, <1>5, <1>6 DEF Next

-----------------------------------------------------------------------------

\* In one warm isolate with readable KV and no publisher, the persistent cache
\* never goes back to an older version, whatever else fails.
THEOREM WarmCacheMovesForward == Spec => KVForward
<1>1. Init => WarmInv
  BY DEF Init, WarmInv, WarmSingleIsolate
<1>2. LockInv /\ LockInv' /\ WarmInv /\ [Next]_vars => WarmInv'
  BY WarmStep DEF WarmInv
<1>3. LockInv /\ LockInv' /\ WarmInv /\ [Next]_vars
        => [WarmSingleIsolate => kv' >= kv]_kv
  BY WarmStep
<1> QED
  BY <1>1, <1>2, <1>3, LockInvariant, PTL DEF Spec, KVForward

-----------------------------------------------------------------------------
(* The load on NocoDB.                                                     *)

Guarded == WarmStart /\ "kvRead" \notin Faults /\ "clear" \notin Operations

\* A warm cache stays warm, so every request that fetches holds the key of its
\* isolate.
LoadInv ==
    Guarded =>
        /\ kv # Empty
        /\ \A d \in Datacenters : kvView[d] # Empty
        /\ \A r \in Requests : pc[r] \in {"fetch", "pages"} => r \in background
        /\ \A p \in Publishers : pubPc[p] # "deleteKV"

LEMMA LoadStep ==
    ASSUME TypeOK, LoadInv, [Next]_vars
    PROVE  LoadInv'
<1> SUFFICES ASSUME Guarded PROVE LoadInv'
  BY DEF LoadInv
<1> USE DEF LoadInv, Guarded, requestVars, publisherVars
<1>1. CASE Edit \/ \E d \in Datacenters : Propagate(d) \/ EdgeExpire(d)
  BY <1>1 DEF Edit, Propagate, EdgeExpire, TypeOK
<1>2. ASSUME NEW i \in Isolates, Recycle(i) PROVE LoadInv'
  BY <1>2 DEF Recycle, TypeOK
<1>3. ASSUME NEW r \in Requests, RequestStep(r) PROVE LoadInv'
  <2> USE DEF Goto, Finish, TypeOK
  <2>0. Home(r) \in Datacenters /\ kvView[Home(r)] # Empty
    BY DEF Home
  <2>1. CASE EdgeHit(r) \/ EdgeMiss(r) \/ Reject(r)
    BY <2>1 DEF EdgeHit, EdgeMiss, Reject, vars
  <2>2. CASE ServeStaleAndRefresh(r) \/ ServeStale(r)
    BY <2>2 DEF ServeStaleAndRefresh, ServeStale
  <2>3. CASE ColdMiss(r)
    BY <2>0, <2>3 DEF ColdMiss
  <2>4. CASE Fetch(r) \/ FetchRest(r) \/ FetchFail(r) \/ Release(r) \/ Cancel(r)
    BY <2>4 DEF Fetch, FetchRest, FetchFail, Release, Cancel
  <2>5. CASE PutKV(r) \/ PutKVFail(r)
    BY <2>5 DEF PutKV, PutKVFail, WriteKV
  <2>6. CASE PutEdge(r) \/ PutEdgeFail(r)
    BY <2>6 DEF PutEdge, PutEdgeFail, AfterPutCache
  <2> QED
    BY <1>3, <2>1, <2>2, <2>3, <2>4, <2>5, <2>6 DEF RequestStep
<1>4. ASSUME NEW p \in Publishers, PublisherStep(p) PROVE LoadInv'
  <2> USE DEF PubGoto, PubFinish, TypeOK
  <2>1. CASE WebhookStart(p) \/ WebhookFetch(p) \/ WebhookFetchRest(p)
               \/ PublishFail(p) \/ Purge(p)
    BY <2>1 DEF WebhookStart, WebhookFetch, WebhookFetchRest, PublishFail, Purge
  <2>2. CASE WebhookPutKV(p)
    BY <2>2 DEF WebhookPutKV, WriteKV
  <2>3. CASE ClearList(p) \/ ClearKV(p)
    BY <2>3 DEF ClearList, ClearKV
  <2> QED
    BY <1>4, <2>1, <2>2, <2>3 DEF PublisherStep
<1>5. CASE UNCHANGED vars
  BY <1>5 DEF vars
<1> QED
  BY <1>1, <1>2, <1>3, <1>4, <1>5 DEF Next

\* While the persistent cache is warm and readable, NocoDB never gets more
\* requests at a time than there are isolates, for any number of clients.
THEOREM LoadIsBounded ==
    ASSUME IsFiniteSet(Isolates)
    PROVE  Spec => []UpstreamLoad
<1>1. Init => LoadInv
  BY DEF Init, LoadInv, Guarded
<1>2. LockInv /\ LoadInv /\ [Next]_vars => LoadInv'
  BY LoadStep DEF LockInv
<1>3. LockInv /\ LoadInv => UpstreamLoad
  <2> SUFFICES ASSUME LockInv, LoadInv, Guarded
               PROVE  Cardinality({r \in Requests : pc[r] \in {"fetch", "pages"}})
                        <= Cardinality(Isolates)
    BY DEF UpstreamLoad, Guarded
  <2> DEFINE F == {r \in Requests : pc[r] \in {"fetch", "pages"}}
             f == [r \in F |-> IsolateOf[r]]
  <2>1. \A r, s \in F : f[r] = f[s] => r = s
    BY DEF LockInv, LoadInv, SingleRefresh
  <2>2. f \in [F -> Isolates]
    OBVIOUS
  <2>3. f \in Injection(F, Isolates)
    BY <2>1, <2>2 DEF Injection, IsInjective
  <2> HIDE DEF F, f
  <2>4. Cardinality(F) <= Cardinality(Isolates)
    BY <2>3, FS_Injection
  <2> QED
    BY <2>4 DEF F
<1> QED
  BY <1>1, <1>2, <1>3, LockInvariant, PTL DEF Spec

=============================================================================
