-------------------------- MODULE RemoteDataProofs --------------------------
(* For any environments, IDs, views, overlapping reloads, retry limits and   *)
(* contents of localStorage: a page that is not switched to another          *)
(* environment shows and keeps only its own environment's data, as far as    *)
(* localStorage is not mixed, and a stale answer is followed up.             *)
EXTENDS RemoteData, TLAPS

LEMMA BooleanTests ==
    ASSUME NEW s
    PROVE  Mislabelled(s) \in BOOLEAN /\ OfAnother(s) \in BOOLEAN
BY DEF Mislabelled, OfAnother

LEMMA TypeInit == Init => TypeOK
<1> SUFFICES ASSUME Init PROVE TypeOK
  OBVIOUS
<1> USE DEF Init
<1>1. result \in Results /\ stored \in StoredValues \cup {None}
  BY OutsideAssumption DEF Results
<1>2. requests \in [Reloads -> InProgress \cup {Idle}]
  OBVIOUS
<1>3. 0 \in 0..MaxRetries /\ 0 \in 0..MaxTriggers
  BY BoundsAssumption
<1> QED
  BY <1>1, <1>2, <1>3, BooleanTests DEF TypeOK

LEMMA TypeFresh ==
    ASSUME TypeOK, NEW i \in Ids, FreshPage(i),
           stored' \in StoredValues \cup {None}, triggers' \in 0..MaxTriggers
    PROVE  TypeOK'
<1>1. mixed' \in BOOLEAN
  BY BooleanTests DEF FreshPage
<1>2. result' \in Results /\ requests' \in [Reloads -> InProgress \cup {Idle}]
  BY DEF FreshPage, Results
<1>3. 0 \in 0..MaxRetries
  BY BoundsAssumption
<1>4. mode' \in Modes /\ view' \in Views \cup {None} /\ switched' \in BOOLEAN
  BY DEF FreshPage, TypeOK
<1> QED
  BY <1>1, <1>2, <1>3, <1>4 DEF TypeOK, FreshPage

\* While the page loads, nothing of it is running.
MountedInv ==
    view = None =>
        /\ opened = {} /\ result = Pending
        /\ \A r \in Reloads : requests[r] = Idle
        /\ \A v \in Views : ~tracked[v] /\ leaked[v] = 0

LEMMA TypeStep == TypeOK /\ MountedInv /\ [Next]_vars => TypeOK'
<1> SUFFICES ASSUME TypeOK, MountedInv, [Next]_vars PROVE TypeOK'
  OBVIOUS
<1> USE NoneAssumption, BoundsAssumption, NameOfAssumption, AliasOfAssumption
        DEF TypeOK, Results, StoredValues, Tags, InProgress, Shows, Pending,
            Broken, Idle, Request, Tag, Asked, AskedAlias, Done, Triggered,
            Reload, display, retrying, history
<1>1. CASE UNCHANGED vars
  BY <1>1 DEF vars, display, retrying, history
<1>2. ASSUME NEW r \in Reloads, Answer(r) PROVE TypeOK'
  <2>1. CASE NotModified(r)
    BY <2>1 DEF NotModified, AnsweredBy
  <2>2. ASSUME NEW ver \in Versions, Fresh(r, ver) PROVE TypeOK'
    BY <2>2 DEF Fresh, Accept, AnsweredBy
  <2>3. ASSUME NEW ver \in Versions, Stale(r, ver) PROVE TypeOK'
    <3> DEFINE v == requests[r].view
    <3>1. v \in Views /\ requests[r].id \in Ids
      BY <2>3 DEF Stale
    <3>2. /\ result' \in Results
          /\ stored' \in StoredValues \cup {None}
          /\ requests' \in [Reloads -> InProgress \cup {Idle}]
          /\ staleView' \in Views \cup {None}
          /\ UNCHANGED <<mode, at, view, opened, triggers, switched>>
      BY <2>3, <3>1 DEF Stale, Accept, AnsweredBy
    <3>3. /\ retryCount' \in [Views -> 0..MaxRetries]
          /\ tracked' \in [Views -> BOOLEAN]
          /\ leaked' \in [Views -> Nat]
      <4>1. CASE retryCount[v] < MaxRetries
        <5>1. /\ retryCount' = [retryCount EXCEPT ![v] = @ + 1]
              /\ tracked' = [tracked EXCEPT ![v] = TRUE]
              /\ leaked' = [leaked EXCEPT ![v] = IF tracked[v] THEN @ + 1 ELSE @]
          BY <2>3, <4>1 DEF Stale
        <5>2. retryCount[v] + 1 \in 0..MaxRetries /\ leaked[v] + 1 \in Nat
          BY <3>1, <4>1
        <5> HIDE DEF v
        <5> QED
          BY <3>1, <5>1, <5>2
      <4>2. CASE ~(retryCount[v] < MaxRetries)
        BY <2>3, <3>1, <4>2 DEF Stale
      <4> QED
        BY <4>1, <4>2
    <3>4. mixed' \in BOOLEAN
      BY <2>3 DEF Stale, Accept
    <3> QED
      BY <3>2, <3>3, <3>4
  <2>4. CASE Failed(r)
    BY <2>4 DEF Failed, AnsweredBy
  <2>5. CASE Offline(r)
    BY <2>5 DEF Offline, AnsweredBy
  <2>6. CASE NotFound(r)
    <3>1. requests[r] \in InProgress
      BY <2>6 DEF NotFound
    <3>2. [requests[r] EXCEPT !.phase = "alias", !.id = at] \in InProgress
      BY <3>1
    <3>3. requests' = [requests EXCEPT ![r] =
                         [requests[r] EXCEPT !.phase = "alias", !.id = at]]
      BY <2>6, <3>1 DEF NotFound
    <3>4. requests' \in [Reloads -> InProgress \cup {Idle}]
      BY <3>2, <3>3
    <3> QED
      BY <2>6, <3>1, <3>4 DEF NotFound, AnsweredBy
  <2>7. CASE AliasMissing(r)
    BY <2>7 DEF AliasMissing
  <2>8. ASSUME NEW fetch \in BOOLEAN, AliasFound(r, fetch) PROVE TypeOK'
    <3> DEFINE i == AliasOf[requests[r].id]
    <3>1. i \in Ids /\ view \in Views \cup {None}
      BY <2>8 DEF AliasFound
    <3>2. Adopted(i) \in StoredValues \cup {None}
      BY <3>1 DEF Adopted
    <3>3. CASE i = at
      BY <2>8, <3>2, <3>3, BooleanTests DEF AliasFound
    <3>4. CASE i # at
      <4>1. Enter(view, i, Adopted(i), fetch, r) /\ view # None
        BY <2>8, <3>4 DEF AliasFound, MountedInv
      <4> QED
        BY <2>8, <3>1, <3>2, <4>1, BooleanTests DEF AliasFound, Enter, CancelRetry
    <3> QED
      BY <3>3, <3>4
  <2>9. CASE AliasFoundOnDomain(r)
    <3> DEFINE i == AliasOf[requests[r].id]
    <3>1. i \in Ids /\ at \in Ids
      BY <2>9 DEF AliasFoundOnDomain
    <3>2. stored' \in StoredValues \cup {None} /\ triggers' \in 0..MaxTriggers
      BY <2>9, <3>1 DEF AliasFoundOnDomain, Adopted
    <3>3. FreshPage(i) \/ FreshPage(at)
      BY <2>9 DEF AliasFoundOnDomain
    <3> HIDE DEF i
    <3> QED
      BY <3>1, <3>2, <3>3, TypeFresh
  <2> QED
    BY <1>2, <2>1, <2>2, <2>3, <2>4, <2>5, <2>6, <2>7, <2>8, <2>9 DEF Answer
<1>3. ASSUME NEW v \in Views, NEW r \in Reloads, Retry(v, r) PROVE TypeOK'
  BY <1>3 DEF Retry
<1>4. ASSUME NEW v \in Views, NEW r \in Reloads, RetryLeaked(v, r) PROVE TypeOK'
  BY <1>4 DEF RetryLeaked
<1>5. ASSUME NEW v \in Views, NEW r \in Reloads, NEW fetch \in BOOLEAN,
             Mount(v, fetch, r)
      PROVE  TypeOK'
  BY <1>5 DEF Mount, Enter, CancelRetry, Pending
<1>6. ASSUME NEW i \in Ids, NEW r \in Reloads, NEW fetch \in BOOLEAN,
             Switch(i, fetch, r)
      PROVE  TypeOK'
  BY <1>6 DEF Switch, Enter, CancelRetry, Pending
<1>7. ASSUME NEW v \in Views, NEW r \in Reloads, Trigger(v, r) PROVE TypeOK'
  BY <1>7 DEF Trigger, CancelRetry
<1>8. CASE ReloadPage
  <2>1. stored' \in StoredValues \cup {None} /\ triggers' \in 0..MaxTriggers
    BY <1>8 DEF ReloadPage
  <2> QED
    BY <1>8, <2>1, TypeFresh DEF ReloadPage
<1>9. ASSUME NEW s \in Outside \cup {None}, OtherTab(s) PROVE TypeOK'
  BY <1>9, OutsideAssumption, BooleanTests DEF OtherTab
<1> QED
  BY <1>1, <1>2, <1>3, <1>4, <1>5, <1>6, <1>7, <1>8, <1>9
     DEF Next, Timer, User, Elsewhere

-----------------------------------------------------------------------------

\* In a page that was not switched: what is being asked for belongs to the
\* environment of the current route, and while nothing is mixed, so does what
\* is on display, and what is stored belongs to the environment of its ID.
PinnedInv ==
    /\ MountedInv
    /\ ~switched =>
        \A r \in Reloads :
          requests[r] # Idle => NameOf[requests[r].id] = NameOf[at]
    /\ ~switched /\ ~mixed =>
        /\ result.status = "success" => result.of = NameOf[at]
        /\ ~Mislabelled(stored)

LEMMA PinnedInit == Init => PinnedInv
  BY DEF Init, PinnedInv, MountedInv, Pending, StoredValues

LEMMA PinnedFresh ==
    ASSUME NEW i, FreshPage(i)
    PROVE  PinnedInv'
<1>1. MountedInv' /\ \A r \in Reloads : requests'[r] = Idle
  BY DEF FreshPage, MountedInv
<1>2. result'.status # "success"
  BY DEF FreshPage, Pending
<1>3. ~mixed' => ~Mislabelled(stored')
  BY DEF FreshPage
<1> QED
  BY <1>1, <1>2, <1>3 DEF PinnedInv

LEMMA PinnedStep == TypeOK /\ PinnedInv /\ [Next]_vars => PinnedInv'
<1> SUFFICES ASSUME TypeOK, PinnedInv, [Next]_vars PROVE PinnedInv'
  OBVIOUS
<1> USE NoneAssumption, NameOfAssumption, AliasOfAssumption
        DEF TypeOK, Results, StoredValues, Tags, InProgress, Shows, Pending,
            Broken, Idle, Request, Asked, AskedAlias, Done, Reload, Triggered,
            display, retrying, history, PinnedInv, MountedInv, Mislabelled
<1>1. CASE UNCHANGED vars
  BY <1>1 DEF vars, display, retrying, history
<1>2. ASSUME NEW r \in Reloads, Answer(r) PROVE PinnedInv'
  <2>1. CASE NotModified(r)
    BY <2>1 DEF NotModified, AnsweredBy
  <2>2. ASSUME NEW ver \in Versions, Fresh(r, ver) PROVE PinnedInv'
    BY <2>2 DEF Fresh, Accept, AnsweredBy
  <2>3. ASSUME NEW ver \in Versions, Stale(r, ver) PROVE PinnedInv'
    BY <2>3 DEF Stale, Accept, AnsweredBy
  <2>4. CASE Failed(r)
    BY <2>4 DEF Failed, AnsweredBy
  <2>5. CASE Offline(r)
    BY <2>5 DEF Offline, AnsweredBy
  <2>6. CASE NotFound(r)
    BY <2>6 DEF NotFound, AnsweredBy
  <2>7. CASE AliasMissing(r)
    BY <2>7 DEF AliasMissing
  <2>8. ASSUME NEW fetch \in BOOLEAN, AliasFound(r, fetch) PROVE PinnedInv'
    <3> DEFINE i == AliasOf[requests[r].id]
    <3>1. /\ i \in Ids /\ requests[r] # Idle
          /\ switched' = (switched \/ NameOf[i] # NameOf[at])
          /\ mixed' = (mixed \/ OfAnother(i))
      BY <2>8 DEF AliasFound, AskedAlias
    <3>2. ~switched' /\ ~mixed' => ~Mislabelled(Adopted(i))
      BY <3>1 DEF OfAnother, Adopted
    <3>3. Adopted(i) # None => Adopted(i).instance = i
      BY <3>1 DEF Adopted
    <3>4. CASE i = at
      BY <2>8, <3>1, <3>2, <3>4 DEF AliasFound
    <3>5. CASE i # at
      <4>1. Enter(view, i, Adopted(i), fetch, r) /\ view # None
        BY <2>8, <3>1, <3>5 DEF AliasFound
      <4> HIDE DEF i
      <4>2. MountedInv' /\ at' = i
        BY <2>8, <4>1 DEF Enter
      <4>3. ~switched' => \A q \in Reloads :
              requests'[q] # Idle => NameOf[requests'[q].id] = NameOf[i]
        BY <3>1, <4>1 DEF Enter
      <4>4. ~switched' /\ ~mixed' =>
              /\ result'.status = "success" => result'.of = NameOf[i]
              /\ ~Mislabelled(stored')
        BY <3>1, <3>2, <3>3, <4>1 DEF Enter
      <4> QED
        BY <4>2, <4>3, <4>4
    <3> QED
      BY <3>4, <3>5
  <2>9. CASE AliasFoundOnDomain(r)
    BY <2>9, PinnedFresh DEF AliasFoundOnDomain
  <2> QED
    BY <1>2, <2>1, <2>2, <2>3, <2>4, <2>5, <2>6, <2>7, <2>8, <2>9 DEF Answer
<1>3. ASSUME NEW v \in Views, NEW r \in Reloads, Retry(v, r) PROVE PinnedInv'
  BY <1>3 DEF Retry
<1>4. ASSUME NEW v \in Views, NEW r \in Reloads, RetryLeaked(v, r) PROVE PinnedInv'
  BY <1>4 DEF RetryLeaked
<1>5. ASSUME NEW v \in Views, NEW r \in Reloads, NEW fetch \in BOOLEAN,
             Mount(v, fetch, r)
      PROVE  PinnedInv'
  BY <1>5 DEF Mount, Enter, CancelRetry, Pending
<1>6. ASSUME NEW i \in Ids, NEW r \in Reloads, NEW fetch \in BOOLEAN,
             Switch(i, fetch, r)
      PROVE  PinnedInv'
  BY <1>6 DEF Switch, Enter, CancelRetry, Pending
<1>7. ASSUME NEW v \in Views, NEW r \in Reloads, Trigger(v, r) PROVE PinnedInv'
  BY <1>7 DEF Trigger, CancelRetry
<1>8. CASE ReloadPage
  BY <1>8, PinnedFresh DEF ReloadPage
<1>9. ASSUME NEW s \in Outside \cup {None}, OtherTab(s) PROVE PinnedInv'
  BY <1>9 DEF OtherTab
<1> QED
  BY <1>1, <1>2, <1>3, <1>4, <1>5, <1>6, <1>7, <1>8, <1>9
     DEF Next, Timer, User, Elsewhere

LEMMA PinnedInvariant == Spec => [](TypeOK /\ PinnedInv)
<1>1. PinnedInv => MountedInv
  BY DEF PinnedInv
<1> QED
  BY <1>1, TypeInit, TypeStep, PinnedInit, PinnedStep, PTL DEF Spec

\* The displayed result, the stored value, every reload in progress and every
\* counter keep their types; in particular no view counts more retries than
\* MAX_RETRIES, whatever reloads overlap.
THEOREM TypeCorrect == Spec => []TypeOK
  BY PinnedInvariant, PTL

\* A page that stays with one environment never shows another's data and never
\* stores any under its own ID, however its IDs are renamed and its reloads
\* overlap and whatever other tabs store, unless an entry under a wrong ID has
\* been in localStorage since it last got data itself.
THEOREM OwnDataOnly == Spec => []PinnedTabShowsItsEnv
<1>1. PinnedInv => PinnedTabShowsItsEnv
  BY DEF PinnedInv, PinnedTabShowsItsEnv
<1> QED
  BY <1>1, PinnedInvariant, PTL

-----------------------------------------------------------------------------
(* Retries.  A view whose last answer was stale either has used its retries  *)
(* up, or has a timer pending, or has asked again: that is what every reload *)
(* has to keep for the others, and it is inductive on its own.               *)

Awaited(v) ==
    \E r \in Reloads :
      requests[r] # Idle /\ requests[r].phase = "data" /\ requests[r].view = v

FollowedUp(v) ==
    \/ retryCount[v] = MaxRetries
    \/ tracked[v]
    \/ leaked[v] > 0
    \/ Awaited(v)

RetryInv == staleView # None => FollowedUp(staleView)

\* No answer has come in yet.
LEMMA RetryInit == Init => RetryInv
BY DEF Init, RetryInv

\* An answer to one view's reload leaves the other views' reloads alone.
LEMMA OthersStillWait ==
    ASSUME TypeOK, NEW r \in Reloads, NEW v \in Views,
           requests[r] # Idle => requests[r].phase = "alias" \/ requests[r].view # v,
           NEW x, requests' = [requests EXCEPT ![r] = x],
           Awaited(v)
    PROVE  Awaited(v)'
BY DEF TypeOK, Awaited

\* An answer that is not stale clears its own view's mark; a timer that fires
\* turns into a reload.
LEMMA RetryStep == TypeOK /\ RetryInv /\ [Next]_vars => RetryInv'
<1> SUFFICES ASSUME TypeOK, RetryInv, [Next]_vars, staleView' # None
             PROVE  FollowedUp(staleView)'
  BY DEF RetryInv
<1> USE NoneAssumption, BoundsAssumption DEF TypeOK, FollowedUp, RetryInv
<1>1. CASE UNCHANGED vars
  BY <1>1 DEF vars, display, retrying, history, Awaited
<1>2. ASSUME NEW r \in Reloads, Answer(r) PROVE FollowedUp(staleView)'
  <2>1. CASE NotModified(r)
    BY <2>1, OthersStillWait DEF NotModified, AnsweredBy, Done, Asked, InProgress
  <2>2. ASSUME NEW ver \in Versions, Fresh(r, ver) PROVE FollowedUp(staleView)'
    BY <2>2, OthersStillWait DEF Fresh, Accept, AnsweredBy, Done, Asked, InProgress
  <2>3. ASSUME NEW ver \in Versions, Stale(r, ver) PROVE FollowedUp(staleView)'
    BY <2>3 DEF Stale, Accept, AnsweredBy, Done, Asked, InProgress, retrying
  <2>4. CASE Failed(r)
    BY <2>4, OthersStillWait DEF Failed, AnsweredBy, Done, Asked, InProgress, retrying
  <2>5. CASE Offline(r)
    BY <2>5, OthersStillWait DEF Offline, AnsweredBy, Done, InProgress, retrying
  <2>6. CASE NotFound(r)
    <3>1. PICK x : requests' = [requests EXCEPT ![r] = x]
      BY <2>6 DEF NotFound
    <3>2. staleView' = staleView /\ requests[r].view # staleView
      BY <2>6 DEF NotFound, AnsweredBy, Asked, InProgress
    <3>3. UNCHANGED retrying
      BY <2>6 DEF NotFound
    <3> QED
      BY <3>1, <3>2, <3>3, OthersStillWait DEF retrying
  <2>7. CASE AliasMissing(r)
    BY <2>7, OthersStillWait DEF AliasMissing, AskedAlias, Done, retrying, history
  <2>8. ASSUME NEW fetch \in BOOLEAN, AliasFound(r, fetch) PROVE FollowedUp(staleView)'
    BY <2>8, OthersStillWait DEF AliasFound, AskedAlias, Enter, Done, CancelRetry, retrying
  <2>9. CASE AliasFoundOnDomain(r)
    BY <2>9 DEF AliasFoundOnDomain, FreshPage
  <2> QED
    BY <1>2, <2>1, <2>2, <2>3, <2>4, <2>5, <2>6, <2>7, <2>8, <2>9 DEF Answer
<1>3. ASSUME NEW v \in Views, NEW r \in Reloads,
             Retry(v, r) \/ RetryLeaked(v, r) \/ Trigger(v, r)
      PROVE  FollowedUp(staleView)'
  <2>1. requests[r] = Idle /\ Awaited(v)' /\ staleView' = staleView
    BY <1>3 DEF Retry, RetryLeaked, Trigger, Reload, Request, Idle, Awaited, history
  <2>2. CASE staleView = v
    BY <2>1, <2>2
  <2>3. CASE staleView # v
    BY <1>3, <2>1, <2>3, OthersStillWait
       DEF Retry, RetryLeaked, Trigger, Reload, CancelRetry, retrying
  <2> QED
    BY <2>2, <2>3
<1>4. ASSUME NEW v \in Views, NEW r \in Reloads, NEW fetch \in BOOLEAN,
             Mount(v, fetch, r)
      PROVE  FollowedUp(staleView)'
  BY <1>4, OthersStillWait DEF Mount, Enter, CancelRetry
<1>5. ASSUME NEW i \in Ids, NEW r \in Reloads, NEW fetch \in BOOLEAN,
             Switch(i, fetch, r)
      PROVE  FollowedUp(staleView)'
  BY <1>5, OthersStillWait DEF Switch, Enter, CancelRetry
<1>6. CASE ReloadPage
  BY <1>6 DEF ReloadPage, FreshPage
<1>7. ASSUME NEW s \in Outside \cup {None}, OtherTab(s) PROVE FollowedUp(staleView)'
  BY <1>7 DEF OtherTab, retrying, Awaited
<1> QED
  BY <1>1, <1>2, <1>3, <1>4, <1>5, <1>6, <1>7 DEF Next, Timer, User, Elsewhere

\* After a stale answer, a view that has not used its retries up has one
\* pending or on its way, whatever other views and reloads do to the timers
\* they share.
THEOREM StaleAnswersAreFollowedUp == Spec => []StaleAnswerRetried
<1>1. RetryInv => StaleAnswerRetried
  BY DEF RetryInv, FollowedUp, Awaited, StaleAnswerRetried, InFlight
<1> QED
  BY <1>1, TypeCorrect, RetryInit, RetryStep, PTL DEF Spec

=============================================================================
