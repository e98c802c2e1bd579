------------------------- MODULE AnnouncementsProofs -------------------------
(* For any number of browsers, endpoints, IDs and announcements: no flag     *)
(* outlives its subscription, and no fan-out forgets anyone.                 *)
EXTENDS Announcements, TLAPS

USE MaxEndpointsAssumption

LEMMA TypeInit == Init => TypeOK
<1> SUFFICES ASSUME Init PROVE TypeOK
  OBVIOUS
<1>1. latest \in [Browsers -> 0..MaxEndpoints]
  BY DEF Init
<1>2. posting \in [Browsers -> Post \cup {None}]
  BY DEF Init
<1>3. /\ stage \in [Announcements -> Stages]
      /\ todo \in [Announcements -> SUBSET Endpoints]
      /\ audience \in [Announcements -> SUBSET Endpoints]
  BY DEF Init, Stages
<1> QED
  BY <1>1, <1>2, <1>3 DEF Init, TypeOK

LEMMA GotoType ==
    ASSUME TypeOK, NEW n \in Announcements, NEW s \in Stages, Goto(n, s)
    PROVE  stage' \in [Announcements -> Stages]
BY DEF Goto, TypeOK

LEMMA TypeStep == TypeOK /\ [Next]_vars => TypeOK'
<1> SUFFICES ASSUME TypeOK, [Next]_vars PROVE TypeOK'
  OBVIOUS
<1> USE DEF TypeOK, setup, browser, fanOut, Endpoints, Post
<1>1. CASE UNCHANGED vars
  BY <1>1 DEF vars
<1>2. ASSUME NEW i \in Ids, PutLink(i) PROVE TypeOK'
  BY <1>2 DEF PutLink
<1>3. CASE InstallHook
  BY <1>3 DEF InstallHook
<1>4. ASSUME NEW b \in Browsers, BrowserStep(b) PROVE TypeOK'
  <2>1. ASSUME NEW i \in Pages, Subscribe(b, i) PROVE TypeOK'
    <3>1. /\ latest' \in [Browsers -> 0..MaxEndpoints]
          /\ latest'[b] \in 1..MaxEndpoints
          /\ \A c \in Browsers \ {b} : latest'[c] = latest[c]
      BY <2>1 DEF Subscribe
    <3>2. posting' \in [Browsers -> Post \cup {None}]
      <4>1. [id |-> i, to |-> <<b, latest'[b]>>, probe |-> FALSE] \in Post
        BY <3>1
      <4> QED
        BY <2>1, <4>1 DEF Subscribe
    <3>3. live' \subseteq {c \in Browsers : latest'[c] > 0}
      BY <2>1, <3>1 DEF Subscribe
    <3> QED
      BY <2>1, <3>1, <3>2, <3>3 DEF Subscribe
  <2>2. ASSUME NEW i \in Ids, Probe(b, i) PROVE TypeOK'
    <3>1. [id |-> i, to |-> Endpoint(b), probe |-> TRUE] \in Post
      BY <2>2 DEF Probe, Endpoint, Pages
    <3> QED
      BY <2>2, <3>1 DEF Probe
  <2>3. ASSUME NEW i \in Pages, Posted(b, i) \/ PostedElsewhere(b, i)
        PROVE  TypeOK'
    <3>1. posting[b] \in Post
      BY <2>3 DEF Posted, PostedElsewhere
    <3>2. FlagOf(b, i) \subseteq Ids \X Endpoints
      BY DEF FlagOf
    <3>3. flags' \subseteq Ids \X Endpoints /\ misfiled' \subseteq flags'
      BY <2>3, <3>2 DEF Posted, PostedElsewhere
    <3> QED
      BY <2>3, <3>1, <3>3 DEF Posted, PostedElsewhere, Answered
  <2>4. CASE PostRefused(b)
    BY <2>4 DEF PostRefused, Answered
  <2>5. CASE PostedUnheard(b)
    <3>1. posting[b] \in Post
      BY <2>5 DEF PostedUnheard
    <3> QED
      BY <2>5, <3>1 DEF PostedUnheard, Answered
  <2>6. CASE Expire(b)
    BY <2>6 DEF Expire
  <2> QED
    BY <1>4, <2>1, <2>2, <2>3, <2>4, <2>5, <2>6 DEF BrowserStep
<1>5. ASSUME NEW n \in Announcements, Announce(n) PROVE TypeOK'
  <2>1. stage' \in [Announcements -> Stages]
    BY <1>5, GotoType DEF Announce, Stages
  <2> QED
    BY <1>5, <2>1 DEF Announce
<1>6. ASSUME NEW n \in Announcements, Delivery(n) PROVE TypeOK'
  <2>1. CASE Route(n)
    <3>1. stage' \in [Announcements -> Stages]
      BY <2>1, GotoType DEF Route, Stages
    <3> QED
      BY <2>1, <3>1 DEF Route
  <2>2. CASE Refresh(n)
    <3>1. stage' \in [Announcements -> Stages]
      BY <2>2, GotoType DEF Refresh, Stages
    <3> QED
      BY <2>2, <3>1 DEF Refresh
  <2>3. CASE List(n)
    <3>1. stage' \in [Announcements -> Stages]
      BY <2>3, GotoType DEF List, Stages
    <3> QED
      BY <2>3, <3>1 DEF List
  <2>4. CASE CallFails(n)
    <3>1. stage' \in [Announcements -> Stages]
      BY <2>4, GotoType DEF CallFails, Stages
    <3> QED
      BY <2>4, <3>1 DEF CallFails
  <2>5. ASSUME NEW e \in Endpoints, Deliver(n, e) PROVE TypeOK'
    BY <2>5 DEF Deliver
  <2>6. ASSUME NEW e \in Endpoints, Refuse(n, e) PROVE TypeOK'
    BY <2>6 DEF Refuse
  <2>7. ASSUME NEW e \in Endpoints, Evict(n, e) PROVE TypeOK'
    BY <2>7 DEF Evict
  <2>8. ASSUME NEW e \in Endpoints, EvictFails(n, e) PROVE TypeOK'
    <3>1. stage' \in [Announcements -> Stages]
      BY <2>8, GotoType DEF EvictFails, Stages
    <3> QED
      BY <2>8, <3>1 DEF EvictFails
  <2>9. CASE Finish(n)
    <3>1. stage' \in [Announcements -> Stages]
      BY <2>9, GotoType DEF Finish, Stages
    <3> QED
      BY <2>9, <3>1 DEF Finish
  <2> QED
    BY <1>6, <2>1, <2>2, <2>3, <2>4, <2>5, <2>6, <2>7, <2>8, <2>9 DEF Delivery
<1> QED
  BY <1>1, <1>2, <1>3, <1>4, <1>5, <1>6 DEF Next

\* Every state of the subscriptions and the deliveries is well typed; in
\* particular a fan-out only ever has real endpoints left to come to.
THEOREM TypeCorrect == Spec => []TypeOK
BY TypeInit, TypeStep, PTL DEF Spec

-----------------------------------------------------------------------------
(* An endpoint that is gone is gone for good.                                *)

Known(e) == e[2] <= latest[e[1]]

\* What is in KV, flagged, on its way or in an audience has been given out.
KnownInv ==
    /\ \A e \in subs : Known(e)
    /\ \A f \in flags : Known(f[2])
    /\ \A b \in Browsers : posting[b] # None => Known(posting[b].to)
    /\ \A n \in Announcements : \A e \in audience[n] : Known(e)

LEMMA LatestStep ==
    ASSUME TypeOK, [Next]_vars
    PROVE  /\ \A e \in Endpoints : Known(e) => Known(e)'
           /\ \A e \in Endpoints : Known(e) /\ Alive(e)' => Alive(e)
<1> USE DEF Known, Alive, Endpoints
<1>1. CASE UNCHANGED <<latest, live>>
  BY <1>1
<1>2. ASSUME NEW b \in Browsers, NEW i \in Pages, Subscribe(b, i)
      PROVE  /\ \A e \in Endpoints : Known(e) => Known(e)'
             /\ \A e \in Endpoints : Known(e) /\ Alive(e)' => Alive(e)
  BY <1>2 DEF Subscribe, TypeOK
<1>3. ASSUME NEW b \in Browsers, Expire(b)
      PROVE  /\ \A e \in Endpoints : Known(e) => Known(e)'
             /\ \A e \in Endpoints : Known(e) /\ Alive(e)' => Alive(e)
  BY <1>3 DEF Expire
<1>4. \/ UNCHANGED <<latest, live>>
      \/ \E b \in Browsers : Expire(b) \/ \E i \in Pages : Subscribe(b, i)
  BY DEF Next, BrowserStep, Delivery, vars, setup, browser, fanOut, PutLink,
         InstallHook, Probe, Posted, PostedElsewhere, PostRefused, PostedUnheard, Announce,
         Route, Refresh, List, CallFails, Deliver, Refuse, Evict, EvictFails,
         Finish
<1> QED
  BY <1>1, <1>2, <1>3, <1>4

LEMMA KnownStep == TypeOK /\ KnownInv /\ [Next]_vars => KnownInv'
<1> SUFFICES ASSUME TypeOK, KnownInv, [Next]_vars PROVE KnownInv'
  OBVIOUS
<1>1. \A e \in Endpoints : Known(e) => Known(e)'
  BY LatestStep
<1>2. \A b \in Browsers : posting[b] # None => posting[b].to \in Endpoints
  BY DEF TypeOK, Post
<1>3. \A e \in subs' : e \in subs \/ \E b \in Browsers :
                                         posting[b] # None /\ e = posting[b].to
  BY DEF Next, BrowserStep, Delivery, vars, setup, browser, fanOut, PutLink,
         InstallHook, Subscribe, Probe, Posted, PostedElsewhere, PostRefused, PostedUnheard,
         Expire, Announce, Route, Refresh, List, CallFails, Deliver, Refuse,
         Evict, EvictFails, Finish
<1>4. \A f \in flags' : f \in flags \/ \E b \in Browsers :
                                  posting[b] # None /\ f[2] = posting[b].to
  <2>1. CASE UNCHANGED flags
    BY <2>1
  <2>2. ASSUME NEW b \in Browsers, NEW i \in Pages,
               Posted(b, i) \/ PostedElsewhere(b, i)
        PROVE  \A f \in flags' :
                   \/ f \in flags
                   \/ posting[b] # None /\ f[2] = posting[b].to
    <3>1. posting[b] # None /\ flags' = flags \cup FlagOf(b, i)
      BY <2>2 DEF Posted, PostedElsewhere
    <3> QED
      BY <3>1 DEF FlagOf
  <2>3. \/ UNCHANGED flags
        \/ \E b \in Browsers, i \in Pages : Posted(b, i) \/ PostedElsewhere(b, i)
    BY DEF Next, BrowserStep, Delivery, vars, setup, browser, fanOut, PutLink,
           InstallHook, Subscribe, Probe, PostRefused, PostedUnheard, Expire,
           Announce, Route, Refresh, List, CallFails, Deliver, Refuse, Evict,
           EvictFails, Finish
  <2> QED
    BY <2>1, <2>2, <2>3
<1>5. \A b \in Browsers : posting'[b] # None =>
          posting'[b] = posting[b] \/ Known(posting[b].to)'
  <2>1. CASE UNCHANGED posting
    BY <2>1
  <2>2. ASSUME NEW c \in Browsers, NEW i \in Pages, Subscribe(c, i) \/ Probe(c, i)
        PROVE  \A b \in Browsers : posting'[b] # None =>
                   posting'[b] = posting[b] \/ Known(posting[b].to)'
    <3>1. /\ Known(posting[c].to)'
          /\ \A b \in Browsers \ {c} : posting'[b] = posting[b]
      BY <2>2 DEF Subscribe, Probe, Known, Endpoint, TypeOK
    <3> QED
      BY <3>1
  <2>3. ASSUME NEW c \in Browsers, posting' = [posting EXCEPT ![c] = None]
        PROVE  \A b \in Browsers : posting'[b] # None => posting'[b] = posting[b]
    BY <2>3 DEF TypeOK
  <2>4. \/ UNCHANGED posting
        \/ \E c \in Browsers, i \in Pages : Subscribe(c, i) \/ Probe(c, i)
        \/ \E c \in Browsers : posting' = [posting EXCEPT ![c] = None]
    BY DEF Next, BrowserStep, Delivery, vars, setup, browser, fanOut, PutLink,
           InstallHook, Posted, PostedElsewhere, PostRefused, PostedUnheard, Expire, Announce,
           Route, Refresh, List, CallFails, Deliver, Refuse, Evict, EvictFails,
           Finish, Answered, Pages
  <2> QED
    BY <2>1, <2>2, <2>3, <2>4
<1>6. \A n \in Announcements : audience'[n] \subseteq audience[n] \cup subs
  BY DEF Next, BrowserStep, Delivery, vars, setup, browser, fanOut, PutLink,
         InstallHook, Subscribe, Probe, Posted, PostedElsewhere, PostRefused, PostedUnheard,
         Expire, Announce, Route, Refresh, List, CallFails, Deliver, Refuse,
         Evict, EvictFails, Finish, TypeOK
<1>7. \A e \in subs' : Known(e)'
  BY <1>1, <1>2, <1>3 DEF TypeOK, KnownInv
<1>8. \A f \in flags' : Known(f[2])'
  BY <1>1, <1>2, <1>4 DEF TypeOK, KnownInv
<1>9. \A b \in Browsers : posting'[b] # None => Known(posting[b].to)'
  BY <1>1, <1>2, <1>5 DEF KnownInv
<1>10. \A n \in Announcements : \A e \in audience'[n] : Known(e)'
  <2> SUFFICES ASSUME NEW n \in Announcements, NEW e \in audience'[n]
               PROVE  Known(e)'
    OBVIOUS
  <2>1. e \in audience[n] \cup subs
    BY <1>6
  <2> QED
    BY <1>1, <2>1 DEF TypeOK, KnownInv
<1> QED
  BY <1>7, <1>8, <1>9, <1>10 DEF KnownInv

-----------------------------------------------------------------------------

\* A subscription leaves KV only when it is dead.
LEMMA SubsStep ==
    ASSUME TypeOK, [Next]_vars
    PROVE  \A e \in subs \ subs' : ~Alive(e)
BY DEF Next, BrowserStep, Delivery, vars, setup, browser, fanOut, PutLink,
       InstallHook, Subscribe, Probe, Posted, PostedElsewhere, PostRefused, PostedUnheard,
       Expire, Announce, Route, Refresh, List, CallFails, Deliver, Refuse,
       Evict, EvictFails, Finish

\* A flag that becomes one to rely on is set by the answer to a POST here.
LEMMA FlagsStep ==
    ASSUME [Next]_vars, NEW f \in flags' \ misfiled', f \notin flags \ misfiled
    PROVE  f[2] \in subs'
<1>1. CASE UNCHANGED <<flags, misfiled>>
  BY <1>1
<1>2. ASSUME NEW b \in Browsers, NEW i \in Pages, Posted(b, i)
      PROVE  f[2] \in subs'
  <2>1. f \in FlagOf(b, i) /\ posting[b].to \in subs'
    BY <1>2 DEF Posted
  <2> QED
    BY <2>1 DEF FlagOf
<1>3. ASSUME NEW b \in Browsers, NEW i \in Pages, PostedElsewhere(b, i)
      PROVE  FALSE
  BY <1>3 DEF PostedElsewhere
<1>4. \/ UNCHANGED <<flags, misfiled>>
      \/ \E b \in Browsers, i \in Pages : Posted(b, i) \/ PostedElsewhere(b, i)
  BY DEF Next, BrowserStep, Delivery, vars, setup, browser, fanOut, PutLink,
         InstallHook, Subscribe, Probe, PostRefused, PostedUnheard, Expire,
         Announce, Route, Refresh, List, CallFails, Deliver, Refuse, Evict,
         EvictFails, Finish
<1> QED
  BY <1>1, <1>2, <1>3, <1>4

LEMMA FlagStep ==
    TypeOK /\ KnownInv /\ FlagMeansStored /\ [Next]_vars => FlagMeansStored'
<1> SUFFICES ASSUME TypeOK, KnownInv, FlagMeansStored, [Next]_vars,
                    NEW f \in flags' \ misfiled', Alive(f[2])'
             PROVE  f[2] \in subs'
  BY DEF FlagMeansStored
<1>1. CASE f \in flags \ misfiled
  <2>1. f[2] \in Endpoints /\ Known(f[2])
    BY <1>1 DEF TypeOK, KnownInv
  <2>2. Alive(f[2])
    BY <2>1, LatestStep
  <2>3. f[2] \in subs
    BY <1>1, <2>2 DEF FlagMeansStored
  <2> QED
    BY <2>2, <2>3, SubsStep
<1>2. CASE f \notin flags \ misfiled
  BY <1>2, FlagsStep
<1> QED
  BY <1>1, <1>2

LEMMA KnownInit == Init => KnownInv /\ FlagMeansStored
BY DEF Init, KnownInv, FlagMeansStored

\* However posts, lost answers, renewals and evictions interleave and wherever
\* the attendee goes meanwhile, a browser that thinks the server knows its
\* living subscription is right, unless another environment told it so.
THEOREM FlagsAreTrue == Spec => []FlagMeansStored
<1>1. TypeOK /\ KnownInv /\ FlagMeansStored /\ [Next]_vars
        => (TypeOK /\ KnownInv /\ FlagMeansStored)'
  BY TypeStep, KnownStep, FlagStep
<1> QED
  BY <1>1, TypeInit, KnownInit, PTL DEF Spec

-----------------------------------------------------------------------------

\* Where someone in the audience is, as long as their endpoint is alive: in KV
\* until the fan-out has listed the keys, then among those it has to come to,
\* then among those it has come to.
Reaches(n, e) ==
    /\ stage[n] \in {"called", "refresh", "list"} => e \in subs
    /\ stage[n] = "send" => e \in todo[n] \/ <<n, e>> \in got \cup refused
    /\ stage[n] = "done" => <<n, e>> \in got \cup refused

FanOutInv ==
    \A n \in Announcements : \A e \in audience[n] : Alive(e) => Reaches(n, e)

\* Only an announcement's own delivery touches its stage, what it has to do
\* and whom it has come to.
LEMMA OwnDelivery ==
    ASSUME TypeOK, NEW n \in Announcements,
           NEW m \in Announcements \ {n}, Announce(m) \/ Delivery(m)
    PROVE  /\ stage'[n] = stage[n]
           /\ todo'[n] = todo[n]
           /\ audience'[n] = audience[n]
           /\ got \cup refused \subseteq got' \cup refused'
BY DEF TypeOK, Delivery, Announce, Route, Refresh, List, CallFails, Deliver,
       Refuse, Evict, EvictFails, Finish, Goto

LEMMA OwnStep ==
    ASSUME TypeOK, NEW n \in Announcements, NEW e \in audience'[n],
           Announce(n) \/ Delivery(n), Alive(e),
           Announce(n) \/ Reaches(n, e)
    PROVE  Reaches(n, e)'
<1> USE DEF TypeOK, Reaches, Stages
<1>1. CASE Announce(n)
  BY <1>1 DEF Announce, Goto
<1>2. CASE Delivery(n)
  <2>0. e \in audience[n] /\ Reaches(n, e)
    BY <1>2 DEF Delivery, Announce, Route, Refresh, List, CallFails, Deliver,
                Refuse, Evict, EvictFails, Finish
  <2>1. CASE Route(n)
    BY <2>0, <2>1 DEF Route, Goto
  <2>2. CASE Refresh(n)
    BY <2>0, <2>2 DEF Refresh, Goto
  <2>3. CASE List(n)
    BY <2>0, <2>3 DEF List, Goto
  <2>4. CASE CallFails(n)
    BY <2>0, <2>4 DEF CallFails, Goto
  <2>5. ASSUME NEW d \in Endpoints, Deliver(n, d) \/ Refuse(n, d)
        PROVE  Reaches(n, e)'
    BY <2>0, <2>5 DEF Deliver, Refuse
  <2>6. ASSUME NEW d \in Endpoints, Evict(n, d)
        PROVE  Reaches(n, e)'
    BY <2>0, <2>6 DEF Evict
  <2>7. ASSUME NEW d \in Endpoints, EvictFails(n, d)
        PROVE  Reaches(n, e)'
    BY <2>0, <2>7 DEF EvictFails, Goto
  <2>8. CASE Finish(n)
    BY <2>0, <2>8 DEF Finish, Goto
  <2> QED
    BY <1>2, <2>1, <2>2, <2>3, <2>4, <2>5, <2>6, <2>7, <2>8 DEF Delivery
<1> QED
  BY <1>1, <1>2

LEMMA FanOutStep ==
    TypeOK /\ KnownInv /\ FanOutInv /\ [Next]_vars => FanOutInv'
<1> SUFFICES ASSUME TypeOK, KnownInv, FanOutInv, [Next]_vars,
                    NEW n \in Announcements, NEW e \in audience'[n], Alive(e)'
             PROVE  Reaches(n, e)'
  BY DEF FanOutInv
<1>1. ASSUME e \in audience[n]
      PROVE  Alive(e) /\ Reaches(n, e) /\ (e \in subs => e \in subs')
  <2>1. e \in Endpoints /\ Known(e)
    BY <1>1 DEF TypeOK, KnownInv
  <2>2. Alive(e)
    BY <2>1, LatestStep
  <2> QED
    BY <1>1, <2>2, SubsStep DEF FanOutInv
<1>2. CASE Announce(n)
  <2>1. Alive(e)
    BY <1>2 DEF Announce, Alive, browser
  <2> QED
    BY <1>2, <2>1, OwnStep
<1>3. CASE Delivery(n)
  <2>1. e \in audience[n]
    BY <1>3 DEF Delivery, Route, Refresh, List, CallFails, Deliver, Refuse,
                Evict, EvictFails, Finish
  <2> QED
    BY <1>1, <1>3, <2>1, OwnStep
<1>4. ASSUME NEW m \in Announcements \ {n}, Announce(m) \/ Delivery(m)
      PROVE  Reaches(n, e)'
  BY <1>1, <1>4, OwnDelivery DEF Reaches
<1>5. CASE UNCHANGED fanOut
  BY <1>1, <1>5 DEF Reaches, fanOut
<1> QED
  BY <1>2, <1>3, <1>4, <1>5
  DEF Next, BrowserStep, vars, PutLink, InstallHook, Subscribe, Probe, Posted,
      PostedElsewhere, PostRefused, PostedUnheard, Expire

LEMMA FanOutInit == Init => FanOutInv
BY DEF Init, FanOutInv

\* A fan-out that ended as planned has not passed over anyone who was in KV at
\* the announcement, for any number of fan-outs and subscriptions at a time.
THEOREM NobodyPassedOver == Spec => []FanOutComplete
<1>1. TypeOK /\ KnownInv /\ FanOutInv /\ [Next]_vars
        => (TypeOK /\ KnownInv /\ FanOutInv)'
  BY TypeStep, KnownStep, FanOutStep
<1>2. FanOutInv => FanOutComplete
  BY DEF FanOutInv, FanOutComplete, Reaches
<1> QED
  BY <1>1, <1>2, TypeInit, KnownInit, FanOutInit, PTL DEF Spec

=============================================================================
