---------------------------- MODULE Announcements ----------------------------
(***************************************************************************)
(* How an announcement reaches the attendees who opted in to push messages,*)
(* in one environment: the NocoDB webhook that migration n5 installs, its  *)
(* handler (post_announcement_created), the fan-out over the subscriptions *)
(* in KV (push_notifications), and how browsers put their subscriptions    *)
(* there (usePushNotifications.ts).                                        *)
(*                                                                         *)
(* Every attendee is a browser, which has one push subscription at a time; *)
(* when it is lost or renewed, its endpoint is gone for good.  It may also *)
(* go to the app of another environment, in place, whose subscriptions are *)
(* kept apart from this one's.  The webhook names the environment by the   *)
(* ID it had when the base was migrated.                                   *)
(***************************************************************************)
EXTENDS Naturals, FiniteSets

CONSTANTS
    Ids,            \* IDs the environment may be given
    OtherIds,       \* IDs of other environments
    Browsers,
    Announcements,
    MaxEndpoints,   \* bound: endpoints a browser gets
    Faults,         \* which calls may fail
    None

\* "call": one to KV, NocoDB or Cloudflare.  "send": the push service does not
\* take a message for a live endpoint.  "evict": KV does not delete.
ASSUME FaultsAssumption == Faults \subseteq {"call", "send", "evict"}
ASSUME MaxEndpointsAssumption == MaxEndpoints \in Nat
ASSUME IdsAssumption == Ids \cap OtherIds = {} /\ None \notin Ids \cup OtherIds

Pages == Ids \cup OtherIds

Endpoints == Browsers \X (1..MaxEndpoints)

VARIABLES
    envId,       \* env:{env}:id
    hook,        \* the ID in the installed webhook's URL
    migrated,    \* whether the recorded version includes n5
    subs,        \* the subscriptions in KV, which are keyed by endpoint
    latest,      \* the number of a browser's latest endpoint
    live,        \* browsers whose latest endpoint is their subscription
    flags,       \* localStorage: subscription:{envId}:{endpoint}, for Ids
    posting,     \* the POST a browser is waiting for
    stage,       \* where the delivery of an announcement is
    todo,        \* the endpoints its fan-out has not come to yet
    got,         \* which endpoints got which announcement
    misfiled,    \* history: flags set by the answer of another environment
    audience,    \* history: live subscriptions in KV at the announcement
    refused      \* history: messages the push service did not take

setup   == <<envId, hook, migrated>>
browser == <<latest, live, flags, posting, misfiled>>
fanOut  == <<stage, todo, got, audience, refused>>
vars    == <<setup, subs, browser, fanOut>>

\* probe: whether the probe on mount sent it, or requestAndSubscribe.
Post == [id : Pages, to : Endpoints, probe : BOOLEAN]

Stages == {"none", "called", "refresh", "list", "send",
           "done", "unrouted", "failed"}

TypeOK ==
    /\ envId \in Ids \cup {None}
    /\ hook \in Ids \cup {None}
    /\ migrated \in BOOLEAN
    /\ subs \subseteq Endpoints
    /\ latest \in [Browsers -> 0..MaxEndpoints]
    /\ live \subseteq {b \in Browsers : latest[b] > 0}
    /\ flags \subseteq Ids \X Endpoints
    /\ misfiled \subseteq flags
    /\ posting \in [Browsers -> Post \cup {None}]
    /\ stage \in [Announcements -> Stages]
    /\ todo \in [Announcements -> SUBSET Endpoints]
    /\ got \subseteq Announcements \X Endpoints
    /\ audience \in [Announcements -> SUBSET Endpoints]
    /\ refused \subseteq Announcements \X Endpoints

Init ==
    /\ envId = None
    /\ hook = None
    /\ migrated = FALSE
    /\ subs = {}
    /\ latest = [b \in Browsers |-> 0]
    /\ live = {}
    /\ flags = {}
    /\ misfiled = {}
    /\ posting = [b \in Browsers |-> None]
    /\ stage = [n \in Announcements |-> "none"]
    /\ todo = [n \in Announcements |-> {}]
    /\ got = {}
    /\ audience = [n \in Announcements |-> {}]
    /\ refused = {}

-----------------------------------------------------------------------------
(* The organisers' side.                                                   *)

PutLink(i) ==
    /\ i # envId
    /\ envId' = i
    /\ UNCHANGED <<hook, migrated, subs, browser, fanOut>>

\* Migration n5 as part of post_base or of a later post_apply_migration.  It
\* counts as done even if there was no ID to put into the webhook.
InstallHook ==
    /\ ~migrated
    /\ migrated' = TRUE
    /\ hook' = envId
    /\ UNCHANGED <<envId, subs, browser, fanOut>>

-----------------------------------------------------------------------------
(* A browser.                                                              *)

Endpoint(b) == <<b, latest[b]>>

Alive(e) == e[1] \in live /\ e[2] = latest[e[1]]

\* The attendee goes from one app to another at any time, so the page a step
\* finds its browser at (useEnvId) is a parameter of the step.

\* Variant: every call gets an endpoint of its own.
SubscribeAnew(b, i) ==
    /\ posting[b] = None
    /\ b \in live \/ latest[b] < MaxEndpoints
    /\ latest' = [latest EXCEPT ![b] = @ + 1]
    /\ live' = live \cup {b}
    /\ posting' = [posting EXCEPT ![b] =
                     [id |-> i, to |-> <<b, latest'[b]>>, probe |-> FALSE]]
    /\ UNCHANGED <<setup, subs, flags, misfiled, fanOut>>

\* requestAndSubscribe at the app of ID i: keep the subscription or get one,
\* and post it.
Subscribe(b, i) ==
    /\ posting[b] = None
    /\ b \in live \/ latest[b] < MaxEndpoints
    /\ latest' = [latest EXCEPT ![b] = IF b \in live THEN @ ELSE @ + 1]
    /\ live' = live \cup {b}
    /\ posting' = [posting EXCEPT ![b] =
                     [id |-> i, to |-> <<b, latest'[b]>>, probe |-> FALSE]]
    /\ UNCHANGED <<setup, subs, flags, misfiled, fanOut>>

\* The probe on mount: post a subscription that is not flagged under this ID.
\* (At other environments it concerns those alone.)
Probe(b, i) ==
    /\ posting[b] = None
    /\ b \in live
    /\ <<i, Endpoint(b)>> \notin flags
    /\ posting' = [posting EXCEPT ![b] =
                     [id |-> i, to |-> Endpoint(b), probe |-> TRUE]]
    /\ UNCHANGED <<setup, subs, latest, live, flags, misfiled, fanOut>>

\* The probe has made the flag's key before the POST; requestAndSubscribe makes
\* it from the ID i of the page the browser is at when the answer comes.
FlagOf(b, i) ==
    {<<IF posting[b].probe THEN posting[b].id ELSE i, posting[b].to>>}
        \cap (Ids \X Endpoints)

Answered(b) == posting' = [posting EXCEPT ![b] = None]

\* post_subscription under the current ID, and its answer.
Posted(b, i) ==
    /\ posting[b] # None
    /\ posting[b].id = envId
    /\ subs' = subs \cup {posting[b].to}
    /\ flags' = flags \cup FlagOf(b, i)
    /\ misfiled' = misfiled \ FlagOf(b, i)
    /\ Answered(b)
    /\ UNCHANGED <<setup, latest, live, fanOut>>

\* The same at another environment, which keeps the subscription for itself.
PostedElsewhere(b, i) ==
    /\ posting[b] # None
    /\ posting[b].id \in OtherIds
    /\ flags' = flags \cup FlagOf(b, i)
    /\ misfiled' = misfiled \cup (FlagOf(b, i) \ flags)
    /\ Answered(b)
    /\ UNCHANGED <<setup, subs, latest, live, fanOut>>

\* NoEnvId under an ID that is not current, or a failed call.
PostRefused(b) ==
    /\ posting[b] # None
    /\ posting[b].id # envId \/ "call" \in Faults
    /\ Answered(b)
    /\ UNCHANGED <<setup, subs, latest, live, flags, misfiled, fanOut>>

\* Stored, but the answer is lost: no flag, so the next probe posts it again.
PostedUnheard(b) ==
    /\ "call" \in Faults
    /\ posting[b] # None
    /\ posting[b].id = envId
    /\ subs' = subs \cup {posting[b].to}
    /\ Answered(b)
    /\ UNCHANGED <<setup, latest, live, flags, misfiled, fanOut>>

\* The attendee revokes the permission or the browser drops the subscription.
Expire(b) ==
    /\ b \in live
    /\ live' = live \ {b}
    /\ UNCHANGED <<setup, subs, latest, flags, posting, misfiled, fanOut>>

-----------------------------------------------------------------------------
(* The announcement.                                                       *)

Goto(n, s) == stage' = [stage EXCEPT ![n] = s]

\* An organiser inserts a row; NocoDB calls the webhook, if there is one.  The
\* table is there since the run of migrations that ended with n5.
Announce(n) ==
    /\ migrated
    /\ stage[n] = "none"
    /\ audience' = [audience EXCEPT ![n] = {e \in subs : Alive(e)}]
    /\ Goto(n, IF hook = None THEN "unrouted" ELSE "called")
    /\ UNCHANGED <<setup, subs, browser, todo, got, refused>>

\* get_id_env: only the current ID leads to the environment.
Route(n) ==
    /\ stage[n] = "called"
    /\ Goto(n, IF hook = envId THEN "refresh" ELSE "unrouted")
    /\ UNCHANGED <<setup, subs, browser, todo, got, audience, refused>>

\* refresh_announcements_cache, whose Store looks the ID up once more.  The
\* tasks that follow are left to wait_until.
Refresh(n) ==
    /\ stage[n] = "refresh"
    /\ Goto(n, IF hook = envId THEN "list" ELSE "unrouted")
    /\ UNCHANGED <<setup, subs, browser, todo, got, audience, refused>>

\* Variant: one page of keys is taken for all of them.
ListOnePage(n) ==
    /\ stage[n] = "list"
    /\ Goto(n, "send")
    /\ \E page \in SUBSET subs :
         /\ page = {} <=> subs = {}
         /\ todo' = [todo EXCEPT ![n] = page]
    /\ UNCHANGED <<setup, subs, browser, got, audience, refused>>

\* list_subscriptions follows the cursor to the last page.
List(n) ==
    /\ stage[n] = "list"
    /\ Goto(n, "send")
    /\ todo' = [todo EXCEPT ![n] = subs]
    /\ UNCHANGED <<setup, subs, browser, got, audience, refused>>

CallFails(n) ==
    /\ "call" \in Faults
    /\ stage[n] \in {"called", "refresh", "list"}
    /\ Goto(n, "failed")
    /\ UNCHANGED <<setup, subs, browser, todo, got, audience, refused>>

Deliver(n, e) ==
    /\ stage[n] = "send"
    /\ e \in todo[n]
    /\ Alive(e)
    /\ got' = got \cup {<<n, e>>}
    /\ todo' = [todo EXCEPT ![n] = @ \ {e}]
    /\ UNCHANGED <<setup, subs, browser, stage, audience, refused>>

\* Variant: whatever is not delivered is evicted.
RefuseEvicts(n, e) ==
    /\ "send" \in Faults
    /\ stage[n] = "send"
    /\ e \in todo[n]
    /\ subs' = subs \ {e}
    /\ refused' = refused \cup {<<n, e>>}
    /\ todo' = [todo EXCEPT ![n] = @ \ {e}]
    /\ UNCHANGED <<setup, browser, stage, got, audience>>

\* OtherStatus or a transport error: logged, and on to the next.
Refuse(n, e) ==
    /\ "send" \in Faults
    /\ stage[n] = "send"
    /\ e \in todo[n]
    /\ refused' = refused \cup {<<n, e>>}
    /\ todo' = [todo EXCEPT ![n] = @ \ {e}]
    /\ UNCHANGED <<setup, subs, browser, stage, got, audience>>

\* Variant: the fan-out is over at the first subscription that is gone.
EvictStops(n, e) ==
    /\ stage[n] = "send"
    /\ e \in todo[n]
    /\ ~Alive(e)
    /\ subs' = subs \ {e}
    /\ todo' = [todo EXCEPT ![n] = {}]
    /\ UNCHANGED <<setup, browser, stage, got, audience, refused>>

\* SubscriptionGone: the endpoint's key is deleted.
Evict(n, e) ==
    /\ stage[n] = "send"
    /\ e \in todo[n]
    /\ ~Alive(e)
    /\ subs' = subs \ {e}
    /\ todo' = [todo EXCEPT ![n] = @ \ {e}]
    /\ UNCHANGED <<setup, browser, stage, got, audience, refused>>

\* A deletion that fails ends the fan-out: the rest is not notified.
EvictFails(n, e) ==
    /\ "evict" \in Faults
    /\ stage[n] = "send"
    /\ e \in todo[n]
    /\ ~Alive(e)
    /\ Goto(n, "failed")
    /\ UNCHANGED <<setup, subs, browser, todo, got, audience, refused>>

Finish(n) ==
    /\ stage[n] = "send"
    /\ todo[n] = {}
    /\ Goto(n, "done")
    /\ UNCHANGED <<setup, subs, browser, todo, got, audience, refused>>

-----------------------------------------------------------------------------

BrowserStep(b) ==
    \/ \E i \in Ids : Probe(b, i)
    \/ \E i \in Pages : Subscribe(b, i) \/ Posted(b, i) \/ PostedElsewhere(b, i)
    \/ PostRefused(b)
    \/ PostedUnheard(b)
    \/ Expire(b)

Delivery(n) ==
    \/ Route(n)
    \/ Refresh(n)
    \/ List(n)
    \/ CallFails(n)
    \/ \E e \in Endpoints :
         \/ Deliver(n, e)
         \/ Refuse(n, e)
         \/ Evict(n, e)
         \/ EvictFails(n, e)
    \/ Finish(n)

Next ==
    \/ \E i \in Ids : PutLink(i)
    \/ InstallHook
    \/ \E b \in Browsers : BrowserStep(b)
    \/ \E n \in Announcements : Announce(n) \/ Delivery(n)

Spec == Init /\ [][Next]_vars

\* The runtime finishes what it has begun; nobody has to subscribe or announce.
LiveSpec == Spec /\ \A n \in Announcements : WF_vars(Delivery(n))

-----------------------------------------------------------------------------

\* A subscription that a browser has flagged under an ID of this environment,
\* and so will not post again from there, is in KV as long as it is alive:
\* nothing evicts a live endpoint behind its browser's back, and no answer that
\* was lost or refused sets the flag (usePushNotifications.ts, announce.rs).
\* Not so for a flag that the answer of another environment has set, because
\* the attendee came here while requestAndSubscribe waited for it
\* (usePushNotifications.ts:95): only a subscription posted here mends it.
FlagMeansStored ==
    \A f \in flags \ misfiled :
        Alive(f[2]) => f[2] \in subs

\* A fan-out that ran to its end has reached every subscription that was in KV
\* when the announcement was made and is still alive, except those the push
\* service itself refused, however many fan-outs, evictions and subscriptions
\* go on at the same time.
FanOutComplete ==
    \A n \in Announcements : stage[n] = "done" =>
        \A e \in audience[n] :
            Alive(e) => <<n, e>> \in got \cup refused

\* As long as the webhook finds its environment and neither KV nor NocoDB
\* fails, everyone in the audience is notified in the end, or their push
\* service has refused: no refusal, eviction or other fan-out stands in the way.
AudienceNotified ==
    \A n \in Announcements, e \in Endpoints :
        e \in audience[n] ~>
            \/ <<n, e>> \in got \cup refused
            \/ ~Alive(e)
            \/ stage[n] \in {"unrouted", "failed"}

\* "... if they opt in, they will also receive push notifications"
\* (docs/guide.md:68), when no service fails: an announcement made while there
\* are subscribers finds its way to the server.
OptedInNotified ==
    \A n \in Announcements : audience[n] # {} => stage[n] # "unrouted"

=============================================================================
