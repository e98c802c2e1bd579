----------------------------- MODULE RemoteData -----------------------------
(***************************************************************************)
(* How a browser tab keeps one kind of data (events, info, pages or        *)
(* announcements) for the convention it shows: useRemoteDataInner in       *)
(* client/src/composables/useRemoteData.ts.                                *)
(*                                                                         *)
(* Every view the user opens has a reload function with a retry counter    *)
(* and a retry timer of its own; all of them share one displayed result    *)
(* and one entry of localStorage.  A reload started by one view, or for    *)
(* one environment ID, may finish after the user has moved on to another.  *)
(*                                                                         *)
(* The entry is shared with every other tab of the same origin, and any    *)
(* visit, also of an older client, may have left something there.          *)
(*                                                                         *)
(* The server is free to give any answer to any request: DataCache says    *)
(* which versions it serves.  Names tell environments apart, IDs are what  *)
(* URLs contain; an ID that was replaced is an alias of its successor.     *)
(***************************************************************************)
EXTENDS Naturals, FiniteSets

CONSTANTS
    Ids,          \* environment IDs
    Names,        \* environments
    NameOf,       \* the environment each ID belongs or belonged to
    AliasOf,      \* the successor of an ID, None if it has none
    Versions,     \* versions of an environment's data
    Views,        \* the view components opened in the tab
    Reloads,      \* slots for reloads in progress
    MaxRetries,   \* MAX_RETRIES
    MaxTriggers,  \* bound on what users, pushes and other tabs do
    Outside,      \* what earlier visits and other tabs leave in localStorage
    Modes,        \* "default": ID in the URL; "custom": ID given by the domain
    None

ASSUME NameOfAssumption == NameOf \in [Ids -> Names]
ASSUME AliasOfAssumption ==
    /\ AliasOf \in [Ids -> Ids \cup {None}]
    /\ \A i \in Ids : AliasOf[i] # None => NameOf[AliasOf[i]] = NameOf[i]
ASSUME BoundsAssumption == MaxRetries \in Nat /\ MaxTriggers \in Nat
ASSUME ModesAssumption == Modes \subseteq {"default", "custom"}
ASSUME NoneAssumption == None \notin Ids \cup Names \cup Views

VARIABLES
    mode,        \* how the tab learns its ID
    at,          \* the ID of the current route (useEnvId)
    view,        \* the mounted view, None while the page loads
    opened,      \* views whose listener for push messages is registered
    result,      \* the FetchResult on display
    stored,      \* the StoredValue in localStorage
    requests,    \* the reloads in progress
    retryCount, tracked, leaked,
                 \* per view: retryCount, whether retryTimeout is pending, and
                 \* how many pending timers retryTimeout no longer refers to
    triggers,    \* how often something other than a retry started a reload
    switched,    \* history: the user went to another environment in this page
    mixed,       \* history: localStorage has held data under the ID of another
                 \* environment since the tab last got data of its own
    staleView    \* history: the view whose reload was last answered, if stale

display == <<mode, at, view, opened, result, stored>>
retrying == <<retryCount, tracked, leaked>>
history == <<triggers, switched, mixed, staleView>>
vars == <<display, requests, retrying, history>>

Pending  == [status |-> "pending"]
Broken   == [status |-> "error"]
Shows(name, v) == [status |-> "success", of |-> name, ver |-> v]
Results == {Pending, Broken} \cup [status : {"success"}, of : Names, ver : Versions]

\* readable: fromCache can still make sense of what was stored.
StoredValues ==
    [instance : Ids, of : Names, ver : Versions, etag : BOOLEAN, readable : BOOLEAN]

ASSUME OutsideAssumption == Outside \subseteq StoredValues \cup {None}

\* An entry under an ID of an environment its data are not of.
Mislabelled(s) == s # None /\ s.of # NameOf[s.instance]

Idle == [phase |-> "idle"]
Tags == [of : Names, ver : Versions] \cup {None}
Request(phase, v, i, tag) == [phase |-> phase, view |-> v, id |-> i, etag |-> tag]
InProgress == [phase : {"data", "alias"}, view : Views, id : Ids, etag : Tags]

TypeOK ==
    /\ mode \in Modes
    /\ at \in Ids
    /\ view \in Views \cup {None}
    /\ opened \subseteq Views
    /\ result \in Results
    /\ stored \in StoredValues \cup {None}
    /\ requests \in [Reloads -> InProgress \cup {Idle}]
    /\ retryCount \in [Views -> 0..MaxRetries]
    /\ tracked \in [Views -> BOOLEAN]
    /\ leaked \in [Views -> Nat]
    /\ triggers \in 0..MaxTriggers
    /\ switched \in BOOLEAN
    /\ mixed \in BOOLEAN
    /\ staleView \in Views \cup {None}

\* A tab is opened at some ID; localStorage is empty or holds what an earlier
\* visit, perhaps to another environment or with an older client, left there:
\* also data of one environment under the ID of another, as an answer that came
\* after a switch leaves it (see Accept).
Init ==
    /\ mode \in Modes
    /\ at \in Ids
    /\ view = None
    /\ opened = {}
    /\ result = Pending
    /\ stored \in Outside \cup {None}
    /\ requests = [r \in Reloads |-> Idle]
    /\ retryCount = [v \in Views |-> 0]
    /\ tracked = [v \in Views |-> FALSE]
    /\ leaked = [v \in Views |-> 0]
    /\ triggers = 0
    /\ switched = FALSE
    /\ mixed = Mislabelled(stored)
    /\ staleView = None

-----------------------------------------------------------------------------

Tag(s) == IF s # None /\ s.etag THEN [of |-> s.of, ver |-> s.ver] ELSE None

InFlight(v) == {r \in Reloads : requests[r] # Idle /\ requests[r].view = v}

Triggered == triggers < MaxTriggers /\ triggers' = triggers + 1

CancelRetry(v) == tracked' = [tracked EXCEPT ![v] = FALSE]

\* The ID of the current route becomes i while view v is mounted: use what is
\* stored for i, or discard it, and reload if the route needs this data.
\* Variant: whatever is stored is used.
EnterUnchecked(v, i, kept, fetch, r) ==
    /\ at' = i
    /\ view' = v
    /\ opened' = opened \cup {v}
    /\ stored' = kept
    /\ result' = IF kept # None /\ kept.readable THEN Shows(kept.of, kept.ver)
                 ELSE IF fetch THEN result ELSE Pending
    /\ requests' = [requests EXCEPT ![r] =
                      IF fetch THEN Request("data", v, i, Tag(kept)) ELSE Idle]
    /\ CancelRetry(v)
    /\ retryCount' = [retryCount EXCEPT ![v] = 0]
    /\ staleView' = IF staleView = v THEN None ELSE staleView
    /\ UNCHANGED <<mode, leaked>>

Enter(v, i, kept, fetch, r) ==
    LET usable == IF kept # None /\ kept.instance = i THEN kept ELSE None
    IN /\ at' = i
       /\ view' = v
       /\ opened' = opened \cup {v}
       /\ stored' = usable
       /\ result' = IF usable # None /\ usable.readable
                    THEN Shows(usable.of, usable.ver)
                    ELSE IF fetch THEN result ELSE Pending
       /\ requests' = [requests EXCEPT ![r] =
                         IF fetch THEN Request("data", v, i, Tag(usable)) ELSE Idle]
       /\ CancelRetry(v)
       /\ retryCount' = [retryCount EXCEPT ![v] = 0]
       /\ staleView' = IF staleView = v THEN None ELSE staleView
       /\ UNCHANGED <<mode, leaked>>

\* Another view of the same environment is mounted.  The one it replaces
\* leaves its timers and its reloads running.
Mount(v, fetch, r) ==
    /\ v # view
    /\ InFlight(v) = {} /\ ~tracked[v] /\ leaked[v] = 0
    /\ requests[r] = Idle
    /\ Triggered
    /\ Enter(v, at, stored, fetch, r)
    /\ UNCHANGED <<switched, mixed>>

\* The route goes to another environment; the view stays mounted.  On a
\* custom domain the ID is fixed for the life of the page.
Switch(i, fetch, r) ==
    /\ mode = "default"
    /\ view # None
    /\ i # at
    /\ requests[r] = Idle
    /\ Triggered
    /\ Enter(view, i, stored, fetch, r)
    /\ switched' = TRUE
    /\ UNCHANGED mixed

\* Nothing but localStorage survives: the user reloads the page, or opens it
\* again later, at ID i.
FreshPage(i) ==
    /\ at' = i
    /\ view' = None
    /\ opened' = {}
    /\ result' = Pending
    /\ requests' = [r \in Reloads |-> Idle]
    /\ retryCount' = [v \in Views |-> 0]
    /\ tracked' = [v \in Views |-> FALSE]
    /\ leaked' = [v \in Views |-> 0]
    /\ staleView' = None
    /\ switched' = FALSE
    /\ mixed' = Mislabelled(stored')
    /\ UNCHANGED mode

ReloadPage ==
    /\ view # None
    /\ Triggered
    /\ UNCHANGED stored
    /\ FreshPage(at)

\* Another tab of the same origin writes the entry, or removes it.
OtherTab(s) ==
    /\ s # stored
    /\ Triggered
    /\ stored' = s
    /\ mixed' = (mixed \/ Mislabelled(s))
    /\ UNCHANGED <<mode, at, view, opened, result, requests, retrying, switched,
                   staleView>>

-----------------------------------------------------------------------------
(* reload: the part before the request is sent.                            *)

Reload(v, r) ==
    /\ requests[r] = Idle
    /\ requests' = [requests EXCEPT ![r] = Request("data", v, at, Tag(stored))]

\* The refresh button of the mounted view, or a push message, which every
\* view that was ever opened still listens to.
Trigger(v, r) ==
    /\ v \in opened
    /\ Triggered
    /\ Reload(v, r)
    /\ CancelRetry(v)
    /\ UNCHANGED <<display, retryCount, leaked, switched, mixed, staleView>>

\* The timer retryTimeout refers to.
Retry(v, r) ==
    /\ tracked[v]
    /\ tracked' = [tracked EXCEPT ![v] = FALSE]
    /\ Reload(v, r)
    /\ UNCHANGED <<display, retryCount, leaked, history>>

\* A timer whose handle was overwritten by a later one.  It clears the handle
\* of that later one, which now cannot be cancelled either.
RetryLeaked(v, r) ==
    /\ leaked[v] > 0
    /\ leaked' = [leaked EXCEPT ![v] = IF tracked[v] THEN @ ELSE @ - 1]
    /\ tracked' = [tracked EXCEPT ![v] = FALSE]
    /\ Reload(v, r)
    /\ UNCHANGED <<display, retryCount, history>>

-----------------------------------------------------------------------------
(* reload: the part after the answer.                                      *)

Asked(r) == requests[r] # Idle /\ requests[r].phase = "data"

Done(r) == requests' = [requests EXCEPT ![r] = Idle]

AnsweredBy(v, stale) ==
    staleView' = IF stale THEN v ELSE IF staleView = v THEN None ELSE staleView

\* The version asked about is the server's.
NotModified(r) ==
    /\ Asked(r)
    /\ requests[r].etag # None /\ requests[r].etag.of = NameOf[requests[r].id]
    /\ Done(r)
    /\ retryCount' = [retryCount EXCEPT ![requests[r].view] = 0]
    /\ AnsweredBy(requests[r].view, FALSE)
    /\ UNCHANGED <<display, tracked, leaked, triggers, switched, mixed>>

\* Data is shown and stored under the ID that is current now, which in a page
\* that was switched need not be of the environment that was asked for.
Accept(r, ver, stale) ==
    LET name == NameOf[requests[r].id]
    IN /\ result' = Shows(name, ver)
       /\ stored' = [instance |-> at, of |-> name, ver |-> ver,
                     etag |-> ~stale, readable |-> TRUE]
       /\ Done(r)
       /\ AnsweredBy(requests[r].view, stale)
       /\ mixed' = (name # NameOf[at] /\ (mixed \/ switched))
       /\ UNCHANGED <<mode, at, view, opened, triggers, switched>>

Fresh(r, ver) ==
    /\ Asked(r)
    /\ requests[r].etag # [of |-> NameOf[requests[r].id], ver |-> ver]
    /\ Accept(r, ver, FALSE)
    /\ retryCount' = [retryCount EXCEPT ![requests[r].view] = 0]
    /\ UNCHANGED <<tracked, leaked>>

\* scheduleRetry; a timer that is already pending is not cancelled.
\* Variant: retries are not counted.
StaleUncounted(r, ver) ==
    LET v == requests[r].view
    IN /\ Asked(r)
       /\ Accept(r, ver, TRUE)
       /\ tracked' = [tracked EXCEPT ![v] = TRUE]
       /\ leaked' = [leaked EXCEPT ![v] = IF tracked[v] THEN @ + 1 ELSE @]
       /\ UNCHANGED retryCount

\* Variant: counted, but the timer is set one retry too late.
StaleSkipsFirst(r, ver) ==
    LET v == requests[r].view
    IN /\ Asked(r)
       /\ Accept(r, ver, TRUE)
       /\ IF retryCount[v] < MaxRetries
          THEN /\ retryCount' = [retryCount EXCEPT ![v] = @ + 1]
               /\ tracked' = [tracked EXCEPT ![v] = retryCount[v] > 0 \/ @]
               /\ UNCHANGED leaked
          ELSE UNCHANGED retrying

\* Variant: one retry too many is counted.
StaleOffByOne(r, ver) ==
    LET v == requests[r].view
    IN /\ Asked(r)
       /\ Accept(r, ver, TRUE)
       /\ IF retryCount[v] <= MaxRetries
          THEN /\ retryCount' = [retryCount EXCEPT ![v] = @ + 1]
               /\ tracked' = [tracked EXCEPT ![v] = TRUE]
               /\ leaked' = [leaked EXCEPT ![v] = IF tracked[v] THEN @ + 1 ELSE @]
          ELSE UNCHANGED retrying

Stale(r, ver) ==
    LET v == requests[r].view
    IN /\ Asked(r)
       /\ Accept(r, ver, TRUE)
       /\ IF retryCount[v] < MaxRetries
          THEN /\ retryCount' = [retryCount EXCEPT ![v] = @ + 1]
               /\ tracked' = [tracked EXCEPT ![v] = TRUE]
               /\ leaked' = [leaked EXCEPT ![v] = IF tracked[v] THEN @ + 1 ELSE @]
          ELSE UNCHANGED retrying

\* Any other status: shown only if there is nothing to show instead.
Failed(r) ==
    /\ Asked(r)
    /\ Done(r)
    /\ result' = IF result = Pending THEN Broken ELSE result
    /\ AnsweredBy(requests[r].view, FALSE)
    /\ UNCHANGED <<mode, at, view, opened, stored, retrying, triggers, switched,
                   mixed>>

\* No connection: fetch rejects, and reload with it.
Offline(r) ==
    /\ requests[r] # Idle
    /\ Done(r)
    /\ AnsweredBy(requests[r].view, FALSE)
    /\ UNCHANGED <<display, retrying, triggers, switched, mixed>>

\* 404: ask whether the ID, the one that is current now, is an alias.
NotFound(r) ==
    /\ Asked(r)
    /\ requests' = [requests EXCEPT ![r].phase = "alias", ![r].id = at]
    /\ AnsweredBy(requests[r].view, FALSE)
    /\ UNCHANGED <<display, retrying, triggers, switched, mixed>>

AskedAlias(r) == requests[r] # Idle /\ requests[r].phase = "alias"

\* Not an alias, or the server could not tell.
AliasMissing(r) ==
    /\ AskedAlias(r)
    /\ Done(r)
    /\ result' = Broken
    /\ UNCHANGED <<mode, at, view, opened, stored, retrying, history>>

\* What is stored is from now on stored for the successor, whoever stored it
\* and for whichever environment.
Adopted(i) == IF stored # None THEN [stored EXCEPT !.instance = i] ELSE None

OfAnother(i) == stored # None /\ NameOf[stored.instance] # NameOf[i]

\* The route goes to the successor, if it is not there yet.
AliasFound(r, fetch) ==
    LET successor == AliasOf[requests[r].id]
    IN /\ AskedAlias(r)
       /\ mode = "default"
       /\ successor # None
       /\ IF successor = at
          THEN /\ stored' = Adopted(successor)
               /\ Done(r)
               /\ UNCHANGED <<mode, at, view, opened, result, retrying, staleView>>
          ELSE Enter(view, successor, Adopted(successor), fetch, r)
       /\ switched' = (switched \/ NameOf[successor] # NameOf[at])
       /\ mixed' = (mixed \/ OfAnother(successor))
       /\ UNCHANGED triggers

\* On a custom domain the page is reloaded; the edge worker has put the
\* successor into it, or still the same ID.
AliasFoundOnDomain(r) ==
    LET successor == AliasOf[requests[r].id]
    IN /\ AskedAlias(r)
       /\ mode = "custom"
       /\ successor # None
       /\ stored' = Adopted(successor)
       /\ FreshPage(successor) \/ FreshPage(at)
       /\ UNCHANGED triggers

-----------------------------------------------------------------------------

Answer(r) ==
    \/ NotModified(r)
    \/ \E ver \in Versions : Fresh(r, ver) \/ Stale(r, ver)
    \/ Failed(r)
    \/ Offline(r)
    \/ NotFound(r)
    \/ AliasMissing(r)
    \/ \E fetch \in BOOLEAN : AliasFound(r, fetch)
    \/ AliasFoundOnDomain(r)

Timer(v) == \E r \in Reloads : Retry(v, r) \/ RetryLeaked(v, r)

User ==
    \/ \E r \in Reloads, fetch \in BOOLEAN :
         \/ \E v \in Views : Mount(v, fetch, r)
         \/ \E i \in Ids : Switch(i, fetch, r)
    \/ \E r \in Reloads, v \in Views : Trigger(v, r)
    \/ ReloadPage

Elsewhere == \E s \in Outside \cup {None} : OtherTab(s)

Next ==
    \/ \E r \in Reloads : Answer(r)
    \/ \E v \in Views : Timer(v)
    \/ User
    \/ Elsewhere

Spec == Init /\ [][Next]_vars

\* Every request is answered or fails, every timer fires.  Users do what they
\* like, MaxTriggers times.
LiveSpec ==
    /\ Spec
    /\ \A r \in Reloads : WF_vars(Answer(r))
    /\ \A v \in Views : WF_vars(Timer(v))

-----------------------------------------------------------------------------

Quiet ==
    /\ \A r \in Reloads : requests[r] = Idle
    /\ \A v \in Views : ~tracked[v] /\ leaked[v] = 0

\* A page that stays with one environment, through renamed IDs, overlapping
\* reloads, changes of view, page reloads and whatever other tabs store, never
\* shows another environment's data and never stores any under its own ID.  It
\* may do so only while localStorage is mixed: from the moment an entry under
\* the wrong ID got in there (an earlier page that was switched, or another
\* tab, stored it; or this tab relabelled another tab's entry while it followed
\* an alias, useRemoteData.ts:158) to the next answer that brings data, which
\* is shown and replaces the entry.
PinnedTabShowsItsEnv ==
    ~switched /\ ~mixed =>
        /\ result.status = "success" => result.of = NameOf[at]
        /\ ~Mislabelled(stored)

\* An answer marked stale is followed up: until the view has used its retries
\* up, a retry is pending or on its way, however reloads that overlap cancel
\* and overwrite each other's timers.
StaleAnswerRetried ==
    staleView # None =>
        \/ retryCount[staleView] = MaxRetries
        \/ tracked[staleView] \/ leaked[staleView] > 0
        \/ InFlight(staleView) # {}

\* "caps retries at maximum count" (stale-data.spec.ts:164), and for any
\* overlap of reloads: once users stop, the tab stops asking the server, even
\* if every answer is stale.
RetriesDieOut == <>[]Quiet

\* "... so we know to invalidate the cache if the user switches to a different
\* environment" (useRemoteData.ts:194): when nothing is on its way any more,
\* the data on display is the current environment's.
SwitchedTabShowsItsEnv ==
    Quiet /\ result.status = "success" => result.of = NameOf[at]

\* "Server returned Not Modified -- the cached data is still current"
\* (useRemoteData.ts:141): then that data is on display.
NotModifiedIsShown ==
    [][\A r \in Reloads : NotModified(r) => result'.status = "success"]_vars

=============================================================================
