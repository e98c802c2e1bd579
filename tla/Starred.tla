------------------------------- MODULE Starred -------------------------------
(***************************************************************************)
(* The events a user has starred, as useStarredEvents.ts keeps them: one   *)
(* list in the memory of each browser tab, shared by all its components,   *)
(* and a copy in localStorage under the environment's ID, shared by all    *)
(* tabs and written by one debounced call per tab.  A link with a `share`  *)
(* parameter puts somebody else's schedule in the same list until the user *)
(* leaves it or adds it to their own (ScheduleShareOptionsDialog.vue).     *)
(* The ID may change under a page that is open: when the server answers    *)
(* that it is an alias (useRemoteData.ts), and when the user navigates to  *)
(* another environment without a reload (useEnvId.ts).                     *)
(*                                                                         *)
(* Watchers run in the microtask after the change that triggers them, so   *)
(* they belong to the action that does.  A key that is missing or does not *)
(* parse reads as an empty list.                                           *)
(***************************************************************************)
EXTENDS Naturals

CONSTANTS
    Tabs,
    EnvIds,
    Current,       \* the ID an ID stands for: another one if it is an alias
    Events,
    Schedules,     \* schedules somebody may share: {} if it cannot be decoded
    MaxPages,      \* bound: pages shown by all tabs together
    None

ASSUME CurrentAssumption ==
    /\ Current \in [EnvIds -> EnvIds]
    /\ \A id \in EnvIds : Current[Current[id]] = Current[id]
ASSUME SchedulesAssumption == Schedules \subseteq SUBSET Events
ASSUME MaxPagesAssumption == MaxPages \in Nat
ASSUME NoneAssumption ==
    /\ None \notin EnvIds \cup Tabs \cup Schedules
    /\ None \notin [key : EnvIds, list : SUBSET Events]

VARIABLES
    storage,      \* localStorage: starred:{envId}
    envId,        \* the environment in the tab's URL, None if it is closed
    share,        \* the schedule in the URL's share parameter
    history,      \* the share parameters the tab can go back to without a reload
    pages,        \* how many pages the tabs have shown so far
    starred,      \* starredEvents
    currentEnvId, \* the environment starredEvents was last read for
    pending,      \* the write the debounce timer holds
    mine,         \* ghost: events the user ever starred or added, by environment
    carried,      \* ghost: environments a tab has taken another one's list to
    own,          \* ghost: the tab's list when it last was the user's own
    saver         \* ghost: the tab that wrote a key last

url    == <<envId, share, history, pages>>
memory == <<starred, currentEnvId, pending>>
ghosts == <<mine, carried, own, saver>>
vars   == <<storage, url, memory, ghosts>>

Lists  == SUBSET Events
Writes == [key : EnvIds, list : Lists]

TypeOK ==
    /\ storage \in [EnvIds -> Lists]
    /\ envId \in [Tabs -> EnvIds \cup {None}]
    /\ share \in [Tabs -> Schedules \cup {None}]
    /\ history \in [Tabs -> SUBSET Schedules]
    /\ pages \in 0 .. MaxPages
    /\ starred \in [Tabs -> Lists]
    /\ currentEnvId \in [Tabs -> EnvIds \cup {None}]
    /\ \A t \in Tabs : (currentEnvId[t] = None) <=> (envId[t] = None)
    /\ pending \in [Tabs -> Writes \cup {None}]
    /\ mine \in [EnvIds -> Lists]
    /\ carried \subseteq EnvIds
    /\ own \in [Tabs -> Writes \cup {None}]
    /\ saver \in [EnvIds -> Tabs \cup {None}]

Init ==
    /\ storage = [id \in EnvIds |-> {}]
    /\ envId = [t \in Tabs |-> None]
    /\ share = [t \in Tabs |-> None]
    /\ history = [t \in Tabs |-> {}]
    /\ pages = 0
    /\ starred = [t \in Tabs |-> {}]
    /\ currentEnvId = [t \in Tabs |-> None]
    /\ pending = [t \in Tabs |-> None]
    /\ mine = [id \in EnvIds |-> {}]
    /\ carried = {}
    /\ own = [t \in Tabs |-> None]
    /\ saver = [id \in EnvIds |-> None]

Write(id, list) == [key |-> id, list |-> list]

Shared(schedule) == {schedule} \ {None}

\* The events of this list are the user's, in the environment with this ID.
Keep(id, list) == mine' = [mine EXCEPT ![Current[id]] = @ \cup list]

-----------------------------------------------------------------------------
(* The watchers, for a tab that has just got a page, a list or both.       *)

\* Variant: the list is written whatever schedule it is.
SyncAlways(t, id, schedule, list) ==
    LET shown == IF schedule = None THEN list ELSE schedule IN
    /\ starred' = [starred EXCEPT ![t] = shown]
    /\ pending' = [pending EXCEPT ![t] = Write(id, shown)]
    /\ own' = IF schedule = None
              THEN [own EXCEPT ![t] = Write(id, list)] ELSE own

\* The user's own list is shown and a write of it replaces the pending one;
\* somebody else's is shown and nothing is written.
Sync(t, id, schedule, list) ==
    IF schedule = None
    THEN /\ starred' = [starred EXCEPT ![t] = list]
         /\ pending' = [pending EXCEPT ![t] = Write(id, list)]
         /\ own' = [own EXCEPT ![t] = Write(id, list)]
    ELSE /\ starred' = [starred EXCEPT ![t] = schedule]
         /\ UNCHANGED <<pending, own>>

\* The timer of the debounce fires.
Save(t) ==
    /\ pending[t] # None
    /\ storage' = [storage EXCEPT ![pending[t].key] = pending[t].list]
    /\ saver' = [saver EXCEPT ![pending[t].key] = t]
    /\ pending' = [pending EXCEPT ![t] = None]
    /\ UNCHANGED <<url, starred, currentEnvId, mine, carried, own>>

-----------------------------------------------------------------------------
(* Pages.                                                                  *)

\* Variant: the environment the list was read for is not noted.
OpenUnnoted(t, id, schedule) ==
    /\ pages < MaxPages
    /\ pages' = pages + 1
    /\ envId' = [envId EXCEPT ![t] = id]
    /\ share' = [share EXCEPT ![t] = schedule]
    /\ history' = [history EXCEPT ![t] = Shared(schedule)]
    /\ starred' = [starred EXCEPT
                     ![t] = IF schedule = None THEN storage[id] ELSE schedule]
    /\ pending' = [pending EXCEPT
                     ![t] = IF schedule = None THEN Write(id, storage[id])
                                               ELSE None]
    /\ own' = [own EXCEPT ![t] = Write(id, storage[id])]
    /\ UNCHANGED <<storage, currentEnvId, mine, carried, saver>>

\* The user opens a link or reloads the tab: its memory and its timer are gone.
Open(t, id, schedule) ==
    /\ pages < MaxPages
    /\ pages' = pages + 1
    /\ envId' = [envId EXCEPT ![t] = id]
    /\ share' = [share EXCEPT ![t] = schedule]
    /\ history' = [history EXCEPT ![t] = Shared(schedule)]
    /\ starred' = [starred EXCEPT
                     ![t] = IF schedule = None THEN storage[id] ELSE schedule]
    /\ currentEnvId' = [currentEnvId EXCEPT ![t] = id]
    /\ pending' = [pending EXCEPT
                     ![t] = IF schedule = None THEN Write(id, storage[id])
                                               ELSE None]
    /\ own' = [own EXCEPT ![t] = Write(id, storage[id])]
    /\ UNCHANGED <<storage, mine, carried, saver>>

\* Another component that uses the list is set up.  It reads the storage again
\* only if the environment is not the one the list was read for.
Mount(t) ==
    /\ envId[t] # None
    /\ Sync(t, envId[t], share[t],
            IF currentEnvId[t] = envId[t] THEN starred[t] ELSE storage[envId[t]])
    /\ currentEnvId' = [currentEnvId EXCEPT ![t] = envId[t]]
    /\ UNCHANGED <<storage, url, mine, carried, saver>>

\* Variant: the pending write keeps the ID the page had.
MoveUnwatched(t, id, schedule) ==
    /\ pages < MaxPages
    /\ pages' = pages + 1
    /\ envId' = [envId EXCEPT ![t] = id]
    /\ share' = [share EXCEPT ![t] = schedule]
    /\ history' = [history EXCEPT ![t] = @ \cup Shared(schedule)]
    /\ starred' = [starred EXCEPT
                     ![t] = IF schedule = None THEN @ ELSE schedule]
    /\ UNCHANGED <<storage, currentEnvId, pending, ghosts>>

\* The page changes in place: the list stays the tab's, under the new ID, even
\* if that is another environment's.
Move(t, id, schedule) ==
    /\ pages < MaxPages
    /\ pages' = pages + 1
    /\ envId' = [envId EXCEPT ![t] = id]
    /\ share' = [share EXCEPT ![t] = schedule]
    /\ history' = [history EXCEPT ![t] = @ \cup Shared(schedule)]
    /\ Sync(t, id, schedule, starred[t])
    /\ carried' = IF schedule = None /\ Current[id] # Current[envId[t]]
                  THEN carried \cup {Current[id]} ELSE carried
    /\ UNCHANGED <<storage, currentEnvId, mine, saver>>

\* The server does not know the ID but knows it as an alias.
Redirect(t) ==
    /\ envId[t] # None
    /\ Current[envId[t]] # envId[t]
    /\ Move(t, Current[envId[t]], share[t])

\* Any other change of the ID without a reload, back and forward between pages
\* of different environments included.  The router keeps the share parameter of
\* the page it leaves.
Switch(t, id) ==
    /\ envId[t] # None
    /\ id # envId[t]
    /\ Move(t, id, share[t])

\* Back or forward to a page with a share parameter of its own.
Travel(t, id, schedule) ==
    /\ envId[t] # None
    /\ schedule \in history[t]
    /\ <<id, schedule>> # <<envId[t], share[t]>>
    /\ Move(t, id, schedule)

-----------------------------------------------------------------------------
(* What the user does with the list.                                       *)

\* Where toggleStar does not refuse: nobody else's schedule is shown.
MayStar(t) == envId[t] # None /\ share[t] = None

Toggle(t, event) ==
    LET list == IF event \in starred[t] THEN starred[t] \ {event}
                                        ELSE starred[t] \cup {event} IN
    /\ MayStar(t)
    /\ Sync(t, envId[t], None, list)
    /\ Keep(envId[t], {event} \cap list)
    /\ UNCHANGED <<storage, url, currentEnvId, carried, saver>>

\* The dialog cannot be opened and answered before the timer has fired.
InDialog(t) ==
    /\ envId[t] # None
    /\ share[t] # None
    /\ pending[t] = None

Dismiss(t, list) ==
    /\ share' = [share EXCEPT ![t] = None]
    /\ starred' = [starred EXCEPT ![t] = list]
    /\ pending' = [pending EXCEPT ![t] = Write(envId[t], list)]
    /\ own' = [own EXCEPT ![t] = Write(envId[t], list)]
    /\ UNCHANGED <<storage, envId, history, pages, currentEnvId, carried, saver>>

\* "Return to My Schedule".
ExitSharedSchedule(t) ==
    /\ InDialog(t)
    /\ Dismiss(t, storage[envId[t]])
    /\ UNCHANGED mine

\* Variant: the merge forgets what the user had.
AddToScheduleReplaces(t) ==
    /\ InDialog(t)
    /\ Dismiss(t, starred[t])
    /\ Keep(envId[t], starred[t])

\* "Add to My Schedule".
AddToSchedule(t) ==
    /\ InDialog(t)
    /\ Dismiss(t, storage[envId[t]] \cup starred[t])
    /\ Keep(envId[t], starred[t])

-----------------------------------------------------------------------------

Next ==
    \E t \in Tabs :
        \/ \E id \in EnvIds, schedule \in Schedules \cup {None} :
             Open(t, id, schedule)
        \/ Mount(t)
        \/ Redirect(t)
        \/ \E id \in EnvIds : Switch(t, id)
        \/ \E id \in EnvIds, schedule \in Schedules : Travel(t, id, schedule)
        \/ \E event \in Events : Toggle(t, event)
        \/ ExitSharedSchedule(t)
        \/ AddToSchedule(t)
        \/ Save(t)

Spec == Init /\ [][Next]_vars

-----------------------------------------------------------------------------
(* Properties.                                                             *)

\* What may be stored in an environment: what the user starred or added there,
\* or anywhere if a tab has taken another environment's list there.
Ours ==
    [id \in EnvIds |-> IF Current[id] \in carried THEN UNION {mine[e] : e \in EnvIds}
                                                 ELSE mine[Current[id]]]

\* Somebody else's schedule never gets into the user's stored stars, nor is a
\* write of it ever on its way there, unless the user starred those events or
\* added them: whatever tabs, redirects and debounced writes come in between
\* ("Don't overwrite the user's real starred events while viewing a shared
\* schedule.", useStarredEvents.ts:45; "localStorage not clobbered",
\* share.spec.ts:381).  Nor do the stars of another environment get there, as long
\* as no tab has come from there without a reload while it showed them: one that
\* has takes its list along (the watchEffect at line 44 writes it under the new
\* key at once).
NoForeignStars ==
    /\ \A id \in EnvIds : storage[id] \subseteq Ours[id]
    /\ \A t \in Tabs : pending[t] # None => pending[t].list \subseteq Ours[pending[t].key]

\* Once its timer has fired, a tab shows what is stored under the ID in its
\* URL, unless another tab has saved there since: with one timer for all
\* components (debouncedSetItem, useStarredEvents.ts:10), whose every call replaces
\* the one before, the last list is never dropped, nor stored under the ID the page
\* had before.  Whose list it is is another matter: a page whose ID has changed in
\* place stores the list it came with over the one that was there.
ShownIsSaved ==
    \A t \in Tabs :
        (/\ envId[t] # None /\ share[t] = None /\ pending[t] = None
         /\ saver[envId[t]] = t)
            => starred[t] = storage[envId[t]]

\* Leaving a shared schedule brings back the list the tab had before, with the
\* shared events if the user adds them, provided no other tab has saved since
\* and the ID is still the same ("exit restores user's own starred events",
\* share.spec.ts:286; "add merges events", share.spec.ts:466).
ExitRestores ==
    [][\A t \in Tabs :
         (envId[t] # None /\ saver[envId[t]] = t /\ own[t].key = envId[t]) =>
           /\ ExitSharedSchedule(t) => starred'[t] = own[t].list
           /\ AddToSchedule(t) => starred'[t] = own[t].list \cup starred[t]]_vars

=============================================================================
