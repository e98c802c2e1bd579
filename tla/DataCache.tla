------------------------------ MODULE DataCache ------------------------------
(***************************************************************************)
(* The two-level cache the server keeps in front of NocoDB, for one kind   *)
(* of data (events, info, pages, announcements, files) of one environment: *)
(* the `get_data!` handlers of server/src/store.rs, the announcement       *)
(* webhook, and the admin call that wipes the caches.                      *)
(*                                                                         *)
(* Data are abstracted to version numbers: version n is what NocoDB holds  *)
(* after its n-th change.  A "newer" value is one NocoDB held later, so    *)
(* restoring a backup is a change like any other.                          *)
(*                                                                         *)
(* An answer is put together from several requests: the table IDs, then    *)
(* the pages of one or more lists, with an await each (noco/data.rs).      *)
(* NocoDB may change between two of them, so an answer can be a mixture of *)
(* versions no single state of NocoDB held.  The number it carries here is *)
(* that of the oldest of its parts: nothing in it was read before that     *)
(* version, and some of it may be newer.  What paging loses or repeats     *)
(* when a list changes meanwhile is the subject of DataReader.             *)
(*                                                                         *)
(* A handler is split at its awaits: an isolate runs one task at a time,   *)
(* but tasks of all isolates interleave wherever one of them awaits.       *)
(***************************************************************************)
EXTENDS Integers, FiniteSets

CONSTANTS
    Requests,       \* slots for concurrent GET handlers and their wait_until
    Publishers,     \* slots for concurrent webhook and admin handlers
    Isolates,       \* Workers isolates
    Datacenters,    \* each has an edge cache of its own
    IsolateOf,      \* the isolate a slot runs in
    DatacenterOf,   \* the datacenter an isolate runs in
    MaxVersion,     \* bound: NocoDB's data change this many times
    WarmStart,      \* whether the persistent cache is filled at the start
    Faults,         \* the faults the environment may inject
    Operations      \* what a publisher slot may run

\* "kvRead", "kvWrite", "edgeWrite", "upstream": that call may fail.
\* "kvLag": a KV write reaches the other datacenters later.
\* "cancel": the runtime gives up on a wait_until task that runs too long.
\* "recycle": the runtime evicts an isolate with everything it was running.
FaultKinds ==
    {"kvRead", "kvWrite", "edgeWrite", "upstream", "kvLag", "cancel", "recycle"}

ASSUME SlotsAssumption ==
    /\ IsolateOf \in [Requests \cup Publishers -> Isolates]
    /\ DatacenterOf \in [Isolates -> Datacenters]

ASSUME BoundAssumption == MaxVersion \in Nat

ASSUME SwitchAssumption ==
    /\ WarmStart \in BOOLEAN
    /\ Faults \subseteq FaultKinds
    /\ Operations \subseteq {"webhook", "clear"}

Version == 0 .. MaxVersion
Empty   == -1                      \* no entry under the key
Entry   == Version \cup {Empty}

VARIABLES
    upstream,    \* the version NocoDB holds
    kv,          \* the persistent cache: what the KV store holds
    kvView,      \* what a KV read in a datacenter returns
    edge,        \* the edge cache of a datacenter, always marked stale: false
    inflight,    \* isolates whose INFLIGHT_REFRESHES holds the key
    pc,          \* where the handler, or the task it left behind, is
    ver,         \* the version the first part of what it fetched is of
    background,  \* requests whose refresh runs under the in-flight key
    pubPc,       \* where a webhook or admin handler is
    pubVer,      \* the version the first part of what it publishes is of
    clean,       \* history: publishers no older fetch was in flight with
    announced,   \* history: newest version a finished publisher published
    settled      \* history: the same, counting the clean publishers only

requestVars   == <<pc, ver, background, inflight>>
publisherVars == <<pubPc, pubVer, clean, announced, settled>>
vars == <<upstream, kv, kvView, edge, requestVars, publisherVars>>

\* "fetch": nothing was read from NocoDB yet; "pages": some of it was.
RequestPc ==
    {"idle", "kv", "fetch", "pages", "putKV", "putEdge", "release"}

PublisherPc == {"idle", "fetch", "pages", "putKV", "deleteKV", "purge"}

TypeOK ==
    /\ upstream \in Version
    /\ kv \in Entry
    /\ kvView \in [Datacenters -> Entry]
    /\ edge \in [Datacenters -> Entry]
    /\ inflight \subseteq Isolates
    /\ pc \in [Requests -> RequestPc]
    /\ ver \in [Requests -> Version]
    /\ background \subseteq Requests
    /\ pubPc \in [Publishers -> PublisherPc]
    /\ pubVer \in [Publishers -> Version]
    /\ clean \subseteq Publishers
    /\ announced \in Version
    /\ settled \in Version

Init ==
    /\ upstream = 0
    /\ kv = IF WarmStart THEN 0 ELSE Empty
    /\ kvView = [d \in Datacenters |-> kv]
    /\ edge = [d \in Datacenters |-> Empty]
    /\ inflight = {}
    /\ pc = [r \in Requests |-> "idle"]
    /\ ver = [r \in Requests |-> 0]
    /\ background = {}
    /\ pubPc = [p \in Publishers |-> "idle"]
    /\ pubVer = [p \in Publishers |-> 0]
    /\ clean = {}
    /\ announced = 0
    /\ settled = 0

-----------------------------------------------------------------------------
(* The services the handlers call.                                         *)

Home(x) == DatacenterOf[IsolateOf[x]]

\* A KV write by slot x: visible at once where x runs, elsewhere now or later.
WriteKV(x, entry) ==
    /\ kv' = entry
    /\ kvView' = [d \in Datacenters |->
                    IF d = Home(x) \/ "kvLag" \notin Faults THEN entry
                                                            ELSE kvView[d]]

\* Eventual consistency: a datacenter catches up with the KV store.
Propagate(d) ==
    /\ kvView[d] # kv
    /\ kvView' = [kvView EXCEPT ![d] = kv]
    /\ UNCHANGED <<upstream, kv, edge, requestVars, publisherVars>>

\* A time-to-live (s-maxage) runs out, or the edge cache evicts the entry.
EdgeExpire(d) ==
    /\ edge[d] # Empty
    /\ edge' = [edge EXCEPT ![d] = Empty]
    /\ UNCHANGED <<upstream, kv, kvView, requestVars, publisherVars>>

\* Somebody edits the data in NocoDB, or restores a backup of its database.
Edit ==
    /\ upstream < MaxVersion
    /\ upstream' = upstream + 1
    /\ UNCHANGED <<kv, kvView, edge, requestVars, publisherVars>>

-----------------------------------------------------------------------------
(* A GET handler: get_cdn_cache, Store::from_env_id, then get_data!.       *)

Goto(r, label) == pc' = [pc EXCEPT ![r] = label]

\* The handler and whatever it left running are over.
Finish(r) ==
    /\ Goto(r, "idle")
    /\ ver' = [ver EXCEPT ![r] = 0]
    /\ background' = background \ {r}

\* A background task ends by removing the key it inserted.
Unlock(r) ==
    inflight' = IF r \in background THEN inflight \ {IsolateOf[r]} ELSE inflight

\* The edge cache answers: fresh data, nothing else happens.
EdgeHit(r) ==
    /\ pc[r] = "idle"
    /\ edge[Home(r)] # Empty
    /\ UNCHANGED vars

EdgeMiss(r) ==
    /\ pc[r] = "idle"
    /\ edge[Home(r)] = Empty
    /\ Goto(r, "kv")
    /\ UNCHANGED <<upstream, kv, kvView, edge, ver, background, inflight,
                   publisherVars>>

\* The environment cannot be resolved: an error response.
Reject(r) ==
    /\ "kvRead" \in Faults
    /\ pc[r] = "kv"
    /\ Finish(r)
    /\ UNCHANGED <<upstream, kv, kvView, edge, inflight, publisherVars>>

\* Variant: the key is inserted without looking whether it was there.
ServeStaleAndRefreshUnchecked(r) ==
    /\ pc[r] = "kv"
    /\ kvView[Home(r)] # Empty
    /\ inflight' = inflight \cup {IsolateOf[r]}
    /\ background' = background \cup {r}
    /\ Goto(r, "fetch")
    /\ UNCHANGED <<upstream, kv, kvView, edge, ver, publisherVars>>

\* Variant: the test of the key is inverted.
ServeStaleAndRefreshInverted(r) ==
    /\ IsolateOf[r] \in inflight
    /\ ServeStaleAndRefreshUnchecked(r)

\* Answer with the persistent copy, marked stale, and refresh it in the
\* background under the in-flight key.
ServeStaleAndRefresh(r) ==
    /\ pc[r] = "kv"
    /\ kvView[Home(r)] # Empty
    /\ IsolateOf[r] \notin inflight
    /\ inflight' = inflight \cup {IsolateOf[r]}
    /\ background' = background \cup {r}
    /\ Goto(r, "fetch")
    /\ UNCHANGED <<upstream, kv, kvView, edge, ver, publisherVars>>

\* Answer with the persistent copy; this isolate is already refreshing it.
ServeStale(r) ==
    /\ pc[r] = "kv"
    /\ kvView[Home(r)] # Empty
    /\ IsolateOf[r] \in inflight
    /\ Finish(r)
    /\ UNCHANGED <<upstream, kv, kvView, edge, inflight, publisherVars>>

\* No persistent copy, or it cannot be read: the response waits for NocoDB.
ColdMiss(r) ==
    /\ pc[r] = "kv"
    /\ kvView[Home(r)] = Empty \/ "kvRead" \in Faults
    /\ Goto(r, "fetch")
    /\ UNCHANGED <<upstream, kv, kvView, edge, ver, background, inflight,
                   publisherVars>>

\* NocoDB answers the first request: what comes from it is of this version.
Fetch(r) ==
    /\ pc[r] = "fetch"
    /\ ver' = [ver EXCEPT ![r] = upstream]
    /\ Goto(r, "pages")
    /\ UNCHANGED <<upstream, kv, kvView, edge, background, inflight,
                   publisherVars>>

\* Variant: the key is given back as soon as NocoDB has answered, before the
\* caches are written.
FetchRestUnlocks(r) ==
    /\ pc[r] = "pages"
    /\ Goto(r, "putKV")
    /\ Unlock(r)
    /\ background' = background \ {r}
    /\ UNCHANGED <<upstream, kv, kvView, edge, ver, publisherVars>>

\* NocoDB has answered the other requests too, whatever it held meanwhile.  A
\* blocked response is sent now, marked stale.
FetchRest(r) ==
    /\ pc[r] = "pages"
    /\ Goto(r, "putKV")
    /\ UNCHANGED <<upstream, kv, kvView, edge, ver, background, inflight,
                   publisherVars>>

\* Variant: an answer that does not come is cached as if it were empty.
FetchFailCachesNothing(r) ==
    /\ "upstream" \in Faults
    /\ pc[r] \in {"fetch", "pages"}
    /\ ver' = [ver EXCEPT ![r] = Empty]
    /\ Goto(r, "putKV")
    /\ UNCHANGED <<upstream, kv, kvView, edge, background, inflight,
                   publisherVars>>

\* Variant: an early return leaves the key behind.
FetchFailKeepsKey(r) ==
    /\ "upstream" \in Faults
    /\ pc[r] \in {"fetch", "pages"}
    /\ Finish(r)
    /\ UNCHANGED <<upstream, kv, kvView, edge, inflight, publisherVars>>

\* NocoDB does not answer one of the requests: a background refresh gives its
\* key back, a blocked response is an error.
FetchFail(r) ==
    /\ "upstream" \in Faults
    /\ pc[r] \in {"fetch", "pages"}
    /\ Unlock(r)
    /\ Finish(r)
    /\ UNCHANGED <<upstream, kv, kvView, edge, publisherVars>>

PutKV(r) ==
    /\ pc[r] = "putKV"
    /\ WriteKV(r, ver[r])
    /\ Goto(r, "putEdge")
    /\ UNCHANGED <<upstream, edge, ver, background, inflight, publisherVars>>

\* A failed KV write is logged; the edge cache is filled all the same.
PutKVFail(r) ==
    /\ "kvWrite" \in Faults
    /\ pc[r] = "putKV"
    /\ Goto(r, "putEdge")
    /\ UNCHANGED <<upstream, kv, kvView, edge, ver, background, inflight,
                   publisherVars>>

\* A task that holds the key removes it after its next await.
AfterPutCache(r) ==
    IF r \in background
    THEN Goto(r, "release") /\ UNCHANGED <<ver, background>>
    ELSE Finish(r)

PutEdge(r) ==
    /\ pc[r] = "putEdge"
    /\ edge' = [edge EXCEPT ![Home(r)] = ver[r]]
    /\ AfterPutCache(r)
    /\ UNCHANGED <<upstream, kv, kvView, inflight, publisherVars>>

PutEdgeFail(r) ==
    /\ "edgeWrite" \in Faults
    /\ pc[r] = "putEdge"
    /\ AfterPutCache(r)
    /\ UNCHANGED <<upstream, kv, kvView, edge, inflight, publisherVars>>

Release(r) ==
    /\ pc[r] = "release"
    /\ Unlock(r)
    /\ Finish(r)
    /\ UNCHANGED <<upstream, kv, kvView, edge, publisherVars>>

\* The runtime drops a wait_until task: nothing removes its key.
Cancel(r) ==
    /\ "cancel" \in Faults
    /\ \/ r \in background
       \/ pc[r] \in {"putKV", "putEdge"}
    /\ Finish(r)
    /\ UNCHANGED <<upstream, kv, kvView, edge, inflight, publisherVars>>

\* The isolate goes away with its tasks and its in-memory set.
Recycle(i) ==
    /\ "recycle" \in Faults
    /\ LET lost == {r \in Requests : IsolateOf[r] = i} IN
         /\ pc' = [r \in Requests |-> IF r \in lost THEN "idle" ELSE pc[r]]
         /\ ver' = [r \in Requests |-> IF r \in lost THEN 0 ELSE ver[r]]
         /\ background' = background \ lost
    /\ inflight' = inflight \ {i}
    /\ UNCHANGED <<upstream, kv, kvView, edge, publisherVars>>

-----------------------------------------------------------------------------
(* post_announcement_created, up to the push: refresh_announcements_cache. *)

\* Slots that have read something from NocoDB and still have to write it.
Fetched(r)    == pc[r] \in {"pages", "putKV", "putEdge"}
PubFetched(p) == pubPc[p] \in {"pages", "putKV"}

\* Nothing read from NocoDB before version v is still to be written.
NoOlderFetch(v) ==
    /\ \A r \in Requests : Fetched(r) => ver[r] >= v
    /\ \A p \in Publishers : PubFetched(p) => pubVer[p] >= v

PubGoto(p, label) == pubPc' = [pubPc EXCEPT ![p] = label]

PubFinish(p) ==
    /\ PubGoto(p, "idle")
    /\ pubVer' = [pubVer EXCEPT ![p] = 0]
    /\ clean' = clean \ {p}

WebhookStart(p) ==
    /\ "webhook" \in Operations
    /\ pubPc[p] = "idle"
    /\ PubGoto(p, "fetch")
    /\ UNCHANGED <<upstream, kv, kvView, edge, requestVars, pubVer, clean,
                   announced, settled>>

WebhookFetch(p) ==
    /\ pubPc[p] = "fetch"
    /\ pubVer' = [pubVer EXCEPT ![p] = upstream]
    /\ PubGoto(p, "pages")
    /\ UNCHANGED <<upstream, kv, kvView, edge, requestVars, clean, announced,
                   settled>>

WebhookFetchRest(p) ==
    /\ pubPc[p] = "pages"
    /\ PubGoto(p, "putKV")
    /\ UNCHANGED <<upstream, kv, kvView, edge, requestVars, pubVer, clean,
                   announced, settled>>

\* Variant: a KV write that fails is only logged, as a refresh does.
WebhookPutKVLogged(p) ==
    /\ pubPc[p] = "putKV"
    /\ \/ WriteKV(p, pubVer[p])
       \/ "kvWrite" \in Faults /\ UNCHANGED <<kv, kvView>>
    /\ clean' = IF NoOlderFetch(pubVer[p]) THEN clean \cup {p} ELSE clean
    /\ PubGoto(p, "purge")
    /\ UNCHANGED <<upstream, edge, requestVars, pubVer, announced, settled>>

WebhookPutKV(p) ==
    /\ pubPc[p] = "putKV"
    /\ WriteKV(p, pubVer[p])
    /\ clean' = IF NoOlderFetch(pubVer[p]) THEN clean \cup {p} ELSE clean
    /\ PubGoto(p, "purge")
    /\ UNCHANGED <<upstream, edge, requestVars, pubVer, announced, settled>>

\* Any call that fails ends the handler with an error: no push is sent.
PublishFail(p) ==
    /\ pubPc[p] # "idle"
    /\ Faults \cap {"upstream", "kvWrite", "edgeWrite", "recycle"} # {}
    /\ PubFinish(p)
    /\ UNCHANGED <<upstream, kv, kvView, edge, requestVars, announced, settled>>

MaxOf(a, b) == IF a >= b THEN a ELSE b

\* Variant: only the edge cache next to the handler is emptied.
PurgeHere(p) ==
    /\ pubPc[p] = "purge"
    /\ edge' = [edge EXCEPT ![Home(p)] = Empty]
    /\ announced' = MaxOf(announced, pubVer[p])
    /\ settled' = IF p \in clean THEN MaxOf(settled, pubVer[p]) ELSE settled
    /\ PubFinish(p)
    /\ UNCHANGED <<upstream, kv, kvView, requestVars>>

\* The edge cache is purged by tag, everywhere; the announcement is then
\* pushed to the subscribers (or the admin call returns).
Purge(p) ==
    /\ pubPc[p] = "purge"
    /\ edge' = [d \in Datacenters |-> Empty]
    /\ announced' = MaxOf(announced, pubVer[p])
    /\ settled' = IF p \in clean THEN MaxOf(settled, pubVer[p]) ELSE settled
    /\ PubFinish(p)
    /\ UNCHANGED <<upstream, kv, kvView, requestVars>>

-----------------------------------------------------------------------------
(* The admin's delete_cache (also the second half of post_restore_backup): *)
(* list the cache keys, delete those listed, purge the edge cache.         *)

ClearList(p) ==
    /\ "clear" \in Operations
    /\ pubPc[p] = "idle"
    /\ pubVer' = [pubVer EXCEPT ![p] = upstream]
    /\ clean' = IF NoOlderFetch(upstream) THEN clean \cup {p} ELSE clean
    /\ PubGoto(p, IF kv = Empty THEN "purge" ELSE "deleteKV")
    /\ UNCHANGED <<upstream, kv, kvView, edge, requestVars, announced, settled>>

ClearKV(p) ==
    /\ pubPc[p] = "deleteKV"
    /\ WriteKV(p, Empty)
    /\ PubGoto(p, "purge")
    /\ UNCHANGED <<upstream, edge, requestVars, pubVer, clean, announced, settled>>

-----------------------------------------------------------------------------

RequestStep(r) ==
    \/ EdgeHit(r)
    \/ EdgeMiss(r)
    \/ Reject(r)
    \/ ServeStaleAndRefresh(r)
    \/ ServeStale(r)
    \/ ColdMiss(r)
    \/ Fetch(r)
    \/ FetchRest(r)
    \/ FetchFail(r)
    \/ PutKV(r)
    \/ PutKVFail(r)
    \/ PutEdge(r)
    \/ PutEdgeFail(r)
    \/ Release(r)
    \/ Cancel(r)

PublisherStep(p) ==
    \/ WebhookStart(p)
    \/ WebhookFetch(p)
    \/ WebhookFetchRest(p)
    \/ WebhookPutKV(p)
    \/ ClearList(p)
    \/ ClearKV(p)
    \/ Purge(p)
    \/ PublishFail(p)

Next ==
    \/ Edit
    \/ \E d \in Datacenters : Propagate(d)
    \/ \E d \in Datacenters : EdgeExpire(d)
    \/ \E i \in Isolates : Recycle(i)
    \/ \E r \in Requests : RequestStep(r)
    \/ \E p \in Publishers : PublisherStep(p)

Spec == Init /\ [][Next]_vars

\* Clients poll, so a datacenter whose edge cache is empty gets a request.
UserFairness == \A r \in Requests : WF_vars(EdgeMiss(r))

\* The runtime resumes a task whose await is over; KV and NocoDB answer one of
\* the calls that are made to them again and again.
ServerFairness ==
    /\ \A r \in Requests :
         /\ SF_vars(ServeStaleAndRefresh(r) \/ ServeStale(r) \/ ColdMiss(r))
         /\ SF_vars(Fetch(r))
         /\ SF_vars(FetchRest(r))
         /\ SF_vars(PutKV(r))
         /\ WF_vars(PutEdge(r))
         /\ WF_vars(Release(r))
    /\ \A p \in Publishers :
         WF_vars(\/ WebhookFetch(p)
                 \/ WebhookFetchRest(p)
                 \/ WebhookPutKV(p)
                 \/ ClearKV(p)
                 \/ Purge(p))

\* Edge entries expire, KV catches up, and no isolate lives for ever.
PlatformFairness ==
    /\ \A d \in Datacenters : WF_vars(EdgeExpire(d)) /\ WF_vars(Propagate(d))
    /\ \A i \in Isolates : WF_vars(Recycle(i))

LiveSpec == Spec /\ UserFairness /\ ServerFairness /\ PlatformFairness

-----------------------------------------------------------------------------
(* Properties.                                                             *)

\* An isolate runs at most one background refresh at a time, whatever fails:
\* the in-flight key is the only thing between a popular page and a stampede
\* on NocoDB (store.rs, INFLIGHT_REFRESHES).
SingleRefresh ==
    \A r, s \in background : IsolateOf[r] = IsolateOf[s] => r = s

\* Unless the runtime cancels a task, an isolate holds the key exactly while
\* one of its refreshes runs, so no isolate can stop refreshing for good.
LockMatchesRefresh ==
    "cancel" \notin Faults => inflight = {IsolateOf[r] : r \in background}

\* The versions a cache may serve.
Stored == {kv} \cup {edge[d] : d \in Datacenters}

NotBefore(v) == \A e \in Stored : e = Empty \/ e >= v

\* Once a webhook (or an admin's wipe) that met no older fetch in flight has
\* finished, neither the persistent cache nor any edge cache ever goes back to
\* something older: no interleaving of later refreshes, in any isolate, brings
\* the old announcements back.
SettledDataStay == NotBefore(settled)

\* All of it put together, and no more than it: to whoever reads them, the
\* caches are copies of a register.  Each holds nothing, or an answer no part
\* of which is older than the last publication that met no older fetch, and
\* none newer than NocoDB, whatever tasks, isolates and failures lie behind
\* each change of a copy.  An answer may be a mixture of what NocoDB held
\* while it was read (get_data!, store.rs; get_records, noco/data.rs): the
\* register knows a copy by the oldest of its parts.
Contract == INSTANCE Register WITH
    Places <- Datacenters, Nothing <- Empty,
    source <- upstream, floor <- settled, central <- kv, copy <- edge

ImplementsRegister == Contract!Spec

\* "Re-seed the persistent cache from NocoDB and purge the edge cache for this
\* environment so the new announcement is available immediately"
\* (router.rs:925): the same, for every webhook that finished.
AnnouncementAvailable == NotBefore(announced)

\* In one warm isolate with readable KV and no webhook, the persistent cache
\* never goes backwards: refreshes are serialised by the key, so one that
\* fetched earlier also wrote earlier.
WarmSingleIsolate ==
    /\ WarmStart
    /\ "kvRead" \notin Faults
    /\ Publishers = {}
    /\ \A i, j \in Isolates : i = j
    /\ \A d, e \in Datacenters : d = e

KVForward == [][WarmSingleIsolate => kv' >= kv]_kv

\* While the persistent cache is warm and readable, every request NocoDB gets
\* is one of the guarded refreshes: never more at a time than there are
\* isolates, however many clients ask ("Requests that miss the edge cache will
\* hit the persistent cache instead", store.rs:87).
UpstreamLoad ==
    (WarmStart /\ "kvRead" \notin Faults /\ "clear" \notin Operations) =>
        Cardinality({r \in Requests : pc[r] \in {"fetch", "pages"}})
            <= Cardinality(Isolates)

\* When the data in NocoDB stop changing, every cache ends up without an
\* outdated copy: a client that keeps following the retry directive gets the
\* current data ("by which point the persistent cache in KV should have been
\* updated with fresh data from NocoDB", store.rs:93).
UpToDate ==
    \A e \in Stored \cup {kvView[d] : d \in Datacenters} :
        e = Empty \/ e = upstream

Converges == <>[]UpToDate

=============================================================================
