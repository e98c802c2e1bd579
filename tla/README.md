# FanJam in TLA+

FanJam serves convention schedules. Organisers edit a NocoDB base per
convention ("environment"); a Rust worker on Cloudflare Workers (`server/`)
exposes the data through two caches and offers an admin API; a Vue app
(`client/`), itself served by a small edge worker (`client/worker/`), shows it
and works offline. This directory holds TLA+ models of the parts of that system
whose correctness depends on the order of events, the TLC configurations that
check them on small instances, and TLAPS proofs of what holds for every
instance.

## Inventory

| Part | State it keeps | Operations | Hard because |
|---|---|---|---|
| Data cache (`store.rs`, `cache.rs`, `router.rs`) | KV copy of each kind of data (never expires), one edge cache per datacenter (short TTL), an in-memory set of keys being refreshed per isolate | GET handlers, `wait_until` refreshes, announcement webhook, `delete_cache` | tasks interleave at every await; isolates share KV but not the set; every service may fail; KV is eventually consistent |
| Environment directory (`router.rs`, `kv.rs`) | `env:{e}:id`, `id:{i}:env`, `env:{e}:domain`, `domain:{d}:env`, `alias:{i}` | `put_link`, `put_env_domain`, `delete_env_domain`, lookups, aliases | several KV keys must agree and there are no transactions |
| Base provisioning (`store.rs`, `router.rs`, `noco/base.rs`, `sql.rs`) | `noco_bases` in Postgres, the bases in NocoDB, cached base ID and table IDs in KV | `post_base`, `delete_base`, the user requests that refill the caches | three stores, crashes between them, user requests in the middle |
| Migrator (`noco/migrate.rs`, `noco/migrations/`) | the schema in NocoDB, `noco_migrations` | `post_apply_migration`, migrations n1 to n5 | one HTTP request per table, column or view; schema and recorded version change separately; what a migration looks up by name must have been left by the ones before |
| Neon backups (`neon.rs`) | named snapshots of the database | `create_backup`, `restore_backup`, `with_rollback`, garbage collection | the old backup is deleted before the new one exists; overlapping calls share the checkpoint's name |
| Push (`push/`, `kv.rs`, `usePushNotifications.ts`, `sw.ts`) | subscriptions in KV, the browser's subscription, a localStorage flag | subscribe, unsubscribe, webhook fan-out, eviction | lost or repeated webhooks, evictions that race re-subscription |
| Client remote data (`useRemoteData.ts`) | the result on display, one localStorage entry per kind, a retry counter and timer per view | reload, retry, alias redirect, change of view, environment or page | everything after an await may belong to a page the user has left |
| Data reader (`noco/data.rs`) | none of its own; reads the base page by page | `get_events`, `get_info`, `get_pages`, `get_announcements`, `get_files` | organisers edit, and the admin migrates, rolls back or restores, between two pages |
| Client storage (`useStarredEvents.ts`, `useReadAnnouncements.ts`) | starred events and read announcements, in each tab's memory and in localStorage | toggle, shared schedule, debounced write | writes happen later than the change they belong to; tabs share the storage and nothing else |
| Edge worker (`client/worker/index.ts`) | none | resolve the host, redirect to the custom domain | depends on the directory being consistent |

What makes them correct: caches never lose a newer value for an older one once
things have settled, and converge; a refresh can neither stampede nor be locked
out; links and domains lead to the environment they belong to, whatever was cut
short; a tab shows the data of the environment it is at, and stops asking when
the server stays stale; a failed administrative operation leaves the database
as it was and a backup behind; everyone who subscribed is notified.

`PROJECT.json` lists every component with its status, and under "hazards" the
lines at which each of these may go wrong.

## Modules

### DataCache

One kind of data of one environment. Data are version numbers: `upstream` is
NocoDB's, `kv` the persistent cache, `kvView[d]` what a KV read in datacenter `d`
returns, `edge[d]` the edge cache, `inflight` the isolates whose
`INFLIGHT_REFRESHES` holds the key. A request slot `r` walks through `EdgeHit |
EdgeMiss`, then `ServeStaleAndRefresh | ServeStale | ColdMiss`, then `Fetch`,
`FetchRest`, `PutKV`, `PutEdge`, `Release`, one action after another wherever
`get_data!` awaits, because tasks of an isolate interleave exactly there. A
publisher slot is the webhook (`WebhookStart`, `WebhookFetch`, `WebhookFetchRest`,
`WebhookPutKV`, `Purge`) or the admin's wipe (`ClearList`, `ClearKV`, `Purge`).
`Faults` switches on failing services, KV lag, cancelled `wait_until` tasks and
isolate evictions.

An answer is not read at once: it takes a request for the table IDs and one for
each page of each list, with an await each, and NocoDB may be edited between them.
`Fetch` is the first that is answered, `FetchRest` the last. An answer may therefore
be a mixture, and is known by the oldest of its parts: `ver` is the version NocoDB
held at `Fetch`, and the rest may be of that or of any version up to `FetchRest`.
Everything that is said of the age of a copy is said of its oldest part.

`clean`, `announced` and `settled` are history: the newest version a publisher
has published, over all of them and over those that met no fetch older than
their own. No action reads them.

`Register` is the abstract specification: a source, a central copy, a copy at
each place and a floor below which no copy is kept. It has no requests, tasks,
keys or faults. `ImplementsRegister` maps `upstream`, `kv`, `edge` and `settled`
to it. It does not say that a copy is a state NocoDB was in, which would be false:
a step that changes a copy puts something there that is not older than the floor
and not newer than the source, and every other step is a stutter.

### EnvDirectory

The four mappings, one KV call per action, handlers of different environments
interleaved, any of them cut short (`Abort`). For one environment calls are
serial, as the comment at `router.rs:39` expects; a read of a key only the
environment's own handler writes is taken with the step that uses it. `Resolve`
is `get_id_env`, `Visit` a request to a custom domain, `OpenLink` a request to
the default link, through the edge worker's redirect. `mishaps` is history:
whether a call has ever failed or overlapped another.

`MayUse` says which IDs the operators of an environment choose from. `put_link`
takes any ID, so the link properties are stated for IDs nobody else chooses.

### RemoteData

One data source of one tab. `Mount`, `Switch`, `ReloadPage` and `Trigger` are
the user (or a push message); `Retry` and `RetryLeaked` the timers; the other
actions are the server's possible answers to a reload in progress. Each view
has a `retryCount` and timers of its own; `tracked` says whether
`retryTimeout` refers to a pending timer and `leaked` counts those it no longer
refers to. The server is free: any answer to any request, `DataCache` being the
model of what it serves. IDs and environments are distinct, so that renamed IDs
(aliases) are not mistaken for switching.

localStorage outlives the page and is shared with other tabs. `Outside` is what the
tab may find there at the start, and what other tabs put there while it is open
(`OtherTab`): readable or not, also data of one environment under the ID of another,
which is how an answer that came after a switch is stored (`Accept`). `switched`
(the page has gone to another environment) and `mixed` are history. `mixed` holds
from the moment an entry under a wrong ID is in localStorage, or an alias has made
the tab relabel an entry it had not stored itself, until the next answer with data
replaces it.

### Announcements

The push side of an announcement in one environment. Organisers choose the
environment's ID (`PutLink`) and the base is migrated (`InstallHook`, migration
n5), in either order. A browser has one subscription at a time, `<<b, n>>` being
its n-th endpoint: `Subscribe` and `Probe` post it, `Posted`, `PostRefused` and
`PostedUnheard` are the possible outcomes, `flags` the localStorage entries that
stop the probe from posting again. `OtherIds` are the IDs of the browser's other
environments, of which only their answers matter here (`PostedElsewhere`): the
probe makes the flag's key before its request, but `requestAndSubscribe` makes it
after the answer, from the environment the attendee is at by then (`FlagOf`), so
that another environment's answer may set a flag of this one (`misfiled`). An
announcement walks through `Announce`, `Route` (`get_id_env`), `Refresh`, `List`
and one `Deliver`, `Refuse` or `Evict` per subscription, in any order; fan-outs
overlap. An endpoint is `Alive` while it is its browser's subscription; otherwise
the push service answers 404 or 410. KV listing is one step: keys that come and go
between pages are posts and evictions before or after it. `audience` and `refused`
are history.

### Provisioning

The life of the NocoDB base. NocoDB and the worker keep their data in the same
Neon branch, `db`: the bases NocoDB has, with their schema version and their
`pages` table, and the worker's rows `noco_bases` and `noco_migrations`. `snaps`
are the snapshots that are looked up by name, `kvBase` and `kvTables` the cached
IDs. `admin` is the admin call in progress with the step it is at: `Start*` are
the handlers' beginnings, `Archive` and `Snapshot` are `create_backup`,
`WipeTables` and `WipeBase` `kv::delete_cache`, `Create` to `Record` the
migrator, `Destroy` and `Forget` the body of `delete_base`, `Rollback` the error
path of `with_rollback`, `Restore` `restore_backup`. A slot of `gets` is an
attendee's request: `GetStart`, `GetDb` and `GetPut` are `from_env_name`,
`GetTables`, `GetList` and `GetPutTables` `get_table_ids`. Bases and pages tables
are numbered as they are created, which is the order of the `sequence` column.

Any step inside `with_rollback` may fail (`BodyFails`, `RunPart`), any step
outside it, and any handler may be cut short (`CutShort`), and bases may be
deleted in the dashboard. `deleted` (the base NocoDB lost by the last deletion,
from `Destroy` on, until it is rolled back, a restore brings it back or another
base is to be deleted), `tainted` (whether a cached ID may be another base's) and
`mishaps` are history.

`Lifecycle` is the abstract specification: an environment's base, what is saved of
it under a name, and single steps that found, advance, end, save and recover it. It
has no calls, no requests to services, no checkpoint and no cache. A live base is
advanced only while an earlier state of the same base is saved as "migration", and
ended only while it is saved, as it is, as "deletion"; a new base is none of those
that are saved. `Lose` is the dashboard's part. `CallsAreTransactions` maps the
database to it as `View` sees it (the newest base, whether NocoDB has it, its
schema and recorded version): the checkpoint while `with_rollback` is at work, the
database otherwise (`Committed`). `Insert`, `Record` and `Forget` are the steps at
which a transaction takes effect; `Create`, `Run`, `Destroy` and a rollback are
stutters. `torn` says that a handler was cut short inside `with_rollback`: the
step that does so may leave a base lost or one version ahead of its record
(`Tear`), and nothing is promised of the base from then on, although what is saved
still is saved.

### Schema

What the migrations do to the base, in detail. A column is a triple of a table, a
name and a title: migrations look it up by name, the reader by title. A step is
one request: what it needs, by name and by title, what it creates and what it
drops; n1 to n5 are sequences of phases of such steps. `db` is the live database,
`checkpoint` and `backup` its copies. `RunStep` fails when what it refers to is
not there or already is (`Accepts`); `Rollback`, `Crash` and `Restore` are the
failures of the migrator. `Provisioning` has the same calls with a schema that is
a number: it is about when they happen, `Schema` about what they do. `Fields` is
what the reader decodes of each table, and `Decodes` says that the schema has it.

### DataReader

Extends `Schema` with the rows. A reader resolves the table IDs (`ReadStart`) and
lists its tables page by page: `ReadPage` is one turn of the loop of
`list_records`, whose offset is the number of records received so far. Different
tables are listed concurrently, except by `get_info`. In between organisers add
and delete rows (`InsertRow`, `DeleteRow`) and the admin migrates, rolls back and
restores, which takes the rows along. `ReadUndecodable` is an answer that serde
refuses. `Schedule`, `GetEvents`, `GetInfo` and `GetFiles` are what the readers
make of the records; `GetFiles` duplicates in the source what two other readers
compute. `noise` is history: whether rows were added, deleted or replaced since
the call began.

### Starred

The list of starred events, of several tabs. `starred` is the module-level ref of
`useStarredEvents.ts`, `pending` what the one debounce timer of the tab will write
(`Save`), `share` the `share` parameter of the URL. A link opened from outside
starts the page afresh (`Open`); `Redirect` (an alias, see `RemoteData`), `Switch`
(any other change of the ID without a reload, `useEnvId.ts`) and `Travel` (back
and forward to a page with a `share` parameter of its own) change it in place
(`Move`), and take the list along; `Mount` is another component that starts to use
the list. `Toggle`, which the components refuse over a shared schedule
(`MayStar`), `ExitSharedSchedule` and `AddToSchedule` are the user. The watchers
run in the microtask that follows a change and belong to it (`Sync`). The dialog
over a shared schedule cannot be opened and answered within the 100 ms of the
timer (`InDialog`). `mine` (what the user starred or added in each environment),
`carried` (the environments to which a tab took another one's list in place),
`own` and `saver` are history.

## Runs

| Run | Question | Result |
|---|---|---|
| `race` | Two isolates in two datacenters, three requests, a webhook or wipe, every fault but cancellation | types, `SingleRefresh`, `LockMatchesRefresh`, `SettledDataStay` hold; `ImplementsRegister`: the caches are an abstract register, a copy being known by its oldest part |
| `warm` | One warm isolate, three requests, three edits, cancellation and eviction | `KVForward`, `UpstreamLoad` hold |
| `converge` | Does every cache become current after the last edit, with KV lag and every fault except unreadable KV? | `Converges` holds |
| `mishaps` | Two environments, two domains, a shared ID, overlapping and failing calls | types, `CurrentLinkResolves`, `ReverseImpliesForward`, `LinksLeadHome` hold |
| `tab` | Two views, two reloads, three IDs of two environments, page reloads, right, wrong and unreadable entries left by earlier visits and other tabs | types, `PinnedTabShowsItsEnv`, `StaleAnswerRetried`, `RetriesDieOut` hold |
| `switch` | Is cached data invalidated when the user switches environment (`useRemoteData.ts:194`)? | violated by an answer that arrives after the switch |
| `fanout` | One browser that renews its subscription, two announcements that overlap, refusals, failing calls and evictions, answers of another environment | types, `FlagMeansStored`, `FanOutComplete`, `AudienceNotified` hold |
| `optin` | Do attendees who opt in receive announcements (`docs/guide.md:68`)? | violated when the base is migrated before it has a link, as the justfile does; also after a change of link |
| `provision` | Three admin calls of any kind, two bases, two migrations, a request in the middle, every fault | types, `DatabaseIntact`, `CacheMatches`, `DeletionUndoable` hold; `CallsAreTransactions`: the calls are the transactions of `Lifecycle` |
| `migrate` | An empty base migrated to the last version, every request of which may fail, with crashes, rollbacks and restores | `ReadersDecode`, `SchemaMatchesVersion`, `RecordedIsTrue` hold |
| `read` | One call of three readers over two pages of events, while a row is added or deleted and the base is migrated from version 1 on, rolled back or restored | types (of the schema too), `GrowingListsComplete`, `NothingListedTwice`, `ScheduleInOrder`, `UndisturbedAnswersAgree`, `ReadsEnd` hold |
| `starred` | Two tabs, two environments, one of them with a former ID, a shared schedule, four pages opened or changed to in place | types, `NoForeignStars`, `ShownIsSaved`, `ExitRestores` hold |

Deadlock checking is off where every process may rightly stop (a tab whose user
does nothing more) and on elsewhere.

### What does not hold

`switch` and `optin` keep two disagreements between the code and what is said of
it. Three more statements are defined in the modules and have a counterexample;
adding one of them to the run named finds it:

- `AnnouncementAvailable` (`DataCache`, with the constants of `race`): a new
  announcement is not available immediately, as `router.rs:925` says, when a
  refresh that fetched before the edit writes after the purge;
- `NotModifiedIsShown` (`RemoteData`, with the constants of `tab`): after a 304
  there may be nothing on display, against the reasoning at
  `useRemoteData.ts:141`, when the cached copy cannot be read (line 249);
- `CachedBaseIsCurrent` (`Provisioning`, with the constants of `provision` and no
  faults): the cached base ID is not always invalidated when the base changes
  (`kv.rs:62`): a request that overlaps `delete_base` writes the old one back.
  `CacheMatches` is what holds in spite of that.

Four properties except a case in which the code does something else, and of which
nothing in the repository speaks. The comment of each names the case; TLC finds it
when the condition given here is dropped:

- `PinnedTabShowsItsEnv` (`mixed`): an entry of A's data under B's ID, stored by a
  page that was switched while an answer was on its way (`useRemoteData.ts:199`)
  or by another tab, is shown by the next page at B until an answer with data
  replaces it. An alias relabels whatever entry is there, also one another tab has
  stored for another environment meanwhile (lines 158 to 163);
- `FlagMeansStored` (`misfiled`): an attendee who subscribes at A and goes to B before
  the answer has the subscription flagged under B, where nothing is stored
  (`usePushNotifications.ts:93-96`). No probe at B ever posts it;
- `DeletionUndoable` (`cut`): a deletion cut short after NocoDB has deleted the base
  leaves its row. Asked for again, it first makes a new backup (`store.rs:499-502`),
  now of a database without the base, in the place of the good one. The condition is
  simpler, and wider, than the case: no call was ever cut short there;
- `NoForeignStars` (`carried`): a page that goes from environment A to B in place
  keeps A's list and writes it under B at once, over what was there
  (`useStarredEvents.ts:44-49`), as a redirect to a new ID overwrites the list
  that is stored under it. `ShownIsSaved` holds all the same: it is about the
  timer, not about whose list it is.

And what `ImplementsRegister` does not say: an answer may mix what NocoDB held at
different moments, so that until its next refresh a cache may hold a state NocoDB was
never in. It also speaks of publications that met no older fetch only.

### Bounds

- `race`, `converge`: one edit suffices for two versions, "old" and "new"; three
  requests are two racing writers and a reader; two isolates in different
  datacenters share KV and nothing else. `warm` has three edits because
  monotonicity in one isolate needs several refreshes in a row.
- `mishaps`: two environments and two domains are the fewest that can compete
  and swap; the third ID is the shared one.
- `tab`: `MAX_RETRIES` is 2 instead of 5, `MaxTriggers` bounds what the user and other
  tabs do, two reload slots let two reloads overlap, which is what the leaked timers
  need. There is one version: the properties tell environments and stale answers
  apart, not versions. `Outside` has entries of either environment under the ID of
  either, right or wrong, and right ones that cannot be read.
- `fanout`: two announcements are two overlapping fan-outs; one browser with two
  endpoints has a dead and a living subscription stored side by side, which is
  what eviction in the middle of a fan-out needs. Subscriptions of different
  browsers do not touch each other. One other environment (`OtherIds`) is where an
  answer can come from too late.
- `provision`: three calls are a creation, a deletion or migration and what is
  done about it (a retry, a restore); two bases are the deleted one and its
  successor; with two migrations the second brings the last table that the
  cached table IDs need.
- `migrate` needs no bound: the migrations are finite sequences, and a rollback or
  restore leads back to a state seen before. Every base begins at version 0.
- `read`: three events and pages of two are the fewest that need a second page;
  one edit then falls before, between or after the pages. A second edit can only
  add to the `noise` that the properties distinguish. Only events are edited:
  lists of different tables do not touch each other. A base at version 1 cannot be
  read until n2 has made the last of the tables; n2 to n5 then run under the call.
- `starred`: two tabs race on one key; three IDs are two environments and an alias;
  `MaxPages` counts the pages shown by both tabs, opened or changed to in place: with
  four, one tab can take a list along while the other has opened, reloaded or
  changed its own. One event is enough to tell a foreign star from one's own, and a
  shared schedule has it or is empty (or cannot be decoded, which shows the same).

### Fairness

`Converges` assumes that clients keep polling a datacenter whose edge cache is
empty, that a suspended task is resumed, that a service which is called again
and again answers one of the calls (strong fairness of `Fetch`, `FetchRest` and
`PutKV`; weak fairness is enough of `PutEdge`, which stays possible until the task
has gone on), that edge entries expire and KV catches up, and that isolates do not
live for ever. `RetriesDieOut` assumes that requests end, by an answer or an
error, and that timers fire. `AudienceNotified` assumes that the runtime finishes
a webhook call and the `wait_until` task it leaves. `ReadsEnd` assumes that
NocoDB answers a request or the call fails, and that the runtime continues the
handler. Users and organisers are never assumed to do
anything.

## Proofs

`DataCacheProofs`, `EnvDirectoryProofs`, `RemoteDataProofs`, `AnnouncementsProofs`,
`ProvisioningProofs`, `SchemaProofs`, `StarredProofs` and `DataReaderProofs` prove,
for every value of the constants that satisfies the named assumptions:

- type correctness of the eight specifications;
- `SingleRefresh` and `LockMatchesRefresh`, from an invariant that ties the
  in-flight keys to the background tasks that inserted them (a task's key is
  present as long as the task is, and no two tasks of an isolate have one);
- `SettledDataStay`, from an invariant over everything that may still be
  written: stored versions and versions fetched but not yet written are not
  older than `settled`, and nothing in flight is older than what a clean
  publisher is about to settle;
- `KVForward`: in a warm isolate whatever waits to be written is not older than
  what KV holds, because only the holder of the key fetches;
- `UpstreamLoad`, for finitely many isolates: every client of NocoDB that is
  counted holds the key of its isolate, and by `LockMatchesRefresh` no two the
  same, so that mapping a task to its isolate is an injection;
- `ImplementsRegister` (`CachesAreARegister`): under the invariant of
  `SettledDataStay`, in which a version is that of the oldest part of an answer
  (`FetchedPast`: it is never newer than NocoDB), every step of the caches is a step
  of `Register` or a stutter;
- `ReverseImpliesForward` and `CurrentLinkResolves`, which are inductive with
  the facts about a handler that has written one key and not the other, and
  `LinksLeadHome`, which needs in addition what each program point implies while
  nothing has gone wrong;
- `PinnedTabShowsItsEnv`, from the invariant that, in a page that was not switched,
  every reload in progress is for the environment of the current ID and, unless
  localStorage is mixed, the stored value and the result belong to it too; an answer
  with data therefore ends the mixture;
- `StaleAnswerRetried`: a view whose last answer was stale has used its retries up,
  has a timer, or has asked again; an answer to another view's reload leaves that
  as it is;
- `FlagMeansStored` (of the flags this environment's own answers set) and
  `FanOutComplete`, from the facts that an endpoint that is
  gone never comes back, that only such endpoints leave KV, and that whoever is
  in the audience and alive is in KV until the keys are listed, then among those
  still to come to, then among those come to;
- `DatabaseIntact`: it speaks of the moments between calls only, so the invariant
  adds what each step of a call may rely on. The database, and every snapshot
  that may be restored, is in order at every step except between creating a base
  and its row, between a migration and its record, and before a rollback;
  `post_base` works on an empty table of bases; the version the migrator counts
  is the one recorded; nothing refers to a base before it is created, so that a
  restored snapshot is not mistaken about newer ones. The condition is that no
  handler was cut short inside `with_rollback`; without it the property is false;
- `CacheMatches` and `DeletionUndoable`: the cached IDs are right
  about the database, or a wipe is about to delete them (a restore changes the
  database first and wipes the cache then), and right about the checkpoint as long
  as one may go back to it; once `delete_base` or `post_base` has wiped them they
  stay empty, because requests that would fill them are an overlap. From its backup
  on `delete_base` only deletes what is in it. Once the base is gone (`GoneInv`) the
  step after it takes its row, a rollback brings it back, and from then on no cached
  ID, row, checkpoint or request refers to it, so that it cannot be deleted a second
  time, which would replace the backup; a call cut short inside `with_rollback` may
  leave the row, which is the exception of `DeletionUndoable`;
- `CallsAreTransactions` (`CallsMakeTransactions`), with the same order of the
  database and four more facts. While `with_rollback` is at work the database is one
  step of the call away from the checkpoint (`CheckpointInv`), so that a rollback
  changes nothing that counts and the step that ends it takes effect at once. From
  its backup on `delete_base` changes nothing but the caches, so that what it ends is
  what it saved (`DeletionInv`); the migrator goes forward from a backup of the same
  base (`BackupOfMigrated`); the base about to get its row is in no snapshot
  (`NewToSnapshots`). "The same" is up to a base lost to the dashboard meanwhile,
  which `Lifecycle` takes as a step of its own or as part of the one it meets
  (`Perhaps`). The invariant is claimed only until a handler is cut short inside
  `with_rollback`; from then on the proof needs types alone;
- `ReadersDecode`, `SchemaMatchesVersion` and `RecordedIsTrue`, from the invariant
  that the base lies between its recorded version and the next (`Between`), is
  exactly the recorded one unless it was cut short (`Exact`), and that what the
  finished steps of the current migration create and drop is done (`Progress`);
- `NoForeignStars`, from the invariant that what a tab shows, has shown last as
  the user's own, stores or is about to store lies in what the user may have there
  (`Ours`), which only grows (`OursGrows`); `ShownIsSaved` and `ExitRestores`,
  from the invariant that what a tab is about to write is its own latest list, and
  that when nothing is pending that list is in storage unless another tab has
  saved since. The proof needs that the dialog cannot be answered before the timer
  has fired, as `TheTimerIsEnough` and `OwnScheduleComesBack` say for what is
  shown and restored;
- `GrowingListsComplete` and `NothingListedTwice`, from an invariant with one part
  per level of `noise`, for every table, page size and number of calls. A table's
  IDs ascend and are below the next one. While rows were added at most, what a
  call has received is a prefix of the table, at least as long as the table was
  when the call began once it is listed to the end (`Prefix`). While rows were
  deleted too, what it has received ascends, and what is still to come, from the
  offset on, is newer than that (`Ascending`): a deletion moves rows to earlier
  offsets, which makes the call miss some and meet none again. After a rollback
  or a restore nothing is known;
- `UndisturbedAnswersAgree`: without edits the prefix is the whole table;
- `ScheduleInOrder`, from what a stable sort returns. The rank of a position is one
  more than the number of positions before it; ranks are a bijection onto 1 to the
  number of positions (`RankIsInjection`, by the order of the sets of positions
  before), so that sorting yields each kept element exactly once, in order
  (`StableSortSorts`). Of two such sorts the second keeps the order of the first
  among equals. The lemma `ScheduleSorts` says in addition that the schedule has
  every event that can be placed exactly once;
- that `DataReader` implements `Schema` (`ReadersLeaveSchemaAlone`), and with
  `ReadersDecode` that a call whose answer cannot be decoded met a base with a
  missing table (`OnlyMissingTablesStopReaders`).

Liveness (`Converges`, `RetriesDieOut`, `AudienceNotified`, `ReadsEnd`) is out of
the prover's reach and is model-checked only. The sorts of `Schedule` are defined
by the rank of each position instead of recursively, because what a recursive
definition computes for every input could not be proved.

## Plan

1. The rest of the push component: `delete_subscription` against a running
   fan-out, and `useReadAnnouncements` on the client.
2. The schedule utilities (`utils/time.ts` and the calendar layout) as functions
   against a reference definition.

## Not modelled

Push encryption and VAPID signatures (byte-level, covered by the RFC vectors in
the source); HTTP plumbing, authentication, configuration parsing; the user
interface; infrastructure and operator scripts; the formatting of pages and
announcements by the data reader, and what the cells of a row contain beyond what
order and membership need. `useReadAnnouncements` (its write is not debounced),
and a localStorage that refuses a write. A migration that NocoDB applies although
the answer is lost is a request that fails: both end in a rollback. `get_config`
and `get_asset` fill the edge cache only. Aliases, tokens and per-environment
configuration are single KV writes. The webhook's early exit when the server has
no VAPID key or the environment has switched push off (`router.rs:892-909`):
nothing is ever pushed then.

Simplifications that matter to what is said: the KV of `EnvDirectory`,
`Provisioning` and `Announcements` is consistent (its lag is modelled in
`DataCache`); the times of events in `DataReader` are numbers, so that comparing
their texts (`data.rs:308`) and the dates parsed from them (`data.rs:270`) is the
same, and every text is a date; whether a page is the last is NocoDB's answer at
the moment it makes the page; NocoDB refuses to create what exists, except the
webhook of n5, of which a crash and a second attempt may leave two.
