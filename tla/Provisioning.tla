----------------------------- MODULE Provisioning -----------------------------
(***************************************************************************)
(* The life of an environment's NocoDB base: post_base, delete_base,       *)
(* post_apply_migration, post_backup, post_restore_backup and delete_cache *)
(* of the admin API, on the Neon snapshots they make and restore, while    *)
(* attendees' requests fill the cached base ID and table IDs again.        *)
(*                                                                         *)
(* NocoDB and the worker keep their data in the same Neon branch, so a     *)
(* restored snapshot takes both back.  Admin calls come one at a time, as  *)
(* the comment at router.rs:39 expects; they may be cut short anywhere.    *)
(***************************************************************************)
EXTENDS Naturals

CONSTANTS
    Latest,      \* number of migrations
    MaxBases,    \* bound: bases ever created
    MaxTables,   \* bound: "pages" tables ever created
    MaxCalls,    \* bound: admin calls
    Gets,        \* slots for attendees' requests
    Calls,       \* the admin calls that are made
    Faults,      \* "fail": calls to services fail, handlers are cut short
    None

CallNames == {"create", "delete", "migrate", "backup", "restore", "wipe"}

ASSUME BoundsAssumption ==
    /\ Latest \in Nat /\ MaxBases \in Nat
    /\ MaxTables \in Nat /\ MaxCalls \in Nat
ASSUME CallsAssumption == Calls \subseteq CallNames
ASSUME FaultsAssumption == Faults \subseteq {"fail", "dashboard"}

\* The last of the tables that TableIds needs, "pages", comes with n2.
PagesVersion == 2

\* Bases and pages tables are numbered as they are created; 0 is none.
Bases == 1..MaxBases

VARIABLES
    db,          \* what the Neon branch holds
    bases,       \* number of bases ever created
    tables,      \* number of pages tables ever created
    snaps,       \* the snapshots that are looked up again, by name
    kvBase,      \* env:{env}:base-id
    kvTables,    \* env:{env}:tables, by its pages table
    admin,       \* the admin call in progress
    calls,       \* number of admin calls begun
    gets,        \* attendees' requests
    deleted,     \* history: the base NocoDB has deleted last for delete_base
    tainted,     \* history: the cached IDs may be those of another base
    mishaps      \* history: what has gone wrong for the database

made    == <<bases, tables>>
cached  == <<kvBase, kvTables>>
history == <<deleted, tainted, mishaps>>
vars    == <<db, made, snaps, cached, admin, calls, gets, history>>

Db == [rows     : SUBSET Bases,               \* noco_bases
       inNoco   : SUBSET Bases,               \* the bases NocoDB has
       schema   : [Bases -> 0..Latest],       \* the last migration run
       dirty    : SUBSET Bases,               \* bases left in between
       pages    : [Bases -> 0..MaxTables],    \* their pages tables
       recorded : [Bases -> 0..Latest]]       \* noco_migrations

ASSUME NoneAssumption == None \notin CallNames /\ None \notin Db

Kinds == {"checkpoint", "deletion", "deployment", "migration"}

\* What with_rollback runs.
Body == {"create", "insert", "run", "record", "destroy", "forget"}

Steps == Body \cup {"idle", "archive", "snapshot", "wipeTables", "wipeBase",
                    "dropRow", "restore", "rollback"}

Call == [call : Calls \cup {None}, step : Steps,
         kind : Kinds \cup {"manual"}, source : Kinds,
         base : 0..MaxBases, version : 0..Latest]

Idle == [call |-> None, step |-> "idle", kind |-> "checkpoint",
         source |-> "checkpoint", base |-> 0, version |-> 0]

Request == [step : {"idle", "db", "put", "tables", "list", "putTables"},
            base : 0..MaxBases, pages : 0..MaxTables]

NoRequest == [step |-> "idle", base |-> 0, pages |-> 0]

TypeOK ==
    /\ db \in Db
    /\ bases \in 0..MaxBases
    /\ tables \in 0..MaxTables
    /\ snaps \in [Kinds -> Db \cup {None}]
    /\ kvBase \in 0..MaxBases
    /\ kvTables \in 0..MaxTables
    /\ admin \in Call
    /\ calls \in 0..MaxCalls
    /\ gets \in [Gets -> Request]
    /\ deleted \in 0..MaxBases
    /\ tainted \in BOOLEAN
    /\ mishaps \subseteq {"cut", "overlap", "dashboard"}

Init ==
    /\ db = [rows |-> {}, inNoco |-> {}, schema |-> [b \in Bases |-> 0],
             dirty |-> {}, pages |-> [b \in Bases |-> 0],
             recorded |-> [b \in Bases |-> 0]]
    /\ bases = 0
    /\ tables = 0
    /\ snaps = [k \in Kinds |-> None]
    /\ kvBase = 0
    /\ kvTables = 0
    /\ admin = Idle
    /\ calls = 0
    /\ gets = [g \in Gets |-> NoRequest]
    /\ deleted = 0
    /\ tainted = FALSE
    /\ mishaps = {}

\* get_base: the row with the highest sequence number.
Newest(rows) ==
    IF rows = {} THEN 0 ELSE CHOOSE b \in rows : \A c \in rows : c <= b

\* get_current_migration, over all bases that have a record.
CurrentMigration ==
    LET b == Newest({c \in db.rows : db.recorded[c] > 0})
    IN  IF b = 0 THEN 0 ELSE db.recorded[b]

Requests == {g \in Gets : gets[g].step # "idle"}

-----------------------------------------------------------------------------
(* The calls begin.                                                        *)

Begin(call) ==
    /\ call \in Calls
    /\ admin = Idle
    /\ calls < MaxCalls
    /\ calls' = calls + 1
    /\ IF call # "backup" /\ Requests # {}
       THEN tainted' = TRUE /\ mishaps' = mishaps \cup {"overlap"}
       ELSE UNCHANGED <<tainted, mishaps>>
    /\ UNCHANGED <<db, made, snaps, gets>>

\* from_env_name takes the base from KV, or from the database and caches it,
\* if KV lets it.
Lookup(b) ==
    /\ b = IF kvBase # 0 THEN kvBase ELSE Newest(db.rows)
    /\ b # 0
    /\ \/ kvBase' = b
       \/ "fail" \in Faults /\ kvBase' = kvBase
    /\ UNCHANGED kvTables

\* post_base: refused if the base in the table exists; if it does not, it was
\* deleted in the dashboard and is cleaned up first.
StartCreate ==
    /\ Begin("create")
    /\ Newest(db.rows) \notin db.inNoco
    /\ admin' = [Idle EXCEPT !.call = "create",
                             !.step = IF db.rows = {} THEN "archive" ELSE "wipeTables",
                             !.base = Newest(db.rows)]
    /\ UNCHANGED <<cached, deleted>>

\* Variant: no backup is made before a deletion.
StartDeleteUnsaved ==
    /\ Begin("delete")
    /\ \E b \in Bases :
         /\ Lookup(b)
         /\ admin' = [Idle EXCEPT !.call = "delete", !.step = "wipeTables",
                                  !.kind = "deletion", !.base = b]
         /\ deleted' = IF b = deleted /\ "cut" \notin mishaps THEN deleted ELSE 0

StartDelete ==
    /\ Begin("delete")
    /\ \E b \in Bases :
         /\ Lookup(b)
         /\ admin' = [Idle EXCEPT !.call = "delete", !.step = "archive",
                                  !.kind = "deletion", !.base = b]
         /\ deleted' = IF b = deleted /\ "cut" \notin mishaps THEN deleted ELSE 0

StartMigrate ==
    /\ Begin("migrate")
    /\ \E b \in Bases :
         /\ Lookup(b)
         /\ admin' = [Idle EXCEPT !.call = "migrate", !.step = "archive",
                                  !.kind = "migration", !.base = b,
                                  !.version = CurrentMigration]
    /\ UNCHANGED deleted

StartBackup ==
    /\ Begin("backup")
    /\ \E b \in Bases : Lookup(b)
    /\ admin' = [Idle EXCEPT !.call = "backup", !.step = "archive",
                             !.kind = "deployment"]
    /\ UNCHANGED deleted

\* What is there is first saved under a name of its own.
StartRestore(k) ==
    /\ Begin("restore")
    /\ admin' = [Idle EXCEPT !.call = "restore", !.step = "archive",
                             !.kind = "manual", !.source = k]
    /\ UNCHANGED <<cached, deleted>>

StartWipe ==
    /\ Begin("wipe")
    /\ admin' = [Idle EXCEPT !.call = "wipe", !.step = "wipeTables"]
    /\ UNCHANGED <<cached, deleted>>

-----------------------------------------------------------------------------
(* Snapshots.                                                              *)

Goto(step) == admin' = [admin EXCEPT !.step = step]

\* create_backup for a name: what has it is archived, and everything archived
\* is deleted at once.
Archive ==
    /\ admin.step = "archive"
    /\ snaps' = [k \in Kinds |-> IF k = admin.kind THEN None ELSE snaps[k]]
    /\ Goto("snapshot")
    /\ UNCHANGED <<db, made, cached, calls, gets, history>>

\* What a call goes on with when it has the snapshot of this kind.
AfterSnapshot ==
    CASE admin.kind = "deletion" -> [admin EXCEPT !.step = "wipeTables"]
      [] admin.kind = "manual" -> [admin EXCEPT !.step = "restore"]
      [] admin.kind = "deployment" -> Idle
      [] admin.kind = "migration" ->
            [admin EXCEPT !.step = "archive", !.kind = "checkpoint"]
      [] admin.kind = "checkpoint" ->
            [admin EXCEPT !.step = IF admin.call = "delete" THEN "destroy"
                                   ELSE IF admin.base = 0 THEN "create"
                                   ELSE "run"]

Snapshot ==
    /\ admin.step = "snapshot"
    /\ snaps' = [k \in Kinds |-> IF k = admin.kind THEN db ELSE snaps[k]]
    /\ admin' = AfterSnapshot
    /\ UNCHANGED <<db, made, cached, calls, gets, history>>

\* Variant: the cache is left as it is after a restore.
RestoreOnly ==
    /\ admin.step = "restore"
    /\ snaps[admin.source] # None
    /\ db' = snaps[admin.source]
    /\ deleted' = IF deleted \in db'.rows THEN 0 ELSE deleted
    /\ admin' = Idle
    /\ UNCHANGED <<made, snaps, cached, calls, gets, tainted, mishaps>>

Restore ==
    /\ admin.step = "restore"
    /\ snaps[admin.source] # None
    /\ db' = snaps[admin.source]
    /\ deleted' = IF deleted \in db'.rows THEN 0 ELSE deleted
    /\ Goto("wipeTables")
    /\ UNCHANGED <<made, snaps, cached, calls, gets, tainted, mishaps>>

RestoreNothing ==
    /\ admin.step = "restore"
    /\ snaps[admin.source] = None
    /\ admin' = Idle
    /\ UNCHANGED <<db, made, snaps, cached, calls, gets, history>>

\* with_rollback, when what it ran returned an error.
Rollback ==
    /\ admin.step = "rollback"
    /\ db' = snaps["checkpoint"]
    /\ deleted' = IF deleted \in db'.inNoco THEN 0 ELSE deleted
    /\ admin' = Idle
    /\ UNCHANGED <<made, snaps, cached, calls, gets, tainted, mishaps>>

-----------------------------------------------------------------------------
(* The cached IDs are deleted, tables first.                               *)

WipeTables ==
    /\ admin.step = "wipeTables"
    /\ kvTables' = 0
    /\ tainted' = (tainted /\ Requests # {})
    /\ Goto("wipeBase")
    /\ UNCHANGED <<db, made, snaps, kvBase, calls, gets, deleted, mishaps>>

WipeBase ==
    /\ admin.step = "wipeBase"
    /\ kvBase' = 0
    /\ admin' = CASE admin.call = "create" -> [admin EXCEPT !.step = "dropRow"]
                  [] admin.call = "delete" ->
                        [admin EXCEPT !.step = "archive", !.kind = "checkpoint"]
                  [] OTHER -> Idle
    /\ UNCHANGED <<db, made, snaps, kvTables, calls, gets, history>>

\* The worker's part of a base that is gone from NocoDB.
DropRow ==
    /\ admin.step = "dropRow"
    /\ db' = [db EXCEPT !.rows = @ \ {admin.base}, !.recorded[admin.base] = 0]
    /\ admin' = [admin EXCEPT !.step = "archive", !.base = 0]
    /\ UNCHANGED <<made, snaps, cached, calls, gets, history>>

-----------------------------------------------------------------------------
(* A new base.                                                             *)

Create ==
    /\ admin.step = "create"
    /\ bases < MaxBases
    /\ bases' = bases + 1
    /\ db' = [db EXCEPT !.inNoco = @ \cup {bases'}]
    /\ admin' = [admin EXCEPT !.step = "insert", !.base = bases']
    /\ UNCHANGED <<tables, snaps, cached, calls, gets, history>>

\* Variant: a new base is migrated without a backup.
InsertUnsaved ==
    /\ admin.step = "insert"
    /\ db' = [db EXCEPT !.rows = @ \cup {admin.base}]
    /\ Goto("archive")
    /\ UNCHANGED <<made, snaps, cached, calls, gets, history>>

Insert ==
    /\ admin.step = "insert"
    /\ db' = [db EXCEPT !.rows = @ \cup {admin.base}]
    /\ admin' = [admin EXCEPT !.step = "archive", !.kind = "migration"]
    /\ UNCHANGED <<made, snaps, cached, calls, gets, history>>

-----------------------------------------------------------------------------
(* The migrator: one migration at a time, each under a checkpoint.         *)

NothingToRun == admin.step = "run" /\ admin.version = Latest

UpToDate ==
    /\ NothingToRun
    /\ admin' = Idle
    /\ UNCHANGED <<db, made, snaps, cached, calls, gets, history>>

\* The next migration; the base is left in between if it is not where its
\* record says, or if the migration ends early.  A pages table that is already
\* there is not created again.
Migrate(b, clean) ==
    LET v == admin.version + 1
    IN  /\ tables' = IF v = PagesVersion /\ db.pages[b] = 0
                     THEN tables + 1 ELSE tables
        /\ tables' <= MaxTables
        /\ db' = [db EXCEPT !.schema[b] = v,
                            !.pages[b] = IF tables' # tables THEN tables' ELSE @,
                            !.dirty = IF clean /\ db.schema[b] = admin.version
                                      THEN @ ELSE @ \cup {b}]

\* Variant: the last migration is not recognised as such.
RunAhead ==
    /\ admin.step = "run"
    /\ admin.base \in db.inNoco
    /\ Migrate(admin.base, TRUE)
    /\ Goto("record")
    /\ UNCHANGED <<bases, snaps, cached, calls, gets, history>>

Run ==
    /\ admin.step = "run"
    /\ admin.version < Latest
    /\ admin.base \in db.inNoco
    /\ Migrate(admin.base, TRUE)
    /\ Goto("record")
    /\ UNCHANGED <<bases, snaps, cached, calls, gets, history>>

\* A migration that fails on its way.
RunPart ==
    /\ "fail" \in Faults
    /\ admin.step = "run"
    /\ admin.version < Latest
    /\ admin.base \in db.inNoco
    /\ Migrate(admin.base, FALSE)
    /\ Goto("rollback")
    /\ UNCHANGED <<bases, snaps, cached, calls, gets, history>>

\* set_migration adds nothing for a base that has no row.
Record ==
    /\ admin.step = "record"
    /\ db' = [db EXCEPT !.recorded[admin.base] =
                 IF admin.base \in db.rows THEN admin.version + 1 ELSE @]
    /\ admin' = [admin EXCEPT !.step = "archive", !.version = @ + 1]
    /\ UNCHANGED <<made, snaps, cached, calls, gets, history>>

-----------------------------------------------------------------------------
(* A base is deleted.                                                      *)

Destroy ==
    /\ admin.step = "destroy"
    /\ admin.base \in db.inNoco
    /\ db' = [db EXCEPT !.inNoco = @ \ {admin.base}]
    /\ deleted' = admin.base
    /\ Goto("forget")
    /\ UNCHANGED <<made, snaps, cached, calls, gets, tainted, mishaps>>

Forget ==
    /\ admin.step = "forget"
    /\ db' = [db EXCEPT !.rows = @ \ {admin.base}, !.recorded[admin.base] = 0]
    /\ admin' = Idle
    /\ UNCHANGED <<made, snaps, cached, calls, gets, history>>

-----------------------------------------------------------------------------
(* What may go wrong.                                                      *)

\* NocoDB does not know the base.
Missing ==
    /\ \/ admin.step = "destroy"
       \/ admin.step = "run" /\ ~NothingToRun
    /\ admin.base \notin db.inNoco
    /\ Goto("rollback")
    /\ UNCHANGED <<db, made, snaps, cached, calls, gets, history>>

\* Variant: the error is passed on without going back to the checkpoint.
BodyFailsHard ==
    /\ "fail" \in Faults
    /\ admin.step \in Body /\ ~NothingToRun
    /\ admin' = Idle
    /\ UNCHANGED <<db, made, snaps, cached, calls, gets, history>>

BodyFails ==
    /\ "fail" \in Faults
    /\ admin.step \in Body /\ ~NothingToRun
    /\ Goto("rollback")
    /\ UNCHANGED <<db, made, snaps, cached, calls, gets, history>>

\* A call that fails outside with_rollback, or a handler that is cut short.
CutShort ==
    /\ "fail" \in Faults
    /\ admin # Idle
    /\ admin' = Idle
    /\ mishaps' = IF admin.step \in {"insert", "record", "forget", "rollback"}
                  THEN mishaps \cup {"cut"} ELSE mishaps
    /\ tainted' = \/ tainted
                  \/ admin.call = "restore" /\ admin.step = "wipeTables"
                  \/ admin.step = "wipeBase"
    /\ UNCHANGED <<db, made, snaps, cached, calls, gets, deleted>>

\* The system user deletes a base in the dashboard.
DashboardDelete(b) ==
    /\ "dashboard" \in Faults
    /\ b \in db.inNoco
    /\ db' = [db EXCEPT !.inNoco = @ \ {b}]
    /\ mishaps' = mishaps \cup {"dashboard"}
    /\ UNCHANGED <<made, snaps, cached, admin, calls, gets, deleted, tainted>>

-----------------------------------------------------------------------------
(* An attendee's request: from_env_name, then get_table_ids.               *)

Is(g, step) == gets[g].step = step

Becomes(g, r) == gets' = [gets EXCEPT ![g] = r]

GetStart(g) ==
    /\ Is(g, "idle")
    /\ Becomes(g, [step |-> IF kvBase = 0 THEN "db" ELSE "tables",
                   base |-> kvBase, pages |-> 0])
    /\ IF admin.call \in {None, "backup"}
       THEN UNCHANGED <<tainted, mishaps>>
       ELSE tainted' = TRUE /\ mishaps' = mishaps \cup {"overlap"}
    /\ UNCHANGED <<db, made, snaps, cached, admin, calls, deleted>>

GetDb(g) ==
    /\ Is(g, "db")
    /\ Becomes(g, IF db.rows = {} THEN NoRequest
                  ELSE [step |-> "put", base |-> Newest(db.rows), pages |-> 0])
    /\ UNCHANGED <<db, made, snaps, cached, admin, calls, history>>

GetPut(g) ==
    /\ Is(g, "put")
    /\ \/ kvBase' = gets[g].base
       \/ "fail" \in Faults /\ kvBase' = kvBase
    /\ Becomes(g, [gets[g] EXCEPT !.step = "tables"])
    /\ UNCHANGED <<db, made, snaps, kvTables, admin, calls, history>>

GetTables(g) ==
    /\ Is(g, "tables")
    /\ Becomes(g, IF kvTables # 0 THEN NoRequest
                  ELSE [gets[g] EXCEPT !.step = "list"])
    /\ UNCHANGED <<db, made, snaps, cached, admin, calls, history>>

\* A list without pages is cached too, but never used: it is as good as none.
GetList(g) ==
    LET b == gets[g].base
    IN  /\ Is(g, "list")
        /\ Becomes(g, IF b \in db.inNoco /\ db.pages[b] # 0
                      THEN [step |-> "putTables", base |-> b, pages |-> db.pages[b]]
                      ELSE NoRequest)
        /\ UNCHANGED <<db, made, snaps, cached, admin, calls, history>>

GetPutTables(g) ==
    /\ Is(g, "putTables")
    /\ kvTables' = gets[g].pages
    /\ Becomes(g, NoRequest)
    /\ UNCHANGED <<db, made, snaps, kvBase, admin, calls, history>>

GetFails(g) ==
    /\ "fail" \in Faults
    /\ ~Is(g, "idle")
    /\ Becomes(g, NoRequest)
    /\ UNCHANGED <<db, made, snaps, cached, admin, calls, history>>

-----------------------------------------------------------------------------

StartCall ==
    \/ StartCreate
    \/ StartDelete
    \/ StartMigrate
    \/ StartBackup
    \/ \E k \in Kinds \ {"checkpoint"} : StartRestore(k)
    \/ StartWipe

AdminStep ==
    \/ Archive \/ Snapshot
    \/ Restore \/ RestoreNothing \/ Rollback
    \/ WipeTables \/ WipeBase \/ DropRow
    \/ Create \/ Insert
    \/ UpToDate \/ Run \/ RunPart \/ Record
    \/ Destroy \/ Forget
    \/ Missing \/ BodyFails \/ CutShort

Get(g) ==
    \/ GetStart(g) \/ GetDb(g) \/ GetPut(g)
    \/ GetTables(g) \/ GetList(g) \/ GetPutTables(g)
    \/ GetFails(g)

Next ==
    \/ StartCall
    \/ AdminStep
    \/ \E b \in Bases : DashboardDelete(b)
    \/ \E g \in Gets : Get(g)

Spec == Init /\ [][Next]_vars

-----------------------------------------------------------------------------

\* Between admin calls, however they failed, as long as none was cut short
\* while with_rollback was at work: NocoDB has no base the worker does not know
\* of, the worker knows of at most one, and its schema is the one recorded,
\* with no migration half done or done twice (neon.rs, with_rollback).
DatabaseIntact ==
    admin = Idle /\ "cut" \notin mishaps =>
        /\ db.inNoco \subseteq db.rows
        /\ \A b, c \in db.rows : b = c
        /\ \A b \in db.inNoco : db.schema[b] = db.recorded[b] /\ b \notin db.dirty

\* The cached IDs are those of the current base whenever nothing is going on,
\* unless a request has overlapped an admin call, or a restore was cut short,
\* since the cache was last wiped undisturbed.
CacheMatches ==
    admin = Idle /\ Requests = {} /\ ~tainted =>
        /\ kvBase # 0 => kvBase = Newest(db.rows)
        /\ kvTables # 0 => db.rows # {} /\ kvTables = db.pages[Newest(db.rows)]

\* From the moment NocoDB has lost it, a base that delete_base deletes is in the
\* backup made for that (store.rs:499), whatever fails or is cut short, until it is
\* rolled back or a restore brings its row back, or another base is to be deleted,
\* if no request overlapped a call.  However often the deletion is asked for again,
\* too, with one exception: once a call has been cut short inside with_rollback the
\* row may have outlived the base, and a second deletion, which finds the row, puts
\* a backup without the base in the place of the good one.
DeletionUndoable ==
    deleted # 0 /\ "overlap" \notin mishaps =>
        snaps["deletion"] # None /\ deleted \in snaps["deletion"].inNoco

\* "This cache must be invalidated whenever the base changes" (kv.rs:62).
CachedBaseIsCurrent ==
    admin = Idle /\ Requests = {} => kvBase \in {0, Newest(db.rows)}

-----------------------------------------------------------------------------
(* What the API promises.                                                  *)

\* The base of a database, if it has one.
NoBase == [base |-> 0, status |-> "none", schema |-> 0, recorded |-> 0]

View(d) ==
    IF d.rows = {} THEN NoBase
    ELSE LET b == Newest(d.rows)
         IN  [base |-> b, status |-> IF b \in d.inNoco THEN "live" ELSE "lost",
              schema |-> d.schema[b], recorded |-> d.recorded[b]]

\* Until with_rollback has ended, one may go back to the checkpoint.
Committed ==
    IF admin.step \in Body \cup {"rollback"} THEN snaps["checkpoint"] ELSE db

Saved == [k \in {n \in Kinds \ {"checkpoint"} : snaps[n] # None} |-> View(snaps[k])]

Promise == INSTANCE Lifecycle WITH
    Lossy <- "dashboard" \in Faults,
    env <- View(Committed), saved <- Saved, torn <- "cut" \in mishaps

\* The calls are transactions.  However many requests one of them makes, and
\* whatever fails, the environment goes from one base in order to the next in
\* single steps: a base is founded, brought forward by a migration, or deleted as
\* a whole or not at all, and a live base neither migrated nor deleted without a
\* backup of it, which nothing that comes after is mistaken for.  The one
\* exception is a handler that is cut short inside with_rollback (neon.rs:541).
CallsAreTransactions == Promise!Spec

=============================================================================
