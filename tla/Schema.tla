------------------------------- MODULE Schema -------------------------------
(***************************************************************************)
(* The tables, columns and views of a base while the migrations n1 to n5   *)
(* of server/src/noco/migrations/ are applied to it, one NocoDB call at a  *)
(* time, under the checkpoints of noco/migrate.rs.                         *)
(*                                                                         *)
(* A base is the set of its columns, each a triple <<table, name, title>>: *)
(* migrations look columns up by name, the data reader by title.  Titles   *)
(* are written without their blanks.  A table is there while it has a      *)
(* column, and a view is a column named "view".  Cells are not part of it. *)
(***************************************************************************)
EXTENDS Integers, Sequences, FiniteSets

CONSTANTS
    StartVersions,   \* the versions a base may be at when the model starts
    Faults           \* "call": a NocoDB call fails; "crash": the worker dies

LastVersion == 5

ASSUME SchemaAssumption ==
    /\ StartVersions \subseteq 0 .. LastVersion
    /\ Faults \subseteq {"call", "crash"}

VARIABLES
    db,           \* the Neon branch: the base and its recorded version
    job,          \* the migration in progress: its phase and next step
    checkpoint,   \* what with_rollback would return to
    backup        \* what the admin may restore

schemaVars == <<db, job, checkpoint, backup>>

-----------------------------------------------------------------------------
(* The calls a migration makes.                                            *)

TablesOf(s) == {c[1] : c \in s}
Names(s)    == {<<c[1], c[2]>> : c \in s}
Titles(s)   == {<<c[1], c[3]>> : c \in s}

NoColumns == {}

\* Names and titles it must find, columns it creates, columns it deletes.
Step(byName, byTitle, creates, drops) ==
    [byName |-> byName, byTitle |-> byTitle, creates |-> creates, drops |-> drops]

NewTable(t, name, title) ==
    {<<t, "id", "ID">>, <<t, name, title>>, <<t, "view", "default">>}

CreateTable(t, name, title) == Step({}, {}, NewTable(t, name, title), {})

CreateColumn(t, name, title) ==
    Step({<<t, "id">>}, {}, {<<t, name, title>>}, {})

\* A column of links: the other table gets a column too, which NocoDB names.
CreateLink(t, name, title, child, back) ==
    Step({<<t, "id">>, <<child, "id">>}, {},
         {<<t, name, title>>, <<child, "link", back>>}, {})

\* An edit that keeps the column's title.
EditNamed(t, name) == Step({<<t, name>>}, {}, {}, {})

\* Variant: the title is not sent again.
EditGeneratedUntitled(t, title) ==
    Step({}, {<<t, title>>}, {}, {<<t, "generated", title>>})

\* An edit of a generated column: sent with its title, "or they'll lose their
\* titles" (n3.rs:64).
EditGenerated(t, title) == Step({}, {<<t, title>>}, {}, {})

DeleteColumn(t, name, title) ==
    Step({<<t, name>>}, {}, {}, {<<t, name, title>>})

DeleteTable(t, columns) == Step({<<t, "id">>}, {}, {}, columns)

CreateView(t, title) ==
    Step({<<t, "id">>}, {}, {<<t, "view", title>>}, {})

\* Patching a form, and locking a view.
EditView(t, title) == Step({}, {<<t, title>>}, {}, {})

\* The tables TableIds::try_from insists on; `files` is optional.
KnownTables ==
    {"events", "people", "tags", "about", "links", "pages", "announcements"}

\* list_tables, then TableIds::try_from.
ListTables == Step(KnownTables \X {"id"}, {}, {}, {})

-----------------------------------------------------------------------------
(* The migrations, as sequences of phases, each a sequence of calls.       *)

ScheduleTables == <<
    CreateTable("events", "name", "EventName"),
    CreateTable("locations", "name", "Location"),
    CreateTable("people", "name", "Name"),
    CreateTable("categories", "name", "Category"),
    CreateTable("tags", "name", "Tag") >>

InfoTables == <<
    CreateTable("announcements", "title", "Title"),
    CreateTable("about", "con_name", "ConName"),
    CreateTable("links", "name", "LinkName"),
    CreateTable("files", "name", "FileName") >>

\* The locations' link has no name: its key is misspelt (n1.rs:393).
ScheduleColumns == <<
    CreateColumn("events", "description", "Description"),
    CreateColumn("events", "start_time", "StartTime"),
    CreateColumn("events", "end_time", "EndTime"),
    CreateLink("locations", "none", "Events", "events", "Locations"),
    CreateColumn("people", "contact_info", "ContactInfo"),
    CreateLink("people", "events", "Events", "events", "PeopleM2M"),
    CreateLink("categories", "events", "Events", "events", "Categories"),
    CreateLink("tags", "events", "Events", "events", "TagsM2M"),
    CreateColumn("events", "hidden", "Hidden") >>

\* NocoDB generates the two times and does not keep names for them.
InfoColumns == <<
    CreateColumn("announcements", "description", "Announcement"),
    CreateColumn("announcements", "attachment", "Files"),
    CreateColumn("announcements", "generated", "Created"),
    CreateColumn("announcements", "generated", "LastEdited"),
    CreateColumn("about", "con_description", "ConDescription"),
    CreateColumn("about", "website", "Website"),
    CreateColumn("links", "url", "URL"),
    CreateColumn("files", "file", "File") >>

Views == <<
    CreateView("events", "AddEvent"),
    CreateView("announcements", "MakeAnnouncement"),
    EditView("events", "AddEvent"),
    EditView("announcements", "MakeAnnouncement"),
    EditView("events", "AddEvent"),
    EditView("announcements", "MakeAnnouncement") >>

PageTable == << CreateTable("pages", "title", "PageTitle") >>

PageColumns == << CreateColumn("pages", "body", "PageBody") >>

EditColumns == <<
    ListTables,
    EditNamed("events", "start_time"),
    EditNamed("events", "end_time"),
    EditNamed("events", "description"),
    EditGenerated("announcements", "Created"),
    EditGenerated("announcements", "LastEdited") >>

\* list_views and find_default, then the column.
SummaryColumn == <<
    EditView("events", "default"),
    CreateColumn("events", "summary", "Summary") >>

FileColumns == <<
    ListTables,
    CreateColumn("about", "files", "Files"),
    CreateColumn("pages", "files", "Files") >>

DropContactInfo == << DeleteColumn("people", "contact_info", "ContactInfo") >>

FilesTable == NewTable("files", "name", "FileName") \cup {<<"files", "file", "File">>}

DropFiles == << DeleteTable("files", FilesTable) >>

\* The webhook is not a column: Announcements models its installation.
InstallHook == << ListTables >>

n1 == << ScheduleTables, InfoTables, ScheduleColumns, InfoColumns, Views >>
n2 == << PageTable, PageColumns >>
n3 == << EditColumns, SummaryColumn >>
n4 == << FileColumns, DropContactInfo, DropFiles >>
n5 == << InstallHook >>

Migrations == <<n1, n2, n3, n4, n5>>

\* What migrations::run does with a base at a version: the next migration, if
\* there is one.
Phases(version) == IF version < LastVersion THEN Migrations[version + 1] ELSE << >>

Creates(version) ==
    UNION {UNION {Phases(version)[p][i].creates : i \in DOMAIN Phases(version)[p]} :
               p \in DOMAIN Phases(version)}
Drops(version) ==
    UNION {UNION {Phases(version)[p][i].drops : i \in DOMAIN Phases(version)[p]} :
               p \in DOMAIN Phases(version)}

\* The base a version stands for: what the migrations up to it have created and
\* none of them has dropped.
SchemaAt(version) ==
    (UNION {Creates(v) : v \in 0 .. version - 1})
        \ (UNION {Drops(v) : v \in 0 .. version - 1})

-----------------------------------------------------------------------------

Idle      == [phase |-> 0, at |-> 0]    \* no admin call
BetweenMs == [phase |-> 0, at |-> 1]    \* at the head of the migrator's loop

SchemaInit ==
    /\ \E v \in StartVersions :
         db = [schema |-> SchemaAt(v), version |-> v, cut |-> FALSE]
    /\ job = Idle
    /\ checkpoint = db
    /\ backup = db

\* post_base or post_apply_migration, up to create_backup.
StartMigrating ==
    /\ job = Idle
    /\ backup' = db
    /\ job' = BetweenMs
    /\ UNCHANGED <<db, checkpoint>>

\* Another turn of the loop: with_rollback takes its checkpoint.
BeginMigration ==
    /\ job = BetweenMs
    /\ db.version < LastVersion
    /\ checkpoint' = db
    /\ job' = [phase |-> 1, at |-> 1]
    /\ UNCHANGED <<db, backup>>

\* The last turn, under a checkpoint of its own: Outcome::AlreadyUpToDate.
UpToDate ==
    /\ job = BetweenMs
    /\ db.version = LastVersion
    /\ checkpoint' = db
    /\ job' = Idle
    /\ UNCHANGED <<db, backup>>

Running == job.phase > 0

\* The step the job is at, while there is one.
HasStep == Running /\ job.phase \in DOMAIN Phases(db.version)
Current == Phases(db.version)[job.phase][job.at]

\* NocoDB finds what is asked for, and refuses a second table, column or view
\* of the same name.
Accepts(s, step) ==
    /\ step.byName \subseteq Names(s)
    /\ step.byTitle \subseteq Titles(s)
    /\ step.creates \cap s = {}

Advance ==
    job' = IF job.at < Len(Phases(db.version)[job.phase])
           THEN [phase |-> job.phase, at |-> job.at + 1]
           ELSE [phase |-> job.phase + 1, at |-> 1]

RunStep ==
    /\ HasStep
    /\ Accepts(db.schema, Current)
    /\ db' = [schema |-> (db.schema \ Current.drops) \cup Current.creates,
              version |-> db.version, cut |-> db.cut]
    /\ Advance
    /\ UNCHANGED <<checkpoint, backup>>

\* Variant: the version is written before the last phase.
RecordEarly ==
    /\ Running
    /\ job.phase = Len(Phases(db.version))
    /\ db' = [schema |-> db.schema, version |-> db.version + 1, cut |-> db.cut]
    /\ job' = BetweenMs
    /\ UNCHANGED <<checkpoint, backup>>

\* db_client.set_migration.
Record ==
    /\ Running
    /\ job.phase > Len(Phases(db.version))
    /\ db' = [schema |-> db.schema, version |-> db.version + 1, cut |-> db.cut]
    /\ job' = BetweenMs
    /\ UNCHANGED <<checkpoint, backup>>

\* Variant: the branch is left as it is.
RollbackForgotten ==
    /\ Running
    /\ \/ "call" \in Faults
       \/ HasStep /\ ~Accepts(db.schema, Current)
    /\ job' = Idle
    /\ UNCHANGED <<db, checkpoint, backup>>

\* A call fails: with_rollback restores the checkpoint, the admin gets an error.
Rollback ==
    /\ Running
    /\ \/ "call" \in Faults
       \/ HasStep /\ ~Accepts(db.schema, Current)
    /\ db' = checkpoint
    /\ job' = Idle
    /\ UNCHANGED <<checkpoint, backup>>

\* The worker dies, or the rollback itself fails: nothing is undone.
Crash ==
    /\ "crash" \in Faults
    /\ job # Idle
    /\ job' = Idle
    /\ db' = [schema |-> db.schema, version |-> db.version,
              cut |-> db.cut \/ Running]
    /\ UNCHANGED <<checkpoint, backup>>

\* post_restore_backup.
Restore ==
    /\ job = Idle
    /\ db' = backup
    /\ UNCHANGED <<job, checkpoint, backup>>

SchemaNext ==
    \/ StartMigrating
    \/ BeginMigration
    \/ UpToDate
    \/ RunStep
    \/ Record
    \/ Rollback
    \/ Crash
    \/ Restore

SchemaSpec == SchemaInit /\ [][SchemaNext]_schemaVars

-----------------------------------------------------------------------------
(* What the data reader asks for: the fields of the *Response types of     *)
(* data.rs that are not an Option.  A column behind an Option may be       *)
(* missing, which is what lets old bases be read.                          *)

Fields ==
    [events        |-> {"ID", "EventName", "Hidden", "TagsM2M", "PeopleM2M"},
     people        |-> {"ID", "Name"},
     tags          |-> {"ID", "Tag"},
     about         |-> {"ConName"},
     links         |-> {"LinkName", "URL"},
     pages         |-> {"ID", "PageTitle"},
     announcements |-> {"ID", "Title", "Created"}]

\* The reader gets as far as asking for records.
Resolvable(s) == KnownTables \subseteq TablesOf(s)

\* Its answer for a table can be deserialised.
Decodes(s, t) == {t} \X Fields[t] \subseteq Titles(s)

-----------------------------------------------------------------------------
(* Properties.                                                             *)

Columns == UNION {Creates(v) : v \in 0 .. LastVersion - 1}
Branch  == [schema: SUBSET Columns, version: 0 .. LastVersion, cut: BOOLEAN]

SchemaTypeOK ==
    /\ db \in Branch
    /\ job \in [phase: Nat, at: Nat]
    /\ checkpoint \in Branch
    /\ backup \in Branch

\* Attendees read while the admin migrates, and a failed or interrupted
\* migration may stay half done.  At every step of every migration, in every
\* order of failures, crashes and restores, a base whose tables resolve has
\* every column that no reader can do without: an update of the schema never
\* takes the app down (data.rs, *Response; n1.rs to n4.rs).
ReadersDecode ==
    Resolvable(db.schema) => \A t \in KnownTables : Decodes(db.schema, t)

\* Between admin calls a base is exactly what its recorded version stands for,
\* unless a call was cut short: nothing of a failed migration is left behind
\* ("Migration {} failed. Rolling back.", migrate.rs:113).
SchemaMatchesVersion ==
    (job = Idle /\ ~db.cut) => db.schema = SchemaAt(db.version)

\* A version is recorded only over exactly the base it stands for, even when an
\* earlier attempt was cut short and nobody restored the backup: a half-done
\* migration is either finished properly or refused by NocoDB.
RecordedIsTrue ==
    [][db.version' > db.version => db.schema' = SchemaAt(db.version')]_db

=============================================================================
