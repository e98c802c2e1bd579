----------------------------- MODULE DataReader -----------------------------
(***************************************************************************)
(* The data reader of the server (server/src/noco/data.rs): the requests   *)
(* that list the records of one or several tables page by page, while      *)
(* organisers add and delete rows and the admin migrates the base or       *)
(* restores a backup (module Schema).                                      *)
(*                                                                         *)
(* A table is the sequence of its rows' IDs, in the order NocoDB lists     *)
(* them.  The cells of a row are constants, functions of its ID (also when *)
(* their column is yet to be created): what an edited cell does to a       *)
(* cached answer is the subject of DataCache.                              *)
(***************************************************************************)
EXTENDS Schema, Functions

CONSTANTS
    Readers,        \* slots for concurrent calls of the readers
    Kinds,          \* which readers they call
    PageSize,       \* PAGE_SIZE
    InitialRows,    \* how many rows a table starts with
    EditedTables,   \* the tables organisers change
    MaxEdits,       \* bound: rows added or deleted
    MaxId,          \* bound: rows a table ever has
    HiddenEvents,   \* IDs of events marked as hidden
    StartOf,        \* start time of an event, 0 if it has none
    EndOf,          \* end time of an event, 0 if it has none
    PeopleOf,       \* IDs of the people who host an event
    FilesOf         \* the files attached to a row of a table

RowId == 1 .. MaxId

ASSUME ReaderAssumption ==
    /\ Kinds \subseteq {"events", "info", "pages", "announcements", "files"}
    /\ PageSize \in Nat \ {0}
    /\ MaxId \in Nat /\ MaxEdits \in Nat
    /\ InitialRows \in [KnownTables -> 0 .. MaxId]
    /\ EditedTables \subseteq KnownTables
    /\ HiddenEvents \subseteq RowId
    /\ StartOf \in [RowId -> Nat]
    /\ EndOf \in [RowId -> Nat]
    /\ PeopleOf \in [RowId -> SUBSET RowId]
    /\ DOMAIN FilesOf = {"about", "pages", "announcements"}

VARIABLES
    content,            \* rows of each table, the next IDs, edits so far
    contentCheckpoint,  \* the rows in the checkpoint
    contentBackup,      \* the rows in the backup
    reads               \* the calls in progress

contentVars == <<content, contentCheckpoint, contentBackup>>
vars == <<schemaVars, contentVars, reads>>

-----------------------------------------------------------------------------
(* Tables and readers.                                                     *)

\* The tables a reader lists.
Lists(kind) ==
    CASE kind = "events"        -> {"events", "people", "tags"}
      [] kind = "info"          -> {"about", "links"}
      [] kind = "pages"         -> {"pages"}
      [] kind = "announcements" -> {"announcements"}
      [] kind = "files"         -> {"about", "pages", "announcements"}

NoRead == [kind |-> "none"]

\* What happened to the rows since a call began, the worst of:
Still == 0  Grown == 1  Shrunk == 2  Restored == 3

Disturbed(level) ==
    [r \in Readers |->
        IF reads[r] = NoRead THEN NoRead
        ELSE [reads[r] EXCEPT !.noise = IF @ >= level THEN @ ELSE level]]

FirstRows(t) == [i \in 1 .. InitialRows[t] |-> i]

Init ==
    /\ SchemaInit
    /\ content =
         [rows  |-> [t \in KnownTables |->
                        IF t \in TablesOf(db.schema) THEN FirstRows(t) ELSE << >>],
          next  |-> [t \in KnownTables |->
                        IF t \in TablesOf(db.schema) THEN InitialRows[t] + 1 ELSE 1],
          edits |-> 0]
    /\ contentCheckpoint = content
    /\ contentBackup = content
    /\ reads = [r \in Readers |-> NoRead]

-----------------------------------------------------------------------------
(* Organisers.                                                             *)

InsertRow(t) ==
    /\ t \in TablesOf(db.schema)
    /\ content.edits < MaxEdits
    /\ content.next[t] \in RowId
    /\ content' = [content EXCEPT !.rows[t] = Append(@, content.next[t]),
                                  !.next[t] = @ + 1,
                                  !.edits = @ + 1]
    /\ reads' = Disturbed(Grown)
    /\ UNCHANGED <<schemaVars, contentCheckpoint, contentBackup>>

Without(s, i) == [j \in 1 .. Len(s) - 1 |-> IF j < i THEN s[j] ELSE s[j + 1]]

DeleteRow(t) ==
    /\ t \in TablesOf(db.schema)
    /\ content.edits < MaxEdits
    /\ \E i \in DOMAIN content.rows[t] :
         content' = [content EXCEPT !.rows[t] = Without(@, i), !.edits = @ + 1]
    /\ reads' = Disturbed(Shrunk)
    /\ UNCHANGED <<schemaVars, contentCheckpoint, contentBackup>>

-----------------------------------------------------------------------------
(* The admin: rows are in the same database as the schema.                 *)

\* The bound on edits is not part of the database.
Revert(saved) ==
    /\ content' = [saved EXCEPT !.edits = content.edits]
    /\ reads' = Disturbed(Restored)

Migrate ==
    \/ /\ StartMigrating
       /\ contentBackup' = content
       /\ UNCHANGED <<content, contentCheckpoint, reads>>
    \/ /\ BeginMigration \/ UpToDate
       /\ contentCheckpoint' = content
       /\ UNCHANGED <<content, contentBackup, reads>>
    \/ /\ RunStep \/ Record \/ Crash
       /\ UNCHANGED <<contentVars, reads>>

RollbackRows ==
    /\ Rollback
    /\ Revert(contentCheckpoint)
    /\ UNCHANGED <<contentCheckpoint, contentBackup>>

RestoreRows ==
    /\ Restore
    /\ Revert(contentBackup)
    /\ UNCHANGED <<contentCheckpoint, contentBackup>>

-----------------------------------------------------------------------------
(* A call of a reader.                                                     *)

\* Variant: every table is listed, also those the reader does not decode.
ReadStartAll(r) ==
    /\ reads[r] = NoRead
    /\ Resolvable(db.schema)
    /\ \E kind \in Kinds :
         reads' = [reads EXCEPT ![r] =
            [kind  |-> kind,
             got   |-> [t \in Lists(kind) |-> << >>],
             left  |-> KnownTables,
             noise |-> Still,
             began |-> [t \in Lists(kind) |-> Len(content.rows[t])]]]
    /\ UNCHANGED <<schemaVars, contentVars>>

\* The table IDs are resolved and the first requests go out.  `began` is
\* history: how many rows there were.
ReadStart(r) ==
    /\ reads[r] = NoRead
    /\ Resolvable(db.schema)
    /\ \E kind \in Kinds :
         reads' = [reads EXCEPT ![r] =
            [kind  |-> kind,
             got   |-> [t \in Lists(kind) |-> << >>],
             left  |-> Lists(kind),
             noise |-> Still,
             began |-> [t \in Lists(kind) |-> Len(content.rows[t])]]]
    /\ UNCHANGED <<schemaVars, contentVars>>

\* The tables are listed concurrently, except by get_info: about, then links.
Asks(r, t) ==
    /\ reads[r] # NoRead
    /\ t \in reads[r].left
    /\ reads[r].kind = "info" /\ t = "links" => "about" \notin reads[r].left

Least(a, b) == IF a <= b THEN a ELSE b

\* The records from an offset on, and whether they are the last.
Page(t, offset) ==
    [j \in 1 .. Least(PageSize, Len(content.rows[t]) - offset) |->
        content.rows[t][offset + j]]
IsLastPage(t, offset) == offset + PageSize >= Len(content.rows[t])

\* Variant: the next page is asked for at the offset of this one.
ReadPageAgain(r, t) ==
    /\ Asks(r, t)
    /\ Decodes(db.schema, t)
    /\ LET offset == 0 IN
         reads' = [reads EXCEPT
            ![r].got[t] = @ \o Page(t, offset),
            ![r].left = IF IsLastPage(t, offset) THEN @ \ {t} ELSE @]
    /\ UNCHANGED <<schemaVars, contentVars>>

\* Variant: a full page is taken for the last one.
ReadPageShort(r, t) ==
    /\ Asks(r, t)
    /\ Decodes(db.schema, t)
    /\ LET offset == Len(reads[r].got[t]) IN
         reads' = [reads EXCEPT
            ![r].got[t] = @ \o Page(t, offset),
            ![r].left = @ \ {t}]
    /\ UNCHANGED <<schemaVars, contentVars>>

\* Variant: the loop stops after a full page instead of after the last one.
ReadPageFull(r, t) ==
    /\ Asks(r, t)
    /\ Decodes(db.schema, t)
    /\ LET offset == Len(reads[r].got[t]) IN
         reads' = [reads EXCEPT
            ![r].got[t] = @ \o Page(t, offset),
            ![r].left = IF Len(Page(t, offset)) = PageSize THEN @ \ {t} ELSE @]
    /\ UNCHANGED <<schemaVars, contentVars>>

\* One turn of the loop of list_records: the offset is what has been received.
ReadPage(r, t) ==
    /\ Asks(r, t)
    /\ Decodes(db.schema, t)
    /\ LET offset == Len(reads[r].got[t]) IN
         reads' = [reads EXCEPT
            ![r].got[t] = @ \o Page(t, offset),
            ![r].left = IF IsLastPage(t, offset) THEN @ \ {t} ELSE @]
    /\ UNCHANGED <<schemaVars, contentVars>>

EndRead(r) ==
    /\ reads' = [reads EXCEPT ![r] = NoRead]
    /\ UNCHANGED <<schemaVars, contentVars>>

\* NocoDB does not answer.
ReadFails(r) ==
    /\ "call" \in Faults
    /\ reads[r] # NoRead
    /\ reads[r].left # {}
    /\ EndRead(r)

\* Its answer cannot be deserialised, or there is no such table any more.
ReadUndecodable(r, t) ==
    /\ Asks(r, t)
    /\ ~Decodes(db.schema, t)
    /\ EndRead(r)

ReadReturns(r) ==
    /\ reads[r] # NoRead
    /\ reads[r].left = {}
    /\ EndRead(r)

Next ==
    \/ \E t \in EditedTables : InsertRow(t) \/ DeleteRow(t)
    \/ Migrate
    \/ RollbackRows
    \/ RestoreRows
    \/ \E r \in Readers :
         \/ ReadStart(r)
         \/ \E t \in KnownTables : ReadPage(r, t) \/ ReadUndecodable(r, t)
         \/ ReadFails(r)
         \/ ReadReturns(r)

Spec == Init /\ [][Next]_vars

\* NocoDB answers, unless the call fails, and the runtime goes on.
Continue(r) ==
    \/ \E t \in KnownTables : ReadPage(r, t) \/ ReadUndecodable(r, t)
    \/ ReadReturns(r)

LiveSpec == Spec /\ \A r \in Readers : WF_vars(Continue(r))

-----------------------------------------------------------------------------
(* The answers the readers make of the records.                            *)

\* The order of two positions of s by a key; equal elements keep theirs.
Earlier(s, key, i, j) ==
    \/ key[s[i]] < key[s[j]]
    \/ key[s[i]] = key[s[j]] /\ i < j

Rank(s, kept, key, j) == 1 + Cardinality({i \in kept : Earlier(s, key, i, j)})

\* Vec::sort_by is stable.  Of s, the elements at some positions are sorted.
StableSort(s, kept, key) ==
    [n \in 1 .. Cardinality(kept) |->
        s[CHOOSE j \in kept : Rank(s, kept, key, j) = n]]

\* Hidden events are left out, and those that cannot be placed.
OnSchedule(e) ==
    /\ e \notin HiddenEvents
    /\ StartOf[e] # 0
    /\ EndOf[e] # 0 => StartOf[e] <= EndOf[e]

Shown(events) == {i \in DOMAIN events : OnSchedule(events[i])}

\* Variant: the two sorts are swapped.
ScheduleByEnd(events) ==
    LET byStart == StableSort(events, Shown(events), StartOf) IN
    StableSort(byStart, DOMAIN byStart, EndOf)

\* By end time (none comes first), then by start time.
Schedule(events) ==
    LET byEnd == StableSort(events, Shown(events), EndOf) IN
    StableSort(byEnd, DOMAIN byEnd, StartOf)

\* Names are looked up in what was listed; unknown people are dropped.
GetEvents(got) ==
    LET shown == Schedule(got["events"]) IN
    [i \in DOMAIN shown |->
        [id |-> shown[i], people |-> PeopleOf[shown[i]] \cap Range(got["people"])]]

FilesIn(t, s) == UNION {FilesOf[t][id] : id \in Range(s)}

\* The record of `about` that counts: the last one.
Latest(s) == IF s = << >> THEN << >> ELSE <<s[Len(s)]>>

GetInfo(got) == [about |-> Latest(got["about"]), links |-> got["links"]]

\* Variant: the files of every record of `about`.
GetFilesOfAll(got) ==
    FilesIn("about", got["about"])
        \cup FilesIn("pages", got["pages"])
        \cup FilesIn("announcements", got["announcements"])

GetFiles(got) ==
    FilesIn("about", Latest(got["about"]))
        \cup FilesIn("pages", got["pages"])
        \cup FilesIn("announcements", got["announcements"])

-----------------------------------------------------------------------------
(* Properties.                                                             *)

TypeOK ==
    /\ SchemaTypeOK
    /\ content \in [rows  : [KnownTables -> Seq(RowId)],
                    next  : [KnownTables -> 1 .. MaxId + 1],
                    edits : 0 .. MaxEdits]
    /\ \A r \in Readers : reads[r] # NoRead =>
         /\ reads[r].kind \in Kinds
         /\ reads[r].left \subseteq Lists(reads[r].kind)
         /\ reads[r].got \in [Lists(reads[r].kind) -> Seq(RowId)]

\* The tables a call has listed to the end.
Listed(r) == Lists(reads[r].kind) \ reads[r].left

\* While rows are only added, paging by offset loses none: every table listed
\* to the end starts as it is now, and has every row it had when the call
\* began (list_records, data.rs:33).
GrowingListsComplete ==
    \A r \in Readers : reads[r] # NoRead /\ reads[r].noise <= Grown =>
        \A t \in Listed(r) :
            /\ Len(reads[r].got[t]) >= reads[r].began[t]
            /\ reads[r].got[t] =
                 SubSeq(content.rows[t], 1, Len(reads[r].got[t]))

\* Rows deleted between two pages make it skip others, but never list one
\* twice: only a rollback or a restore can do that.
NothingListedTwice ==
    \A r \in Readers : reads[r] # NoRead /\ reads[r].noise <= Shrunk =>
        \A t \in Lists(reads[r].kind) :
            LET s == reads[r].got[t] IN
            \A i, j \in DOMAIN s : s[i] = s[j] => i = j

\* "Sort events by start time, then end time" (data.rs:307): two stable sorts,
\* in this order, sort lexicographically, whatever rows the base has.
ScheduleInOrder ==
    LET s == Schedule(content.rows["events"]) IN
    \A i, j \in DOMAIN s : i < j =>
        \/ StartOf[s[i]] < StartOf[s[j]]
        \/ StartOf[s[i]] = StartOf[s[j]] /\ EndOf[s[i]] <= EndOf[s[j]]

\* The files the app links to, as three readers answer.
Linked(rows) ==
    FilesIn("about", GetInfo(rows).about)
        \cup FilesIn("pages", rows["pages"])
        \cup FilesIn("announcements", rows["announcements"])

\* A call during which no row changed answers with exactly what is in the base,
\* although it asked for it in several requests while migrations went on; and
\* the server finds exactly the files the app links to, although other readers
\* compute those (get_files, data.rs:414, against get_info and the rest).
UndisturbedAnswersAgree ==
    \A r \in Readers : reads[r] # NoRead /\ reads[r].left = {} /\ reads[r].noise = Still =>
        LET rows == content.rows  got == reads[r].got IN
        /\ reads[r].kind = "events" => GetEvents(got) = GetEvents(rows)
        /\ reads[r].kind = "info"   => GetInfo(got) = GetInfo(rows)
        /\ reads[r].kind = "files"  => GetFiles(got) = Linked(rows)

\* A reader ends, with an answer or an error, however the rows, the schema and
\* the database change meanwhile (data.rs:44): the loop stops only when NocoDB
\* says that a page is the last.
ReadsEnd == \A r \in Readers : reads[r] # NoRead ~> reads[r] = NoRead

=============================================================================
