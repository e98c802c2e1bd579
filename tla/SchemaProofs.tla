---------------------------- MODULE SchemaProofs ----------------------------
(* TLAPS proofs about Schema, for every set of start versions and faults.  *)
EXTENDS Schema, TLAPS

-----------------------------------------------------------------------------
(* What the calls of the migrations create and drop.                       *)

\* The columns that are ever dropped.
Doomed == {<<"people", "contact_info", "ContactInfo">>} \cup FilesTable

\* A call that drops nothing, one that adds nothing to pages, one that adds no
\* column that is dropped later.
Plain(step)    == step.drops = {}
OffPages(step) == \A c \in step.creates : c[1] # "pages"
Fresh(step)    == step.creates \cap Doomed = {}

LEMMA PlainCalls ==
    /\ Plain(ListTables)
    /\ \A t, name, title : Plain(CreateTable(t, name, title))
    /\ \A t, name, title : Plain(CreateColumn(t, name, title))
    /\ \A t, name, title, child, back : Plain(CreateLink(t, name, title, child, back))
    /\ \A t, name : Plain(EditNamed(t, name))
    /\ \A t, title : Plain(EditGenerated(t, title))
    /\ \A t, title : Plain(CreateView(t, title))
    /\ \A t, title : Plain(EditView(t, title))
BY DEF Plain, Step, CreateTable, CreateColumn, CreateLink, EditNamed, EditGenerated,
       CreateView, EditView, ListTables

LEMMA OffPagesCalls ==
    /\ \A t, name, title : t # "pages" => OffPages(CreateTable(t, name, title))
    /\ \A t, name, title : t # "pages" => OffPages(CreateColumn(t, name, title))
    /\ \A t, name, title, child, back :
         t # "pages" /\ child # "pages" => OffPages(CreateLink(t, name, title, child, back))
    /\ \A t, title : t # "pages" => OffPages(CreateView(t, title))
    /\ \A t, title : OffPages(EditView(t, title))
BY DEF OffPages, Step, CreateTable, NewTable, CreateColumn, CreateLink, CreateView, EditView

LEMMA N1Plain ==
    \A p \in DOMAIN n1 : \A i \in DOMAIN n1[p] : Plain(n1[p][i])
<1>1. \A i \in DOMAIN ScheduleTables : Plain(ScheduleTables[i])
  BY PlainCalls DEF ScheduleTables
<1>2. \A i \in DOMAIN InfoTables : Plain(InfoTables[i])
  BY PlainCalls DEF InfoTables
<1>3. \A i \in DOMAIN ScheduleColumns : Plain(ScheduleColumns[i])
  BY PlainCalls DEF ScheduleColumns
<1>4. \A i \in DOMAIN InfoColumns : Plain(InfoColumns[i])
  BY PlainCalls DEF InfoColumns
<1>5. \A i \in DOMAIN Views : Plain(Views[i])
  BY PlainCalls DEF Views
<1> QED
  BY <1>1, <1>2, <1>3, <1>4, <1>5 DEF n1

LEMMA N1OffPages ==
    \A p \in DOMAIN n1 : \A i \in DOMAIN n1[p] : OffPages(n1[p][i])
<1>1. \A i \in DOMAIN ScheduleTables : OffPages(ScheduleTables[i])
  BY OffPagesCalls DEF ScheduleTables
<1>2. \A i \in DOMAIN InfoTables : OffPages(InfoTables[i])
  BY OffPagesCalls DEF InfoTables
<1>3. \A i \in DOMAIN ScheduleColumns : OffPages(ScheduleColumns[i])
  BY OffPagesCalls DEF ScheduleColumns
<1>4. \A i \in DOMAIN InfoColumns : OffPages(InfoColumns[i])
  BY OffPagesCalls DEF InfoColumns
<1>5. \A i \in DOMAIN Views : OffPages(Views[i])
  BY OffPagesCalls DEF Views
<1> QED
  BY <1>1, <1>2, <1>3, <1>4, <1>5 DEF n1

LEMMA N2Plain ==
    \A p \in DOMAIN n2 : \A i \in DOMAIN n2[p] : Plain(n2[p][i])
BY PlainCalls DEF n2, PageTable, PageColumns

LEMMA N3Plain ==
    \A p \in DOMAIN n3 : \A i \in DOMAIN n3[p] : Plain(n3[p][i])
<1>1. \A i \in DOMAIN EditColumns : Plain(EditColumns[i])
  BY PlainCalls DEF EditColumns
<1>2. \A i \in DOMAIN SummaryColumn : Plain(SummaryColumn[i])
  BY PlainCalls DEF SummaryColumn
<1> QED
  BY <1>1, <1>2 DEF n3

LEMMA N4Calls ==
    \A p \in DOMAIN n4 : \A i \in DOMAIN n4[p] :
        n4[p][i].drops \subseteq Doomed /\ Fresh(n4[p][i])
<1>1. \A i \in DOMAIN FileColumns : Plain(FileColumns[i]) /\ Fresh(FileColumns[i])
  <2>1. Fresh(ListTables)
    BY DEF Fresh, ListTables, Step
  <2>2. \A t \in {"about", "pages"} : Fresh(CreateColumn(t, "files", "Files"))
    BY DEF Fresh, CreateColumn, Step, Doomed, FilesTable, NewTable
  <2> QED
    BY <2>1, <2>2, PlainCalls DEF FileColumns
<1>2. \A i \in DOMAIN DropContactInfo :
         DropContactInfo[i].drops \subseteq Doomed /\ Fresh(DropContactInfo[i])
  BY DEF DropContactInfo, DeleteColumn, Step, Doomed, Fresh
<1>3. \A i \in DOMAIN DropFiles :
         DropFiles[i].drops \subseteq Doomed /\ Fresh(DropFiles[i])
  BY DEF DropFiles, DeleteTable, Step, Doomed, Fresh
<1> QED
  BY <1>1, <1>2, <1>3 DEF n4, Plain

LEMMA N5Calls ==
    \A p \in DOMAIN n5 : \A i \in DOMAIN n5[p] : Plain(n5[p][i]) /\ Fresh(n5[p][i])
BY DEF n5, InstallHook, ListTables, Step, Plain, Fresh

LEMMA PhasesAre ==
    /\ Phases(0) = n1
    /\ Phases(1) = n2
    /\ Phases(2) = n3
    /\ Phases(3) = n4
    /\ Phases(4) = n5
    /\ Phases(5) = << >>
BY DEF Phases, Migrations, LastVersion

\* No phase is empty.
Phased(m) ==
    /\ Len(m) \in Nat
    /\ DOMAIN m = 1 .. Len(m)
    /\ \A p \in DOMAIN m :
         /\ Len(m[p]) \in Nat \ {0}
         /\ DOMAIN m[p] = 1 .. Len(m[p])

LEMMA AllPhased == \A v \in 0 .. LastVersion : Phased(Phases(v))
<1>1. Phased(n1)
  <2>1. /\ Len(ScheduleTables) = 5 /\ DOMAIN ScheduleTables = 1 .. 5
        /\ Len(InfoTables) = 4 /\ DOMAIN InfoTables = 1 .. 4
    BY DEF ScheduleTables, InfoTables
  <2>2. /\ Len(ScheduleColumns) = 9 /\ DOMAIN ScheduleColumns = 1 .. 9
        /\ Len(InfoColumns) = 8 /\ DOMAIN InfoColumns = 1 .. 8
    BY DEF ScheduleColumns, InfoColumns
  <2>3. Len(Views) = 6 /\ DOMAIN Views = 1 .. 6
    BY DEF Views
  <2>4. Len(n1) = 5 /\ DOMAIN n1 = 1 .. 5
    BY DEF n1
  <2>5. \A p \in 1 .. 5 :
           n1[p] \in {ScheduleTables, InfoTables, ScheduleColumns, InfoColumns, Views}
    BY DEF n1
  <2>6. \A s \in {ScheduleTables, InfoTables, ScheduleColumns, InfoColumns, Views} :
           Len(s) \in Nat \ {0} /\ DOMAIN s = 1 .. Len(s)
    BY <2>1, <2>2, <2>3
  <2> HIDE DEF n1
  <2> QED
    BY <2>4, <2>5, <2>6 DEF Phased
<1>2. Phased(n2)
  BY DEF Phased, n2, PageTable, PageColumns
<1>3. Phased(n3)
  <2>1. /\ Len(EditColumns) = 6 /\ DOMAIN EditColumns = 1 .. 6
        /\ Len(SummaryColumn) = 2 /\ DOMAIN SummaryColumn = 1 .. 2
    BY DEF EditColumns, SummaryColumn
  <2> QED
    BY <2>1 DEF Phased, n3
<1>4. Phased(n4)
  <2>1. /\ Len(FileColumns) = 3 /\ DOMAIN FileColumns = 1 .. 3
        /\ Len(DropContactInfo) = 1 /\ DOMAIN DropContactInfo = 1 .. 1
        /\ Len(DropFiles) = 1 /\ DOMAIN DropFiles = 1 .. 1
    BY DEF FileColumns, DropContactInfo, DropFiles
  <2> QED
    BY <2>1 DEF Phased, n4
<1>5. Phased(n5)
  BY DEF Phased, n5, InstallHook
<1>6. Phased(<< >>)
  BY DEF Phased
<1> QED
  BY <1>1, <1>2, <1>3, <1>4, <1>5, <1>6, PhasesAre DEF LastVersion
-----------------------------------------------------------------------------
(* The bases the versions stand for.                                       *)

\* A column that a call creates belongs to its migration, and so does one that
\* it drops.
LEMMA CallsOfMigration ==
    ASSUME NEW v \in 0 .. LastVersion,
           NEW p \in DOMAIN Phases(v), NEW i \in DOMAIN Phases(v)[p]
    PROVE  /\ Phases(v)[p][i].creates \subseteq Creates(v)
           /\ Phases(v)[p][i].drops \subseteq Drops(v)
BY DEF Creates, Drops

LEMMA OnlyN4Drops ==
    \A v \in 0 .. LastVersion :
        IF v = 3 THEN Drops(v) \subseteq Doomed /\ Creates(v) \cap Doomed = {}
                 ELSE Drops(v) = {}
<1>1. Drops(0) = {}
  BY N1Plain, PhasesAre DEF Drops, Plain
<1>2. Drops(1) = {}
  BY N2Plain, PhasesAre DEF Drops, Plain
<1>3. Drops(2) = {}
  BY N3Plain, PhasesAre DEF Drops, Plain
<1>4. Drops(3) \subseteq Doomed
  BY N4Calls, PhasesAre DEF Drops
<1>5. Creates(3) \cap Doomed = {}
  BY N4Calls, PhasesAre DEF Creates, Fresh
<1>6. Drops(4) = {}
  BY N5Calls, PhasesAre DEF Drops, Plain
<1>7. Drops(5) = {}
  BY PhasesAre DEF Drops
<1> QED
  BY <1>1, <1>2, <1>3, <1>4, <1>5, <1>6, <1>7 DEF LastVersion

LEMMA LastCreatesNothing == Creates(LastVersion) = {}
BY PhasesAre DEF Creates, LastVersion

LEMMA NothingComesBack ==
    \A v \in 0 .. LastVersion : \A w \in 0 .. v : Creates(v) \cap Drops(w) = {}
<1>1. Creates(4) \cap Doomed = {}
  BY N5Calls, PhasesAre DEF Creates, Fresh
<1> QED
  BY <1>1, OnlyN4Drops, LastCreatesNothing DEF LastVersion

LEMMA FirstSchema == SchemaAt(0) = {}
BY DEF SchemaAt

LEMMA NextSchema ==
    ASSUME NEW v \in 0 .. LastVersion - 1
    PROVE  SchemaAt(v + 1) = (SchemaAt(v) \ Drops(v)) \cup Creates(v)
<1>1. 0 .. v + 1 - 1 = (0 .. v - 1) \cup {v}
  BY DEF LastVersion
<1>2. \A w \in 0 .. v : Creates(v) \cap Drops(w) = {}
  BY NothingComesBack DEF LastVersion
<1>3. \A w \in (0 .. v - 1) \cup {v} : w \in 0 .. v
  BY DEF LastVersion
<1>4. SchemaAt(v + 1) = ((UNION {Creates(w) : w \in 0 .. v - 1}) \cup Creates(v))
                          \ ((UNION {Drops(w) : w \in 0 .. v - 1}) \cup Drops(v))
  BY <1>1 DEF SchemaAt
<1>5. Creates(v) \cap ((UNION {Drops(w) : w \in 0 .. v - 1}) \cup Drops(v)) = {}
  BY <1>2, <1>3
<1> QED
  BY <1>4, <1>5 DEF SchemaAt

-----------------------------------------------------------------------------
(* The inductive invariant.                                                *)

\* SchemaMatchesVersion is not inductive: the version is recorded at the end of
\* a migration that may have been started over a base an earlier attempt had
\* left half done.  What is then recorded is right because a base is always
\* between its version and the next, and because at the last call every column
\* of the migration has been created, and dropped, by this attempt.
Between(b) ==
    /\ SchemaAt(b.version) \ Drops(b.version) \subseteq b.schema
    /\ b.schema \subseteq SchemaAt(b.version) \cup Creates(b.version)

Exact(b) == ~b.cut => b.schema = SchemaAt(b.version)

\* The calls of a migration before a position.
Before(p, i, position) ==
    \/ p < position.phase
    \/ p = position.phase /\ i < position.at

Progress ==
    /\ db.version < LastVersion
    /\ job.phase <= Len(Phases(db.version)) + 1
    /\ job.phase \in DOMAIN Phases(db.version) =>
         job.at \in DOMAIN Phases(db.version)[job.phase]
    /\ \A p \in DOMAIN Phases(db.version) : \A i \in DOMAIN Phases(db.version)[p] :
         Before(p, i, job) =>
            /\ Phases(db.version)[p][i].creates \subseteq db.schema
            /\ Phases(db.version)[p][i].drops \cap db.schema = {}

\* Nothing that may be put back has a version greater than the one it replaces.
Ordered ==
    /\ backup.version <= db.version
    /\ Running => checkpoint.version = db.version

IInv ==
    /\ SchemaTypeOK
    /\ Between(db) /\ Between(checkpoint) /\ Between(backup)
    /\ Exact(checkpoint) /\ Exact(backup)
    /\ IF Running THEN Progress ELSE Exact(db)
    /\ Ordered

LEMMA SchemaAtTyped ==
    \A v \in 0 .. LastVersion : SchemaAt(v) \subseteq Columns
BY DEF SchemaAt, Columns, LastVersion

LEMMA OrderedStep ==
    ASSUME SchemaTypeOK, Ordered, [SchemaNext]_schemaVars PROVE Ordered'
<1>1. db.version \in Nat /\ backup.version \in Nat /\ job.phase \in Nat
  BY DEF SchemaTypeOK, Branch, LastVersion
<1>2. CASE StartMigrating
  BY <1>1, <1>2 DEF Ordered, StartMigrating, BetweenMs, Running
<1>3. CASE BeginMigration
  BY <1>3 DEF Ordered, BeginMigration, Running
<1>4. CASE UpToDate
  BY <1>4 DEF Ordered, UpToDate, Idle, Running
<1>5. CASE RunStep
  BY <1>5 DEF Ordered, RunStep, HasStep, Running
<1>6. CASE Record
  BY <1>1, <1>6 DEF Ordered, Record, BetweenMs, Running
<1>7. CASE Rollback
  BY <1>7 DEF Ordered, Rollback, Idle, Running
<1>8. CASE Crash
  BY <1>8 DEF Ordered, Crash, Idle, Running
<1>9. CASE Restore
  BY <1>1, <1>9 DEF Ordered, Restore, Idle, Running
<1>10. CASE UNCHANGED schemaVars
  BY <1>10 DEF Ordered, schemaVars, Running
<1> QED
  BY <1>2, <1>3, <1>4, <1>5, <1>6, <1>7, <1>8, <1>9, <1>10 DEF SchemaNext

LEMMA IInvInit == SchemaInit => IInv
<1> SUFFICES ASSUME SchemaInit PROVE IInv
  OBVIOUS
<1>1. PICK v \in 0 .. LastVersion :
         db = [schema |-> SchemaAt(v), version |-> v, cut |-> FALSE]
  BY SchemaAssumption DEF SchemaInit
<1>2. db \in Branch
  BY <1>1, SchemaAtTyped DEF Branch
<1>3. Between(db) /\ Exact(db)
  BY <1>1 DEF Between, Exact
<1>4. checkpoint = db /\ backup = db /\ job = [phase |-> 0, at |-> 0]
  BY DEF SchemaInit, Idle
<1>5. Ordered
  <2>1. db.version \in Nat
    BY <1>2 DEF Branch, LastVersion
  <2> QED
    BY <1>4, <2>1 DEF Ordered, Running
<1> QED
  BY <1>2, <1>3, <1>4, <1>5 DEF IInv, SchemaTypeOK, Running

\* At the end of a migration the base is the next version's.
LEMMA MigrationComplete ==
    ASSUME IInv, Running, job.phase > Len(Phases(db.version))
    PROVE  db.schema = SchemaAt(db.version + 1)
<1> DEFINE v == db.version
<1>1. v \in 0 .. LastVersion - 1
  BY DEF IInv, Progress, SchemaTypeOK, Branch, LastVersion
<1>2. \A p \in DOMAIN Phases(v) : \A i \in DOMAIN Phases(v)[p] : Before(p, i, job)
  <2>1. Phased(Phases(v)) /\ job.phase \in Nat
    BY <1>1, AllPhased DEF IInv, SchemaTypeOK, LastVersion
  <2>2. ASSUME NEW p \in DOMAIN Phases(v) PROVE p < job.phase
    <3>1. p \in 1 .. Len(Phases(v)) /\ Len(Phases(v)) \in Nat
      BY <2>1 DEF Phased
    <3> QED
      BY <2>1, <3>1
  <2> QED
    BY <2>1, <2>2 DEF Before
<1>3. Creates(v) \subseteq db.schema /\ Drops(v) \cap db.schema = {}
  BY <1>2 DEF IInv, Progress, Creates, Drops
<1>4. /\ SchemaAt(v) \ Drops(v) \subseteq db.schema
      /\ db.schema \subseteq SchemaAt(v) \cup Creates(v)
  BY DEF IInv, Between
<1>5. SchemaAt(v + 1) = (SchemaAt(v) \ Drops(v)) \cup Creates(v)
  BY <1>1, NextSchema
<1> QED
  BY <1>3, <1>4, <1>5

LEMMA RunStepKeeps == ASSUME IInv, RunStep PROVE IInv'
<1> DEFINE v == db.version  phase == Phases(v)[job.phase]  step == phase[job.at]
<1>1. v \in 0 .. LastVersion - 1 /\ job \in [phase : Nat, at : Nat] /\ db \in Branch
  BY DEF IInv, RunStep, HasStep, Progress, SchemaTypeOK, Branch, LastVersion
<1>2. job.phase \in DOMAIN Phases(v) /\ job.at \in DOMAIN phase /\ Current = step
  BY DEF IInv, RunStep, HasStep, Progress, Current
<1>3. db' = [schema |-> (db.schema \ step.drops) \cup step.creates,
             version |-> v, cut |-> db.cut]
  BY <1>2 DEF RunStep
<1>4. step.creates \subseteq Creates(v) /\ step.drops \subseteq Drops(v)
  BY <1>1, <1>2, CallsOfMigration DEF LastVersion
<1>5. Creates(v) \cap Drops(v) = {}
  BY <1>1, NothingComesBack DEF LastVersion
<1>6. Phased(Phases(v))
  BY <1>1, AllPhased DEF LastVersion
<1>7. job' = IF job.at < Len(phase) THEN [phase |-> job.phase, at |-> job.at + 1]
                                    ELSE [phase |-> job.phase + 1, at |-> 1]
  BY DEF RunStep, Advance
<1>8. db' \in Branch /\ job' \in [phase : Nat, at : Nat]
  <2>1. Creates(v) \subseteq Columns
    BY <1>1 DEF Columns
  <2>2. db.schema \subseteq Columns /\ db.cut \in BOOLEAN
    BY <1>1 DEF Branch
  <2>3. ((db.schema \ step.drops) \cup step.creates) \subseteq Columns
    BY <1>4, <2>1, <2>2
  <2>4. db' \in Branch
    BY <1>1, <1>3, <2>2, <2>3 DEF Branch, LastVersion
  <2> QED
    BY <1>1, <1>7, <2>4
<1>9. Between(db)'
  BY <1>3, <1>4, <1>5 DEF Between, IInv
<1>10. Running'
  BY <1>1, <1>7 DEF RunStep, HasStep, Running
<1>11. Progress'
  <2>1. db'.version = v /\ db'.schema = (db.schema \ step.drops) \cup step.creates
    BY <1>3
  <2>2. job'.phase <= Len(Phases(v)) + 1
    BY <1>1, <1>2, <1>6, <1>7 DEF Phased
  <2>3. job'.phase \in DOMAIN Phases(v) => job'.at \in DOMAIN Phases(v)[job'.phase]
    BY <1>1, <1>2, <1>6, <1>7 DEF Phased
  <2>4. ASSUME NEW p \in DOMAIN Phases(v), NEW i \in DOMAIN Phases(v)[p], Before(p, i, job')
        PROVE  /\ Phases(v)[p][i].creates \subseteq db'.schema
               /\ Phases(v)[p][i].drops \cap db'.schema = {}
    <3>1. Before(p, i, job) \/ (p = job.phase /\ i = job.at)
      <4>1. p \in Nat /\ i \in 1 .. Len(Phases(v)[p]) /\ Len(Phases(v)[p]) \in Nat
        BY <1>6 DEF Phased
      <4>2. job.phase \in Nat /\ job.at \in Nat
        BY <1>1
      <4>3. CASE job.at < Len(phase)
        <5>1. job'.phase = job.phase /\ job'.at = job.at + 1
          BY <1>7, <4>3
        <5> QED
          BY <2>4, <4>1, <4>2, <5>1 DEF Before
      <4>4. CASE ~(job.at < Len(phase))
        <5>1. job'.phase = job.phase + 1 /\ job'.at = 1
          BY <1>7, <4>4
        <5>2. job.at \in 1 .. Len(phase) /\ Len(phase) \in Nat
          BY <1>2, <1>6 DEF Phased
        <5> QED
          BY <2>4, <4>1, <4>2, <4>4, <5>1, <5>2 DEF Before
      <4> QED
        BY <4>3, <4>4
    <3>2. Phases(v)[p][i].creates \subseteq Creates(v) /\ Phases(v)[p][i].drops \subseteq Drops(v)
      BY <1>1, CallsOfMigration DEF LastVersion
    <3>3. CASE Before(p, i, job)
      <4>1. /\ Phases(v)[p][i].creates \subseteq db.schema
            /\ Phases(v)[p][i].drops \cap db.schema = {}
        BY <3>3 DEF IInv, Progress, RunStep, HasStep
      <4> QED
        BY <1>4, <1>5, <2>1, <3>2, <4>1
    <3>4. CASE p = job.phase /\ i = job.at
      BY <1>4, <1>5, <2>1, <3>2, <3>4
    <3> QED
      BY <3>1, <3>3, <3>4
  <2>5. v < LastVersion
    BY <1>1 DEF LastVersion
  <2> QED
    BY <2>1, <2>2, <2>3, <2>4, <2>5 DEF Progress
<1>12. UNCHANGED <<checkpoint, backup>>
  BY DEF RunStep
<1>13. Ordered'
  BY OrderedStep DEF IInv, SchemaNext
<1> QED
  BY <1>8, <1>9, <1>10, <1>11, <1>12, <1>13 DEF IInv, SchemaTypeOK, Between, Exact

LEMMA RecordKeeps == ASSUME IInv, Record PROVE IInv'
<1>1. db.version \in 0 .. LastVersion - 1
  BY DEF IInv, Record, Progress, SchemaTypeOK, Branch, LastVersion
<1>2. db.schema = SchemaAt(db.version + 1)
  BY MigrationComplete DEF Record
<1>3. db' = [schema |-> db.schema, version |-> db.version + 1, cut |-> db.cut]
  BY DEF Record
<1>4. db' \in Branch
  BY <1>1, <1>3 DEF IInv, SchemaTypeOK, Branch, LastVersion
<1>5. job' = [phase |-> 0, at |-> 1] /\ UNCHANGED <<checkpoint, backup>>
  BY DEF Record, BetweenMs
<1>6. Between(db)' /\ Exact(db)'
  BY <1>2, <1>3 DEF Between, Exact
<1>7. Ordered'
  BY OrderedStep DEF IInv, SchemaNext
<1> QED
  BY <1>4, <1>5, <1>6, <1>7 DEF IInv, SchemaTypeOK, Running, Between, Exact

LEMMA BeginKeeps == ASSUME IInv, BeginMigration PROVE IInv'
<1>1. db.version \in 0 .. LastVersion - 1 /\ ~Running /\ Exact(db)
  BY DEF IInv, BeginMigration, SchemaTypeOK, Branch, LastVersion, BetweenMs, Running
<1>2. Phased(Phases(db.version))
  BY <1>1, AllPhased DEF LastVersion
<1>3. job' = [phase |-> 1, at |-> 1] /\ UNCHANGED <<db, backup>> /\ checkpoint' = db
  BY DEF BeginMigration
<1>4. Progress'
  BY <1>1, <1>2, <1>3 DEF Progress, Phased, Before, LastVersion
<1>5. Ordered'
  BY OrderedStep DEF IInv, SchemaNext
<1> QED
  BY <1>1, <1>3, <1>4, <1>5 DEF IInv, SchemaTypeOK, Between, Exact, Running

LEMMA IInvStep == IInv /\ [SchemaNext]_schemaVars => IInv'
<1> SUFFICES ASSUME IInv, [SchemaNext]_schemaVars PROVE IInv'
  OBVIOUS
<1>0. Ordered'
  BY OrderedStep DEF IInv
<1>1. CASE StartMigrating
  BY <1>0, <1>1 DEF StartMigrating, Idle, BetweenMs, IInv, SchemaTypeOK, Between, Exact, Running
<1>2. CASE UpToDate
  BY <1>0, <1>2 DEF UpToDate, Idle, BetweenMs, IInv, SchemaTypeOK, Between, Exact, Running
<1>3. CASE Rollback
  BY <1>0, <1>3 DEF Rollback, Idle, IInv, SchemaTypeOK, Between, Exact, Running
<1>4. CASE Restore
  BY <1>0, <1>4 DEF Restore, Idle, IInv, SchemaTypeOK, Between, Exact, Running
<1>5. CASE Crash
  <2>1. db' = [schema |-> db.schema, version |-> db.version, cut |-> db.cut \/ Running]
    BY <1>5 DEF Crash
  <2>2. job' = [phase |-> 0, at |-> 0] /\ UNCHANGED <<checkpoint, backup>>
    BY <1>5 DEF Crash, Idle
  <2>3. Running \in BOOLEAN /\ db \in Branch
    BY DEF Running, IInv, SchemaTypeOK
  <2>4. (db.cut \/ Running) \in BOOLEAN
    OBVIOUS
  <2>5. db' \in Branch
    BY <2>1, <2>3, <2>4 DEF Branch
  <2>6. Exact(db)'
    BY <2>1 DEF IInv, Exact
  <2> QED
    BY <1>0, <2>1, <2>2, <2>5, <2>6 DEF IInv, SchemaTypeOK, Between, Exact, Running
<1>6. CASE UNCHANGED schemaVars
  BY <1>0, <1>6 DEF schemaVars, IInv, SchemaTypeOK, Between, Exact, Running, Progress
<1> QED
  BY <1>1, <1>2, <1>3, <1>4, <1>5, <1>6, RunStepKeeps, RecordKeeps, BeginKeeps DEF SchemaNext

LEMMA IInvAlways == SchemaSpec => []IInv
BY IInvInit, IInvStep, PTL DEF SchemaSpec

\* Every state of a base and its migrations is well typed: whatever fails, a
\* base holds no column but those the migrations create.
THEOREM SchemaTypeCorrect == SchemaSpec => []SchemaTypeOK
<1>1. IInv => SchemaTypeOK
  BY DEF IInv
<1> QED
  BY <1>1, IInvAlways, PTL

\* From any versions and with any faults, a base between admin calls is what its
\* version stands for, unless a call was cut short.
THEOREM BasesMatchVersions == SchemaSpec => []SchemaMatchesVersion
<1>1. IInv => SchemaMatchesVersion
  BY DEF IInv, SchemaMatchesVersion, Exact, Idle, Running
<1> QED
  BY <1>1, IInvAlways, PTL

\* A version is recorded over the base it stands for only, even when the
\* migration began over what an interrupted one had left.
THEOREM RecordsAreTrue == SchemaSpec => RecordedIsTrue
<1>1. IInv /\ [SchemaNext]_schemaVars =>
         [db.version' > db.version => db.schema' = SchemaAt(db.version')]_db
  <2> SUFFICES ASSUME IInv, [SchemaNext]_schemaVars, db'.version > db.version
               PROVE  db'.schema = SchemaAt(db'.version)
    OBVIOUS
  <2>1. db.version \in Nat /\ db'.version \in Nat /\ backup.version <= db.version
    BY IInvStep DEF IInv, Ordered, SchemaTypeOK, Branch, LastVersion
  <2>2. CASE Record
    BY <2>2, MigrationComplete DEF Record
  <2>3. CASE Rollback \/ Restore
    BY <2>1, <2>3 DEF Rollback, Restore, IInv, Ordered
  <2>4. CASE RunStep \/ Crash
    BY <2>1, <2>4 DEF RunStep, Crash
  <2>5. CASE UNCHANGED db
    BY <2>1, <2>5
  <2> QED
    BY <2>2, <2>3, <2>4, <2>5
       DEF SchemaNext, StartMigrating, BeginMigration, UpToDate, schemaVars
<1> QED
  BY <1>1, IInvAlways, PTL DEF SchemaSpec, RecordedIsTrue

-----------------------------------------------------------------------------
(* What readers need.                                                      *)

\* The pages table comes in one call with all its readers need, and no call
\* touches it before it is there.
PageBase  == {<<"pages", "id", "ID">>, <<"pages", "title", "PageTitle">>}
PagesOK(b) == "pages" \in TablesOf(b.schema) => PageBase \subseteq b.schema

TouchesPages(step) ==
    \/ OffPages(step)
    \/ PageBase \subseteq step.creates
    \/ <<"pages", "id">> \in step.byName

LEMMA PagesCalls ==
    ASSUME NEW v \in 0 .. LastVersion - 1,
           NEW p \in DOMAIN Phases(v), NEW i \in DOMAIN Phases(v)[p]
    PROVE  TouchesPages(Phases(v)[p][i])
<1>1. \A q \in DOMAIN n1 : \A j \in DOMAIN n1[q] : TouchesPages(n1[q][j])
  BY N1OffPages DEF TouchesPages
<1>2. \A q \in DOMAIN n2 : \A j \in DOMAIN n2[q] : TouchesPages(n2[q][j])
  <2>1. TouchesPages(CreateTable("pages", "title", "PageTitle"))
    BY DEF TouchesPages, CreateTable, NewTable, Step, PageBase
  <2>2. TouchesPages(CreateColumn("pages", "body", "PageBody"))
    BY DEF TouchesPages, CreateColumn, Step
  <2> QED
    BY <2>1, <2>2 DEF n2, PageTable, PageColumns
<1>3. \A q \in DOMAIN n3 : \A j \in DOMAIN n3[q] : TouchesPages(n3[q][j])
  <2>1. /\ OffPages(ListTables)
        /\ \A t, name : OffPages(EditNamed(t, name))
        /\ \A t, title : OffPages(EditGenerated(t, title))
    BY DEF OffPages, Step, ListTables, EditNamed, EditGenerated
  <2>2. \A j \in DOMAIN EditColumns : TouchesPages(EditColumns[j])
    BY <2>1 DEF EditColumns, TouchesPages
  <2>3. \A j \in DOMAIN SummaryColumn : TouchesPages(SummaryColumn[j])
    BY OffPagesCalls DEF SummaryColumn, TouchesPages
  <2> QED
    BY <2>2, <2>3 DEF n3
<1>4. \A q \in DOMAIN n4 : \A j \in DOMAIN n4[q] : TouchesPages(n4[q][j])
  <2>1. TouchesPages(ListTables)
    BY DEF TouchesPages, OffPages, ListTables, Step
  <2>2. \A t \in {"about", "pages"} : TouchesPages(CreateColumn(t, "files", "Files"))
    BY DEF TouchesPages, OffPages, CreateColumn, Step
  <2>3. \A j \in DOMAIN FileColumns : TouchesPages(FileColumns[j])
    BY <2>1, <2>2 DEF FileColumns
  <2>4. \A j \in DOMAIN DropContactInfo : TouchesPages(DropContactInfo[j])
    BY DEF DropContactInfo, DeleteColumn, Step, TouchesPages, OffPages
  <2>5. \A j \in DOMAIN DropFiles : TouchesPages(DropFiles[j])
    BY DEF DropFiles, DeleteTable, Step, TouchesPages, OffPages
  <2> QED
    BY <2>3, <2>4, <2>5 DEF n4
<1>5. \A q \in DOMAIN n5 : \A j \in DOMAIN n5[q] : TouchesPages(n5[q][j])
  BY DEF n5, InstallHook, ListTables, Step, TouchesPages, OffPages
<1> QED
  BY <1>1, <1>2, <1>3, <1>4, <1>5, PhasesAre DEF LastVersion

LEMMA PageBaseLasts == PageBase \cap Doomed = {}
BY DEF PageBase, Doomed, FilesTable, NewTable

LEMMA RunStepKeepsPages ==
    ASSUME IInv, PagesOK(db), RunStep PROVE PagesOK(db)'
<1> DEFINE v == db.version  step == Phases(v)[job.phase][job.at]
<1>1. /\ v \in 0 .. LastVersion - 1
      /\ job.phase \in DOMAIN Phases(v)
      /\ job.at \in DOMAIN Phases(v)[job.phase]
  BY DEF IInv, RunStep, HasStep, Progress, SchemaTypeOK, Branch, LastVersion
<1>2. db'.schema = (db.schema \ step.drops) \cup step.creates /\ Accepts(db.schema, step)
  BY DEF RunStep, Current
<1>3. TouchesPages(step)
  BY <1>1, PagesCalls
<1>4. step.drops \subseteq Drops(v)
  BY <1>1, CallsOfMigration DEF LastVersion
<1>5. Drops(v) \subseteq Doomed
  BY <1>1, OnlyN4Drops DEF LastVersion
<1>6. step.drops \cap PageBase = {}
  BY <1>4, <1>5, PageBaseLasts
<1>7. PageBase \subseteq db.schema => PagesOK(db)'
  BY <1>2, <1>6 DEF PagesOK
<1>8. CASE OffPages(step)
  <2>1. "pages" \in TablesOf(db'.schema) => "pages" \in TablesOf(db.schema)
    BY <1>2, <1>8 DEF OffPages, TablesOf
  <2> QED
    BY <1>7, <2>1 DEF PagesOK
<1>9. CASE PageBase \subseteq step.creates
  BY <1>2, <1>9 DEF PagesOK
<1>10. CASE <<"pages", "id">> \in step.byName
  <2>1. <<"pages", "id">> \in Names(db.schema)
    BY <1>2, <1>10 DEF Accepts
  <2>2. "pages" \in TablesOf(db.schema)
    BY <2>1 DEF Names, TablesOf
  <2> QED
    BY <1>7, <2>2 DEF PagesOK
<1> QED
  BY <1>3, <1>8, <1>9, <1>10 DEF TouchesPages

PagesInv == PagesOK(db) /\ PagesOK(checkpoint) /\ PagesOK(backup)

LEMMA N1HasNoPages == \A c \in Creates(0) : c[1] # "pages"
BY N1OffPages, PhasesAre DEF Creates, OffPages

LEMMA PageBaseCreated == PageBase \subseteq Creates(1)
<1>1. 1 \in DOMAIN n2 /\ n2[1] = PageTable /\ 1 \in DOMAIN PageTable
  BY DEF n2, PageTable
<1>2. PageBase \subseteq PageTable[1].creates
  BY DEF PageTable, CreateTable, NewTable, Step, PageBase
<1> QED
  BY <1>1, <1>2, PhasesAre DEF Creates

\* Whatever version a base starts at, its pages table is complete or missing.
LEMMA PagesInit == SchemaInit => PagesInv
<1> SUFFICES ASSUME SchemaInit PROVE PagesInv
  OBVIOUS
<1>1. PICK v \in 0 .. LastVersion :
         db = [schema |-> SchemaAt(v), version |-> v, cut |-> FALSE]
  BY SchemaAssumption DEF SchemaInit
<1>2. CASE v = 0
  BY <1>1, <1>2, FirstSchema DEF SchemaInit, PagesInv, PagesOK, TablesOf
<1>3. CASE v = 1
  <2>1. SchemaAt(v) \subseteq Creates(0)
    BY <1>3 DEF SchemaAt
  <2>2. "pages" \notin TablesOf(db.schema)
    BY <1>1, <2>1, N1HasNoPages DEF TablesOf
  <2> QED
    BY <2>2 DEF SchemaInit, PagesInv, PagesOK
<1>4. CASE v \in 2 .. LastVersion
  <2>1. PageBase \subseteq UNION {Creates(w) : w \in 0 .. v - 1}
    BY <1>4, PageBaseCreated DEF LastVersion
  <2>2. \A w \in 0 .. v - 1 : Drops(w) \cap PageBase = {}
    BY <1>4, OnlyN4Drops, PageBaseLasts DEF LastVersion
  <2>3. PageBase \subseteq SchemaAt(v)
    BY <2>1, <2>2 DEF SchemaAt
  <2> QED
    BY <1>1, <2>3 DEF SchemaInit, PagesInv, PagesOK
<1> QED
  BY <1>2, <1>3, <1>4 DEF LastVersion

LEMMA PagesStep == IInv /\ PagesInv /\ [SchemaNext]_schemaVars => PagesInv'
<1> SUFFICES ASSUME IInv, PagesInv, [SchemaNext]_schemaVars PROVE PagesInv'
  OBVIOUS
<1>1. CASE RunStep
  BY <1>1, RunStepKeepsPages DEF RunStep, PagesInv, PagesOK
<1>2. CASE Record \/ Crash
  BY <1>2 DEF Record, Crash, PagesInv, PagesOK
<1>3. CASE Rollback \/ Restore
  BY <1>3 DEF Rollback, Restore, PagesInv, PagesOK
<1>4. CASE StartMigrating \/ BeginMigration \/ UpToDate \/ UNCHANGED schemaVars
  BY <1>4 DEF StartMigrating, BeginMigration, UpToDate, schemaVars, PagesInv, PagesOK
<1> QED
  BY <1>1, <1>2, <1>3, <1>4 DEF SchemaNext

\* The columns readers need outside the pages table.
ScheduleBase == {
    <<"events", "id", "ID">>, <<"events", "name", "EventName">>,
    <<"events", "hidden", "Hidden">>, <<"events", "link", "TagsM2M">>,
    <<"events", "link", "PeopleM2M">>,
    <<"people", "id", "ID">>, <<"people", "name", "Name">>,
    <<"tags", "id", "ID">>, <<"tags", "name", "Tag">> }
InfoBase == {
    <<"about", "con_name", "ConName">>,
    <<"links", "name", "LinkName">>, <<"links", "url", "URL">>,
    <<"announcements", "id", "ID">>, <<"announcements", "title", "Title">>,
    <<"announcements", "generated", "Created">> }

LEMMA BaseLasts == (ScheduleBase \cup InfoBase) \cap Doomed = {}
BY DEF ScheduleBase, InfoBase, Doomed, FilesTable, NewTable

\* Every call of n1 creates its columns for version 1.
LEMMA CallsOfN1 ==
    ASSUME NEW p \in DOMAIN n1, NEW i \in DOMAIN n1[p]
    PROVE  n1[p][i].creates \subseteq Creates(0)
BY PhasesAre DEF Creates

LEMMA BaseCreated == ScheduleBase \cup InfoBase \subseteq Creates(0)
<1>1. /\ DOMAIN n1 = 1 .. 5
      /\ n1[1] = ScheduleTables /\ n1[2] = InfoTables
      /\ n1[3] = ScheduleColumns /\ n1[4] = InfoColumns
  BY DEF n1
<1>2. /\ \A i \in DOMAIN ScheduleTables : ScheduleTables[i].creates \subseteq Creates(0)
      /\ \A i \in DOMAIN InfoTables : InfoTables[i].creates \subseteq Creates(0)
      /\ \A i \in DOMAIN ScheduleColumns : ScheduleColumns[i].creates \subseteq Creates(0)
      /\ \A i \in DOMAIN InfoColumns : InfoColumns[i].creates \subseteq Creates(0)
  BY <1>1, CallsOfN1
<1>3. /\ \A t, name, title : CreateTable(t, name, title).creates = NewTable(t, name, title)
      /\ \A t, name, title : CreateColumn(t, name, title).creates = {<<t, name, title>>}
      /\ \A t, name, title, child, back :
           <<child, "link", back>> \in CreateLink(t, name, title, child, back).creates
  BY DEF CreateTable, CreateColumn, CreateLink, Step
<1>4. /\ NewTable("events", "name", "EventName") \subseteq Creates(0)
      /\ NewTable("people", "name", "Name") \subseteq Creates(0)
      /\ NewTable("tags", "name", "Tag") \subseteq Creates(0)
  <2>1. /\ DOMAIN ScheduleTables = 1 .. 5
        /\ ScheduleTables[1] = CreateTable("events", "name", "EventName")
        /\ ScheduleTables[3] = CreateTable("people", "name", "Name")
        /\ ScheduleTables[5] = CreateTable("tags", "name", "Tag")
    BY DEF ScheduleTables
  <2> QED
    BY <1>2, <1>3, <2>1
<1>5. /\ NewTable("announcements", "title", "Title") \subseteq Creates(0)
      /\ NewTable("about", "con_name", "ConName") \subseteq Creates(0)
      /\ NewTable("links", "name", "LinkName") \subseteq Creates(0)
  <2>1. /\ DOMAIN InfoTables = 1 .. 4
        /\ InfoTables[1] = CreateTable("announcements", "title", "Title")
        /\ InfoTables[2] = CreateTable("about", "con_name", "ConName")
        /\ InfoTables[3] = CreateTable("links", "name", "LinkName")
    BY DEF InfoTables
  <2> QED
    BY <1>2, <1>3, <2>1
<1>6. /\ <<"events", "hidden", "Hidden">> \in Creates(0)
      /\ <<"events", "link", "TagsM2M">> \in Creates(0)
      /\ <<"events", "link", "PeopleM2M">> \in Creates(0)
  <2>1. /\ DOMAIN ScheduleColumns = 1 .. 9
        /\ ScheduleColumns[6] = CreateLink("people", "events", "Events", "events", "PeopleM2M")
        /\ ScheduleColumns[8] = CreateLink("tags", "events", "Events", "events", "TagsM2M")
        /\ ScheduleColumns[9] = CreateColumn("events", "hidden", "Hidden")
    BY DEF ScheduleColumns
  <2> QED
    BY <1>2, <1>3, <2>1
<1>7. /\ <<"announcements", "generated", "Created">> \in Creates(0)
      /\ <<"links", "url", "URL">> \in Creates(0)
  <2>1. /\ DOMAIN InfoColumns = 1 .. 8
        /\ InfoColumns[3] = CreateColumn("announcements", "generated", "Created")
        /\ InfoColumns[7] = CreateColumn("links", "url", "URL")
    BY DEF InfoColumns
  <2> QED
    BY <1>2, <1>3, <2>1
<1>8. ScheduleBase \subseteq Creates(0)
  BY <1>4, <1>6 DEF ScheduleBase, NewTable
<1>9. InfoBase \subseteq Creates(0)
  BY <1>5, <1>7 DEF InfoBase, NewTable
<1> QED
  BY <1>8, <1>9

LEMMA BaseEnough ==
    ASSUME NEW s, ScheduleBase \cup InfoBase \cup PageBase \subseteq s
    PROVE  \A t \in KnownTables : Decodes(s, t)
<1>1. \A c \in ScheduleBase \cup InfoBase \cup PageBase : <<c[1], c[3]>> \in Titles(s)
  BY DEF Titles
<1>2. /\ \A f \in {"ID", "EventName", "Hidden", "TagsM2M", "PeopleM2M"} :
           <<"events", f>> \in Titles(s)
      /\ \A f \in {"ID", "Name"} : <<"people", f>> \in Titles(s)
      /\ \A f \in {"ID", "Tag"} : <<"tags", f>> \in Titles(s)
  <2>1. \A c \in ScheduleBase : <<c[1], c[3]>> \in Titles(s)
    BY <1>1
  <2> QED
    BY <2>1 DEF ScheduleBase
<1>3. /\ \A f \in {"ConName"} : <<"about", f>> \in Titles(s)
      /\ \A f \in {"LinkName", "URL"} : <<"links", f>> \in Titles(s)
      /\ \A f \in {"ID", "Title", "Created"} : <<"announcements", f>> \in Titles(s)
  <2>1. \A c \in InfoBase : <<c[1], c[3]>> \in Titles(s)
    BY <1>1
  <2> QED
    BY <2>1 DEF InfoBase
<1>4. \A f \in {"ID", "PageTitle"} : <<"pages", f>> \in Titles(s)
  <2>1. \A c \in PageBase : <<c[1], c[3]>> \in Titles(s)
    BY <1>1
  <2> QED
    BY <2>1 DEF PageBase
<1>5. \A t \in KnownTables : \A f \in Fields[t] : <<t, f>> \in Titles(s)
  BY <1>2, <1>3, <1>4 DEF Fields, KnownTables
<1> QED
  BY <1>5 DEF Decodes

LEMMA ReadersDecodeHolds == IInv /\ PagesInv => ReadersDecode
<1> SUFFICES ASSUME IInv, PagesInv, Resolvable(db.schema)
             PROVE  \A t \in KnownTables : Decodes(db.schema, t)
  BY DEF ReadersDecode
<1> DEFINE v == db.version
<1>1. v \in 0 .. LastVersion /\ Between(db)
  BY DEF IInv, SchemaTypeOK, Branch
<1>2. "pages" \in TablesOf(db.schema)
  BY DEF Resolvable, KnownTables
<1>3. PageBase \subseteq db.schema
  BY <1>2 DEF PagesInv, PagesOK
<1>4. v # 0
  <2>1. v = 0 => db.schema \subseteq Creates(0)
    BY <1>1, FirstSchema DEF Between
  <2> QED
    BY <1>2, <2>1, N1HasNoPages DEF TablesOf
<1>5. ScheduleBase \cup InfoBase \subseteq UNION {Creates(w) : w \in 0 .. v - 1}
  BY <1>1, <1>4, BaseCreated DEF LastVersion
<1>6. \A w \in 0 .. v : Drops(w) \cap (ScheduleBase \cup InfoBase) = {}
  BY <1>1, OnlyN4Drops, BaseLasts DEF LastVersion
<1>7. \A w \in 0 .. v - 1 : w \in 0 .. v
  BY <1>1 DEF LastVersion
<1>8. ScheduleBase \cup InfoBase \subseteq SchemaAt(v)
  BY <1>5, <1>6, <1>7 DEF SchemaAt
<1>9. (ScheduleBase \cup InfoBase) \cap Drops(v) = {}
  BY <1>1, <1>6 DEF LastVersion
<1>10. ScheduleBase \cup InfoBase \subseteq db.schema
  BY <1>1, <1>8, <1>9 DEF Between
<1> QED
  BY <1>3, <1>10, BaseEnough

\* No migration, finished or half done, rolled back, restored or tried again,
\* leaves a base that resolves without a column its readers need.
THEOREM ReadersNeverBreak == SchemaSpec => []ReadersDecode
<1>1. SchemaSpec => []PagesInv
  BY PagesInit, PagesStep, IInvAlways, PTL DEF SchemaSpec
<1> QED
  BY <1>1, ReadersDecodeHolds, IInvAlways, PTL
=============================================================================
