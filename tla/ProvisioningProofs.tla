-------------------------- MODULE ProvisioningProofs --------------------------
(* For any number of bases, migrations, calls and requests, whatever fails:  *)
(* an admin call that is not cut short leaves the database in order, the     *)
(* cached IDs are those of the current base between calls that no request    *)
(* overlaps, what delete_base deletes stays in its backup, and the calls are *)
(* the transactions of Lifecycle.                                            *)
EXTENDS Provisioning, WellFoundedInduction, TLAPS

USE BoundsAssumption

-----------------------------------------------------------------------------
(* The newest of some bases is one of them.                                  *)

Below == {p \in Nat \X Nat : p[1] < p[2]}

LEMMA BelowWellFounded == IsWellFoundedOn(Below, Nat)
BY NatLessThanWellFounded DEF OpToRel, Below

LEMMA NewestIsOne ==
    ASSUME NEW S \in SUBSET Bases, S # {}
    PROVE  Newest(S) \in S
<1> DEFINE Depths == {MaxBases - b : b \in S}
<1> \A b \in S : b \in Bases /\ MaxBases - b \in Nat
  BY DEF Bases
<1>1. Depths \subseteq Nat /\ Depths # {}
  OBVIOUS
<1>2. PICK d \in Depths : \A e \in Depths : <<e, d>> \notin Below
  BY <1>1, BelowWellFounded, WFMin
<1>3. PICK b \in S : d = MaxBases - b
  OBVIOUS
<1>4. \A c \in S : c <= b
  <2> SUFFICES ASSUME NEW c \in S PROVE c <= b
    OBVIOUS
  <2>1. <<MaxBases - c, d>> \notin Below /\ MaxBases - c \in Nat
    BY <1>1, <1>2
  <2> QED
    BY <1>1, <1>3, <2>1 DEF Below, Bases
<1> QED
  BY <1>4 DEF Newest

LEMMA NewestType ==
    ASSUME NEW S \in SUBSET Bases
    PROVE  Newest(S) \in 0..MaxBases
<1>1. CASE S = {}
  BY <1>1 DEF Newest
<1>2. CASE S # {}
  <2>1. Newest(S) \in Bases
    BY <1>2, NewestIsOne
  <2> QED
    BY <2>1 DEF Bases
<1> QED
  BY <1>1, <1>2

LEMMA NewestOfOne ==
    ASSUME NEW b \in Bases
    PROVE  Newest({b}) = b
BY NewestIsOne

-----------------------------------------------------------------------------
(* Types.  The checkpoint must be there for a rollback to have a type; only  *)
(* a base that was created is inserted, a migration that exists recorded.    *)

PointInv ==
    /\ admin.step \in Body \cup {"rollback"} => snaps["checkpoint"] \in Db
    /\ admin.step = "insert" => admin.base \in 1..bases
    /\ admin.step = "record" => admin.version < Latest

TInv == TypeOK /\ PointInv

LEMMA TypeInit == Init => TInv
<1> SUFFICES ASSUME Init PROVE TInv
  OBVIOUS
<1>1. db \in Db
  BY DEF Init, Db
<1>2. admin \in Call /\ admin.step = "idle"
  BY DEF Init, Idle, Call, Kinds, Steps
<1>3. gets \in [Gets -> Request]
  BY DEF Init, NoRequest, Request
<1>4. snaps \in [Kinds -> Db \cup {None}]
  BY DEF Init
<1>5. bases = 0 /\ tables = 0 /\ kvBase = 0 /\ kvTables = 0 /\ calls = 0
      /\ deleted = 0 /\ tainted = FALSE /\ mishaps = {}
  BY DEF Init
<1>6. TypeOK
  <2>1. tainted \in BOOLEAN
    BY <1>5
  <2> QED
    BY <1>1, <1>2, <1>3, <1>4, <1>5, <2>1 DEF TypeOK
<1>7. PointInv
  BY <1>2 DEF PointInv, Body
<1> QED
  BY <1>6, <1>7 DEF TInv

LEMMA GotoType ==
    ASSUME TypeOK, NEW s \in Steps, Goto(s)
    PROVE  admin' \in Call /\ admin'.step = s
BY DEF Goto, TypeOK, Call

LEMMA IdleType == Idle \in Call /\ Idle.step = "idle"
BY DEF Idle, Call, Steps, Kinds

LEMMA NoRequestType == NoRequest \in Request
BY DEF NoRequest, Request

LEMMA BeginType ==
    ASSUME TypeOK, NEW call, Begin(call)
    PROVE  /\ call \in Calls /\ admin = Idle
           /\ calls' \in 0..MaxCalls
           /\ tainted' \in BOOLEAN
           /\ mishaps' \subseteq {"cut", "overlap", "dashboard"}
           /\ UNCHANGED <<db, bases, tables, snaps, gets>>
<1>1. calls' \in 0..MaxCalls
  <2>1. calls \in 0..MaxCalls
    BY DEF TypeOK
  <2>2. calls < MaxCalls /\ calls' = calls + 1
    BY DEF Begin
  <2> QED
    BY <2>1, <2>2
<1>2. /\ call \in Calls /\ admin = Idle
      /\ UNCHANGED <<db, bases, tables, snaps, gets>>
  BY DEF Begin, made
<1>3. /\ tainted' \in BOOLEAN
      /\ mishaps' \subseteq {"cut", "overlap", "dashboard"}
  BY DEF Begin, TypeOK
<1> QED
  BY <1>1, <1>2, <1>3

LEMMA LookupType ==
    ASSUME TypeOK, NEW b \in Bases, Lookup(b)
    PROVE  kvBase' \in 0..MaxBases /\ kvTables' = kvTables /\ b \in 0..MaxBases
BY DEF Lookup, TypeOK, Bases

\* The calls as they begin, as records.
Started(c, s, k, o, b, v) ==
    [call |-> c, step |-> s, kind |-> k, source |-> o, base |-> b, version |-> v]

LEMMA StartedType ==
    ASSUME NEW c \in Calls, NEW s \in {"archive", "wipeTables"},
           NEW k \in Kinds \cup {"manual"}, NEW o \in Kinds,
           NEW b \in 0..MaxBases, NEW v \in 0..Latest
    PROVE  /\ Started(c, s, k, o, b, v) \in Call
           /\ Started(c, s, k, o, b, v).step \notin Body \cup {"rollback"}
BY DEF Call, Started, Steps, Body

LEMMA BeganCreate ==
    ASSUME StartCreate
    PROVE  /\ Begin("create") /\ "create" \in Calls
           /\ Newest(db.rows) \notin db.inNoco
           /\ admin' = Started("create", IF db.rows = {} THEN "archive" ELSE "wipeTables",
                               "checkpoint", "checkpoint", Newest(db.rows), 0)
           /\ UNCHANGED <<kvBase, kvTables, deleted>>
BY DEF StartCreate, Begin, Idle, Started, cached

LEMMA BeganDelete ==
    ASSUME StartDelete
    PROVE  /\ Begin("delete") /\ "delete" \in Calls
           /\ \E b \in Bases :
                /\ Lookup(b)
                /\ admin' = Started("delete", "archive", "deletion", "checkpoint", b, 0)
                /\ deleted' = IF b = deleted /\ "cut" \notin mishaps THEN deleted ELSE 0
<1>1. PICK b \in Bases :
        /\ Lookup(b)
        /\ admin' = [Idle EXCEPT !.call = "delete", !.step = "archive",
                                 !.kind = "deletion", !.base = b]
        /\ deleted' = IF b = deleted /\ "cut" \notin mishaps THEN deleted ELSE 0
  BY DEF StartDelete
<1>2. admin' = Started("delete", "archive", "deletion", "checkpoint", b, 0)
  BY <1>1 DEF Idle, Started
<1> QED
  BY <1>1, <1>2 DEF StartDelete, Begin

LEMMA BeganMigrate ==
    ASSUME StartMigrate
    PROVE  /\ Begin("migrate") /\ "migrate" \in Calls
           /\ \E b \in Bases :
                /\ Lookup(b)
                /\ admin' = Started("migrate", "archive", "migration", "checkpoint",
                                    b, CurrentMigration)
           /\ deleted' = deleted
<1>1. PICK b \in Bases :
        /\ Lookup(b)
        /\ admin' = [Idle EXCEPT !.call = "migrate", !.step = "archive",
                                 !.kind = "migration", !.base = b,
                                 !.version = CurrentMigration]
  BY DEF StartMigrate
<1>2. admin' = Started("migrate", "archive", "migration", "checkpoint", b, CurrentMigration)
  BY <1>1 DEF Idle, Started
<1> QED
  BY <1>1, <1>2 DEF StartMigrate, Begin

LEMMA BeganBackup ==
    ASSUME StartBackup
    PROVE  /\ Begin("backup") /\ "backup" \in Calls
           /\ \E b \in Bases : Lookup(b)
           /\ admin' = Started("backup", "archive", "deployment", "checkpoint", 0, 0)
           /\ deleted' = deleted
BY DEF StartBackup, Begin, Idle, Started

LEMMA BeganRestore ==
    ASSUME NEW k, StartRestore(k)
    PROVE  /\ Begin("restore") /\ "restore" \in Calls
           /\ admin' = Started("restore", "archive", "manual", k, 0, 0)
           /\ UNCHANGED <<kvBase, kvTables, deleted>>
BY DEF StartRestore, Begin, Idle, Started, cached

LEMMA BeganWipe ==
    ASSUME StartWipe
    PROVE  /\ Begin("wipe") /\ "wipe" \in Calls
           /\ admin' = Started("wipe", "wipeTables", "checkpoint", "checkpoint", 0, 0)
           /\ UNCHANGED <<kvBase, kvTables, deleted>>
BY DEF StartWipe, Begin, Idle, Started, cached

LEMMA CurrentMigrationType ==
    ASSUME TypeOK
    PROVE  CurrentMigration \in 0..Latest
<1> DEFINE S == {c \in db.rows : db.recorded[c] > 0}
<1>1. S \in SUBSET Bases /\ 0 \in 0..Latest /\ 0 \notin Bases
  BY DEF TypeOK, Db, Bases
<1>2. CASE S = {}
  BY <1>1, <1>2 DEF CurrentMigration, Newest
<1>3. CASE S # {}
  <2>1. Newest(S) \in Bases
    BY <1>1, <1>3, NewestIsOne
  <2> QED
    BY <1>1, <2>1 DEF CurrentMigration, TypeOK, Db
<1> QED
  BY <1>2, <1>3

\* An admin call may begin as any record that is well typed.
LEMMA StartType == TInv /\ StartCall => TInv'
<1> SUFFICES ASSUME TInv, StartCall PROVE TInv'
  OBVIOUS
<1> USE DEF TInv
<1>1. ASSUME NEW call, Begin(call), admin' \in Call, admin'.step \notin Body \cup {"rollback"},
             kvBase' \in 0..MaxBases, kvTables' \in 0..MaxTables, deleted' \in 0..MaxBases
      PROVE  TInv'
  <2>1. TypeOK'
    BY <1>1, BeginType DEF TypeOK
  <2>2. PointInv'
    BY <1>1 DEF PointInv, Body
  <2> QED
    BY <2>1, <2>2
<1>0. /\ db.rows \in SUBSET Bases /\ 0 \in 0..MaxBases /\ 0 \in 0..Latest
      /\ "checkpoint" \in Kinds /\ "deletion" \in Kinds
      /\ "deployment" \in Kinds /\ "migration" \in Kinds
      /\ Bases \subseteq 0..MaxBases
  BY DEF TypeOK, Db, Kinds, Bases
<1> USE DEF TypeOK
<1>2. CASE StartCreate
  <2>1. Newest(db.rows) \in 0..MaxBases
    BY <1>0, NewestType
  <2>2. admin' \in Call /\ admin'.step \notin Body \cup {"rollback"}
    BY <1>0, <1>2, <2>1, BeganCreate, StartedType
  <2> QED
    BY <1>1, <1>2, <2>2, BeganCreate
<1>3. CASE StartDelete
  <2>1. PICK b \in Bases :
          /\ Lookup(b)
          /\ admin' = Started("delete", "archive", "deletion", "checkpoint", b, 0)
          /\ deleted' = IF b = deleted /\ "cut" \notin mishaps THEN deleted ELSE 0
    BY <1>3, BeganDelete
  <2>2. admin' \in Call /\ admin'.step \notin Body \cup {"rollback"}
    BY <1>0, <1>3, <2>1, BeganDelete, StartedType
  <2>3. deleted' \in 0..MaxBases /\ Begin("delete")
    BY <1>3, <2>1, BeganDelete
  <2> QED
    BY <1>1, <2>1, <2>2, <2>3, LookupType
<1>4. CASE StartMigrate
  <2>1. PICK b \in Bases :
          /\ Lookup(b)
          /\ admin' = Started("migrate", "archive", "migration", "checkpoint",
                              b, CurrentMigration)
    BY <1>4, BeganMigrate
  <2>2. admin' \in Call /\ admin'.step \notin Body \cup {"rollback"}
    BY <1>0, <1>4, <2>1, BeganMigrate, StartedType, CurrentMigrationType
  <2> QED
    BY <1>1, <1>4, <2>1, <2>2, BeganMigrate, LookupType
<1>5. CASE StartBackup
  <2>1. admin' \in Call /\ admin'.step \notin Body \cup {"rollback"}
    BY <1>0, <1>5, BeganBackup, StartedType
  <2> QED
    BY <1>1, <1>5, <2>1, BeganBackup, LookupType
<1>6. ASSUME NEW k \in Kinds \ {"checkpoint"}, StartRestore(k) PROVE TInv'
  <2>1. admin' \in Call /\ admin'.step \notin Body \cup {"rollback"}
    <3>1. admin' = Started("restore", "archive", "manual", k, 0, 0) /\ "restore" \in Calls
      BY <1>6, BeganRestore
    <3>2. "manual" \in Kinds \cup {"manual"} /\ k \in Kinds
      OBVIOUS
    <3> QED
      BY <1>0, <3>1, <3>2, StartedType
  <2> QED
    BY <1>1, <1>6, <2>1, BeganRestore
<1>7. CASE StartWipe
  <2>1. admin' \in Call /\ admin'.step \notin Body \cup {"rollback"}
    BY <1>0, <1>7, BeganWipe, StartedType
  <2> QED
    BY <1>1, <1>7, <2>1, BeganWipe
<1> QED
  BY <1>2, <1>3, <1>4, <1>5, <1>6, <1>7 DEF StartCall


\* Calls that leave the database as it is, and snapshots.
LEMMA SnapshotType == TInv /\ (Archive \/ Snapshot \/ Restore \/ RestoreNothing \/ Rollback) => TInv'
<1> SUFFICES ASSUME TInv, Archive \/ Snapshot \/ Restore \/ RestoreNothing \/ Rollback
             PROVE  TInv'
  OBVIOUS
<1> USE DEF TInv, PointInv
<1>1. ASSUME admin' \in Call, db' \in Db, snaps' \in [Kinds -> Db \cup {None}],
             UNCHANGED <<made, cached, calls, gets, history>>
      PROVE  TypeOK'
  BY <1>1 DEF TypeOK, made, cached, history
<1>2. CASE Archive
  <2>1. admin' \in Call /\ admin'.step = "snapshot"
    BY <1>2, GotoType DEF Archive, Steps
  <2>2. snaps' \in [Kinds -> Db \cup {None}]
    BY <1>2 DEF Archive, TypeOK
  <2> QED
    BY <1>1, <1>2, <2>1, <2>2 DEF Archive, TypeOK, Body
<1>3. CASE Snapshot
  <2>1. snaps' = [k \in Kinds |-> IF k = admin.kind THEN db ELSE snaps[k]] /\ db \in Db
    BY <1>3 DEF Snapshot, TypeOK
  <2>2. snaps' \in [Kinds -> Db \cup {None}]
    BY <2>1 DEF TypeOK
  <2>3. CASE admin.kind = "checkpoint"
    <3>1. admin' = [admin EXCEPT !.step = IF admin.call = "delete" THEN "destroy"
                                          ELSE IF admin.base = 0 THEN "create" ELSE "run"]
      BY <1>3, <2>3 DEF Snapshot, AfterSnapshot
    <3>2. admin' \in Call /\ admin'.step \in {"destroy", "create", "run"}
      BY <3>1 DEF TypeOK, Call, Steps, Body
    <3>3. snaps'["checkpoint"] \in Db
      BY <2>1, <2>3 DEF Kinds
    <3> QED
      BY <1>1, <1>3, <2>2, <3>2, <3>3 DEF Snapshot, TypeOK
  <2>4. CASE admin.kind # "checkpoint"
    <3>1. admin' \in Call /\ admin'.step \in {"wipeTables", "restore", "idle", "archive"}
      BY <1>3, <2>4, IdleType DEF Snapshot, AfterSnapshot, TypeOK, Call, Steps, Kinds
    <3> QED
      BY <1>1, <1>3, <2>2, <3>1 DEF Snapshot, TypeOK, Body
  <2> QED
    BY <2>3, <2>4
<1>4. CASE Restore
  <2>1. admin.source \in Kinds
    BY DEF TypeOK, Call
  <2>2. db' \in Db
    BY <1>4, <2>1 DEF Restore, TypeOK
  <2>3. admin' \in Call /\ admin'.step = "wipeTables"
    BY <1>4, GotoType DEF Restore, Steps
  <2>4. deleted' \in 0..MaxBases
    BY <1>4 DEF Restore, TypeOK
  <2> QED
    BY <1>4, <2>2, <2>3, <2>4 DEF Restore, TypeOK, Body, made, cached
<1>5. CASE RestoreNothing
  BY <1>1, <1>5, IdleType DEF RestoreNothing, TypeOK, Body
<1>6. CASE Rollback
  <2>1. db' \in Db /\ deleted' \in 0..MaxBases
    BY <1>6 DEF Rollback, TypeOK
  <2> QED
    BY <1>6, <2>1, IdleType DEF Rollback, TypeOK, Body, made, cached
<1> QED
  BY <1>2, <1>3, <1>4, <1>5, <1>6

\* What Run and RunPart do to the database.
LEMMA MigrateType ==
    ASSUME TypeOK, NEW b \in Bases, NEW c \in BOOLEAN, Migrate(b, c), admin.version < Latest
    PROVE  db' \in Db /\ tables' \in 0..MaxTables
<1>1. admin.version + 1 \in 0..Latest
  BY DEF TypeOK, Call
<1>2. tables' \in 0..MaxTables
  BY DEF Migrate, TypeOK
<1>3. db' = [db EXCEPT !.schema[b] = admin.version + 1,
                       !.pages[b] = IF tables' # tables THEN tables' ELSE @,
                       !.dirty = IF c /\ db.schema[b] = admin.version
                                 THEN @ ELSE @ \cup {b}]
  BY DEF Migrate
<1>4. /\ [db.schema EXCEPT ![b] = admin.version + 1] \in [Bases -> 0..Latest]
      /\ [db.pages EXCEPT ![b] = IF tables' # tables THEN tables' ELSE @]
           \in [Bases -> 0..MaxTables]
  BY <1>1, <1>2 DEF TypeOK, Db
<1> QED
  BY <1>2, <1>3, <1>4 DEF TypeOK, Db

\* The steps in between.
LEMMA WorkType ==
    TInv /\ (WipeTables \/ WipeBase \/ DropRow \/ Create \/ Insert \/ UpToDate
               \/ Run \/ RunPart \/ Record \/ Destroy \/ Forget)
    => TInv'
<1> SUFFICES ASSUME TInv,
                    WipeTables \/ WipeBase \/ DropRow \/ Create \/ Insert \/ UpToDate
                      \/ Run \/ RunPart \/ Record \/ Destroy \/ Forget
             PROVE  TInv'
  OBVIOUS
<1> USE DEF TInv, PointInv
<1>1. ASSUME admin' \in Call, db' \in Db, bases' \in 0..MaxBases, tables' \in 0..MaxTables,
             kvBase' \in 0..MaxBases, kvTables' \in 0..MaxTables, deleted' \in 0..MaxBases,
             tainted' \in BOOLEAN, UNCHANGED <<snaps, calls, gets, mishaps>>,
             admin'.step \in Body \cup {"rollback"} => admin.step \in Body,
             admin'.step = "insert" => admin'.base \in 1..bases',
             admin'.step = "record" => admin'.version < Latest
      PROVE  TInv'
  BY <1>1 DEF TypeOK
<1>0. /\ admin \in Call /\ db \in Db /\ bases \in 0..MaxBases /\ tables \in 0..MaxTables
      /\ kvBase \in 0..MaxBases /\ kvTables \in 0..MaxTables /\ deleted \in 0..MaxBases
      /\ tainted \in BOOLEAN /\ 0 \in 0..MaxBases /\ 0 \in 0..MaxTables
      /\ 0 \in 0..Latest
  BY DEF TypeOK
<1> USE DEF made, cached, history
<1>2. CASE WipeTables
  <2>1. admin' \in Call /\ admin'.step = "wipeBase"
    BY <1>2, GotoType DEF WipeTables, Steps, TypeOK
  <2>2. tainted' \in BOOLEAN
    BY <1>0, <1>2 DEF WipeTables
  <2> QED
    BY <1>0, <1>1, <1>2, <2>1, <2>2 DEF WipeTables, Body
<1>3. CASE WipeBase
  <2>1. admin' \in Call /\ admin'.step \in {"dropRow", "archive", "idle"}
    BY <1>0, <1>3, IdleType DEF WipeBase, Call, Steps, Kinds
  <2> QED
    BY <1>0, <1>1, <1>3, <2>1 DEF WipeBase, Body
<1>4. CASE DropRow
  <2>1. admin' \in Call /\ admin'.step = "archive"
    BY <1>0, <1>4 DEF DropRow, Call, Steps
  <2>2. db' \in Db
    BY <1>0, <1>4 DEF DropRow, Db
  <2> QED
    BY <1>0, <1>1, <1>4, <2>1, <2>2 DEF DropRow, Body
<1>5. CASE Create
  <2>1. bases' \in 1..MaxBases
    BY <1>0, <1>5 DEF Create
  <2>2. admin' \in Call /\ admin'.step = "insert"
    <3>1. bases' \in 0..MaxBases /\ "insert" \in Steps
      BY <2>1 DEF Steps, Body
    <3> QED
      BY <1>0, <1>5, <3>1 DEF Create, Call
  <2>4. admin'.base \in 1..bases'
    BY <1>0, <1>5, <2>1 DEF Create, Call
  <2>3. db' \in Db
    BY <1>0, <1>5, <2>1 DEF Create, Db, Bases
  <2> QED
    BY <1>0, <1>1, <1>5, <2>1, <2>2, <2>3, <2>4 DEF Create, Body
<1>6. CASE UpToDate
  BY <1>0, <1>1, <1>6, IdleType DEF UpToDate, Body
<1>7. CASE Run
  <2>1. admin' \in Call /\ admin'.step = "record"
    BY <1>7, GotoType DEF Run, Steps, Body, TypeOK
  <2>2. admin.base \in Bases
    BY <1>0, <1>7 DEF Run, Db
  <2>3. db' \in Db /\ tables' \in 0..MaxTables
    BY <1>7, <2>2, MigrateType DEF Run
  <2>4. admin'.version < Latest
    BY <1>0, <1>7 DEF Run, Goto, Call
  <2> QED
    BY <1>0, <1>1, <1>7, <2>1, <2>3, <2>4 DEF Run, Body
<1>8. CASE RunPart
  <2>1. admin' \in Call /\ admin'.step = "rollback"
    BY <1>8, GotoType DEF RunPart, Steps, TypeOK
  <2>2. admin.base \in Bases
    BY <1>0, <1>8 DEF RunPart, Db
  <2>3. db' \in Db /\ tables' \in 0..MaxTables
    BY <1>8, <2>2, MigrateType DEF RunPart
  <2> QED
    BY <1>0, <1>1, <1>8, <2>1, <2>3 DEF RunPart, Body
<1>11. CASE Insert
  <2>1. admin' \in Call /\ admin'.step = "archive"
    BY <1>0, <1>11 DEF Insert, Call, Steps, Kinds
  <2>2. admin.base \in Bases
    BY <1>0, <1>11 DEF Insert, Bases
  <2>3. db' \in Db
    BY <1>0, <1>11, <2>2 DEF Insert, Db
  <2> QED
    BY <1>0, <1>1, <1>11, <2>1, <2>3 DEF Insert, Body
<1>12. CASE Record
  <2>1. admin.version + 1 \in 0..Latest
    BY <1>0, <1>12 DEF Record, Call
  <2>2. admin' \in Call /\ admin'.step = "archive"
    <3>1. "archive" \in Steps
      BY DEF Steps
    <3> QED
      BY <1>0, <1>12, <2>1, <3>1 DEF Record, Call
  <2>3. db' \in Db
    BY <1>0, <1>12, <2>1 DEF Record, Db
  <2> QED
    BY <1>0, <1>1, <1>12, <2>2, <2>3 DEF Record, Body
<1>9. CASE Destroy
  <2>1. admin' \in Call /\ admin'.step = "forget"
    BY <1>9, GotoType DEF Destroy, Steps, Body, TypeOK
  <2>2. db' \in Db /\ deleted' \in 0..MaxBases
    BY <1>0, <1>9 DEF Destroy, Db, Call
  <2> QED
    BY <1>0, <1>1, <1>9, <2>1, <2>2 DEF Destroy, Body
<1>10. CASE Forget
  <2>1. db' \in Db
    BY <1>0, <1>10 DEF Forget, Db, Call
  <2> QED
    BY <1>0, <1>1, <1>10, <2>1, IdleType DEF Forget, Body
<1> QED
  BY <1>2, <1>3, <1>4, <1>5, <1>6, <1>7, <1>8, <1>9, <1>10, <1>11, <1>12

LEMMA FaultType ==
    TInv /\ (Missing \/ BodyFails \/ CutShort \/ \E b \in Bases : DashboardDelete(b)) => TInv'
<1> SUFFICES ASSUME TInv,
                    Missing \/ BodyFails \/ CutShort \/ \E b \in Bases : DashboardDelete(b)
             PROVE  TInv'
  OBVIOUS
<1> USE DEF TInv, PointInv, made, cached, history
<1>1. CASE Missing
  <2>1. admin' \in Call /\ admin'.step = "rollback" /\ admin.step \in Body
    BY <1>1, GotoType DEF Missing, Steps, NothingToRun, Body
  <2> QED
    BY <1>1, <2>1 DEF Missing, TypeOK, Body
<1>2. CASE BodyFails
  <2>1. admin' \in Call /\ admin'.step = "rollback" /\ admin.step \in Body
    BY <1>2, GotoType DEF BodyFails, Steps
  <2> QED
    BY <1>2, <2>1 DEF BodyFails, TypeOK, Body
<1>3. CASE CutShort
  <2>1. admin' \in Call /\ admin'.step = "idle"
    BY <1>3, IdleType DEF CutShort
  <2>2. tainted' \in BOOLEAN
    BY <1>3 DEF CutShort, TypeOK
  <2>3. mishaps' \subseteq {"cut", "overlap", "dashboard"}
    BY <1>3 DEF CutShort, TypeOK
  <2> QED
    BY <1>3, <2>1, <2>2, <2>3 DEF CutShort, TypeOK, Body
<1>4. ASSUME NEW b \in Bases, DashboardDelete(b) PROVE TInv'
  <2>1. db' \in Db
    BY <1>4 DEF DashboardDelete, TypeOK, Db
  <2>2. deleted' \in 0..MaxBases
    BY <1>4 DEF DashboardDelete, TypeOK
  <2>3. mishaps' \subseteq {"cut", "overlap", "dashboard"}
    BY <1>4 DEF DashboardDelete, TypeOK
  <2> QED
    BY <1>4, <2>1, <2>2, <2>3 DEF DashboardDelete, TypeOK
<1> QED
  BY <1>1, <1>2, <1>3, <1>4

LEMMA GetType == TInv /\ (\E g \in Gets : Get(g)) => TInv'
<1> SUFFICES ASSUME TInv, NEW g \in Gets, Get(g) PROVE TInv'
  OBVIOUS
<1> USE DEF TInv, PointInv, made, cached, history
<1>1. ASSUME NEW r \in Request, Becomes(g, r), UNCHANGED <<db, made, snaps, admin, calls, deleted>>,
             kvBase' \in 0..MaxBases, kvTables' \in 0..MaxTables,
             tainted' \in BOOLEAN, mishaps' \subseteq {"cut", "overlap", "dashboard"}
      PROVE  TInv'
  <2>1. gets' \in [Gets -> Request]
    BY <1>1 DEF Becomes, TypeOK
  <2> QED
    BY <1>1, <2>1 DEF TypeOK
<1>0. /\ db \in Db /\ kvBase \in 0..MaxBases /\ kvTables \in 0..MaxTables
      /\ gets[g] \in Request /\ NoRequest \in Request
      /\ tainted \in BOOLEAN /\ mishaps \subseteq {"cut", "overlap", "dashboard"}
      /\ 0 \in 0..MaxTables
  BY NoRequestType DEF TypeOK
<1>2. CASE GetStart(g)
  <2>1. [step |-> IF kvBase = 0 THEN "db" ELSE "tables", base |-> kvBase, pages |-> 0]
          \in Request
    BY <1>0 DEF Request
  <2>2. tainted' \in BOOLEAN
    BY <1>0, <1>2 DEF GetStart
  <2>3. mishaps' \subseteq {"cut", "overlap", "dashboard"}
    BY <1>0, <1>2 DEF GetStart
  <2> QED
    BY <1>0, <1>1, <1>2, <2>1, <2>2, <2>3 DEF GetStart
<1>3. CASE GetDb(g)
  <2>1. Newest(db.rows) \in 0..MaxBases
    BY <1>0, NewestType DEF Db
  <2>2. [step |-> "put", base |-> Newest(db.rows), pages |-> 0] \in Request
    BY <1>0, <2>1 DEF Request
  <2> QED
    BY <1>0, <1>1, <1>3, <2>2 DEF GetDb
<1>4. CASE GetPut(g)
  <2>1. [gets[g] EXCEPT !.step = "tables"] \in Request
    BY <1>0 DEF Request
  <2>2. kvBase' \in 0..MaxBases
    BY <1>0, <1>4 DEF GetPut, Request
  <2> QED
    BY <1>0, <1>1, <1>4, <2>1, <2>2 DEF GetPut
<1>5. CASE GetTables(g)
  <2>1. [gets[g] EXCEPT !.step = "list"] \in Request
    BY <1>0 DEF Request
  <2> QED
    BY <1>0, <1>1, <1>5, <2>1 DEF GetTables
<1>6. CASE GetList(g)
  <2> DEFINE b == gets[g].base
  <2>1. CASE b \in db.inNoco /\ db.pages[b] # 0
    <3>1. b \in Bases /\ db.pages[b] \in 0..MaxTables
      BY <1>0, <2>1 DEF Db
    <3>2. [step |-> "putTables", base |-> b, pages |-> db.pages[b]] \in Request
      BY <1>0, <3>1 DEF Request
    <3> QED
      BY <1>0, <1>1, <1>6, <2>1, <3>2 DEF GetList
  <2>2. CASE ~(b \in db.inNoco /\ db.pages[b] # 0)
    BY <1>0, <1>1, <1>6, <2>2 DEF GetList
  <2> QED
    BY <2>1, <2>2
<1>7. CASE GetPutTables(g)
  <2>1. kvTables' \in 0..MaxTables
    BY <1>0, <1>7 DEF GetPutTables, Request
  <2> QED
    BY <1>0, <1>1, <1>7, <2>1 DEF GetPutTables
<1>8. CASE GetFails(g)
  BY <1>0, <1>1, <1>8 DEF GetFails
<1> QED
  BY <1>2, <1>3, <1>4, <1>5, <1>6, <1>7, <1>8 DEF Get

LEMMA TypeStep == TInv /\ [Next]_vars => TInv'
<1> SUFFICES ASSUME TInv, [Next]_vars PROVE TInv'
  OBVIOUS
<1>1. CASE UNCHANGED vars
  BY <1>1 DEF vars, made, cached, history, TInv, TypeOK, PointInv
<1>2. CASE StartCall
  BY <1>2, StartType
<1>3. CASE AdminStep
  BY <1>3, SnapshotType, WorkType, FaultType DEF AdminStep
<1>4. CASE \E b \in Bases : DashboardDelete(b)
  BY <1>4, FaultType
<1>5. CASE \E g \in Gets : Get(g)
  BY <1>5, GetType
<1> QED
  BY <1>1, <1>2, <1>3, <1>4, <1>5 DEF Next

\* Every state of the database, the snapshots, the caches and the calls is well
\* typed, for any number of bases, migrations, calls and requests.
THEOREM TypeCorrect == Spec => []TypeOK
<1>1. TInv => TypeOK
  BY DEF TInv
<1> QED
  BY <1>1, TypeInit, TypeStep, PTL DEF Spec

-----------------------------------------------------------------------------
(* The database is in order, and so is every snapshot that may be restored,  *)
(* except between two steps that belong together; what these then find is    *)
(* told by the step the call is at.                                          *)

InOrder(d) ==
    /\ d.inNoco \subseteq d.rows
    /\ \A b, c \in d.rows : b = c
    /\ \A b \in d.inNoco : d.schema[b] = d.recorded[b] /\ b \notin d.dirty

\* Nothing is known of a base before it is created.
Fresh(d) ==
    \A b \in Bases : b > bases =>
        /\ b \notin d.rows /\ b \notin d.inNoco /\ b \notin d.dirty
        /\ d.schema[b] = 0 /\ d.recorded[b] = 0

SnapsInOrder ==
    /\ \A k \in Kinds : snaps[k] # None => InOrder(snaps[k]) /\ Fresh(snaps[k])
    /\ admin.step \in Body \cup {"rollback"} =>
          InOrder(snaps["checkpoint"]) /\ Fresh(snaps["checkpoint"])

\* What a kind of snapshot says of the call.
KindInv ==
    /\ admin.kind = "manual" => admin.call = "restore"
    /\ admin.kind = "deletion" => admin.call = "delete"
    /\ admin.kind = "migration" /\ admin.step \in {"archive", "snapshot"} => admin.base # 0
    /\ admin.step = "restore" => admin.call = "restore"
    /\ admin.step = "dropRow" => admin.call = "create"

\* What post_base goes by.
CreateInv ==
    /\ admin.call = "create" /\ admin.step \in {"wipeTables", "wipeBase", "dropRow"} =>
          /\ db.rows = {admin.base} /\ admin.base \notin db.inNoco
          /\ admin.kind = "checkpoint" /\ admin.version = 0
    /\ admin.step \in {"archive", "snapshot"} /\ admin.kind = "checkpoint"
         /\ admin.call # "delete" /\ admin.base = 0 => db.rows = {} /\ admin.version = 0
    /\ admin.step = "create" => db.rows = {} /\ admin.version = 0
    /\ admin.step = "insert" =>
          /\ db.rows = {} /\ db.inNoco \subseteq {admin.base} /\ admin.version = 0
          /\ admin.base \notin db.dirty
          /\ db.schema[admin.base] = 0 /\ db.recorded[admin.base] = 0

\* What the migrator goes by: the version it counts is the one recorded.
MigrateInv ==
    /\ \/ admin.step = "run"
       \/ admin.step \in {"archive", "snapshot"} /\ admin.call # "delete"
       => (admin.base \in db.inNoco => admin.version = db.recorded[admin.base])
    /\ admin.step = "record" =>
          /\ db.rows = {admin.base} /\ db.inNoco \subseteq {admin.base}
          /\ admin.base \in db.inNoco =>
                /\ db.schema[admin.base] = admin.version + 1
                /\ admin.base \notin db.dirty

OrderInv ==
    /\ Fresh(db)
    /\ admin.step \notin {"insert", "record", "rollback"} => InOrder(db)
    /\ SnapsInOrder
    /\ KindInv
    /\ CreateInv
    /\ MigrateInv
    /\ admin.step = "forget" => admin.base \notin db.inNoco

IInv == "cut" \notin mishaps => OrderInv

LEMMA OrderInit == Init => IInv
<1> SUFFICES ASSUME Init PROVE OrderInv
  BY DEF IInv
<1>1. Fresh(db) /\ InOrder(db)
  BY DEF Init, Fresh, InOrder
<1>2. admin.step = "idle" /\ admin.kind = "checkpoint" /\ snaps = [k \in Kinds |-> None]
  BY DEF Init, Idle
<1> QED
  BY <1>1, <1>2 DEF OrderInv, SnapsInOrder, KindInv, CreateInv, MigrateInv, Body

\* Steps of requests, and calls that are over.
LEMMA OrderKept ==
    ASSUME OrderInv, UNCHANGED <<db, bases, snaps, admin>>
    PROVE  OrderInv'
BY DEF OrderInv, Fresh, InOrder, SnapsInOrder, KindInv, CreateInv, MigrateInv

LEMMA OrderIdle ==
    ASSUME OrderInv, InOrder(db), admin' = Idle, UNCHANGED <<db, bases, snaps>>
    PROVE  OrderInv'
<1>1. admin'.step = "idle" /\ admin'.kind = "checkpoint"
  BY DEF Idle
<1> QED
  BY <1>1 DEF OrderInv, Fresh, InOrder, SnapsInOrder, KindInv, CreateInv, MigrateInv, Body

\* A call begins.
LEMMA OrderStart == TInv /\ OrderInv /\ StartCall => OrderInv'
<1> SUFFICES ASSUME TInv, OrderInv, StartCall PROVE OrderInv'
  OBVIOUS
<1>0. /\ db.rows \in SUBSET Bases /\ db.inNoco \in SUBSET Bases /\ 0 \notin Bases
      /\ db.recorded \in [Bases -> 0..Latest]
  BY DEF TInv, TypeOK, Db, Bases
<1>1. admin = Idle => InOrder(db)
  BY DEF OrderInv, Idle
<1>2. ASSUME NEW c, NEW s \in {"archive", "wipeTables"}, NEW k, NEW o, NEW b, NEW v,
             Begin(c), admin' = Started(c, s, k, o, b, v),
             k = "manual" => c = "restore",
             k = "deletion" => c = "delete",
             k = "migration" => b # 0,
             c = "create" /\ s = "wipeTables" =>
                db.rows = {b} /\ b \notin db.inNoco /\ k = "checkpoint" /\ v = 0,
             s = "archive" /\ k = "checkpoint" /\ c # "delete" /\ b = 0 => db.rows = {} /\ v = 0,
             s = "archive" /\ c # "delete" /\ b \in db.inNoco => v = db.recorded[b]
      PROVE  OrderInv'
  <2>1. admin = Idle /\ UNCHANGED <<db, bases, snaps>>
    BY <1>2 DEF Begin, made
  <2>2. /\ admin'.call = c /\ admin'.step = s /\ admin'.kind = k
        /\ admin'.base = b /\ admin'.version = v
    BY <1>2 DEF Started
  <2>3. InOrder(db)' /\ Fresh(db)' /\ SnapsInOrder'
    BY <1>1, <2>1, <2>2 DEF OrderInv, InOrder, Fresh, SnapsInOrder, Body
  <2>4. KindInv'
    BY <1>2, <2>2 DEF KindInv
  <2>5. CreateInv'
    BY <1>2, <2>1, <2>2 DEF CreateInv
  <2>6. MigrateInv'
    BY <1>2, <2>1, <2>2 DEF MigrateInv
  <2> QED
    BY <2>2, <2>3, <2>4, <2>5, <2>6 DEF OrderInv
<1>3. CASE StartCreate
  <2>1. admin = Idle /\ InOrder(db)
    BY <1>1, <1>3, BeganCreate DEF Begin
  <2>2. CASE db.rows = {}
    BY <1>0, <1>2, <1>3, <2>2, BeganCreate DEF Newest
  <2>3. CASE db.rows # {}
    <3>1. Newest(db.rows) \in db.rows
      BY <1>0, <2>3, NewestIsOne
    <3>2. db.rows = {Newest(db.rows)}
      BY <2>1, <3>1 DEF InOrder
    <3> QED
      BY <1>2, <1>3, <2>3, <3>2, BeganCreate
  <2> QED
    BY <2>2, <2>3
<1>4. CASE StartDelete
  BY <1>2, <1>4, BeganDelete
<1>5. CASE StartMigrate
  <2>1. admin = Idle /\ InOrder(db)
    BY <1>1, <1>5, BeganMigrate DEF Begin
  <2>2. PICK b \in Bases :
          admin' = Started("migrate", "archive", "migration", "checkpoint",
                           b, CurrentMigration)
    BY <1>5, BeganMigrate
  <2>3. b \in db.inNoco => CurrentMigration = db.recorded[b]
    <3> SUFFICES ASSUME b \in db.inNoco PROVE CurrentMigration = db.recorded[b]
      OBVIOUS
    <3> DEFINE S == {c \in db.rows : db.recorded[c] > 0}
    <3>1. db.rows = {b}
      BY <2>1 DEF InOrder
    <3>2. CASE db.recorded[b] = 0
      <4>1. S = {}
        BY <3>1, <3>2
      <4> QED
        BY <3>2, <4>1 DEF CurrentMigration, Newest
    <3>3. CASE db.recorded[b] # 0
      <4>1. S = {b}
        BY <1>0, <3>1, <3>3
      <4>2. Newest(S) = b
        BY <4>1, NewestOfOne
      <4> QED
        BY <1>0, <4>2 DEF CurrentMigration
    <3> QED
      BY <3>2, <3>3
  <2> QED
    BY <1>0, <1>2, <1>5, <2>2, <2>3, BeganMigrate
<1>6. CASE StartBackup
  BY <1>0, <1>2, <1>6, BeganBackup
<1>7. ASSUME NEW k \in Kinds \ {"checkpoint"}, StartRestore(k) PROVE OrderInv'
  BY <1>0, <1>2, <1>7, BeganRestore
<1>8. CASE StartWipe
  BY <1>2, <1>8, BeganWipe
<1> QED
  BY <1>3, <1>4, <1>5, <1>6, <1>7, <1>8 DEF StartCall

LEMMA OrderSnapshot ==
    TInv /\ OrderInv /\ (Archive \/ Snapshot \/ Restore \/ RestoreNothing \/ Rollback)
    => OrderInv'
<1> SUFFICES ASSUME TInv, OrderInv,
                    Archive \/ Snapshot \/ Restore \/ RestoreNothing \/ Rollback
             PROVE  OrderInv'
  OBVIOUS
<1>0. admin \in Call /\ admin.source \in Kinds /\ snaps \in [Kinds -> Db \cup {None}]
  BY DEF TInv, TypeOK, Call
<1>1. CASE Archive
  <2>1. /\ admin.step = "archive" /\ admin' = [admin EXCEPT !.step = "snapshot"]
        /\ UNCHANGED <<db, bases>>
        /\ snaps' = [k \in Kinds |-> IF k = admin.kind THEN None ELSE snaps[k]]
    BY <1>1 DEF Archive, Goto, made
  <2>2. /\ admin'.step = "snapshot" /\ admin'.kind = admin.kind /\ admin'.call = admin.call
        /\ admin'.base = admin.base /\ admin'.version = admin.version
    BY <1>0, <2>1 DEF Call
  <2>3. SnapsInOrder'
    BY <2>1, <2>2 DEF OrderInv, SnapsInOrder, InOrder, Fresh, Body
  <2>4. InOrder(db)' /\ Fresh(db)'
    BY <2>1 DEF OrderInv, InOrder, Fresh
  <2> QED
    BY <2>1, <2>2, <2>3, <2>4 DEF OrderInv, KindInv, CreateInv, MigrateInv
<1>2. CASE Snapshot
  <2>1. /\ admin.step = "snapshot" /\ admin' = AfterSnapshot
        /\ UNCHANGED <<db, bases>>
        /\ snaps' = [k \in Kinds |-> IF k = admin.kind THEN db ELSE snaps[k]]
    BY <1>2 DEF Snapshot, made
  <2>2. InOrder(db) /\ Fresh(db)
    BY <2>1 DEF OrderInv
  <2>3. InOrder(db)' /\ Fresh(db)'
    BY <2>1, <2>2 DEF InOrder, Fresh
  <2>4. \A k \in Kinds : snaps'[k] # None => InOrder(snaps[k])' /\ Fresh(snaps[k])'
    <3> SUFFICES ASSUME NEW k \in Kinds, snaps'[k] # None
                 PROVE  InOrder(snaps[k])' /\ Fresh(snaps[k])'
      OBVIOUS
    <3>1. CASE k = admin.kind
      BY <2>1, <2>2, <3>1 DEF InOrder, Fresh
    <3>2. CASE k # admin.kind
      BY <2>1, <3>2 DEF OrderInv, SnapsInOrder, InOrder, Fresh
    <3> QED
      BY <3>1, <3>2
  <2>5. CASE admin.kind = "checkpoint"
    <3>1. admin' = [admin EXCEPT !.step = IF admin.call = "delete" THEN "destroy"
                                          ELSE IF admin.base = 0 THEN "create" ELSE "run"]
      BY <2>1, <2>5 DEF AfterSnapshot
    <3>2. /\ admin'.step = IF admin.call = "delete" THEN "destroy"
                           ELSE IF admin.base = 0 THEN "create" ELSE "run"
          /\ admin'.kind = admin.kind /\ admin'.call = admin.call
          /\ admin'.base = admin.base /\ admin'.version = admin.version
      BY <1>0, <3>1 DEF Call
    <3>3. snaps'["checkpoint"] = db
      BY <2>1, <2>5 DEF Kinds
    <3>4. SnapsInOrder'
      BY <2>1, <2>2, <2>4, <3>3 DEF SnapsInOrder, InOrder, Fresh
    <3> QED
      BY <2>1, <2>3, <2>5, <3>2, <3>4 DEF OrderInv, KindInv, CreateInv, MigrateInv
  <2>6. CASE admin.kind = "migration"
    <3>1. admin' = [admin EXCEPT !.step = "archive", !.kind = "checkpoint"]
      BY <2>1, <2>6 DEF AfterSnapshot
    <3>2. /\ admin'.step = "archive" /\ admin'.kind = "checkpoint" /\ admin'.call = admin.call
          /\ admin'.base = admin.base /\ admin'.version = admin.version /\ admin.base # 0
      BY <1>0, <2>1, <2>6, <3>1 DEF Call, OrderInv, KindInv
    <3>3. SnapsInOrder'
      BY <2>4, <3>2 DEF SnapsInOrder, Body
    <3> QED
      BY <2>1, <2>3, <2>6, <3>2, <3>3 DEF OrderInv, KindInv, CreateInv, MigrateInv
  <2>7. CASE admin.kind \in {"deletion", "manual"}
    <3>1. admin' = [admin EXCEPT !.step = IF admin.kind = "deletion"
                                          THEN "wipeTables" ELSE "restore"]
      BY <2>1, <2>7 DEF AfterSnapshot
    <3>2. /\ admin'.step = IF admin.kind = "deletion" THEN "wipeTables" ELSE "restore"
          /\ admin'.kind = admin.kind /\ admin'.call = admin.call
          /\ admin'.base = admin.base /\ admin'.version = admin.version
      BY <1>0, <3>1 DEF Call
    <3>3. SnapsInOrder'
      BY <2>4, <3>2 DEF SnapsInOrder, Body
    <3> QED
      BY <2>1, <2>3, <2>7, <3>2, <3>3 DEF OrderInv, KindInv, CreateInv, MigrateInv
  <2>8. CASE admin.kind = "deployment"
    <3>1. admin' = Idle
      BY <2>1, <2>8 DEF AfterSnapshot
    <3>2. admin'.step = "idle" /\ admin'.kind = "checkpoint"
      BY <3>1 DEF Idle
    <3>3. SnapsInOrder'
      BY <2>4, <3>2 DEF SnapsInOrder, Body
    <3> QED
      BY <2>3, <3>2, <3>3 DEF OrderInv, KindInv, CreateInv, MigrateInv
  <2> QED
    BY <1>0, <2>5, <2>6, <2>7, <2>8 DEF Call, Kinds
<1>3. CASE Restore
  <2>1. /\ admin.step = "restore" /\ admin' = [admin EXCEPT !.step = "wipeTables"]
        /\ snaps[admin.source] # None /\ db' = snaps[admin.source]
        /\ UNCHANGED <<snaps, bases>>
    BY <1>3 DEF Restore, Goto, made
  <2>2. /\ admin'.step = "wipeTables" /\ admin'.kind = admin.kind
        /\ admin'.call = admin.call /\ admin.call = "restore"
    BY <1>0, <2>1 DEF Call, OrderInv, KindInv
  <2>3. InOrder(db)' /\ Fresh(db)'
    BY <1>0, <2>1 DEF OrderInv, SnapsInOrder, InOrder, Fresh
  <2>4. SnapsInOrder'
    BY <2>1, <2>2 DEF OrderInv, SnapsInOrder, InOrder, Fresh, Body
  <2> QED
    BY <2>1, <2>2, <2>3, <2>4 DEF OrderInv, KindInv, CreateInv, MigrateInv
<1>4. CASE RestoreNothing
  BY <1>4, OrderIdle DEF RestoreNothing, OrderInv, made
<1>5. CASE Rollback
  <2>1. /\ admin.step = "rollback" /\ db' = snaps["checkpoint"]
        /\ UNCHANGED <<snaps, bases>>
    BY <1>5 DEF Rollback, made
  <2>2. admin'.step = "idle" /\ admin'.kind = "checkpoint"
    BY <1>5 DEF Rollback, Idle
  <2>3. InOrder(db)' /\ Fresh(db)'
    BY <2>1 DEF OrderInv, SnapsInOrder, InOrder, Fresh
  <2>4. SnapsInOrder'
    BY <2>1, <2>2 DEF OrderInv, SnapsInOrder, InOrder, Fresh, Body
  <2> QED
    BY <2>2, <2>3, <2>4 DEF OrderInv, KindInv, CreateInv, MigrateInv
<1> QED
  BY <1>1, <1>2, <1>3, <1>4, <1>5

\* The snapshots stay as they are, and so do the bases.
LEMMA SnapsKept ==
    ASSUME OrderInv, snaps' = snaps, bases' = bases,
           admin'.step \in Body \cup {"rollback"} => admin.step \in Body
    PROVE  SnapsInOrder'
BY DEF OrderInv, SnapsInOrder, InOrder, Fresh

LEMMA OrderWipe == TInv /\ OrderInv /\ (WipeTables \/ WipeBase \/ DropRow) => OrderInv'
<1> SUFFICES ASSUME TInv, OrderInv, WipeTables \/ WipeBase \/ DropRow PROVE OrderInv'
  OBVIOUS
<1>0. admin \in Call /\ db \in Db /\ 0 \notin Bases /\ 0 \in 0..Latest
  BY DEF TInv, TypeOK, Bases
<1>1. CASE WipeTables
  <2>1. /\ admin.step = "wipeTables" /\ admin' = [admin EXCEPT !.step = "wipeBase"]
        /\ UNCHANGED <<db, snaps, bases>>
    BY <1>1 DEF WipeTables, Goto, made
  <2>2. /\ admin'.step = "wipeBase" /\ admin'.kind = admin.kind /\ admin'.call = admin.call
        /\ admin'.base = admin.base /\ admin'.version = admin.version
    BY <1>0, <2>1 DEF Call
  <2>3. SnapsInOrder'
    BY <2>1, <2>2, SnapsKept DEF Body
  <2>4. InOrder(db)' /\ Fresh(db)'
    BY <2>1 DEF OrderInv, InOrder, Fresh
  <2> QED
    BY <2>1, <2>2, <2>3, <2>4 DEF OrderInv, KindInv, CreateInv, MigrateInv
<1>2. CASE WipeBase
  <2>1. admin.step = "wipeBase" /\ UNCHANGED <<db, snaps, bases>> /\ InOrder(db)
    BY <1>2 DEF WipeBase, made, OrderInv
  <2>2. InOrder(db)' /\ Fresh(db)'
    BY <2>1 DEF OrderInv, InOrder, Fresh
  <2>3. CASE admin.call = "create"
    <3>1. admin' = [admin EXCEPT !.step = "dropRow"]
      BY <1>2, <2>3 DEF WipeBase
    <3>2. /\ admin'.step = "dropRow" /\ admin'.kind = admin.kind /\ admin'.call = "create"
          /\ admin'.base = admin.base /\ admin'.version = admin.version
      BY <1>0, <2>3, <3>1 DEF Call
    <3>3. SnapsInOrder'
      BY <2>1, <3>2, SnapsKept DEF Body
    <3> QED
      BY <2>1, <2>2, <2>3, <3>2, <3>3 DEF OrderInv, KindInv, CreateInv, MigrateInv
  <2>4. CASE admin.call = "delete"
    <3>1. admin' = [admin EXCEPT !.step = "archive", !.kind = "checkpoint"]
      BY <1>2, <2>4 DEF WipeBase
    <3>2. admin'.step = "archive" /\ admin'.kind = "checkpoint" /\ admin'.call = "delete"
      BY <1>0, <2>4, <3>1 DEF Call
    <3>3. SnapsInOrder'
      BY <2>1, <3>2, SnapsKept DEF Body
    <3> QED
      BY <2>2, <3>2, <3>3 DEF OrderInv, KindInv, CreateInv, MigrateInv
  <2>5. CASE admin.call \notin {"create", "delete"}
    BY <1>2, <2>1, <2>5, OrderIdle DEF WipeBase
  <2> QED
    BY <2>3, <2>4, <2>5
<1>3. ASSUME DropRow, admin.call = "create" PROVE OrderInv'
  <2>1. /\ admin.step = "dropRow" /\ UNCHANGED <<snaps, bases>>
        /\ db' = [db EXCEPT !.rows = @ \ {admin.base}, !.recorded[admin.base] = 0]
        /\ admin' = [admin EXCEPT !.step = "archive", !.base = 0]
    BY <1>3 DEF DropRow, made
  <2>2. /\ InOrder(db) /\ db.rows = {admin.base} /\ admin.base \notin db.inNoco
        /\ admin.kind = "checkpoint" /\ admin.version = 0
    BY <1>3, <2>1 DEF OrderInv, CreateInv
  <2>3. /\ db'.rows = {} /\ db'.inNoco = {} /\ db'.dirty = db.dirty /\ db'.schema = db.schema
        /\ \A b \in Bases : db'.recorded[b] \in {0, db.recorded[b]}
    BY <1>0, <2>1, <2>2 DEF Db, InOrder
  <2>4. InOrder(db)' /\ Fresh(db)'
    BY <2>1, <2>3 DEF OrderInv, InOrder, Fresh
  <2>5. /\ admin'.step = "archive" /\ admin'.kind = "checkpoint" /\ admin'.call = "create"
        /\ admin'.base = 0 /\ admin'.version = 0
    BY <1>0, <1>3, <2>1, <2>2 DEF Call
  <2>6. SnapsInOrder'
    BY <2>1, <2>5, SnapsKept DEF Body
  <2> QED
    BY <2>3, <2>4, <2>5, <2>6 DEF OrderInv, KindInv, CreateInv, MigrateInv
<1>4. DropRow => admin.call = "create"
  BY DEF DropRow, OrderInv, KindInv
<1> QED
  BY <1>1, <1>2, <1>3, <1>4

LEMMA OrderNew == TInv /\ OrderInv /\ (Create \/ Insert) => OrderInv'
<1> SUFFICES ASSUME TInv, OrderInv, Create \/ Insert PROVE OrderInv'
  OBVIOUS
<1>0. /\ admin \in Call /\ db \in Db /\ bases \in 0..MaxBases
      /\ snaps \in [Kinds -> Db \cup {None}]
  BY DEF TInv, TypeOK
<1>1. CASE Create
  <2>1. /\ admin.step = "create" /\ bases' = bases + 1 /\ bases' \in Bases
        /\ snaps' = snaps
        /\ db' = [db EXCEPT !.inNoco = @ \cup {bases'}]
        /\ admin' = [admin EXCEPT !.step = "insert", !.base = bases']
    BY <1>0, <1>1 DEF Create, Bases
  <2>2. /\ db.rows = {} /\ admin.version = 0 /\ InOrder(db)
        /\ db.inNoco = {}
    BY <1>0, <2>1 DEF OrderInv, CreateInv, InOrder
  <2>3. /\ db'.rows = {} /\ db'.inNoco = {bases'} /\ db'.dirty = db.dirty
        /\ db'.schema = db.schema /\ db'.recorded = db.recorded
    BY <1>0, <2>1, <2>2 DEF Db
  <2>4. /\ admin'.step = "insert" /\ admin'.kind = admin.kind /\ admin'.call = admin.call
        /\ admin'.base = bases' /\ admin'.version = 0
    BY <1>0, <2>1, <2>2 DEF Call
  <2>5. \A b \in Bases : b > bases' => b > bases
    BY <1>0, <2>1 DEF Bases
  <2>6. Fresh(db)'
    BY <1>0, <2>1, <2>3, <2>5 DEF OrderInv, Fresh, Bases
  <2>7. SnapsInOrder'
    <3>1. ASSUME NEW d, Fresh(d)
          PROVE  \A b \in Bases : b > bases' =>
                     /\ b \notin d.rows /\ b \notin d.inNoco /\ b \notin d.dirty
                     /\ d.schema[b] = 0 /\ d.recorded[b] = 0
      BY <2>5, <3>1 DEF Fresh
    <3>2. \A k \in Kinds : snaps[k] # None => Fresh(snaps[k])'
      BY <2>1, <3>1 DEF OrderInv, SnapsInOrder, Fresh
    <3>3. Fresh(snaps["checkpoint"])'
      BY <2>1, <3>1 DEF OrderInv, SnapsInOrder, Fresh, Body
    <3> QED
      BY <2>1, <3>2, <3>3 DEF OrderInv, SnapsInOrder, InOrder, Body
  <2>8. bases' \notin db.dirty /\ db.schema[bases'] = 0 /\ db.recorded[bases'] = 0
    BY <1>0, <2>1 DEF OrderInv, Fresh
  <2> QED
    BY <2>1, <2>3, <2>4, <2>6, <2>7, <2>8 DEF OrderInv, KindInv, CreateInv, MigrateInv
<1>2. CASE Insert
  <2>1. /\ admin.step = "insert" /\ UNCHANGED <<snaps, bases>>
        /\ db' = [db EXCEPT !.rows = @ \cup {admin.base}]
        /\ admin' = [admin EXCEPT !.step = "archive", !.kind = "migration"]
        /\ admin.base \in 1..bases
    BY <1>2 DEF Insert, made, TInv, PointInv
  <2>2. /\ db.rows = {} /\ db.inNoco \subseteq {admin.base} /\ admin.version = 0
        /\ admin.base \notin db.dirty
        /\ db.schema[admin.base] = 0 /\ db.recorded[admin.base] = 0
    BY <2>1 DEF OrderInv, CreateInv
  <2>3. /\ db'.rows = {admin.base} /\ db'.inNoco = db.inNoco /\ db'.dirty = db.dirty
        /\ db'.schema = db.schema /\ db'.recorded = db.recorded
    BY <1>0, <2>1, <2>2 DEF Db
  <2>4. /\ admin'.step = "archive" /\ admin'.kind = "migration" /\ admin'.call = admin.call
        /\ admin'.base = admin.base /\ admin'.version = 0
    BY <1>0, <2>1, <2>2 DEF Call
  <2>5. InOrder(db)' /\ Fresh(db)'
    <3>1. InOrder(db)'
      BY <2>2, <2>3 DEF InOrder
    <3>2. \A b \in Bases : b > bases => b # admin.base
      BY <1>0, <2>1 DEF Bases
    <3> QED
      BY <2>1, <2>2, <2>3, <3>1, <3>2 DEF OrderInv, Fresh
  <2>6. SnapsInOrder'
    BY <2>1, <2>4, SnapsKept DEF Body
  <2>7. admin'.base # 0
    BY <1>0, <2>1, <2>4
  <2> QED
    BY <2>2, <2>3, <2>4, <2>5, <2>6, <2>7 DEF OrderInv, KindInv, CreateInv, MigrateInv
<1> QED
  BY <1>1, <1>2

LEMMA OrderMigrate == TInv /\ OrderInv /\ (UpToDate \/ Run \/ RunPart \/ Record) => OrderInv'
<1> SUFFICES ASSUME TInv, OrderInv, UpToDate \/ Run \/ RunPart \/ Record PROVE OrderInv'
  OBVIOUS
<1>0. /\ admin \in Call /\ db \in Db /\ bases \in 0..MaxBases
      /\ snaps \in [Kinds -> Db \cup {None}] /\ 0 \notin Bases
  BY DEF TInv, TypeOK, Bases
<1>1. CASE UpToDate
  BY <1>1, OrderIdle DEF UpToDate, NothingToRun, OrderInv, made
<1>2. ASSUME NEW c \in BOOLEAN, NEW s \in {"record", "rollback"},
             Migrate(admin.base, c), Goto(s), UNCHANGED <<bases, snaps>>,
             admin.step = "run", admin.base \in db.inNoco,
             s = "record" => c
      PROVE  OrderInv'
  <2>1. /\ InOrder(db) /\ Fresh(db) /\ admin.version = db.recorded[admin.base]
        /\ admin.base \in Bases
    BY <1>0, <1>2 DEF OrderInv, MigrateInv, Db
  <2>2. /\ db.rows = {admin.base} /\ db.inNoco = {admin.base}
        /\ db.schema[admin.base] = admin.version /\ admin.base \notin db.dirty
    BY <1>2, <2>1 DEF InOrder
  <2>3. db' = [db EXCEPT !.schema[admin.base] = admin.version + 1,
                         !.pages[admin.base] = IF tables' # tables THEN tables' ELSE @,
                         !.dirty = IF c /\ db.schema[admin.base] = admin.version
                                   THEN @ ELSE @ \cup {admin.base}]
    BY <1>2 DEF Migrate
  <2>4. /\ db'.rows = db.rows /\ db'.inNoco = db.inNoco /\ db'.recorded = db.recorded
        /\ db'.schema = [db.schema EXCEPT ![admin.base] = admin.version + 1]
        /\ db'.dirty = IF c THEN db.dirty ELSE db.dirty \cup {admin.base}
    BY <1>0, <2>2, <2>3 DEF Db
  <2>5. /\ admin'.step = s /\ admin'.kind = admin.kind /\ admin'.call = admin.call
        /\ admin'.base = admin.base /\ admin'.version = admin.version
    BY <1>0, <1>2 DEF Call, Goto
  <2>6. Fresh(db)'
    <3>1. \A b \in Bases : b > bases => b # admin.base
      BY <2>1, <2>2 DEF Fresh
    <3> QED
      BY <1>0, <1>2, <2>1, <2>4, <3>1 DEF Fresh, Db
  <2>7. SnapsInOrder'
    BY <1>2, <2>5, SnapsKept DEF Body
  <2>8. s = "record" => db'.schema[admin.base] = admin.version + 1 /\ admin.base \notin db'.dirty
    BY <1>0, <1>2, <2>1, <2>2, <2>4 DEF Db
  <2> QED
    BY <2>2, <2>4, <2>5, <2>6, <2>7, <2>8 DEF OrderInv, KindInv, CreateInv, MigrateInv
<1>3. CASE Run
  BY <1>2, <1>3 DEF Run
<1>4. CASE RunPart
  BY <1>2, <1>4 DEF RunPart
<1>5. CASE Record
  <2>1. /\ admin.step = "record" /\ UNCHANGED <<snaps, bases>>
        /\ db' = [db EXCEPT !.recorded[admin.base] =
                     IF admin.base \in db.rows THEN admin.version + 1 ELSE @]
        /\ admin' = [admin EXCEPT !.step = "archive", !.version = @ + 1]
    BY <1>5 DEF Record, made
  <2>2. /\ db.rows = {admin.base} /\ db.inNoco \subseteq {admin.base}
        /\ admin.base \in db.inNoco =>
              db.schema[admin.base] = admin.version + 1 /\ admin.base \notin db.dirty
        /\ admin.base \in Bases /\ Fresh(db)
    BY <1>0, <2>1 DEF OrderInv, MigrateInv, Db
  <2>3. /\ db'.rows = db.rows /\ db'.inNoco = db.inNoco /\ db'.schema = db.schema
        /\ db'.dirty = db.dirty
        /\ db'.recorded = [db.recorded EXCEPT ![admin.base] = admin.version + 1]
    BY <1>0, <2>1, <2>2 DEF Db
  <2>4. /\ admin'.step = "archive" /\ admin'.kind = admin.kind /\ admin'.call = admin.call
        /\ admin'.base = admin.base /\ admin'.version = admin.version + 1
    BY <1>0, <2>1 DEF Call
  <2>5. db'.recorded[admin.base] = admin.version + 1
    BY <1>0, <2>2, <2>3 DEF Db
  <2>6. InOrder(db)'
    BY <2>2, <2>3, <2>5 DEF InOrder
  <2>7. Fresh(db)'
    <3>1. \A b \in Bases : b > bases => b # admin.base
      BY <2>2 DEF Fresh
    <3> QED
      BY <1>0, <2>1, <2>2, <2>3, <3>1 DEF Fresh, Db
  <2>8. SnapsInOrder'
    BY <2>1, <2>4, SnapsKept DEF Body
  <2> QED
    BY <1>0, <2>2, <2>3, <2>4, <2>5, <2>6, <2>7, <2>8
       DEF OrderInv, KindInv, CreateInv, MigrateInv
<1> QED
  BY <1>1, <1>3, <1>4, <1>5

LEMMA OrderDelete == TInv /\ OrderInv /\ (Destroy \/ Forget) => OrderInv'
<1> SUFFICES ASSUME TInv, OrderInv, Destroy \/ Forget PROVE OrderInv'
  OBVIOUS
<1>0. admin \in Call /\ db \in Db
  BY DEF TInv, TypeOK
<1>1. CASE Destroy
  <2>1. /\ admin.step = "destroy" /\ UNCHANGED <<snaps, bases>>
        /\ db' = [db EXCEPT !.inNoco = @ \ {admin.base}]
        /\ admin' = [admin EXCEPT !.step = "forget"]
    BY <1>1 DEF Destroy, Goto, made
  <2>2. /\ db'.rows = db.rows /\ db'.inNoco = db.inNoco \ {admin.base}
        /\ db'.dirty = db.dirty /\ db'.schema = db.schema /\ db'.recorded = db.recorded
    BY <1>0, <2>1 DEF Db
  <2>3. /\ admin'.step = "forget" /\ admin'.kind = admin.kind /\ admin'.call = admin.call
        /\ admin'.base = admin.base
    BY <1>0, <2>1 DEF Call
  <2>4. InOrder(db)' /\ Fresh(db)'
    BY <2>1, <2>2 DEF OrderInv, InOrder, Fresh
  <2>5. SnapsInOrder'
    BY <2>1, <2>3, SnapsKept DEF Body
  <2> QED
    BY <2>2, <2>3, <2>4, <2>5 DEF OrderInv, KindInv, CreateInv, MigrateInv
<1>2. CASE Forget
  <2>1. /\ admin.step = "forget" /\ UNCHANGED <<snaps, bases>>
        /\ db' = [db EXCEPT !.rows = @ \ {admin.base}, !.recorded[admin.base] = 0]
    BY <1>2 DEF Forget, made
  <2>2. InOrder(db) /\ Fresh(db) /\ admin.base \notin db.inNoco
    BY <2>1 DEF OrderInv
  <2>3. /\ db'.rows = db.rows \ {admin.base} /\ db'.inNoco = db.inNoco
        /\ db'.dirty = db.dirty /\ db'.schema = db.schema
        /\ db'.recorded = [db.recorded EXCEPT ![admin.base] = 0]
    BY <1>0, <2>1 DEF Db
  <2>4. InOrder(db)'
    BY <1>0, <2>2, <2>3 DEF InOrder, Db
  <2>5. Fresh(db)'
    BY <1>0, <2>1, <2>2, <2>3 DEF Fresh, Db
  <2>6. admin'.step = "idle" /\ admin'.kind = "checkpoint"
    BY <1>2 DEF Forget, Idle
  <2>7. SnapsInOrder'
    BY <2>1, <2>6, SnapsKept DEF Body
  <2> QED
    BY <2>4, <2>5, <2>6, <2>7 DEF OrderInv, KindInv, CreateInv, MigrateInv
<1> QED
  BY <1>1, <1>2

LEMMA OrderFault ==
    /\ TInv /\ OrderInv /\ "cut" \notin mishaps'
    /\ Missing \/ BodyFails \/ CutShort \/ \E b \in Bases : DashboardDelete(b)
    => OrderInv'
<1> SUFFICES ASSUME TInv, OrderInv, "cut" \notin mishaps',
                    Missing \/ BodyFails \/ CutShort \/ \E b \in Bases : DashboardDelete(b)
             PROVE  OrderInv'
  OBVIOUS
<1>0. admin \in Call /\ db \in Db
  BY DEF TInv, TypeOK
<1>1. ASSUME admin.step \in Body, Goto("rollback"), UNCHANGED <<db, snaps, bases>>
      PROVE  OrderInv'
  <2>1. /\ admin'.step = "rollback" /\ admin'.kind = admin.kind /\ admin'.call = admin.call
    BY <1>0, <1>1 DEF Call, Goto
  <2>2. Fresh(db)'
    BY <1>1 DEF OrderInv, Fresh
  <2>3. SnapsInOrder'
    BY <1>1, SnapsKept
  <2> QED
    BY <2>1, <2>2, <2>3 DEF OrderInv, KindInv, CreateInv, MigrateInv
<1>2. CASE Missing
  BY <1>1, <1>2 DEF Missing, Body, made
<1>3. CASE BodyFails
  BY <1>1, <1>3 DEF BodyFails, made
<1>4. CASE CutShort
  <2>1. admin.step \notin {"insert", "record", "rollback"}
    BY <1>4 DEF CutShort
  <2> QED
    BY <1>4, <2>1, OrderIdle DEF CutShort, OrderInv, made
<1>5. ASSUME NEW b \in Bases, DashboardDelete(b) PROVE OrderInv'
  <2>1. db' = [db EXCEPT !.inNoco = @ \ {b}] /\ UNCHANGED <<snaps, bases, admin>>
    BY <1>5 DEF DashboardDelete, made
  <2>2. /\ db'.rows = db.rows /\ db'.inNoco = db.inNoco \ {b}
        /\ db'.dirty = db.dirty /\ db'.schema = db.schema /\ db'.recorded = db.recorded
    BY <1>0, <2>1 DEF Db
  <2>3. Fresh(db)' /\ (InOrder(db) => InOrder(db)')
    BY <2>1, <2>2 DEF OrderInv, InOrder, Fresh
  <2>4. SnapsInOrder'
    BY <2>1 DEF OrderInv, SnapsInOrder, InOrder, Fresh
  <2> QED
    BY <2>1, <2>2, <2>3, <2>4 DEF OrderInv, KindInv, CreateInv, MigrateInv
<1> QED
  BY <1>2, <1>3, <1>4, <1>5

LEMMA OrderGet ==
    ASSUME NEW g \in Gets, OrderInv, Get(g)
    PROVE  OrderInv'
<1>1. UNCHANGED <<db, bases, snaps, admin>>
  BY DEF Get, GetStart, GetDb, GetPut, GetTables, GetList, GetPutTables, GetFails, made
<1> QED
  BY <1>1, OrderKept

\* No step takes a mishap back.
LEMMA MishapsStay == [Next]_vars => mishaps \subseteq mishaps'
<1> SUFFICES ASSUME [Next]_vars PROVE mishaps \subseteq mishaps'
  OBVIOUS
<1> USE DEF history
<1>1. CASE UNCHANGED vars
  BY <1>1 DEF vars
<1>2. CASE StartCall
  BY <1>2 DEF StartCall, StartCreate, StartDelete, StartMigrate, StartBackup,
              StartRestore, StartWipe, Begin
<1>3. CASE AdminStep
  BY <1>3 DEF AdminStep, Archive, Snapshot, Restore, RestoreNothing, Rollback, WipeTables,
              WipeBase, DropRow, Create, Insert, UpToDate, Run, RunPart, Record, Destroy,
              Forget, Missing, BodyFails, CutShort
<1>4. ASSUME NEW b \in Bases, DashboardDelete(b) PROVE mishaps \subseteq mishaps'
  BY <1>4 DEF DashboardDelete
<1>5. ASSUME NEW g \in Gets, Get(g) PROVE mishaps \subseteq mishaps'
  BY <1>5 DEF Get, GetStart, GetDb, GetPut, GetTables, GetList, GetPutTables, GetFails
<1> QED
  BY <1>1, <1>2, <1>3, <1>4, <1>5 DEF Next

LEMMA OrderStep == TInv /\ IInv /\ [Next]_vars => IInv'
<1> SUFFICES ASSUME TInv, IInv, [Next]_vars, "cut" \notin mishaps' PROVE OrderInv'
  BY DEF IInv
<1>0. OrderInv
  BY MishapsStay DEF IInv
<1>1. CASE UNCHANGED vars
  BY <1>0, <1>1, OrderKept DEF vars, made
<1>2. CASE StartCall
  BY <1>0, <1>2, OrderStart
<1>3. CASE AdminStep
  BY <1>0, <1>3, OrderSnapshot, OrderWipe, OrderNew, OrderMigrate, OrderDelete, OrderFault
     DEF AdminStep
<1>4. CASE \E b \in Bases : DashboardDelete(b)
  BY <1>0, <1>4, OrderFault
<1>5. CASE \E g \in Gets : Get(g)
  BY <1>0, <1>5, OrderGet
<1> QED
  BY <1>1, <1>2, <1>3, <1>4, <1>5 DEF Next

\* Between admin calls, whatever has failed, the database is in order unless
\* a handler was cut short while with_rollback was at work.
THEOREM FailuresLeaveNoTrace == Spec => []DatabaseIntact
<1>1. IInv => DatabaseIntact
  BY DEF IInv, OrderInv, InOrder, DatabaseIntact, Idle
<1> QED
  BY <1>1, TypeInit, TypeStep, OrderInit, OrderStep, PTL DEF Spec

-----------------------------------------------------------------------------
(* The cached IDs and the backup of a deleted base.                          *)

USE NoneAssumption, CallsAssumption DEF CallNames

-----------------------------------------------------------------------------
(* Which steps belong to which call.                                         *)

ShapeInv ==
    /\ admin.step = "idle" <=> admin.call = None
    /\ admin.step = "idle" => admin = Idle
    /\ admin.step \in {"archive", "snapshot"} =>
         \/ admin.call = "backup" /\ admin.kind = "deployment"
         \/ admin.call = "restore" /\ admin.kind = "manual"
         \/ admin.call = "delete" /\ admin.kind \in {"deletion", "checkpoint"}
         \/ /\ admin.call \in {"create", "migrate"}
            /\ admin.kind \in {"migration", "checkpoint"}
            /\ admin.kind = "migration" => admin.base # 0
    /\ admin.call = "migrate" => admin.base # 0
    /\ admin.step = "restore" => admin.call = "restore"
    /\ admin.step \in {"wipeTables", "wipeBase"} =>
         admin.call \in {"create", "delete", "restore", "wipe"}
    /\ admin.step \in {"dropRow", "create", "insert"} => admin.call = "create"
    /\ admin.step \in {"wipeTables", "wipeBase", "dropRow"} /\ admin.call = "create" =>
         admin.kind = "checkpoint"
    /\ admin.step \in {"run", "record"} =>
         admin.call \in {"create", "migrate"} /\ admin.base # 0
    /\ admin.step \in {"destroy", "forget"} => admin.call = "delete"
    /\ admin.step \in Body => admin.kind = "checkpoint"
    /\ admin.step = "rollback" => admin.call \in {"create", "migrate", "delete"}

\* No base is known before it is created.
Known(d) == d.rows \cup d.inNoco \subseteq 1..bases

KnownInv ==
    /\ Known(db)
    /\ \A k \in Kinds : snaps[k] # None => Known(snaps[k])
    /\ deleted \in 0..bases

\* A cached base ID and cached table IDs, if there are any, against a database.
Right(base, pages, d) ==
    /\ base # 0 => base = Newest(d.rows)
    /\ pages # 0 => d.rows # {} /\ pages = d.pages[Newest(d.rows)]

\* Calls during which a request is an overlap, and that none overlaps.
Alone == admin.call \notin {None, "backup"} => Requests = {}

\* The call has deleted the cached IDs, or there were none.
Scrubbed ==
    \/ admin.step \in {"dropRow", "create", "insert", "destroy", "forget"}
    \/ /\ admin.step \in {"archive", "snapshot"}
       /\ admin.kind = "checkpoint"
       /\ admin.call = "delete" \/ admin.base = 0

\* A request carries IDs of the current base.
Carries(g) ==
    /\ gets[g].step \notin {"idle", "db"} =>
          db.rows # {} /\ gets[g].base = Newest(db.rows)
    /\ gets[g].step = "putTables" => gets[g].pages = db.pages[gets[g].base]

CacheInv ==
    ~tainted =>
      /\ Alone
      /\ \/ Right(kvBase, kvTables, db)
         \/ admin.step = "wipeBase"
         \/ admin.step = "wipeTables" /\ admin.call = "restore"
      /\ admin.step = "wipeBase" => kvTables = 0
      /\ admin.step \in Body \cup {"rollback"} =>
            Right(kvBase, kvTables, snaps["checkpoint"])
      /\ Scrubbed => kvBase = 0 /\ kvTables = 0
      /\ \A g \in Gets : Carries(g)

\* From its backup on, delete_base only deletes what is in it.
BackupInv ==
    /\ (/\ admin.call = "delete"
        /\ \/ admin.step \in {"wipeTables", "wipeBase", "destroy"}
           \/ admin.step \in {"archive", "snapshot"} /\ admin.kind = "checkpoint")
       => snaps["deletion"] # None /\ db.inNoco \subseteq snaps["deletion"].inNoco
    /\ admin.step = "destroy" => db.inNoco \subseteq snaps["checkpoint"].inNoco

\* A base that was deleted is in its backup, and no other deletion is on its way.
DeletedInv ==
    deleted # 0 =>
      /\ snaps["deletion"] # None /\ deleted \in snaps["deletion"].inNoco
      /\ admin.call = "delete" => admin.step \in {"forget", "rollback"}

\* Nothing refers to it, so that it is not deleted again, but for the call that
\* deleted it, while that has its row to delete or its checkpoint to go back to.
GoneInv ==
    deleted # 0 =>
      /\ deleted # kvBase
      /\ \A g \in Gets : gets[g].step # "idle" => deleted # gets[g].base
      /\ admin.step = "insert" => deleted # admin.base
      /\ IF admin.call = "delete"
         THEN /\ deleted \in snaps["checkpoint"].inNoco
              /\ admin.step = "forget" => deleted = admin.base
         ELSE /\ deleted \notin db.rows
              /\ admin.step \in Body \cup {"rollback"} =>
                    deleted \notin snaps["checkpoint"].rows

UndoInv ==
    /\ BackupInv
    /\ "overlap" \notin mishaps =>
         /\ Alone
         /\ Scrubbed /\ admin.call = "delete" => kvBase = 0
         /\ DeletedInv
         /\ "cut" \notin mishaps => GoneInv

CInv == ShapeInv /\ KnownInv /\ CacheInv /\ UndoInv

LEMMA NothingCached ==
    ASSUME NEW d PROVE Right(0, 0, d)
BY DEF Right

LEMMA NewestOfNone == Newest({}) = 0
BY DEF Newest

LEMMA CachesInit == Init => CInv
<1> SUFFICES ASSUME Init PROVE CInv
  OBVIOUS
<1>1. /\ admin = Idle /\ admin.step = "idle" /\ admin.call = None
      /\ kvBase = 0 /\ kvTables = 0 /\ deleted = 0 /\ bases = 0 /\ tainted = FALSE
      /\ db.rows = {} /\ db.inNoco = {}
      /\ \A g \in Gets : gets[g].step = "idle"
      /\ \A k \in Kinds : snaps[k] = None
  BY DEF Init, Idle, NoRequest
<1>2. ShapeInv
  BY <1>1 DEF ShapeInv, Body
<1>3. KnownInv
  BY <1>1 DEF KnownInv, Known
<1>4. CacheInv
  BY <1>1 DEF CacheInv, Alone, Right, Scrubbed, Carries, Body
<1>5. UndoInv
  BY <1>1 DEF UndoInv, BackupInv, DeletedInv, GoneInv, Alone, Scrubbed
<1> QED
  BY <1>2, <1>3, <1>4, <1>5 DEF CInv

\* What both properties say is part of it.
LEMMA CachesMatch == TInv /\ CInv => CacheMatches /\ DeletionUndoable
<1> SUFFICES ASSUME TInv, CInv PROVE CacheMatches /\ DeletionUndoable
  OBVIOUS
<1>1. CacheMatches
  BY DEF CInv, CacheInv, CacheMatches, Idle, Right
<1>2. DeletionUndoable
  BY DEF CInv, UndoInv, DeletedInv, DeletionUndoable
<1> QED
  BY <1>1, <1>2
-----------------------------------------------------------------------------
(* What the steps change, without the records they change it in.             *)

\* A step that only moves the call on.
LEMMA GotoEffect ==
    ASSUME TypeOK, NEW s, Goto(s)
    PROVE  /\ admin'.step = s /\ admin'.kind = admin.kind /\ admin'.call = admin.call
           /\ admin'.base = admin.base /\ admin'.version = admin.version
           /\ admin'.source = admin.source
BY DEF TypeOK, Goto, Call

LEMMA SnapshotEffect ==
    ASSUME TypeOK, Snapshot
    PROVE  /\ admin.step = "snapshot"
           /\ snaps' = [k \in Kinds |-> IF k = admin.kind THEN db ELSE snaps[k]]
           /\ \/ admin.kind = "deployment" /\ admin' = Idle
              \/ /\ \/ /\ admin.kind = "deletion"
                       /\ admin'.step = "wipeTables" /\ admin'.kind = "deletion"
                    \/ /\ admin.kind = "manual"
                       /\ admin'.step = "restore" /\ admin'.kind = "manual"
                    \/ /\ admin.kind = "migration"
                       /\ admin'.step = "archive" /\ admin'.kind = "checkpoint"
                    \/ /\ admin.kind = "checkpoint" /\ admin'.kind = "checkpoint"
                       /\ admin'.step = IF admin.call = "delete" THEN "destroy"
                                        ELSE IF admin.base = 0 THEN "create" ELSE "run"
                 /\ admin'.call = admin.call /\ admin'.base = admin.base
                 /\ admin'.source = admin.source
           /\ UNCHANGED <<db, bases, kvBase, kvTables, gets, deleted, tainted, mishaps>>
<1>1. /\ admin.step = "snapshot" /\ admin' = AfterSnapshot
      /\ snaps' = [k \in Kinds |-> IF k = admin.kind THEN db ELSE snaps[k]]
      /\ UNCHANGED <<db, bases, kvBase, kvTables, gets, deleted, tainted, mishaps>>
  BY DEF Snapshot, made, cached, history
<1>2. admin \in Call
  BY DEF TypeOK
<1>3. CASE admin.kind = "deletion"
  <2>1. /\ admin'.step = "wipeTables" /\ admin'.kind = admin.kind
        /\ admin'.call = admin.call /\ admin'.base = admin.base
        /\ admin'.source = admin.source
    BY <1>1, <1>2, <1>3 DEF AfterSnapshot, Call
  <2> QED
    BY <1>1, <1>3, <2>1
<1>4. CASE admin.kind = "manual"
  <2>1. /\ admin'.step = "restore" /\ admin'.kind = admin.kind
        /\ admin'.call = admin.call /\ admin'.base = admin.base
        /\ admin'.source = admin.source
    BY <1>1, <1>2, <1>4 DEF AfterSnapshot, Call
  <2> QED
    BY <1>1, <1>4, <2>1
<1>5. CASE admin.kind = "deployment"
  BY <1>1, <1>5 DEF AfterSnapshot
<1>6. CASE admin.kind = "migration"
  <2>1. /\ admin'.step = "archive" /\ admin'.kind = "checkpoint"
        /\ admin'.call = admin.call /\ admin'.base = admin.base
        /\ admin'.source = admin.source
    BY <1>1, <1>2, <1>6 DEF AfterSnapshot, Call
  <2> QED
    BY <1>1, <1>6, <2>1
<1>7. CASE admin.kind = "checkpoint"
  <2>1. /\ admin'.step = IF admin.call = "delete" THEN "destroy"
                         ELSE IF admin.base = 0 THEN "create" ELSE "run"
        /\ admin'.kind = admin.kind
        /\ admin'.call = admin.call /\ admin'.base = admin.base
        /\ admin'.source = admin.source
    BY <1>1, <1>2, <1>7 DEF AfterSnapshot, Call
  <2> QED
    BY <1>1, <1>7, <2>1
<1> QED
  BY <1>2, <1>3, <1>4, <1>5, <1>6, <1>7 DEF Call, Kinds

LEMMA WipeBaseEffect ==
    ASSUME TypeOK, WipeBase
    PROVE  /\ admin.step = "wipeBase" /\ kvBase' = 0
           /\ \/ admin.call \notin {"create", "delete"} /\ admin' = Idle
              \/ /\ \/ /\ admin.call = "create"
                       /\ admin'.step = "dropRow" /\ admin'.kind = admin.kind
                    \/ /\ admin.call = "delete"
                       /\ admin'.step = "archive" /\ admin'.kind = "checkpoint"
                 /\ admin'.call = admin.call /\ admin'.base = admin.base
           /\ UNCHANGED <<db, bases, snaps, kvTables, gets, deleted, tainted, mishaps>>
<1>1. /\ admin.step = "wipeBase" /\ kvBase' = 0
      /\ UNCHANGED <<db, bases, snaps, kvTables, gets, deleted, tainted, mishaps>>
  BY DEF WipeBase, made, history
<1>2. admin \in Call
  BY DEF TypeOK
<1>3. CASE admin.call = "create"
  <2>1. /\ admin'.step = "dropRow" /\ admin'.kind = admin.kind
        /\ admin'.call = admin.call /\ admin'.base = admin.base
    BY <1>2, <1>3 DEF WipeBase, Call
  <2> QED
    BY <1>1, <1>3, <2>1
<1>4. CASE admin.call = "delete"
  <2>1. /\ admin'.step = "archive" /\ admin'.kind = "checkpoint"
        /\ admin'.call = admin.call /\ admin'.base = admin.base
    BY <1>2, <1>4 DEF WipeBase, Call
  <2> QED
    BY <1>1, <1>4, <2>1
<1>5. CASE admin.call \notin {"create", "delete"}
  BY <1>1, <1>5 DEF WipeBase
<1> QED
  BY <1>3, <1>4, <1>5

LEMMA DropRowEffect ==
    ASSUME TypeOK, DropRow
    PROVE  /\ admin.step = "dropRow" /\ admin'.step = "archive"
           /\ admin'.kind = admin.kind /\ admin'.call = admin.call /\ admin'.base = 0
           /\ db'.rows = db.rows \ {admin.base}
           /\ db'.inNoco = db.inNoco /\ db'.pages = db.pages
           /\ UNCHANGED <<bases, snaps, kvBase, kvTables, gets, deleted, tainted, mishaps>>
<1>1. db \in Db /\ admin \in Call
  BY DEF TypeOK
<1>2. /\ db' = [db EXCEPT !.rows = @ \ {admin.base}, !.recorded[admin.base] = 0]
      /\ admin' = [admin EXCEPT !.step = "archive", !.base = 0]
  BY DEF DropRow
<1>3. db'.rows = db.rows \ {admin.base} /\ db'.inNoco = db.inNoco /\ db'.pages = db.pages
  BY <1>1, <1>2 DEF Db
<1>4. /\ admin'.step = "archive" /\ admin'.kind = admin.kind
      /\ admin'.call = admin.call /\ admin'.base = 0
  BY <1>1, <1>2 DEF Call
<1> QED
  BY <1>3, <1>4 DEF DropRow, made, cached, history

LEMMA CreateEffect ==
    ASSUME TypeOK, Create
    PROVE  /\ admin.step = "create" /\ admin'.step = "insert"
           /\ admin'.kind = admin.kind /\ admin'.call = admin.call /\ admin'.base = bases'
           /\ bases < MaxBases /\ bases' = bases + 1
           /\ db'.inNoco = db.inNoco \cup {bases'}
           /\ db'.rows = db.rows /\ db'.pages = db.pages
           /\ db'.schema = db.schema /\ db'.recorded = db.recorded
           /\ UNCHANGED <<snaps, kvBase, kvTables, gets, deleted, tainted, mishaps>>
<1>1. db \in Db /\ admin \in Call
  BY DEF TypeOK
<1>2. /\ db' = [db EXCEPT !.inNoco = @ \cup {bases'}]
      /\ admin' = [admin EXCEPT !.step = "insert", !.base = bases']
  BY DEF Create
<1>3. db'.inNoco = db.inNoco \cup {bases'} /\ db'.rows = db.rows /\ db'.pages = db.pages
           /\ db'.schema = db.schema /\ db'.recorded = db.recorded
  BY <1>1, <1>2 DEF Db
<1>4. /\ admin'.step = "insert" /\ admin'.kind = admin.kind /\ admin'.call = admin.call
      /\ admin'.base = bases'
  BY <1>1, <1>2 DEF Call
<1> QED
  BY <1>3, <1>4 DEF Create, cached, history

LEMMA InsertEffect ==
    ASSUME TypeOK, Insert
    PROVE  /\ admin.step = "insert" /\ admin'.step = "archive"
           /\ admin'.kind = "migration" /\ admin'.call = admin.call /\ admin'.base = admin.base
           /\ db'.rows = db.rows \cup {admin.base}
           /\ db'.inNoco = db.inNoco /\ db'.pages = db.pages
           /\ db'.schema = db.schema /\ db'.recorded = db.recorded
           /\ UNCHANGED <<bases, snaps, kvBase, kvTables, gets, deleted, tainted, mishaps>>
<1>1. db \in Db /\ admin \in Call
  BY DEF TypeOK
<1>2. /\ db' = [db EXCEPT !.rows = @ \cup {admin.base}]
      /\ admin' = [admin EXCEPT !.step = "archive", !.kind = "migration"]
  BY DEF Insert
<1>3. db'.rows = db.rows \cup {admin.base} /\ db'.inNoco = db.inNoco /\ db'.pages = db.pages
           /\ db'.schema = db.schema /\ db'.recorded = db.recorded
  BY <1>1, <1>2 DEF Db
<1>4. /\ admin'.step = "archive" /\ admin'.kind = "migration" /\ admin'.call = admin.call
      /\ admin'.base = admin.base
  BY <1>1, <1>2 DEF Call
<1> QED
  BY <1>3, <1>4 DEF Insert, made, cached, history

\* A migration only adds a pages table where there is none.
LEMMA RunEffect ==
    ASSUME TypeOK, Run \/ RunPart
    PROVE  /\ admin.step = "run" /\ admin'.step \in {"record", "rollback"}
           /\ admin'.version = admin.version /\ admin.base \in db.inNoco
           /\ db'.recorded = db.recorded
           /\ \A b \in Bases : db'.schema[b] =
                IF b = admin.base THEN admin.version + 1 ELSE db.schema[b]
           /\ admin'.kind = admin.kind /\ admin'.call = admin.call /\ admin'.base = admin.base
           /\ db'.rows = db.rows /\ db'.inNoco = db.inNoco
           /\ \A b \in Bases : db.pages[b] # 0 => db'.pages[b] = db.pages[b]
           /\ UNCHANGED <<bases, snaps, kvBase, kvTables, gets, deleted, tainted, mishaps>>
<1>1. db \in Db /\ admin \in Call
  BY DEF TypeOK
<1>2. ASSUME NEW c \in BOOLEAN, NEW s \in {"record", "rollback"},
             Migrate(admin.base, c), Goto(s), admin.step = "run",
             UNCHANGED <<bases, snaps, cached, gets, history>>
      PROVE  /\ admin.step = "run" /\ admin'.step \in {"record", "rollback"}
             /\ admin'.version = admin.version
             /\ db'.recorded = db.recorded
             /\ \A b \in Bases : db'.schema[b] =
                  IF b = admin.base THEN admin.version + 1 ELSE db.schema[b]
             /\ admin'.kind = admin.kind /\ admin'.call = admin.call /\ admin'.base = admin.base
             /\ db'.rows = db.rows /\ db'.inNoco = db.inNoco
             /\ \A b \in Bases : db.pages[b] # 0 => db'.pages[b] = db.pages[b]
             /\ UNCHANGED <<bases, snaps, kvBase, kvTables, gets, deleted, tainted, mishaps>>
  <2> DEFINE v == admin.version + 1
             new == IF tables' # tables THEN tables' ELSE db.pages[admin.base]
             dirt == IF c /\ db.schema[admin.base] = admin.version
                     THEN db.dirty ELSE db.dirty \cup {admin.base}
  <2>1. tables' = IF v = PagesVersion /\ db.pages[admin.base] = 0 THEN tables + 1 ELSE tables
    BY <1>2 DEF Migrate
  <2>2. db' = [db EXCEPT !.schema[admin.base] = v, !.pages[admin.base] = new, !.dirty = dirt]
    BY <1>1, <1>2 DEF Migrate, Db
  <2>3. db.pages[admin.base] # 0 => new = db.pages[admin.base]
    BY <2>1
  <2> HIDE DEF new, dirt, v
  <2>4. /\ db'.rows = db.rows /\ db'.inNoco = db.inNoco /\ db'.recorded = db.recorded
        /\ \A b \in Bases : db'.schema[b] = IF b = admin.base THEN v ELSE db.schema[b]
        /\ \A b \in Bases : db.pages[b] # 0 => db'.pages[b] = db.pages[b]
    BY <1>1, <2>2, <2>3 DEF Db
  <2>5. /\ admin'.step = s /\ admin'.kind = admin.kind /\ admin'.call = admin.call
        /\ admin'.base = admin.base /\ admin'.version = admin.version
    BY <1>1, <1>2 DEF Goto, Call
  <2> QED
    BY <1>2, <2>4, <2>5 DEF cached, history, v
<1> QED
  BY <1>2 DEF Run, RunPart

LEMMA RecordEffect ==
    ASSUME TypeOK, Record
    PROVE  /\ admin.step = "record" /\ admin'.step = "archive"
           /\ admin'.kind = admin.kind /\ admin'.call = admin.call /\ admin'.base = admin.base
           /\ db'.rows = db.rows /\ db'.inNoco = db.inNoco /\ db'.pages = db.pages
           /\ db'.schema = db.schema
           /\ \A b \in Bases : db'.recorded[b] =
                IF b = admin.base /\ b \in db.rows THEN admin.version + 1 ELSE db.recorded[b]
           /\ UNCHANGED <<bases, snaps, kvBase, kvTables, gets, deleted, tainted, mishaps>>
<1>1. db \in Db /\ admin \in Call
  BY DEF TypeOK
<1> DEFINE n == IF admin.base \in db.rows THEN admin.version + 1
                ELSE db.recorded[admin.base]
<1>2. db' = [db EXCEPT !.recorded[admin.base] = n]
  BY DEF Record
<1>3. admin' = [admin EXCEPT !.step = "archive", !.version = @ + 1]
  BY DEF Record
<1>4. /\ db'.rows = db.rows /\ db'.inNoco = db.inNoco /\ db'.pages = db.pages
      /\ db'.schema = db.schema
      /\ \A b \in Bases : db'.recorded[b] = IF b = admin.base THEN n ELSE db.recorded[b]
  BY <1>1, <1>2 DEF Db
<1>5. /\ admin'.step = "archive" /\ admin'.kind = admin.kind /\ admin'.call = admin.call
      /\ admin'.base = admin.base
  BY <1>1, <1>3 DEF Call
<1> QED
  BY <1>4, <1>5 DEF Record, made, cached, history

LEMMA DestroyEffect ==
    ASSUME TypeOK, Destroy
    PROVE  /\ admin.step = "destroy" /\ admin'.step = "forget"
           /\ admin'.kind = admin.kind /\ admin'.call = admin.call /\ admin'.base = admin.base
           /\ admin.base \in db.inNoco
           /\ db'.inNoco = db.inNoco \ {admin.base}
           /\ db'.rows = db.rows /\ db'.pages = db.pages
           /\ db'.schema = db.schema /\ db'.recorded = db.recorded
           /\ deleted' = admin.base
           /\ UNCHANGED <<bases, snaps, kvBase, kvTables, gets, tainted, mishaps>>
<1>1. db \in Db /\ admin \in Call
  BY DEF TypeOK
<1>2. db' = [db EXCEPT !.inNoco = @ \ {admin.base}] /\ admin' = [admin EXCEPT !.step = "forget"]
  BY DEF Destroy, Goto
<1>3. db'.inNoco = db.inNoco \ {admin.base} /\ db'.rows = db.rows /\ db'.pages = db.pages
           /\ db'.schema = db.schema /\ db'.recorded = db.recorded
  BY <1>1, <1>2 DEF Db
<1>4. /\ admin'.step = "forget" /\ admin'.kind = admin.kind /\ admin'.call = admin.call
      /\ admin'.base = admin.base
  BY <1>1, <1>2 DEF Call
<1> QED
  BY <1>1, <1>2, <1>3, <1>4 DEF Destroy, made, cached

LEMMA ForgetEffect ==
    ASSUME TypeOK, Forget
    PROVE  /\ admin.step = "forget" /\ admin' = Idle
           /\ db'.rows = db.rows \ {admin.base}
           /\ db'.inNoco = db.inNoco /\ db'.pages = db.pages
           /\ UNCHANGED <<bases, snaps, kvBase, kvTables, gets, deleted, tainted, mishaps>>
<1>1. db \in Db
  BY DEF TypeOK
<1>2. db' = [db EXCEPT !.rows = @ \ {admin.base}, !.recorded[admin.base] = 0]
  BY DEF Forget
<1>3. db'.rows = db.rows \ {admin.base} /\ db'.inNoco = db.inNoco /\ db'.pages = db.pages
  BY <1>1, <1>2 DEF Db
<1> QED
  BY <1>3 DEF Forget, made, cached, history

LEMMA DashboardEffect ==
    ASSUME TypeOK, NEW b \in Bases, DashboardDelete(b)
    PROVE  /\ db'.inNoco = db.inNoco \ {b}
           /\ db'.rows = db.rows /\ db'.pages = db.pages
           /\ db'.schema = db.schema /\ db'.recorded = db.recorded
           /\ mishaps' = mishaps \cup {"dashboard"}
           /\ UNCHANGED <<admin, bases, snaps, kvBase, kvTables, gets, deleted, tainted>>
<1>1. db \in Db
  BY DEF TypeOK
<1>2. db' = [db EXCEPT !.inNoco = @ \ {b}]
  BY DEF DashboardDelete
<1>3. db'.inNoco = db.inNoco \ {b} /\ db'.rows = db.rows /\ db'.pages = db.pages
           /\ db'.schema = db.schema /\ db'.recorded = db.recorded
  BY <1>1, <1>2 DEF Db
<1> QED
  BY <1>3 DEF DashboardDelete, made, cached

-----------------------------------------------------------------------------
(* Which steps belong to which call.                                         *)

\* A call that is over.
LEMMA ShapeIdle == admin' = Idle => ShapeInv'
<1> SUFFICES ASSUME admin' = Idle PROVE ShapeInv'
  OBVIOUS
<1>1. admin'.step = "idle" /\ admin'.call = None /\ admin' = Idle
  BY DEF Idle
<1> QED
  BY <1>1 DEF ShapeInv, Body

LEMMA ShapeStart == ShapeInv /\ StartCall => ShapeInv'
<1> SUFFICES ASSUME StartCall PROVE ShapeInv'
  OBVIOUS
<1>1. ASSUME NEW c \in Calls, NEW s \in {"archive", "wipeTables"}, NEW k, NEW o, NEW b, NEW v,
             admin' = Started(c, s, k, o, b, v),
             c = "create" => k = "checkpoint",
             c = "delete" => k = "deletion" /\ s = "archive",
             c = "migrate" => k = "migration" /\ s = "archive" /\ b # 0,
             c = "backup" => k = "deployment" /\ s = "archive",
             c = "restore" => k = "manual" /\ s = "archive",
             c = "wipe" => s = "wipeTables"
      PROVE  ShapeInv'
  <2>1. /\ admin'.call = c /\ admin'.step = s /\ admin'.kind = k /\ admin'.base = b
    BY <1>1 DEF Started
  <2> QED
    BY <1>1, <2>1 DEF ShapeInv, Body
<1>2. \A b \in Bases : b # 0
  BY DEF Bases
<1>3. CASE StartCreate
  BY <1>1, <1>3, BeganCreate
<1>4. CASE StartDelete
  BY <1>1, <1>4, BeganDelete
<1>5. CASE StartMigrate
  BY <1>1, <1>2, <1>5, BeganMigrate
<1>6. CASE StartBackup
  BY <1>1, <1>6, BeganBackup
<1>7. ASSUME NEW k \in Kinds \ {"checkpoint"}, StartRestore(k) PROVE ShapeInv'
  BY <1>1, <1>7, BeganRestore
<1>8. CASE StartWipe
  BY <1>1, <1>8, BeganWipe
<1> QED
  BY <1>3, <1>4, <1>5, <1>6, <1>7, <1>8 DEF StartCall

LEMMA ShapeStep == TInv /\ ShapeInv /\ [Next]_vars => ShapeInv'
<1> SUFFICES ASSUME TInv, ShapeInv, [Next]_vars PROVE ShapeInv'
  OBVIOUS
<1>0. admin \in Call /\ 0 \notin Bases
  BY DEF TInv, TypeOK, Bases
<1>1. CASE UNCHANGED admin
  BY <1>1 DEF ShapeInv, Body
<1>2. CASE admin' = Idle
  BY <1>2, ShapeIdle
<1>3. CASE StartCall
  BY <1>3, ShapeStart
<1>4. ASSUME NEW s \in {"rollback", "snapshot", "wipeTables", "wipeBase", "record", "forget"},
             Goto(s),
             s = "rollback" => admin.step \in Body,
             s = "snapshot" => admin.step = "archive",
             s = "wipeTables" => admin.step = "restore",
             s = "wipeBase" => admin.step = "wipeTables",
             s = "record" => admin.step = "run",
             s = "forget" => admin.step = "destroy"
      PROVE  ShapeInv'
  <2>1. /\ admin'.step = s /\ admin'.kind = admin.kind /\ admin'.call = admin.call
        /\ admin'.base = admin.base
    BY <1>0, <1>4 DEF Goto, Call
  <2> QED
    BY <1>4, <2>1 DEF ShapeInv, Body
<1>5. CASE Archive \/ Restore \/ WipeTables \/ Run \/ RunPart \/ Destroy \/ Missing \/ BodyFails
  BY <1>4, <1>5
     DEF Archive, Restore, WipeTables, Run, RunPart, Destroy, Missing, BodyFails,
         Body
<1>6. CASE Snapshot
  BY <1>6, SnapshotEffect, ShapeIdle DEF ShapeInv, Body, TInv
<1>7. CASE WipeBase
  BY <1>7, WipeBaseEffect, ShapeIdle DEF ShapeInv, Body, TInv
<1>8. CASE DropRow
  BY <1>8, DropRowEffect DEF ShapeInv, Body, TInv
<1>9. CASE Create
  BY <1>9, CreateEffect DEF ShapeInv, Body, TInv
<1>10. CASE Insert
  BY <1>0, <1>10, InsertEffect DEF ShapeInv, Body, TInv, PointInv
<1>11. CASE Record
  BY <1>11, RecordEffect DEF ShapeInv, Body, TInv
<1>12. AdminStep => \/ admin' = Idle
                   \/ Archive \/ Restore \/ WipeTables \/ Run \/ RunPart \/ Destroy
                   \/ Missing \/ BodyFails \/ Snapshot \/ WipeBase \/ DropRow \/ Create
                   \/ Insert \/ Record
  BY DEF AdminStep, RestoreNothing, Rollback, UpToDate, Forget, CutShort
<1>13. \/ UNCHANGED vars
       \/ \E b \in Bases : DashboardDelete(b)
       \/ \E g \in Gets : Get(g)
       => UNCHANGED admin
  BY DEF vars, DashboardDelete, Get, GetStart, GetDb, GetPut, GetTables, GetList,
         GetPutTables, GetFails
<1> QED
  BY <1>1, <1>2, <1>3, <1>5, <1>6, <1>7, <1>8, <1>9, <1>10, <1>11, <1>12, <1>13 DEF Next


-----------------------------------------------------------------------------
(* What exists has been created.                                             *)

LEMMA KnownStep == TInv /\ ShapeInv /\ KnownInv /\ [Next]_vars => KnownInv'
<1> SUFFICES ASSUME TInv, ShapeInv, KnownInv, [Next]_vars PROVE KnownInv'
  OBVIOUS
<1>0. TypeOK /\ 0 \notin Bases /\ bases \in Nat /\ MaxBases \in Nat
      /\ snaps \in [Kinds -> Db \cup {None}] /\ admin \in Call
  BY BoundsAssumption DEF TInv, TypeOK, Bases
<1> USE DEF KnownInv, Known
<1>1. ASSUME UNCHANGED <<db, bases, snaps>>, deleted' \in {0, deleted}
      PROVE  KnownInv'
  BY <1>0, <1>1
<1>2. CASE UNCHANGED vars
  BY <1>1, <1>2 DEF vars, made, history
<1>3. CASE StartCall
  <2>1. ASSUME NEW c, NEW s \in {"archive", "wipeTables"}, NEW k, NEW o, NEW b, NEW v,
               Begin(c), admin' = Started(c, s, k, o, b, v), deleted' \in {0, deleted}
        PROVE  KnownInv'
    <3>1. UNCHANGED <<db, bases, snaps>> /\ admin'.step = s
      BY <2>1 DEF Begin, Started, made
    <3> QED
      BY <1>1, <2>1, <3>1
  <2>2. CASE StartCreate
    BY <2>1, <2>2, BeganCreate
  <2>3. CASE StartDelete
    BY <2>1, <2>3, BeganDelete
  <2>4. CASE StartMigrate
    BY <2>1, <2>4, BeganMigrate
  <2>5. CASE StartBackup
    BY <2>1, <2>5, BeganBackup
  <2>6. ASSUME NEW k \in Kinds \ {"checkpoint"}, StartRestore(k) PROVE KnownInv'
    BY <2>1, <2>6, BeganRestore
  <2>7. CASE StartWipe
    BY <2>1, <2>7, BeganWipe
  <2> QED
    BY <1>3, <2>2, <2>3, <2>4, <2>5, <2>6, <2>7 DEF StartCall
<1>4. ASSUME UNCHANGED <<db, bases, snaps, deleted>> PROVE KnownInv'
  BY <1>0, <1>4
<1>6. CASE Archive
  BY <1>0, <1>6 DEF Archive, made, history
<1>7. CASE Snapshot
  BY <1>0, <1>7, SnapshotEffect
<1>8. CASE Restore
  <2>1. admin.source \in Kinds
    BY <1>0 DEF Call
  <2> QED
    BY <1>0, <1>8, <2>1 DEF Restore, made
<1>9. CASE Rollback
  <2>1. snaps["checkpoint"] # None
    BY <1>9 DEF Rollback, TInv, PointInv
  <2>2. "checkpoint" \in Kinds
    BY DEF Kinds
  <2> QED
    BY <1>0, <1>9, <2>1, <2>2 DEF Rollback, made
<1>10. CASE RestoreNothing \/ UpToDate \/ CutShort
  BY <1>4, <1>10 DEF RestoreNothing, UpToDate, CutShort, made, history
<1>11. CASE WipeTables \/ Missing \/ BodyFails
  BY <1>4, <1>11 DEF WipeTables, Missing, BodyFails, made, history
<1>12. CASE WipeBase
  BY <1>4, <1>12, WipeBaseEffect DEF TInv
<1>13. CASE DropRow
  BY <1>0, <1>13, DropRowEffect
<1>14. CASE Create
  BY <1>0, <1>14, CreateEffect
<1>15. CASE Insert
  <2>1. admin.base \in 1..bases
    BY <1>15 DEF Insert, TInv, PointInv
  <2> QED
    BY <1>0, <1>15, <2>1, InsertEffect
<1>16. CASE Run \/ RunPart
  BY <1>0, <1>16, RunEffect
<1>17. CASE Record
  BY <1>0, <1>17, RecordEffect
<1>18. CASE Destroy
  BY <1>0, <1>18, DestroyEffect
<1>19. CASE Forget
  BY <1>0, <1>19, ForgetEffect
<1>20. ASSUME NEW b \in Bases, DashboardDelete(b) PROVE KnownInv'
  BY <1>0, <1>20, DashboardEffect
<1>21. ASSUME NEW g \in Gets, Get(g) PROVE KnownInv'
  BY <1>1, <1>21
     DEF Get, GetStart, GetDb, GetPut, GetTables, GetList, GetPutTables, GetFails,
         made, history
<1> QED
  BY <1>2, <1>3, <1>6, <1>7, <1>8, <1>9, <1>10, <1>11, <1>12, <1>13, <1>14, <1>15,
     <1>16, <1>17, <1>18, <1>19, <1>20, <1>21 DEF Next, AdminStep


-----------------------------------------------------------------------------
(* The cached IDs.                                                           *)

\* The caches change under requests only between calls.
LEMMA NoCallMeanwhile ==
    ASSUME ShapeInv, admin.call \in {None, "backup"}
    PROVE  /\ admin.step \notin Body \cup {"rollback", "wipeTables", "wipeBase",
                                        "restore", "dropRow"}
           /\ ~Scrubbed
BY DEF ShapeInv, Body, Scrubbed

LEMMA CacheStart == TInv /\ CacheInv /\ StartCall => CacheInv'
<1> SUFFICES ASSUME TInv, CacheInv, StartCall, ~tainted' PROVE CacheInv'
  BY DEF CacheInv
<1>1. ASSUME NEW c \in Calls, NEW s \in {"archive", "wipeTables"}, NEW k, NEW o, NEW b, NEW v,
             Begin(c), admin' = Started(c, s, k, o, b, v),
             s = "archive" /\ k = "checkpoint" => c # "delete" /\ db.rows = {},
             s = "wipeTables" => c \in {"create", "wipe"},
             \/ UNCHANGED <<kvBase, kvTables>>
             \/ k # "checkpoint" /\ \E x \in Bases : Lookup(x)
      PROVE  CacheInv'
  <2>1. /\ admin'.call = c /\ admin'.step = s /\ admin'.kind = k /\ admin'.base = b
    BY <1>1 DEF Started
  <2>2. /\ admin = Idle /\ UNCHANGED <<db, snaps, gets>> /\ ~tainted
        /\ c = "backup" \/ Requests = {}
    BY <1>1 DEF Begin
  <2>3. Right(kvBase, kvTables, db)
    BY <2>2 DEF CacheInv, Idle
  <2>4. Right(kvBase', kvTables', db')
    BY <1>1, <2>2, <2>3 DEF Right, Lookup
  <2>5. Alone'
    BY <2>1, <2>2 DEF Alone, Requests
  <2>6. Scrubbed' => kvBase' = 0 /\ kvTables' = 0
    BY <1>1, <2>1, <2>3, NewestOfNone DEF Scrubbed, Right
  <2>7. \A g \in Gets : Carries(g)'
    BY <2>2 DEF CacheInv, Carries
  <2> QED
    BY <2>1, <2>4, <2>5, <2>6, <2>7 DEF CacheInv, Body
<1>2. CASE StartCreate
  BY <1>1, <1>2, BeganCreate
<1>3. CASE StartDelete
  BY <1>1, <1>3, BeganDelete
<1>4. CASE StartMigrate
  BY <1>1, <1>4, BeganMigrate
<1>5. CASE StartBackup
  BY <1>1, <1>5, BeganBackup
<1>6. ASSUME NEW k \in Kinds \ {"checkpoint"}, StartRestore(k) PROVE CacheInv'
  BY <1>1, <1>6, BeganRestore
<1>7. CASE StartWipe
  BY <1>1, <1>7, BeganWipe
<1> QED
  BY <1>2, <1>3, <1>4, <1>5, <1>6, <1>7 DEF StartCall

\* An admin call's step: requests either do not run, or the step changes
\* nothing they have seen.
LEMMA CacheAdmin == TInv /\ ShapeInv /\ CacheInv /\ AdminStep => CacheInv'
<1> SUFFICES ASSUME TInv, ShapeInv, CacheInv, AdminStep, ~tainted' PROVE CacheInv'
  BY DEF CacheInv
<1>0. TypeOK /\ admin \in Call /\ snaps \in [Kinds -> Db \cup {None}] /\ "checkpoint" \in Kinds
  BY DEF TInv, TypeOK, Kinds
<1>a. Idle.step = "idle" /\ Idle.call = None /\ Idle.kind = "checkpoint" /\ Idle.base = 0
  BY DEF Idle
<1>1. ASSUME ~tainted, gets' = gets, admin'.call \in {None, admin.call}
      PROVE  Alone'
  BY <1>1 DEF CacheInv, Alone, Requests
<1>2. ASSUME ~tainted, gets' = gets, admin.call \notin {None, "backup"} \/ UNCHANGED <<db>>
      PROVE  \A g \in Gets : Carries(g)'
  BY <1>2 DEF CacheInv, Alone, Requests, Carries
<1>3. CASE Archive
  BY <1>0, <1>1, <1>2, <1>3, GotoEffect
     DEF Archive, CacheInv, ShapeInv, Body, Scrubbed, cached, history
<1>4. CASE Snapshot
  <2>1. /\ Right(kvBase, kvTables, db) /\ ~tainted /\ UNCHANGED <<db, kvBase, kvTables>>
    BY <1>0, <1>4, SnapshotEffect DEF CacheInv
  <2>2. Alone' /\ \A g \in Gets : Carries(g)'
    BY <1>0, <1>1, <1>2, <1>4, <1>a, <2>1, SnapshotEffect
  <2>3. Scrubbed' => Scrubbed
    BY <1>0, <1>4, <1>a, SnapshotEffect DEF Scrubbed, ShapeInv
  <2>4. admin'.step \in Body \cup {"rollback"} => snaps'["checkpoint"] = db
    BY <1>0, <1>4, <1>a, SnapshotEffect DEF Body
  <2>5. admin'.step # "wipeBase"
    BY <1>0, <1>4, <1>a, SnapshotEffect
  <2> QED
    BY <2>1, <2>2, <2>3, <2>4, <2>5 DEF CacheInv
<1>5. CASE Restore
  BY <1>0, <1>1, <1>2, <1>5, GotoEffect
     DEF Restore, CacheInv, ShapeInv, Body, Scrubbed, cached
<1>6. CASE RestoreNothing
  BY <1>0, <1>1, <1>2, <1>6, <1>a
     DEF RestoreNothing, CacheInv, ShapeInv, Body, Scrubbed, cached, history
<1>7. CASE Rollback
  BY <1>0, <1>1, <1>2, <1>7, <1>a
     DEF Rollback, CacheInv, ShapeInv, Body, Scrubbed, cached, history
<1>8. CASE WipeTables
  <2>1. /\ admin'.step = "wipeBase" /\ admin.step = "wipeTables" /\ kvTables' = 0
        /\ gets' = gets /\ (~tainted \/ Requests = {})
    BY <1>0, <1>8, GotoEffect DEF WipeTables
  <2>2. Requests = {}
    BY <2>1 DEF CacheInv, Alone, ShapeInv
  <2>3. Alone' /\ \A g \in Gets : Carries(g)'
    BY <2>1, <2>2 DEF Alone, Requests, Carries
  <2> QED
    BY <2>1, <2>3 DEF CacheInv, Body, Scrubbed
<1>9. CASE WipeBase
  BY <1>0, <1>1, <1>2, <1>9, <1>a, WipeBaseEffect, NothingCached
     DEF CacheInv, ShapeInv, Body, Scrubbed
<1>10. CASE DropRow
  BY <1>0, <1>1, <1>2, <1>10, DropRowEffect, NothingCached
     DEF CacheInv, ShapeInv, Body, Scrubbed
<1>11. CASE Create
  BY <1>0, <1>1, <1>2, <1>11, CreateEffect, NothingCached
     DEF CacheInv, ShapeInv, Body, Scrubbed
<1>12. CASE Insert
  BY <1>0, <1>1, <1>2, <1>12, InsertEffect, NothingCached
     DEF CacheInv, ShapeInv, Body, Scrubbed
<1>13. CASE UpToDate
  BY <1>0, <1>1, <1>2, <1>13, <1>a
     DEF UpToDate, NothingToRun, CacheInv, ShapeInv, Body, Scrubbed, cached, history
<1>14. CASE Run \/ RunPart
  <2>1. Right(kvBase, kvTables, db) /\ ~tainted
    BY <1>0, <1>14, RunEffect DEF CacheInv
  <2>2. db.rows # {} => Newest(db.rows) \in Bases
    BY <1>0, NewestIsOne DEF TypeOK, Db
  <2>3. Right(kvBase', kvTables', db')
    BY <1>0, <1>14, <2>1, <2>2, RunEffect DEF Right
  <2> QED
    BY <1>0, <1>1, <1>2, <1>14, <2>1, <2>3, RunEffect
       DEF CacheInv, ShapeInv, Body, Scrubbed
<1>15. CASE Record
  BY <1>0, <1>1, <1>2, <1>15, RecordEffect DEF CacheInv, ShapeInv, Body, Scrubbed, Right
<1>16. CASE Destroy
  BY <1>0, <1>1, <1>2, <1>16, DestroyEffect, NothingCached
     DEF CacheInv, ShapeInv, Body, Scrubbed
<1>17. CASE Forget
  BY <1>0, <1>1, <1>2, <1>17, <1>a, ForgetEffect, NothingCached
     DEF CacheInv, ShapeInv, Body, Scrubbed
<1>18. CASE Missing \/ BodyFails
  BY <1>0, <1>1, <1>2, <1>18, GotoEffect
     DEF Missing, BodyFails, CacheInv, ShapeInv, Body, Scrubbed, cached, history
<1>19. CASE CutShort
  BY <1>0, <1>1, <1>2, <1>19, <1>a
     DEF CutShort, CacheInv, ShapeInv, Body, Scrubbed, cached
<1> QED
  BY <1>3, <1>4, <1>5, <1>6, <1>7, <1>8, <1>9, <1>10, <1>11, <1>12, <1>13, <1>14, <1>15,
     <1>16, <1>17, <1>18, <1>19 DEF AdminStep

\* A request's step.
LEMMA CacheGet == TInv /\ ShapeInv /\ CacheInv /\ (\E g \in Gets : Get(g)) => CacheInv'
<1> SUFFICES ASSUME TInv, ShapeInv, CacheInv, NEW g \in Gets, Get(g), ~tainted' PROVE CacheInv'
  BY DEF CacheInv
<1>0. gets \in [Gets -> Request]
  BY DEF TInv, TypeOK
<1>1. /\ ~tainted /\ UNCHANGED <<db, snaps, admin>>
      /\ admin.call \in {None, "backup"}
      /\ Carries(g)
  BY <1>0
     DEF Get, GetStart, GetDb, GetPut, GetTables, GetList, GetPutTables, GetFails,
         Is,
              history, CacheInv, Alone, Requests
<1>2. /\ Alone' /\ ~Scrubbed' /\ Right(kvBase, kvTables, db)
      /\ admin'.step \notin Body \cup {"rollback", "wipeBase"}
  BY <1>1, NoCallMeanwhile DEF CacheInv, Alone, Scrubbed
<1>3. ASSUME NEW r, Becomes(g, r), Right(kvBase', kvTables', db),
             r.step \notin {"idle", "db"} => db.rows # {} /\ r.base = Newest(db.rows),
             r.step = "putTables" => r.pages = db.pages[r.base]
      PROVE  CacheInv'
  <2>1. \A h \in Gets : Carries(h)'
    BY <1>0, <1>1, <1>3 DEF Carries, CacheInv, Becomes
  <2> QED
    BY <1>1, <1>2, <1>3, <2>1 DEF CacheInv
<1>4. NoRequest.step = "idle"
  BY DEF NoRequest
<1>5. CASE GetStart(g)
  <2>1. PICK s \in {"db", "tables"} :
          /\ Becomes(g, [step |-> s, base |-> kvBase, pages |-> 0])
          /\ s = "tables" => kvBase # 0
    BY <1>5 DEF GetStart
  <2>2. UNCHANGED <<kvBase, kvTables>>
    BY <1>5 DEF GetStart, cached
  <2> QED
    BY <1>2, <1>3, <2>1, <2>2, NewestOfNone DEF Right
<1>6. CASE GetDb(g)
  <2>1. PICK r : Becomes(g, r) /\ r = IF db.rows = {} THEN NoRequest
                  ELSE [step |-> "put", base |-> Newest(db.rows), pages |-> 0]
    BY <1>6 DEF GetDb
  <2>2. UNCHANGED <<kvBase, kvTables>>
    BY <1>6 DEF GetDb, cached
  <2> QED
    BY <1>2, <1>3, <1>4, <2>1, <2>2
<1>7. CASE GetPut(g)
  <2>1. PICK r : r = [gets[g] EXCEPT !.step = "tables"] /\ Becomes(g, r)
    BY <1>7 DEF GetPut
  <2>2. r.step = "tables" /\ r.base = gets[g].base
    BY <1>0, <2>1 DEF Request
  <2>3. db.rows # {} /\ gets[g].base = Newest(db.rows)
    BY <1>1, <1>7 DEF GetPut, Is, Carries
  <2>4. Right(kvBase', kvTables', db)
    BY <1>2, <1>7, <2>3 DEF GetPut, Right
  <2> QED
    BY <1>3, <2>1, <2>2, <2>3, <2>4
<1>8. CASE GetTables(g)
  <2> DEFINE listing == [gets[g] EXCEPT !.step = "list"]
  <2>1. PICK r \in {NoRequest, listing} : Becomes(g, r)
    BY <1>8 DEF GetTables
  <2>2. listing.step = "list" /\ listing.base = gets[g].base
    BY <1>0 DEF Request
  <2>3. db.rows # {} /\ gets[g].base = Newest(db.rows)
    BY <1>1, <1>8 DEF GetTables, Is, Carries
  <2>4. UNCHANGED <<kvBase, kvTables>>
    BY <1>8 DEF GetTables, cached
  <2> QED
    BY <1>2, <1>3, <1>4, <2>1, <2>2, <2>3, <2>4
<1>9. CASE GetList(g)
  <2>1. PICK r \in {NoRequest, [step |-> "putTables", base |-> gets[g].base,
                               pages |-> db.pages[gets[g].base]]} : Becomes(g, r)
    BY <1>9 DEF GetList
  <2>2. db.rows # {} /\ gets[g].base = Newest(db.rows)
    BY <1>1, <1>9 DEF GetList, Is, Carries
  <2>3. UNCHANGED <<kvBase, kvTables>>
    BY <1>9 DEF GetList, cached
  <2> QED
    BY <1>2, <1>3, <1>4, <2>1, <2>2, <2>3
<1>10. CASE GetPutTables(g)
  <2>1. /\ db.rows # {} /\ gets[g].base = Newest(db.rows)
        /\ gets[g].pages = db.pages[gets[g].base]
    BY <1>1, <1>10 DEF GetPutTables, Is, Carries
  <2>2. Right(kvBase', kvTables', db)
    BY <1>2, <1>10, <2>1 DEF GetPutTables, Right
  <2> QED
    BY <1>3, <1>4, <1>10, <2>2 DEF GetPutTables
<1>11. CASE GetFails(g)
  BY <1>2, <1>3, <1>4, <1>11 DEF GetFails, cached
<1> QED
  BY <1>5, <1>6, <1>7, <1>8, <1>9, <1>10, <1>11 DEF Get

LEMMA CacheStep == TInv /\ ShapeInv /\ CacheInv /\ [Next]_vars => CacheInv'
<1> SUFFICES ASSUME TInv, ShapeInv, CacheInv, [Next]_vars PROVE CacheInv'
  OBVIOUS
<1>1. CASE UNCHANGED vars
  BY <1>1 DEF vars, cached, history, CacheInv, Alone, Requests, Right, Scrubbed, Carries
<1>2. ASSUME NEW b \in Bases, DashboardDelete(b) PROVE CacheInv'
  BY <1>2, DashboardEffect DEF TInv, CacheInv, Alone, Requests, Right, Scrubbed, Carries
<1> QED
  BY <1>1, <1>2, CacheStart, CacheAdmin, CacheGet DEF Next


-----------------------------------------------------------------------------
(* What was deleted.                                                         *)

LEMMA BackupKept ==
    ASSUME BackupInv, snaps' = snaps, db'.inNoco \subseteq db.inNoco, admin' = admin
    PROVE  BackupInv'
BY DEF BackupInv

LEMMA UndoStart == TInv /\ UndoInv /\ StartCall => UndoInv'
<1> SUFFICES ASSUME TInv, UndoInv, StartCall PROVE UndoInv'
  OBVIOUS
<1>0. db.rows # {} => Newest(db.rows) \in db.rows
  BY NewestIsOne DEF TInv, TypeOK, Db
<1>1. ASSUME NEW c \in Calls, NEW s \in {"archive", "wipeTables"}, NEW k, NEW o, NEW b, NEW v,
             Begin(c), admin' = Started(c, s, k, o, b, v),
             c = "delete" => s = "archive" /\ k = "deletion",
             \/ UNCHANGED <<kvBase, kvTables>>
             \/ \E x \in Bases : Lookup(x),
             IF c = "delete"
             THEN \E x \in Bases :
                    /\ Lookup(x)
                    /\ deleted' = IF x = deleted /\ "cut" \notin mishaps THEN deleted ELSE 0
             ELSE deleted' = deleted
      PROVE  UndoInv'
  <2>1. /\ admin'.call = c /\ admin'.step = s /\ admin'.kind = k
    BY <1>1 DEF Started
  <2>2. UNCHANGED <<db, snaps, gets>>
    BY <1>1 DEF Begin
  <2>3. BackupInv'
    BY <1>1, <2>1 DEF BackupInv
  <2>4. ASSUME "overlap" \notin mishaps'
        PROVE  Alone' /\ DeletedInv' /\ ("cut" \notin mishaps' => GoneInv')
    <3>1. "overlap" \notin mishaps /\ (c = "backup" \/ Requests = {})
      BY <1>1, <2>4 DEF Begin
    <3>2. Alone'
      BY <2>1, <2>2, <3>1 DEF Alone, Requests
    <3>3. /\ "cut" \in mishaps' <=> "cut" \in mishaps
          /\ admin = Idle /\ admin.call # "delete"
      BY <1>1 DEF Begin, Idle
    <3>4. ASSUME "cut" \notin mishaps, deleted # 0
          PROVE  \A x \in Bases : Lookup(x) => x # deleted
      BY <1>0, <3>1, <3>3, <3>4, NewestOfNone DEF UndoInv, GoneInv, Lookup
    <3>5. c = "delete" => deleted' = 0
      BY <1>1, <3>4
    <3>6. "cut" \notin mishaps /\ deleted # 0 => kvBase' # deleted
      BY <1>1, <3>1, <3>4 DEF UndoInv, GoneInv, Lookup
    <3>7. DeletedInv'
      BY <1>1, <2>1, <2>2, <3>1, <3>5 DEF UndoInv, DeletedInv
    <3>8. ASSUME "cut" \notin mishaps' PROVE GoneInv'
      BY <1>1, <2>1, <2>2, <3>1, <3>3, <3>5, <3>6, <3>8 DEF UndoInv, GoneInv, Body
    <3> QED
      BY <3>2, <3>7, <3>8
  <2>5. ~(Scrubbed' /\ c = "delete")
    BY <1>1, <2>1 DEF Scrubbed
  <2> QED
    BY <2>1, <2>3, <2>4, <2>5 DEF UndoInv
<1>2. CASE StartCreate
  BY <1>1, <1>2, BeganCreate
<1>3. CASE StartDelete
  BY <1>1, <1>3, BeganDelete
<1>4. CASE StartMigrate
  BY <1>1, <1>4, BeganMigrate
<1>5. CASE StartBackup
  BY <1>1, <1>5, BeganBackup
<1>6. ASSUME NEW k \in Kinds \ {"checkpoint"}, StartRestore(k) PROVE UndoInv'
  BY <1>1, <1>6, BeganRestore
<1>7. CASE StartWipe
  BY <1>1, <1>7, BeganWipe
<1> QED
  BY <1>2, <1>3, <1>4, <1>5, <1>6, <1>7 DEF StartCall

\* From its backup to its end, delete_base stays within the backup.
LEMMA BackupAdmin == TInv /\ ShapeInv /\ BackupInv /\ AdminStep => BackupInv'
<1> SUFFICES ASSUME TInv, ShapeInv, BackupInv, AdminStep PROVE BackupInv'
  OBVIOUS
<1>0. /\ TypeOK /\ admin \in Call /\ db \in Db
      /\ snaps \in [Kinds -> Db \cup {None}] /\ "deletion" \in Kinds
  BY DEF TInv, TypeOK, Kinds
<1>a. ASSUME admin' = Idle PROVE BackupInv'
  BY <1>a DEF BackupInv, Idle
<1>2. ASSUME admin'.call = admin.call, admin.call # "delete", admin'.step # "destroy"
      PROVE  BackupInv'
  BY <1>2 DEF BackupInv
<1>3. CASE Archive
  BY <1>0, <1>3, GotoEffect DEF Archive, BackupInv, ShapeInv
<1>4. CASE Snapshot
  <2>1. admin'.step = "destroy" => snaps'["checkpoint"] = db' /\ admin.call = "delete"
    BY <1>0, <1>4, SnapshotEffect DEF Idle, Kinds
  <2>2. CASE admin' = Idle
    BY <1>a, <2>2
  <2>3. CASE admin.kind = "deletion"
    BY <1>0, <1>4, <2>1, <2>3, SnapshotEffect DEF BackupInv, ShapeInv
  <2>4. CASE admin' # Idle /\ admin.kind # "deletion"
    <3>1. snaps'["deletion"] = snaps["deletion"] /\ db' = db /\ admin'.call = admin.call
      BY <1>0, <1>4, <2>4, SnapshotEffect
    <3>2. admin.call = "delete" => admin.step = "snapshot" /\ admin.kind = "checkpoint"
      BY <1>0, <1>4, <2>4, SnapshotEffect DEF ShapeInv
    <3> QED
      BY <2>1, <3>1, <3>2 DEF BackupInv
  <2> QED
    BY <2>2, <2>3, <2>4
<1>5. CASE Restore
  BY <1>0, <1>2, <1>5, GotoEffect DEF Restore, ShapeInv
<1>6. CASE WipeTables
  BY <1>0, <1>6, GotoEffect DEF WipeTables, BackupInv
<1>7. CASE WipeBase
  BY <1>0, <1>a, <1>7, WipeBaseEffect DEF BackupInv
<1>8. CASE DropRow
  BY <1>0, <1>2, <1>8, DropRowEffect DEF ShapeInv
<1>9. CASE Create
  BY <1>0, <1>2, <1>9, CreateEffect DEF ShapeInv
<1>10. CASE Insert
  BY <1>0, <1>2, <1>10, InsertEffect DEF ShapeInv
<1>11. CASE Run \/ RunPart
  BY <1>0, <1>2, <1>11, RunEffect DEF ShapeInv
<1>12. CASE Record
  BY <1>0, <1>2, <1>12, RecordEffect DEF ShapeInv
<1>13. CASE Destroy
  BY <1>0, <1>13, DestroyEffect DEF BackupInv, ShapeInv
<1>14. CASE Missing \/ BodyFails
  <2>1. admin'.step = "rollback"
    BY <1>0, <1>14, GotoEffect DEF Missing, BodyFails
  <2> QED
    BY <2>1 DEF BackupInv
<1> QED
  BY <1>a, <1>3, <1>4, <1>5, <1>6, <1>7, <1>8, <1>9, <1>10, <1>11, <1>12, <1>13, <1>14
     DEF AdminStep, RestoreNothing, Rollback, UpToDate, Forget, CutShort

LEMMA UndoAdmin == TInv /\ ShapeInv /\ KnownInv /\ UndoInv /\ AdminStep => UndoInv'
<1> SUFFICES ASSUME TInv, ShapeInv, KnownInv, UndoInv, AdminStep, "overlap" \notin mishaps'
             PROVE  /\ Alone' /\ DeletedInv' /\ ("cut" \notin mishaps' => GoneInv')
                    /\ Scrubbed' /\ admin'.call = "delete" => kvBase' = 0
  BY BackupAdmin DEF UndoInv
<1>0. /\ TypeOK /\ admin \in Call /\ snaps \in [Kinds -> Db \cup {None}]
      /\ "deletion" \in Kinds /\ "checkpoint" \in Kinds
  BY DEF TInv, TypeOK, Kinds
<1>a. Idle.step = "idle" /\ Idle.call = None /\ None # "delete"
  BY DEF Idle
<1>b. "overlap" \notin mishaps /\ gets' = gets /\ mishaps \subseteq mishaps'
  BY DEF AdminStep, Archive, Snapshot, Restore, RestoreNothing, Rollback, WipeTables,
         WipeBase, DropRow, Create, Insert, UpToDate, Run, RunPart, Record, Destroy,
         Forget, Missing, BodyFails, CutShort, history
<1>c. /\ Alone /\ DeletedInv /\ ("cut" \notin mishaps' => GoneInv)
      /\ Scrubbed /\ admin.call = "delete" => kvBase = 0
  BY <1>b DEF UndoInv
<1> USE <1>0, <1>a, <1>b, <1>c
<1>1. ASSUME admin'.call \in {None, admin.call} PROVE Alone'
  BY <1>1 DEF Alone, Requests
<1>2. ASSUME admin' = Idle PROVE Alone' /\ ~(Scrubbed' /\ admin'.call = "delete")
  BY <1>1, <1>2
<1>3. CASE Archive
  <2>1. Alone' /\ (Scrubbed' /\ admin'.call = "delete" => kvBase' = 0)
    BY <1>1, <1>3, GotoEffect DEF Archive, ShapeInv, Scrubbed, cached
  <2>2. DeletedInv'
    BY <1>3, GotoEffect DEF Archive, ShapeInv, DeletedInv, history
  <2>3. "cut" \notin mishaps' => GoneInv'
    BY <1>3, GotoEffect DEF Archive, DeletedInv, GoneInv, Body, cached, history
  <2> QED
    BY <2>1, <2>2, <2>3
<1>4. CASE Snapshot
  <2>1. Alone' /\ (Scrubbed' /\ admin'.call = "delete" => kvBase' = 0)
    BY <1>1, <1>2, <1>4, SnapshotEffect DEF ShapeInv, Scrubbed
  <2>2. DeletedInv'
    BY <1>4, SnapshotEffect DEF ShapeInv, DeletedInv
  <2>3. "cut" \notin mishaps' => GoneInv'
    BY <1>4, SnapshotEffect DEF ShapeInv, DeletedInv, GoneInv, Body
  <2> QED
    BY <2>1, <2>2, <2>3
<1>5. CASE Restore
  BY <1>1, <1>5, GotoEffect DEF Restore, ShapeInv, DeletedInv, GoneInv, Body, Scrubbed, cached
<1>6. CASE RestoreNothing \/ UpToDate
  <2>1. admin.call # "delete" \/ deleted = 0
    BY <1>6 DEF RestoreNothing, UpToDate, NothingToRun, DeletedInv
  <2> QED
    BY <1>2, <1>6, <2>1 DEF RestoreNothing, UpToDate, DeletedInv, GoneInv, Body, cached, history
<1>7. CASE Rollback
  <2>1. admin' = Idle /\ snaps' = snaps /\ db' = snaps["checkpoint"] /\ kvBase' = kvBase
        /\ (deleted' = IF deleted \in db'.inNoco THEN 0 ELSE deleted)
    BY <1>7 DEF Rollback, cached
  <2>2. DeletedInv'
    BY <2>1 DEF DeletedInv
  <2>3. "cut" \notin mishaps' => GoneInv'
    BY <1>7, <2>1 DEF Rollback, GoneInv, Body
  <2> QED
    BY <1>2, <2>1, <2>2, <2>3
<1>8. CASE WipeTables
  BY <1>1, <1>8, GotoEffect DEF WipeTables, DeletedInv, GoneInv, Body, Scrubbed
<1>9. CASE WipeBase
  <2>1. DeletedInv' /\ ("cut" \notin mishaps' => GoneInv')
    BY <1>9, WipeBaseEffect DEF DeletedInv, GoneInv, Body, TypeOK
  <2> QED
    BY <1>1, <1>2, <1>9, <2>1, WipeBaseEffect
<1>10. CASE DropRow
  BY <1>1, <1>10, DropRowEffect DEF ShapeInv, DeletedInv, GoneInv, Body
<1>11. CASE Create
  <2>1. deleted # bases'
    BY <1>11, CreateEffect DEF KnownInv, TypeOK
  <2> QED
    BY <1>1, <1>11, <2>1, CreateEffect DEF ShapeInv, DeletedInv, GoneInv, Body
<1>12. CASE Insert
  BY <1>1, <1>12, InsertEffect DEF ShapeInv, DeletedInv, GoneInv, Body
<1>13. CASE Run \/ RunPart
  BY <1>1, <1>13, RunEffect DEF ShapeInv, DeletedInv, GoneInv, Body
<1>14. CASE Record
  BY <1>1, <1>14, RecordEffect DEF ShapeInv, DeletedInv, GoneInv, Body
<1>15. CASE Destroy
  <2>1. admin.call = "delete" /\ kvBase = 0
    BY <1>15, DestroyEffect DEF ShapeInv, Scrubbed
  <2>2. \A g \in Gets : gets[g].step = "idle"
    BY <2>1 DEF Alone, Requests
  <2>3. admin.base \in snaps["deletion"].inNoco /\ snaps["deletion"] # None
        /\ admin.base \in snaps["checkpoint"].inNoco
    BY <1>15, <2>1, DestroyEffect DEF UndoInv, BackupInv
  <2>4. DeletedInv' /\ GoneInv'
    BY <1>15, <2>1, <2>2, <2>3, DestroyEffect DEF DeletedInv, GoneInv
  <2> QED
    BY <1>1, <1>15, <2>1, <2>4, DestroyEffect
<1>16. CASE Forget
  <2>1. admin.call = "delete"
    BY <1>16, ForgetEffect DEF ShapeInv
  <2>2. DeletedInv'
    BY <1>16, ForgetEffect DEF DeletedInv
  <2>3. "cut" \notin mishaps' => GoneInv'
    BY <1>16, <2>1, ForgetEffect DEF GoneInv, Body
  <2> QED
    BY <1>2, <1>16, <2>2, <2>3, ForgetEffect
<1>17. CASE Missing \/ BodyFails
  <2>1. /\ admin'.step = "rollback" /\ admin'.call = admin.call
        /\ UNCHANGED <<db, snaps, kvBase, deleted, mishaps>> /\ admin.step \in Body
    BY <1>17, GotoEffect DEF Missing, BodyFails, cached, history, Body, NothingToRun
  <2> QED
    BY <1>1, <2>1 DEF DeletedInv, GoneInv, Scrubbed
<1>18. CASE CutShort
  <2>1. admin' = Idle /\ UNCHANGED <<db, snaps, kvBase, deleted>>
        /\ ("cut" \notin mishaps' => admin.step \notin {"forget", "rollback"})
    BY <1>18 DEF CutShort, cached
  <2>2. "cut" \notin mishaps' /\ deleted # 0 => admin.call # "delete"
    BY <2>1 DEF DeletedInv
  <2>3. DeletedInv' /\ ("cut" \notin mishaps' => GoneInv')
    BY <2>1, <2>2 DEF DeletedInv, GoneInv, Body
  <2> QED
    BY <1>2, <2>1, <2>3
<1> QED
  BY <1>3, <1>4, <1>5, <1>6, <1>7, <1>8, <1>9, <1>10, <1>11, <1>12, <1>13, <1>14, <1>15,
     <1>16, <1>17, <1>18 DEF AdminStep

\* A request only takes up IDs that are cached or in use.
LEMMA UndoGet == TInv /\ ShapeInv /\ UndoInv /\ (\E g \in Gets : Get(g)) => UndoInv'
<1> SUFFICES ASSUME TInv, ShapeInv, UndoInv, NEW g \in Gets, Get(g) PROVE UndoInv'
  OBVIOUS
<1>0. gets \in [Gets -> Request]
  BY DEF TInv, TypeOK
<1>1. UNCHANGED <<db, snaps, admin, deleted>>
  BY
     DEF Get, GetStart, GetDb, GetPut, GetTables, GetList, GetPutTables, GetFails,
         history
<1>2. BackupInv'
  BY <1>1, BackupKept DEF UndoInv
<1> SUFFICES ASSUME "overlap" \notin mishaps'
             PROVE  /\ Alone' /\ DeletedInv' /\ ("cut" \notin mishaps' => GoneInv')
                    /\ Scrubbed' /\ admin'.call = "delete" => kvBase' = 0
  BY <1>2 DEF UndoInv
<1>3. "overlap" \notin mishaps /\ admin.call \in {None, "backup"}
  BY <1>0
     DEF Get, GetStart, GetDb, GetPut, GetTables, GetList, GetPutTables, GetFails,
         Is,
              history, UndoInv, Alone, Requests
<1>4. Alone' /\ admin'.call # "delete"
  BY <1>1, <1>3 DEF Alone
<1>c. DeletedInv'
  BY <1>1, <1>3 DEF UndoInv, DeletedInv
<1> SUFFICES ASSUME "cut" \notin mishaps' PROVE GoneInv'
  BY <1>4, <1>c
<1>d. "cut" \notin mishaps
  BY DEF Get, GetStart, GetDb, GetPut, GetTables, GetList, GetPutTables, GetFails, history
<1>5. ASSUME NEW r, Becomes(g, r),
             deleted # 0 => kvBase' # deleted /\ (r.step # "idle" => deleted # r.base)
      PROVE  GoneInv'
  BY <1>0, <1>1, <1>3, <1>5, <1>d DEF UndoInv, GoneInv, Becomes
<1>6. /\ deleted # 0 => kvBase # deleted /\ deleted \notin db.rows
      /\ deleted # 0 /\ gets[g].step # "idle" => deleted # gets[g].base
  BY <1>3, <1>d DEF UndoInv, GoneInv
<1>7. NoRequest.step = "idle"
  BY DEF NoRequest
<1>8. db.rows # {} => Newest(db.rows) \in db.rows
  BY NewestIsOne DEF TInv, TypeOK, Db
<1>9. CASE GetStart(g)
  <2>1. PICK s : Becomes(g, [step |-> s, base |-> kvBase, pages |-> 0])
    BY <1>9 DEF GetStart
  <2> QED
    BY <1>5, <1>6, <1>9, <2>1 DEF GetStart, cached
<1>10. CASE GetDb(g)
  <2>1. PICK r : Becomes(g, r) /\ r = IF db.rows = {} THEN NoRequest
                  ELSE [step |-> "put", base |-> Newest(db.rows), pages |-> 0]
    BY <1>10 DEF GetDb
  <2> QED
    BY <1>5, <1>6, <1>7, <1>8, <1>10, <2>1 DEF GetDb, cached
<1>11. CASE GetPut(g) \/ GetTables(g)
  <2>1. PICK r : \/ Becomes(g, r) /\ r = NoRequest
                 \/ \E s : Becomes(g, r) /\ r = [gets[g] EXCEPT !.step = s]
    BY <1>11 DEF GetPut, GetTables
  <2>2. r.step = "idle" \/ r.base = gets[g].base
    BY <1>0, <1>7, <2>1 DEF Request
  <2>3. gets[g].step # "idle" /\ kvBase' \in {kvBase, gets[g].base}
    BY <1>11 DEF GetPut, GetTables, Is, cached
  <2> QED
    BY <1>5, <1>6, <2>1, <2>2, <2>3
<1>12. CASE GetList(g)
  <2>1. PICK r \in {NoRequest, [step |-> "putTables", base |-> gets[g].base,
                               pages |-> db.pages[gets[g].base]]} : Becomes(g, r)
    BY <1>12 DEF GetList
  <2> QED
    BY <1>5, <1>6, <1>7, <1>12, <2>1 DEF GetList, Is, cached
<1>13. CASE GetPutTables(g) \/ GetFails(g)
  BY <1>5, <1>6, <1>7, <1>13 DEF GetPutTables, GetFails, cached
<1> QED
  BY <1>9, <1>10, <1>11, <1>12, <1>13 DEF Get

LEMMA UndoStep == TInv /\ ShapeInv /\ KnownInv /\ UndoInv /\ [Next]_vars => UndoInv'
<1> SUFFICES ASSUME TInv, ShapeInv, KnownInv, UndoInv, [Next]_vars PROVE UndoInv'
  OBVIOUS
<1>1. CASE UNCHANGED vars
  BY <1>1
     DEF vars, cached, history, UndoInv, BackupInv, DeletedInv, GoneInv, Alone, Requests,
         Scrubbed
<1>2. ASSUME NEW b \in Bases, DashboardDelete(b) PROVE UndoInv'
  BY <1>2, DashboardEffect, BackupKept
     DEF TInv, UndoInv, DeletedInv, GoneInv, Alone, Requests, Scrubbed
<1> QED
  BY <1>1, <1>2, UndoStart, UndoAdmin, UndoGet DEF Next

-----------------------------------------------------------------------------

LEMMA CachesInvariant == Spec => [](TInv /\ CInv)
<1>1. TInv /\ CInv /\ [Next]_vars => CInv'
  BY ShapeStep, KnownStep, CacheStep, UndoStep DEF CInv
<1> QED
  BY <1>1, TypeInit, TypeStep, CachesInit, PTL DEF Spec

\* With any number of bases, calls and requests, and whatever fails: between
\* calls the cached IDs are those of the current base, unless a request has
\* overlapped a call or a restore was cut short.
THEOREM CachedIdsMatch == Spec => []CacheMatches
  BY CachesInvariant, CachesMatch, PTL

\* With any number of bases, calls and requests: from the moment NocoDB has deleted
\* a base it is in the backup made of it, until it is rolled back or restored or
\* another deletion begins; that of what is left of the same base, too, counts as
\* another once a call was cut short inside with_rollback.
THEOREM DeletionsCanBeUndone == Spec => []DeletionUndoable
  BY CachesInvariant, CachesMatch, PTL

-----------------------------------------------------------------------------
(* What the calls have done since the checkpoint and their backups.          *)

\* A database has the base of another one at the version recorded there ...
Kept(d, c) ==
    /\ d.rows = c.rows
    /\ \A b \in d.rows : /\ d.recorded[b] = c.recorded[b]
                         /\ b \in d.inNoco => b \in c.inNoco

\* ... and with the same schema, and lost it only to the dashboard ...
Alike(d, c) ==
    /\ Kept(d, c)
    /\ \A b \in d.rows : /\ d.schema[b] = c.schema[b]
                         /\ b \in c.inNoco /\ b \notin d.inNoco => "dashboard" \in Faults

\* ... or has brought it forward.
Follows(d, c) ==
    /\ d.rows = c.rows
    /\ \A b \in d.rows : /\ c.recorded[b] <= d.recorded[b]
                         /\ b \in d.inNoco => b \in c.inNoco

\* The database is one step of the call away from the checkpoint.
CheckpointInv ==
    /\ admin.step \in Body \cup {"rollback"} =>
         LET c == snaps["checkpoint"] IN
         /\ Kept(db, c)
         /\ \A b \in db.rows : db.schema[b] \in {c.schema[b], c.schema[b] + 1}
    /\ admin.step \in {"create", "insert", "run", "destroy"} =>
         Alike(db, snaps["checkpoint"])
    /\ admin.step = "record" =>
         LET c == snaps["checkpoint"] IN
         /\ admin.base \in c.inNoco
         /\ admin.version = c.schema[admin.base]
         /\ admin.version = c.recorded[admin.base]
         /\ admin.version < Latest
         /\ db.schema[admin.base] = admin.version + 1
    /\ admin.step \in {"insert", "record"} =>
         admin.base \in db.inNoco \/ "dashboard" \in Faults
    /\ admin.step = "forget" => admin.base \in snaps["checkpoint"].inNoco

\* delete_base has a backup of what it deletes, from when it began; it is at the
\* checkpoint, or about to take it.
DeletionInv ==
    /\ (/\ admin.call = "delete"
        /\ \/ admin.step \in {"wipeTables", "wipeBase"}
           \/ admin.step \in {"archive", "snapshot"} /\ admin.kind = "checkpoint")
       => snaps["deletion"] # None /\ Alike(db, snaps["deletion"])
    /\ admin.step \in {"destroy", "forget"} =>
         snaps["deletion"] # None /\ Alike(snaps["checkpoint"], snaps["deletion"])

\* The migrator has a backup of the base from before its first migration.
BackupOfMigrated ==
    /\ (/\ admin.call # "delete" /\ admin.base # 0
        /\ admin.step \in {"archive", "snapshot"} /\ admin.kind = "checkpoint")
       => snaps["migration"] # None /\ Follows(db, snaps["migration"])
    /\ admin.step \in {"run", "record"} =>
         snaps["migration"] # None /\ Follows(snaps["checkpoint"], snaps["migration"])

\* No snapshot has the base that is about to get its row.
NewToSnapshots ==
    admin.step = "insert" =>
        \A k \in Kinds : snaps[k] # None => admin.base \notin snaps[k].rows

TransactInv == CheckpointInv /\ DeletionInv /\ BackupOfMigrated /\ NewToSnapshots

LEMMA Reflexive ==
    ASSUME NEW d \in Db
    PROVE  Kept(d, d) /\ Alike(d, d) /\ Follows(d, d)
<1>1. \A b \in d.rows : d.recorded[b] \in Nat
  BY DEF Db
<1> QED
  BY <1>1 DEF Kept, Alike, Follows

\* Steps after which the invariant says nothing.
LEMMA NothingClaimed ==
    ASSUME \/ admin'.step \in {"idle", "restore", "dropRow"}
           \/ admin'.step \in {"wipeTables", "wipeBase"} /\ admin'.call # "delete"
           \/ admin'.step \in {"archive", "snapshot"} /\ admin'.kind # "checkpoint"
           \/ admin'.step = "archive" /\ admin'.base = 0 /\ admin'.call # "delete"
    PROVE  TransactInv'
BY DEF TransactInv, CheckpointInv, DeletionInv, BackupOfMigrated, NewToSnapshots, Body

LEMMA TransactStart == TInv /\ StartCall => TransactInv'
<1> SUFFICES ASSUME TInv, StartCall PROVE TransactInv'
  OBVIOUS
<1>1. ASSUME NEW c, NEW s, NEW k, NEW o, NEW b, NEW v, admin' = Started(c, s, k, o, b, v),
             \/ s = "wipeTables" /\ c # "delete"
             \/ s = "archive" /\ (k # "checkpoint" \/ (b = 0 /\ c # "delete"))
      PROVE  TransactInv'
  <2>1. admin'.call = c /\ admin'.step = s /\ admin'.kind = k /\ admin'.base = b
    BY <1>1 DEF Started
  <2> QED
    BY <1>1, <2>1, NothingClaimed
<1>2. CASE StartCreate
  <2>1. db.rows = {} => Newest(db.rows) = 0
    BY NewestOfNone
  <2> QED
    BY <1>1, <1>2, <2>1, BeganCreate
<1>3. CASE StartDelete
  <2>1. PICK b \in Bases : admin' = Started("delete", "archive", "deletion", "checkpoint", b, 0)
    BY <1>3, BeganDelete
  <2>2. admin'.step = "archive" /\ admin'.kind = "deletion"
    BY <2>1 DEF Started
  <2> QED
    BY <2>2, NothingClaimed
<1>4. CASE StartMigrate
  BY <1>1, <1>4, BeganMigrate
<1>5. CASE StartBackup
  BY <1>1, <1>5, BeganBackup
<1>6. ASSUME NEW k \in Kinds \ {"checkpoint"}, StartRestore(k) PROVE TransactInv'
  BY <1>1, <1>6, BeganRestore
<1>7. CASE StartWipe
  BY <1>1, <1>7, BeganWipe
<1> QED
  BY <1>2, <1>3, <1>4, <1>5, <1>6, <1>7 DEF StartCall

LEMMA TransactArchive ==
    TInv /\ TransactInv /\ Archive => TransactInv'
<1> SUFFICES ASSUME TInv, TransactInv, Archive PROVE TransactInv'
  OBVIOUS
<1>1. /\ admin.step = "archive" /\ admin'.step = "snapshot"
      /\ admin'.kind = admin.kind /\ admin'.call = admin.call /\ admin'.base = admin.base
      /\ db' = db /\ snaps' = [k \in Kinds |-> IF k = admin.kind THEN None ELSE snaps[k]]
  BY GotoEffect DEF TInv, Archive
<1>2. CASE admin.kind # "checkpoint"
  BY <1>1, <1>2, NothingClaimed
<1>3. CASE admin.kind = "checkpoint"
  <2>1. snaps'["deletion"] = snaps["deletion"] /\ snaps'["migration"] = snaps["migration"]
    BY <1>1, <1>3 DEF Kinds
  <2>2. CheckpointInv' /\ NewToSnapshots'
    BY <1>1 DEF CheckpointInv, NewToSnapshots, Body
  <2>3. DeletionInv'
    BY <1>1, <1>3, <2>1 DEF TransactInv, DeletionInv
  <2>4. BackupOfMigrated'
    BY <1>1, <1>3, <2>1 DEF TransactInv, BackupOfMigrated
  <2> QED
    BY <2>2, <2>3, <2>4 DEF TransactInv
<1> QED
  BY <1>2, <1>3

LEMMA TransactSnapshot ==
    TInv /\ OrderInv /\ ShapeInv /\ TransactInv /\ Snapshot => TransactInv'
<1> SUFFICES ASSUME TInv, OrderInv, ShapeInv, TransactInv, Snapshot PROVE TransactInv'
  OBVIOUS
<1>1. TypeOK /\ db \in Db
  BY DEF TInv, TypeOK
<1>2. /\ Kept(db, db) /\ Alike(db, db) /\ Follows(db, db)
      /\ \A b \in db.rows : db.schema[b] \in {db.schema[b], db.schema[b] + 1}
  BY <1>1, Reflexive
<1>3. admin.step = "snapshot" /\ db' = db
      /\ snaps' = [k \in Kinds |-> IF k = admin.kind THEN db ELSE snaps[k]]
  BY <1>1, SnapshotEffect
<1>4. CASE admin.kind \in {"deployment", "manual"}
  <2>1. admin'.step \in {"idle", "restore"}
    BY <1>1, <1>4, SnapshotEffect, IdleType
  <2> QED
    BY <2>1, NothingClaimed
<1>5. CASE admin.kind = "deletion"
  <2>1. /\ admin'.step = "wipeTables" /\ admin'.kind = "deletion"
        /\ admin'.call = admin.call /\ admin'.base = admin.base
    BY <1>1, <1>5, SnapshotEffect
  <2>2. snaps'["deletion"] = db /\ db # None
    BY <1>1, <1>3, <1>5 DEF Kinds
  <2> QED
    BY <1>2, <1>3, <2>1, <2>2
       DEF TransactInv, CheckpointInv, DeletionInv, BackupOfMigrated, NewToSnapshots, Body
<1>6. CASE admin.kind = "migration"
  <2>1. /\ admin'.step = "archive" /\ admin'.kind = "checkpoint"
        /\ admin'.call = admin.call /\ admin'.base = admin.base
    BY <1>1, <1>6, SnapshotEffect
  <2>2. snaps'["migration"] = db /\ db # None /\ admin.call # "delete"
    BY <1>1, <1>3, <1>6 DEF Kinds, ShapeInv
  <2> QED
    BY <1>2, <1>3, <2>1, <2>2
       DEF TransactInv, CheckpointInv, DeletionInv, BackupOfMigrated, NewToSnapshots, Body
<1>7. CASE admin.kind = "checkpoint"
  <2>1. /\ admin'.step = IF admin.call = "delete" THEN "destroy"
                         ELSE IF admin.base = 0 THEN "create" ELSE "run"
        /\ admin'.call = admin.call /\ admin'.base = admin.base
    BY <1>1, <1>7, SnapshotEffect
  <2>2. /\ snaps'["checkpoint"] = db
        /\ snaps'["deletion"] = snaps["deletion"] /\ snaps'["migration"] = snaps["migration"]
    BY <1>3, <1>7 DEF Kinds
  <2>3. CheckpointInv'
    BY <1>2, <1>3, <2>1, <2>2 DEF CheckpointInv
  <2>4. DeletionInv'
    BY <1>3, <1>7, <2>1, <2>2 DEF TransactInv, DeletionInv
  <2>5. BackupOfMigrated'
    BY <1>3, <1>7, <2>1, <2>2 DEF TransactInv, BackupOfMigrated
  <2>6. NewToSnapshots'
    BY <2>1 DEF NewToSnapshots
  <2> QED
    BY <2>3, <2>4, <2>5, <2>6 DEF TransactInv
<1> QED
  BY <1>1, <1>4, <1>5, <1>6, <1>7 DEF TypeOK, Call, Kinds

\* Restores and the deletion of cached IDs.
LEMMA TransactWipe ==
    TInv /\ ShapeInv /\ TransactInv
      /\ (Restore \/ RestoreNothing \/ Rollback \/ WipeTables \/ WipeBase \/ DropRow)
      => TransactInv'
<1> SUFFICES ASSUME TInv, ShapeInv, TransactInv,
                    Restore \/ RestoreNothing \/ Rollback \/ WipeTables \/ WipeBase \/ DropRow
             PROVE  TransactInv'
  OBVIOUS
<1>1. TypeOK
  BY DEF TInv
<1>2. CASE Restore
  <2>1. admin'.step = "wipeTables" /\ admin'.call = "restore"
    BY <1>1, <1>2, GotoEffect DEF Restore, ShapeInv
  <2> QED
    BY <2>1, NothingClaimed
<1>3. CASE RestoreNothing \/ Rollback
  BY <1>3, IdleType, NothingClaimed DEF RestoreNothing, Rollback
<1>4. CASE WipeTables
  <2>1. /\ admin.step = "wipeTables" /\ admin'.step = "wipeBase"
        /\ admin'.call = admin.call /\ db' = db /\ snaps' = snaps
    BY <1>1, <1>4, GotoEffect DEF WipeTables
  <2> QED
    BY <2>1 DEF TransactInv, CheckpointInv, DeletionInv, BackupOfMigrated, NewToSnapshots, Body
<1>5. CASE WipeBase
  <2>1. CASE admin.call = "delete"
    <3>1. /\ admin.step = "wipeBase" /\ admin'.step = "archive" /\ admin'.kind = "checkpoint"
          /\ admin'.call = admin.call /\ db' = db /\ snaps' = snaps
      BY <1>1, <1>5, <2>1, WipeBaseEffect, IdleType
    <3> QED
      BY <2>1, <3>1
         DEF TransactInv, CheckpointInv, DeletionInv, BackupOfMigrated, NewToSnapshots, Body
  <2>2. CASE admin.call # "delete"
    <3>1. admin'.step \in {"idle", "dropRow"}
      BY <1>1, <1>5, <2>2, WipeBaseEffect, IdleType
    <3> QED
      BY <3>1, NothingClaimed
  <2> QED
    BY <2>1, <2>2
<1>6. CASE DropRow
  <2>1. /\ admin'.step = "archive" /\ admin'.base = 0 /\ admin'.call # "delete"
    BY <1>1, <1>6, DropRowEffect DEF ShapeInv
  <2> QED
    BY <2>1, NothingClaimed
<1> QED
  BY <1>2, <1>3, <1>4, <1>5, <1>6

LEMMA TransactNew ==
    TInv /\ OrderInv /\ ShapeInv /\ KnownInv /\ TransactInv /\ (Create \/ Insert) => TransactInv'
<1> SUFFICES ASSUME TInv, OrderInv, ShapeInv, KnownInv, TransactInv, Create \/ Insert
             PROVE  TransactInv'
  OBVIOUS
<1>1. TypeOK
  BY DEF TInv
<1>2. CASE Create
  <2>1. /\ admin.step = "create" /\ admin'.step = "insert" /\ admin'.base = bases + 1
        /\ db'.rows = db.rows /\ snaps' = snaps /\ bases \in Nat
        /\ admin'.base \in db'.inNoco
    BY <1>1, <1>2, CreateEffect DEF TypeOK
  <2>2. db.rows = {}
    BY <2>1 DEF OrderInv, CreateInv
  <2>3. db.rows = snaps["checkpoint"].rows
    BY <2>1 DEF TransactInv, CheckpointInv, Body, Kept
  <2>4. CheckpointInv'
    BY <2>1, <2>2, <2>3 DEF CheckpointInv, Kept, Alike
  <2>5. NewToSnapshots'
    <3>1. \A k \in Kinds : snaps[k] # None => snaps[k].rows \subseteq 1..bases
      BY DEF KnownInv, Known
    <3>2. bases + 1 \notin 1..bases
      BY <2>1
    <3> QED
      BY <2>1, <3>1, <3>2 DEF NewToSnapshots
  <2> QED
    BY <2>1, <2>4, <2>5 DEF TransactInv, DeletionInv, BackupOfMigrated
<1>3. CASE Insert
  <2>1. admin'.step = "archive" /\ admin'.kind = "migration"
    BY <1>1, <1>3, InsertEffect
  <2> QED
    BY <2>1, NothingClaimed
<1> QED
  BY <1>2, <1>3

LEMMA TransactMigrate ==
    TInv /\ OrderInv /\ ShapeInv /\ TransactInv /\ (UpToDate \/ Run \/ RunPart \/ Record)
      => TransactInv'
<1> SUFFICES ASSUME TInv, OrderInv, ShapeInv, TransactInv, UpToDate \/ Run \/ RunPart \/ Record
             PROVE  TransactInv'
  OBVIOUS
<1> DEFINE c == snaps["checkpoint"]  m == snaps["migration"]
<1>1. TypeOK /\ db \in Db /\ admin \in Call
  BY DEF TInv, TypeOK
<1>2. CASE UpToDate
  BY <1>2, IdleType, NothingClaimed DEF UpToDate
<1>3. CASE Run \/ RunPart
  <2>1. /\ admin.step = "run" /\ admin'.step \in {"record", "rollback"}
        /\ admin'.version = admin.version /\ admin.base \in db.inNoco
        /\ db'.recorded = db.recorded
        /\ \A b \in Bases : db'.schema[b] =
             IF b = admin.base THEN admin.version + 1 ELSE db.schema[b]
        /\ admin'.call = admin.call /\ admin'.base = admin.base
        /\ db'.rows = db.rows /\ db'.inNoco = db.inNoco /\ snaps' = snaps
    BY <1>1, <1>3, RunEffect
  <2>2. /\ admin.version < Latest
        /\ admin.base \in db.rows /\ admin.base \in Bases /\ db.rows \subseteq Bases
        /\ admin.version = db.recorded[admin.base] /\ admin.version = db.schema[admin.base]
    BY <1>1, <1>3, <2>1 DEF Run, RunPart, OrderInv, InOrder, MigrateInv, Db
  <2>3. Alike(db, c) /\ m # None /\ Follows(c, m)
    BY <2>1 DEF TransactInv, CheckpointInv, BackupOfMigrated
  <2>4. Kept(db', c)
    BY <2>1, <2>3 DEF Alike, Kept
  <2>5. \A b \in db'.rows : db'.schema[b] \in {c.schema[b], c.schema[b] + 1}
    BY <2>1, <2>2, <2>3 DEF Alike
  <2>6. /\ admin.base \in c.inNoco
        /\ admin.version = c.schema[admin.base]
        /\ admin.version = c.recorded[admin.base]
        /\ db'.schema[admin.base] = admin.version + 1
    BY <2>1, <2>2, <2>3 DEF Alike, Kept
  <2>7. CheckpointInv'
    BY <2>1, <2>2, <2>4, <2>5, <2>6 DEF CheckpointInv
  <2>8. DeletionInv' /\ NewToSnapshots'
    BY <2>1 DEF DeletionInv, NewToSnapshots
  <2>9. BackupOfMigrated'
    BY <2>1, <2>3 DEF BackupOfMigrated
  <2> QED
    BY <2>7, <2>8, <2>9 DEF TransactInv
<1>4. CASE Record
  <2>1. /\ admin.step = "record" /\ admin'.step = "archive"
        /\ admin'.kind = admin.kind /\ admin'.call = admin.call /\ admin'.base = admin.base
        /\ db'.rows = db.rows /\ db'.inNoco = db.inNoco /\ snaps' = snaps
        /\ \A b \in Bases : db'.recorded[b] =
             IF b = admin.base /\ b \in db.rows THEN admin.version + 1 ELSE db.recorded[b]
    BY <1>1, <1>4, RecordEffect
  <2>2. admin.kind = "checkpoint" /\ admin.call # "delete" /\ admin.base # 0
    BY <2>1 DEF ShapeInv, Body
  <2>3. /\ Kept(db, c) /\ m # None /\ Follows(c, m) /\ admin.version = c.recorded[admin.base]
        /\ c \in Db /\ m \in Db
    BY <1>1, <2>1 DEF TransactInv, CheckpointInv, BackupOfMigrated, Body, TypeOK, Kinds,
                      TInv, PointInv
  <2>4. Follows(db', m)
    <3>1. db'.rows = m.rows /\ db.rows \subseteq Bases /\ admin.version \in Nat
      BY <1>1, <2>1, <2>3 DEF Kept, Follows, Db, Call
    <3>2. ASSUME NEW b \in db.rows
          PROVE  m.recorded[b] <= db'.recorded[b] /\ (b \in db'.inNoco => b \in m.inNoco)
      <4>1. /\ m.recorded[b] <= c.recorded[b] /\ b \in Bases
            /\ m.recorded[b] \in Nat /\ c.recorded[b] \in Nat
            /\ c.recorded[b] = db.recorded[b]
            /\ b \in db.inNoco => b \in m.inNoco
        BY <2>3, <3>1 DEF Kept, Follows, Db
      <4>2. db'.recorded[b] = db.recorded[b] \/ db'.recorded[b] = c.recorded[b] + 1
        BY <2>1, <2>3, <4>1
      <4>3. b \in db'.inNoco => b \in m.inNoco
        BY <2>1, <4>1
      <4> QED
        BY <4>1, <4>2, <4>3
    <3> QED
      BY <2>1, <3>1, <3>2 DEF Follows
  <2> QED
    BY <2>1, <2>2, <2>3, <2>4
       DEF TransactInv, CheckpointInv, DeletionInv, BackupOfMigrated, NewToSnapshots, Body
<1> QED
  BY <1>2, <1>3, <1>4

LEMMA TransactDelete ==
    TInv /\ OrderInv /\ ShapeInv /\ TransactInv /\ (Destroy \/ Forget) => TransactInv'
<1> SUFFICES ASSUME TInv, OrderInv, ShapeInv, TransactInv, Destroy \/ Forget PROVE TransactInv'
  OBVIOUS
<1> DEFINE c == snaps["checkpoint"]
<1>1. TypeOK
  BY DEF TInv
<1>2. CASE Destroy
  <2>1. /\ admin.step = "destroy" /\ admin'.step = "forget" /\ admin'.base = admin.base
        /\ admin.base \in db.inNoco /\ db'.inNoco = db.inNoco \ {admin.base}
        /\ db'.rows = db.rows /\ db'.schema = db.schema /\ db'.recorded = db.recorded
        /\ snaps' = snaps
    BY <1>1, <1>2, DestroyEffect
  <2>2. admin.base \in db.rows /\ Alike(db, c)
    BY <2>1 DEF OrderInv, InOrder, TransactInv, CheckpointInv
  <2>3. /\ Kept(db', c) /\ admin.base \in c.inNoco
        /\ \A b \in db'.rows : db'.schema[b] \in {c.schema[b], c.schema[b] + 1}
    BY <2>1, <2>2 DEF Alike, Kept
  <2>4. CheckpointInv'
    BY <2>1, <2>3 DEF CheckpointInv
  <2> QED
    BY <2>1, <2>4 DEF TransactInv, DeletionInv, BackupOfMigrated, NewToSnapshots
<1>3. CASE Forget
  BY <1>3, IdleType, NothingClaimed DEF Forget
<1> QED
  BY <1>2, <1>3

LEMMA TransactFault ==
    TInv /\ TransactInv
      /\ (Missing \/ BodyFails \/ CutShort \/ \E b \in Bases : DashboardDelete(b))
      => TransactInv'
<1> SUFFICES ASSUME TInv, TransactInv,
                    Missing \/ BodyFails \/ CutShort \/ \E b \in Bases : DashboardDelete(b)
             PROVE  TransactInv'
  OBVIOUS
<1>1. TypeOK
  BY DEF TInv
<1>2. CASE Missing \/ BodyFails
  <2>1. admin.step \in Body /\ admin'.step = "rollback" /\ db' = db /\ snaps' = snaps
    BY <1>1, <1>2, GotoEffect DEF Missing, BodyFails, Body
  <2> QED
    BY <2>1 DEF TransactInv, CheckpointInv, DeletionInv, BackupOfMigrated, NewToSnapshots
<1>3. CASE CutShort
  BY <1>3, IdleType, NothingClaimed DEF CutShort
<1>4. ASSUME NEW b \in Bases, DashboardDelete(b) PROVE TransactInv'
  <2>1. /\ db'.inNoco = db.inNoco \ {b} /\ "dashboard" \in Faults
        /\ db'.rows = db.rows /\ db'.schema = db.schema /\ db'.recorded = db.recorded
        /\ admin' = admin /\ snaps' = snaps
    BY <1>1, <1>4, DashboardEffect DEF DashboardDelete
  <2>2. ASSUME NEW d
        PROVE  /\ Kept(db, d) => Kept(db', d)
               /\ Alike(db, d) => Alike(db', d)
               /\ Follows(db, d) => Follows(db', d)
    BY <2>1 DEF Kept, Alike, Follows
  <2>3. CheckpointInv'
    BY <2>1, <2>2 DEF TransactInv, CheckpointInv
  <2>4. DeletionInv' /\ BackupOfMigrated' /\ NewToSnapshots'
    BY <2>1, <2>2 DEF TransactInv, DeletionInv, BackupOfMigrated, NewToSnapshots
  <2> QED
    BY <2>3, <2>4 DEF TransactInv
<1> QED
  BY <1>2, <1>3, <1>4

LEMMA TransactKept ==
    ASSUME TransactInv, UNCHANGED <<db, snaps, admin>>
    PROVE  TransactInv'
BY DEF TransactInv, CheckpointInv, DeletionInv, BackupOfMigrated, NewToSnapshots

LEMMA TransactStep ==
    /\ TInv /\ OrderInv /\ ShapeInv /\ KnownInv /\ TransactInv /\ [Next]_vars
    => TransactInv'
<1> SUFFICES ASSUME TInv, OrderInv, ShapeInv, KnownInv, TransactInv, [Next]_vars
             PROVE  TransactInv'
  OBVIOUS
<1>1. CASE UNCHANGED vars
  BY <1>1, TransactKept DEF vars
<1>2. CASE StartCall
  BY <1>2, TransactStart
<1>3. CASE AdminStep
  BY <1>3, TransactArchive, TransactSnapshot, TransactWipe, TransactNew, TransactMigrate,
     TransactDelete, TransactFault DEF AdminStep
<1>4. CASE \E b \in Bases : DashboardDelete(b)
  BY <1>4, TransactFault
<1>5. ASSUME NEW g \in Gets, Get(g) PROVE TransactInv'
  <2>1. UNCHANGED <<db, snaps, admin>>
    BY <1>5 DEF Get, GetStart, GetDb, GetPut, GetTables, GetList, GetPutTables, GetFails
  <2> QED
    BY <2>1, TransactKept
<1> QED
  BY <1>1, <1>2, <1>3, <1>4, <1>5 DEF Next

\* What a restore goes back to is never the checkpoint of an earlier call.
SourceInv == admin.call = "restore" => admin.source # "checkpoint"

LEMMA SourceStep == TInv /\ ShapeInv /\ SourceInv /\ [Next]_vars => SourceInv'
<1> SUFFICES ASSUME TInv, ShapeInv, SourceInv, [Next]_vars PROVE SourceInv'
  OBVIOUS
<1>1. TypeOK /\ admin \in Call
  BY DEF TInv, TypeOK
<1>2. Idle.call # "restore"
  BY DEF Idle
<1>3. ASSUME NEW c, NEW s, NEW k, NEW o, NEW b, NEW v, admin' = Started(c, s, k, o, b, v),
             c = "restore" => o # "checkpoint"
      PROVE  SourceInv'
  BY <1>3 DEF Started, SourceInv
<1>4. ASSUME admin'.call = admin.call, admin'.source = admin.source PROVE SourceInv'
  BY <1>4 DEF SourceInv
<1>5. CASE StartCall
  <2>1. CASE StartCreate
    BY <1>3, <2>1, BeganCreate
  <2>2. CASE StartDelete
    <3>1. PICK b \in Bases :
            admin' = Started("delete", "archive", "deletion", "checkpoint", b, 0)
      BY <2>2, BeganDelete
    <3>2. admin'.call = "delete"
      BY <3>1 DEF Started
    <3> QED
      BY <3>2 DEF SourceInv
  <2>3. CASE StartMigrate
    BY <1>3, <2>3, BeganMigrate
  <2>4. CASE StartBackup
    BY <1>3, <2>4, BeganBackup
  <2>5. ASSUME NEW k \in Kinds \ {"checkpoint"}, StartRestore(k) PROVE SourceInv'
    BY <1>3, <2>5, BeganRestore
  <2>6. CASE StartWipe
    BY <1>3, <2>6, BeganWipe
  <2> QED
    BY <1>5, <2>1, <2>2, <2>3, <2>4, <2>5, <2>6 DEF StartCall
<1>6. CASE Archive \/ Restore \/ WipeTables \/ Missing \/ BodyFails \/ Destroy
  <2>1. admin'.call = admin.call /\ admin'.source = admin.source
    BY <1>1, <1>6, GotoEffect DEF Archive, Restore, WipeTables, Missing, BodyFails, Destroy
  <2> QED
    BY <1>4, <2>1
<1>7. CASE RestoreNothing \/ Rollback \/ UpToDate \/ Forget \/ CutShort
  BY <1>2, <1>7 DEF RestoreNothing, Rollback, UpToDate, Forget, CutShort, SourceInv
<1>8. CASE Snapshot
  BY <1>1, <1>2, <1>4, <1>8, SnapshotEffect DEF SourceInv
<1>9. CASE WipeBase
  <2>1. \/ admin' = Idle
        \/ admin'.call \in {"create", "delete"}
    BY <1>1, <1>9, WipeBaseEffect
  <2> QED
    BY <1>2, <2>1 DEF SourceInv
<1>10. CASE DropRow \/ Create \/ Insert \/ Run \/ RunPart \/ Record
  <2>1. admin'.call = admin.call /\ admin.call # "restore"
    BY <1>1, <1>10, DropRowEffect, CreateEffect, InsertEffect, RunEffect, RecordEffect
       DEF ShapeInv
  <2> QED
    BY <2>1 DEF SourceInv
<1>11. CASE UNCHANGED admin
  BY <1>11 DEF SourceInv
<1>12. CASE \E b \in Bases : DashboardDelete(b)
  BY <1>11, <1>12 DEF DashboardDelete
<1>13. ASSUME NEW g \in Gets, Get(g) PROVE SourceInv'
  BY <1>11, <1>13 DEF Get, GetStart, GetDb, GetPut, GetTables, GetList, GetPutTables, GetFails
<1>14. CASE UNCHANGED vars
  BY <1>11, <1>14 DEF vars
<1> QED
  BY <1>5, <1>6, <1>7, <1>8, <1>9, <1>10, <1>12, <1>13, <1>14 DEF Next, AdminStep

\* All that the transactions rest on.
LifeInv ==
    /\ TInv /\ ShapeInv /\ KnownInv /\ SourceInv
    /\ "cut" \notin mishaps => OrderInv /\ TransactInv

LEMMA LifeInit == Init => LifeInv
<1> SUFFICES ASSUME Init PROVE LifeInv
  OBVIOUS
<1>1. admin.step = "idle" /\ admin.call = None
  BY DEF Init, Idle
<1>2. TransactInv
  BY <1>1 DEF TransactInv, CheckpointInv, DeletionInv, BackupOfMigrated, NewToSnapshots, Body
<1>3. SourceInv
  BY <1>1 DEF SourceInv
<1> QED
  BY <1>2, <1>3, TypeInit, OrderInit, CachesInit DEF LifeInv, IInv, CInv

LEMMA LifeStep == LifeInv /\ [Next]_vars => LifeInv'
<1> SUFFICES ASSUME LifeInv, [Next]_vars PROVE LifeInv'
  OBVIOUS
<1>1. TInv' /\ ShapeInv' /\ KnownInv' /\ SourceInv'
  BY TypeStep, ShapeStep, KnownStep, SourceStep DEF LifeInv
<1>2. ASSUME "cut" \notin mishaps' PROVE OrderInv' /\ TransactInv'
  <2>1. "cut" \notin mishaps
    BY <1>2, MishapsStay
  <2> QED
    BY <1>2, <2>1, OrderStep, TransactStep DEF LifeInv, IInv
<1> QED
  BY <1>1, <1>2 DEF LifeInv

-----------------------------------------------------------------------------
(* What is seen of a database.                                               *)

Seen(d, b) == [base |-> b, status |-> IF b \in d.inNoco THEN "live" ELSE "lost",
               schema |-> d.schema[b], recorded |-> d.recorded[b]]

LEMMA ViewIs ==
    ASSUME NEW d \in Db
    PROVE  /\ d.rows = {} => View(d) = NoBase
           /\ d.rows # {} =>
                /\ Newest(d.rows) \in d.rows /\ Newest(d.rows) \in Bases
                /\ View(d) = Seen(d, Newest(d.rows))
           /\ View(d) \in Promise!Base \cup {NoBase}
<1>1. d.rows \in SUBSET Bases
  BY DEF Db
<1>2. CASE d.rows = {}
  BY <1>2 DEF View
<1>3. CASE d.rows # {}
  <2>1. Newest(d.rows) \in d.rows /\ Newest(d.rows) \in Bases
    BY <1>1, <1>3, NewestIsOne
  <2>2. View(d) = Seen(d, Newest(d.rows))
    BY <1>3 DEF View, Seen
  <2>3. Seen(d, Newest(d.rows)) \in Promise!Base
    BY <2>1 DEF Seen, Promise!Base, Db
  <2> QED
    BY <1>3, <2>1, <2>2, <2>3
<1> QED
  BY <1>2, <1>3

LEMMA ViewOfOne ==
    ASSUME NEW d \in Db, NEW b \in Bases, d.rows = {b}
    PROVE  View(d) = Seen(d, b)
BY ViewIs, NewestOfOne

LEMMA NoBaseIs == \A b : b \in Bases => NoBase.base # b /\ NoBase.status # "live"
BY DEF NoBase, Bases

\* A database that is alike shows the same, or a base that was lost.
LEMMA AlikeViews ==
    ASSUME NEW d \in Db, NEW c \in Db, Alike(d, c)
    PROVE  \/ View(d) = View(c)
           \/ /\ "dashboard" \in Faults /\ View(c).status = "live"
              /\ View(d) = [View(c) EXCEPT !.status = "lost"]
<1>1. d.rows = c.rows
  BY DEF Alike, Kept
<1>2. CASE d.rows = {}
  BY <1>1, <1>2, ViewIs
<1>3. CASE d.rows # {}
  <2> DEFINE b == Newest(d.rows)
  <2>1. /\ b \in d.rows /\ View(d) = Seen(d, b) /\ View(c) = Seen(c, b)
    BY <1>1, <1>3, ViewIs
  <2> HIDE DEF b
  <2>2. /\ d.schema[b] = c.schema[b] /\ d.recorded[b] = c.recorded[b]
        /\ b \in d.inNoco => b \in c.inNoco
        /\ b \in c.inNoco /\ b \notin d.inNoco => "dashboard" \in Faults
    BY <2>1 DEF Alike, Kept
  <2>3. CASE b \in c.inNoco /\ b \notin d.inNoco
    <3>1. View(c).status = "live" /\ View(d) = [View(c) EXCEPT !.status = "lost"]
      BY <2>1, <2>2, <2>3 DEF Seen
    <3> QED
      BY <2>2, <2>3, <3>1
  <2>4. CASE ~(b \in c.inNoco /\ b \notin d.inNoco)
    BY <2>1, <2>2, <2>4 DEF Seen
  <2> QED
    BY <2>3, <2>4
<1> QED
  BY <1>2, <1>3

-----------------------------------------------------------------------------
(* Every step is a step of a transaction, or none.                           *)

ByPromise == [Promise!Next]_(Promise!vars)

Committing == admin.step \in Body \cup {"rollback"}

LEMMA CommittedIs ==
    ASSUME TInv
    PROVE  /\ Committing => Committed = snaps["checkpoint"]
           /\ ~Committing => Committed = db
           /\ Committed \in Db
BY DEF Committing, Committed, TInv, PointInv, TypeOK

\* Steps that change no snapshot change nothing that is saved.
LEMMA SavedStays == UNCHANGED snaps => Saved' = Saved
BY DEF Saved

\* Nothing that counts has changed.
LEMMA QuietStep ==
    ASSUME View(Committed)' = View(Committed), Saved' = Saved,
           ("cut" \in mishaps)' = ("cut" \in mishaps)
    PROVE  ByPromise
BY DEF ByPromise, Promise!vars

LEMMA LoseStep ==
    ASSUME "dashboard" \in Faults, View(Committed).status = "live",
           View(Committed)' = [View(Committed) EXCEPT !.status = "lost"], Saved' = Saved,
           ("cut" \in mishaps)' = ("cut" \in mishaps)
    PROVE  ByPromise
BY DEF ByPromise, Promise!Next, Promise!Lose, Promise!Live

\* Once something was left half done.
LEMMA StrayStep ==
    ASSUME TInv, TInv', "cut" \in mishaps, "cut" \in mishaps', Saved' = Saved
    PROVE  ByPromise
<1>1. Committed' \in Db
  BY CommittedIs DEF TInv, PointInv, TypeOK, Committed
<1>2. View(Committed)' \in Promise!Base \cup {NoBase}
  BY <1>1, ViewIs
<1> QED
  BY <1>2 DEF ByPromise, Promise!Next, Promise!Stray

\* Steps of the admin that do not change the database outside with_rollback.
LEMMA SameCommitted ==
    ASSUME Committed' = Committed, snaps' = snaps,
           ("cut" \in mishaps)' = ("cut" \in mishaps)
    PROVE  ByPromise
<1>1. View(Committed)' = View(Committed)
  OBVIOUS
<1> QED
  BY <1>1, SavedStays, QuietStep

LEMMA ArchiveStep == ASSUME TInv, Archive PROVE ByPromise
<1>1. TypeOK
  BY DEF TInv
<1>2. /\ admin.step = "archive" /\ admin'.step = "snapshot" /\ db' = db /\ mishaps' = mishaps
      /\ snaps' = [k \in Kinds |-> IF k = admin.kind THEN None ELSE snaps[k]]
  BY <1>1, GotoEffect DEF Archive, history
<1>3. View(Committed)' = View(Committed)
  <2>1. Committed = db /\ Committed' = db'
    BY <1>2 DEF Committed, Body
  <2> QED
    BY <1>2, <2>1
<1>4. CASE admin.kind \in {"deletion", "deployment", "migration"}
  <2>1. Saved' = [m \in DOMAIN Saved \ {admin.kind} |-> Saved[m]]
    BY <1>2 DEF Saved, Kinds
  <2>2. Promise!Discard(admin.kind)
    BY <1>2, <1>3, <2>1 DEF Promise!Discard
  <2> QED
    BY <1>4, <2>2 DEF ByPromise, Promise!Next
<1>5. CASE admin.kind \notin {"deletion", "deployment", "migration"}
  <2>1. Saved' = Saved
    BY <1>2, <1>5 DEF Saved, Kinds
  <2> QED
    BY <1>2, <1>3, <2>1, QuietStep
<1> QED
  BY <1>4, <1>5

LEMMA SnapshotStep == ASSUME TInv, ShapeInv, Snapshot PROVE ByPromise
<1>1. TypeOK /\ db \in Db /\ db # None
  BY DEF TInv, TypeOK
<1>2. /\ admin.step = "snapshot" /\ db' = db /\ mishaps' = mishaps
      /\ snaps' = [k \in Kinds |-> IF k = admin.kind THEN db ELSE snaps[k]]
  BY <1>1, SnapshotEffect
<1>3. Committed = db
  BY <1>2 DEF Committed, Body
<1>4. Committed' = db
  <2>1. CASE admin'.step \notin Body \cup {"rollback"}
    BY <1>2, <2>1 DEF Committed
  <2>2. CASE admin'.step \in Body \cup {"rollback"}
    <3>1. admin.kind = "checkpoint"
      BY <1>1, <2>2, SnapshotEffect, IdleType DEF Body
    <3>2. snaps'["checkpoint"] = db
      BY <1>2, <3>1 DEF Kinds
    <3> QED
      BY <2>2, <3>2 DEF Committed
  <2> QED
    BY <2>1, <2>2
<1>5. View(Committed)' = View(Committed)
  BY <1>3, <1>4
<1>6. CASE admin.kind \in {"deletion", "deployment", "migration"}
  <2>1. Saved' = [m \in DOMAIN Saved \cup {admin.kind} |->
                    IF m = admin.kind THEN View(db) ELSE Saved[m]]
    BY <1>1, <1>2, <1>6 DEF Saved, Kinds
  <2>2. Promise!Save(admin.kind)
    BY <1>2, <1>3, <1>5, <2>1 DEF Promise!Save
  <2> QED
    BY <1>6, <2>2 DEF ByPromise, Promise!Next
<1>7. CASE admin.kind \notin {"deletion", "deployment", "migration"}
  <2>1. Saved' = Saved
    BY <1>2, <1>7 DEF Saved, Kinds
  <2> QED
    BY <1>2, <1>5, <2>1, QuietStep
<1> QED
  BY <1>6, <1>7

LEMMA RestoreStep ==
    ASSUME LifeInv, Restore
    PROVE  ByPromise
<1>1. TypeOK /\ admin \in Call
  BY DEF LifeInv, TInv, TypeOK
<1>2. /\ admin.step = "restore" /\ snaps[admin.source] # None /\ db' = snaps[admin.source]
      /\ admin'.step = "wipeTables" /\ snaps' = snaps /\ mishaps' = mishaps
  BY <1>1, GotoEffect DEF Restore
<1>3. admin.source \in Kinds \ {"checkpoint"}
  BY <1>1, <1>2 DEF LifeInv, SourceInv, ShapeInv, Call
<1>4. Committed' = snaps[admin.source]
  BY <1>2 DEF Committed, Body
<1>5. admin.source \in DOMAIN Saved /\ Saved[admin.source] = View(snaps[admin.source])
  BY <1>2, <1>3 DEF Saved
<1>6. View(Committed)' = Saved[admin.source]
  BY <1>4, <1>5
<1>7. Promise!Recover(admin.source)
  BY <1>2, <1>6, SavedStays DEF Promise!Recover
<1> QED
  BY <1>5, <1>7 DEF ByPromise, Promise!Next

\* The row of a lost base is dropped.
LEMMA DropRowStep ==
    ASSUME LifeInv, LifeInv', "cut" \notin mishaps, DropRow
    PROVE  ByPromise
<1>1. TypeOK /\ db \in Db /\ db' \in Db
  BY DEF LifeInv, TInv, TypeOK
<1>2. /\ admin.step = "dropRow" /\ admin'.step = "archive"
      /\ db'.rows = db.rows \ {admin.base} /\ snaps' = snaps /\ mishaps' = mishaps
  BY <1>1, DropRowEffect
<1>3. db.rows = {admin.base} /\ admin.base \notin db.inNoco /\ admin.base \in Bases
  BY <1>1, <1>2 DEF LifeInv, OrderInv, CreateInv, ShapeInv, Db
<1>4. Committed = db /\ Committed' = db'
  BY <1>2 DEF Committed, Body
<1>5. View(Committed) = Seen(db, admin.base)
  BY <1>1, <1>3, <1>4, ViewOfOne
<1>6. View(Committed)' = NoBase
  BY <1>1, <1>2, <1>3, <1>4, ViewIs
<1>7. View(Committed) # NoBase /\ View(Committed).status = "lost"
  BY <1>3, <1>5, NoBaseIs DEF Seen
<1>8. Promise!End
  BY <1>2, <1>6, <1>7, SavedStays DEF Promise!End, Promise!Live
<1> QED
  BY <1>8 DEF ByPromise, Promise!Next

\* A base gets its row.
LEMMA InsertStep ==
    ASSUME LifeInv, LifeInv', "cut" \notin mishaps, Insert
    PROVE  ByPromise
<1> DEFINE b == admin.base
           new == [base |-> b, status |-> "live", schema |-> 0, recorded |-> 0]
<1>1. TypeOK /\ db' \in Db /\ snaps \in [Kinds -> Db \cup {None}]
  BY DEF LifeInv, TInv, TypeOK
<1>2. /\ admin.step = "insert" /\ admin'.step = "archive"
      /\ db'.rows = db.rows \cup {b} /\ db'.inNoco = db.inNoco
      /\ db'.schema = db.schema /\ db'.recorded = db.recorded
      /\ snaps' = snaps /\ mishaps' = mishaps
  BY <1>1, InsertEffect DEF Insert, history
<1>3. /\ db.rows = {} /\ db.schema[b] = 0 /\ db.recorded[b] = 0
      /\ b \in db.inNoco \/ "dashboard" \in Faults
  BY <1>2 DEF LifeInv, OrderInv, CreateInv, TransactInv, CheckpointInv
<1>4. b \in Bases
  BY <1>1, <1>2 DEF LifeInv, TInv, PointInv, TypeOK, Bases
<1>5. Committed = snaps["checkpoint"] /\ Committed \in Db /\ Committed' = db'
  BY <1>2, CommittedIs DEF Committing, Committed, Body, LifeInv
<1>6. View(Committed) = NoBase
  <2>1. Committed.rows = {}
    BY <1>2, <1>3, <1>5 DEF LifeInv, TransactInv, CheckpointInv, Kept, Body
  <2> QED
    BY <1>5, <2>1, ViewIs
<1>7. View(Committed)' = Seen(db', b)
  BY <1>1, <1>2, <1>3, <1>4, <1>5, ViewOfOne
<1>8. View(Committed)' \in Promise!Perhaps(new)
  <2>1. CASE b \in db.inNoco
    <3>1. Seen(db', b) = new
      BY <1>2, <1>3, <2>1 DEF Seen
    <3> QED
      BY <1>7, <3>1 DEF Promise!Perhaps
  <2>2. CASE b \notin db.inNoco
    <3>1. Seen(db', b) = [new EXCEPT !.status = "lost"]
      BY <1>2, <1>3, <2>2 DEF Seen
    <3> QED
      BY <1>3, <1>7, <2>2, <3>1 DEF Promise!Perhaps
  <2> QED
    BY <2>1, <2>2
<1>9. \A n \in DOMAIN Saved : Saved[n].base # b
  <2> SUFFICES ASSUME NEW n \in DOMAIN Saved PROVE Saved[n].base # b
    OBVIOUS
  <2>1. /\ n \in Kinds /\ snaps[n] # None /\ snaps[n] \in Db /\ Saved[n] = View(snaps[n])
    BY <1>1 DEF Saved
  <2>2. b \notin snaps[n].rows
    BY <1>2, <2>1 DEF LifeInv, TransactInv, NewToSnapshots
  <2>3. CASE snaps[n].rows = {}
    BY <1>4, <2>1, <2>3, ViewIs, NoBaseIs
  <2>4. CASE snaps[n].rows # {}
    <3>1. Newest(snaps[n].rows) # b /\ Saved[n] = Seen(snaps[n], Newest(snaps[n].rows))
      BY <2>1, <2>2, <2>4, ViewIs
    <3> QED
      BY <3>1 DEF Seen
  <2> QED
    BY <2>3, <2>4
<1> HIDE DEF b
<1>10. Promise!Found
  BY <1>2, <1>4, <1>6, <1>8, <1>9, SavedStays DEF Promise!Found
<1> QED
  BY <1>10 DEF ByPromise, Promise!Next

\* A migration is recorded.
LEMMA RecordStep ==
    ASSUME LifeInv, LifeInv', "cut" \notin mishaps, Record
    PROVE  ByPromise
<1> DEFINE b == admin.base  c == snaps["checkpoint"]  m == snaps["migration"]
           v == admin.version
<1>1. TypeOK /\ db \in Db /\ db' \in Db /\ admin \in Call
  BY DEF LifeInv, TInv, TypeOK
<1>2. /\ admin.step = "record" /\ admin'.step = "archive"
      /\ db'.rows = db.rows /\ db'.inNoco = db.inNoco /\ db'.schema = db.schema
      /\ \A a \in Bases : db'.recorded[a] =
           IF a = b /\ a \in db.rows THEN v + 1 ELSE db.recorded[a]
      /\ snaps' = snaps /\ mishaps' = mishaps
  BY <1>1, RecordEffect
<1>3. /\ db.rows = {b} /\ Kept(db, c) /\ m # None /\ Follows(c, m)
      /\ b \in c.inNoco /\ v = c.schema[b] /\ v = c.recorded[b] /\ v < Latest
      /\ db.schema[b] = v + 1
      /\ b \in db.inNoco \/ "dashboard" \in Faults
  BY <1>2 DEF LifeInv, OrderInv, MigrateInv, TransactInv, CheckpointInv, BackupOfMigrated, Body
<1>4. b \in Bases /\ v \in Nat /\ c.rows = {b} /\ m.rows = {b} /\ m \in Db
  BY <1>1, <1>3 DEF Db, Call, Kept, Follows, TypeOK, Kinds
<1>5. Committed = c /\ c \in Db /\ Committed' = db'
  BY <1>2, CommittedIs DEF Committing, Committed, Body, LifeInv
<1>6. View(Committed) = Seen(c, b) /\ View(Committed)' = Seen(db', b)
  BY <1>1, <1>2, <1>3, <1>4, <1>5, ViewOfOne
<1>7. Seen(c, b) = [base |-> b, status |-> "live", schema |-> v, recorded |-> v]
  BY <1>3 DEF Seen
<1>8. Seen(db', b) = [base |-> b, status |-> IF b \in db.inNoco THEN "live" ELSE "lost",
                      schema |-> v + 1, recorded |-> v + 1]
  BY <1>2, <1>3, <1>4 DEF Seen
<1>9. /\ "migration" \in DOMAIN Saved
      /\ Saved["migration"].base = b /\ Saved["migration"].status = "live"
      /\ Saved["migration"].recorded <= v
  <2>1. "migration" \in DOMAIN Saved /\ Saved["migration"] = View(m)
    BY <1>3 DEF Saved, Kinds
  <2>2. View(m) = Seen(m, b)
    BY <1>4, ViewOfOne
  <2>3. b \in m.inNoco /\ m.recorded[b] <= v
    BY <1>3, <1>4 DEF Follows
  <2> QED
    BY <2>1, <2>2, <2>3 DEF Seen
<1>10. View(Committed)' \in Promise!Perhaps(Promise!Forward(View(Committed)))
  <2> DEFINE next == [base |-> b, status |-> "live", schema |-> v + 1, recorded |-> v + 1]
  <2>1. Promise!Forward(View(Committed)) = next
    BY <1>6, <1>7 DEF Promise!Forward
  <2>2. b \in db.inNoco => View(Committed)' = next
    BY <1>6, <1>8
  <2>3. b \notin db.inNoco => View(Committed)' = [next EXCEPT !.status = "lost"]
    BY <1>6, <1>8
  <2> HIDE DEF next
  <2> QED
    BY <1>3, <2>1, <2>2, <2>3 DEF Promise!Perhaps
<1>11. /\ View(Committed).status = "live" /\ View(Committed).base = b
       /\ View(Committed).schema = v /\ View(Committed).recorded = v
  BY <1>6, <1>7
<1> HIDE DEF b, v, c, m
<1>12. Promise!Advance
  BY <1>2, <1>3, <1>9, <1>10, <1>11, SavedStays DEF Promise!Advance, Promise!Live
<1> QED
  BY <1>12 DEF ByPromise, Promise!Next

\* A base is gone from NocoDB and from the tables of the worker.
LEMMA ForgetStep ==
    ASSUME LifeInv, LifeInv', "cut" \notin mishaps, Forget
    PROVE  ByPromise
<1> DEFINE b == admin.base  c == snaps["checkpoint"]  k == snaps["deletion"]
<1>1. TypeOK /\ db \in Db /\ db' \in Db
  BY DEF LifeInv, TInv, TypeOK
<1>2. /\ admin.step = "forget" /\ admin'.step = "idle"
      /\ db'.rows = db.rows \ {b} /\ snaps' = snaps /\ mishaps' = mishaps
  BY <1>1, ForgetEffect, IdleType
<1>3. Committed = c /\ c \in Db /\ Committed' = db'
  BY <1>2, CommittedIs DEF Committing, Committed, Body, LifeInv
<1>4. b \in c.inNoco /\ Kept(db, c) /\ k # None /\ Alike(c, k) /\ InOrder(c)
  BY <1>2 DEF LifeInv, OrderInv, SnapsInOrder, TransactInv, CheckpointInv, DeletionInv, Body
<1>5. b \in Bases /\ c.rows = {b} /\ k.rows = {b} /\ db.rows = {b} /\ k \in Db
  BY <1>1, <1>3, <1>4 DEF InOrder, Kept, Alike, Db, TypeOK, Kinds
<1>6. View(Committed) = Seen(c, b) /\ View(k) = Seen(k, b)
  BY <1>3, <1>5, ViewOfOne
<1>7. View(Committed)' = NoBase
  BY <1>1, <1>2, <1>3, <1>5, ViewIs
<1>8. View(Committed) # NoBase
  BY <1>5, <1>6, NoBaseIs DEF Seen
<1>9. "deletion" \in DOMAIN Saved /\ Saved["deletion"] = View(Committed)
  <2>1. "deletion" \in DOMAIN Saved /\ Saved["deletion"] = View(k)
    BY <1>4 DEF Saved, Kinds
  <2>2. Seen(k, b) = Seen(c, b)
    BY <1>4, <1>5 DEF Seen, Alike, Kept
  <2> QED
    BY <1>6, <2>1, <2>2
<1>10. Promise!End
  BY <1>2, <1>7, <1>8, <1>9, SavedStays DEF Promise!End
<1> QED
  BY <1>10 DEF ByPromise, Promise!Next

\* A migrator that is done, a base deleted in the dashboard, a call cut short.
LEMMA AlikeStep ==
    ASSUME NEW d \in Db, NEW c \in Db, Alike(d, c), Committed = c, Committed' = d,
           snaps' = snaps, ("cut" \in mishaps)' = ("cut" \in mishaps)
    PROVE  ByPromise
<1>1. View(Committed) = View(c) /\ View(Committed)' = View(d)
  OBVIOUS
<1>2. CASE View(d) = View(c)
  BY <1>1, <1>2, SavedStays, QuietStep
<1>3. CASE View(d) # View(c)
  <2>1. /\ "dashboard" \in Faults /\ View(c).status = "live"
        /\ View(d) = [View(c) EXCEPT !.status = "lost"]
    BY <1>3, AlikeViews
  <2> QED
    BY <1>1, <2>1, SavedStays, LoseStep
<1> QED
  BY <1>2, <1>3

LEMMA CutStep ==
    ASSUME LifeInv, LifeInv', "cut" \notin mishaps, CutShort
    PROVE  ByPromise
<1> DEFINE c == snaps["checkpoint"]
<1>1. TypeOK /\ db \in Db
  BY DEF LifeInv, TInv, TypeOK
<1>2. admin' = Idle /\ db' = db /\ snaps' = snaps
  BY DEF CutShort
<1>3. Committed' = db
  BY <1>2, IdleType DEF Committed, Body
<1>4. CASE ~Committing
  <2>1. Committed' = Committed
    BY <1>3, <1>4, CommittedIs DEF LifeInv
  <2>2. mishaps' = mishaps
    BY <1>4 DEF CutShort, Committing, Body
  <2> QED
    BY <1>2, <2>1, <2>2, SameCommitted
<1>5. CASE Committing
  <2>1. Committed = c /\ c \in Db
    BY <1>5, CommittedIs DEF LifeInv
  <2>2. CASE admin.step \in {"create", "run", "destroy"}
    <3>1. Alike(db, c) /\ mishaps' = mishaps
      BY <2>2 DEF LifeInv, TransactInv, CheckpointInv, CutShort
    <3> QED
      BY <1>1, <1>2, <1>3, <2>1, <3>1, AlikeStep
  <2>3. CASE admin.step \in {"insert", "record", "forget", "rollback"}
    <3>1. "cut" \in mishaps'
      BY <2>3 DEF CutShort
    <3>2. /\ Kept(db, c)
          /\ \A b \in db.rows : db.schema[b] \in {c.schema[b], c.schema[b] + 1}
      BY <2>3 DEF LifeInv, TransactInv, CheckpointInv, Body
    <3>3. CASE db.rows = {}
      <4>1. View(Committed) = NoBase /\ View(Committed)' = NoBase
        BY <1>1, <1>3, <2>1, <3>2, <3>3, ViewIs DEF Kept
      <4>2. Promise!Tear
        BY <1>2, <3>1, <4>1, SavedStays DEF Promise!Tear
      <4> QED
        BY <4>2 DEF ByPromise, Promise!Next
    <3>4. CASE db.rows # {}
      <4> DEFINE b == Newest(db.rows)
                 status == IF b \in c.inNoco /\ b \notin db.inNoco
                           THEN "lost" ELSE View(Committed).status
      <4>1. /\ b \in db.rows /\ b \in Bases
            /\ View(Committed) = Seen(c, b) /\ View(Committed)' = Seen(db, b)
        BY <1>1, <1>3, <2>1, <3>2, <3>4, ViewIs DEF Kept
      <4>2. /\ db.recorded[b] = c.recorded[b]
            /\ b \in db.inNoco => b \in c.inNoco
            /\ db.schema[b] \in {c.schema[b], c.schema[b] + 1}
        BY <3>2, <4>1 DEF Kept
      <4> HIDE DEF b
      <4>3. View(Committed) # NoBase
        BY <4>1, NoBaseIs DEF Seen
      <4>4. View(Committed)' = [base |-> View(Committed).base, status |-> status,
                                schema |-> db.schema[b],
                                recorded |-> View(Committed).recorded]
        BY <4>1, <4>2 DEF Seen
      <4>5. /\ status \in {View(Committed).status, "lost"}
            /\ db.schema[b] \in {View(Committed).schema, View(Committed).schema + 1}
        BY <4>1, <4>2 DEF Seen
      <4>7. View(Committed)' \in Promise!Halfway(View(Committed))
        BY <4>4, <4>5 DEF Promise!Halfway
      <4>8. Promise!Tear
        BY <1>2, <3>1, <4>3, <4>7, SavedStays DEF Promise!Tear
      <4> QED
        BY <4>8 DEF ByPromise, Promise!Next
    <3> QED
      BY <3>3, <3>4
  <2> QED
    BY <1>5, <2>2, <2>3 DEF Committing, Body
<1> QED
  BY <1>4, <1>5

\* A call begins outside with_rollback.
LEMMA CallStep == ASSUME LifeInv, StartCall PROVE ByPromise
<1>1. ASSUME NEW call, Begin(call),
             NEW c, NEW s, NEW k, NEW o, NEW b, NEW v, admin' = Started(c, s, k, o, b, v),
             s \in {"archive", "wipeTables"}
      PROVE  ByPromise
  <2>1. admin.step = "idle" /\ admin'.step = s
    BY <1>1, IdleType DEF Begin, Started
  <2>2. Committed = db /\ Committed' = db' /\ db' = db
    BY <1>1, <2>1 DEF Begin, Committed, Body
  <2>3. snaps' = snaps /\ ("cut" \in mishaps)' = ("cut" \in mishaps)
    BY <1>1 DEF Begin
  <2> QED
    BY <2>2, <2>3, SameCommitted
<1>2. CASE StartCreate
  BY <1>1, <1>2, BeganCreate
<1>3. CASE StartDelete
  <2>1. Begin("delete")
    BY <1>3, BeganDelete
  <2>2. PICK b \in Bases : admin' = Started("delete", "archive", "deletion", "checkpoint", b, 0)
    BY <1>3, BeganDelete
  <2> QED
    BY <1>1, <2>1, <2>2
<1>4. CASE StartMigrate
  <2>1. Begin("migrate")
    BY <1>4, BeganMigrate
  <2>2. PICK b \in Bases : admin' = Started("migrate", "archive", "migration", "checkpoint",
                                            b, CurrentMigration)
    BY <1>4, BeganMigrate
  <2> QED
    BY <1>1, <2>1, <2>2
<1>5. CASE StartBackup
  BY <1>1, <1>5, BeganBackup
<1>6. ASSUME NEW k \in Kinds \ {"checkpoint"}, StartRestore(k) PROVE ByPromise
  BY <1>1, <1>6, BeganRestore
<1>7. CASE StartWipe
  BY <1>1, <1>7, BeganWipe
<1> QED
  BY <1>2, <1>3, <1>4, <1>5, <1>6, <1>7 DEF StartCall

\* Steps that leave the database alone, and those that with_rollback may undo.
LEMMA InnerStep ==
    ASSUME LifeInv,
           \/ RestoreNothing \/ Rollback \/ WipeTables \/ WipeBase
           \/ Create \/ Run \/ RunPart \/ Destroy \/ Missing \/ BodyFails
    PROVE  ByPromise
<1>1. TypeOK
  BY DEF LifeInv, TInv
<1>2. Idle.step = "idle"
  BY IdleType
<1>3. CASE RestoreNothing
  <2>1. admin.step = "restore" /\ admin'.step = "idle" /\ UNCHANGED <<db, snaps, mishaps>>
    BY <1>2, <1>3 DEF RestoreNothing, history
  <2>2. Committed' = Committed
    BY <2>1 DEF Committed, Body
  <2> QED
    BY <2>1, <2>2, SameCommitted
<1>4. CASE Rollback
  <2>1. /\ admin.step = "rollback" /\ admin'.step = "idle" /\ db' = snaps["checkpoint"]
        /\ UNCHANGED <<snaps, mishaps>>
    BY <1>2, <1>4 DEF Rollback, history
  <2>2. Committed' = Committed
    BY <2>1 DEF Committed, Body
  <2> QED
    BY <2>1, <2>2, SameCommitted
<1>5. CASE WipeTables
  <2>1. /\ admin.step = "wipeTables" /\ admin'.step = "wipeBase"
        /\ UNCHANGED <<db, snaps, mishaps>>
    BY <1>1, <1>5, GotoEffect DEF WipeTables
  <2>2. Committed' = Committed
    BY <2>1 DEF Committed, Body
  <2> QED
    BY <2>1, <2>2, SameCommitted
<1>6. CASE WipeBase
  <2>1. /\ admin.step = "wipeBase" /\ admin'.step \in {"idle", "dropRow", "archive"}
        /\ UNCHANGED <<db, snaps, mishaps>>
    BY <1>1, <1>2, <1>6, WipeBaseEffect
  <2>2. Committed' = Committed
    BY <2>1 DEF Committed, Body
  <2> QED
    BY <2>1, <2>2, SameCommitted
<1>7. ASSUME admin.step \in Body, admin'.step \in Body \cup {"rollback"},
             UNCHANGED <<snaps, mishaps>>
      PROVE  ByPromise
  <2>1. Committed' = Committed
    BY <1>7 DEF Committed
  <2> QED
    BY <1>7, <2>1, SameCommitted
<1>8. CASE Create
  BY <1>1, <1>7, <1>8, CreateEffect DEF Body
<1>9. CASE Run \/ RunPart
  BY <1>1, <1>7, <1>9, RunEffect DEF Body
<1>10. CASE Destroy
  BY <1>1, <1>7, <1>10, DestroyEffect DEF Body
<1>11. CASE Missing \/ BodyFails
  BY <1>1, <1>7, <1>11, GotoEffect DEF Missing, BodyFails, Body, history
<1> QED
  BY <1>3, <1>4, <1>5, <1>6, <1>8, <1>9, <1>10, <1>11

\* The migrator ends where its last checkpoint is.
LEMMA UpToDateStep ==
    ASSUME LifeInv, "cut" \notin mishaps, UpToDate
    PROVE  ByPromise
<1>1. /\ admin.step = "run" /\ admin'.step = "idle" /\ UNCHANGED <<db, snaps, mishaps>>
  BY IdleType DEF UpToDate, NothingToRun, history
<1>2. Committed = snaps["checkpoint"] /\ Committed' = db
  BY <1>1 DEF Committed, Body
<1>3. Alike(db, snaps["checkpoint"])
  BY <1>1 DEF LifeInv, TransactInv, CheckpointInv
<1>4. db \in Db /\ snaps["checkpoint"] \in Db
  BY <1>1 DEF LifeInv, TInv, PointInv, TypeOK, Body
<1> QED
  BY <1>1, <1>2, <1>3, <1>4, AlikeStep

\* The dashboard loses a base, under with_rollback or not.
LEMMA DashboardStep ==
    ASSUME LifeInv, LifeInv', NEW b \in Bases, DashboardDelete(b)
    PROVE  ByPromise
<1>1. TypeOK /\ db \in Db /\ db' \in Db
  BY DEF LifeInv, TInv, TypeOK
<1>2. /\ db'.inNoco = db.inNoco \ {b} /\ db'.rows = db.rows
      /\ db'.schema = db.schema /\ db'.recorded = db.recorded
      /\ admin' = admin /\ snaps' = snaps /\ "dashboard" \in Faults
      /\ ("cut" \in mishaps)' = ("cut" \in mishaps)
  BY <1>1, DashboardEffect DEF DashboardDelete
<1>3. CASE Committing
  <2>1. Committed' = Committed
    BY <1>2, <1>3 DEF Committing, Committed
  <2> QED
    BY <1>2, <2>1, SameCommitted
<1>4. CASE ~Committing
  <2>1. Committed = db /\ Committed' = db'
    BY <1>2, <1>4 DEF Committing, Committed
  <2>2. Alike(db', db)
    BY <1>2 DEF Alike, Kept
  <2> QED
    BY <1>1, <1>2, <2>1, <2>2, AlikeStep
<1> QED
  BY <1>3, <1>4

\* Steps that are no business of the database.
LEMMA ElsewhereStep ==
    ASSUME UNCHANGED <<db, snaps, admin>>, ("cut" \in mishaps)' = ("cut" \in mishaps)
    PROVE  ByPromise
<1>1. Committed' = Committed
  BY DEF Committed
<1> QED
  BY <1>1, SameCommitted

\* Whatever happens once a handler has been cut short.
LEMMA TornStep ==
    ASSUME LifeInv, LifeInv', "cut" \in mishaps, [Next]_vars
    PROVE  ByPromise
<1>1. "cut" \in mishaps'
  BY MishapsStay
<1>2. CASE Archive
  BY <1>2, ArchiveStep DEF LifeInv
<1>3. CASE Snapshot
  BY <1>3, SnapshotStep DEF LifeInv
<1>4. CASE ~Archive /\ ~Snapshot
  <2> USE <1>4
  <2>1. snaps' = snaps
    <3>1. CASE UNCHANGED vars
      BY <3>1 DEF vars
    <3>2. CASE StartCall
      BY <3>2 DEF StartCall, StartCreate, StartDelete, StartMigrate, StartBackup,
                  StartRestore, StartWipe, Begin
    <3>3. CASE AdminStep
      BY <3>3 DEF AdminStep, Restore, RestoreNothing, Rollback, WipeTables, WipeBase, DropRow,
                  Create, Insert, UpToDate, Run, RunPart, Record, Destroy, Forget,
                  Missing, BodyFails, CutShort
    <3>4. CASE \E b \in Bases : DashboardDelete(b)
      BY <3>4 DEF DashboardDelete
    <3>5. CASE \E g \in Gets : Get(g)
      BY <3>5 DEF Get, GetStart, GetDb, GetPut, GetTables, GetList, GetPutTables, GetFails
    <3> QED
      BY <3>1, <3>2, <3>3, <3>4, <3>5 DEF Next
  <2> QED
    BY <1>1, <2>1, SavedStays, StrayStep DEF LifeInv
<1> QED
  BY <1>2, <1>3, <1>4

LEMMA PromiseStep == LifeInv /\ LifeInv' /\ [Next]_vars => ByPromise
<1> SUFFICES ASSUME LifeInv, LifeInv', [Next]_vars PROVE ByPromise
  OBVIOUS
<1>1. CASE "cut" \in mishaps
  BY <1>1, TornStep
<1>2. CASE "cut" \notin mishaps
  <2> USE <1>2
  <2>1. CASE UNCHANGED vars
    BY <2>1, ElsewhereStep DEF vars, history
  <2>2. CASE StartCall
    BY <2>2, CallStep
  <2>3. CASE AdminStep
    <3>1. CASE Archive \/ Snapshot
      BY <3>1, ArchiveStep, SnapshotStep DEF LifeInv
    <3>2. CASE Restore \/ DropRow \/ Insert \/ Record \/ Forget \/ CutShort \/ UpToDate
      BY <3>2, RestoreStep, DropRowStep, InsertStep, RecordStep, ForgetStep, CutStep,
         UpToDateStep
    <3>3. CASE \/ RestoreNothing \/ Rollback \/ WipeTables \/ WipeBase
               \/ Create \/ Run \/ RunPart \/ Destroy \/ Missing \/ BodyFails
      BY <3>3, InnerStep
    <3> QED
      BY <2>3, <3>1, <3>2, <3>3 DEF AdminStep
  <2>4. CASE \E b \in Bases : DashboardDelete(b)
    BY <2>4, DashboardStep
  <2>5. ASSUME NEW g \in Gets, Get(g) PROVE ByPromise
    <3>1. UNCHANGED <<db, snaps, admin>>
      BY <2>5 DEF Get, GetStart, GetDb, GetPut, GetTables, GetList, GetPutTables, GetFails
    <3>2. ("cut" \in mishaps)' = ("cut" \in mishaps)
      BY <2>5 DEF Get, GetStart, GetDb, GetPut, GetTables, GetList, GetPutTables, GetFails,
                  history
    <3> QED
      BY <3>1, <3>2, ElsewhereStep
  <2> QED
    BY <2>1, <2>2, <2>3, <2>4, <2>5 DEF Next
<1> QED
  BY <1>1, <1>2

LEMMA PromiseInit == Init => Promise!Init
<1> SUFFICES ASSUME Init PROVE Promise!Init
  OBVIOUS
<1>1. Committed = db /\ db.rows = {}
  BY IdleType DEF Init, Committed, Body
<1>2. View(Committed) = NoBase
  BY <1>1 DEF View
<1>3. Saved = [n \in {} |-> NoBase]
  BY DEF Init, Saved
<1>4. ("cut" \in mishaps) = FALSE
  BY DEF Init
<1> QED
  BY <1>2, <1>3, <1>4 DEF Promise!Init

\* The calls of the admin API are transactions on the environment's base: founding
\* one, a migration, a deletion and a restore take effect as a whole or not at all,
\* a live base goes forward or away only with a backup to go back to, and nothing
\* in between shows, unless a handler is cut short inside with_rollback.
THEOREM CallsMakeTransactions == Spec => CallsAreTransactions
<1>1. Spec => []LifeInv
  BY LifeInit, LifeStep, PTL DEF Spec
<1>2. LifeInv /\ LifeInv' /\ [Next]_vars => [Promise!Next]_(Promise!vars)
  BY PromiseStep DEF ByPromise
<1> QED
  BY <1>1, <1>2, PromiseInit, PTL DEF Spec, CallsAreTransactions, Promise!Spec

=============================================================================
