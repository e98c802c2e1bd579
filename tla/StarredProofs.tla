---------------------------- MODULE StarredProofs ----------------------------
(* TLAPS proofs about Starred, for every number of tabs, IDs, aliases,      *)
(* events and shared schedules.                                             *)
EXTENDS Starred, TLAPS

USE CurrentAssumption, SchedulesAssumption, MaxPagesAssumption, NoneAssumption
    DEF Lists, Writes, Write, Shared

IsOpen(t) == envId[t] # None

\* Why the one timer is enough: what it holds is always the tab's latest own
\* list, and when it holds nothing that list is in storage, unless another tab
\* has written there.  Only own lists are ever written, and each is the user's,
\* in the environment it is written for.
IInv ==
    /\ TypeOK
    /\ \A id \in EnvIds : storage[id] \subseteq Ours[id]
    /\ \A t \in Tabs : pending[t] # None => IsOpen(t) /\ pending[t] = own[t]
    /\ \A t \in Tabs : share[t] # None => IsOpen(t)
    /\ \A t \in Tabs : IsOpen(t) =>
         /\ own[t] \in Writes
         /\ own[t].list \subseteq Ours[own[t].key]
         /\ share[t] = None => own[t] = Write(envId[t], starred[t])
         /\ (pending[t] = None /\ saver[own[t].key] = t)
              => storage[own[t].key] = own[t].list

-----------------------------------------------------------------------------
(* Types.                                                                  *)

LEMMA TypeInit == Init => TypeOK
BY DEF Init, TypeOK

LEMMA KeepType ==
    ASSUME TypeOK, NEW id, NEW list \in Lists, Keep(id, list)
    PROVE  mine' \in [EnvIds -> Lists]
<1> DEFINE e == Current[id]
<1>1. mine' = [mine EXCEPT ![e] = mine[e] \cup list] /\ mine \in [EnvIds -> Lists]
  BY DEF Keep, TypeOK
<1> HIDE DEF e
<1>2. e \in EnvIds => mine[e] \cup list \in Lists
  BY <1>1
<1> QED
  BY <1>1, <1>2

\* What toggleStar makes of the list.
LEMMA ToggledList ==
    ASSUME TypeOK, NEW t \in Tabs, NEW event \in Events, Toggle(t, event)
    PROVE  \E list \in Lists :
             /\ Sync(t, envId[t], None, list)
             /\ Keep(envId[t], {event} \cap list)
             /\ list \subseteq starred[t] \cup {event}
<1> DEFINE list == IF event \in starred[t] THEN starred[t] \ {event}
                                           ELSE starred[t] \cup {event}
<1>1. list \in Lists /\ list \subseteq starred[t] \cup {event}
  BY DEF TypeOK
<1>2. Sync(t, envId[t], None, list) /\ Keep(envId[t], {event} \cap list)
  BY DEF Toggle
<1> HIDE DEF list
<1> QED
  BY <1>1, <1>2

LEMMA TypeStep == TypeOK /\ [Next]_vars => TypeOK'
<1> SUFFICES ASSUME TypeOK, [Next]_vars PROVE TypeOK'
  OBVIOUS
<1> USE DEF TypeOK, url, memory, ghosts
<1>1. ASSUME NEW t \in Tabs, NEW id \in EnvIds, NEW schedule \in Schedules \cup {None},
             Open(t, id, schedule)
      PROVE  TypeOK'
  BY <1>1 DEF Open
<1>2. ASSUME NEW t \in Tabs, NEW id \in EnvIds, NEW schedule \in Schedules \cup {None},
             envId[t] # None, Move(t, id, schedule)
      PROVE  TypeOK'
  <2>1. /\ Current[id] \in EnvIds /\ carried' \subseteq EnvIds
        /\ starred[t] \in Lists
    BY <1>2 DEF Move
  <2>2. Write(id, starred[t]) \in Writes
    BY <2>1
  <2>3. /\ envId' \in [Tabs -> EnvIds \cup {None}]
        /\ share' \in [Tabs -> Schedules \cup {None}]
        /\ history' \in [Tabs -> SUBSET Schedules]
        /\ pages' \in 0 .. MaxPages
    BY <1>2 DEF Move
  <2>4. \A u \in Tabs : (currentEnvId'[u] = None) <=> (envId'[u] = None)
    BY <1>2 DEF Move
  <2>5. Sync(t, id, schedule, starred[t])
    BY <1>2 DEF Move
  <2> HIDE DEF Write, Writes
  <2>6. /\ starred' \in [Tabs -> Lists]
        /\ pending' \in [Tabs -> Writes \cup {None}]
        /\ own' \in [Tabs -> Writes \cup {None}]
    BY <2>1, <2>2, <2>5 DEF Sync
  <2> QED
    BY <1>2, <2>1, <2>3, <2>4, <2>6 DEF Move
<1>3. ASSUME NEW t \in Tabs, Mount(t) PROVE TypeOK'
  <2>1. /\ envId[t] \in EnvIds /\ share[t] \in Schedules \cup {None}
        /\ currentEnvId' = [currentEnvId EXCEPT ![t] = envId[t]]
        /\ UNCHANGED <<storage, url, mine, carried, saver>>
    BY <1>3 DEF Mount
  <2>2. PICK list \in Lists : Sync(t, envId[t], share[t], list)
    BY <1>3, <2>1 DEF Mount
  <2>3. Write(envId[t], list) \in Writes
    BY <2>1
  <2> HIDE DEF Write, Writes
  <2> QED
    BY <2>1, <2>2, <2>3 DEF Sync
<1>4. ASSUME NEW t \in Tabs, Redirect(t) PROVE TypeOK'
  BY <1>2, <1>4 DEF Redirect
<1>5. ASSUME NEW t \in Tabs, NEW id \in EnvIds, Switch(t, id)
      PROVE  TypeOK'
  BY <1>2, <1>5 DEF Switch
<1>10. ASSUME NEW t \in Tabs, NEW id \in EnvIds, NEW schedule \in Schedules,
              Travel(t, id, schedule)
       PROVE  TypeOK'
  BY <1>2, <1>10 DEF Travel
<1>6. ASSUME NEW t \in Tabs, NEW event \in Events, Toggle(t, event)
      PROVE  TypeOK'
  <2>1. PICK list \in Lists :
          /\ Sync(t, envId[t], None, list)
          /\ Keep(envId[t], {event} \cap list)
    BY <1>6, ToggledList
  <2>2. Write(envId[t], list) \in Writes
    BY <1>6 DEF Toggle, MayStar
  <2>3. mine' \in [EnvIds -> Lists]
    BY <2>1, KeepType
  <2> HIDE DEF Write, Writes
  <2> QED
    BY <1>6, <2>1, <2>2, <2>3 DEF Toggle, MayStar, Sync
<1>7. ASSUME NEW t \in Tabs, ExitSharedSchedule(t) \/ AddToSchedule(t)
      PROVE  TypeOK'
  <2>1. mine' \in [EnvIds -> Lists]
    BY <1>7, KeepType DEF ExitSharedSchedule, AddToSchedule
  <2>2. PICK list \in Lists : Dismiss(t, list) /\ envId[t] \in EnvIds
    BY <1>7 DEF ExitSharedSchedule, AddToSchedule, InDialog
  <2>3. Write(envId[t], list) \in Writes
    BY <2>2
  <2> HIDE DEF Write, Writes
  <2> QED
    BY <2>1, <2>2, <2>3 DEF Dismiss
<1>8. ASSUME NEW t \in Tabs, Save(t) PROVE TypeOK'
  BY <1>8 DEF Save
<1>9. CASE UNCHANGED vars
  BY <1>9 DEF vars
<1> QED
  BY <1>1, <1>3, <1>4, <1>5, <1>6, <1>7, <1>8, <1>9, <1>10 DEF Next

-----------------------------------------------------------------------------
(* What is the user's stays so.                                            *)

Grows == \A id \in EnvIds : Ours[id] \subseteq Ours'[id]

LEMMA OursGrows ==
    ASSUME TypeOK, carried \subseteq carried',
           \A e \in EnvIds : mine[e] \subseteq mine'[e]
    PROVE  Grows
<1> SUFFICES ASSUME NEW id \in EnvIds PROVE Ours[id] \subseteq Ours'[id]
  BY DEF Grows
<1>1. Current[id] \in EnvIds
  OBVIOUS
<1>2. UNION {mine[e] : e \in EnvIds} \subseteq UNION {mine'[e] : e \in EnvIds}
  OBVIOUS
<1>3. mine[Current[id]] \subseteq UNION {mine[e] : e \in EnvIds}
  BY <1>1
<1>4. /\ Ours[id] = IF Current[id] \in carried THEN UNION {mine[e] : e \in EnvIds}
                                              ELSE mine[Current[id]]
      /\ Ours'[id] = IF Current[id] \in carried' THEN UNION {mine'[e] : e \in EnvIds}
                                                ELSE mine'[Current[id]]
  BY DEF Ours
<1> HIDE CurrentAssumption
<1> QED
  BY <1>1, <1>2, <1>3, <1>4

LEMMA OursStays == ASSUME UNCHANGED <<mine, carried>> PROVE Ours' = Ours /\ Grows
BY DEF Ours, Grows

\* What the user stars or adds becomes theirs.
LEMMA OursKept ==
    ASSUME TypeOK, NEW id \in EnvIds, NEW list, Keep(id, list), carried' = carried
    PROVE  Grows /\ list \subseteq Ours'[id]
<1>1. Current[id] \in EnvIds
  OBVIOUS
<1>2. /\ mine'[Current[id]] = mine[Current[id]] \cup list
      /\ \A e \in EnvIds : mine[e] \subseteq mine'[e]
  BY <1>1 DEF Keep, TypeOK
<1>3. Ours'[id] = IF Current[id] \in carried' THEN UNION {mine'[e] : e \in EnvIds}
                                             ELSE mine'[Current[id]]
  BY DEF Ours
<1>4. mine'[Current[id]] \subseteq UNION {mine'[e] : e \in EnvIds}
  BY <1>1
<1>5. Grows
  BY <1>2, OursGrows
<1> QED
  BY <1>2, <1>3, <1>4, <1>5

-----------------------------------------------------------------------------
(* One lemma for each way a step treats its tab.                           *)

\* The tab gets an own list, and a write of it is pending.
LEMMA OwnList ==
    ASSUME IInv, TypeOK', NEW t \in Tabs, NEW id \in EnvIds, NEW list \in Lists,
           Grows, list \subseteq Ours'[id],
           storage' = storage, saver' = saver,
           envId' = [envId EXCEPT ![t] = id], share' = [share EXCEPT ![t] = None],
           starred' = [starred EXCEPT ![t] = list],
           pending' = [pending EXCEPT ![t] = Write(id, list)],
           own' = [own EXCEPT ![t] = Write(id, list)]
    PROVE  IInv'
<1>1. /\ envId'[t] = id /\ share'[t] = None /\ starred'[t] = list
      /\ pending'[t] = Write(id, list) /\ own'[t] = Write(id, list)
  BY DEF IInv, TypeOK
<1>2. \A u \in Tabs : u # t =>
        /\ envId'[u] = envId[u] /\ share'[u] = share[u]
        /\ starred'[u] = starred[u]
        /\ pending'[u] = pending[u] /\ own'[u] = own[u]
  BY DEF IInv, TypeOK
<1>3. Write(id, list) \in Writes /\ Write(id, list) # None
  OBVIOUS
<1>4. ASSUME NEW u \in Tabs, IsOpen(u)'
      PROVE  (/\ own[u] \in Writes
              /\ own[u].list \subseteq Ours[own[u].key]
              /\ share[u] = None => own[u] = Write(envId[u], starred[u])
              /\ (pending[u] = None /\ saver[own[u].key] = u)
                   => storage[own[u].key] = own[u].list)'
  <2>1. CASE u = t
    BY <1>1, <1>3, <2>1
  <2>2. CASE u # t
    <3>1. IsOpen(u)
      BY <1>2, <1>4, <2>2 DEF IsOpen
    <3>2. own[u] \in Writes /\ own[u].list \subseteq Ours[own[u].key]
      BY <3>1 DEF IInv
    <3>3. own'[u] = own[u] /\ own[u].list \subseteq Ours'[own[u].key]
      BY <1>2, <2>2, <3>2 DEF Grows
    <3> QED
      BY <1>2, <2>2, <3>1, <3>3 DEF IInv
  <2> QED
    BY <2>1, <2>2
<1>5. \A u \in Tabs :
        /\ pending'[u] # None => IsOpen(u)' /\ pending'[u] = own'[u]
        /\ share'[u] # None => IsOpen(u)'
  BY <1>1, <1>2 DEF IInv, IsOpen
<1>6. \A i \in EnvIds : storage'[i] \subseteq Ours'[i]
  BY DEF IInv, Grows
<1> QED
  BY <1>4, <1>5, <1>6 DEF IInv

\* The tab shows somebody else's list and writes nothing.
LEMMA ForeignList ==
    ASSUME IInv, TypeOK', NEW t \in Tabs, NEW id \in EnvIds, IsOpen(t),
           NEW schedule \in Schedules,
           UNCHANGED <<storage, saver, mine, carried, pending, own>>,
           envId' = [envId EXCEPT ![t] = id],
           share' = [share EXCEPT ![t] = schedule],
           starred' = [starred EXCEPT ![t] = schedule]
    PROVE  IInv'
<1>1. envId'[t] = id /\ share'[t] = schedule
  BY DEF IInv, TypeOK
<1>2. \A u \in Tabs : u # t =>
        envId'[u] = envId[u] /\ share'[u] = share[u] /\ starred'[u] = starred[u]
  BY DEF IInv, TypeOK
<1>3. ASSUME NEW u \in Tabs, IsOpen(u)'
      PROVE  (/\ own[u] \in Writes
              /\ own[u].list \subseteq Ours[own[u].key]
              /\ share[u] = None => own[u] = Write(envId[u], starred[u])
              /\ (pending[u] = None /\ saver[own[u].key] = u)
                   => storage[own[u].key] = own[u].list)'
  <2>1. CASE u = t
    <3>1. UNCHANGED storage /\ UNCHANGED saver /\ UNCHANGED Ours
          /\ UNCHANGED pending /\ UNCHANGED own
      BY OursStays
    <3>2. share'[t] # None
      BY <1>1
    <3> QED
      BY <2>1, <3>1, <3>2 DEF IInv
  <2>2. CASE u # t
    <3>1. IsOpen(u)
      BY <1>2, <1>3, <2>2 DEF IsOpen
    <3> QED
      BY <1>2, <2>2, <3>1, OursStays DEF IInv
  <2> QED
    BY <2>1, <2>2
<1>4. \A u \in Tabs :
        /\ pending'[u] # None => IsOpen(u)' /\ pending'[u] = own'[u]
        /\ share'[u] # None => IsOpen(u)'
  <2>1. IsOpen(t)'
    BY <1>1 DEF IsOpen
  <2> QED
    BY <1>2, <2>1 DEF IInv, IsOpen
<1> QED
  BY <1>3, <1>4, OursStays DEF IInv

\* A page opened on somebody else's schedule drops what was pending.
LEMMA ForeignPage ==
    ASSUME IInv, TypeOK', NEW t \in Tabs, NEW id \in EnvIds,
           NEW schedule \in Schedules,
           UNCHANGED <<storage, saver, mine, carried>>,
           envId' = [envId EXCEPT ![t] = id],
           share' = [share EXCEPT ![t] = schedule],
           starred' = [starred EXCEPT ![t] = schedule],
           pending' = [pending EXCEPT ![t] = None],
           own' = [own EXCEPT ![t] = Write(id, storage[id])]
    PROVE  IInv'
<1>1. /\ envId'[t] = id /\ share'[t] = schedule /\ pending'[t] = None
      /\ own'[t] = Write(id, storage[id])
  BY DEF IInv, TypeOK
<1>2. \A u \in Tabs : u # t =>
        /\ envId'[u] = envId[u] /\ share'[u] = share[u]
        /\ starred'[u] = starred[u]
        /\ pending'[u] = pending[u] /\ own'[u] = own[u]
  BY DEF IInv, TypeOK
<1>3. Write(id, storage[id]) \in Writes
  BY DEF IInv, TypeOK
<1>4. ASSUME NEW u \in Tabs, IsOpen(u)'
      PROVE  (/\ own[u] \in Writes
              /\ own[u].list \subseteq Ours[own[u].key]
              /\ share[u] = None => own[u] = Write(envId[u], starred[u])
              /\ (pending[u] = None /\ saver[own[u].key] = u)
                   => storage[own[u].key] = own[u].list)'
  <2>1. CASE u = t
    BY <1>1, <1>3, <2>1, OursStays DEF IInv
  <2>2. CASE u # t
    <3>1. IsOpen(u)
      BY <1>2, <1>4, <2>2 DEF IsOpen
    <3> QED
      BY <1>2, <2>2, <3>1, OursStays DEF IInv
  <2> QED
    BY <2>1, <2>2
<1>5. \A u \in Tabs :
        /\ pending'[u] # None => IsOpen(u)' /\ pending'[u] = own'[u]
        /\ share'[u] # None => IsOpen(u)'
  BY <1>1, <1>2 DEF IInv, IsOpen
<1> QED
  BY <1>4, <1>5, OursStays DEF IInv

\* The timer fires: the list that was pending is stored.
LEMMA SaveStep ==
    ASSUME IInv, TypeOK', NEW t \in Tabs, Save(t)
    PROVE  IInv'
<1> DEFINE key == pending[t].key
           list == pending[t].list
<1>1. /\ pending[t] = own[t] /\ own[t] \in Writes /\ IsOpen(t)
      /\ key \in EnvIds /\ list \subseteq Ours[key]
  BY DEF Save, IInv, TypeOK
<1>2. /\ storage'[key] = list /\ saver'[key] = t
      /\ \A id \in EnvIds : id # key =>
           storage'[id] = storage[id] /\ saver'[id] = saver[id]
  BY <1>1 DEF Save, IInv, TypeOK
<1>3. /\ pending'[t] = None
      /\ \A u \in Tabs : u # t => pending'[u] = pending[u]
      /\ UNCHANGED <<envId, share, starred, own>> /\ UNCHANGED Ours
  BY OursStays DEF Save, IInv, TypeOK, url
<1> HIDE DEF key, list
<1>4. ASSUME NEW u \in Tabs, IsOpen(u)'
      PROVE  (/\ own[u] \in Writes
              /\ own[u].list \subseteq Ours[own[u].key]
              /\ share[u] = None => own[u] = Write(envId[u], starred[u])
              /\ (pending[u] = None /\ saver[own[u].key] = u)
                   => storage[own[u].key] = own[u].list)'
  <2>1. IsOpen(u)
    BY <1>3, <1>4 DEF IsOpen
  <2>2. CASE u = t
    BY <1>1, <1>2, <1>3, <2>1, <2>2 DEF IInv, key, list
  <2>3. CASE u # t
    <3>1. saver'[own[u].key] = u => own[u].key # key
      BY <1>2, <2>3
    <3>2. own[u].key \in EnvIds
      BY <2>1 DEF IInv
    <3> QED
      BY <1>2, <1>3, <2>1, <2>3, <3>1, <3>2 DEF IInv
  <2> QED
    BY <2>2, <2>3
<1>5. \A u \in Tabs :
        /\ pending'[u] # None => IsOpen(u)' /\ pending'[u] = own'[u]
        /\ share'[u] # None => IsOpen(u)'
  BY <1>3 DEF IInv, IsOpen
<1>6. \A i \in EnvIds : storage'[i] \subseteq Ours'[i]
  BY <1>1, <1>2, <1>3 DEF IInv
<1> QED
  BY <1>4, <1>5, <1>6 DEF IInv

-----------------------------------------------------------------------------

LEMMA OwnListIsMine ==
    ASSUME IInv, NEW t \in Tabs, IsOpen(t), share[t] = None
    PROVE  starred[t] \subseteq Ours[envId[t]]
<1>1. own[t] = Write(envId[t], starred[t]) /\ own[t].list \subseteq Ours[own[t].key]
  BY DEF IInv
<1>2. own[t].list = starred[t] /\ own[t].key = envId[t]
  BY <1>1
<1> QED
  BY <1>1, <1>2

LEMMA SyncStep ==
    ASSUME IInv, TypeOK', NEW t \in Tabs, NEW id \in EnvIds,
           NEW schedule \in Schedules \cup {None}, NEW list \in Lists,
           IsOpen(t), schedule = None => Grows /\ list \subseteq Ours'[id],
           schedule # None => UNCHANGED <<mine, carried>>,
           UNCHANGED <<storage, saver>>, Sync(t, id, schedule, list),
           envId' = [envId EXCEPT ![t] = id],
           share' = [share EXCEPT ![t] = schedule]
    PROVE  IInv'
<1>1. CASE schedule = None
  <2>1. /\ starred' = [starred EXCEPT ![t] = list]
        /\ pending' = [pending EXCEPT ![t] = Write(id, list)]
        /\ own' = [own EXCEPT ![t] = Write(id, list)]
    BY <1>1 DEF Sync
  <2>2. share' = [share EXCEPT ![t] = None] /\ storage' = storage /\ saver' = saver
    BY <1>1
  <2> HIDE DEF Write
  <2> QED
    BY <1>1, <2>1, <2>2, OwnList
<1>2. CASE schedule # None
  <2>1. /\ starred' = [starred EXCEPT ![t] = schedule]
        /\ UNCHANGED <<storage, saver, mine, carried, pending, own>>
    BY <1>2 DEF Sync
  <2> QED
    BY <1>2, <2>1, ForeignList
<1> QED
  BY <1>1, <1>2

LEMMA MoveStep ==
    ASSUME IInv, TypeOK', NEW t \in Tabs, NEW id \in EnvIds,
           NEW schedule \in Schedules \cup {None}, IsOpen(t),
           schedule = None => share[t] = None, Move(t, id, schedule)
    PROVE  IInv'
<1>1. CASE schedule = None
  <2>1. /\ starred[t] \in Lists /\ starred[t] \subseteq Ours[envId[t]]
        /\ envId[t] \in EnvIds /\ TypeOK
    BY <1>1, OwnListIsMine DEF IInv, TypeOK, IsOpen
  <2>2. Grows
    BY <2>1, OursGrows DEF Move
  <2>3. starred[t] \subseteq Ours'[id]
    <3>1. CASE Current[id] = Current[envId[t]]
      <4>1. mine' = mine /\ carried' = carried
        BY <3>1 DEF Move
      <4>2. Ours'[id] = Ours'[envId[t]]
        BY <2>1, <3>1 DEF Ours
      <4> QED
        BY <2>1, <4>1, <4>2, OursStays
    <3>2. CASE Current[id] # Current[envId[t]]
      <4>1. mine' = mine /\ Current[id] \in carried'
        BY <1>1, <3>2 DEF Move
      <4>2. Ours'[id] = UNION {mine[e] : e \in EnvIds}
        BY <4>1 DEF Ours
      <4>3. Ours[envId[t]] \subseteq UNION {mine[e] : e \in EnvIds}
        BY <2>1 DEF Ours
      <4> QED
        BY <2>1, <4>2, <4>3
    <3> QED
      BY <3>1, <3>2
  <2> QED
    BY <1>1, <2>1, <2>2, <2>3, SyncStep DEF Move
<1>2. CASE schedule # None
  <2>1. /\ starred' = [starred EXCEPT ![t] = schedule]
        /\ UNCHANGED <<storage, saver, mine, carried, pending, own>>
    BY <1>2 DEF Move, Sync
  <2> QED
    BY <1>2, <2>1, ForeignList DEF Move
<1> QED
  BY <1>1, <1>2

LEMMA IInvStep == IInv /\ [Next]_vars => IInv'
<1> SUFFICES ASSUME IInv, [Next]_vars PROVE IInv'
  OBVIOUS
<1>t. TypeOK'
  BY TypeStep DEF IInv
<1>1. ASSUME NEW t \in Tabs, NEW id \in EnvIds,
             NEW schedule \in Schedules \cup {None}, Open(t, id, schedule)
      PROVE  IInv'
  <2>0. storage[id] \in Lists /\ storage[id] \subseteq Ours'[id] /\ Grows
    BY <1>1, OursStays DEF Open, IInv, TypeOK
  <2> HIDE DEF Write, Shared
  <2>1. CASE schedule = None
    BY <1>t, <1>1, <2>0, <2>1, OwnList DEF Open
  <2>2. CASE schedule # None
    BY <1>t, <1>1, <2>2, ForeignPage DEF Open
  <2> QED
    BY <2>1, <2>2
<1>2. ASSUME NEW t \in Tabs, Mount(t) PROVE IInv'
  <2>0. IsOpen(t) /\ envId[t] \in EnvIds /\ share[t] \in Schedules \cup {None}
    BY <1>2 DEF Mount, IsOpen, IInv, TypeOK
  <2>1. envId' = [envId EXCEPT ![t] = envId[t]]
        /\ share' = [share EXCEPT ![t] = share[t]]
        /\ UNCHANGED <<storage, saver>> /\ UNCHANGED <<mine, carried>>
    BY <1>2 DEF Mount, url, IInv, TypeOK
  <2>2. PICK list \in Lists :
          /\ Sync(t, envId[t], share[t], list)
          /\ list = starred[t] \/ list = storage[envId[t]]
    BY <1>2, <2>0 DEF Mount, IInv, TypeOK
  <2>3. CASE share[t] = None
    <3>1. list \subseteq Ours'[envId[t]] /\ Grows
      <4>1. starred[t] \subseteq Ours[envId[t]]
        BY <2>0, <2>3, OwnListIsMine
      <4>2. storage[envId[t]] \subseteq Ours[envId[t]]
        BY <2>0 DEF IInv
      <4> QED
        BY <2>1, <2>2, <4>1, <4>2, OursStays
    <3> QED
      BY <1>t, <2>0, <2>1, <2>2, <2>3, <3>1, SyncStep
  <2>4. CASE share[t] # None
    <3>1. /\ starred' = [starred EXCEPT ![t] = share[t]]
          /\ UNCHANGED <<storage, saver, mine, carried, pending, own>>
      BY <2>1, <2>2, <2>4 DEF Sync
    <3> QED
      BY <1>t, <2>0, <2>1, <2>4, <3>1, ForeignList
  <2> QED
    BY <2>3, <2>4
<1>3. ASSUME NEW t \in Tabs, Redirect(t) PROVE IInv'
  <2>1. IsOpen(t) /\ Current[envId[t]] \in EnvIds
        /\ share[t] \in Schedules \cup {None}
    BY <1>3 DEF Redirect, IsOpen, IInv, TypeOK
  <2> QED
    BY <1>t, <1>3, <2>1, MoveStep DEF Redirect
<1>4. ASSUME NEW t \in Tabs, NEW id \in EnvIds, Switch(t, id) PROVE IInv'
  <2>1. IsOpen(t) /\ share[t] \in Schedules \cup {None}
    BY <1>4 DEF Switch, IsOpen, IInv, TypeOK
  <2> QED
    BY <1>t, <1>4, <2>1, MoveStep DEF Switch
<1>9. ASSUME NEW t \in Tabs, NEW id \in EnvIds, NEW schedule \in Schedules,
             Travel(t, id, schedule)
      PROVE  IInv'
  <2>1. IsOpen(t) /\ schedule # None
    BY <1>9 DEF Travel, IsOpen
  <2> QED
    BY <1>t, <1>9, <2>1, MoveStep DEF Travel
<1>5. ASSUME NEW t \in Tabs, NEW event \in Events, Toggle(t, event) PROVE IInv'
  <2>1. IsOpen(t) /\ envId[t] \in EnvIds /\ share[t] = None
    BY <1>5 DEF Toggle, MayStar, IsOpen, IInv, TypeOK
  <2>2. starred[t] \subseteq Ours[envId[t]]
    BY <2>1, OwnListIsMine
  <2>3. PICK list \in Lists :
          /\ Sync(t, envId[t], None, list)
          /\ Keep(envId[t], {event} \cap list)
          /\ list \subseteq starred[t] \cup {event}
    BY <1>5, ToggledList DEF IInv
  <2>4. /\ envId' = [envId EXCEPT ![t] = envId[t]]
        /\ share' = [share EXCEPT ![t] = None]
        /\ UNCHANGED <<storage, saver>>
    BY <1>5, <2>1 DEF Toggle, url, IInv, TypeOK
  <2>5. Grows /\ list \subseteq Ours'[envId[t]]
    <3>1. Grows /\ {event} \cap list \subseteq Ours'[envId[t]]
      BY <1>5, <2>1, <2>3, OursKept DEF Toggle, IInv
    <3>2. starred[t] \subseteq Ours'[envId[t]]
      BY <2>1, <2>2, <3>1 DEF Grows
    <3> QED
      BY <2>3, <3>1, <3>2
  <2> QED
    BY <1>t, <2>1, <2>3, <2>4, <2>5, SyncStep
<1>6. ASSUME NEW t \in Tabs, ExitSharedSchedule(t) \/ AddToSchedule(t) PROVE IInv'
  <2>1. IsOpen(t) /\ envId[t] \in EnvIds
    BY <1>6 DEF ExitSharedSchedule, AddToSchedule, InDialog, IsOpen, IInv, TypeOK
  <2>2. storage[envId[t]] \in Lists /\ storage[envId[t]] \subseteq Ours[envId[t]]
        /\ starred[t] \in Lists /\ TypeOK
    BY <2>1 DEF IInv, TypeOK
  <2>3. PICK list \in Lists :
          Dismiss(t, list) /\ Grows /\ list \subseteq Ours'[envId[t]]
    <3>1. CASE ExitSharedSchedule(t)
      <4>1. Dismiss(t, storage[envId[t]]) /\ UNCHANGED <<mine, carried>>
        BY <3>1 DEF ExitSharedSchedule, Dismiss
      <4> QED
        BY <2>2, <4>1, OursStays
    <3>2. CASE AddToSchedule(t)
      <4>1. /\ Dismiss(t, storage[envId[t]] \cup starred[t])
            /\ Keep(envId[t], starred[t]) /\ carried' = carried
        BY <3>2 DEF AddToSchedule, Dismiss
      <4>2. Grows /\ starred[t] \subseteq Ours'[envId[t]]
        BY <2>1, <2>2, <4>1, OursKept
      <4>3. storage[envId[t]] \subseteq Ours'[envId[t]]
        BY <2>1, <2>2, <4>2 DEF Grows
      <4>4. storage[envId[t]] \cup starred[t] \in Lists
        BY <2>2
      <4> QED
        BY <4>1, <4>2, <4>3, <4>4
    <3> QED
      BY <1>6, <3>1, <3>2
  <2>4. envId' = [envId EXCEPT ![t] = envId[t]]
    BY <2>1, <2>3 DEF Dismiss, IInv, TypeOK
  <2> HIDE DEF Write
  <2> QED
    BY <1>t, <2>1, <2>3, <2>4, OwnList DEF Dismiss
<1>7. ASSUME NEW t \in Tabs, Save(t) PROVE IInv'
  BY <1>t, <1>7, SaveStep
<1>8. CASE UNCHANGED vars
  <2>1. Ours' = Ours
    BY <1>8, OursStays DEF vars, ghosts
  <2> QED
    BY <1>t, <1>8, <2>1 DEF vars, url, memory, ghosts, IInv, IsOpen
<1> QED
  BY <1>1, <1>2, <1>3, <1>4, <1>5, <1>6, <1>7, <1>8, <1>9 DEF Next

LEMMA IInvariant == Spec => []IInv
<1>1. Init => IInv
  BY TypeInit DEF Init, IInv, IsOpen
<1> QED
  BY <1>1, IInvStep, PTL DEF Spec

\* Every variable keeps its type, and a page knows which environment its list
\* was read for.
THEOREM StarredTypeCorrect == Spec => []TypeOK
BY TypeInit, TypeStep, PTL DEF Spec

\* For any number of tabs, links, environments and aliases, a schedule somebody
\* shared is never stored, nor about to be stored, as the user's own, nor are the
\* stars of one environment in another, unless a tab took them there in place.
THEOREM SharedSchedulesStayOut == Spec => []NoForeignStars
<1>1. IInv => NoForeignStars
  BY DEF IInv, NoForeignStars
<1> QED
  BY <1>1, IInvariant, PTL

\* A tab that has nothing left to write shows what it stored under the ID in
\* its URL, unless another tab has stored something since.
THEOREM TheTimerIsEnough == Spec => []ShownIsSaved
<1>1. IInv => ShownIsSaved
  <2> SUFFICES ASSUME IInv, NEW t \in Tabs, envId[t] # None, share[t] = None,
                      pending[t] = None, saver[envId[t]] = t
               PROVE  starred[t] = storage[envId[t]]
    BY DEF ShownIsSaved
  <2>1. own[t] = Write(envId[t], starred[t])
    BY DEF IInv, IsOpen
  <2>2. own[t].key = envId[t] /\ own[t].list = starred[t]
    BY <2>1
  <2>3. storage[own[t].key] = own[t].list
    BY <2>2 DEF IInv, IsOpen
  <2> QED
    BY <2>2, <2>3
<1> QED
  BY <1>1, IInvariant, PTL

\* Leaving a shared schedule brings back the list the tab had before.
THEOREM OwnScheduleComesBack == Spec => ExitRestores
<1> DEFINE Restores(t) ==
      (envId[t] # None /\ saver[envId[t]] = t /\ own[t].key = envId[t]) =>
        /\ ExitSharedSchedule(t) => starred'[t] = own[t].list
        /\ AddToSchedule(t) => starred'[t] = own[t].list \cup starred[t]
<1>1. ASSUME IInv, NEW t \in Tabs PROVE Restores(t)
  <2> SUFFICES ASSUME envId[t] # None, saver[envId[t]] = t, own[t].key = envId[t],
                      ExitSharedSchedule(t) \/ AddToSchedule(t)
               PROVE  /\ ExitSharedSchedule(t) => starred'[t] = own[t].list
                      /\ AddToSchedule(t) => starred'[t] = own[t].list \cup starred[t]
    OBVIOUS
  <2>1. pending[t] = None
    BY DEF ExitSharedSchedule, AddToSchedule, InDialog
  <2>2. storage[own[t].key] = own[t].list
    <3>1. saver[own[t].key] = t /\ IsOpen(t)
      BY DEF IsOpen
    <3> QED
      BY <1>1, <2>1, <3>1 DEF IInv
  <2>3. storage[envId[t]] = own[t].list
    BY <2>2
  <2>4. ASSUME NEW list, Dismiss(t, list) PROVE starred'[t] = list
    <3>1. starred \in [Tabs -> Lists]
      BY <1>1 DEF IInv, TypeOK
    <3>2. starred' = [starred EXCEPT ![t] = list]
      BY <2>4 DEF Dismiss
    <3> QED
      BY <3>1, <3>2
  <2>5. ExitSharedSchedule(t) => starred'[t] = own[t].list
    BY <2>3, <2>4 DEF ExitSharedSchedule
  <2>6. AddToSchedule(t) => starred'[t] = own[t].list \cup starred[t]
    BY <2>3, <2>4 DEF AddToSchedule
  <2> QED
    BY <2>5, <2>6
<1>2. IInv => [\A t \in Tabs : Restores(t)]_vars
  BY <1>1
<1> QED
  BY <1>2, IInvariant, PTL DEF ExitRestores

=============================================================================
