--------------------------- MODULE DevicesProofs ---------------------------
(***************************************************************************)
(* Devices is type-correct, and the record of a websocket that is open     *)
(* does not lapse as long as failures are fewer than the intervals it      *)
(* lasts without being renewed.                                            *)
(***************************************************************************)
EXTENDS Devices, TLAPS

(* A task has somewhere to go on to while it syncs, and only then.         *)
SyncPlaces == {"connected", "switched_off", "find", "patch"}
TaskOK(t) == task[t].pc \in SyncPlaces <=> task[t].after # "none"

TasksOK ==
  /\ task \in [Task -> TaskState]
  /\ \A t \in Task : TaskOK(t)

TablesOK ==
  /\ flag \in [Device -> {"absent", "online", "offline"}]
  /\ switchedOff \in SUBSET Device
  /\ expiry \in [Socket -> 0..Ttl]
  /\ active \in SUBSET Socket
  /\ refreshed \in SUBSET Process
  /\ frames \in Nat /\ failures \in Nat

Typed == TablesOK /\ TasksOK

(* The handler of a websocket has recorded it and not accepted it yet; or  *)
(* has accepted it, and serves it.                                         *)
Pending(s) == task[s].pc = "connect" \/ task[s].after = "connect"
Served(s) == task[s].pc \in {"serve", "mark_off", "patch_off"} \/ task[s].after = "serve"

(* The process that has a websocket, or is about to, has a refresher.      *)
HeldOK ==
  /\ \A s \in active : Served(s)
  /\ \A s \in Socket : s \in active \/ Pending(s) => Serving(ProcessOf[s])

(* The intervals that a record has lost are those of failures, and the     *)
(* present one until its process renews it.                                *)
Due(s) == IF s \in active /\ ProcessOf[s] \notin refreshed THEN 1 ELSE 0
RecordsOK ==
  /\ failures <= MaxFailures
  /\ \A s \in Socket : s \in active \/ Pending(s) => expiry[s] + failures + Due(s) >= Ttl

(* The records outlast the failures.                                       *)
RecordsOutlast == MaxFailures + 1 < Ttl

---------------------------------------------------------------------------
(* Types.                                                                  *)

LEMMA TypedIsTypeOK == Typed => TypeOK
  BY DEF Typed, TablesOK, TasksOK, TypeOK

LEMMA AtOK ==
  ASSUME NEW pc \in {"new", "connect", "serve", "mark_off", "patch_off", "remove", "closed",
                     "down", "started", "sleep"}
  PROVE  At(pc) \in TaskState /\ At(pc).pc = pc /\ At(pc).after = "none"
  BY DEF At, TaskState

LEMMA SyncingOK ==
  ASSUME NEW names \in SUBSET Device, NEW after \in {"connect", "serve", "closed", "started", "sleep"}
  PROVE  /\ Syncing(names, after) \in TaskState
         /\ Syncing(names, after).pc = "connected" /\ Syncing(names, after).after = after
  BY DEF Syncing, At, TaskState

(* A task becomes another that has what it needs.                          *)
LEMMA BecomeOK ==
  ASSUME TasksOK, NEW t \in Task, NEW S \in TaskState, Become(t, S),
         S.pc \in SyncPlaces <=> S.after # "none"
  PROVE  TasksOK' /\ task'[t] = S /\ \A u \in Task \ {t} : task'[u] = task[u]
  BY DEF TasksOK, TaskOK, Become

(* Where a task goes on once it has synced.                                *)
LEMMA AfterOK ==
  ASSUME TasksOK, NEW t \in Task, task[t].pc \in SyncPlaces
  PROVE  task[t].after \in {"connect", "serve", "closed", "started", "sleep"}
  BY DEF TasksOK, TaskOK, TaskState

(* What a step of sync_online_flags makes of its task: it goes on with the *)
(* same end in view, or has come to it.                                    *)
SyncStep(t) ==
  /\ \A u \in Task \ {t} : task'[u] = task[u]
  /\ \/ task'[t].after = task[t].after /\ task'[t].pc \in SyncPlaces
     \/ task'[t].pc = task[t].after /\ task'[t].after = "none"

LEMMA SyncTyped ==
  ASSUME Typed, NEW t \in Task, sync_online_flags(t)
  PROVE  Typed' /\ SyncStep(t) /\ task[t].pc \in SyncPlaces
<1>0. TasksOK /\ task \in [Task -> TaskState] /\ task[t] \in TaskState
  BY DEF Typed, TasksOK
<1>1. CASE read_connected(t)
  <2> DEFINE S == [task[t] EXCEPT !.pc = "switched_off",
                     !.connected = {DeviceOf[s] : s \in {s \in Socket : Live(s)}}]
  <2>1. {DeviceOf[s] : s \in {s \in Socket : Live(s)}} \in SUBSET Device
    BY DevicesAssumption
  <2>2. S \in TaskState /\ S.pc = "switched_off" /\ S.after = task[t].after
    BY <1>0, <2>1 DEF TaskState
  <2>3. task' = [task EXCEPT ![t] = S] /\ task[t].pc = "connected"
    BY <1>1 DEF read_connected
  <2>4. task[t].after # "none"
    BY <1>0, <2>3 DEF TasksOK, TaskOK, SyncPlaces
  <2>5. TasksOK' /\ task'[t] = S /\ \A u \in Task \ {t} : task'[u] = task[u]
    <3> HIDE DEF S
    <3> QED BY <1>0, <2>2, <2>3, <2>4, BecomeOK DEF Become, SyncPlaces
  <2> QED
    BY <1>1, <2>2, <2>3, <2>5 DEF read_connected, tables, bounds, Typed, TablesOK, SyncStep, SyncPlaces
<1>2. CASE read_switched_off(t)
  <2> DEFINE S == [task[t] EXCEPT !.pc = "find", !.switched_off = switchedOff]
  <2>2. S \in TaskState /\ S.pc = "find" /\ S.after = task[t].after
    BY <1>0 DEF TaskState, Typed, TablesOK
  <2>3. task' = [task EXCEPT ![t] = S] /\ task[t].pc = "switched_off"
    BY <1>2 DEF read_switched_off
  <2>4. task[t].after # "none"
    BY <1>0, <2>3 DEF TasksOK, TaskOK, SyncPlaces
  <2>5. TasksOK' /\ task'[t] = S /\ \A u \in Task \ {t} : task'[u] = task[u]
    <3> HIDE DEF S
    <3> QED BY <1>0, <2>2, <2>3, <2>4, BecomeOK DEF Become, SyncPlaces
  <2> QED
    BY <1>2, <2>2, <2>3, <2>5 DEF read_switched_off, tables, bounds, Typed, TablesOK, SyncStep, SyncPlaces
<1>3. CASE find_devices(t)
  <2> DEFINE todo == {<<d, is_online(t, d)>> :
                        d \in {d \in task[t].names :
                                 /\ flag[d] # "absent"
                                 /\ is_online(t, d) # (flag[d] = "online")}}
             S == [At("patch") EXCEPT !.todo = todo, !.after = task[t].after]
  <2>1. task[t].pc = "find" /\ task[t].after \in {"connect", "serve", "closed", "started", "sleep"}
    BY <1>0, <1>3, AfterOK DEF find_devices, SyncPlaces
  <2>2. todo \in SUBSET (Device \X BOOLEAN)
    <3>1. \A d : is_online(t, d) \in BOOLEAN
      BY DEF is_online
    <3>2. task[t].names \subseteq Device
      BY <1>0 DEF TaskState
    <3> QED
      BY <3>1, <3>2
  <2>3. S \in TaskState /\ S.pc = "patch" /\ S.after = task[t].after
    <3> HIDE DEF todo
    <3> QED BY <2>1, <2>2 DEF TaskState, At
  <2>4. Become(t, S) \/ Become(t, At(task[t].after))
    BY <1>3 DEF find_devices
  <2>5. ASSUME Become(t, S)
        PROVE  TasksOK' /\ task'[t] = S /\ \A u \in Task \ {t} : task'[u] = task[u]
    <3> HIDE DEF S
    <3> QED BY <1>0, <2>1, <2>3, <2>5, BecomeOK DEF SyncPlaces
  <2>6. ASSUME Become(t, At(task[t].after))
        PROVE  /\ TasksOK' /\ \A u \in Task \ {t} : task'[u] = task[u]
               /\ task'[t].pc = task[t].after /\ task'[t].after = "none"
    BY <1>0, <2>1, <2>6, AtOK, BecomeOK DEF SyncPlaces
  <2>7. TasksOK' /\ SyncStep(t)
    <3> HIDE DEF S
    <3> QED BY <2>3, <2>4, <2>5, <2>6 DEF SyncStep, SyncPlaces
  <2> QED
    BY <1>3, <2>1, <2>7 DEF find_devices, tables, bounds, Typed, TablesOK, SyncPlaces
<1>4. CASE patch_device(t)
  <2>1. PICK change \in task[t].todo :
          /\ flag' = [flag EXCEPT ![change[1]] = IF change[2] THEN "online" ELSE "offline"]
          /\ Become(t, IF task[t].todo = {change} THEN At(task[t].after)
                       ELSE [task[t] EXCEPT !.todo = @ \ {change}])
    BY <1>4 DEF patch_device
  <2> DEFINE S == [task[t] EXCEPT !.todo = @ \ {change}]
  <2>2. task[t].pc = "patch" /\ task[t].after \in {"connect", "serve", "closed", "started", "sleep"}
    BY <1>0, <1>4, AfterOK DEF patch_device, SyncPlaces
  <2>3. S \in TaskState /\ S.pc = "patch" /\ S.after = task[t].after
    BY <1>0, <2>2 DEF TaskState
  <2>4. flag' \in [Device -> {"absent", "online", "offline"}]
    BY <2>1 DEF Typed, TablesOK
  <2>5. Become(t, S) \/ Become(t, At(task[t].after))
    BY <2>1
  <2>6. ASSUME Become(t, S)
        PROVE  TasksOK' /\ task'[t] = S /\ \A u \in Task \ {t} : task'[u] = task[u]
    <3> HIDE DEF S
    <3> QED BY <1>0, <2>2, <2>3, <2>6, BecomeOK DEF SyncPlaces
  <2>7. ASSUME Become(t, At(task[t].after))
        PROVE  /\ TasksOK' /\ \A u \in Task \ {t} : task'[u] = task[u]
               /\ task'[t].pc = task[t].after /\ task'[t].after = "none"
    BY <1>0, <2>2, <2>7, AtOK, BecomeOK DEF SyncPlaces
  <2>8. TasksOK' /\ SyncStep(t)
    <3> HIDE DEF S
    <3> QED BY <2>3, <2>5, <2>6, <2>7 DEF SyncStep, SyncPlaces
  <2> QED
    BY <1>4, <2>2, <2>4, <2>8 DEF patch_device, bounds, Typed, TablesOK, SyncPlaces
<1> QED
  BY <1>1, <1>2, <1>3, <1>4 DEF sync_online_flags

(* A task that has just begun or ended something.                          *)
LEMMA GoesTo ==
  ASSUME TasksOK, NEW t \in Task,
         NEW pc \in {"new", "connect", "serve", "mark_off", "patch_off", "remove", "closed",
                     "down", "started", "sleep"},
         Become(t, At(pc))
  PROVE  /\ TasksOK' /\ task'[t].pc = pc /\ task'[t].after = "none"
         /\ \A u \in Task \ {t} : task'[u] = task[u]
  BY AtOK, BecomeOK DEF SyncPlaces

LEMMA BeginsSync ==
  ASSUME TasksOK, NEW t \in Task, NEW names \in SUBSET Device,
         NEW after \in {"connect", "serve", "closed", "started", "sleep"},
         Become(t, Syncing(names, after))
  PROVE  /\ TasksOK' /\ task'[t].pc = "connected" /\ task'[t].after = after
         /\ \A u \in Task \ {t} : task'[u] = task[u]
  BY SyncingOK, BecomeOK DEF SyncPlaces

LEMMA InitTyped == Init => Typed
<1> SUFFICES ASSUME Init PROVE Typed
  OBVIOUS
<1>1. \A t \in Task : task[t] = At("new") \/ task[t] = At("down")
  BY DEF Init
<1>2. task \in [Task -> TaskState]
  BY AtOK DEF Init
<1>3. \A t \in Task : TaskOK(t)
  BY <1>1, AtOK DEF TaskOK, SyncPlaces
<1>4. TablesOK
  BY DevicesAssumption DEF Init, TablesOK
<1> QED
  BY <1>2, <1>3, <1>4 DEF Typed, TasksOK

LEMMA UnchangedTyped ==
  ASSUME Typed, UNCHANGED vars
  PROVE  Typed'
  BY DEF Typed, TablesOK, TasksOK, TaskOK, vars, tables, bounds

(* The websockets' handlers keep the types.                                *)
LEMMA SocketTyped ==
  ASSUME Typed, NEW s \in Socket,
         \/ add_connection(s) \/ connect(s) \/ (\E online \in BOOLEAN : upsert_device(s, online))
         \/ switch_off_device(s) \/ mark_switched_off(s) \/ patch_switched_off(s)
         \/ switch_on_device(s) \/ disconnect(s) \/ remove_connection(s)
  PROVE  Typed'
<1>0. s \in Task /\ TasksOK /\ DeviceOf[s] \in Device /\ {DeviceOf[s]} \in SUBSET Device
  BY DevicesAssumption DEF Task, Typed
<1>1. CASE add_connection(s)
  <2>1. TasksOK'
    BY <1>0, <1>1, BeginsSync DEF add_connection
  <2>2. expiry' \in [Socket -> 0..Ttl]
    BY <1>1, DevicesAssumption DEF add_connection, _get_expiry, Typed, TablesOK
  <2> QED
    BY <1>1, <2>1, <2>2 DEF add_connection, bounds, Typed, TablesOK
<1>2. CASE connect(s)
  <2>1. TasksOK'
    BY <1>0, <1>2, GoesTo DEF connect
  <2> QED
    BY <1>2, <2>1 DEF connect, tables, bounds, Typed, TablesOK
<1>3. ASSUME NEW online \in BOOLEAN, upsert_device(s, online) PROVE Typed'
  <2>1. TasksOK'
    BY <1>0, <1>3, BeginsSync DEF upsert_device
  <2> QED
    BY <1>0, <1>3, <2>1 DEF upsert_device, Frame, Typed, TablesOK
<1>4. CASE switch_off_device(s)
  <2>1. TasksOK'
    BY <1>0, <1>4, GoesTo DEF switch_off_device, TasksOK, TaskOK
  <2> QED
    BY <1>4, <2>1 DEF switch_off_device, Frame, Typed, TablesOK
<1>5. CASE mark_switched_off(s) \/ patch_switched_off(s)
  <2>1. TasksOK'
    BY <1>0, <1>5, GoesTo DEF mark_switched_off, patch_switched_off
  <2> QED
    BY <1>0, <1>5, <2>1 DEF mark_switched_off, patch_switched_off, bounds, Typed, TablesOK
<1>6. CASE switch_on_device(s)
  <2>1. TasksOK'
    BY <1>0, <1>6, BeginsSync DEF switch_on_device
  <2> QED
    BY <1>6, <2>1 DEF switch_on_device, Frame, Typed, TablesOK
<1>7. CASE disconnect(s)
  <2>1. TasksOK'
    BY <1>0, <1>7, GoesTo DEF disconnect
  <2> QED
    BY <1>7, <2>1 DEF disconnect, tables, bounds, Typed, TablesOK
<1>8. CASE remove_connection(s)
  <2>1. TasksOK'
    BY <1>0, <1>8, GoesTo, BeginsSync DEF remove_connection
  <2>2. expiry' \in [Socket -> 0..Ttl]
    BY <1>8, DevicesAssumption DEF remove_connection, Typed, TablesOK
  <2> QED
    BY <1>8, <2>1, <2>2 DEF remove_connection, bounds, Typed, TablesOK
<1> QED
  BY <1>1, <1>2, <1>3, <1>4, <1>5, <1>6, <1>7, <1>8

(* So do the processes' own tasks, time and failures.                      *)
LEMMA ProcessTyped ==
  ASSUME Typed, NEW p \in Process,
         lifespan(p) \/ start_refreshing(p) \/ keep_connections_live(p)
  PROVE  Typed'
<1>0. p \in Task /\ TasksOK
  BY DEF Task, Typed
<1>1. CASE lifespan(p)
  <2>1. TasksOK'
    BY <1>0, <1>1, BeginsSync DEF lifespan
  <2> QED
    BY <1>1, <2>1 DEF lifespan, tables, bounds, Typed, TablesOK
<1>2. CASE start_refreshing(p)
  <2>1. TasksOK'
    BY <1>0, <1>2, GoesTo DEF start_refreshing
  <2> QED
    BY <1>2, <2>1 DEF start_refreshing, tables, bounds, Typed, TablesOK
<1>3. CASE keep_connections_live(p)
  <2>1. TasksOK'
    BY <1>0, <1>3, BeginsSync DEF keep_connections_live
  <2>2. expiry' \in [Socket -> 0..Ttl]
    BY <1>3, DevicesAssumption DEF keep_connections_live, _get_expiry, Typed, TablesOK
  <2> QED
    BY <1>3, <2>1, <2>2 DEF keep_connections_live, bounds, Typed, TablesOK
<1> QED
  BY <1>1, <1>2, <1>3

LEMMA FailureTyped ==
  ASSUME Typed
  PROVE  /\ tick => Typed'
         /\ \A p \in Process : crash(p) => Typed'
         /\ \A t \in Task : fail(t) => Typed'
<1>1. ASSUME tick PROVE Typed'
  <2>1. expiry' \in [Socket -> 0..Ttl]
    BY <1>1, DevicesAssumption DEF tick, Live, Typed, TablesOK
  <2>2. failures' \in Nat /\ refreshed' \in SUBSET Process
    BY <1>1 DEF tick, Typed, TablesOK
  <2> QED
    BY <1>1, <2>1, <2>2 DEF tick, Typed, TablesOK, TasksOK, TaskOK
<1>2. ASSUME NEW p \in Process, crash(p) PROVE Typed'
  <2>1. \A t \in Task : task'[t] = At("down") \/ task'[t] = At("closed") \/ task'[t] = task[t]
    BY <1>2 DEF crash
  <2>2. task' \in [Task -> TaskState]
    BY <1>2, AtOK DEF crash, Typed, TasksOK
  <2>3. \A t \in Task : TaskOK(t)'
    BY <2>1, AtOK DEF TaskOK, SyncPlaces, Typed, TasksOK
  <2> QED
    BY <1>2, <2>2, <2>3 DEF crash, tables, Typed, TablesOK, TasksOK
<1>3. ASSUME NEW t \in Task, fail(t) PROVE Typed'
  <2>1. TasksOK'
    BY <1>3, GoesTo DEF fail, Typed
  <2> QED
    BY <1>3, <2>1 DEF fail, tables, Typed, TablesOK
<1> QED
  BY <1>1, <1>2, <1>3

LEMMA NextTyped ==
  ASSUME Typed, Next
  PROVE  Typed'
<1>1. ASSUME NEW t \in Task, TaskStep(t) PROVE Typed'
  BY <1>1, SyncTyped, SocketTyped, ProcessTyped DEF TaskStep
<1> QED
  BY <1>1, SocketTyped, ProcessTyped, FailureTyped DEF Next

(* Devices is type-correct: the records and flags that the handlers of     *)
(* api/routers/devices/connections.py and services/devices/service.py      *)
(* leave are well formed, and no record has more than its time to live.    *)
THEOREM DevicesTypeCorrect == Spec => []TypeOK
<1>1. Typed /\ [Next]_vars => Typed'
  BY NextTyped, UnchangedTyped
<1> QED
  BY <1>1, InitTyped, TypedIsTypeOK, PTL DEF Spec

---------------------------------------------------------------------------
(* Open websockets are recorded.                                           *)

(* A websocket's handler changes neither the other tasks nor the processes *)
(* they are at, so that only its own websocket is in question.             *)
LEMMA SocketStep ==
  ASSUME Typed, HeldOK, RecordsOK, NEW s \in Socket,
         \A u \in Task \ {s} : task'[u] = task[u],
         active' \in SUBSET Socket, active' \ {s} = active \ {s}, refreshed' = refreshed,
         \A u \in Socket \ {s} : expiry'[u] = expiry[u],
         failures' \in {failures, failures + 1}, failures' <= MaxFailures,
         s \in active' => Served(s)',
         s \in active' \/ Pending(s)' =>
           Serving(ProcessOf[s]) /\ expiry'[s] + failures' + Due(s)' >= Ttl
  PROVE  HeldOK' /\ RecordsOK'
<1>1. \A u \in Socket : ProcessOf[u] \in Process /\ ProcessOf[u] \in Task /\ ProcessOf[u] # s
  BY DevicesAssumption DEF Task
<1>2. \A u \in Socket : Serving(ProcessOf[u])' <=> Serving(ProcessOf[u])
  BY <1>1 DEF Serving
<1>3. ASSUME NEW u \in Socket, u # s
      PROVE  /\ (Pending(u)' <=> Pending(u)) /\ (Served(u)' <=> Served(u))
             /\ (u \in active' <=> u \in active) /\ Due(u)' = Due(u)
             /\ expiry'[u] = expiry[u]
  BY <1>3 DEF Task, Pending, Served, Due
<1>4. HeldOK'
  BY <1>2, <1>3 DEF HeldOK
<1>5. ASSUME NEW u \in Socket, u \in active' \/ Pending(u)'
      PROVE  expiry'[u] + failures' + Due(u)' >= Ttl
  <2>1. CASE u = s
    BY <1>5, <2>1
  <2>2. CASE u # s
    <3>1. /\ expiry[u] + failures + Due(u) >= Ttl /\ Due(u) \in Nat
          /\ expiry[u] \in Nat /\ failures \in Nat /\ Ttl \in Nat
      BY <1>3, <1>5, <2>2, DevicesAssumption DEF RecordsOK, Due, Typed, TablesOK
    <3> QED
      BY <1>3, <2>2, <3>1
  <2> QED
    BY <2>1, <2>2
<1> QED
  BY <1>4, <1>5 DEF RecordsOK

(* A handler that goes on as it did, with the records as they are.         *)
LEMMA SocketGoesOn ==
  ASSUME Typed, HeldOK, RecordsOK, NEW s \in Socket,
         \A u \in Task \ {s} : task'[u] = task[u],
         active' = active, refreshed' = refreshed, expiry' = expiry,
         failures' \in {failures, failures + 1}, failures' <= MaxFailures,
         s \in active => Served(s)',
         Pending(s)' => Pending(s)
  PROVE  HeldOK' /\ RecordsOK'
<1>1. ASSUME s \in active \/ Pending(s)
      PROVE  Serving(ProcessOf[s]) /\ expiry'[s] + failures' + Due(s)' >= Ttl
  <2>1. /\ expiry[s] + failures + Due(s) >= Ttl /\ Due(s) \in Nat /\ Due(s)' = Due(s)
        /\ expiry[s] \in Nat /\ failures \in Nat /\ Ttl \in Nat
    BY <1>1, DevicesAssumption DEF RecordsOK, Due, Typed, TablesOK
  <2>2. Serving(ProcessOf[s])
    BY <1>1 DEF HeldOK
  <2> QED
    BY <2>1, <2>2
<1>2. active' \in SUBSET Socket
  BY DEF Typed, TablesOK
<1> QED
  BY <1>1, <1>2, SocketStep

(* A process that goes on serving.                                         *)
LEMMA ProcessGoesOn ==
  ASSUME Typed, HeldOK, RecordsOK, NEW p \in Process,
         \A u \in Task \ {p} : task'[u] = task[u],
         active' = active, refreshed' = refreshed, expiry' = expiry,
         failures' \in {failures, failures + 1}, failures' <= MaxFailures,
         Serving(p) => Serving(p)'
  PROVE  HeldOK' /\ RecordsOK'
<1>1. \A u \in Socket : u \in Task \ {p} /\ ProcessOf[u] \in Task
  BY DevicesAssumption DEF Task
<1>2. ASSUME NEW u \in Socket
      PROVE  /\ (Pending(u)' <=> Pending(u)) /\ (Served(u)' <=> Served(u)) /\ Due(u)' = Due(u)
             /\ Serving(ProcessOf[u]) => Serving(ProcessOf[u])'
  BY <1>1 DEF Pending, Served, Due, Serving
<1>3. HeldOK'
  BY <1>2 DEF HeldOK, Typed, TablesOK
<1>4. ASSUME NEW u \in Socket, u \in active' \/ Pending(u)'
      PROVE  expiry'[u] + failures' + Due(u)' >= Ttl
  <2>1. /\ expiry[u] + failures + Due(u) >= Ttl /\ Due(u) \in Nat
        /\ expiry[u] \in Nat /\ failures \in Nat /\ Ttl \in Nat
    BY <1>2, <1>4, DevicesAssumption DEF RecordsOK, Due, Typed, TablesOK
  <2> QED
    BY <1>2, <2>1
<1> QED
  BY <1>3, <1>4 DEF RecordsOK

LEMMA FailuresOK ==
  ASSUME Typed, RecordsOK
  PROVE  failures \in Nat /\ failures <= MaxFailures /\ MaxFailures \in Nat /\ Ttl \in Nat
  BY DevicesAssumption DEF Typed, TablesOK, RecordsOK

LEMMA SyncHeld ==
  ASSUME Typed, HeldOK, RecordsOK, NEW t \in Task, sync_online_flags(t)
  PROVE  HeldOK' /\ RecordsOK'
<1>1. SyncStep(t) /\ task[t].pc \in SyncPlaces
  BY SyncTyped
<1>2. active' = active /\ refreshed' = refreshed /\ expiry' = expiry /\ failures' = failures
  BY DEF sync_online_flags, read_connected, read_switched_off, find_devices, patch_device, tables, bounds
<1>3. CASE t \in Socket
  <2>1. /\ t \in active => Served(t)'
        /\ Pending(t)' => Pending(t)
    BY <1>1, <1>2 DEF HeldOK, Served, Pending, SyncStep, SyncPlaces
  <2> QED
    BY <1>1, <1>2, <1>3, <2>1, FailuresOK, SocketGoesOn DEF SyncStep
<1>4. CASE t \in Process
  <2>1. Serving(t) => Serving(t)'
    BY <1>1 DEF Serving, SyncStep, SyncPlaces
  <2> QED
    BY <1>1, <1>2, <1>4, <2>1, FailuresOK, ProcessGoesOn DEF SyncStep
<1> QED
  BY <1>3, <1>4 DEF Task

LEMMA SocketHeld ==
  ASSUME Typed, HeldOK, RecordsOK, NEW s \in Socket,
         \/ add_connection(s) \/ connect(s) \/ (\E online \in BOOLEAN : upsert_device(s, online))
         \/ switch_off_device(s) \/ mark_switched_off(s) \/ patch_switched_off(s)
         \/ switch_on_device(s) \/ disconnect(s) \/ remove_connection(s)
  PROVE  HeldOK' /\ RecordsOK'
<1>0. /\ s \in Task /\ TasksOK /\ {DeviceOf[s]} \in SUBSET Device
      /\ failures \in Nat /\ failures <= MaxFailures /\ MaxFailures \in Nat /\ Ttl \in Nat
      /\ active \in SUBSET Socket /\ expiry \in [Socket -> 0..Ttl]
  BY DevicesAssumption, FailuresOK DEF Task, Typed, TablesOK
<1>t. task[s].pc \notin SyncPlaces => task[s].after = "none"
  BY <1>0 DEF TasksOK, TaskOK
<1>1. CASE add_connection(s)
  <2>1. /\ task'[s].pc = "connected" /\ task'[s].after = "connect"
        /\ \A u \in Task \ {s} : task'[u] = task[u]
    BY <1>0, <1>1, BeginsSync DEF add_connection
  <2>2. s \notin active
    BY <1>1, <1>t DEF add_connection, HeldOK, Served, SyncPlaces
  <2>3. /\ active' = active /\ refreshed' = refreshed /\ failures' = failures
        /\ expiry'[s] = Ttl /\ Serving(ProcessOf[s])
        /\ \A u \in Socket \ {s} : expiry'[u] = expiry[u]
    BY <1>0, <1>1 DEF add_connection, _get_expiry, bounds
  <2>4. Due(s)' = 0
    BY <2>2, <2>3 DEF Due
  <2> QED
    BY <1>0, <2>1, <2>2, <2>3, <2>4, SocketStep
<1>2. CASE connect(s)
  <2>1. /\ refreshed' = refreshed /\ failures' = failures /\ expiry' = expiry
        /\ Pending(s) /\ task[s].pc = "connect"
    BY <1>2 DEF connect, tables, bounds, Pending
  <2>2. expiry[s] + failures + Due(s) >= Ttl /\ Serving(ProcessOf[s]) /\ s \notin active
    BY <1>t, <2>1 DEF RecordsOK, HeldOK, Served, SyncPlaces
  <2>3. CASE active' = active \cup {s} /\ Become(s, At("serve"))
    <3>1. /\ task'[s].pc = "serve" /\ task'[s].after = "none"
          /\ \A u \in Task \ {s} : task'[u] = task[u]
      BY <1>0, <2>3, GoesTo
    <3>2. Due(s) = 0 /\ Due(s)' \in {0, 1} /\ expiry[s] \in Nat
      BY <1>0, <2>2 DEF Due
    <3>3. expiry'[s] + failures' + Due(s)' >= Ttl
      BY <1>0, <2>1, <2>2, <3>2
    <3> QED
      BY <1>0, <2>1, <2>2, <2>3, <3>1, <3>3, SocketStep DEF Served
  <2>4. CASE active' = active /\ Become(s, At("remove"))
    <3>1. /\ task'[s].pc = "remove" /\ task'[s].after = "none"
          /\ \A u \in Task \ {s} : task'[u] = task[u]
      BY <1>0, <2>4, GoesTo
    <3> QED
      BY <1>0, <2>1, <2>2, <2>4, <3>1, SocketGoesOn DEF Pending
  <2> QED
    BY <1>2, <2>3, <2>4 DEF connect
<1>3. CASE (\E online \in BOOLEAN : upsert_device(s, online)) \/ switch_on_device(s)
  <2>1. Become(s, Syncing({DeviceOf[s]}, "serve"))
    BY <1>3 DEF upsert_device, switch_on_device
  <2>2. /\ task'[s].pc = "connected" /\ task'[s].after = "serve"
        /\ \A u \in Task \ {s} : task'[u] = task[u]
    BY <1>0, <2>1, BeginsSync
  <2>3. active' = active /\ refreshed' = refreshed /\ failures' = failures /\ expiry' = expiry
    BY <1>3 DEF upsert_device, switch_on_device, Frame
  <2> QED
    BY <1>0, <2>2, <2>3, SocketGoesOn DEF Served, Pending
<1>4. CASE switch_off_device(s)
  <2>1. active' = active /\ refreshed' = refreshed /\ failures' = failures /\ expiry' = expiry
        /\ (task' = task \/ Become(s, At("mark_off")))
    BY <1>4 DEF switch_off_device, Frame
  <2>2. CASE task' = task
    BY <1>0, <2>1, <2>2, SocketGoesOn DEF Served, Pending, HeldOK
  <2>3. CASE Become(s, At("mark_off"))
    <3>1. /\ task'[s].pc = "mark_off" /\ task'[s].after = "none"
          /\ \A u \in Task \ {s} : task'[u] = task[u]
      BY <1>0, <2>3, GoesTo
    <3> QED
      BY <1>0, <2>1, <3>1, SocketGoesOn DEF Served, Pending
  <2> QED
    BY <2>1, <2>2, <2>3
<1>5. CASE mark_switched_off(s) \/ patch_switched_off(s)
  <2>1. /\ task'[s].pc \in {"patch_off", "serve"} /\ task'[s].after = "none"
        /\ \A u \in Task \ {s} : task'[u] = task[u]
    BY <1>0, <1>5, GoesTo DEF mark_switched_off, patch_switched_off
  <2>2. active' = active /\ refreshed' = refreshed /\ failures' = failures /\ expiry' = expiry
    BY <1>5 DEF mark_switched_off, patch_switched_off, bounds
  <2> QED
    BY <1>0, <2>1, <2>2, SocketGoesOn DEF Served, Pending
<1>6. CASE disconnect(s)
  <2>1. /\ task'[s].pc = "remove" /\ task'[s].after = "none"
        /\ \A u \in Task \ {s} : task'[u] = task[u]
    BY <1>0, <1>6, GoesTo DEF disconnect
  <2>2. active' = active \ {s} /\ refreshed' = refreshed /\ failures' = failures /\ expiry' = expiry
    BY <1>6 DEF disconnect, tables, bounds
  <2> QED
    BY <1>0, <2>1, <2>2, SocketStep DEF Pending
<1>7. CASE remove_connection(s)
  <2>1. /\ task'[s].pc \in {"connected", "closed"} /\ task'[s].after \in {"none", "closed"}
        /\ \A u \in Task \ {s} : task'[u] = task[u]
    BY <1>0, <1>7, GoesTo, BeginsSync DEF remove_connection
  <2>2. s \notin active
    BY <1>7, <1>t DEF remove_connection, HeldOK, Served, SyncPlaces
  <2>3. /\ active' = active /\ refreshed' = refreshed /\ failures' = failures
        /\ \A u \in Socket \ {s} : expiry'[u] = expiry[u]
    BY <1>0, <1>7 DEF remove_connection, bounds
  <2> QED
    BY <1>0, <2>1, <2>2, <2>3, SocketStep DEF Pending
<1> QED
  BY <1>1, <1>2, <1>3, <1>4, <1>5, <1>6, <1>7

(* While records outlast the failures, an open or awaited websocket has a  *)
(* record, with an interval to spare.                                      *)
LEMMA HasRecord ==
  ASSUME RecordsOutlast, Typed, RecordsOK, NEW s \in Socket, s \in active \/ Pending(s)
  PROVE  expiry[s] >= 1 /\ Live(s)
<1>1. /\ expiry[s] + failures + Due(s) >= Ttl /\ Due(s) \in {0, 1} /\ expiry[s] \in Nat
      /\ failures \in Nat /\ failures <= MaxFailures /\ MaxFailures \in Nat /\ Ttl \in Nat
  BY FailuresOK DEF RecordsOK, Due, Typed, TablesOK
<1> QED
  BY <1>1 DEF RecordsOutlast, Live

LEMMA ProcessHeld ==
  ASSUME RecordsOutlast, Typed, HeldOK, RecordsOK, NEW p \in Process,
         lifespan(p) \/ start_refreshing(p) \/ keep_connections_live(p)
  PROVE  HeldOK' /\ RecordsOK'
<1>0. /\ p \in Task /\ TasksOK /\ failures \in Nat /\ failures <= MaxFailures /\ MaxFailures \in Nat
      /\ Ttl \in Nat /\ active \in SUBSET Socket /\ expiry \in [Socket -> 0..Ttl]
      /\ \A u \in Socket : u \in Task \ {p} /\ ProcessOf[u] \in Task
  BY DevicesAssumption, FailuresOK DEF Task, Typed, TablesOK
<1>t. task[p].pc \notin SyncPlaces => task[p].after = "none"
  BY <1>0 DEF TasksOK, TaskOK
<1>1. CASE lifespan(p)
  <2>1. \A u \in Task \ {p} : task'[u] = task[u]
    BY <1>0, <1>1, BeginsSync DEF lifespan
  <2>2. ~Serving(p)
    BY <1>1, <1>t DEF lifespan, Serving, SyncPlaces
  <2> QED
    BY <1>0, <1>1, <2>1, <2>2, ProcessGoesOn DEF lifespan, tables, bounds
<1>2. CASE start_refreshing(p)
  <2>1. /\ \A u \in Task \ {p} : task'[u] = task[u]
        /\ active' = active /\ refreshed' = refreshed \cup {p} /\ expiry' = expiry
        /\ failures' = failures
    BY <1>0, <1>2, GoesTo DEF start_refreshing, tables, bounds
  <2>2. ~Serving(p)
    BY <1>2, <1>t DEF start_refreshing, Serving, SyncPlaces
  <2>3. ASSUME NEW u \in Socket
        PROVE  /\ (Pending(u)' <=> Pending(u)) /\ (Served(u)' <=> Served(u))
               /\ Serving(ProcessOf[u]) => Serving(ProcessOf[u])' /\ ProcessOf[u] # p
    BY <1>0, <2>1, <2>2 DEF Pending, Served, Serving
  <2>4. HeldOK'
    BY <1>0, <2>1, <2>3 DEF HeldOK
  <2>5. \A u \in Socket : u \in active \/ Pending(u) => Due(u)' = Due(u)
    BY <2>1, <2>2 DEF Due, HeldOK
  <2> QED
    BY <2>1, <2>3, <2>4, <2>5 DEF RecordsOK
<1>3. CASE keep_connections_live(p)
  <2>1. /\ \A u \in Task \ {p} : task'[u] = task[u]
        /\ task'[p].after = "sleep"
        /\ active' = active /\ refreshed' = refreshed \cup {p} /\ failures' = failures
        /\ expiry' = [s \in Socket |->
             IF s \in active /\ ProcessOf[s] = p /\ Live(s) THEN Ttl ELSE expiry[s]]
    BY <1>0, <1>3, BeginsSync DEF keep_connections_live, bounds, _get_expiry
  <2>2. ASSUME NEW u \in Socket
        PROVE  /\ (Pending(u)' <=> Pending(u)) /\ (Served(u)' <=> Served(u))
               /\ Serving(ProcessOf[u]) => Serving(ProcessOf[u])'
    BY <1>0, <2>1 DEF Pending, Served, Serving
  <2>3. HeldOK'
    BY <1>0, <2>1, <2>2 DEF HeldOK
  <2>4. ASSUME NEW u \in Socket, u \in active' \/ Pending(u)'
        PROVE  expiry'[u] + failures' + Due(u)' >= Ttl
    <3>1. /\ expiry[u] + failures + Due(u) >= Ttl /\ Due(u) \in Nat /\ Due(u)' \in Nat
          /\ expiry[u] \in Nat /\ Live(u)
      BY <1>0, <2>1, <2>2, <2>4, HasRecord DEF RecordsOK, Due
    <3>2. CASE u \in active /\ ProcessOf[u] = p
      BY <1>0, <2>1, <3>1, <3>2
    <3>3. CASE ~(u \in active /\ ProcessOf[u] = p)
      <4>1. Due(u)' = Due(u) /\ expiry'[u] = expiry[u]
        BY <2>1, <3>3 DEF Due
      <4> QED
        BY <2>1, <3>1, <4>1
    <3> QED
      BY <3>2, <3>3
  <2> QED
    BY <1>0, <2>1, <2>3, <2>4 DEF RecordsOK
<1> QED
  BY <1>1, <1>2, <1>3

(* An interval takes no more from a record than it counts as a failure, or *)
(* leaves to be renewed.                                                   *)
LEMMA TickHeld ==
  ASSUME RecordsOutlast, Typed, HeldOK, RecordsOK, tick
  PROVE  HeldOK' /\ RecordsOK'
<1>0. /\ failures \in Nat /\ failures <= MaxFailures /\ MaxFailures \in Nat /\ Ttl \in Nat
      /\ active \in SUBSET Socket /\ expiry \in [Socket -> 0..Ttl]
      /\ \A u \in Socket : ProcessOf[u] \in Process
  BY DevicesAssumption, FailuresOK DEF Typed, TablesOK
<1>1. /\ task' = task /\ active' = active /\ refreshed' = {}
      /\ failures' = (IF Stalled THEN failures + 1 ELSE failures)
      /\ expiry' = [s \in Socket |-> IF Live(s) THEN expiry[s] - 1 ELSE 0]
  BY DEF tick
<1>2. HeldOK'
  BY <1>1 DEF HeldOK, Served, Pending, Serving
<1>3. failures' <= MaxFailures
  BY <1>0, <1>1 DEF tick
<1>4. ASSUME NEW u \in Socket, u \in active' \/ Pending(u)'
      PROVE  expiry'[u] + failures' + Due(u)' >= Ttl
  <2>1. u \in active \/ Pending(u)
    BY <1>1, <1>4 DEF Pending
  <2>2. /\ expiry[u] + failures + Due(u) >= Ttl /\ expiry[u] \in Nat /\ expiry'[u] = expiry[u] - 1
    BY <1>0, <1>1, <2>1, HasRecord DEF RecordsOK
  <2>3. CASE Stalled
    <3>1. Due(u)' >= Due(u) /\ Due(u) \in Nat /\ Due(u)' \in Nat
      BY <1>1 DEF Due
    <3> QED
      BY <1>0, <1>1, <2>2, <2>3, <3>1
  <2>4. CASE ~Stalled
    <3>1. u \in active /\ ProcessOf[u] \in refreshed
      BY <1>0, <2>1, <2>4 DEF Stalled, Pending, HeldOK
    <3>2. Due(u) = 0 /\ Due(u)' = 1
      BY <1>1, <3>1 DEF Due
    <3> QED
      BY <1>0, <1>1, <2>2, <2>4, <3>2
  <2> QED
    BY <2>3, <2>4
<1> QED
  BY <1>2, <1>3, <1>4 DEF RecordsOK

LEMMA CrashHeld ==
  ASSUME Typed, HeldOK, RecordsOK, NEW p \in Process, crash(p)
  PROVE  HeldOK' /\ RecordsOK'
<1>0. /\ p \in Task /\ failures \in Nat /\ MaxFailures \in Nat /\ Ttl \in Nat
      /\ active \in SUBSET Socket /\ expiry \in [Socket -> 0..Ttl] /\ TasksOK
      /\ \A u \in Socket : u \in Task \ {p} /\ ProcessOf[u] \in Task /\ ProcessOf[u] \notin Socket
  BY DevicesAssumption, FailuresOK DEF Task, Typed, TablesOK
<1>1. /\ refreshed' = refreshed /\ failures' = failures + 1 /\ failures' <= MaxFailures
      /\ expiry' = expiry /\ active' = active \ {s \in Socket : ProcessOf[s] = p}
  BY <1>0 DEF crash, tables
<1>2. ASSUME NEW u \in Socket, ProcessOf[u] = p
      PROVE  u \notin active' /\ ~Pending(u)'
  <2>0. u \in Task /\ u # p
    BY <1>0
  <2>1. IF task[u].pc # "new" THEN task'[u] = At("closed") ELSE task'[u] = task[u]
    BY <1>2, <2>0 DEF crash
  <2>2. task[u].pc = "new" => task[u].after = "none"
    BY <1>0 DEF TasksOK, TaskOK, SyncPlaces
  <2> QED
    BY <1>1, <1>2, <2>1, <2>2, AtOK DEF Pending
<1>3. ASSUME NEW u \in Socket, ProcessOf[u] # p
      PROVE  task'[u] = task[u] /\ task'[ProcessOf[u]] = task[ProcessOf[u]]
  BY <1>0, <1>3 DEF crash
<1>4. HeldOK'
  BY <1>0, <1>1, <1>2, <1>3 DEF HeldOK, Served, Pending, Serving
<1>5. ASSUME NEW u \in Socket, u \in active' \/ Pending(u)'
      PROVE  expiry'[u] + failures' + Due(u)' >= Ttl
  <2>1. ProcessOf[u] # p /\ task'[u] = task[u] /\ (u \in active' <=> u \in active)
    BY <1>1, <1>2, <1>3, <1>5
  <2>2. /\ expiry[u] + failures + Due(u) >= Ttl /\ Due(u) \in Nat /\ expiry[u] \in Nat
        /\ Due(u)' = Due(u)
    BY <1>0, <1>1, <1>5, <2>1 DEF RecordsOK, Due, Pending
  <2> QED
    BY <1>0, <1>1, <2>2
<1> QED
  BY <1>1, <1>4, <1>5 DEF RecordsOK

LEMMA FailHeld ==
  ASSUME Typed, HeldOK, RecordsOK, NEW t \in Task, fail(t)
  PROVE  HeldOK' /\ RecordsOK'
<1>0. /\ failures \in Nat /\ MaxFailures \in Nat /\ active \in SUBSET Socket /\ TasksOK
      /\ Socket \cap Process = {}
  BY DevicesAssumption, FailuresOK DEF Typed, TablesOK
<1>1. /\ active' = active /\ refreshed' = refreshed /\ expiry' = expiry
      /\ failures' = failures + 1 /\ failures' <= MaxFailures
  BY <1>0 DEF fail, tables
<1>2. CASE t \in active /\ Become(t, At("serve"))
  <2>1. /\ task'[t].pc = "serve" /\ task'[t].after = "none" /\ \A u \in Task \ {t} : task'[u] = task[u]
    BY <1>0, <1>2, GoesTo
  <2> QED
    BY <1>0, <1>1, <1>2, <2>1, SocketGoesOn DEF Served, Pending
<1>3. CASE t \in Socket \ active /\ Become(t, At("closed"))
  <2>1. /\ task'[t].pc = "closed" /\ task'[t].after = "none" /\ \A u \in Task \ {t} : task'[u] = task[u]
    BY <1>0, <1>3, GoesTo
  <2> QED
    BY <1>0, <1>1, <1>3, <2>1, SocketGoesOn DEF Pending
<1>4. CASE t \in Process /\ Become(t, At("sleep"))
  <2>1. /\ task'[t].pc = "sleep" /\ \A u \in Task \ {t} : task'[u] = task[u]
    BY <1>0, <1>4, GoesTo
  <2> QED
    BY <1>0, <1>1, <1>4, <2>1, ProcessGoesOn DEF Serving
<1>5. CASE t \in Process /\ task[t].after = "started" /\ Become(t, At("down"))
  <2>1. \A u \in Task \ {t} : task'[u] = task[u]
    BY <1>0, <1>5, GoesTo
  <2>2. ~Serving(t)
    BY <1>0, <1>5 DEF Serving, TasksOK, TaskOK, SyncPlaces
  <2> QED
    BY <1>0, <1>1, <1>5, <2>1, <2>2, ProcessGoesOn
<1> QED
  BY <1>2, <1>3, <1>4, <1>5 DEF fail

LEMMA NextHeld ==
  ASSUME RecordsOutlast, Typed, HeldOK, RecordsOK, Next
  PROVE  HeldOK' /\ RecordsOK'
<1>1. ASSUME NEW t \in Task, TaskStep(t) PROVE HeldOK' /\ RecordsOK'
  BY <1>1, SyncHeld, SocketHeld, ProcessHeld DEF TaskStep
<1> QED
  BY <1>1, SocketHeld, ProcessHeld, TickHeld, CrashHeld, FailHeld DEF Next

(* keep_connections_live of services/devices/service.py renews the records *)
(* of the websockets its process holds.  With no more failures than there  *)
(* are intervals a record has to spare, Ttl - 2, no record of a websocket  *)
(* that is held lapses, however many websockets and processes there are,   *)
(* and however their tasks, crashes and restarts interleave.               *)
THEOREM OpenSocketsAreRecorded ==
  ASSUME RecordsOutlast
  PROVE  Spec => []OpenIsRecorded
<1>1. Init => HeldOK /\ RecordsOK
  <2> SUFFICES ASSUME Init PROVE HeldOK /\ RecordsOK
    OBVIOUS
  <2>1. \A s \in Socket : task[s].pc = "new" /\ task[s].after = "none"
    BY AtOK DEF Init, Task
  <2>2. \A s \in Socket : ~Pending(s) /\ s \notin active
    BY <2>1 DEF Init, Pending
  <2>3. 0 <= MaxFailures
    BY DevicesAssumption
  <2> QED
    BY <2>2, <2>3 DEF Init, HeldOK, RecordsOK
<1>2. Typed /\ HeldOK /\ RecordsOK /\ [Next]_vars => (Typed /\ HeldOK /\ RecordsOK)'
  <2>1. ASSUME HeldOK, RecordsOK, UNCHANGED vars PROVE (HeldOK /\ RecordsOK)'
    BY <2>1 DEF vars, tables, bounds, HeldOK, RecordsOK, Served, Pending, Serving, Due
  <2> QED
    BY <2>1, NextTyped, UnchangedTyped, NextHeld
<1>3. Typed /\ RecordsOK => OpenIsRecorded
  BY HasRecord DEF OpenIsRecorded, Typed, TablesOK
<1> QED
  BY <1>1, <1>2, <1>3, InitTyped, PTL DEF Spec
=============================================================================
