------------------------------ MODULE Devices ------------------------------
(***************************************************************************)
(* Which devices MSS shows as online.  Each websocket that a backend holds *)
(* open to some process of MSS is a record of the database, which that     *)
(* process keeps from lapsing; a device is online while it has a live      *)
(* record and is not switched off.  Its flag is stored, and brought up to  *)
(* date by sync_online_flags: on each change by the task that made it, and *)
(* for every device by each process, at its start and on each refresh.     *)
(*                                                                         *)
(* A task is a websocket's handler or a process's own task (its startup,   *)
(* then its refresher); it may be interrupted at each database call.  Time *)
(* passes in intervals of CONNECTION_REFRESH_SECONDS.                      *)
(***************************************************************************)
EXTENDS Naturals

CONSTANTS
  Device,        \* device names
  Socket,        \* the websockets backends open, each with its own record
  Process,       \* the processes of MSS
  DeviceOf,      \* [Socket -> Device]
  ProcessOf,     \* [Socket -> Process], where it happens to arrive
  Ttl,           \* CONNECTION_TTL_SECONDS / CONNECTION_REFRESH_SECONDS
  MaxFrames,     \* bound: device events
  MaxFailures    \* bound: processes that die, database calls that fail, and
                 \* intervals in which some task gets nothing done

(* A socket's handler and a process's task are different tasks.            *)
ASSUME DevicesAssumption ==
  /\ DeviceOf \in [Socket -> Device]
  /\ ProcessOf \in [Socket -> Process]
  /\ Socket \cap Process = {}
  /\ Ttl \in Nat \ {0}
  /\ {MaxFrames, MaxFailures} \subseteq Nat

VARIABLES
  flag,        \* the devices table: [Device -> "absent", "online", "offline"]
  switchedOff, \* the switched_off_devices table
  expiry,      \* the device_connections table: intervals left, 0 for no record
  active,      \* active_connections of the processes
  task,        \* what each task is doing
  refreshed,   \* the processes that have renewed their records this interval
  frames, failures

tables == <<flag, switchedOff, expiry>>
bounds == <<frames, failures>>
vars == <<tables, active, task, refreshed, bounds>>

Task == Socket \cup Process

(* A task's place, and the local variables of sync_online_flags; `after`   *)
(* is where the task goes on when it has synced.                           *)
TaskState ==
  [pc : {"new", "connect", "serve", "mark_off", "patch_off", "remove",
         "closed", "down", "started", "sleep", "connected", "switched_off",
         "find", "patch"},
   names : SUBSET Device, connected : SUBSET Device,
   switched_off : SUBSET Device, todo : SUBSET (Device \X BOOLEAN),
   after : {"none", "connect", "serve", "closed", "started", "sleep"}]

At(pc) == [pc |-> pc, names |-> {}, connected |-> {}, switched_off |-> {},
           todo |-> {}, after |-> "none"]

(* The task calls sync_online_flags.                                       *)
Syncing(names, after) ==
  [At("connected") EXCEPT !.names = names, !.after = after]

TypeOK ==
  /\ flag \in [Device -> {"absent", "online", "offline"}]
  /\ switchedOff \in SUBSET Device
  /\ expiry \in [Socket -> 0..Ttl]
  /\ active \in SUBSET Socket
  /\ task \in [Task -> TaskState]
  /\ refreshed \in SUBSET Process
  /\ frames \in Nat /\ failures \in Nat

(* The tables may hold devices from before; the processes are yet to start. *)
Init ==
  /\ flag \in [Device -> {"absent", "online", "offline"}]
  /\ switchedOff \in SUBSET {d \in Device : flag[d] = "offline"}
  /\ expiry = [s \in Socket |-> 0]
  /\ active = {}
  /\ task = [t \in Task |-> IF t \in Socket THEN At("new") ELSE At("down")]
  /\ refreshed = {}
  /\ frames = 0 /\ failures = 0

Up(p) == task[p].pc # "down"
Serving(p) == task[p].pc = "sleep" \/ task[p].after = "sleep"
Live(s) == expiry[s] > 0
Become(t, state) == task' = [task EXCEPT ![t] = state]

---------------------------------------------------------------------------
(* sync_online_flags.                                                      *)

read_connected(t) ==
  /\ task[t].pc = "connected"
  /\ task' = [task EXCEPT
       ![t].pc = "switched_off",
       ![t].connected = {DeviceOf[s] : s \in {s \in Socket : Live(s)}}]
  /\ UNCHANGED <<tables, active, refreshed, bounds>>

read_switched_off(t) ==
  /\ task[t].pc = "switched_off"
  /\ task' = [task EXCEPT ![t].pc = "find", ![t].switched_off = switchedOff]
  /\ UNCHANGED <<tables, active, refreshed, bounds>>

(* What the devices' flags should be, by what the task has read.           *)
is_online(t, d) == d \in task[t].connected /\ d \notin task[t].switched_off

(* The devices whose flags, as found now, have to change.                  *)
find_devices(t) ==
  /\ task[t].pc = "find"
  /\ LET todo == {<<d, is_online(t, d)>> :
                    d \in {d \in task[t].names :
                             /\ flag[d] # "absent"
                             /\ is_online(t, d) # (flag[d] = "online")}} IN
       Become(t, IF todo = {} THEN At(task[t].after)
                 ELSE [At("patch") EXCEPT !.todo = todo, !.after = task[t].after])
  /\ UNCHANGED <<tables, active, refreshed, bounds>>

(* They are patched one by one, whatever they have become meanwhile.       *)
patch_device(t) ==
  /\ task[t].pc = "patch"
  /\ \E change \in task[t].todo :
       /\ flag' = [flag EXCEPT ![change[1]] = IF change[2] THEN "online" ELSE "offline"]
       /\ Become(t, IF task[t].todo = {change} THEN At(task[t].after)
                    ELSE [task[t] EXCEPT !.todo = @ \ {change}])
  /\ UNCHANGED <<switchedOff, expiry, active, refreshed, bounds>>

sync_online_flags(t) ==
  read_connected(t) \/ read_switched_off(t) \/ find_devices(t) \/ patch_device(t)

---------------------------------------------------------------------------
(* The handler of websocket s.                                             *)

(* Mutant: the record lasts one interval.                                  *)
_get_expiry_Short == 1
_get_expiry == Ttl

(* The handshake is verified; the connection is recorded, then synced.     *)
add_connection(s) ==
  /\ task[s].pc = "new"
  /\ Serving(ProcessOf[s])
  /\ expiry' = [expiry EXCEPT ![s] = _get_expiry]
  /\ Become(s, Syncing({DeviceOf[s]}, "connect"))
  /\ UNCHANGED <<flag, switchedOff, active, refreshed, bounds>>

(* The websocket is accepted, unless the backend has gone away.            *)
connect(s) ==
  /\ task[s].pc = "connect"
  /\ \/ active' = active \cup {s} /\ Become(s, At("serve"))
     \/ UNCHANGED active /\ Become(s, At("remove"))
  /\ UNCHANGED <<tables, refreshed, bounds>>

Frame(s) ==
  /\ task[s].pc = "serve"
  /\ frames < MaxFrames
  /\ frames' = frames + 1
  /\ UNCHANGED <<expiry, active, refreshed, failures>>

(* An `initialized` event: upsert_device stores the device, with the       *)
(* backend's own view of whether it is online, then syncs its flag.        *)
upsert_device(s, online) ==
  /\ Frame(s)
  /\ flag' = [flag EXCEPT ![DeviceOf[s]] = IF online THEN "online" ELSE "offline"]
  /\ Become(s, Syncing({DeviceOf[s]}, "serve"))
  /\ UNCHANGED switchedOff

(* A `switched_off` event: an unknown device is an error.                  *)
switch_off_device(s) ==
  /\ Frame(s)
  /\ IF flag[DeviceOf[s]] = "absent" THEN UNCHANGED task
     ELSE Become(s, At("mark_off"))
  /\ UNCHANGED <<flag, switchedOff>>

mark_switched_off(s) ==
  /\ task[s].pc = "mark_off"
  /\ switchedOff' = switchedOff \cup {DeviceOf[s]}
  /\ Become(s, At("patch_off"))
  /\ UNCHANGED <<flag, expiry, active, refreshed, bounds>>

patch_switched_off(s) ==
  /\ task[s].pc = "patch_off"
  /\ flag' = [flag EXCEPT ![DeviceOf[s]] = "offline"]
  /\ Become(s, At("serve"))
  /\ UNCHANGED <<switchedOff, expiry, active, refreshed, bounds>>

(* A `switched_on` event: the mark is deleted, then the flag synced.       *)
switch_on_device(s) ==
  /\ Frame(s)
  /\ switchedOff' = switchedOff \ {DeviceOf[s]}
  /\ Become(s, Syncing({DeviceOf[s]}, "serve"))
  /\ UNCHANGED flag

(* The websocket closes: the process lets go of it, then forgets it.       *)
disconnect(s) ==
  /\ task[s].pc = "serve"
  /\ active' = active \ {s}
  /\ Become(s, At("remove"))
  /\ UNCHANGED <<tables, refreshed, bounds>>

remove_connection(s) ==
  /\ task[s].pc = "remove"
  /\ expiry' = [expiry EXCEPT ![s] = 0]
  /\ Become(s, IF Live(s) THEN Syncing({DeviceOf[s]}, "closed") ELSE At("closed"))
  /\ UNCHANGED <<flag, switchedOff, active, refreshed, bounds>>

---------------------------------------------------------------------------
(* The task of process p.                                                  *)

(* The process starts: its lifespan first syncs every flag,                *)
lifespan(p) ==
  /\ task[p].pc = "down"
  /\ Become(p, Syncing(Device, "started"))
  /\ UNCHANGED <<tables, active, refreshed, bounds>>

(* then starts the refresher, which sleeps first, and lets websockets in.  *)
start_refreshing(p) ==
  /\ task[p].pc = "started"
  /\ refreshed' = refreshed \cup {p}
  /\ Become(p, At("sleep"))
  /\ UNCHANGED <<tables, active, bounds>>

(* Mutant: the records are renewed and the flags left as they are.         *)
keep_connections_live_Only(p) ==
  /\ task[p].pc = "sleep" /\ p \notin refreshed
  /\ expiry' = [s \in Socket |->
       IF s \in active /\ ProcessOf[s] = p /\ Live(s) THEN _get_expiry ELSE expiry[s]]
  /\ refreshed' = refreshed \cup {p}
  /\ UNCHANGED <<flag, switchedOff, active, task, bounds>>

(* After its sleep the refresher renews the records of the websockets the  *)
(* process holds, those that have not lapsed, then syncs every flag.       *)
keep_connections_live(p) ==
  /\ task[p].pc = "sleep"
  /\ p \notin refreshed
  /\ expiry' = [s \in Socket |->
       IF s \in active /\ ProcessOf[s] = p /\ Live(s) THEN _get_expiry ELSE expiry[s]]
  /\ refreshed' = refreshed \cup {p}
  /\ Become(p, Syncing(Device, "sleep"))
  /\ UNCHANGED <<flag, switchedOff, active, bounds>>

---------------------------------------------------------------------------
(* Time and failures.                                                      *)

(* A process that has not renewed its records, or a handler that has not   *)
(* accepted its websocket, for a whole interval.                           *)
Stalled ==
  \/ \E p \in Process : Serving(p) /\ p \notin refreshed
  \/ \E s \in Socket : task[s].after = "connect" \/ task[s].pc = "connect"

(* An interval passes, and records lapse.  A record's age is rounded up to *)
(* whole intervals.                                                        *)
tick ==
  /\ Stalled => failures < MaxFailures
  /\ failures' = IF Stalled THEN failures + 1 ELSE failures
  /\ expiry' = [s \in Socket |-> IF Live(s) THEN expiry[s] - 1 ELSE 0]
  /\ refreshed' = {}
  /\ UNCHANGED <<flag, switchedOff, active, task, frames>>

(* A process dies; its websockets break, and their records stay.           *)
crash(p) ==
  /\ failures < MaxFailures
  /\ Up(p)
  /\ failures' = failures + 1
  /\ LET own(t) == t \in Socket /\ ProcessOf[t] = p /\ task[t].pc # "new" IN
     /\ task' = [t \in Task |-> IF t = p THEN At("down")
                                ELSE IF own(t) THEN At("closed") ELSE task[t]]
     /\ active' = active \ {s \in Socket : ProcessOf[s] = p}
  /\ UNCHANGED <<tables, refreshed, frames>>

(* A database call fails.  A frame's handler answers with an error, the    *)
(* refresher sleeps again, a handler that is adding or removing its record *)
(* ends, and a process does not start.                                     *)
fail(t) ==
  /\ failures < MaxFailures
  /\ failures' = failures + 1
  /\ \/ /\ t \in active /\ task[t].pc # "serve"
        /\ Become(t, At("serve"))
     \/ /\ t \in Socket \ active
        /\ task[t].pc \notin {"new", "connect", "closed"}
        /\ Become(t, At("closed"))
     \/ /\ t \in Process /\ task[t].after = "sleep"
        /\ Become(t, At("sleep"))
     \/ /\ t \in Process /\ task[t].after = "started"
        /\ Become(t, At("down"))
  /\ UNCHANGED <<tables, active, refreshed, frames>>

---------------------------------------------------------------------------
(* What a task does of its own accord once it has begun.                   *)
TaskStep(t) ==
  \/ sync_online_flags(t)
  \/ t \in Socket /\ (connect(t) \/ mark_switched_off(t)
                       \/ patch_switched_off(t) \/ remove_connection(t))
  \/ t \in Process /\ (start_refreshing(t) \/ keep_connections_live(t))

Next ==
  \/ \E t \in Task : TaskStep(t)
  \/ \E s \in Socket : add_connection(s)
  \/ \E s \in Socket, online \in BOOLEAN : upsert_device(s, online)
  \/ \E s \in Socket : switch_off_device(s)
  \/ \E s \in Socket : switch_on_device(s)
  \/ \E s \in Socket : disconnect(s)
  \/ \E p \in Process : lifespan(p)
  \/ \E p \in Process : crash(p)
  \/ \E t \in Task : fail(t)
  \/ tick

Spec == Init /\ [][Next]_vars

(* Time passes, and a process's event loop gets round to every task it has *)
(* begun.  Backends, restarts and failures come as they like.              *)
Fairness == WF_vars(tick) /\ \A t \in Task : WF_vars(TaskStep(t))

FairSpec == Spec /\ Fairness

---------------------------------------------------------------------------
(* Properties.                                                             *)

(* What a websocket held by some process means for its device is on record *)
(* (docs/backends.md: "Each socket is a `device_connections` record while  *)
(* it is open"): renewals outpace the lapsing, though one is missed.       *)
OpenIsRecorded == \A s \in active : Live(s)

(* What each flag should be.                                               *)
FlagsRight ==
  \A d \in Device : flag[d] # "absent" =>
    ((flag[d] = "online") <=>
       d \notin switchedOff /\ \E s \in Socket : DeviceOf[s] = d /\ Live(s))

(* Whatever raced, failed or died, once things calm down every flag comes  *)
(* to be right and stays so, as long as some process runs (connections.py: *)
(* "those of a process that died lapse, and a missed change is put         *)
(* right").                                                                *)
FlagsConverge == <>[](\E p \in Process : Up(p)) => <>[]FlagsRight

=============================================================================
