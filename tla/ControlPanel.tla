---------------------------- MODULE ControlPanel ----------------------------
(***************************************************************************)
(* The dashboard's control panel: a device is selected, its backend is     *)
(* switched on and off, and recalibrations are triggered and stopped.      *)
(* The cards for this and the one for notices share only the error that    *)
(* may stand instead of them, so a behaviour is of one card at work.       *)
(***************************************************************************)
EXTENDS NoticesCard

CONSTANTS
    Device,    \* the names of devices
    MaxRuns,   \* how many recalibrations there may be of a device
    MaxMoves,  \* how many things the admin does with devices, selecting one included
    MaxOthers  \* changes that are not made by the admin

ASSUME PanelAssumption == Device # {} /\ {MaxRuns, MaxMoves, MaxOthers} \subseteq Nat

VARIABLES
    card,      \* the card at work
    devices,   \* each device: its flag in MSS, how it was switched last, its recalibrations so
               \* far, and whether one is going on
    selected,  \* selectedDevice
    known,     \* each device's query: of its flag, or of its recalibration
    dialog,    \* the dialog that asks for confirmation is open
    muts,      \* the mutations that were begun
    picks, others

devicesVars == <<devices, selected, known, dialog, muts, picks, others>>
vars == <<card, noticesVars, panelVars, devicesVars>>

-----------------------------------------------------------------------------
DeviceState == [online : BOOLEAN, switched : BOOLEAN, runs : 0..MaxRuns, active : BOOLEAN]
Info        == [online : BOOLEAN, runs : 0..MaxRuns, active : BOOLEAN]

\* What MSS says of a device
InfoOf(d) == [online |-> devices[d].online, runs |-> devices[d].runs, active |-> devices[d].active]
NoInfo    == [online |-> FALSE, runs |-> 0, active |-> FALSE]

\* A mutation: whether its hook shows it, the devices whose fetches it awaits, whether the
\* first fetch that it awaited was its own, and the recalibration that it triggered
Mutation ==
    [kind : {"on", "off", "trigger", "stop"}, device : Device,
     stage : {"sent", "handled", "refused", "first", "second", "told"},
     seen : BOOLEAN, awaits : SUBSET Device, fresh : BOOLEAN, run : 0..MaxRuns]

\* A type invariant: every variable of the panel is of its type.
TypeOK ==
    /\ NoticesTypeOK
    /\ card \in {"switch", "calibration", "notices"}
    /\ devices \in [Device -> DeviceState]
    /\ selected \in Device
    /\ known \in [Device -> QueryOf(Info)]
    /\ dialog \in BOOLEAN
    /\ \A i \in DOMAIN muts : muts[i] \in Mutation
    /\ Len(muts) <= steps
    /\ picks \in 0..MaxMoves /\ others \in 0..MaxOthers

\* The loader has the devices; the selected one's queries are fetched on mounting
Init ==
    /\ card \in {"switch", "calibration", "notices"}
    /\ NoticesInit
    /\ broken = FALSE /\ steps = 0 /\ failures = 0
    /\ devices = [d \in Device |-> [online |-> TRUE, switched |-> TRUE, runs |-> 0, active |-> FALSE]]
    /\ selected = CHOOSE d \in Device : TRUE
    /\ known = [d \in Device |-> IF d = selected THEN Refetch(NewQuery(NoInfo)) ELSE NewQuery(NoInfo)]
    /\ dialog = FALSE
    /\ muts = <<>>
    /\ picks = 0 /\ others = 0

-----------------------------------------------------------------------------
\* The admin

Does == steps < MaxSteps /\ steps + picks < MaxMoves /\ steps' = steps + 1

\* Another device is selected: its query is mounted, and the hooks, whose keys name the
\* device, forget their mutations, which go on
setSelectedDeviceName(d) ==
    /\ steps + picks < MaxMoves
    /\ picks' = picks + 1
    /\ d # selected /\ ~dialog
    /\ selected' = d
    /\ known' = [known EXCEPT ![d] = Refetch(@)]
    /\ muts' = [i \in DOMAIN muts |-> [muts[i] EXCEPT !.seen = FALSE]]
    /\ UNCHANGED <<devices, dialog, others, panelVars>>

isPending(kinds) ==
    \E i \in DOMAIN muts : muts[i].seen /\ muts[i].kind \in kinds /\ muts[i].stage # "told"

Begins(kind) ==
    /\ Does
    /\ muts' = Append(muts, [kind |-> kind, device |-> selected, stage |-> "sent", seen |-> TRUE,
                             awaits |-> {}, fresh |-> FALSE, run |-> 0])
    /\ dialog' = FALSE
    /\ UNCHANGED <<devices, selected, known, picks, others, broken, failures>>

opensDialog ==
    /\ ~dialog /\ steps < MaxSteps
    /\ dialog' = TRUE
    /\ UNCHANGED <<devices, selected, known, muts, picks, others, panelVars>>

\* The switch, once the device is known: on at once, off when it is confirmed
handleToggle ==
    /\ card = "switch"
    /\ known[selected].has /\ ~dialog
    /\ ~isPending({"on", "off"})
    /\ IF known[selected].data.online THEN opensDialog ELSE Begins("on")

BackendToggle == card = "switch" /\ dialog /\ Begins("off")

\* isRunning: what a recalibration's button is for
isRunning == known[selected].has /\ known[selected].data.active
Offered   == IF isRunning THEN "stop" ELSE "trigger"

\* The one button of both, which is off while the like is pending
CalibrationActions ==
    /\ card = "calibration"
    /\ ~isPending({Offered})
    /\ opensDialog

\* The dialog is confirmed, for what is offered by then
onConfirm == card = "calibration" /\ dialog /\ Begins(Offered)

ConfirmDialog ==
    /\ dialog
    /\ dialog' = FALSE
    /\ UNCHANGED <<devices, selected, known, muts, picks, others, panelVars>>

-----------------------------------------------------------------------------
\* MSS and the backends

\* A backend takes the order, and its flag in MSS follows by an event
switchBackend(i) ==
    /\ muts[i].stage = "sent" /\ muts[i].kind \in {"on", "off"}
    /\ devices' = [devices EXCEPT ![muts[i].device].switched = (muts[i].kind = "on")]
    /\ muts' = [muts EXCEPT ![i].stage = "handled"]
    /\ UNCHANGED <<selected, known, dialog, picks, others, panelVars>>

\* A recalibration is started if none is going on
startRecalibration(i) ==
    LET d == muts[i].device
    IN  /\ muts[i].stage = "sent" /\ muts[i].kind = "trigger"
        /\ devices[d].runs < MaxRuns
        /\ IF devices[d].active
           THEN muts' = [muts EXCEPT ![i].stage = "refused"] /\ UNCHANGED devices
           ELSE /\ devices' = [devices EXCEPT ![d].active = TRUE, ![d].runs = @ + 1]
                /\ muts' = [muts EXCEPT ![i].stage = "handled", ![i].run = devices[d].runs + 1]
        /\ UNCHANGED <<selected, known, dialog, picks, others, panelVars>>

stopRecalibration(i) ==
    LET d == muts[i].device
    IN  /\ muts[i].stage = "sent" /\ muts[i].kind = "stop"
        /\ muts' = [muts EXCEPT ![i].stage = IF devices[d].active THEN "handled" ELSE "refused"]
        /\ devices' = [devices EXCEPT ![d].active = FALSE]
        /\ UNCHANGED <<selected, known, dialog, picks, others, panelVars>>

requestFails(i) ==
    /\ failures < MaxFailures
    /\ muts[i].stage \in {"sent", "handled"}
    /\ failures' = failures + 1
    /\ muts' = [muts EXCEPT ![i].stage = "refused"]
    /\ UNCHANGED <<devices, selected, known, dialog, picks, others, broken, steps>>

\* The event of a device that was switched reaches MSS
deviceFollows(d) ==
    /\ devices[d].online # devices[d].switched
    /\ devices' = [devices EXCEPT ![d].online = devices[d].switched]
    /\ UNCHANGED <<selected, known, dialog, muts, picks, others, panelVars>>

\* A recalibration ends, another admin starts one, or a device comes and goes
deviceChanges(d) ==
    /\ others < MaxOthers
    /\ others' = others + 1
    /\ \/ /\ card = "calibration"
          /\ \/ devices[d].active /\ devices' = [devices EXCEPT ![d].active = FALSE]
             \/ /\ ~devices[d].active /\ devices[d].runs < MaxRuns
                /\ devices' = [devices EXCEPT ![d].active = TRUE, ![d].runs = @ + 1]
       \/ /\ card = "switch"
          /\ devices' = [devices EXCEPT ![d].online = ~@, ![d].switched = ~devices[d].online]
    /\ UNCHANGED <<selected, known, dialog, muts, picks, panelVars>>

-----------------------------------------------------------------------------
\* The mutations' answers

\* A fetch of a device's that is dropped is awaited no longer
Released(ms, d) ==
    [i \in DOMAIN ms |->
       [ms[i] EXCEPT !.awaits = @ \ {d}, !.fresh = @ /\ (ms[i].device = d => d \notin ms[i].awaits)]]

\* invalidateQueries: a device that is not selected has no observer, and is not fetched
Invalidates(i, d, stage) ==
    IF d = selected
    THEN /\ known' = [known EXCEPT ![d] = Invalidate(@)]
         /\ muts' = [(IF JoinsFirstFetch(known[d]) THEN muts ELSE Released(muts, d))
                       EXCEPT ![i].stage = stage, ![i].awaits = {d},
                              ![i].fresh = \/ /\ stage = "first" /\ d = muts[i].device
                                              /\ ~JoinsFirstFetch(known[d])
                                           \/ muts[i].fresh]
    ELSE /\ muts' = [muts EXCEPT ![i].stage = stage, ![i].awaits = {}]
         /\ UNCHANGED known

\* Mutant: a poll or a fetch in flight will do
refetchesCalibCache(i) ==
    /\ muts[i].stage = "handled"
    /\ known' = [known EXCEPT ![muts[i].device] = Refetch(@)]
    /\ muts' = [muts EXCEPT ![i].stage = "first", ![i].awaits = {muts[i].device}, ![i].fresh = TRUE]
    /\ UNCHANGED <<devices, selected, dialog, picks, others, panelVars>>

\* onSuccess invalidates all devices' queries, of which the selected one's is on the page, or
\* the query of the mutation's own recalibration
refreshCalibCache(i) ==
    /\ muts[i].stage = "handled"
    /\ Invalidates(i, IF card = "switch" THEN selected ELSE muts[i].device, "first")
    /\ UNCHANGED <<devices, selected, dialog, picks, others, panelVars>>

\* and then the device, or the calibration, whose query the model leaves out
secondRefresh(i) ==
    /\ muts[i].stage = "first" /\ muts[i].awaits = {}
    /\ IF card = "switch" THEN Invalidates(i, muts[i].device, "second")
       ELSE muts' = [muts EXCEPT ![i].stage = "second"] /\ UNCHANGED known
    /\ UNCHANGED <<devices, selected, dialog, picks, others, panelVars>>

toast(i) ==
    /\ muts[i].stage = "second" /\ muts[i].awaits = {}
    /\ muts' = [muts EXCEPT ![i].stage = "told"]
    /\ UNCHANGED <<devices, selected, known, dialog, picks, others, panelVars>>

\* throwOnError: what fails after another device was selected is told to nobody
onError(i) ==
    /\ muts[i].stage = "refused"
    /\ muts' = [muts EXCEPT ![i].stage = "told"]
    /\ broken' = muts[i].seen
    /\ UNCHANGED <<devices, selected, known, dialog, picks, others, steps, failures>>

-----------------------------------------------------------------------------
\* The queries

\* Mutant: a device is fetched on mounting only
pollsNever ==
    /\ FALSE
    /\ UNCHANGED <<devicesVars, panelVars>>

poll ==
    /\ known[selected].fetch = "idle"
    /\ known' = [known EXCEPT ![selected] = Refetch(@)]
    /\ UNCHANGED <<devices, selected, dialog, muts, picks, others, panelVars>>

getDeviceQuery(d) ==
    /\ known[d].fetch = "sent"
    /\ known' = [known EXCEPT ![d] = Answer(@, InfoOf(d))]
    /\ UNCHANGED <<devices, selected, dialog, muts, picks, others, panelVars>>

deviceArrives(d) ==
    /\ known[d].fetch = "answered"
    /\ known' = [known EXCEPT ![d] = Applied(@)]
    /\ muts' = [i \in DOMAIN muts |-> [muts[i] EXCEPT !.awaits = @ \ {d}]]
    /\ UNCHANGED <<devices, selected, dialog, picks, others, panelVars>>

deviceFetchFails(d) ==
    /\ failures < MaxFailures /\ known[d].fetch # "idle"
    /\ failures' = failures + 1
    /\ broken' = (d = selected)
    /\ known' = [known EXCEPT ![d] = Dropped(@)]
    /\ muts' = Released(muts, d)
    /\ UNCHANGED <<devices, selected, dialog, picks, others, steps>>

-----------------------------------------------------------------------------
DevicesAnswer(i) ==
    switchBackend(i) \/ startRecalibration(i) \/ stopRecalibration(i) \/ refreshCalibCache(i)
    \/ secondRefresh(i) \/ toast(i) \/ onError(i)
DevicesFetch(d) == getDeviceQuery(d) \/ deviceArrives(d)

DevicesNext ==
    \/ \E d \in Device : setSelectedDeviceName(d) \/ deviceFollows(d) \/ deviceChanges(d)
                         \/ DevicesFetch(d) \/ deviceFetchFails(d)
    \/ handleToggle \/ BackendToggle \/ CalibrationActions \/ onConfirm \/ ConfirmDialog
    \/ \E i \in DOMAIN muts : DevicesAnswer(i) \/ requestFails(i)
    \/ poll

Notices(A) == ~broken /\ card = "notices" /\ A /\ UNCHANGED <<card, devicesVars>>
Devices(A) == ~broken /\ card # "notices" /\ A /\ UNCHANGED <<card, noticesVars>>

Next ==
    \/ ~broken /\ card = "notices" /\ NoticesNext /\ UNCHANGED <<card, devicesVars>>
    \/ ~broken /\ card # "notices" /\ DevicesNext /\ UNCHANGED <<card, noticesVars>>

\* The browser polls as long as the panel is there, and requests are answered or fail
Fairness ==
    /\ WF_vars(Notices(pollNotices)) /\ WF_vars(Notices(pollCount))
    /\ WF_vars(Notices(ListFetch)) /\ WF_vars(Notices(CountFetch))
    /\ WF_vars(Devices(poll)) /\ \A d \in Device : WF_vars(Devices(DevicesFetch(d)))
    /\ \A i \in 1..MaxSteps :
         /\ WF_vars(Notices(i \in DOMAIN ops /\ NoticesAnswer(i)))
         /\ WF_vars(Devices(i \in DOMAIN muts /\ DevicesAnswer(i)))

Spec == Init /\ [][Next]_vars /\ Fairness

-----------------------------------------------------------------------------
\* After "Recalibration started", the card knows of the recalibration, and no longer offers
\* to trigger what is going on, if the refetch that the mutation awaited was its own: an
\* answer from before the recalibration is not what it shows.
StartedIsKnown ==
    \A i \in DOMAIN muts :
        LET m == muts[i]
        IN  m.kind = "trigger" /\ m.stage \in {"second", "told"} /\ m.fresh
              => known[m.device].data.runs >= m.run

\* Unless the panel breaks, it ends with what MSS has of the selected device, or of the
\* notices in force when the card last took the time: a switch's flag, which follows after
\* the toast, comes with a poll.
PanelConverges ==
    <>[](broken \/ IF card = "notices" THEN NoticesConverge
                   ELSE known[selected].has /\ known[selected].data = InfoOf(selected))
=============================================================================
