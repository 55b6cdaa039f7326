------------------------------- MODULE Replay -------------------------------
(* The replay window of the user interface (ui_client/replay.rs, with its     *)
(* part of models.rs and events.rs), beside the record window that can open   *)
(* it (module Records).  A load and an export each run in a thread of their   *)
(* own; progress is dropped when the message queue is full, a result waits    *)
(* for room.                                                                  *)
EXTENDS Records

CONSTANTS Devices,
          DevicesOf,  \* DevicesOf[m]: the devices with rows of mode m, in order
          NoDevice,   \* an empty device field
          MaxReplays  \* bound: loads and exports together

Modes == {"can3axis", "sent"}
AnyDevice == Devices \cup {NoDevice}
LoadJobs == [id : Nat, mode : Modes, device : AnyDevice, downsampling : BOOLEAN, done : Nat]
ExportJobs == [mode : Modes, device : AnyDevice]
OnShow == [mode : Modes, device : AnyDevice, downsampling : BOOLEAN]

ASSUME ReplayAssumption ==
    /\ DevicesOf \in [Modes -> Seq(Devices)]
    /\ NoDevice \notin Devices /\ MaxReplays \in Nat
    /\ Nothing \notin LoadJobs \cup ExportJobs \cup OnShow

VARIABLES replay,    \* CanReplayState: what is chosen, what is shown
          loadJob,   \* the thread loading
          exportJob, \* the thread exporting
          replays

replayVars == <<replay, loadJob, exportJob, replays>>

ReplayInit ==
    /\ RecordsInit
    /\ replay = [mode |-> "can3axis", downsampling |-> TRUE, device |-> NoDevice,
                 loading |-> FALSE, exporting |-> FALSE, data |-> Nothing,
                 current |-> 0, total |-> 0]
    /\ loadJob = Nothing /\ exportJob = Nothing
    /\ replays = 0

\* The mode buttons and the downsampling box: not while loading, and what is
\* shown goes with a change.
Chosen(field, value) == [replay EXCEPT ![field] = value, !.data = Nothing]
ChooseMode(m) ==
    /\ ~replay.loading /\ m # replay.mode
    /\ replay' = Chosen("mode", m)
    /\ UNCHANGED <<recordsVars, loadJob, exportJob, replays>>
ToggleDownsampling ==
    /\ ~replay.loading
    /\ replay' = Chosen("downsampling", ~replay.downsampling)
    /\ UNCHANGED <<recordsVars, loadJob, exportJob, replays>>
TypeDevice(d) ==
    /\ ~replay.loading /\ ~replay.exporting
    /\ replay' = [replay EXCEPT !.device = d]
    /\ UNCHANGED <<recordsVars, loadJob, exportJob, replays>>

\* request_can_replay_load, from the state the caller has prepared.
RequestLoad(prepared) ==
    /\ replays < MaxReplays
    /\ replays' = replays + 1
    /\ IF prepared.loading
       THEN replay' = prepared /\ UNCHANGED loadJob
       ELSE /\ replay' = [prepared EXCEPT !.loading = TRUE, !.current = 0, !.total = 0]
            /\ loadJob' = [id |-> replays', mode |-> prepared.mode, device |-> prepared.device,
                           downsampling |-> prepared.downsampling, done |-> 0]
    /\ UNCHANGED <<recordsVars, exportJob>>
Load == ~replay.loading /\ RequestLoad(replay)

\* request_can_replay_export: its button waits for a load as well.
Export ==
    /\ ~replay.loading /\ ~replay.exporting
    /\ replays < MaxReplays
    /\ replays' = replays + 1
    /\ replay' = [replay EXCEPT !.exporting = TRUE]
    /\ exportJob' = [mode |-> replay.mode, device |-> replay.device]
    /\ UNCHANGED <<recordsVars, loadJob>>

\* Mutant: the record window may open a replay over a running one.
MayOpenAlways == TRUE

\* open_can_replay_from_alarm_records refuses while a load or an export runs.
MayOpen == ~replay.loading /\ ~replay.exporting
\* The mode follows the chosen groups.
OpenFromRecords ==
    /\ MayOpen
    /\ records.data \notin {Nothing, <<>>}
    /\ RequestLoad([replay EXCEPT
          !.mode = IF "can" \in filter.groups THEN "can3axis" ELSE "sent",
          !.data = Nothing])

\* progress_tx.try_send
Progress(done, total) ==
    IF Len(inbox) < InboxCap
    THEN inbox' = Append(inbox, [kind |-> "progress", id |-> loadJob.id, mode |-> loadJob.mode,
                                 done |-> done, total |-> total])
    ELSE UNCHANGED inbox

\* The thread counts its rows, then reports every interval it has read.  A
\* count of 1 stands for any number of rows.
RowsCounted == 1
LoadAdvances ==
    /\ loadJob # Nothing /\ loadJob.done <= RowsCounted
    /\ Progress(loadJob.done, RowsCounted)
    /\ loadJob' = [loadJob EXCEPT !.done = @ + 1]
    /\ UNCHANGED <<table, filter, records, pageJob, pageLoads, walk, replay, exportJob, replays>>

\* choose_replay_device: the one asked for, or the first that was found.
DeviceRead(job) ==
    IF job.device # NoDevice THEN job.device
    ELSE IF DevicesOf[job.mode] = <<>> THEN NoDevice ELSE DevicesOf[job.mode][1]

\* The result, once everything is read or the database has failed.
LoadEnds ==
    /\ loadJob # Nothing
    /\ Len(inbox) < InboxCap
    /\ \E ok \in BOOLEAN :
          /\ ok => loadJob.done > RowsCounted
          /\ inbox' = Append(inbox, [kind |-> "loaded", id |-> loadJob.id, mode |-> loadJob.mode, ok |-> ok,
                                     downsampling |-> loadJob.downsampling,
                                     device |-> DeviceRead(loadJob)])
    /\ loadJob' = Nothing
    /\ UNCHANGED <<table, filter, records, pageJob, pageLoads, walk, replay, exportJob, replays>>
ExportEnds ==
    /\ exportJob # Nothing
    /\ Len(inbox) < InboxCap
    /\ inbox' = Append(inbox, [kind |-> "exported"])
    /\ exportJob' = Nothing
    /\ UNCHANGED <<table, filter, records, pageJob, pageLoads, walk, replay, loadJob, replays>>

\* handle_ui_msg
Taken(kind) ==
    /\ inbox # <<>> /\ Head(inbox).kind = kind
    /\ inbox' = Tail(inbox)
    /\ UNCHANGED <<table, filter, records, pageJob, pageLoads, walk, loadJob, exportJob, replays>>
ProgressTaken ==
    /\ Taken("progress")
    /\ replay' = IF replay.loading /\ Head(inbox).mode = replay.mode
                 THEN [replay EXCEPT !.current = Head(inbox).done, !.total = Head(inbox).total]
                 ELSE replay
LoadedTaken ==
    /\ Taken("loaded")
    /\ LET result == Head(inbox)
       IN replay' =
            IF result.mode # replay.mode THEN replay
            ELSE IF result.ok
            THEN [replay EXCEPT !.loading = FALSE, !.device = result.device,
                                !.data = [mode |-> result.mode, device |-> result.device,
                                          downsampling |-> result.downsampling]]
            ELSE [replay EXCEPT !.loading = FALSE, !.data = Nothing]
ExportedTaken ==
    /\ Taken("exported")
    /\ replay' = [replay EXCEPT !.exporting = FALSE]

ReplayNext ==
    \/ RecordsNext /\ UNCHANGED replayVars
    \/ \E m \in Modes : ChooseMode(m)
    \/ \E d \in Devices \cup {NoDevice} : TypeDevice(d)
    \/ ToggleDownsampling \/ Load \/ Export \/ OpenFromRecords
    \/ LoadAdvances \/ LoadEnds \/ ExportEnds
    \/ ProgressTaken \/ LoadedTaken \/ ExportedTaken
ReplaySpec == ReplayInit /\ [][ReplayNext]_<<recordsVars, replayVars>>

------------------------------------------------------------------------------
Waiting(kind) == {i \in DOMAIN inbox : inbox[i].kind = kind}

\* The curves on show are of the mode and of the sampling that are chosen.
ShownAsAsked ==
    replay.data # Nothing =>
        replay.data.mode = replay.mode /\ replay.data.downsampling = replay.downsampling

(* A load always lands: while the window says "loading" exactly one load is   *)
(* under way, in its thread or in the queue, and its result is for the mode   *)
(* chosen now, so it will not be thrown away; and no progress of an earlier   *)
(* load is left to be shown as its own.  The export flag is exact as well,  *)
(* and what is on show is what was asked for.                                 *)
EveryLoadLands ==
    /\ ShownAsAsked
    /\ replay.exporting = (exportJob # Nothing \/ Waiting("exported") # {})
    /\ LET underWay == {inbox[i] : i \in Waiting("loaded")}
                       \cup (IF loadJob = Nothing THEN {} ELSE {loadJob})
       IN /\ replay.loading <=> underWay # {}
          /\ \A one, other \in underWay : one.id = other.id
          /\ \A one \in underWay :
                /\ one.mode = replay.mode
                /\ \A i \in Waiting("progress") : inbox[i].id = one.id
=============================================================================
