----------------------------- MODULE TruckStatus -----------------------------
(***************************************************************************)
(* The status of trucks and cameras: the three goroutines of               *)
(* services/status_service.go over the tables trucks and cameras.          *)
(*                                                                         *)
(* ListenUDP applies the heartbeats of the trucks, MonitorOffline takes    *)
(* silent cameras offline, MonitorMediaMTX brings publishing cameras       *)
(* online; the last two rewrite every truck's status from its cameras.     *)
(* They share nothing but the database, and none of their loops is a       *)
(* transaction: each statement is a step.  The UPDATE that refreshes the   *)
(* trucks is two steps: at PostgreSQL's default isolation it writes what   *)
(* it computed from a snapshot taken when it began.                        *)
(*                                                                         *)
(* Abstractions.  last_seen_at is the age of the last report, cut above    *)
(* Timeout, where it makes no difference.  A datagram the listener rejects *)
(* (malformed, no truckId, no status) is a lost one.  A camera's main and  *)
(* sub stream are one.  The tickers are the monitors being free to start   *)
(* another round.                                                          *)
(***************************************************************************)
EXTENDS Naturals, FiniteSets

CONSTANTS Trucks,
          Cameras,     \* camera ids, which trucks may have in common
          Rows,        \* the rows of cameras: pairs of a truck and a camera id
          OnRoad,      \* the trucks that ever send anything
          Statuses,    \* the words a datagram may use: the code takes any
          Timeout,     \* CAMERA_OFFLINE_TIMEOUT
          Never,       \* last_seen_at IS NULL
          NoTruck,
          MaxInFlight  \* bound: datagrams on their way at once

ASSUME RowsAssumption == Rows \subseteq Trucks \X Cameras /\ OnRoad \subseteq Trucks
ASSUME StatusesAssumption == {"online", "offline"} \subseteq Statuses
ASSUME TimeoutAssumption == Timeout \in Nat /\ Never \notin Nat
ASSUME NoTruckAssumption == NoTruck \notin Trucks

Monitors == {"staleness", "streams"}  \* MonitorOffline and MonitorMediaMTX
Heartbeats == UNION {[S -> Statuses] : S \in SUBSET Cameras}
Datagram == [truck : OnRoad, status : Statuses, cameras : Heartbeats]

VARIABLES
  truckStatus,  \* trucks.status
  camStatus,    \* cameras.status
  age,          \* age[r]: NOW() - last_seen_at, or Never
  up,           \* the trucks that are switched on
  live,         \* the cameras MediaMTX reports as online
  net,          \* the datagrams sent and neither read for good nor lost
  lpc,          \* the next statement of ListenUDP
  truck, told,  \* of the datagram it is at: its truck and status,
  todo,         \* and the camera heartbeats not applied yet
  mpc,          \* mpc[m]: the next statement of monitor m
  seen,         \* seen[m]: the trucks m's refresh found a camera online of
  publishing    \* the cameras MonitorMediaMTX still has to bring online

tables == <<truckStatus, camStatus, age>>
outside == <<up, live, net>>
listener == <<lpc, truck, told, todo>>
monitors == <<mpc, seen, publishing>>
vars == <<tables, outside, listener, monitors>>

NoHeartbeats == [c \in {} |-> "offline"]

Idle == /\ lpc = "reading" /\ truck = NoTruck /\ told = "offline" /\ todo = NoHeartbeats
        /\ mpc = [m \in Monitors |-> "waiting"]
        /\ seen = [m \in Monitors |-> {}]
        /\ publishing = {}

Init == /\ truckStatus = [t \in Trucks |-> "offline"]
        /\ camStatus = [r \in Rows |-> "offline"]
        /\ age = [r \in Rows |-> Never]
        /\ up = {} /\ live = {} /\ net = {}
        /\ Idle

-----------------------------------------------------------------------------
(* The trucks, their publishers, the network and the clock. *)
SwitchOn(t) == /\ t \in OnRoad \ up
               /\ up' = up \cup {t}
               /\ UNCHANGED <<tables, live, net, listener, monitors>>

SwitchOff(t) == /\ t \in up
                /\ up' = up \ {t}
                /\ UNCHANGED <<tables, live, net, listener, monitors>>

(* MediaMTX asks MediaMTXController.Auth, which lets a truck with its       *)
(* password publish a camera that has a row.                               *)
Publish(r) == /\ r \in Rows \ live /\ r[1] \in up
              /\ live' = live \cup {r}
              /\ UNCHANGED <<tables, up, net, listener, monitors>>

(* MediaMTX notices at some time that a publisher is gone. *)
Unpublish(r) == /\ r \in live
                /\ live' = live \ {r}
                /\ UNCHANGED <<tables, up, net, listener, monitors>>

Send(d) == /\ d.truck \in up
           /\ Cardinality(net) < MaxInFlight
           /\ net' = net \cup {d}
           /\ UNCHANGED <<tables, up, live, listener, monitors>>

Lose(d) == /\ d \in net
           /\ net' = net \ {d}
           /\ UNCHANGED <<tables, up, live, listener, monitors>>

Tick == /\ age' = [r \in Rows |-> IF age[r] = Never \/ age[r] = Timeout + 1
                                  THEN age[r] ELSE age[r] + 1]
        /\ UNCHANGED <<truckStatus, camStatus, outside, listener, monitors>>

-----------------------------------------------------------------------------
(* Slip: the update forgets last_seen_at. *)
UpdateStatusOnly(t, c, status) ==
  /\ camStatus' = [camStatus EXCEPT ![<<t, c>>] = status]
  /\ UNCHANGED age

(* Slip: the update looks for the camera id alone. *)
UpdateEveryTruck(t, c, status) ==
  /\ camStatus' = [r \in Rows |-> IF r[2] = c THEN status ELSE camStatus[r]]
  /\ age' = [r \in Rows |-> IF r[2] = c THEN 0 ELSE age[r]]

(* UpdateCameraStatus: no row, no effect. *)
UpdateCameraStatus(t, c, status) ==
  /\ camStatus' = [camStatus EXCEPT ![<<t, c>>] = status]
  /\ age' = [age EXCEPT ![<<t, c>>] = 0]

(* ReadFromUDP: any datagram on its way, which may come once more. *)
ReadFromUDP(d) ==
  /\ lpc = "reading"
  /\ d \in net
  /\ net' \in {net, net \ {d}}
  /\ lpc' = "updating"
  /\ truck' = d.truck /\ told' = d.status /\ todo' = d.cameras
  /\ UNCHANGED <<tables, up, live, monitors>>

(* Slip: the datagram is declared outside the loop and outlives its turn. *)
GoOnAbout(rest) ==
  /\ todo' = rest
  /\ told' = "offline"
  /\ lpc' = IF DOMAIN rest = {} THEN "reading" ELSE "cameras"
  /\ UNCHANGED truck

(* The listener goes on with the heartbeats in rest, or reads again. *)
GoOn(rest) ==
  /\ todo' = rest
  /\ told' = "offline"
  /\ \/ /\ DOMAIN rest # {}
        /\ lpc' = "cameras"
        /\ UNCHANGED truck
     \/ /\ DOMAIN rest = {}
        /\ lpc' = "reading"
        /\ truck' = NoTruck

UpdateTruckStatus ==
  /\ lpc = "updating"
  /\ truckStatus' = [truckStatus EXCEPT ![truck] = told]
  /\ GoOn(todo)
  /\ UNCHANGED <<camStatus, age, outside, monitors>>

(* The statement fails: the camera heartbeats are dropped with it. *)
UpdateTruckFails ==
  /\ lpc = "updating"
  /\ GoOn(NoHeartbeats)
  /\ UNCHANGED <<tables, outside, monitors>>

Without(c) == [x \in DOMAIN todo \ {c} |-> todo[x]]

(* One turn of the loop over the cameras, in any order. *)
ApplyHeartbeat(c) ==
  /\ lpc = "cameras" /\ c \in DOMAIN todo
  /\ UpdateCameraStatus(truck, c, todo[c])
  /\ GoOn(Without(c))
  /\ UNCHANGED <<truckStatus, outside, monitors>>

HeartbeatFails(c) ==
  /\ lpc = "cameras" /\ c \in DOMAIN todo
  /\ GoOn(Without(c))
  /\ UNCHANGED <<tables, outside, monitors>>

-----------------------------------------------------------------------------
Stale(r) == camStatus[r] # "offline" /\ age[r] # Never /\ age[r] > Timeout

(* MarkStaleCamerasOffline, one statement. *)
MarkStale ==
  /\ mpc["staleness"] = "waiting"
  /\ camStatus' = [r \in Rows |-> IF Stale(r) THEN "offline" ELSE camStatus[r]]
  /\ mpc' = [mpc EXCEPT !["staleness"] = "refresh"]
  /\ UNCHANGED <<truckStatus, age, outside, listener, seen, publishing>>

(* It fails: the trucks are refreshed all the same. *)
MarkFails ==
  /\ mpc["staleness"] = "waiting"
  /\ mpc' = [mpc EXCEPT !["staleness"] = "refresh"]
  /\ UNCHANGED <<tables, outside, listener, seen, publishing>>

(* MediaMTX answers with the paths that are online now.  When it does not, *)
(* nothing happens until the next tick.                                    *)
Poll ==
  /\ mpc["streams"] = "waiting"
  /\ publishing' = live
  /\ mpc' = [mpc EXCEPT !["streams"] = IF live = {} THEN "refresh" ELSE "syncing"]
  /\ UNCHANGED <<tables, outside, listener, seen>>

(* One camera of the answer is done with. *)
Synced(r) ==
  /\ publishing' = publishing \ {r}
  /\ mpc' = [mpc EXCEPT !["streams"] = IF publishing = {r} THEN "refresh" ELSE @]
  /\ UNCHANGED <<truckStatus, outside, listener, seen>>

SyncCamera(r) == /\ mpc["streams"] = "syncing" /\ r \in publishing
                 /\ UpdateCameraStatus(r[1], r[2], "online")
                 /\ Synced(r)

SyncFails(r) == /\ mpc["streams"] = "syncing" /\ r \in publishing
                /\ Synced(r)
                /\ UNCHANGED <<camStatus, age>>

(* RefreshTruckStatusesFromCameras: the subquery reads its snapshot, ... *)
ReadCameras(m) ==
  /\ mpc[m] = "refresh"
  /\ seen' = [seen EXCEPT ![m] =
                {t \in Trucks : \E r \in Rows : r[1] = t /\ camStatus[r] = "online"}]
  /\ mpc' = [mpc EXCEPT ![m] = "writing"]
  /\ UNCHANGED <<tables, outside, listener, publishing>>

(* Slip: the trucks without a camera online are not in the WHERE. *)
WriteOnline(m) ==
  /\ mpc[m] = "writing"
  /\ truckStatus' = [t \in Trucks |-> IF t \in seen[m] THEN "online"
                                                       ELSE truckStatus[t]]
  /\ seen' = [seen EXCEPT ![m] = {}]
  /\ mpc' = [mpc EXCEPT ![m] = "waiting"]
  /\ UNCHANGED <<camStatus, age, outside, listener, publishing>>

(* Slip: the trucks with a camera online are not in the WHERE. *)
WriteOffline(m) ==
  /\ mpc[m] = "writing"
  /\ truckStatus' = [t \in Trucks |-> IF t \in seen[m] THEN truckStatus[t]
                                                       ELSE "offline"]
  /\ seen' = [seen EXCEPT ![m] = {}]
  /\ mpc' = [mpc EXCEPT ![m] = "waiting"]
  /\ UNCHANGED <<camStatus, age, outside, listener, publishing>>

(* ... and the rows of trucks are written. *)
WriteTrucks(m) ==
  /\ mpc[m] = "writing"
  /\ truckStatus' = [t \in Trucks |-> IF t \in seen[m] THEN "online" ELSE "offline"]
  /\ seen' = [seen EXCEPT ![m] = {}]
  /\ mpc' = [mpc EXCEPT ![m] = "waiting"]
  /\ UNCHANGED <<camStatus, age, outside, listener, publishing>>

RefreshFails(m) ==
  /\ mpc[m] = "writing"
  /\ seen' = [seen EXCEPT ![m] = {}]
  /\ mpc' = [mpc EXCEPT ![m] = "waiting"]
  /\ UNCHANGED <<tables, outside, listener, publishing>>

(* The process ends and starts again; the database stays. *)
Restart == /\ lpc' = "reading" /\ truck' = NoTruck /\ told' = "offline"
           /\ todo' = NoHeartbeats
           /\ mpc' = [m \in Monitors |-> "waiting"]
           /\ seen' = [m \in Monitors |-> {}]
           /\ publishing' = {}
           /\ UNCHANGED <<tables, outside>>

Outside == \/ \E t \in OnRoad : SwitchOn(t) \/ SwitchOff(t)
           \/ \E r \in Rows : Publish(r) \/ Unpublish(r)
           \/ \E d \in Datagram : Send(d)
           \/ \E d \in net : Lose(d)
           \/ Tick

HandleDatagram == \/ UpdateTruckStatus \/ UpdateTruckFails
                  \/ \E c \in Cameras : ApplyHeartbeat(c) \/ HeartbeatFails(c)

Refresh(m) == ReadCameras(m) \/ WriteTrucks(m) \/ RefreshFails(m)

MonitorOffline == MarkStale \/ MarkFails \/ Refresh("staleness")

MonitorMediaMTX == \/ Poll \/ Refresh("streams")
                   \/ \E r \in Rows : SyncCamera(r) \/ SyncFails(r)

Next == \/ Outside
        \/ \E d \in net : ReadFromUDP(d)
        \/ HandleDatagram \/ MonitorOffline \/ MonitorMediaMTX
        \/ Restart

Spec == Init /\ [][Next]_vars

(***************************************************************************)
(* Fairness.  Time passes; a datagram does not travel for ever.  The       *)
(* goroutines run: a loop that can go on does, and since the tickers never *)
(* stop a statement that is tried again and again succeeds in the end,     *)
(* restarts notwithstanding.  No truck has to be switched on, to send or   *)
(* to publish.                                                             *)
(***************************************************************************)
FairSpec == /\ Spec
            /\ WF_vars(Tick)
            /\ \A d \in Datagram : WF_vars(Lose(d))
            /\ WF_vars(HandleDatagram)
            /\ WF_vars(MonitorOffline) /\ WF_vars(MonitorMediaMTX)
            /\ SF_vars(MarkStale) /\ SF_vars(ReadCameras("staleness"))
            /\ SF_vars(WriteTrucks("staleness"))
-----------------------------------------------------------------------------
RowsOf(t) == {r \in Rows : r[1] = t}

\* Every variable has its type.
StatusTypeOK ==
  /\ truckStatus \in [Trucks -> Statuses]
  /\ camStatus \in [Rows -> Statuses]
  /\ age \in [Rows -> 0 .. Timeout + 1 \cup {Never}]
  /\ up \subseteq OnRoad /\ live \subseteq Rows /\ net \subseteq Datagram
  /\ lpc \in {"reading", "updating", "cameras"}
  /\ truck \in OnRoad \cup {NoTruck} /\ told \in Statuses /\ todo \in Heartbeats
  /\ lpc = "reading" <=> truck = NoTruck
  /\ mpc \in [Monitors -> {"waiting", "syncing", "refresh", "writing"}]
  /\ seen \in [Monitors -> SUBSET Trucks]
  /\ publishing \subseteq Rows

\* A camera that is shown online can be taken offline again: its row always
\* carries the time of a report, without which MarkStaleCamerasOffline skips it.
OnlineHasBeenSeen == \A r \in Rows : camStatus[r] # "offline" => age[r] # Never

\* A truck that has never sent anything is shown offline, and so are all its
\* cameras, whatever other trucks with the same camera ids report.
ParkedStaysOffline ==
  \A t \in Trucks \ OnRoad :
    /\ truckStatus[t] = "offline"
    /\ \A r \in RowsOf(t) : camStatus[r] = "offline" /\ age[r] = Never

\* "They become offline after the configured timeout when the publishers stop"
\* (README.md 158): of a truck that stays switched off and has no path left in
\* MediaMTX the cameras and the truck itself are shown offline for good, in
\* spite of datagrams that come late or twice, of an answer of MediaMTX that is
\* still being applied and of a refresh computed before.
SilenceMeansOffline ==
  \A t \in OnRoad :
    <>[](t \notin up /\ RowsOf(t) \cap live = {})
      => <>[](truckStatus[t] = "offline"
               /\ \A r \in RowsOf(t) : camStatus[r] = "offline")

\* While a camera stays online and no truck sends datagrams, its truck ends up
\* shown online for good, whatever it last said of itself and whatever refresh
\* was under way (RefreshTruckStatusesFromCameras, run by both monitors).
CameraCarriesTruck ==
  \A r \in Rows :
    <>[](camStatus[r] = "online" /\ up = {}) => <>[](truckStatus[r[1]] = "online")
=============================================================================
