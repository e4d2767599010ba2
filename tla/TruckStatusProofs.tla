-------------------------- MODULE TruckStatusProofs --------------------------
(***************************************************************************)
(* TruckStatus keeps its types, every camera shown online carries the time *)
(* of a report, and a truck that never sent anything stays offline: for    *)
(* all trucks, cameras, timeouts and numbers of datagrams.                 *)
(***************************************************************************)
EXTENDS TruckStatus, TLAPS

\* What the goroutines have in hand is about trucks on the road only.
OnRoadOnly == /\ \A r \in live \cup publishing : r[1] \in OnRoad
              /\ \A m \in Monitors : seen[m] \subseteq OnRoad

\* The inductive invariant.
StatusInv == /\ StatusTypeOK
             /\ OnlineHasBeenSeen
             /\ ParkedStaysOffline
             /\ OnRoadOnly

\* A report of a truck on the road keeps the table typed, gives the row the
\* time of the report and leaves the rows of every parked truck alone.
LEMMA ReportKeeps ==
  ASSUME StatusTypeOK, OnlineHasBeenSeen,
         NEW t \in OnRoad, NEW c \in Cameras, NEW s \in Statuses,
         UpdateCameraStatus(t, c, s)
  PROVE  /\ camStatus' \in [Rows -> Statuses]
         /\ age' \in [Rows -> 0 .. Timeout + 1 \cup {Never}]
         /\ OnlineHasBeenSeen'
         /\ \A r \in Rows : r[1] \notin OnRoad =>
              camStatus'[r] = camStatus[r] /\ age'[r] = age[r]
<1>1. 0 \in 0 .. Timeout + 1 /\ 0 # Never
  BY TimeoutAssumption
<1>2. /\ camStatus' \in [Rows -> Statuses]
      /\ age' \in [Rows -> 0 .. Timeout + 1 \cup {Never}]
  BY <1>1 DEF StatusTypeOK, UpdateCameraStatus
<1>3. \A r \in Rows : r[1] \notin OnRoad => r # <<t, c>>
  OBVIOUS
<1>4. \A r \in Rows : r # <<t, c>> => camStatus'[r] = camStatus[r] /\ age'[r] = age[r]
  BY DEF StatusTypeOK, UpdateCameraStatus
<1>5. \A r \in Rows : r = <<t, c>> => age'[r] = 0
  BY DEF StatusTypeOK, UpdateCameraStatus
<1>6. OnlineHasBeenSeen'
  BY <1>1, <1>4, <1>5 DEF OnlineHasBeenSeen
<1> QED
  BY <1>2, <1>3, <1>4, <1>6

\* Going on with some of the heartbeats keeps the listener's variables typed.
LEMMA GoOnKeeps ==
  ASSUME StatusTypeOK, lpc # "reading", NEW rest \in Heartbeats, GoOn(rest)
  PROVE  /\ lpc' \in {"reading", "updating", "cameras"}
         /\ truck' \in OnRoad \cup {NoTruck}
         /\ told' \in Statuses
         /\ todo' \in Heartbeats
         /\ lpc' = "reading" <=> truck' = NoTruck
BY StatusesAssumption DEF StatusTypeOK, GoOn

\* No heartbeats are heartbeats, and so is what remains of some.
LEMMA HeartbeatsClosed ==
  /\ NoHeartbeats \in Heartbeats
  /\ StatusTypeOK => \A c \in Cameras : Without(c) \in Heartbeats
<1>1. NoHeartbeats \in [{} -> Statuses]
  BY DEF NoHeartbeats
<1>2. NoHeartbeats \in Heartbeats
  BY <1>1 DEF Heartbeats
<1>3. ASSUME StatusTypeOK, NEW c \in Cameras
      PROVE  Without(c) \in Heartbeats
  <2>1. PICK S \in SUBSET Cameras : todo \in [S -> Statuses]
    BY <1>3 DEF StatusTypeOK, Heartbeats
  <2>2. Without(c) \in [S \ {c} -> Statuses]
    BY <2>1 DEF Without
  <2>3. S \ {c} \in SUBSET Cameras
    BY <2>1
  <2> QED
    BY <2>2, <2>3 DEF Heartbeats
<1> QED
  BY <1>2, <1>3

LEMMA InitStatusInv == Init => StatusInv
<1> SUFFICES ASSUME Init PROVE StatusInv
  OBVIOUS
<1> USE DEF Init, Idle
<1>1. StatusTypeOK
  BY HeartbeatsClosed, StatusesAssumption DEF StatusTypeOK, Monitors
<1>2. OnlineHasBeenSeen
  BY DEF OnlineHasBeenSeen
<1>3. ParkedStaysOffline
  BY DEF ParkedStaysOffline, RowsOf
<1>4. OnRoadOnly
  BY DEF OnRoadOnly
<1> QED
  BY <1>1, <1>2, <1>3, <1>4 DEF StatusInv

LEMMA OutsideKeeps == StatusInv /\ Outside => StatusInv'
<1> SUFFICES ASSUME StatusInv, Outside PROVE StatusInv'
  OBVIOUS
<1> USE DEF StatusInv, tables, outside, listener, monitors
<1>1. ASSUME NEW t \in OnRoad, SwitchOn(t) \/ SwitchOff(t) PROVE StatusInv'
  BY <1>1 DEF SwitchOn, SwitchOff, StatusTypeOK, OnlineHasBeenSeen,
              ParkedStaysOffline, OnRoadOnly
<1>2. ASSUME NEW r \in Rows, Publish(r) \/ Unpublish(r) PROVE StatusInv'
  BY <1>2 DEF Publish, Unpublish, StatusTypeOK, OnlineHasBeenSeen,
              ParkedStaysOffline, OnRoadOnly
<1>3. ASSUME NEW d \in Datagram, Send(d) PROVE StatusInv'
  BY <1>3 DEF Send, StatusTypeOK, OnlineHasBeenSeen, ParkedStaysOffline, OnRoadOnly
<1>4. ASSUME NEW d \in net, Lose(d) PROVE StatusInv'
  BY <1>4 DEF Lose, StatusTypeOK, OnlineHasBeenSeen, ParkedStaysOffline, OnRoadOnly
<1>5. ASSUME Tick PROVE StatusInv'
  <2>1. age' \in [Rows -> 0 .. Timeout + 1 \cup {Never}]
    BY <1>5, TimeoutAssumption DEF Tick, StatusTypeOK
  <2>2. \A r \in Rows : age'[r] = Never <=> age[r] = Never
    BY <1>5, TimeoutAssumption DEF Tick, StatusTypeOK
  <2>3. StatusTypeOK'
    BY <1>5, <2>1 DEF Tick, StatusTypeOK
  <2>4. OnlineHasBeenSeen'
    BY <1>5, <2>2 DEF Tick, OnlineHasBeenSeen
  <2>5. ParkedStaysOffline'
    BY <1>5, <2>2 DEF Tick, ParkedStaysOffline, RowsOf
  <2>6. OnRoadOnly'
    BY <1>5 DEF Tick, OnRoadOnly
  <2> QED
    BY <2>3, <2>4, <2>5, <2>6
<1> QED
  BY <1>1, <1>2, <1>3, <1>4, <1>5 DEF Outside

LEMMA ListenerKeeps ==
  StatusInv /\ ((\E d \in net : ReadFromUDP(d)) \/ HandleDatagram) => StatusInv'
<1> SUFFICES ASSUME StatusInv, (\E d \in net : ReadFromUDP(d)) \/ HandleDatagram
             PROVE  StatusInv'
  OBVIOUS
<1> USE DEF StatusInv, tables, outside, listener, monitors
<1>1. ASSUME NEW d \in net, ReadFromUDP(d) PROVE StatusInv'
  <2>1. d \in Datagram /\ d.truck \in OnRoad /\ d.status \in Statuses
          /\ d.cameras \in Heartbeats /\ d.truck # NoTruck
    BY RowsAssumption, NoTruckAssumption DEF StatusTypeOK, Datagram
  <2>2. StatusTypeOK'
    BY <1>1, <2>1 DEF ReadFromUDP, StatusTypeOK
  <2> QED
    BY <1>1, <2>2 DEF ReadFromUDP, OnlineHasBeenSeen, ParkedStaysOffline, OnRoadOnly
<1>2. ASSUME UpdateTruckStatus PROVE StatusInv'
  <2>1. truck \in OnRoad /\ lpc # "reading" /\ todo \in Heartbeats
    BY <1>2 DEF UpdateTruckStatus, StatusTypeOK
  <2>2. StatusTypeOK'
    BY <1>2, <2>1, GoOnKeeps DEF UpdateTruckStatus, StatusTypeOK
  <2>3. \A t \in Trucks \ OnRoad : truckStatus'[t] = truckStatus[t]
    BY <1>2, <2>1 DEF UpdateTruckStatus, StatusTypeOK
  <2> QED
    BY <1>2, <2>2, <2>3 DEF UpdateTruckStatus, OnlineHasBeenSeen,
                            ParkedStaysOffline, RowsOf, OnRoadOnly
<1>3. ASSUME UpdateTruckFails PROVE StatusInv'
  <2>1. StatusTypeOK'
    BY <1>3, GoOnKeeps, HeartbeatsClosed DEF UpdateTruckFails, StatusTypeOK
  <2> QED
    BY <1>3, <2>1 DEF UpdateTruckFails, OnlineHasBeenSeen, ParkedStaysOffline, OnRoadOnly
<1>4. ASSUME NEW c \in Cameras, ApplyHeartbeat(c) PROVE StatusInv'
  <2>1. truck \in OnRoad /\ lpc # "reading"
    BY <1>4 DEF ApplyHeartbeat, StatusTypeOK
  <2>2. todo[c] \in Statuses
    BY <1>4 DEF ApplyHeartbeat, StatusTypeOK, Heartbeats
  <2>3. UpdateCameraStatus(truck, c, todo[c])
    BY <1>4 DEF ApplyHeartbeat
  <2>4. /\ camStatus' \in [Rows -> Statuses]
        /\ age' \in [Rows -> 0 .. Timeout + 1 \cup {Never}]
        /\ OnlineHasBeenSeen'
        /\ \A r \in Rows : r[1] \notin OnRoad =>
             camStatus'[r] = camStatus[r] /\ age'[r] = age[r]
    BY <2>1, <2>2, <2>3, ReportKeeps
  <2>5. StatusTypeOK'
    BY <1>4, <2>1, <2>4, GoOnKeeps, HeartbeatsClosed DEF ApplyHeartbeat, StatusTypeOK
  <2>6. ParkedStaysOffline'
    BY <1>4, <2>4 DEF ApplyHeartbeat, ParkedStaysOffline, RowsOf
  <2> QED
    BY <1>4, <2>4, <2>5, <2>6 DEF ApplyHeartbeat, OnRoadOnly
<1>5. ASSUME NEW c \in Cameras, HeartbeatFails(c) PROVE StatusInv'
  <2>1. lpc # "reading"
    BY <1>5 DEF HeartbeatFails
  <2>2. StatusTypeOK'
    BY <1>5, <2>1, GoOnKeeps, HeartbeatsClosed DEF HeartbeatFails, StatusTypeOK
  <2> QED
    BY <1>5, <2>2 DEF HeartbeatFails, OnlineHasBeenSeen, ParkedStaysOffline, OnRoadOnly
<1> QED
  BY <1>1, <1>2, <1>3, <1>4, <1>5 DEF HandleDatagram

\* The refresh of either monitor.
LEMMA RefreshKeeps ==
  ASSUME StatusInv, NEW m \in Monitors, Refresh(m)
  PROVE  StatusInv'
<1> USE DEF StatusInv, tables, outside, listener, monitors
<1>1. CASE ReadCameras(m)
  <2> DEFINE found == {t \in Trucks : \E r \in Rows : r[1] = t /\ camStatus[r] = "online"}
  <2>1. found \subseteq OnRoad
    BY DEF ParkedStaysOffline, RowsOf
  <2>2. seen' = [seen EXCEPT ![m] = found] /\ seen' \in [Monitors -> SUBSET Trucks]
    BY <1>1 DEF ReadCameras, StatusTypeOK
  <2>3. StatusTypeOK'
    BY <1>1, <2>2 DEF ReadCameras, StatusTypeOK
  <2>4. OnRoadOnly'
    BY <1>1, <2>1, <2>2 DEF ReadCameras, StatusTypeOK, OnRoadOnly
  <2> QED
    BY <1>1, <2>3, <2>4 DEF ReadCameras, OnlineHasBeenSeen, ParkedStaysOffline
<1>2. CASE WriteTrucks(m)
  <2>1. StatusTypeOK'
    BY <1>2, StatusesAssumption DEF WriteTrucks, StatusTypeOK
  <2>2. ParkedStaysOffline'
    BY <1>2 DEF WriteTrucks, ParkedStaysOffline, RowsOf, OnRoadOnly
  <2>3. OnRoadOnly'
    BY <1>2 DEF WriteTrucks, StatusTypeOK, OnRoadOnly
  <2> QED
    BY <1>2, <2>1, <2>2, <2>3 DEF WriteTrucks, OnlineHasBeenSeen
<1>3. CASE RefreshFails(m)
  <2>1. StatusTypeOK' /\ OnRoadOnly'
    BY <1>3 DEF RefreshFails, StatusTypeOK, OnRoadOnly
  <2> QED
    BY <1>3, <2>1 DEF RefreshFails, OnlineHasBeenSeen, ParkedStaysOffline
<1> QED
  BY <1>1, <1>2, <1>3 DEF Refresh

LEMMA MonitorsKeep == StatusInv /\ (MonitorOffline \/ MonitorMediaMTX) => StatusInv'
<1> SUFFICES ASSUME StatusInv, MonitorOffline \/ MonitorMediaMTX PROVE StatusInv'
  OBVIOUS
<1> USE DEF StatusInv, tables, outside, listener, monitors
<1>1. ASSUME MarkStale PROVE StatusInv'
  <2>1. \A r \in Rows : camStatus'[r] \in {"offline", camStatus[r]}
    BY <1>1 DEF MarkStale
  <2>2. StatusTypeOK'
    BY <1>1, StatusesAssumption DEF MarkStale, StatusTypeOK, Monitors
  <2> QED
    BY <1>1, <2>1, <2>2 DEF MarkStale, OnlineHasBeenSeen, ParkedStaysOffline,
                            RowsOf, OnRoadOnly
<1>2. ASSUME MarkFails \/ Poll PROVE StatusInv'
  BY <1>2 DEF MarkFails, Poll, StatusTypeOK, Monitors, OnlineHasBeenSeen,
              ParkedStaysOffline, OnRoadOnly
<1>3. ASSUME NEW r \in Rows, SyncCamera(r) PROVE StatusInv'
  <2>1. r[1] \in OnRoad /\ r[2] \in Cameras /\ "online" \in Statuses
    BY <1>3, RowsAssumption, StatusesAssumption DEF SyncCamera, OnRoadOnly
  <2>2. UpdateCameraStatus(r[1], r[2], "online")
    BY <1>3 DEF SyncCamera
  <2>3. /\ camStatus' \in [Rows -> Statuses]
        /\ age' \in [Rows -> 0 .. Timeout + 1 \cup {Never}]
        /\ OnlineHasBeenSeen'
        /\ \A q \in Rows : q[1] \notin OnRoad =>
             camStatus'[q] = camStatus[q] /\ age'[q] = age[q]
    BY <2>1, <2>2, ReportKeeps
  <2>4. StatusTypeOK'
    BY <1>3, <2>3 DEF SyncCamera, Synced, StatusTypeOK
  <2>5. ParkedStaysOffline'
    BY <1>3, <2>3 DEF SyncCamera, Synced, ParkedStaysOffline, RowsOf
  <2>6. OnRoadOnly'
    BY <1>3 DEF SyncCamera, Synced, OnRoadOnly
  <2> QED
    BY <2>3, <2>4, <2>5, <2>6
<1>4. ASSUME NEW r \in Rows, SyncFails(r) PROVE StatusInv'
  BY <1>4 DEF SyncFails, Synced, StatusTypeOK, OnlineHasBeenSeen,
              ParkedStaysOffline, OnRoadOnly
<1> QED
  BY <1>1, <1>2, <1>3, <1>4, RefreshKeeps
     DEF MonitorOffline, MonitorMediaMTX, Monitors

LEMMA NextStatusInv == StatusInv /\ [Next]_vars => StatusInv'
<1> SUFFICES ASSUME StatusInv, [Next]_vars PROVE StatusInv'
  OBVIOUS
<1>1. CASE Restart
  BY <1>1, HeartbeatsClosed, StatusesAssumption
     DEF Restart, StatusInv, tables, outside, StatusTypeOK, Monitors,
         OnlineHasBeenSeen, ParkedStaysOffline, OnRoadOnly
<1>2. CASE UNCHANGED vars
  BY <1>2 DEF vars, tables, outside, listener, monitors, StatusInv, StatusTypeOK,
              OnlineHasBeenSeen, ParkedStaysOffline, OnRoadOnly
<1> QED
  BY <1>1, <1>2, OutsideKeeps, ListenerKeeps, MonitorsKeep DEF Next

LEMMA SpecStatusInv == Spec => []StatusInv
BY InitStatusInv, NextStatusInv, PTL DEF Spec

\* Every variable has its type, for any number of trucks and cameras.
THEOREM StatusTypeCorrect == Spec => []StatusTypeOK
<1>1. StatusInv => StatusTypeOK
  BY DEF StatusInv
<1> QED
  BY <1>1, SpecStatusInv, PTL

\* A camera shown online can always be found stale: MarkStaleCamerasOffline
\* never skips it for want of a last_seen_at.
THEOREM OnlineHasBeenSeenHolds == Spec => []OnlineHasBeenSeen
<1>1. StatusInv => OnlineHasBeenSeen
  BY DEF StatusInv
<1> QED
  BY <1>1, SpecStatusInv, PTL

\* The reports of the trucks on the road never touch a parked truck, although
\* camera ids are shared: the WHERE of UpdateCameraStatus and the refresh keep
\* trucks apart.
THEOREM ParkedStaysOfflineHolds == Spec => []ParkedStaysOffline
<1>1. StatusInv => ParkedStaysOffline
  BY DEF StatusInv
<1> QED
  BY <1>1, SpecStatusInv, PTL
=============================================================================
