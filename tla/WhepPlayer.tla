----------------------------- MODULE WhepPlayer -----------------------------
(***************************************************************************)
(* The live player of the app, widgets/whep_video_player.dart: one WebRTC  *)
(* connection after another, each begun by _start, and a timer that brings *)
(* the picture back.                                                       *)
(*                                                                         *)
(* Two _start may be under way: the "first", of initState, and "again",    *)
(* the one _restart waits for.  Their awaits are steps of their own, and   *)
(* the events of connections, the one in use or one that has been closed,  *)
(* come in between.                                                        *)
(*                                                                         *)
(* Abstractions. Connections are external; a closed one may deliver one    *)
(* more change of its state. onTrack, too, does not ask whose event it is; *)
(* the track is assumed to come while its connection is open, and is here  *)
(* after setRemoteDescription has returned, never just before. MediaMTX    *)
(* serves the camera, or does not, for all posts alike; a device that      *)
(* cannot make a connection counts as not served. The DELETE that ends a   *)
(* session is not modelled: its failure changes nothing, but it has no     *)
(* timeout and is assumed to end; close() is assumed not to throw. What a  *)
(* disposed player's _start still does is not either: it reaches no other  *)
(* player. The player's URL does not change while it is on the screen: a   *)
(* new session comes by way of the screen's spinner.                       *)
(***************************************************************************)
EXTENDS Naturals

CONSTANTS Connections, NoConnection

ASSUME ConnectionsAssumption == NoConnection \notin Connections

VARIABLES served,      \* the device can connect, and MediaMTX serves the camera
          alive,       \* the player is on the screen: mounted and not _disposing
          stage,       \* stage[s]: the await where _start s is
          used,        \* used[s]: its peerConnection
          state,       \* state[c]: the state of connection c
          peer,        \* _peerConnection
          timer,       \* _reconnectTimer is active
          restarting,  \* _restarting
          ready,       \* _ready
          error        \* _error # null

Starts == {"first", "again"}
player == <<alive, stage, used, state, peer, timer, restarting, ready, error>>
whep == <<served, player>>

NoStarts == [s \in Starts |-> "none"]
NoUse == [s \in Starts |-> NoConnection]
AllGone == [c \in Connections |-> "none"]

WhepInit == /\ served = TRUE /\ alive = FALSE
            /\ stage = NoStarts /\ used = NoUse /\ state = AllGone /\ peer = NoConnection
            /\ timer = FALSE /\ restarting = FALSE /\ ready = FALSE /\ error = FALSE

\* dispose
Unmount == /\ alive' = FALSE
           /\ stage' = NoStarts /\ used' = NoUse /\ state' = AllGone /\ peer' = NoConnection
           /\ timer' = FALSE /\ restarting' = FALSE /\ ready' = FALSE /\ error' = FALSE

\* initState
Mount == /\ ~alive
         /\ alive' = TRUE
         /\ stage' = [stage EXCEPT !["first"] = "creating"]
         /\ UNCHANGED <<used, state, peer, timer, restarting, ready, error>>

\* The picture is gone or did not come; _scheduleReconnect refuses while a
\* restart is running and leaves it to the end of that.
Interrupt == /\ ready' = FALSE /\ error' = TRUE
             /\ timer' = (timer \/ ~restarting)

\* Slip: _restart ends without looking at the error.
PlainReturn(s, failed) ==
  /\ stage' = [stage EXCEPT ![s] = "none"]
  /\ used' = [used EXCEPT ![s] = NoConnection]
  /\ IF s = "first"
     THEN IF failed THEN Interrupt /\ UNCHANGED restarting
          ELSE UNCHANGED <<ready, error, timer, restarting>>
     ELSE /\ restarting' = FALSE
          /\ ready' = (ready /\ ~failed) /\ error' = (error \/ failed)
          /\ UNCHANGED timer

\* The end of _start s, and, for "again", the finally of _restart.
Return(s, failed) ==
  /\ stage' = [stage EXCEPT ![s] = "none"]
  /\ used' = [used EXCEPT ![s] = NoConnection]
  /\ IF s = "first"
     THEN IF failed THEN Interrupt /\ UNCHANGED restarting
          ELSE UNCHANGED <<ready, error, timer, restarting>>
     ELSE /\ restarting' = FALSE
          /\ ready' = (ready /\ ~failed) /\ error' = (error \/ failed)
          /\ timer' = (timer \/ error')

\* createPeerConnection answers.
Create(s) ==
  /\ stage[s] = "creating"
  /\ \E c \in Connections :
       /\ state[c] = "none"
       /\ state' = [state EXCEPT ![c] = IF served THEN "open" ELSE "broken"]
       /\ used' = [used EXCEPT ![s] = c] /\ peer' = c
  /\ stage' = [stage EXCEPT ![s] = "posting"]
  /\ UNCHANGED <<served, alive, timer, restarting, ready, error>>

CreateFails(s) == /\ stage[s] = "creating" /\ ~served
                  /\ Return(s, TRUE)
                  /\ UNCHANGED <<served, alive, state, peer>>

\* The POST is answered with 201; setRemoteDescription throws when the
\* connection has been closed meanwhile.
PostAccepted(s) ==
  /\ stage[s] = "posting" /\ served
  /\ state' = [state EXCEPT ![used[s]] = IF @ = "open" THEN "answered" ELSE @]
  /\ Return(s, state[used[s]] \in {"closed", "silent"})
  /\ UNCHANGED <<served, alive, peer>>

PostFails(s) == /\ stage[s] = "posting" /\ ~served
                /\ Return(s, TRUE)
                /\ UNCHANGED <<served, alive, state, peer>>

\* onTrack
Track(c) == /\ state[c] = "answered"
            /\ state' = [state EXCEPT ![c] = "connected"]
            /\ ready' = TRUE /\ error' = FALSE
            /\ UNCHANGED <<served, alive, stage, used, peer, timer, restarting>>

\* onConnectionState: failed, disconnected, or closed.
Break(c) == /\ state[c] = "broken"
            /\ state' = [state EXCEPT ![c] = "failed"]
            /\ Interrupt
            /\ UNCHANGED <<served, alive, stage, used, peer, restarting>>

\* ... of a connection that _stop has closed: the player does not ask whose
\* event it is.
LateEvent(c) == /\ state[c] = "closed"
                /\ state' = [state EXCEPT ![c] = "silent"]
                /\ Interrupt
                /\ UNCHANGED <<served, alive, stage, used, peer, restarting>>

\* The timer starts _restart, unless one is running.
FireTimer ==
  /\ timer /\ timer' = FALSE
  /\ restarting' = TRUE
  /\ stage' = IF restarting THEN stage ELSE [stage EXCEPT !["again"] = "stopping"]
  /\ UNCHANGED <<served, alive, used, state, peer, ready, error>>

\* Slip: the screen keeps saying that the picture is there.
ReadyStopped ==
  /\ stage["again"] = "stopping"
  /\ state' = [c \in Connections |-> IF c = peer THEN "closed" ELSE state[c]]
  /\ peer' = NoConnection
  /\ error' = FALSE
  /\ stage' = [stage EXCEPT !["again"] = "creating"]
  /\ UNCHANGED <<served, alive, used, timer, restarting, ready>>

\* _stop has closed the connection; the new _start begins.
Stopped ==
  /\ stage["again"] = "stopping"
  /\ state' = [c \in Connections |-> IF c = peer THEN "closed" ELSE state[c]]
  /\ peer' = NoConnection
  /\ ready' = FALSE /\ error' = FALSE
  /\ stage' = [stage EXCEPT !["again"] = "creating"]
  /\ UNCHANGED <<served, alive, used, timer, restarting>>

\* A closed connection nothing refers to is garbage, and so is its name.
Collect(c) == /\ state[c] \in {"closed", "silent"} /\ \A s \in Starts : used[s] # c
              /\ state' = [state EXCEPT ![c] = "none"]
              /\ UNCHANGED <<served, alive, stage, used, peer, timer, restarting, ready, error>>

\* An outage breaks every connection there is.
Outage == /\ served /\ served' = FALSE
          /\ state' = [c \in Connections |->
               IF state[c] \in {"open", "answered", "connected"} THEN "broken" ELSE state[c]]
          /\ UNCHANGED <<alive, stage, used, peer, timer, restarting, ready, error>>

Recover == ~served /\ served' = TRUE /\ UNCHANGED player

\* What the player, the library and the server do of themselves.
Progress == \/ \E s \in Starts : Create(s) \/ CreateFails(s) \/ PostFails(s)
            \/ \E c \in Connections : Track(c) \/ Break(c) \/ Collect(c)
            \/ FireTimer \/ Stopped
=============================================================================
