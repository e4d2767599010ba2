---------------------------- MODULE CameraScreen ----------------------------
(***************************************************************************)
(* CameraLiveScreen, screens/camera_live_screen.dart, with the players it  *)
(* shows: WhepPlayer in live mode, RecordingPlayer in history mode.  What  *)
(* the user presses changes the screen's state at once; the players follow *)
(* when the next frame is built, and their callbacks come in between.      *)
(***************************************************************************)
EXTENDS WhepPlayer, RecordingPlayer

VARIABLES data,      \* the future _data: the cameras and a live session
          history,   \* _showHistory
          selected,  \* _selectedRecording
          fresh      \* the live session's token has not expired

screen == <<data, history, selected, fresh>>
vars == <<whep, recorded, screen>>

Init == /\ WhepInit /\ PlayerInit
        /\ data = "loading" /\ history = FALSE /\ selected = NoClip /\ fresh = TRUE

ShowsLive == data = "ready" /\ ~history
ShowsHistory == data = "ready" /\ history

\* A frame is due.
Dirty == ShowsLive # alive \/ ShowsHistory # onScreen \/ (onScreen /\ shown # selected)

\* The next frame mounts, updates and disposes the players.
Build ==
  /\ Dirty
  /\ IF ShowsLive /\ ~alive THEN Mount
     ELSE IF alive /\ ~ShowsLive THEN Unmount ELSE UNCHANGED player
  /\ IF ShowsHistory /\ (~onScreen \/ shown # selected) THEN Show(selected)
     ELSE IF onScreen /\ ~ShowsHistory THEN Hide ELSE UNCHANGED recorded
  /\ UNCHANGED <<served, screen>>

\* _load ends, after a frame that shows its spinner.
Loaded == /\ data = "loading" /\ ~alive /\ ~onScreen
          /\ \/ data' = "ready" /\ fresh' = TRUE
             \/ data' = "failed" /\ UNCHANGED fresh
          /\ UNCHANGED <<whep, recorded, history, selected>>

ReloadLive == /\ alive \/ onScreen
              /\ data' = "loading" /\ history' = FALSE
              /\ UNCHANGED <<whep, recorded, selected, fresh>>

\* Slip: what is reset is taken for a selection of the player.
ConfusedLoadHistory == /\ alive \/ onScreen
                       /\ history' = TRUE /\ selected' = NoSelection
                       /\ UNCHANGED <<whep, recorded, data, fresh>>

LoadHistory == /\ alive \/ onScreen
               /\ history' = TRUE /\ selected' = NoClip
               /\ UNCHANGED <<whep, recorded, data, fresh>>

PlayRecording(k) == /\ onScreen
                    /\ selected' = k
                    /\ UNCHANGED <<whep, recorded, data, history, fresh>>

\* Slip: a refused token is an error like any other.
IgnoringPostRefused(s) ==
  /\ stage[s] = "posting" /\ served /\ ~fresh
  /\ Return(s, TRUE)
  /\ UNCHANGED <<served, alive, state, peer, recorded, screen>>

\* MediaMTX answers the POST with 401: _handleLiveAuthenticationExpired, which
\* the history mode ignores, then the error of _start.
PostRefused(s) ==
  /\ stage[s] = "posting" /\ served /\ ~fresh
  /\ data' = IF history THEN data ELSE "loading"
  /\ Return(s, TRUE)
  /\ UNCHANGED <<served, alive, state, peer, recorded, history, selected, fresh>>

\* The five minutes of a token are longer than a start nothing gets in the way of.
TokenExpires == /\ fresh /\ fresh' = FALSE
                /\ ready \/ ~served \/ history
                /\ UNCHANGED <<whep, recorded, data, history, selected>>

LivePlayer == /\ Progress \/ (fresh /\ \E s \in Starts : PostAccepted(s))
              /\ UNCHANGED <<recorded, screen>>
ClipPlayer == /\ \E s \in Selections : UrlArrives(s) \/ Settle(s)
              /\ UNCHANGED <<whep, screen>>

\* The user sees the effect of one button before pressing the next.
User == /\ ~Dirty
        /\ \/ ReloadLive \/ LoadHistory \/ \E k \in Clips : PlayRecording(k)
           \/ Retry(selected) /\ UNCHANGED <<whep, screen>>
Echo == (\E c \in Connections : LateEvent(c)) /\ UNCHANGED <<recorded, screen>>
Next == \/ Build \/ Loaded \/ LivePlayer \/ ClipPlayer
        \/ \E s \in Starts : PostRefused(s)
        \/ User \/ Echo \/ TokenExpires
        \/ (Outage \/ Recover) /\ UNCHANGED <<recorded, screen>>

Spec == Init /\ [][Next]_vars

\* Frames are built, futures complete or time out, timers fire.
FairSpec == /\ Spec
            /\ WF_vars(Build) /\ WF_vars(Loaded) /\ WF_vars(ClipPlayer)
            /\ WF_vars(LivePlayer \/ \E s \in Starts : PostRefused(s))

---------------------------------------------------------------------------
(* Properties. *)

\* The types of the screen's and the players' variables.
ScreenTypeOK ==
  /\ data \in {"loading", "ready", "failed"}
  /\ {history, fresh, served, alive, timer, restarting, ready, error, onScreen} \subseteq BOOLEAN
  /\ {selected, shown} \subseteq Clips \cup {NoClip}
  /\ stage \in [Starts -> {"none", "stopping", "creating", "posting"}]
  /\ used \in [Starts -> Connections \cup {NoConnection}]
  /\ state \in [Connections -> {"none", "open", "answered", "connected", "broken",
                               "failed", "closed", "silent"}]
  /\ peer \in Connections \cup {NoConnection}
  /\ {selection, controller} \subseteq Selections \cup {NoSelection}
  /\ step \in [Selections -> {"free", "url", "init", "ready", "failed"}]
  /\ clip \in [Selections -> Clips \cup {NoClip}]
  /\ open \subseteq Selections

\* The live player always has something left that can bring the picture back:
\* after an error the timer or a restart, whose end looks at the error again
\* since _scheduleReconnect refuses meanwhile; otherwise a start, or a
\* connection that will deliver a track or break.
NeverStuck ==
  alive => /\ error => timer \/ restarting
           /\ \/ ready \/ timer \/ restarting \/ stage["first"] # "none"
              \/ peer # NoConnection /\ state[peer] \in {"answered", "broken"}

\* The player says that it has a picture only while the connection in use has
\* delivered one and the player has not heard of its end, whatever the events
\* and starts of earlier connections do.
PictureIsLive ==
  alive /\ ready => peer # NoConnection /\ state[peer] \in {"connected", "broken"}

\* No controller outlives its selection or the player: "A previous selection may
\* finish after the user changes clips or leaves."
NoControllerLeft == /\ open \subseteq {controller}
                    /\ ~onScreen => open = {}

\* Once the frame is built, what the player plays, or is about to play, is the
\* clip the user chose last; a player that says it is ready has a controller.
LastSelectionPlays ==
  onScreen /\ shown = selected =>
    /\ controller # NoSelection => clip[controller] = selected
    /\ selection # NoSelection /\ step[selection] = "ready" => controller \in open

\* When MediaMTX serves the camera again for good and the screen stays live, the
\* picture comes back and stays: through reconnections, and through a new
\* session when the token has expired meanwhile.  Two things prevent it.  A new
\* session that cannot be had leaves an error page without retry; and events of
\* closed connections, if they never cease, restart good ones for ever.
PictureComesBack ==
  <>[](served /\ ~history) /\ <>[][~ReloadLive /\ ~Echo]_vars
    => <>[](ready \/ data = "failed")
=============================================================================
