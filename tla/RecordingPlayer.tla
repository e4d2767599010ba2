--------------------------- MODULE RecordingPlayer ---------------------------
(***************************************************************************)
(* The player of recorded clips, widgets/recording_player.dart: every      *)
(* selection asks for a URL, creates a VideoPlayerController for it and    *)
(* initializes that; each of these may end long after another selection.   *)
(*                                                                         *)
(* _selectionId only ever tells one selection from another, so selections  *)
(* are values, and one that nothing is under way for may be used again.    *)
(* The controller of a selection is named by it.                           *)
(***************************************************************************)
EXTENDS Naturals

CONSTANTS Clips, NoClip, Selections, NoSelection

ASSUME PlayerAssumption == NoClip \notin Clips /\ NoSelection \notin Selections

VARIABLES onScreen,    \* the player is mounted
          shown,       \* widget.recording
          selection,   \* _selectionId, NoSelection when _ready is null
          step,        \* step[s]: how far the future of selection s has come
          clip,        \* clip[s]: the clip whose URL it asked for
          controller,  \* _controller
          open         \* the controllers created and not disposed

recorded == <<onScreen, shown, selection, step, clip, controller, open>>

PlayerInit == /\ onScreen = FALSE /\ shown = NoClip
              /\ selection = NoSelection
              /\ step = [s \in Selections |-> "free"]
              /\ clip = [s \in Selections |-> NoClip]
              /\ controller = NoSelection /\ open = {}

Ended(s) == step[s] \in {"ready", "failed"}

\* Selection s begins with a request for the URL of a clip; what the selection
\* before had finished is garbage.
Load(s, recording) ==
  /\ step[s] = "free" \/ (s = selection /\ Ended(s))
  /\ selection' = s
  /\ step' = [x \in Selections |->
       IF x = s THEN "url" ELSE IF Ended(x) THEN "free" ELSE step[x]]
  /\ clip' = [x \in Selections |->
       IF x = s THEN recording ELSE IF Ended(x) THEN NoClip ELSE clip[x]]

\* No clip is selected any more; a future under way ends by itself.
Deselect ==
  /\ selection' = NoSelection
  /\ step' = [x \in Selections |-> IF Ended(x) THEN "free" ELSE step[x]]
  /\ clip' = [x \in Selections |-> IF Ended(x) THEN NoClip ELSE clip[x]]

\* Slip: the previous controller is dropped, not disposed.
LeakySelect(recording) ==
  /\ controller' = NoSelection /\ UNCHANGED open
  /\ IF recording = NoClip THEN Deselect
     ELSE \E s \in Selections : Load(s, recording)

\* _select: the previous controller goes, and the new clip, if there is one, is
\* asked for.
Select(recording) ==
  /\ controller' = NoSelection /\ open' = open \ {controller}
  /\ IF recording = NoClip THEN Deselect
     ELSE \E s \in Selections : Load(s, recording)

\* initState, or didUpdateWidget with another clip.
Show(recording) == /\ onScreen' = TRUE /\ shown' = recording
                   /\ Select(recording)

\* dispose
Hide == /\ onScreen' = FALSE /\ shown' = NoClip
        /\ controller' = NoSelection /\ open' = open \ {controller}
        /\ Deselect

\* The future of selection s comes to an end; nobody waits for that of an earlier
\* selection.
End(s, result) ==
  /\ step' = [step EXCEPT ![s] = IF s = selection THEN result ELSE "free"]
  /\ clip' = [clip EXCEPT ![s] = IF s = selection THEN @ ELSE NoClip]

\* Slip: whichever URL comes is played.
LateUrlArrives(s) ==
  /\ step[s] = "url"
  /\ step' = [step EXCEPT ![s] = "init"]
  /\ controller' = s /\ open' = (open \ {controller}) \cup {s}
  /\ UNCHANGED <<onScreen, shown, selection, clip>>

\* A URL for another selection than the last is dropped.
UrlArrives(s) ==
  /\ step[s] = "url"
  /\ End(s, "init")
  /\ IF s = selection THEN controller' = s /\ open' = open \cup {s}
     ELSE UNCHANGED <<controller, open>>
  /\ UNCHANGED <<onScreen, shown, selection>>

\* initialize() completes, or it fails, or the request for the URL did, or 30
\* seconds are over.
Settle(s) ==
  /\ \/ step[s] = "init" /\ End(s, "ready")
     \/ step[s] \in {"url", "init"} /\ End(s, "failed")
  /\ UNCHANGED <<onScreen, shown, selection, controller, open>>

\* The retry button; loadUrl reads the screen's selected clip when it is called.
Retry(selected) == /\ selection # NoSelection /\ step[selection] = "failed"
                   /\ selected # NoClip
                   /\ Select(selected)
                   /\ UNCHANGED <<onScreen, shown>>
=============================================================================
