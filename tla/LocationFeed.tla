----------------------------- MODULE LocationFeed -----------------------------
(***************************************************************************)
(* The way of a stored fix to the users: LocationController.subscribe,     *)
(* broadcast and Stream, the GET of Current, and the location screen of    *)
(* the app (truck_location_screen.dart), composed with LocationStore.      *)
(*                                                                         *)
(* A screen loads the current row when it opens and whenever its refresh   *)
(* button is pressed, whatever its connection is doing; the end of a load  *)
(* closes the connection there is and opens another.  Over the WebSocket   *)
(* it shows whatever arrives; a connection that is lost is replaced two    *)
(* seconds later.  On the server each connection has a channel of capacity *)
(* one, filled by the broadcasts and emptied by the Stream handler.        *)
(*                                                                         *)
(* Abstractions.  What an ended connection still holds reaches nobody (the *)
(* screen cancels its subscription), so its channel ends with it.  The     *)
(* 404 of Current is NoFix.  Marker animation is left out.                 *)
(***************************************************************************)
EXTENDS LocationStore, Sequences

CONSTANTS Screens,   \* the location screens of one truck
          Loads,     \* bound: the loads a screen may have under way at once
          WireMax    \* bound: messages written and not yet read by the app

ASSUME WireAssumption == WireMax \in Nat \ {0}

VARIABLES
  spc,     \* spc[s]: how far the connection of screen s has come
  asked,   \* asked[s]: the loads of s that Current has not answered, each
           \*   with what the screen showed when it began
  sgot,    \* sgot[s]: the loads of s whose answer is on its way to s
  screen,  \* screen[s]: _location, NoFix when nothing is shown
  chan,    \* chan[s]: the update in the channel of s's connection, or NoFix
  wire,    \* wire[s]: the messages on their way to s
  latest   \* latest[s]: the last broadcast since s was subscribed, or NoFix

feedVars == <<spc, asked, sgot, screen, chan, wire, latest>>
vars == <<storeVars, feedVars>>

Init == /\ StoreInit
        /\ spc = [s \in Screens |-> "closed"]
        /\ asked = [s \in Screens |-> {}]
        /\ sgot = [s \in Screens |-> {}]
        /\ screen = [s \in Screens |-> NoFix]
        /\ chan = [s \in Screens |-> NoFix]
        /\ wire = [s \in Screens |-> <<>>]
        /\ latest = [s \in Screens |-> NoFix]
-----------------------------------------------------------------------------
(* _loadInitialLocation sends its GET. *)
Ask(s) == \E l \in Loads :
            /\ \A a \in asked[s] \cup sgot[s] : a.load # l
            /\ asked' = [asked EXCEPT ![s] = @ \cup {[load |-> l, shown |-> screen[s]]}]

(* initState: the screen loads the current location. *)
OpenScreen(s) == /\ spc[s] = "closed"
                 /\ Ask(s)
                 /\ spc' = [spc EXCEPT ![s] = "loading"]
                 /\ UNCHANGED <<storeVars, sgot, screen, chan, wire, latest>>

(* The refresh button, at any time: the connection is left alone for now. *)
Refresh(s) == /\ spc[s] # "closed"
              /\ Ask(s)
              /\ UNCHANGED <<storeVars, spc, sgot, screen, chan, wire, latest>>

(* Current reads the row for load a. *)
ReadCurrent(s, a) ==
  /\ a \in asked[s]
  /\ asked' = [asked EXCEPT ![s] = @ \ {a}]
  /\ sgot' = [sgot EXCEPT ![s] = @ \cup {[load |-> a.load, shown |-> a.shown, row |-> state]}]
  /\ UNCHANGED <<storeVars, spc, screen, chan, wire, latest>>

(* The connection of s is over for both sides, its channel with it. *)
EndConnection(s, then) ==
  /\ spc' = [spc EXCEPT ![s] = then]
  /\ chan' = [chan EXCEPT ![s] = NoFix]
  /\ wire' = [wire EXCEPT ![s] = <<>>]
  /\ latest' = [latest EXCEPT ![s] = NoFix]

(* Slip: the connection there is stays open beside the answer. *)
ApplyBeside(s, a) ==
  /\ a \in sgot[s]
  /\ screen' = [screen EXCEPT ![s] = IF a.row = NoFix THEN @ ELSE a.row]
  /\ sgot' = [sgot EXCEPT ![s] = @ \ {a}]
  /\ spc' = [spc EXCEPT ![s] = IF @ = "subscribed" THEN @ ELSE "connecting"]
  /\ UNCHANGED <<storeVars, asked, chan, wire, latest>>

(* The answer arrives: _applyLocation, whatever the screen shows by now,   *)
(* and then _connectSocket, which ends the connection or the wait for one. *)
ApplyCurrent(s, a) ==
  /\ a \in sgot[s]
  /\ screen' = [screen EXCEPT ![s] = IF a.row = NoFix THEN @ ELSE a.row]
  /\ sgot' = [sgot EXCEPT ![s] = @ \ {a}]
  /\ EndConnection(s, "connecting")
  /\ UNCHANGED <<storeVars, asked>>

(* The request fails: `finally` connects all the same. *)
LoadFails(s, a) ==
  /\ a \in asked[s] \cup sgot[s]
  /\ asked' = [asked EXCEPT ![s] = @ \ {a}]
  /\ sgot' = [sgot EXCEPT ![s] = @ \ {a}]
  /\ EndConnection(s, "connecting")
  /\ UNCHANGED <<storeVars, screen>>

(* websocket.Accept: the app is told it is connected. *)
Accept(s) == /\ spc[s] = "connecting"
             /\ spc' = [spc EXCEPT ![s] = "accepted"]
             /\ UNCHANGED <<storeVars, asked, sgot, screen, chan, wire, latest>>

(* The Stream handler calls subscribe. *)
Subscribe(s) == /\ spc[s] = "accepted"
                /\ spc' = [spc EXCEPT ![s] = "subscribed"]
                /\ UNCHANGED <<storeVars, asked, sgot, screen, chan, wire, latest>>

(* Slip: the handler does not wait for an update. *)
TakeAnything(s) == /\ spc[s] = "subscribed"
                   /\ Len(wire[s]) < WireMax
                   /\ wire' = [wire EXCEPT ![s] = Append(@, chan[s])]
                   /\ chan' = [chan EXCEPT ![s] = NoFix]
                   /\ UNCHANGED <<storeVars, spc, asked, sgot, screen, latest>>

(* The handler takes the update and writes it. *)
Take(s) == /\ spc[s] = "subscribed"
           /\ chan[s] # NoFix
           /\ Len(wire[s]) < WireMax
           /\ wire' = [wire EXCEPT ![s] = Append(@, chan[s])]
           /\ chan' = [chan EXCEPT ![s] = NoFix]
           /\ UNCHANGED <<storeVars, spc, asked, sgot, screen, latest>>

(* Slip: a screen that shows something ignores what comes. *)
DeliverFirst(s) ==
  /\ wire[s] # <<>>
  /\ screen' = [screen EXCEPT ![s] = IF @ = NoFix THEN Head(wire[s]) ELSE @]
  /\ wire' = [wire EXCEPT ![s] = Tail(@)]
  /\ UNCHANGED <<storeVars, spc, asked, sgot, chan, latest>>

(* The app reads a message: _applyLocation, whatever its recordedAt. *)
Deliver(s) == /\ wire[s] # <<>>
              /\ screen' = [screen EXCEPT ![s] = Head(wire[s])]
              /\ wire' = [wire EXCEPT ![s] = Tail(@)]
              /\ UNCHANGED <<storeVars, spc, asked, sgot, chan, latest>>

(* Refused, lost, or a write took five seconds: _scheduleReconnect. *)
Disconnect(s) == /\ spc[s] \in {"connecting", "accepted", "subscribed"}
                 /\ EndConnection(s, "waiting")
                 /\ UNCHANGED <<storeVars, asked, sgot, screen>>

(* The timer: _connectSocket again; the current row is not loaded. *)
Reconnect(s) == /\ spc[s] = "waiting"
                /\ spc' = [spc EXCEPT ![s] = "connecting"]
                /\ UNCHANGED <<storeVars, asked, sgot, screen, chan, wire, latest>>

(* dispose: an answer that comes later finds the screen not mounted. *)
CloseScreen(s) == /\ spc[s] # "closed"
                  /\ EndConnection(s, "closed")
                  /\ asked' = [asked EXCEPT ![s] = {}]
                  /\ sgot' = [sgot EXCEPT ![s] = {}]
                  /\ screen' = [screen EXCEPT ![s] = NoFix]
                  /\ UNCHANGED storeVars

Subscribers == {s \in Screens : spc[s] = "subscribed"}

(* Slip: a full channel keeps what it has. *)
BroadcastIfEmpty(h) ==
  /\ chan' = [s \in Screens |-> IF s \in Subscribers /\ chan[s] = NoFix
                                THEN hout[h] ELSE chan[s]]
  /\ latest' = [s \in Screens |-> IF s \in Subscribers THEN hout[h] ELSE latest[s]]

(* broadcast, under c.mu: what a full channel holds is dropped first. *)
Broadcast(h) ==
  /\ chan' = [s \in Screens |-> IF s \in Subscribers THEN hout[h] ELSE chan[s]]
  /\ latest' = [s \in Screens |-> IF s \in Subscribers THEN hout[h] ELSE latest[s]]

AnnounceToAll(h) == /\ Announce(h)
                    /\ Broadcast(h)
                    /\ UNCHANGED <<spc, asked, sgot, screen, wire>>

Load(s) == \/ \E a \in asked[s] : ReadCurrent(s, a)
           \/ \E a \in sgot[s] : ApplyCurrent(s, a)
           \/ \E a \in asked[s] \cup sgot[s] : LoadFails(s, a)

ScreenNext(s) == \/ OpenScreen(s) \/ Refresh(s) \/ Load(s) \/ Accept(s) \/ Subscribe(s)
                 \/ Take(s) \/ Deliver(s) \/ Disconnect(s) \/ Reconnect(s)
                 \/ CloseScreen(s)

Next == \/ Quiet /\ UNCHANGED feedVars
        \/ \E h \in Handlers : AnnounceToAll(h)
        \/ \E s \in Screens : ScreenNext(s)

Spec == Init /\ [][Next]_vars

(***************************************************************************)
(* Fairness.  The Stream handler blocks on nothing but its channel and a   *)
(* write of at most five seconds, and the app's event loop reads what has  *)
(* arrived.  Nobody has to post, load, connect or stay connected.          *)
(***************************************************************************)
FairSpec == /\ Spec
            /\ \A s \in Screens : WF_vars(Take(s)) /\ WF_vars(Deliver(s))
-----------------------------------------------------------------------------
Asked == [load : Loads, shown : Location \cup {NoFix}]
Answered == [load : Loads, shown : Location \cup {NoFix}, row : Location \cup {NoFix}]

\* Every variable has its type.
FeedTypeOK ==
  /\ StoreTypeOK
  /\ spc \in [Screens -> {"closed", "loading", "connecting", "accepted",
                          "subscribed", "waiting"}]
  /\ asked \in [Screens -> SUBSET Asked]
  /\ sgot \in [Screens -> SUBSET Answered]
  /\ screen \in [Screens -> Location \cup {NoFix}]
  /\ chan \in [Screens -> Location \cup {NoFix}]
  /\ wire \in [Screens -> Seq(Location)]
  /\ latest \in [Screens -> Location \cup {NoFix}]

\* "want newest latitude" (controllers/location_controller_test.go 21): the
\* last thing the pipeline of a subscriber will show is the last broadcast,
\* however many were dropped because the channel was full.
NewestDelivered ==
  \A s \in Subscribers : latest[s] # NoFix =>
    IF chan[s] # NoFix THEN chan[s] = latest[s]
    ELSE IF wire[s] # <<>> THEN wire[s][Len(wire[s])] = latest[s]
    ELSE screen[s] = latest[s]

\* What the refresh button brings is never older than what the screen showed
\* when it was pressed, however many handlers save and announce meanwhile: a
\* load may take a screen back over what it received since, never over more.
RefreshIsCurrent ==
  \A s \in Screens : \A a \in sgot[s] :
    a.shown # NoFix => a.row # NoFix /\ a.shown.rec <= a.row.rec

\* The messages of the connections never take a screen back, also when loads,
\* lost updates and new connections come between them: only the answer of a
\* load, read before the last message was announced, is applied over it
\* (truck_location_screen.dart 80, which compares nothing).
BroadcastsForward ==
  [][\A s \in Screens :
       /\ screen[s] # NoFix /\ screen'[s] # NoFix
       /\ ~\E a \in sgot[s] : ApplyCurrent(s, a)
       => screen[s].rec <= screen'[s].rec]_vars

\* What a subscriber has in its channel is shown, or a location recorded
\* later, while the connection lasts.
BroadcastShown ==
  \A s \in Screens, n \in 0 .. MaxClock + Skew :
    (s \in Subscribers /\ chan[s] # NoFix /\ chan[s].rec >= n)
      ~> (s \notin Subscribers \/ (screen[s] # NoFix /\ screen[s].rec >= n))

\* "loads the latest fix from GET ..., then receives new fixes from the
\* WebSocket endpoint" (README.md 178): when a fix has been announced, a
\* subscribed screen with nothing left to receive shows none older.
AnnouncedFixIsSeen ==
  \A h \in Handlers, s \in Subscribers :
    hpc[h] = "created" /\ chan[s] = NoFix /\ wire[s] = <<>> /\ screen[s] # NoFix
      => screen[s].rec >= hout[h].rec
=============================================================================
