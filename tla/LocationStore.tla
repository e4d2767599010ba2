---------------------------- MODULE LocationStore ----------------------------
(***************************************************************************)
(* POST /api/trucks/{truckID}/locations: LocationController.Create, the    *)
(* stop state of services/location_service.go and the tables of one truck  *)
(* (db.CurrentTruckLocation, db.SaveTruckLocation).  Trucks share nothing. *)
(*                                                                         *)
(* A handler reads the current row, computes the stop state from it and    *)
(* writes it in a transaction of its own; several handlers interleave      *)
(* between those statements.                                               *)
(*                                                                         *)
(* Abstractions.  A position is a place; Near holds of two places at most  *)
(* stopRadiusM apart.  A speed is "moving" or not (stopSpeedKmh).  Of the  *)
(* checks of ValidateLocation only the one that depends on the clock is    *)
(* kept: the others reject a fix whatever the state.  received_at is left  *)
(* out.                                                                    *)
(***************************************************************************)
EXTENDS Naturals, FiniteSets

CONSTANTS Handlers,    \* the Create handlers that may run at once
          Places,
          Roads,       \* bound: the places where the truck posts while moving
          Near,        \* the pairs of places within stopRadiusM
          Skew,        \* how far ahead of the server a fix may be recorded
          MaxClock,    \* bound: the clock stops here
          MaxHistory,  \* bound: distinct fixes stored
          NoFix, NoPlace, NoTime

ASSUME PlacesAssumption ==
  /\ Near \subseteq Places \X Places
  /\ \A p \in Places : <<p, p>> \in Near
  /\ NoPlace \notin Places
ASSUME ClockAssumption == Skew \in Nat /\ MaxClock \in Nat /\ NoTime \notin Nat

(* models.LocationInput with its recordedAt; the rows of truck_locations. *)
Fix == [place : Places, moving : BOOLEAN, rec : Nat]
(* The row of truck_location_state, models.TruckLocation. *)
Location == [place : Places, moving : BOOLEAN, rec : Nat,
             anchor : Places \cup {NoPlace}, since : Nat \cup {NoTime}]

ASSUME NoFixAssumption == NoFix \notin Fix \cup Location

VARIABLES
  clock,    \* time.Now()
  history,  \* the rows of truck_locations
  applied,  \* those the upsert accepted into truck_location_state
  state,    \* the row of truck_location_state, NoFix before the first
  hpc,      \* hpc[h]: the statement handler h is about to run
  hfix,     \* hfix[h]: the fix h was sent
  hprev,    \* hprev[h]: the row h read before it saves, or NoFix
  hout      \* hout[h]: the location h answers and broadcasts

tables == <<history, applied, state>>
locals == <<hpc, hfix, hprev, hout>>
storeVars == <<clock, tables, locals>>

StoreInit == /\ clock = 0
             /\ history = {} /\ applied = {} /\ state = NoFix
             /\ hpc = [h \in Handlers |-> "idle"]
             /\ hfix = [h \in Handlers |-> NoFix]
             /\ hprev = [h \in Handlers |-> NoFix]
             /\ hout = [h \in Handlers |-> NoFix]
-----------------------------------------------------------------------------
(* ValidateLocation. *)
Valid(f) == f.rec <= clock + Skew

(* Slip: the stop goes on from the last place instead of its anchor. *)
StoppedFromLastPlace(prev, f) ==
  IF f.moving THEN [anchor |-> NoPlace, since |-> NoTime]
  ELSE IF prev = NoFix THEN [anchor |-> f.place, since |-> f.rec]
  ELSE IF prev.since = NoTime \/ <<prev.place, f.place>> \notin Near
       THEN [anchor |-> f.place, since |-> f.rec]
       ELSE [anchor |-> prev.anchor, since |-> prev.since]

(* Slip: out of the radius the anchor moves but the stop goes on. *)
StoppedOnceForAll(prev, f) ==
  IF f.moving THEN [anchor |-> NoPlace, since |-> NoTime]
  ELSE IF prev = NoFix THEN [anchor |-> f.place, since |-> f.rec]
  ELSE IF prev.since = NoTime THEN [anchor |-> f.place, since |-> f.rec]
  ELSE IF <<prev.anchor, f.place>> \notin Near
       THEN [anchor |-> f.place, since |-> prev.since]
       ELSE [anchor |-> prev.anchor, since |-> prev.since]

(* StopState: the anchor and the start of the stop that fix f continues or *)
(* begins, given the previous row.                                         *)
Stopped(prev, f) ==
  IF f.moving THEN [anchor |-> NoPlace, since |-> NoTime]
  ELSE IF prev = NoFix THEN [anchor |-> f.place, since |-> f.rec]
  ELSE IF prev.since = NoTime \/ <<prev.anchor, f.place>> \notin Near
       THEN [anchor |-> f.place, since |-> f.rec]
       ELSE [anchor |-> prev.anchor, since |-> prev.since]

(* The row the upsert would write. *)
Row(f, stop) == [place |-> f.place, moving |-> f.moving, rec |-> f.rec,
                 anchor |-> stop.anchor, since |-> stop.since]

(* ON CONFLICT ... WHERE truck_location_state.recorded_at <= EXCLUDED...   *)
Accepts(f) == state # NoFix => state.rec <= f.rec

(* Slip: the upsert has no WHERE. *)
UpsertAlways(f, stop) == /\ state' = Row(f, stop)
                         /\ applied' = applied \cup {f}

Upsert(f, stop) ==
  \/ Accepts(f) /\ state' = Row(f, stop) /\ applied' = applied \cup {f}
  \/ ~Accepts(f) /\ UNCHANGED <<state, applied>>
-----------------------------------------------------------------------------
(* The fixes of the requests being handled. *)
Posted == {hfix[h] : h \in Handlers}

(* A request arrives: now := c.now(), and ValidateLocation passes.  A fix  *)
(* without a recordedAt is one recorded now.  The bound lets a client post *)
(* again what is stored already.                                           *)
Submit(h, f) ==
  /\ hpc[h] = "idle"
  /\ Valid(f)
  /\ Cardinality((history \cup Posted \cup {f}) \ {NoFix}) <= MaxHistory
  /\ hpc' = [hpc EXCEPT ![h] = "reading"]
  /\ hfix' = [hfix EXCEPT ![h] = f]
  /\ UNCHANGED <<clock, tables, hprev, hout>>

(* The first CurrentTruckLocation; a newer row is not a previous one. *)
ReadPrevious(h) ==
  /\ hpc[h] = "reading"
  /\ hprev' = [hprev EXCEPT ![h] =
        IF state # NoFix /\ hfix[h].rec >= state.rec THEN state ELSE NoFix]
  /\ hpc' = [hpc EXCEPT ![h] = "saving"]
  /\ UNCHANGED <<clock, tables, hfix, hout>>

(* Slip: the two inserts are not one transaction and the first one fails. *)
SaveRowOnly(h) ==
  /\ hpc[h] = "saving"
  /\ Upsert(hfix[h], Stopped(hprev[h], hfix[h]))
  /\ hpc' = [hpc EXCEPT ![h] = "rereading"]
  /\ hprev' = [hprev EXCEPT ![h] = NoFix]
  /\ UNCHANGED <<clock, history, hfix, hout>>

(* The transaction of SaveTruckLocation commits. *)
Save(h) ==
  /\ hpc[h] = "saving"
  /\ history' = history \cup {hfix[h]}
  /\ Upsert(hfix[h], Stopped(hprev[h], hfix[h]))
  /\ hpc' = [hpc EXCEPT ![h] = "rereading"]
  /\ hprev' = [hprev EXCEPT ![h] = NoFix]
  /\ UNCHANGED <<clock, hfix, hout>>

(* The read of the row after the commit, in no transaction. *)
ReadBack(h) ==
  /\ hpc[h] = "rereading"
  /\ hout' = [hout EXCEPT ![h] = state]
  /\ hpc' = [hpc EXCEPT ![h] = "announcing"]
  /\ UNCHANGED <<clock, tables, hfix, hprev>>

(* A statement fails, the commit included: 503.  What is committed stays.  *)
QueryFails(h) ==
  /\ hpc[h] \in {"reading", "saving", "rereading"}
  /\ hpc' = [hpc EXCEPT ![h] = "idle"]
  /\ hfix' = [hfix EXCEPT ![h] = NoFix]
  /\ hprev' = [hprev EXCEPT ![h] = NoFix]
  /\ UNCHANGED <<clock, tables, hout>>

(* c.broadcast(location); its effect on the subscribers is LocationFeed's. *)
Announce(h) ==
  /\ hpc[h] = "announcing"
  /\ hpc' = [hpc EXCEPT ![h] = "created"]
  /\ UNCHANGED <<clock, tables, hfix, hprev, hout>>

(* The handler answers 201 with the location. *)
Answer(h) ==
  /\ hpc[h] = "created"
  /\ hpc' = [hpc EXCEPT ![h] = "idle"]
  /\ hfix' = [hfix EXCEPT ![h] = NoFix]
  /\ hout' = [hout EXCEPT ![h] = NoFix]
  /\ UNCHANGED <<clock, tables, hprev>>

StoreTick == /\ clock < MaxClock
             /\ clock' = clock + 1
             /\ UNCHANGED <<tables, locals>>

(* The fixes a client may post; Nat is cut to what Valid can accept. *)
Postable == {f \in [place : Places, moving : BOOLEAN, rec : 0 .. MaxClock + Skew + 1] :
               f.moving => f.place \in Roads}

(* Every step but Announce, which LocationFeed completes. *)
Quiet == \/ \E h \in Handlers : \/ \E f \in Postable : Submit(h, f)
                                \/ ReadPrevious(h) \/ Save(h) \/ ReadBack(h)
                                \/ QueryFails(h) \/ Answer(h)
         \/ StoreTick

StoreNext == Quiet \/ \E h \in Handlers : Announce(h)

StoreSpec == StoreInit /\ [][StoreNext]_storeVars
-----------------------------------------------------------------------------
\* Every variable has its type.
StoreTypeOK ==
  /\ clock \in Nat
  /\ history \subseteq Fix /\ applied \subseteq history
  /\ state \in Location \cup {NoFix}
  /\ hpc \in [Handlers -> {"idle", "reading", "saving", "rereading",
                           "announcing", "created"}]
  /\ hfix \in [Handlers -> Fix \cup {NoFix}]
  /\ hprev \in [Handlers -> Location \cup {NoFix}]
  /\ hout \in [Handlers -> Location \cup {NoFix}]

\* Whatever the order in which handlers read, save and reread, the row of the
\* truck is the stored fix with the latest recordedAt, and no fix is further
\* ahead of the clock than ValidateLocation allows.
StateIsNewest ==
  /\ state = NoFix <=> history = {}
  /\ state # NoFix =>
       /\ [place |-> state.place, moving |-> state.moving, rec |-> state.rec]
            \in history
       /\ \A f \in history : f.rec <= state.rec
  /\ \A f \in history : f.rec <= clock + Skew

\* A stop shown to the user has an origin: some stored fix recorded the truck
\* standing at the anchor when the stop began, and the truck now stands
\* within the radius of that anchor, however stale the row was from which the
\* stop was computed.
StopHasOrigin ==
  state # NoFix /\ state.since # NoTime =>
    /\ ~state.moving
    /\ state.since <= state.rec
    /\ <<state.anchor, state.place>> \in Near
    /\ [place |-> state.anchor, moving |-> FALSE, rec |-> state.since] \in history

\* A client that is told 201 has its fix stored, and is told a location at
\* least as new as that fix.
AcknowledgedIsStored ==
  \A h \in Handlers : hpc[h] \in {"announcing", "created"} =>
    /\ hfix[h] \in history
    /\ hout[h] # NoFix /\ hout[h].rec >= hfix[h].rec

\* "calculates stopped duration" (README.md 184), "expected moving vehicle to
\* have no stop state" (tests/services/location_service_test.go 63): no fix
\* the row has shown since the stop began was moving or out of its radius.
StopIsUnbroken ==
  state # NoFix /\ state.since # NoTime =>
    \A f \in applied : f.rec > state.since =>
      ~f.moving /\ <<state.anchor, f.place>> \in Near
=============================================================================
