------------------------- MODULE CameraScreenProofs -------------------------
(***************************************************************************)
(* The safety of CameraScreen and its two players, for any number of       *)
(* connections, clips and selections: the live player can always get its   *)
(* picture back and tells the truth about having one, and the player of    *)
(* clips holds one controller at most, that of the clip chosen last.       *)
(***************************************************************************)
EXTENDS CameraScreen, TLAPS

StatesTypeOK ==
  state \in [Connections -> {"none", "open", "answered", "connected", "broken",
                            "failed", "closed", "silent"}]

WhepTypeOK ==
  /\ alive \in BOOLEAN /\ timer \in BOOLEAN /\ restarting \in BOOLEAN
  /\ ready \in BOOLEAN /\ error \in BOOLEAN
  /\ stage \in [Starts -> {"none", "stopping", "creating", "posting"}]
  /\ used \in [Starts -> Connections \cup {NoConnection}]
  /\ StatesTypeOK
  /\ peer \in Connections \cup {NoConnection}

ClipTypeOK ==
  /\ onScreen \in BOOLEAN
  /\ shown \in Clips \cup {NoClip}
  /\ selection \in Selections \cup {NoSelection}
  /\ controller \in Selections \cup {NoSelection}
  /\ step \in [Selections -> {"free", "url", "init", "ready", "failed"}]
  /\ clip \in [Selections -> Clips \cup {NoClip}]
  /\ open \subseteq Selections

FieldsTypeOK ==
  /\ data \in {"loading", "ready", "failed"}
  /\ history \in BOOLEAN /\ fresh \in BOOLEAN /\ served \in BOOLEAN
  /\ selected \in Clips \cup {NoClip}

\* A player that is not on the screen has nothing: the next one starts afresh.
NothingLeft ==
  ~alive => /\ stage = NoStarts /\ used = NoUse /\ state = AllGone /\ peer = NoConnection
            /\ ~timer /\ ~restarting /\ ~ready /\ ~error

\* A _start has a connection while it posts, and nobody has used that yet.
UsedInv ==
  \A s \in Starts :
    IF stage[s] = "posting"
    THEN used[s] \in Connections /\ state[used[s]] \notin {"none", "answered", "connected"}
    ELSE used[s] = NoConnection

\* Where the two _start are.  The first is past its first await before anything
\* can go wrong, and a connection that is being posted is in nobody else's way:
\* it is the one in use, or, for the first, one that a restart has closed.
StartsInv ==
  /\ stage["first"] # "stopping"
  /\ stage["first"] = "creating" =>
       state = AllGone /\ peer = NoConnection /\ ~timer /\ ~restarting /\ ~error
  /\ restarting <=> stage["again"] # "none"
  /\ restarting => ~timer
  /\ stage["again"] = "creating" => peer = NoConnection
  /\ UsedInv
  /\ stage["again"] = "posting" =>
       /\ used["again"] = peer
       /\ stage["first"] = "posting" => used["first"] # peer

\* The connection in use is the only one that is not closed; the player has
\* heard of its failure, and of no picture that it did not deliver.
PeerInv ==
  /\ \A c \in Connections : IF c = peer THEN state[c] \notin {"none", "closed", "silent"}
                                        ELSE state[c] \in {"none", "closed", "silent"}
  /\ peer # NoConnection /\ state[peer] = "failed" => error
  /\ ready => peer # NoConnection /\ state[peer] \in {"connected", "broken"}

WhepInv == WhepTypeOK /\ NothingLeft /\ StartsInv /\ PeerInv /\ NeverStuck

\* There is one controller at most, of the selection that counts and made for
\* the clip the player shows.
ClipInv ==
  /\ ClipTypeOK
  /\ open = {controller} \ {NoSelection}
  /\ controller \in {NoSelection, selection}
  /\ ~onScreen => selection = NoSelection
  /\ selection # NoSelection =>
       /\ clip[selection] = shown
       /\ step[selection] = "url" => controller = NoSelection
       /\ step[selection] \in {"init", "ready"} => controller = selection

USE DEF Starts, StatesTypeOK, UsedInv
---------------------------------------------------------------------------
(* The live player. *)

\* dispose leaves nothing of the player behind.
LEMMA UnmountKeeps == ASSUME Unmount PROVE WhepInv'
<1> USE ConnectionsAssumption DEF Unmount, NoStarts, NoUse, AllGone
<1>1. WhepTypeOK'
  <2>1. stage' \in [Starts -> {"none", "stopping", "creating", "posting"}]
    OBVIOUS
  <2>2. used' \in [Starts -> Connections \cup {NoConnection}]
    OBVIOUS
  <2>3. StatesTypeOK'
    OBVIOUS
  <2> QED
    BY <2>1, <2>2, <2>3 DEF WhepTypeOK
<1>2. NothingLeft'
  BY DEF NothingLeft
<1>3. StartsInv'
  BY DEF StartsInv
<1>4. PeerInv'
  BY DEF PeerInv
<1>5. NeverStuck'
  BY DEF NeverStuck
<1> QED
  BY <1>1, <1>2, <1>3, <1>4, <1>5 DEF WhepInv

\* initState begins the first start on a player that has nothing.
LEMMA MountKeeps == ASSUME WhepInv, Mount PROVE WhepInv'
<1> USE ConnectionsAssumption DEF Mount
<1>1. /\ stage' = [stage EXCEPT !["first"] = "creating"] /\ alive' = TRUE
      /\ UNCHANGED <<used, state, peer, timer, restarting, ready, error>>
      /\ stage = NoStarts /\ used = NoUse /\ state = AllGone /\ peer = NoConnection
      /\ ~timer /\ ~restarting /\ ~ready /\ ~error
  BY DEF WhepInv, NothingLeft
<1>2. WhepTypeOK'
  BY <1>1 DEF WhepInv, WhepTypeOK
<1>3. NothingLeft'
  BY <1>1 DEF NothingLeft
<1>4. StartsInv'
  BY <1>1 DEF StartsInv, NoStarts, NoUse, AllGone
<1>5. PeerInv'
  BY <1>1 DEF PeerInv, AllGone
<1>6. NeverStuck'
  BY <1>1 DEF NeverStuck, NoStarts
<1> QED
  BY <1>2, <1>3, <1>4, <1>5, <1>6 DEF WhepInv

\* An accepted POST ends its start: a connection in use is answered, one that a
\* restart has closed makes the start fail.
LEMMA PostAcceptedKeeps == ASSUME WhepInv, NEW s \in Starts, PostAccepted(s) PROVE WhepInv'
<1> USE ConnectionsAssumption
<1> DEFINE u == used[s]
           failed == state[u] \in {"closed", "silent"}
<1>1. /\ u \in Connections /\ stage[s] = "posting" /\ alive
      /\ u = peer \/ (s = "first" /\ failed)
  BY DEF WhepInv, WhepTypeOK, NothingLeft, StartsInv, PeerInv, PostAccepted, NoStarts
<1>2. /\ state' = [state EXCEPT ![u] = IF state[u] = "open" THEN "answered" ELSE state[u]]
      /\ stage' = [stage EXCEPT ![s] = "none"]
      /\ used' = [used EXCEPT ![s] = NoConnection]
      /\ alive' = alive /\ peer' = peer
  BY DEF PostAccepted, Return
<1>3. ASSUME s = "first" PROVE
      /\ restarting' = restarting
      /\ failed => /\ ready' = FALSE /\ error' = TRUE
                   /\ timer' \in BOOLEAN /\ (timer' <=> timer \/ ~restarting)
      /\ ~failed => ready' = ready /\ error' = error /\ timer' = timer
  BY <1>3 DEF PostAccepted, Return, Interrupt
<1>4. ASSUME s = "again" PROVE
      /\ restarting' = FALSE
      /\ ready' \in BOOLEAN /\ (ready' <=> ready /\ ~failed)
      /\ error' \in BOOLEAN /\ (error' <=> error \/ failed)
      /\ timer' \in BOOLEAN /\ (timer' <=> timer \/ error')
  BY <1>4 DEF PostAccepted, Return
<1>5. state'[u] = IF state[u] = "open" THEN "answered" ELSE state[u]
  BY <1>1, <1>2 DEF WhepInv, WhepTypeOK
<1>6. \A c \in Connections : c # u => state'[c] = state[c]
  BY <1>1, <1>2 DEF WhepInv, WhepTypeOK
<1>7. /\ stage'[s] = "none" /\ used'[s] = NoConnection
      /\ \A t \in Starts : t # s => stage'[t] = stage[t] /\ used'[t] = used[t]
  BY <1>2 DEF WhepInv, WhepTypeOK
<1>8. s = "first" \/ s = "again"
  OBVIOUS
<1> HIDE DEF u
<1>9. /\ u = peer => state[u] \in {"open", "broken", "failed"} /\ ~failed
      /\ u # peer => failed /\ s = "first" /\ state'[u] = state[u]
      /\ peer \in Connections \cup {NoConnection}
      /\ alive' = alive /\ peer' = peer
  <2>1. state[u] \notin {"none", "answered", "connected"}
    BY <1>1 DEF WhepInv, StartsInv, u
  <2>2. /\ peer \in Connections \cup {NoConnection}
        /\ alive' = alive /\ peer' = peer
    BY <1>2 DEF WhepInv, WhepTypeOK
  <2>3. state[u] \in {"none", "open", "answered", "connected", "broken",
                     "failed", "closed", "silent"}
    BY <1>1 DEF WhepInv, WhepTypeOK
  <2>4. CASE u = peer
    BY <2>1, <2>2, <2>3, <2>4, <1>1 DEF WhepInv, PeerInv
  <2>5. CASE u # peer
    BY <2>1, <2>2, <2>5, <1>1, <1>5 DEF WhepInv, PeerInv
  <2> QED
    BY <2>4, <2>5
<1>10. WhepTypeOK'
  <2>1. stage' \in [Starts -> {"none", "stopping", "creating", "posting"}]
    BY <1>2 DEF WhepInv, WhepTypeOK
  <2>2. used' \in [Starts -> Connections \cup {NoConnection}]
    BY <1>2 DEF WhepInv, WhepTypeOK
  <2>3. StatesTypeOK'
    BY <1>1, <1>2 DEF WhepInv, WhepTypeOK
  <2> QED
    BY <2>1, <2>2, <2>3, <1>2, <1>3, <1>4, <1>8 DEF WhepInv, WhepTypeOK
<1>11. NothingLeft'
  BY <1>1, <1>2 DEF NothingLeft
<1>12. StartsInv'
  <2>1. CASE s = "first"
    <3>1. /\ stage'["first"] = "none" /\ used'["first"] = NoConnection
          /\ stage'["again"] = stage["again"] /\ used'["again"] = used["again"]
      BY <2>1, <1>7
    <3>2. restarting' = restarting /\ (restarting => timer' = timer)
      BY <2>1, <1>3 DEF WhepInv, WhepTypeOK
    <3>3. ASSUME stage["again"] = "posting"
          PROVE  used["again"] \in Connections
                 /\ state'[used["again"]] \notin {"none", "answered", "connected"}
      <4>1. /\ used["again"] \in Connections /\ used["again"] # u
            /\ state[used["again"]] \notin {"none", "answered", "connected"}
        BY <3>3, <2>1, <1>1 DEF WhepInv, StartsInv, u
      <4> QED
        BY <4>1, <1>6
    <3> QED
      BY <3>1, <3>2, <3>3, <1>9 DEF WhepInv, StartsInv
  <2>2. CASE s = "again"
    <3>1. /\ stage'["again"] = "none" /\ used'["again"] = NoConnection
          /\ stage'["first"] = stage["first"] /\ used'["first"] = used["first"]
          /\ restarting' = FALSE
      BY <2>2, <1>4, <1>7
    <3>2. stage["first"] \notin {"creating", "stopping"}
      BY <2>2, <1>1, <1>9 DEF WhepInv, StartsInv
    <3>3. ASSUME stage["first"] = "posting"
          PROVE  used["first"] \in Connections
                 /\ state'[used["first"]] \notin {"none", "answered", "connected"}
      <4>1. /\ used["first"] \in Connections /\ used["first"] # u
            /\ state[used["first"]] \notin {"none", "answered", "connected"}
        BY <3>3, <2>2, <1>1 DEF WhepInv, StartsInv, u
      <4> QED
        BY <4>1, <1>6
    <3> QED
      BY <3>1, <3>2, <3>3 DEF WhepInv, StartsInv
  <2> QED
    BY <2>1, <2>2, <1>8
<1>13. PeerInv'
  <2>1. \A c \in Connections : IF c = peer' THEN state'[c] \notin {"none", "closed", "silent"}
                                        ELSE state'[c] \in {"none", "closed", "silent"}
    BY <1>1, <1>5, <1>6, <1>9 DEF WhepInv, PeerInv
  <2>2. peer' # NoConnection /\ state'[peer'] = "failed" => error'
    BY <1>1, <1>3, <1>4, <1>5, <1>6, <1>8, <1>9 DEF WhepInv, PeerInv
  <2>3. ready' => peer' # NoConnection /\ state'[peer'] \in {"connected", "broken"}
    BY <1>1, <1>3, <1>4, <1>5, <1>6, <1>8, <1>9 DEF WhepInv, PeerInv
  <2> QED
    BY <2>1, <2>2, <2>3 DEF PeerInv
<1>14. NeverStuck'
  <2>1. CASE u = peer
    BY <2>1, <1>1, <1>3, <1>4, <1>5, <1>7, <1>8, <1>9 DEF WhepInv, StartsInv, PeerInv, NeverStuck
  <2>2. CASE u # peer
    BY <2>2, <1>3, <1>9 DEF WhepInv, WhepTypeOK, NeverStuck
  <2> QED
    BY <2>1, <2>2
<1> QED
  BY <1>10, <1>11, <1>12, <1>13, <1>14 DEF WhepInv

\* A start that fails, for whatever reason, leaves the timer or a restart behind.
LEMMA FailedStartKeeps ==
  ASSUME WhepInv, NEW s \in Starts, stage[s] \in {"creating", "posting"},
         Return(s, TRUE), UNCHANGED <<alive, state, peer>>
  PROVE  WhepInv'
<1> USE ConnectionsAssumption
<1>1. /\ stage' = [stage EXCEPT ![s] = "none"]
      /\ used' = [used EXCEPT ![s] = NoConnection]
      /\ error' = TRUE /\ ready' = FALSE /\ timer' \in BOOLEAN
      /\ s = "first" => restarting' = restarting /\ (timer' <=> timer \/ ~restarting)
      /\ s = "again" => restarting' = FALSE /\ timer'
  BY DEF Return, Interrupt, WhepInv, WhepTypeOK
<1>2. /\ stage'[s] = "none" /\ used'[s] = NoConnection
      /\ \A t \in Starts : t # s => stage'[t] = stage[t] /\ used'[t] = used[t]
  BY <1>1 DEF WhepInv, WhepTypeOK
<1>3. alive /\ (s = "first" \/ s = "again")
  BY DEF WhepInv, NothingLeft, NoStarts
<1>4. WhepTypeOK'
  <2>1. stage' \in [Starts -> {"none", "stopping", "creating", "posting"}]
    BY <1>1 DEF WhepInv, WhepTypeOK
  <2>2. used' \in [Starts -> Connections \cup {NoConnection}]
    BY <1>1 DEF WhepInv, WhepTypeOK
  <2> QED
    BY <2>1, <2>2, <1>1, <1>3 DEF WhepInv, WhepTypeOK
<1>5. NothingLeft'
  BY <1>3 DEF NothingLeft
<1>6. StartsInv'
  <2>1. CASE s = "first"
    <3>1. /\ stage'["first"] = "none" /\ used'["first"] = NoConnection
          /\ stage'["again"] = stage["again"] /\ used'["again"] = used["again"]
      BY <2>1, <1>2
    <3> QED
      BY <3>1, <2>1, <1>1 DEF WhepInv, StartsInv
  <2>2. CASE s = "again"
    <3>1. /\ stage'["again"] = "none" /\ used'["again"] = NoConnection
          /\ stage'["first"] = stage["first"] /\ used'["first"] = used["first"]
      BY <2>2, <1>2
    <3>2. restarting
      BY <2>2 DEF WhepInv, StartsInv
    <3> QED
      BY <3>1, <3>2, <2>2, <1>1 DEF WhepInv, StartsInv
  <2> QED
    BY <2>1, <2>2, <1>3
<1>7. PeerInv'
  BY <1>1 DEF WhepInv, PeerInv
<1>8. NeverStuck'
  BY <1>1, <1>3 DEF NeverStuck
<1> QED
  BY <1>4, <1>5, <1>6, <1>7, <1>8 DEF WhepInv

\* createPeerConnection gives a start the connection that is in use from then on.
LEMMA CreateKeeps == ASSUME WhepInv, NEW s \in Starts, Create(s) PROVE WhepInv'
<1> USE ConnectionsAssumption
<1>1. PICK c \in Connections :
        /\ state[c] = "none"
        /\ state' = [state EXCEPT ![c] = IF served THEN "open" ELSE "broken"]
        /\ used' = [used EXCEPT ![s] = c] /\ peer' = c
  BY DEF Create
<1>2. /\ stage[s] = "creating" /\ stage' = [stage EXCEPT ![s] = "posting"]
      /\ UNCHANGED <<alive, timer, restarting, ready, error>>
  BY DEF Create
<1>3. /\ stage'[s] = "posting" /\ used'[s] = c
      /\ \A t \in Starts : t # s => stage'[t] = stage[t] /\ used'[t] = used[t]
  BY <1>1, <1>2 DEF WhepInv, WhepTypeOK
<1>4. /\ state'[c] \in {"open", "broken"}
      /\ \A d \in Connections : d # c => state'[d] = state[d]
  BY <1>1 DEF WhepInv, WhepTypeOK
<1>5. alive /\ (s = "first" \/ s = "again") /\ peer = NoConnection /\ ~ready
  BY <1>2 DEF WhepInv, NothingLeft, StartsInv, PeerInv, NoStarts
<1>6. WhepTypeOK'
  <2>1. stage' \in [Starts -> {"none", "stopping", "creating", "posting"}]
    BY <1>2 DEF WhepInv, WhepTypeOK
  <2>2. used' \in [Starts -> Connections \cup {NoConnection}]
    BY <1>1 DEF WhepInv, WhepTypeOK
  <2>3. StatesTypeOK'
    BY <1>1 DEF WhepInv, WhepTypeOK
  <2> QED
    BY <2>1, <2>2, <2>3, <1>1, <1>2 DEF WhepInv, WhepTypeOK
<1>7. NothingLeft'
  BY <1>2, <1>5 DEF NothingLeft
<1>8. StartsInv'
  <2>1. CASE s = "first"
    <3>1. /\ stage'["first"] = "posting" /\ used'["first"] = c
          /\ stage'["again"] = stage["again"] /\ used'["again"] = used["again"]
      BY <2>1, <1>3
    <3>2. ~restarting /\ stage["again"] = "none" /\ used["again"] = NoConnection
      BY <2>1, <1>2 DEF WhepInv, StartsInv
    <3> QED
      BY <3>1, <3>2, <1>2, <1>4 DEF StartsInv
  <2>2. CASE s = "again"
    <3>1. /\ stage'["again"] = "posting" /\ used'["again"] = c /\ peer' = c
          /\ stage'["first"] = stage["first"] /\ used'["first"] = used["first"]
      BY <2>2, <1>1, <1>3
    <3>2. restarting /\ ~timer /\ stage["first"] \notin {"creating", "stopping"}
      BY <2>2, <1>2 DEF WhepInv, StartsInv
    <3>3. IF stage["first"] = "posting"
          THEN /\ used["first"] \in Connections /\ used["first"] # c
               /\ state[used["first"]] \notin {"none", "answered", "connected"}
          ELSE used["first"] = NoConnection
      BY <1>1 DEF WhepInv, StartsInv
    <3>4. stage["first"] = "posting" =>
            state'[used["first"]] \notin {"none", "answered", "connected"}
      BY <3>3, <1>4
    <3> QED
      BY <3>1, <3>2, <3>3, <3>4, <1>2, <1>4 DEF StartsInv
  <2> QED
    BY <2>1, <2>2, <1>5
<1>9. PeerInv'
  BY <1>1, <1>2, <1>4, <1>5 DEF WhepInv, PeerInv
<1>10. NeverStuck'
  <2>1. CASE s = "first"
    BY <2>1, <1>2, <1>3 DEF WhepInv, StartsInv, NeverStuck
  <2>2. CASE s = "again"
    BY <2>2, <1>2 DEF WhepInv, StartsInv, NeverStuck
  <2> QED
    BY <2>1, <2>2, <1>5
<1> QED
  BY <1>6, <1>7, <1>8, <1>9, <1>10 DEF WhepInv

\* The player hears that c has failed, or hears so late from a closed one.
LEMMA InterruptKeeps ==
  ASSUME WhepInv, NEW c \in Connections, NEW old, NEW new,
         \/ old = "broken" /\ new = "failed"
         \/ old = "closed" /\ new = "silent",
         state[c] = old, state' = [state EXCEPT ![c] = new],
         Interrupt, UNCHANGED <<alive, stage, used, peer, restarting>>
  PROVE  WhepInv'
<1> USE ConnectionsAssumption
<1>1. /\ error' = TRUE /\ ready' = FALSE
      /\ timer' \in BOOLEAN /\ (timer' <=> timer \/ ~restarting)
  BY DEF Interrupt
<1>2. /\ state'[c] = new
      /\ \A d \in Connections : d # c => state'[d] = state[d]
  BY DEF WhepInv, WhepTypeOK
<1>3. alive
  BY DEF WhepInv, NothingLeft, AllGone
<1>4. WhepTypeOK'
  <2>1. StatesTypeOK'
    BY DEF WhepInv, WhepTypeOK
  <2> QED
    BY <2>1, <1>1 DEF WhepInv, WhepTypeOK
<1>5. NothingLeft'
  BY <1>3 DEF NothingLeft
<1>6. StartsInv'
  <2>1. stage["first"] # "creating"
    BY DEF WhepInv, StartsInv, AllGone
  <2>2. UsedInv'
    BY <1>2 DEF WhepInv, StartsInv
  <2> QED
    BY <2>1, <2>2, <1>1 DEF WhepInv, StartsInv
<1>7. PeerInv'
  BY <1>1, <1>2 DEF WhepInv, PeerInv
<1>8. NeverStuck'
  BY <1>1 DEF NeverStuck
<1> QED
  BY <1>4, <1>5, <1>6, <1>7, <1>8 DEF WhepInv

\* Only the connection in use is answered and can deliver a track.
LEMMA TrackKeeps == ASSUME WhepInv, NEW c \in Connections, Track(c) PROVE WhepInv'
<1> USE ConnectionsAssumption
<1>1. /\ state[c] = "answered" /\ state' = [state EXCEPT ![c] = "connected"]
      /\ ready' = TRUE /\ error' = FALSE
      /\ UNCHANGED <<alive, stage, used, peer, timer, restarting>>
  BY DEF Track
<1>2. /\ state'[c] = "connected"
      /\ \A d \in Connections : d # c => state'[d] = state[d]
  BY <1>1 DEF WhepInv, WhepTypeOK
<1>3. alive /\ c = peer
  BY <1>1 DEF WhepInv, NothingLeft, PeerInv, AllGone
<1>4. WhepTypeOK'
  <2>1. StatesTypeOK'
    BY <1>1 DEF WhepInv, WhepTypeOK
  <2> QED
    BY <2>1, <1>1 DEF WhepInv, WhepTypeOK
<1>5. NothingLeft'
  BY <1>1, <1>3 DEF NothingLeft
<1>6. StartsInv'
  <2>1. stage["first"] # "creating"
    BY <1>1 DEF WhepInv, StartsInv, AllGone
  <2>2. UsedInv'
    BY <1>1, <1>2 DEF WhepInv, StartsInv
  <2> QED
    BY <2>1, <2>2, <1>1 DEF WhepInv, StartsInv
<1>7. PeerInv'
  BY <1>1, <1>2, <1>3 DEF WhepInv, PeerInv
<1>8. NeverStuck'
  BY <1>1 DEF NeverStuck
<1> QED
  BY <1>4, <1>5, <1>6, <1>7, <1>8 DEF WhepInv

\* The timer fires only when no restart is running, so it always begins one.
LEMMA FireTimerKeeps == ASSUME WhepInv, FireTimer PROVE WhepInv'
<1>1. /\ timer /\ timer' = FALSE /\ restarting' = TRUE
      /\ stage' = IF restarting THEN stage ELSE [stage EXCEPT !["again"] = "stopping"]
      /\ UNCHANGED <<alive, used, state, peer, ready, error>>
  BY DEF FireTimer
<1>2. ~restarting /\ alive /\ stage["again"] = "none" /\ stage["first"] # "creating"
  BY <1>1 DEF WhepInv, StartsInv, NothingLeft, WhepTypeOK
<1>3. /\ stage' = [stage EXCEPT !["again"] = "stopping"]
      /\ stage'["again"] = "stopping" /\ stage'["first"] = stage["first"]
  BY <1>1, <1>2 DEF WhepInv, WhepTypeOK
<1>4. WhepTypeOK'
  BY <1>1, <1>3 DEF WhepInv, WhepTypeOK
<1>5. NothingLeft'
  BY <1>1, <1>2 DEF NothingLeft
<1>6. StartsInv'
  BY <1>1, <1>2, <1>3 DEF WhepInv, StartsInv
<1>7. PeerInv'
  BY <1>1 DEF WhepInv, PeerInv
<1>8. NeverStuck'
  BY <1>1 DEF NeverStuck
<1> QED
  BY <1>4, <1>5, <1>6, <1>7, <1>8 DEF WhepInv

\* _stop closes the connection in use, which the first start may still be posting.
LEMMA StoppedKeeps == ASSUME WhepInv, Stopped PROVE WhepInv'
<1> USE ConnectionsAssumption
<1>1. /\ stage["again"] = "stopping" /\ stage' = [stage EXCEPT !["again"] = "creating"]
      /\ state' = [c \in Connections |-> IF c = peer THEN "closed" ELSE state[c]]
      /\ peer' = NoConnection /\ ready' = FALSE /\ error' = FALSE
      /\ UNCHANGED <<alive, used, timer, restarting>>
  BY DEF Stopped
<1>2. alive /\ restarting /\ stage["first"] \notin {"creating", "stopping"}
  BY <1>1 DEF WhepInv, StartsInv, NothingLeft, NoStarts
<1>3. stage'["again"] = "creating" /\ stage'["first"] = stage["first"]
  BY <1>1 DEF WhepInv, WhepTypeOK
<1>4. \A c \in Connections : state'[c] = IF c = peer THEN "closed" ELSE state[c]
  BY <1>1
<1>5. WhepTypeOK'
  <2>1. stage' \in [Starts -> {"none", "stopping", "creating", "posting"}]
    BY <1>1 DEF WhepInv, WhepTypeOK
  <2>2. StatesTypeOK'
    BY <1>1 DEF WhepInv, WhepTypeOK
  <2> QED
    BY <2>1, <2>2, <1>1 DEF WhepInv, WhepTypeOK
<1>6. NothingLeft'
  BY <1>1, <1>2 DEF NothingLeft
<1>7. StartsInv'
  <2>1. IF stage["first"] = "posting"
        THEN /\ used["first"] \in Connections
             /\ state'[used["first"]] \notin {"none", "answered", "connected"}
        ELSE used["first"] = NoConnection
    BY <1>4 DEF WhepInv, StartsInv
  <2>2. used["again"] = NoConnection
    BY <1>1 DEF WhepInv, StartsInv
  <2> QED
    BY <2>1, <2>2, <1>1, <1>2, <1>3 DEF WhepInv, StartsInv
<1>8. PeerInv'
  BY <1>1, <1>4 DEF WhepInv, PeerInv
<1>9. NeverStuck'
  BY <1>1, <1>2 DEF NeverStuck
<1> QED
  BY <1>5, <1>6, <1>7, <1>8, <1>9 DEF WhepInv

\* What is collected is neither in use nor of a start.
LEMMA CollectKeeps == ASSUME WhepInv, NEW c \in Connections, Collect(c) PROVE WhepInv'
<1> USE ConnectionsAssumption
<1>1. /\ state[c] \in {"closed", "silent"} /\ \A s \in Starts : used[s] # c
      /\ state' = [state EXCEPT ![c] = "none"]
      /\ UNCHANGED <<alive, stage, used, peer, timer, restarting, ready, error>>
  BY DEF Collect
<1>2. /\ state'[c] = "none"
      /\ \A d \in Connections : d # c => state'[d] = state[d]
  BY <1>1 DEF WhepInv, WhepTypeOK
<1>3. alive /\ c # peer
  BY <1>1 DEF WhepInv, NothingLeft, PeerInv, AllGone
<1>4. peer # NoConnection => peer \in Connections /\ state'[peer] = state[peer]
  BY <1>2, <1>3 DEF WhepInv, WhepTypeOK
<1>5. WhepTypeOK'
  <2>1. StatesTypeOK'
    BY <1>1 DEF WhepInv, WhepTypeOK
  <2> QED
    BY <2>1, <1>1 DEF WhepInv, WhepTypeOK
<1>6. NothingLeft'
  BY <1>1, <1>3 DEF NothingLeft
<1>7. StartsInv'
  <2>1. stage["first"] # "creating"
    BY <1>1 DEF WhepInv, StartsInv, AllGone
  <2>2. UsedInv'
    BY <1>1, <1>2 DEF WhepInv, StartsInv
  <2> QED
    BY <2>1, <2>2, <1>1 DEF WhepInv, StartsInv
<1>8. PeerInv'
  BY <1>1, <1>2, <1>3, <1>4 DEF WhepInv, PeerInv
<1>9. NeverStuck'
  BY <1>1, <1>4 DEF WhepInv, NeverStuck
<1> QED
  BY <1>5, <1>6, <1>7, <1>8, <1>9 DEF WhepInv

\* An outage breaks connections, and the player hears of it later.
LEMMA OutageKeeps == ASSUME WhepInv, Outage PROVE WhepInv'
<1> USE ConnectionsAssumption
<1>1. /\ state' = [c \in Connections |->
               IF state[c] \in {"open", "answered", "connected"} THEN "broken" ELSE state[c]]
      /\ UNCHANGED <<alive, stage, used, peer, timer, restarting, ready, error>>
  BY DEF Outage
<1>2. \A c \in Connections : state'[c] =
         IF state[c] \in {"open", "answered", "connected"} THEN "broken" ELSE state[c]
  BY <1>1
<1>3. state = AllGone => state' = AllGone
  BY <1>1 DEF AllGone
<1>4. peer # NoConnection => peer \in Connections
  BY DEF WhepInv, WhepTypeOK
<1>5. WhepTypeOK'
  <2>1. StatesTypeOK'
    BY <1>1 DEF WhepInv, WhepTypeOK
  <2> QED
    BY <2>1, <1>1 DEF WhepInv, WhepTypeOK
<1>6. NothingLeft'
  BY <1>1, <1>3 DEF WhepInv, NothingLeft, NoStarts, NoUse, AllGone
<1>7. StartsInv'
  <2>1. UsedInv'
    BY <1>1, <1>2 DEF WhepInv, StartsInv
  <2>2. stage["first"] = "creating" => state' = AllGone
    BY <1>3 DEF WhepInv, StartsInv
  <2> QED
    BY <2>1, <2>2, <1>1 DEF WhepInv, StartsInv
<1>8. PeerInv'
  <2>1. \A c \in Connections : IF c = peer THEN state'[c] \notin {"none", "closed", "silent"}
                                        ELSE state'[c] \in {"none", "closed", "silent"}
    BY <1>2 DEF WhepInv, PeerInv
  <2>2. /\ peer # NoConnection /\ state'[peer] = "failed" => error
        /\ ready => peer # NoConnection /\ state'[peer] \in {"connected", "broken"}
    BY <1>2, <1>4 DEF WhepInv, PeerInv
  <2> QED
    BY <2>1, <2>2, <1>1 DEF PeerInv
<1>9. NeverStuck'
  BY <1>1, <1>2, <1>4 DEF WhepInv, NeverStuck
<1> QED
  BY <1>5, <1>6, <1>7, <1>8, <1>9 DEF WhepInv

\* What leaves the live player alone keeps its invariant.
LEMMA WhepStutters == ASSUME WhepInv, UNCHANGED player PROVE WhepInv'
  BY DEF WhepInv, WhepTypeOK, NothingLeft, StartsInv, PeerInv, NeverStuck, player,
         NoStarts, NoUse, AllGone

---------------------------------------------------------------------------
(* The player of clips. *)

\* _select: the controller goes, and the selection that counts is for recording.
LEMMA SelectKeeps ==
  ASSUME ClipInv, NEW recording \in Clips \cup {NoClip}, Select(recording),
         onScreen' = TRUE, shown' = recording
  PROVE  ClipInv'
<1> USE PlayerAssumption
<1>1. controller' = NoSelection /\ open' = {}
  BY DEF Select, ClipInv, ClipTypeOK
<1>2. CASE recording = NoClip
  <2>1. /\ selection' = NoSelection
        /\ step' = [x \in Selections |-> IF Ended(x) THEN "free" ELSE step[x]]
        /\ clip' = [x \in Selections |-> IF Ended(x) THEN NoClip ELSE clip[x]]
    BY <1>2 DEF Select, Deselect
  <2>2. /\ step' \in [Selections -> {"free", "url", "init", "ready", "failed"}]
        /\ clip' \in [Selections -> Clips \cup {NoClip}]
    BY <2>1 DEF ClipInv, ClipTypeOK
  <2> QED
    BY <1>1, <2>1, <2>2 DEF ClipInv, ClipTypeOK
<1>3. CASE recording # NoClip
  <2>1. PICK s \in Selections : Load(s, recording)
    BY <1>3 DEF Select
  <2>2. /\ selection' = s
        /\ step' = [x \in Selections |->
             IF x = s THEN "url" ELSE IF Ended(x) THEN "free" ELSE step[x]]
        /\ clip' = [x \in Selections |->
             IF x = s THEN recording ELSE IF Ended(x) THEN NoClip ELSE clip[x]]
    BY <2>1 DEF Load
  <2>3. /\ step' \in [Selections -> {"free", "url", "init", "ready", "failed"}]
        /\ clip' \in [Selections -> Clips \cup {NoClip}]
    BY <2>2 DEF ClipInv, ClipTypeOK
  <2>4. step'[s] = "url" /\ clip'[s] = recording
    BY <2>2
  <2> QED
    BY <1>1, <2>2, <2>3, <2>4 DEF ClipInv, ClipTypeOK
<1> QED
  BY <1>2, <1>3

\* dispose disposes the controller and makes every future a late one.
LEMMA HideKeeps == ASSUME ClipInv, Hide PROVE ClipInv'
<1> USE PlayerAssumption
<1>1. /\ controller' = NoSelection /\ open' = {} /\ selection' = NoSelection
      /\ onScreen' = FALSE /\ shown' = NoClip
      /\ step' = [x \in Selections |-> IF Ended(x) THEN "free" ELSE step[x]]
      /\ clip' = [x \in Selections |-> IF Ended(x) THEN NoClip ELSE clip[x]]
  BY DEF Hide, Deselect, ClipInv, ClipTypeOK
<1>2. /\ step' \in [Selections -> {"free", "url", "init", "ready", "failed"}]
      /\ clip' \in [Selections -> Clips \cup {NoClip}]
  BY <1>1 DEF ClipInv, ClipTypeOK
<1> QED
  BY <1>1, <1>2 DEF ClipInv, ClipTypeOK

\* What End leaves of the futures.
LEMMA EndLeaves ==
  ASSUME ClipInv, NEW s \in Selections, NEW result \in {"init", "ready", "failed"},
         End(s, result)
  PROVE  /\ step' \in [Selections -> {"free", "url", "init", "ready", "failed"}]
         /\ clip' \in [Selections -> Clips \cup {NoClip}]
         /\ step'[s] = (IF s = selection THEN result ELSE "free")
         /\ s = selection => clip'[s] = clip[s]
         /\ \A x \in Selections : x # s => step'[x] = step[x] /\ clip'[x] = clip[x]
<1>1. /\ step' = [step EXCEPT ![s] = IF s = selection THEN result ELSE "free"]
      /\ clip' = [clip EXCEPT ![s] = IF s = selection THEN clip[s] ELSE NoClip]
  BY DEF End, ClipInv, ClipTypeOK
<1>2. step' \in [Selections -> {"free", "url", "init", "ready", "failed"}]
  BY <1>1 DEF ClipInv, ClipTypeOK
<1>3. clip' \in [Selections -> Clips \cup {NoClip}]
  BY <1>1 DEF ClipInv, ClipTypeOK
<1> QED
  BY <1>1, <1>2, <1>3 DEF ClipInv, ClipTypeOK

\* A URL makes a controller for the selection that counts, which had none.
LEMMA UrlArrivesKeeps ==
  ASSUME ClipInv, NEW s \in Selections, UrlArrives(s) PROVE ClipInv'
<1> USE PlayerAssumption
<1>1. /\ step[s] = "url" /\ End(s, "init")
      /\ UNCHANGED <<onScreen, shown, selection>>
  BY DEF UrlArrives
<1>2. CASE s = selection
  <2>1. controller = NoSelection /\ open = {}
    BY <1>1, <1>2 DEF ClipInv
  <2>2. controller' = s /\ open' = {s}
    BY <1>2, <2>1 DEF UrlArrives
  <2> QED
    BY <1>1, <1>2, <2>2, EndLeaves DEF ClipInv, ClipTypeOK
<1>3. CASE s # selection
  <2>1. UNCHANGED <<controller, open>>
    BY <1>3 DEF UrlArrives
  <2> QED
    BY <1>1, <1>3, <2>1, EndLeaves DEF ClipInv, ClipTypeOK
<1> QED
  BY <1>2, <1>3

\* The end of a future changes no controller.
LEMMA SettleKeeps ==
  ASSUME ClipInv, NEW s \in Selections, Settle(s) PROVE ClipInv'
<1> USE PlayerAssumption
<1>1. /\ \/ step[s] = "init" /\ End(s, "ready")
         \/ End(s, "failed")
      /\ UNCHANGED <<onScreen, shown, selection, controller, open>>
  BY DEF Settle
<1>2. CASE step[s] = "init" /\ End(s, "ready")
  BY <1>1, <1>2, EndLeaves DEF ClipInv, ClipTypeOK
<1>3. CASE End(s, "failed")
  BY <1>1, <1>3, EndLeaves DEF ClipInv, ClipTypeOK
<1> QED
  BY <1>1, <1>2, <1>3

\* What leaves the player of clips alone keeps its invariant.
LEMMA ClipStutters == ASSUME ClipInv, UNCHANGED recorded PROVE ClipInv'
  BY DEF ClipInv, ClipTypeOK, recorded

---------------------------------------------------------------------------
(* The screen. *)

ScreenInv == FieldsTypeOK /\ WhepInv /\ ClipInv

\* Nothing is on the screen when the camera is opened.
LEMMA InitHolds == ASSUME Init PROVE ScreenInv
<1> USE ConnectionsAssumption, PlayerAssumption
<1>1. WhepTypeOK
  <2>1. stage \in [Starts -> {"none", "stopping", "creating", "posting"}]
    BY DEF Init, WhepInit, NoStarts
  <2>2. used \in [Starts -> Connections \cup {NoConnection}]
    BY DEF Init, WhepInit, NoUse
  <2>3. StatesTypeOK
    BY DEF Init, WhepInit, AllGone
  <2> QED
    BY <2>1, <2>2, <2>3 DEF Init, WhepInit, WhepTypeOK
<1>2. NothingLeft
  BY DEF Init, WhepInit, NothingLeft
<1>3. StartsInv
  BY DEF Init, WhepInit, StartsInv, NoStarts, NoUse
<1>4. PeerInv
  BY DEF Init, WhepInit, PeerInv, AllGone
<1>5. NeverStuck
  BY DEF Init, WhepInit, NeverStuck
<1>6. ClipInv
  BY DEF Init, PlayerInit, ClipInv, ClipTypeOK
<1>7. FieldsTypeOK
  BY DEF Init, WhepInit, FieldsTypeOK
<1> QED
  BY <1>1, <1>2, <1>3, <1>4, <1>5, <1>6, <1>7 DEF ScreenInv, WhepInv

\* Every step of the screen, its players and their surroundings keeps ScreenInv.
LEMMA StepKeeps == ASSUME ScreenInv, [Next]_vars PROVE ScreenInv'
<1> USE ConnectionsAssumption, PlayerAssumption
<1>1. CASE Build
  <2>1. WhepInv'
    <3>1. CASE Mount
      BY <3>1, MountKeeps DEF ScreenInv
    <3>2. CASE Unmount
      BY <3>2, UnmountKeeps
    <3>3. CASE UNCHANGED player
      BY <3>3, WhepStutters DEF ScreenInv
    <3> QED
      BY <1>1, <3>1, <3>2, <3>3 DEF Build
  <2>2. ClipInv'
    <3>1. CASE Show(selected)
      BY <3>1, SelectKeeps DEF ScreenInv, FieldsTypeOK, Show
    <3>2. CASE Hide
      BY <3>2, HideKeeps DEF ScreenInv
    <3>3. CASE UNCHANGED recorded
      BY <3>3, ClipStutters DEF ScreenInv
    <3> QED
      BY <1>1, <3>1, <3>2, <3>3 DEF Build
  <2>3. FieldsTypeOK'
    BY <1>1 DEF Build, screen, ScreenInv, FieldsTypeOK
  <2> QED
    BY <2>1, <2>2, <2>3 DEF ScreenInv
<1>2. CASE \/ Loaded \/ ReloadLive \/ LoadHistory \/ TokenExpires
           \/ \E k \in Clips : PlayRecording(k)
  <2>1. UNCHANGED <<player, recorded>> /\ FieldsTypeOK'
    BY <1>2 DEF Loaded, ReloadLive, LoadHistory, PlayRecording, TokenExpires, whep,
                ScreenInv, FieldsTypeOK
  <2> QED
    BY <2>1, WhepStutters, ClipStutters DEF ScreenInv
<1>3. CASE LivePlayer \/ (\E s \in Starts : PostRefused(s)) \/ Echo
           \/ ((Outage \/ Recover) /\ UNCHANGED <<recorded, screen>>)
  <2>1. UNCHANGED recorded
    BY <1>3 DEF LivePlayer, PostRefused, Echo
  <2>2. FieldsTypeOK'
    <3>1. CASE \E s \in Starts : PostRefused(s)
      BY <3>1 DEF PostRefused, ScreenInv, FieldsTypeOK
    <3>2. CASE (Outage \/ Recover) /\ UNCHANGED screen
      BY <3>2 DEF Outage, Recover, screen, ScreenInv, FieldsTypeOK
    <3>3. CASE UNCHANGED <<served, screen>>
      BY <3>3 DEF screen, ScreenInv, FieldsTypeOK
    <3>4. CASE LivePlayer
      BY <3>3, <3>4 DEF LivePlayer, Progress, Create, CreateFails, PostFails, PostAccepted,
                 Track, Break, Collect, FireTimer, Stopped
    <3>5. CASE Echo
      BY <3>3, <3>5 DEF Echo, LateEvent
    <3> QED
      BY <1>3, <3>1, <3>2, <3>4, <3>5
  <2>3. ASSUME NEW s \in Starts, CreateFails(s) \/ PostFails(s) \/ PostRefused(s)
        PROVE  WhepInv'
    BY <2>3, FailedStartKeeps DEF ScreenInv, CreateFails, PostFails, PostRefused
  <2>4. ASSUME NEW c \in Connections, Break(c) PROVE WhepInv'
    BY <2>4, InterruptKeeps DEF ScreenInv, Break
  <2>5. ASSUME NEW c \in Connections, LateEvent(c) PROVE WhepInv'
    BY <2>5, InterruptKeeps DEF ScreenInv, LateEvent
  <2>6. ASSUME Recover PROVE WhepInv'
    BY <2>6, WhepStutters DEF ScreenInv, Recover
  <2>7. ASSUME Progress \/ (\E s \in Starts : PostAccepted(s)) PROVE WhepInv'
    <3>1. CASE \E s \in Starts : Create(s) \/ CreateFails(s) \/ PostFails(s)
      BY <3>1, <2>3, CreateKeeps DEF ScreenInv
    <3>2. CASE \E c \in Connections : Track(c) \/ Break(c) \/ Collect(c)
      BY <3>2, <2>4, TrackKeeps, CollectKeeps DEF ScreenInv
    <3>3. CASE FireTimer \/ Stopped
      BY <3>3, FireTimerKeeps, StoppedKeeps DEF ScreenInv
    <3>4. CASE \E s \in Starts : PostAccepted(s)
      BY <3>4, PostAcceptedKeeps DEF ScreenInv
    <3> QED
      BY <2>7, <3>1, <3>2, <3>3, <3>4 DEF Progress
  <2>8. WhepInv'
    BY <1>3, <2>3, <2>5, <2>6, <2>7, OutageKeeps DEF ScreenInv, LivePlayer, Echo
  <2> QED
    BY <2>1, <2>2, <2>8, ClipStutters DEF ScreenInv
<1>4. CASE ClipPlayer
  <2>1. ClipInv'
    BY <1>4, UrlArrivesKeeps, SettleKeeps DEF ClipPlayer, ScreenInv
  <2>2. UNCHANGED <<served, player, screen>>
    BY <1>4 DEF ClipPlayer, whep
  <2> QED
    BY <2>1, <2>2, WhepStutters DEF ScreenInv, FieldsTypeOK, screen
<1>5. CASE ~Dirty /\ Retry(selected) /\ UNCHANGED <<whep, screen>>
  <2>1. onScreen /\ shown = selected
    BY <1>5 DEF Retry, Dirty, ScreenInv, ClipInv, ClipTypeOK
  <2>2. Select(selected) /\ onScreen' = TRUE /\ shown' = selected
    BY <1>5, <2>1 DEF Retry, ScreenInv, ClipInv, ClipTypeOK
  <2>3. ClipInv'
    BY <2>2, SelectKeeps DEF ScreenInv, FieldsTypeOK
  <2> QED
    BY <1>5, <2>3, WhepStutters DEF ScreenInv, FieldsTypeOK, screen, whep
<1>6. CASE UNCHANGED vars
  BY <1>6, WhepStutters, ClipStutters DEF vars, whep, screen, ScreenInv, FieldsTypeOK
<1> QED
  BY <1>1, <1>2, <1>3, <1>4, <1>5, <1>6 DEF Next, User

\* The inductive invariant of the screen and both players holds for ever.
THEOREM ScreenInvHolds == Spec => []ScreenInv
  BY InitHolds, StepKeeps, PTL DEF Spec

\* Every variable of the screen and of the players keeps its type.
THEOREM ScreenTypeCorrect == Spec => []ScreenTypeOK
<1>1. ScreenInv => ScreenTypeOK
  <2> SUFFICES ASSUME ScreenInv PROVE ScreenTypeOK
    OBVIOUS
  <2>1. {history, fresh, served, alive, timer, restarting, ready, error, onScreen} \subseteq BOOLEAN
    BY DEF ScreenInv, FieldsTypeOK, WhepInv, WhepTypeOK, ClipInv, ClipTypeOK
  <2> QED
    BY <2>1 DEF ScreenTypeOK, ScreenInv, FieldsTypeOK, WhepInv, WhepTypeOK, ClipInv, ClipTypeOK
<1> QED
  BY <1>1, ScreenInvHolds, PTL

\* The live player never waits for nothing: a timer, a restart, a start or a
\* connection can always bring the picture back, though _scheduleReconnect
\* refuses during a restart and closed connections report failures late.
THEOREM LivePlayerNeverStuck == Spec => []NeverStuck
<1>1. ScreenInv => NeverStuck
  BY DEF ScreenInv, WhepInv
<1> QED
  BY <1>1, ScreenInvHolds, PTL

\* The live player says it has a picture only while the connection in use has
\* delivered one, in spite of two starts and of events of earlier connections.
THEOREM PictureIsOfTheConnectionInUse == Spec => []PictureIsLive
<1>1. ScreenInv => PictureIsLive
  BY DEF ScreenInv, WhepInv, PeerInv, PictureIsLive
<1> QED
  BY <1>1, ScreenInvHolds, PTL

\* No selection, however late its URL comes, leaves a controller undisposed.
THEOREM ControllersAreDisposed == Spec => []NoControllerLeft
<1>1. ScreenInv => NoControllerLeft
  BY DEF ScreenInv, ClipInv, ClipTypeOK, NoControllerLeft
<1> QED
  BY <1>1, ScreenInvHolds, PTL

\* Once the frame is built, what plays is the clip that was chosen last.
THEOREM LastClipPlays == Spec => []LastSelectionPlays
<1>1. ScreenInv => LastSelectionPlays
  BY PlayerAssumption DEF ScreenInv, ClipInv, ClipTypeOK, LastSelectionPlays
<1> QED
  BY <1>1, ScreenInvHolds, PTL
=============================================================================
