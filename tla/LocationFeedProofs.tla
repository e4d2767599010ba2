-------------------------- MODULE LocationFeedProofs --------------------------
(***************************************************************************)
(* The safety of LocationFeed for any number of handlers, screens and      *)
(* loads: what a subscriber will show is the last broadcast, a refresh     *)
(* brings nothing older than what was shown when it began, and the feed    *)
(* changes nothing of what the store promises.  With one handler at a      *)
(* time, no message takes a screen back and a stop is unbroken.            *)
(***************************************************************************)
EXTENDS LocationFeed, LocationStoreProofs, SequenceTheorems

\* Every step of the composition is one of the store, or none.
LEMMA FeedStepIsStoreStep == [Next]_vars => [StoreNext]_storeVars
<1>1. ASSUME NEW s \in Screens, ScreenNext(s) PROVE UNCHANGED storeVars
  BY <1>1 DEF ScreenNext, OpenScreen, Refresh, Load, ReadCurrent, ApplyCurrent,
     LoadFails, Accept, Subscribe, Take, Deliver, Disconnect, Reconnect, CloseScreen
<1> QED
  BY <1>1 DEF Next, StoreNext, AnnounceToAll, vars

\* The feed implements the store: what holds of the tables and the handlers
\* alone holds while they are followed.
THEOREM FeedImplementsStore == Spec => StoreSpec
<1>1. Init => StoreInit
  BY DEF Init
<1> QED
  BY <1>1, FeedStepIsStoreStep, PTL DEF Spec, StoreSpec

-----------------------------------------------------------------------------
ScreensTypeOK ==
  /\ spc \in [Screens -> {"closed", "loading", "connecting", "accepted",
                          "subscribed", "waiting"}]
  /\ asked \in [Screens -> SUBSET Asked]
  /\ sgot \in [Screens -> SUBSET Answered]
  /\ screen \in [Screens -> Location \cup {NoFix}]
  /\ chan \in [Screens -> Location \cup {NoFix}]
  /\ wire \in [Screens -> Seq(Location)]
  /\ latest \in [Screens -> Location \cup {NoFix}]

\* Nothing is under way to a screen that is not subscribed.
NothingForTheGone ==
  \A s \in Screens \ Subscribers :
    chan[s] = NoFix /\ wire[s] = <<>> /\ latest[s] = NoFix

FeedInv == StoreInv /\ ScreensTypeOK /\ NothingForTheGone /\ NewestDelivered

\* Reading the first message of a connection leaves the last one where it is,
\* unless it was the only one.
LEMMA DeliverKeeps ==
  ASSUME FeedInv, NEW s \in Screens, Deliver(s)
  PROVE  ScreensTypeOK' /\ NothingForTheGone' /\ NewestDelivered'
<1>1. /\ wire[s] \in Seq(Location) /\ wire[s] # <<>>
      /\ UNCHANGED <<spc, asked, sgot, chan, latest>>
      /\ screen' = [screen EXCEPT ![s] = Head(wire[s])]
      /\ wire' = [wire EXCEPT ![s] = Tail(wire[s])]
  BY DEF Deliver, FeedInv, ScreensTypeOK
<1>2. /\ Head(wire[s]) \in Location /\ Tail(wire[s]) \in Seq(Location)
      /\ Len(Tail(wire[s])) = Len(wire[s]) - 1
      /\ Head(wire[s]) = wire[s][1]
      /\ \A i \in 1 .. Len(Tail(wire[s])) : Tail(wire[s])[i] = wire[s][i+1]
      /\ Len(wire[s]) \in Nat \ {0}
  BY <1>1, HeadTailProperties, EmptySeq
<1>3. ScreensTypeOK'
  BY <1>1, <1>2 DEF FeedInv, ScreensTypeOK
<1>4. s \in Subscribers
  BY <1>1 DEF FeedInv, NothingForTheGone
<1>5. NothingForTheGone'
  BY <1>1, <1>4 DEF FeedInv, NothingForTheGone, Subscribers, ScreensTypeOK
<1>6. NewestDelivered'
  <2> SUFFICES ASSUME NEW t \in Subscribers', latest'[t] # NoFix
               PROVE  IF chan'[t] # NoFix THEN chan'[t] = latest'[t]
                      ELSE IF wire'[t] # <<>> THEN wire'[t][Len(wire'[t])] = latest'[t]
                      ELSE screen'[t] = latest'[t]
    BY DEF NewestDelivered
  <2>1. t \in Subscribers
    BY <1>1 DEF Subscribers
  <2>2. CASE t # s
    BY <1>1, <2>1, <2>2 DEF FeedInv, NewestDelivered, Subscribers, ScreensTypeOK
  <2>3. CASE t = s /\ chan[s] # NoFix
    BY <1>1, <2>1, <2>3 DEF FeedInv, NewestDelivered
  <2>4. CASE t = s /\ chan[s] = NoFix
    <3>1. wire[s][Len(wire[s])] = latest[s]
      BY <1>1, <2>1, <2>4 DEF FeedInv, NewestDelivered
    <3>2. wire'[s] = Tail(wire[s]) /\ screen'[s] = wire[s][1]
      BY <1>1, <1>2 DEF FeedInv, ScreensTypeOK
    <3>3. CASE Len(wire[s]) = 1
      BY <1>1, <1>2, <2>4, <3>1, <3>2, <3>3, EmptySeq
    <3>4. CASE Len(wire[s]) # 1
      <4>1. Tail(wire[s])[Len(Tail(wire[s]))] = wire[s][Len(wire[s])]
        <5> DEFINE n == Len(wire[s])
        <5>1. n \in Nat \ {0} /\ n # 1 /\ Len(Tail(wire[s])) = n - 1
          BY <1>2, <3>4
        <5> HIDE DEF n
        <5>2. n - 1 \in 1 .. n - 1 /\ n - 1 + 1 = n
          BY <5>1
        <5>3. Tail(wire[s])[n - 1] = wire[s][n]
          BY <1>2, <5>1, <5>2
        <5> QED
          BY <5>1, <5>3 DEF n
      <4>2. Tail(wire[s]) # <<>>
        <5>1. Len(Tail(wire[s])) # 0
          BY <1>2, <3>4
        <5> QED
          BY <5>1, EmptySeq
      <4> QED
        BY <1>1, <2>4, <3>1, <3>2, <4>1, <4>2
    <3> QED
      BY <3>3, <3>4
  <2> QED
    BY <2>2, <2>3, <2>4
<1> QED
  BY <1>3, <1>5, <1>6

\* Writing the update of the channel makes it the last message.
LEMMA TakeKeeps ==
  ASSUME FeedInv, NEW s \in Screens, Take(s)
  PROVE  ScreensTypeOK' /\ NothingForTheGone' /\ NewestDelivered'
<1>1. /\ chan[s] \in Location /\ wire[s] \in Seq(Location) /\ s \in Subscribers
      /\ UNCHANGED <<spc, asked, sgot, screen, latest>>
      /\ wire' = [wire EXCEPT ![s] = Append(wire[s], chan[s])]
      /\ chan' = [chan EXCEPT ![s] = NoFix]
  BY DEF Take, FeedInv, ScreensTypeOK, Subscribers
<1>2. /\ Append(wire[s], chan[s]) \in Seq(Location)
      /\ Append(wire[s], chan[s]) # <<>>
      /\ Append(wire[s], chan[s])[Len(Append(wire[s], chan[s]))] = chan[s]
  BY <1>1, AppendProperties
<1>3. ScreensTypeOK'
  BY <1>1, <1>2 DEF FeedInv, ScreensTypeOK
<1>4. NothingForTheGone'
  BY <1>1 DEF FeedInv, NothingForTheGone, Subscribers, ScreensTypeOK
<1>5. NewestDelivered'
  BY <1>1, <1>2, NoFixAssumption DEF FeedInv, NewestDelivered, Subscribers, ScreensTypeOK
<1> QED
  BY <1>3, <1>4, <1>5

\* A broadcast replaces what is in the channels.
LEMMA AnnounceKeeps ==
  ASSUME FeedInv, NEW h \in Handlers, AnnounceToAll(h)
  PROVE  ScreensTypeOK' /\ NothingForTheGone' /\ NewestDelivered'
<1>1. hout[h] \in Location /\ hout[h] # NoFix
  BY NoFixAssumption DEF AnnounceToAll, Announce, FeedInv, StoreInv, StoreTypeOK, HandlersInv
<1>2. /\ UNCHANGED <<spc, asked, sgot, screen, wire>>
      /\ chan' = [s \in Screens |-> IF s \in Subscribers THEN hout[h] ELSE chan[s]]
      /\ latest' = [s \in Screens |-> IF s \in Subscribers THEN hout[h] ELSE latest[s]]
  BY DEF AnnounceToAll, Broadcast
<1>3. ScreensTypeOK'
  BY <1>1, <1>2 DEF FeedInv, ScreensTypeOK
<1>4. NothingForTheGone'
  BY <1>2 DEF FeedInv, NothingForTheGone, Subscribers
<1>5. NewestDelivered'
  BY <1>1, <1>2 DEF NewestDelivered, Subscribers
<1> QED
  BY <1>3, <1>4, <1>5

\* The end of a connection leaves nothing under way to its screen, whatever the
\* screen shows then.
LEMMA EndConnectionKeeps ==
  ASSUME FeedInv, NEW s \in Screens, NEW then \in {"waiting", "closed", "connecting"},
         EndConnection(s, then),
         asked' \in [Screens -> SUBSET Asked], sgot' \in [Screens -> SUBSET Answered],
         screen' \in [Screens -> Location \cup {NoFix}],
         \A t \in Screens \ {s} : screen'[t] = screen[t]
  PROVE  ScreensTypeOK' /\ NothingForTheGone' /\ NewestDelivered'
<1>1. /\ spc' = [spc EXCEPT ![s] = then]
      /\ chan' = [chan EXCEPT ![s] = NoFix]
      /\ wire' = [wire EXCEPT ![s] = <<>>]
      /\ latest' = [latest EXCEPT ![s] = NoFix]
  BY DEF EndConnection
<1>2. ScreensTypeOK'
  BY <1>1, EmptySeq DEF FeedInv, ScreensTypeOK
<1>3. NothingForTheGone'
  BY <1>1 DEF FeedInv, NothingForTheGone, Subscribers, ScreensTypeOK
<1>4. NewestDelivered'
  BY <1>1 DEF FeedInv, NewestDelivered, Subscribers, ScreensTypeOK
<1> QED
  BY <1>2, <1>3, <1>4

\* A lost connection, the end of a load, and the end of the screen.
LEMMA EndKeeps ==
  ASSUME FeedInv, NEW s \in Screens,
         \/ Disconnect(s) \/ CloseScreen(s)
         \/ \E a \in sgot[s] : ApplyCurrent(s, a)
         \/ \E a \in asked[s] \cup sgot[s] : LoadFails(s, a)
  PROVE  ScreensTypeOK' /\ NothingForTheGone' /\ NewestDelivered'
<1>1. ScreensTypeOK
  BY DEF FeedInv
<1>2. CASE Disconnect(s)
  BY <1>1, <1>2, EndConnectionKeeps DEF Disconnect, ScreensTypeOK
<1>3. CASE CloseScreen(s)
  BY <1>1, <1>3, EndConnectionKeeps DEF CloseScreen, ScreensTypeOK
<1>4. ASSUME NEW a \in sgot[s], ApplyCurrent(s, a)
      PROVE  ScreensTypeOK' /\ NothingForTheGone' /\ NewestDelivered'
  <2>1. a.row \in Location \cup {NoFix}
    BY <1>1 DEF ScreensTypeOK, Answered
  <2> QED
    BY <1>1, <1>4, <2>1, EndConnectionKeeps DEF ApplyCurrent, ScreensTypeOK
<1>5. ASSUME NEW a \in asked[s] \cup sgot[s], LoadFails(s, a)
      PROVE  ScreensTypeOK' /\ NothingForTheGone' /\ NewestDelivered'
  BY <1>1, <1>5, EndConnectionKeeps DEF LoadFails, ScreensTypeOK
<1> QED
  BY <1>2, <1>3, <1>4, <1>5

\* A load that begins is of this screen and notes what it shows.
LEMMA AskTyped ==
  ASSUME ScreensTypeOK, NEW s \in Screens, Ask(s)
  PROVE  asked' \in [Screens -> SUBSET Asked]
<1>1. PICK l \in Loads :
        asked' = [asked EXCEPT ![s] = asked[s] \cup {[load |-> l, shown |-> screen[s]]}]
  BY DEF Ask, ScreensTypeOK
<1>2. [load |-> l, shown |-> screen[s]] \in Asked
  BY DEF ScreensTypeOK, Asked
<1> QED
  BY <1>1, <1>2 DEF ScreensTypeOK

\* A load on its way changes nothing of the connection.
LEMMA LoadKeeps ==
  ASSUME FeedInv, NEW s \in Screens,
         Refresh(s) \/ \E a \in asked[s] : ReadCurrent(s, a)
  PROVE  ScreensTypeOK' /\ NothingForTheGone' /\ NewestDelivered'
<1>1. UNCHANGED <<spc, screen, chan, wire, latest>>
  BY DEF Refresh, ReadCurrent
<1>2. NothingForTheGone' /\ NewestDelivered'
  BY <1>1 DEF FeedInv, NothingForTheGone, NewestDelivered, Subscribers
<1>3. ASSUME Refresh(s) PROVE ScreensTypeOK'
  BY <1>1, <1>3, AskTyped DEF Refresh, FeedInv, ScreensTypeOK
<1>4. ASSUME NEW a \in asked[s], ReadCurrent(s, a) PROVE ScreensTypeOK'
  <2>1. [load |-> a.load, shown |-> a.shown, row |-> state] \in Answered
    BY DEF FeedInv, StoreInv, StoreTypeOK, ScreensTypeOK, Asked, Answered
  <2>2. /\ asked' = [asked EXCEPT ![s] = asked[s] \ {a}]
        /\ sgot' = [sgot EXCEPT ![s] =
              sgot[s] \cup {[load |-> a.load, shown |-> a.shown, row |-> state]}]
    BY <1>4 DEF ReadCurrent, FeedInv, ScreensTypeOK
  <2> QED
    BY <1>1, <2>1, <2>2 DEF FeedInv, ScreensTypeOK
<1> QED
  BY <1>2, <1>3, <1>4

\* Before the subscription nothing is under way to a screen.
LEMMA ConnectKeeps ==
  ASSUME FeedInv, NEW s \in Screens,
         OpenScreen(s) \/ Accept(s) \/ Subscribe(s) \/ Reconnect(s)
  PROVE  ScreensTypeOK' /\ NothingForTheGone' /\ NewestDelivered'
<1>1. /\ spc[s] # "subscribed"
      /\ UNCHANGED <<sgot, screen, chan, wire, latest>>
      /\ \E next \in {"loading", "connecting", "accepted", "subscribed"} :
           spc' = [spc EXCEPT ![s] = next]
      /\ asked' \in [Screens -> SUBSET Asked]
  BY AskTyped DEF OpenScreen, Accept, Subscribe, Reconnect, FeedInv, ScreensTypeOK
<1>2. ScreensTypeOK'
  BY <1>1 DEF FeedInv, ScreensTypeOK
<1>3. latest[s] = NoFix /\ chan[s] = NoFix /\ wire[s] = <<>>
  BY <1>1 DEF FeedInv, NothingForTheGone, Subscribers
<1>4. \A t \in Screens : t # s => spc'[t] = spc[t]
  BY <1>1 DEF FeedInv, ScreensTypeOK
<1>5. NothingForTheGone'
  BY <1>1, <1>3, <1>4 DEF FeedInv, NothingForTheGone, Subscribers
<1>6. NewestDelivered'
  BY <1>1, <1>3, <1>4 DEF FeedInv, NewestDelivered, Subscribers
<1> QED
  BY <1>2, <1>5, <1>6

\* What leaves the feed alone leaves all it promises.
LEMMA FeedStutters ==
  ASSUME FeedInv, UNCHANGED feedVars
  PROVE  ScreensTypeOK' /\ NothingForTheGone' /\ NewestDelivered'
BY DEF FeedInv, feedVars, ScreensTypeOK, NothingForTheGone, NewestDelivered, Subscribers

\* Nothing is stored, and no screen is open.
LEMMA InitFeedInv == Init => FeedInv
<1> SUFFICES ASSUME Init PROVE FeedInv
  OBVIOUS
<1>1. StoreInv
  BY InitStoreInv DEF Init
<1>2. ScreensTypeOK
  BY EmptySeq DEF Init, ScreensTypeOK
<1> QED
  BY <1>1, <1>2 DEF Init, FeedInv, NothingForTheGone, NewestDelivered, Subscribers

\* Every step of the handlers and of the screens keeps the invariant.
LEMMA NextFeedInv == FeedInv /\ [Next]_vars => FeedInv'
<1> SUFFICES ASSUME FeedInv, [Next]_vars PROVE FeedInv'
  OBVIOUS
<1>1. StoreInv'
  BY FeedStepIsStoreStep, NextStoreInv DEF FeedInv
<1>2. ASSUME NEW s \in Screens, ScreenNext(s)
      PROVE  ScreensTypeOK' /\ NothingForTheGone' /\ NewestDelivered'
  BY <1>2, DeliverKeeps, TakeKeeps, EndKeeps, LoadKeeps, ConnectKeeps DEF ScreenNext, Load
<1>3. ScreensTypeOK' /\ NothingForTheGone' /\ NewestDelivered'
  BY <1>2, AnnounceKeeps, FeedStutters DEF Next, vars
<1> QED
  BY <1>1, <1>3 DEF FeedInv

\* Every behaviour keeps the invariant of the store and of the feed.
THEOREM SpecFeedInv == Spec => []FeedInv
BY InitFeedInv, NextFeedInv, PTL DEF Spec

\* Every variable of the feed keeps its type; no empty update is ever written.
THEOREM FeedTypeCorrect == Spec => []FeedTypeOK
<1>1. FeedInv => FeedTypeOK
  BY DEF FeedInv, ScreensTypeOK, StoreInv, FeedTypeOK
<1> QED  BY <1>1, SpecFeedInv, PTL

\* The last thing a subscriber will show is the last broadcast, for any number of
\* handlers, whatever the channel dropped and wherever the message is.
THEOREM NewestDeliveredHolds == Spec => []NewestDelivered
<1>1. FeedInv => NewestDelivered
  BY DEF FeedInv
<1> QED  BY <1>1, SpecFeedInv, PTL

-----------------------------------------------------------------------------
(* What is behind the row, for any number of handlers. *)

\* x and y, when they are there, were recorded in this order.
NotAfter(x, y) == x # NoFix => y # NoFix /\ x.rec <= y.rec
Ordered(x, y) == x # NoFix /\ y # NoFix => x.rec <= y.rec

\* What a handler announces was the row once.
AnnouncedInv ==
  \A h \in Handlers : hpc[h] \in {"announcing", "created"} => NotAfter(hout[h], state)

\* What a screen shows, was shown when a load began, has been answered or is on
\* its way was the row once, and a load is answered with a row that is no older
\* than what was shown when it began.
Behind(s) ==
  /\ \A a \in asked[s] : NotAfter(a.shown, state)
  /\ \A a \in sgot[s] : NotAfter(a.shown, a.row) /\ NotAfter(a.row, state)
  /\ NotAfter(screen[s], state) /\ NotAfter(chan[s], state)
  /\ \A i \in 1 .. Len(wire[s]) : NotAfter(wire[s][i], state)

BehindInv == AnnouncedInv /\ \A s \in Screens : Behind(s)

\* Whatever the handlers do, the row is never replaced by an older one.
LEMMA RowForward ==
  ASSUME StoreInv, [StoreNext]_storeVars
  PROVE  NotAfter(state, state')
<1> USE DEF NotAfter
<1>1. state # NoFix => state.rec \in Nat
  BY DEF StoreInv, StoreTypeOK, Location
<1>2. ASSUME NEW h \in Handlers, Save(h) PROVE NotAfter(state, state')
  <2> DEFINE row == Row(hfix[h], Stopped(hprev[h], hfix[h]))
  <2>1. row \in Location /\ row.rec = hfix[h].rec
    BY <1>2, NewRow DEF Save
  <2>2. row # NoFix
    BY <2>1, NoFixAssumption
  <2>3. CASE Accepts(hfix[h]) /\ state' = row
    BY <2>1, <2>2, <2>3 DEF Accepts
  <2>4. CASE state' = state
    BY <1>1, <2>4
  <2> QED
    BY <1>2, <2>3, <2>4 DEF Save, Upsert
<1>3. CASE state' = state
  BY <1>1, <1>3
<1> QED
  BY <1>2, <1>3 DEF StoreNext, Quiet, Submit, ReadPrevious, ReadBack, QueryFails, Announce,
     Answer, StoreTick, tables, storeVars

\* What was not newer than the row is not newer than the one that replaces it.
LEMMA StaysNotAfter ==
  ASSUME StoreInv, StoreInv', NotAfter(state, state'),
         NEW x \in Location \cup {NoFix}, NotAfter(x, state)
  PROVE  NotAfter(x, state')
<1>1. CASE x = NoFix
  BY <1>1 DEF NotAfter
<1>2. CASE x # NoFix
  <2>1. /\ x.rec \in Nat
        /\ state # NoFix /\ state.rec \in Nat
        /\ x.rec <= state.rec
    BY <1>2 DEF NotAfter, StoreInv, StoreTypeOK, Location
  <2>2. state' # NoFix /\ state.rec <= state'.rec
    BY <2>1 DEF NotAfter
  <2>3. state'.rec \in Nat
    BY <2>2 DEF StoreInv, StoreTypeOK, Location
  <2> QED
    BY <2>1, <2>2, <2>3 DEF NotAfter
<1> QED
  BY <1>1, <1>2

\* A handler reads the row back before it announces it.
LEMMA AnnouncedKeeps ==
  ASSUME StoreInv, StoreInv', AnnouncedInv, [StoreNext]_storeVars
  PROVE  AnnouncedInv'
<1>1. NotAfter(state, state')
  BY RowForward
<1>2. \A h \in Handlers : hout[h] \in Location \cup {NoFix}
  BY DEF StoreInv, StoreTypeOK
<1>3. ASSUME NEW h \in Handlers, hpc[h] \in {"announcing", "created"}
      PROVE  NotAfter(hout[h], state')
  BY <1>1, <1>2, <1>3, StaysNotAfter DEF AnnouncedInv
<1>4. ASSUME NEW g \in Handlers, ReadBack(g) PROVE AnnouncedInv'
  <2>1. /\ hout'[g] = state /\ state' = state
        /\ \A h \in Handlers \ {g} : hpc'[h] = hpc[h] /\ hout'[h] = hout[h]
    BY <1>4 DEF ReadBack, tables, StoreInv, StoreTypeOK
  <2> QED
    BY <1>1, <1>3, <2>1 DEF AnnouncedInv
<1>5. ASSUME \A h \in Handlers : hpc'[h] \in {"announcing", "created"}
                => hpc[h] \in {"announcing", "created"} /\ hout'[h] = hout[h]
      PROVE  AnnouncedInv'
  BY <1>3, <1>5 DEF AnnouncedInv
<1>6. ASSUME NEW g \in Handlers,
             \/ \E f \in Postable : Submit(g, f)
             \/ ReadPrevious(g) \/ Save(g) \/ QueryFails(g) \/ Announce(g) \/ Answer(g)
      PROVE  AnnouncedInv'
  <2>1. \A h \in Handlers : hpc'[h] \in {"announcing", "created"}
          => hpc[h] \in {"announcing", "created"} /\ hout'[h] = hout[h]
    BY <1>6 DEF Submit, ReadPrevious, Save, QueryFails, Announce, Answer, StoreInv, StoreTypeOK
  <2> QED
    BY <1>5, <2>1
<1>7. CASE StoreTick \/ UNCHANGED storeVars
  BY <1>5, <1>7 DEF StoreTick, storeVars, tables, locals
<1> QED
  BY <1>4, <1>6, <1>7 DEF StoreNext, Quiet

\* A screen nothing happens to stays behind the row.
LEMMA BehindStays ==
  ASSUME FeedInv, StoreInv', NotAfter(state, state'), NEW s \in Screens, Behind(s),
         asked'[s] = asked[s], sgot'[s] = sgot[s], screen'[s] = screen[s],
         chan'[s] = chan[s], wire'[s] = wire[s]
  PROVE  Behind(s)'
<1>1. StoreInv
  BY DEF FeedInv
<1>2. /\ screen[s] \in Location \cup {NoFix} /\ chan[s] \in Location \cup {NoFix}
      /\ wire[s] \in Seq(Location)
      /\ \A a \in asked[s] : a.shown \in Location \cup {NoFix}
      /\ \A a \in sgot[s] : a.row \in Location \cup {NoFix}
  BY DEF FeedInv, ScreensTypeOK, Asked, Answered
<1>3. NotAfter(screen[s], state') /\ NotAfter(chan[s], state')
  BY <1>1, <1>2, StaysNotAfter DEF Behind
<1>4. \A i \in 1 .. Len(wire[s]) : NotAfter(wire[s][i], state')
  <2> TAKE i \in 1 .. Len(wire[s])
  <2>1. wire[s][i] \in Location
    BY <1>2, ElementOfSeq
  <2> QED
    BY <1>1, <2>1, StaysNotAfter DEF Behind
<1>5. \A a \in asked[s] : NotAfter(a.shown, state')
  BY <1>1, <1>2, StaysNotAfter DEF Behind
<1>6. \A a \in sgot[s] : NotAfter(a.row, state')
  BY <1>1, <1>2, StaysNotAfter DEF Behind
<1> QED
  BY <1>3, <1>4, <1>5, <1>6 DEF Behind

\* A load notes what is shown, reads the row, and brings it or fails.
LEMMA LoadBehind ==
  ASSUME FeedInv, NEW s \in Screens, Behind(s), OpenScreen(s) \/ Refresh(s) \/ Load(s)
  PROVE  Behind(s)'
<1>1. NotAfter(state, state) /\ UNCHANGED state
  BY DEF NotAfter, FeedInv, StoreInv, StoreTypeOK, Location, OpenScreen, Refresh, Load,
     ReadCurrent, ApplyCurrent, LoadFails, storeVars, tables
<1>2. CASE OpenScreen(s) \/ Refresh(s)
  <2>1. /\ UNCHANGED <<sgot, screen, chan, wire>>
        /\ \A a \in asked'[s] : a \in asked[s] \/ a.shown = screen[s]
    BY <1>2 DEF OpenScreen, Refresh, Ask, FeedInv, ScreensTypeOK
  <2> QED
    BY <1>1, <2>1 DEF Behind
<1>3. ASSUME NEW a \in asked[s], ReadCurrent(s, a) PROVE Behind(s)'
  <2>1. /\ UNCHANGED <<screen, chan, wire>> /\ asked'[s] \subseteq asked[s]
        /\ sgot'[s] = sgot[s] \cup {[load |-> a.load, shown |-> a.shown, row |-> state]}
    BY <1>3 DEF ReadCurrent, FeedInv, ScreensTypeOK
  <2>2. NotAfter(a.shown, state)
    BY DEF Behind
  <2>3. \A b \in sgot'[s] : NotAfter(b.shown, b.row) /\ NotAfter(b.row, state)
    <3> TAKE b \in sgot'[s]
    <3>1. CASE b \in sgot[s]
      BY <3>1 DEF Behind
    <3>2. CASE b = [load |-> a.load, shown |-> a.shown, row |-> state]
      BY <1>1, <2>2, <3>2
    <3> QED
      BY <2>1, <3>1, <3>2
  <2> QED
    BY <1>1, <2>1, <2>3 DEF Behind
<1>4. ASSUME NEW a \in asked[s] \cup sgot[s],
             (a \in sgot[s] /\ ApplyCurrent(s, a)) \/ LoadFails(s, a)
      PROVE  Behind(s)'
  <2>1. /\ asked'[s] \subseteq asked[s] /\ sgot'[s] \subseteq sgot[s]
        /\ chan'[s] = NoFix /\ wire'[s] = <<>>
        /\ screen'[s] = screen[s] \/ (a \in sgot[s] /\ screen'[s] = a.row)
    BY <1>4 DEF ApplyCurrent, LoadFails, EndConnection, FeedInv, ScreensTypeOK
  <2>2. Len(wire'[s]) = 0 /\ NotAfter(chan'[s], state)
    BY <2>1, EmptySeq DEF NotAfter
  <2>3. NotAfter(screen'[s], state)
    BY <2>1 DEF Behind
  <2> QED
    BY <1>1, <2>1, <2>2, <2>3 DEF Behind
<1> QED
  BY <1>2, <1>3, <1>4 DEF Load

\* What travels over a connection was announced.
LEMMA ConnectionBehind ==
  ASSUME FeedInv, NEW s \in Screens, Behind(s),
         \/ Accept(s) \/ Subscribe(s) \/ Take(s) \/ Deliver(s)
         \/ Disconnect(s) \/ Reconnect(s) \/ CloseScreen(s)
  PROVE  Behind(s)'
<1>1. UNCHANGED state
  BY DEF Accept, Subscribe, Take, Deliver, Disconnect, Reconnect, CloseScreen, storeVars,
     tables
<1>2. CASE Accept(s) \/ Subscribe(s) \/ Reconnect(s)
  BY <1>1, <1>2 DEF Accept, Subscribe, Reconnect, Behind
<1>3. CASE Take(s)
  <2>1. /\ chan[s] \in Location /\ wire[s] \in Seq(Location)
        /\ UNCHANGED <<asked, sgot, screen>>
        /\ wire'[s] = Append(wire[s], chan[s]) /\ chan'[s] = NoFix
    BY <1>3 DEF Take, FeedInv, ScreensTypeOK
  <2> DEFINE n == Len(wire[s])
  <2>2. /\ n \in Nat /\ Len(wire'[s]) = n + 1 /\ wire'[s][n+1] = chan[s]
        /\ \A i \in 1 .. n : wire'[s][i] = wire[s][i] /\ NotAfter(wire[s][i], state)
    BY <2>1, AppendProperties, LenProperties DEF Behind
  <2> HIDE DEF n
  <2>3. \A i \in 1 .. n + 1 : i \in 1 .. n \/ i = n + 1
    BY <2>2
  <2>4. \A i \in 1 .. n + 1 : NotAfter(wire'[s][i], state)
    BY <2>2, <2>3 DEF Behind
  <2> QED
    BY <1>1, <2>1, <2>2, <2>4 DEF Behind, NotAfter
<1>4. CASE Deliver(s)
  <2>1. /\ wire[s] \in Seq(Location) /\ wire[s] # <<>>
        /\ UNCHANGED <<asked, sgot, chan>>
        /\ screen'[s] = Head(wire[s]) /\ wire'[s] = Tail(wire[s])
    BY <1>4 DEF Deliver, FeedInv, ScreensTypeOK
  <2>2. /\ Head(wire[s]) = wire[s][1]
        /\ Len(wire[s]) \in Nat \ {0} /\ Len(Tail(wire[s])) = Len(wire[s]) - 1
        /\ \A i \in 1 .. Len(Tail(wire[s])) : Tail(wire[s])[i] = wire[s][i+1]
    BY <2>1, HeadTailProperties, EmptySeq
  <2>3. \A i \in 1 .. Len(Tail(wire[s])) : i + 1 \in 1 .. Len(wire[s])
    BY <2>2
  <2>4. \A i \in 1 .. Len(wire'[s]) : NotAfter(wire'[s][i], state)
    BY <2>1, <2>2, <2>3 DEF Behind
  <2>5. 1 \in 1 .. Len(wire[s])
    BY <2>2
  <2>6. NotAfter(screen'[s], state)
    BY <2>1, <2>2, <2>5 DEF Behind
  <2> QED
    BY <1>1, <2>1, <2>4, <2>6 DEF Behind
<1>5. CASE Disconnect(s) \/ CloseScreen(s)
  <2>1. /\ asked'[s] \subseteq asked[s] /\ sgot'[s] \subseteq sgot[s]
        /\ chan'[s] = NoFix /\ wire'[s] = <<>>
        /\ screen'[s] = screen[s] \/ screen'[s] = NoFix
    BY <1>5 DEF Disconnect, CloseScreen, EndConnection, FeedInv, ScreensTypeOK
  <2>2. /\ Len(wire'[s]) = 0
        /\ NotAfter(chan'[s], state) /\ NotAfter(screen'[s], state)
    BY <2>1, EmptySeq DEF NotAfter, Behind
  <2> QED
    BY <1>1, <2>1, <2>2 DEF Behind
<1> QED
  BY <1>2, <1>3, <1>4, <1>5

\* A step of one screen leaves the others as they are.
LEMMA OthersStay ==
  ASSUME ScreensTypeOK, NEW s \in Screens, ScreenNext(s), NEW t \in Screens, t # s
  PROVE  /\ asked'[t] = asked[t] /\ sgot'[t] = sgot[t] /\ screen'[t] = screen[t]
         /\ chan'[t] = chan[t] /\ wire'[t] = wire[t]
<1>1. CASE OpenScreen(s) \/ Refresh(s)
  BY <1>1 DEF OpenScreen, Refresh, Ask, ScreensTypeOK
<1>2. CASE Load(s)
  BY <1>2 DEF Load, ReadCurrent, ApplyCurrent, LoadFails, EndConnection, ScreensTypeOK
<1>3. CASE Accept(s) \/ Subscribe(s) \/ Reconnect(s) \/ Take(s) \/ Deliver(s)
  BY <1>3 DEF Accept, Subscribe, Reconnect, Take, Deliver, ScreensTypeOK
<1>4. CASE Disconnect(s) \/ CloseScreen(s)
  BY <1>4 DEF Disconnect, CloseScreen, EndConnection, ScreensTypeOK
<1> QED
  BY <1>1, <1>2, <1>3, <1>4 DEF ScreenNext

\* Every step of the handlers and of the screens keeps everything behind the row.
LEMMA BehindKeeps ==
  ASSUME FeedInv, BehindInv, [Next]_vars
  PROVE  BehindInv'
<1>1. StoreInv' /\ NotAfter(state, state')
  BY FeedStepIsStoreStep, NextStoreInv, RowForward DEF FeedInv
<1>2. AnnouncedInv'
  BY <1>1, FeedStepIsStoreStep, AnnouncedKeeps DEF FeedInv, BehindInv
<1>3. ASSUME NEW s \in Screens, ScreenNext(s), NEW t \in Screens PROVE Behind(t)'
  <2>1. CASE t = s
    BY <1>3, <2>1, LoadBehind, ConnectionBehind DEF BehindInv, ScreenNext
  <2>2. CASE t # s
    BY <1>1, <1>3, <2>2, OthersStay, BehindStays DEF FeedInv, BehindInv
  <2> QED
    BY <2>1, <2>2
<1>4. ASSUME NEW h \in Handlers, AnnounceToAll(h), NEW s \in Screens PROVE Behind(s)'
  <2>1. NotAfter(hout[h], state)
    BY <1>4 DEF AnnounceToAll, Announce, BehindInv, AnnouncedInv
  <2>2. /\ UNCHANGED <<asked, sgot, screen, wire, state>>
        /\ chan'[s] = hout[h] \/ chan'[s] = chan[s]
    BY <1>4 DEF AnnounceToAll, Announce, Broadcast, tables
  <2> QED
    BY <2>1, <2>2 DEF BehindInv, Behind
<1>5. ASSUME UNCHANGED feedVars, NEW s \in Screens PROVE Behind(s)'
  BY <1>1, <1>5, BehindStays DEF feedVars, BehindInv
<1> QED
  BY <1>2, <1>3, <1>4, <1>5 DEF Next, vars, BehindInv

\* Where nothing is, nothing is ahead of the row.
LEMMA InitBehind == Init => BehindInv
<1> SUFFICES ASSUME Init PROVE BehindInv
  OBVIOUS
<1>1. Len(<<>>) = 0
  BY EmptySeq
<1> QED
  BY <1>1 DEF Init, StoreInit, BehindInv, AnnouncedInv, Behind, NotAfter

\* The refresh button of a screen brings nothing older than what the screen showed
\* when it was pressed, for any number of handlers that announce in any order.
THEOREM RefreshIsCurrentHolds == Spec => []RefreshIsCurrent
<1>1. BehindInv => RefreshIsCurrent
  BY DEF BehindInv, Behind, NotAfter, RefreshIsCurrent
<1>2. FeedInv /\ BehindInv /\ [Next]_vars => BehindInv'
  BY BehindKeeps
<1> QED
  BY <1>1, <1>2, InitBehind, SpecFeedInv, PTL DEF Spec
-----------------------------------------------------------------------------
(* One request at a time. *)

\* The server handles one post of the truck at a time.
OneHandler == \A g, h \in Handlers : g = h

\* Nobody else moves the row between the statements of the one handler.
SerialInv ==
  \A h \in Handlers :
    /\ hpc[h] = "saving" /\ Accepts(hfix[h]) => hprev[h] = state
    /\ hpc[h] \in {"announcing", "created"} => hout[h] = state

\* What a screen shows, what is on its way to it and what its channel holds are in
\* the order in which they were recorded.
Chain(s) ==
  /\ Ordered(screen[s], chan[s])
  /\ \A i \in 1 .. Len(wire[s]) :
       /\ Ordered(screen[s], wire[s][i])
       /\ Ordered(wire[s][i], chan[s])
       /\ \A j \in i .. Len(wire[s]) : wire[s][i].rec <= wire[s][j].rec

OrderInv == \A s \in Screens : Chain(s)

-----------------------------------------------------------------------------
\* With one handler nobody moves the row between its statements.
LEMMA SerialKeeps ==
  ASSUME OneHandler, StoreInv, SerialInv, [StoreNext]_storeVars
  PROVE  SerialInv'
<1>1. ASSUME NEW h \in Handlers,
             \/ \E f \in Postable : Submit(h, f)
             \/ Save(h) \/ QueryFails(h) \/ Answer(h)
      PROVE  SerialInv'
  <2>1. hpc'[h] \notin {"saving", "announcing", "created"}
    BY <1>1 DEF Submit, Save, QueryFails, Answer, StoreInv, StoreTypeOK
  <2> QED
    BY <2>1 DEF SerialInv, OneHandler
<1>2. ASSUME NEW h \in Handlers, ReadPrevious(h) PROVE SerialInv'
  <2>1. /\ hpc'[h] = "saving" /\ state' = state /\ hfix' = hfix
        /\ hprev'[h] = IF state # NoFix /\ hfix[h].rec >= state.rec THEN state ELSE NoFix
    BY <1>2 DEF ReadPrevious, tables, StoreInv, StoreTypeOK
  <2>2. state # NoFix => state.rec \in Nat
    BY DEF StoreInv, StoreTypeOK, Location
  <2>3. hfix[h].rec \in Nat
    BY <1>2 DEF ReadPrevious, StoreInv, HandlersInv, Fix
  <2> QED
    BY <2>1, <2>2, <2>3 DEF SerialInv, OneHandler, Accepts
<1>3. ASSUME NEW h \in Handlers, ReadBack(h) PROVE SerialInv'
  <2>1. hpc'[h] = "announcing" /\ hout'[h] = state /\ state' = state
    BY <1>3 DEF ReadBack, tables, StoreInv, StoreTypeOK
  <2> QED
    BY <2>1 DEF SerialInv, OneHandler
<1>4. ASSUME NEW h \in Handlers, Announce(h) PROVE SerialInv'
  <2>1. /\ hpc[h] = "announcing" /\ hpc'[h] = "created"
        /\ hout' = hout /\ state' = state
    BY <1>4 DEF Announce, tables, StoreInv, StoreTypeOK
  <2> QED
    BY <2>1 DEF SerialInv, OneHandler
<1>5. CASE StoreTick \/ UNCHANGED storeVars
  BY <1>5 DEF StoreTick, storeVars, tables, locals, SerialInv, Accepts
<1> QED
  BY <1>1, <1>2, <1>3, <1>4, <1>5 DEF StoreNext, Quiet

\* The row is written from the row it replaces, so a stop goes on only with a
\* fix that is within its radius.
LEMMA UnbrokenKeeps ==
  ASSUME StoreInv, SerialInv, StopIsUnbroken, [StoreNext]_storeVars
  PROVE  StopIsUnbroken'
<1>1. ASSUME NEW h \in Handlers, Save(h), Accepts(hfix[h]),
             state' = Row(hfix[h], Stopped(hprev[h], hfix[h])),
             applied' = applied \cup {hfix[h]}
      PROVE  StopIsUnbroken'
  <2> DEFINE f == hfix[h]
             stop == Stopped(state, f)
  <2>1. hprev[h] = state
    BY <1>1 DEF Save, SerialInv
  <2>2. /\ state'.since = stop.since /\ state'.anchor = stop.anchor
    BY <1>1, <2>1 DEF Row
  <2>3. f \in Fix /\ f.rec \in Nat /\ f.moving \in BOOLEAN
    BY <1>1 DEF Save, StoreInv, HandlersInv, Fix
  <2>4. \A g \in applied : g.rec \in Nat /\ g.rec <= f.rec
    <3>1. \A g \in applied : g \in history /\ g.rec \in Nat
      BY DEF StoreInv, StoreTypeOK, Fix
    <3>2. state # NoFix => state.rec \in Nat /\ state.rec <= f.rec
      BY <1>1 DEF Accepts, StoreInv, StoreTypeOK, Location
    <3> QED
      BY <2>3, <3>1, <3>2 DEF StoreInv, StateIsNewest
  <2>5. CASE f.moving
    BY <2>2, <2>5 DEF Stopped, StopIsUnbroken
  <2>6. CASE stop.since = f.rec
    <3>1. \A g \in applied' : ~(g.rec > f.rec)
      BY <1>1, <2>3, <2>4
    <3> QED
      BY <2>2, <2>6, <3>1 DEF StopIsUnbroken
  <2>7. CASE /\ ~f.moving /\ state # NoFix /\ state.since # NoTime
             /\ <<state.anchor, f.place>> \in Near
    <3>1. state'.since = state.since /\ state'.anchor = state.anchor
      BY <2>2, <2>7 DEF Stopped
    <3>2. \A g \in applied : g.rec > state.since =>
            ~g.moving /\ <<state.anchor, g.place>> \in Near
      BY <2>7 DEF StopIsUnbroken
    <3> QED
      BY <1>1, <2>7, <3>1, <3>2 DEF StopIsUnbroken
  <2> QED
    BY <2>5, <2>6, <2>7 DEF Stopped
<1>2. CASE UNCHANGED <<state, applied>>
  BY <1>2 DEF StopIsUnbroken
<1> QED
  BY <1>1, <1>2 DEF StoreNext, Quiet, Submit, ReadPrevious, Save, Upsert, ReadBack, QueryFails,
     Announce, Answer, StoreTick, tables, storeVars

-----------------------------------------------------------------------------
\* The first message of a connection is the oldest.
LEMMA DeliverOrdered ==
  ASSUME FeedInv, NEW s \in Screens, Chain(s), Deliver(s)
  PROVE  Chain(s)' /\ Ordered(screen[s], screen'[s])
<1>1. /\ wire[s] \in Seq(Location) /\ wire[s] # <<>>
      /\ UNCHANGED chan
      /\ screen'[s] = Head(wire[s]) /\ wire'[s] = Tail(wire[s])
  BY DEF Deliver, FeedInv, ScreensTypeOK
<1>2. /\ Head(wire[s]) = wire[s][1] /\ wire[s][1] \in Location
      /\ Len(wire[s]) \in Nat \ {0} /\ Len(Tail(wire[s])) = Len(wire[s]) - 1
      /\ \A i \in 1 .. Len(Tail(wire[s])) : Tail(wire[s])[i] = wire[s][i+1]
  BY <1>1, HeadTailProperties, EmptySeq
<1> DEFINE w == wire[s]
           n == Len(wire[s])
<1>4. n \in Nat \ {0} /\ 1 \in 1 .. n
  BY <1>2
<1>5. \A i \in 1 .. n : /\ Ordered(screen[s], w[i])
                        /\ Ordered(w[i], chan[s])
                        /\ \A j \in i .. n : w[i].rec <= w[j].rec
  BY DEF Chain
<1>6. Len(wire'[s]) = n - 1 /\ \A i \in 1 .. n - 1 : wire'[s][i] = w[i+1]
  BY <1>1, <1>2
<1>7. screen'[s] = w[1]
  BY <1>1, <1>2
<1> HIDE DEF w, n
<1>8. \A i \in 1 .. n - 1 : i + 1 \in 1 .. n /\ \A j \in i .. n - 1 : j + 1 \in i + 1 .. n
  BY <1>4
<1>9. \A i \in 1 .. Len(wire'[s]) :
       /\ Ordered(screen'[s], wire'[s][i])
       /\ Ordered(wire'[s][i], chan'[s])
       /\ \A j \in i .. Len(wire'[s]) : wire'[s][i].rec <= wire'[s][j].rec
  <2> TAKE i \in 1 .. Len(wire'[s])
  <2>1. i \in 1 .. n - 1 /\ i + 1 \in 1 .. n /\ wire'[s][i] = w[i+1]
    BY <1>6, <1>8
  <2>2. w[1].rec <= w[i+1].rec
    BY <1>4, <1>5, <2>1
  <2>3. \A j \in i .. n - 1 : w[i+1].rec <= wire'[s][j].rec
    <3> TAKE j \in i .. n - 1
    <3>1. j \in 1 .. n - 1 /\ j + 1 \in i + 1 .. n
      BY <1>8, <2>1, <1>4
    <3> QED
      BY <1>5, <1>6, <2>1, <3>1
  <2> QED
    BY <1>1, <1>5, <1>6, <1>7, <2>1, <2>2, <2>3 DEF Ordered
<1>10. /\ Ordered(screen'[s], chan[s])
       /\ Ordered(screen[s], screen'[s])
  BY <1>4, <1>5, <1>7
<1> QED
  BY <1>1, <1>9, <1>10 DEF Chain

\* What is taken from the channel is not older than the messages before it.
LEMMA TakeOrdered ==
  ASSUME FeedInv, NEW s \in Screens, Chain(s), Take(s)
  PROVE  Chain(s)'
<1>1. /\ chan[s] \in Location /\ chan[s] # NoFix /\ wire[s] \in Seq(Location)
      /\ UNCHANGED screen
      /\ wire'[s] = Append(wire[s], chan[s]) /\ chan'[s] = NoFix
  BY DEF Take, FeedInv, ScreensTypeOK
<1> DEFINE w == wire[s]
           n == Len(wire[s])
<1>2. /\ n \in Nat /\ Len(wire'[s]) = n + 1 /\ wire'[s][n+1] = chan[s]
      /\ \A i \in 1 .. n : wire'[s][i] = w[i] /\ w[i] \in Location
  BY <1>1, AppendProperties, ElementOfSeq, LenProperties
<1>3. \A i \in 1 .. n : /\ Ordered(screen[s], w[i])
                        /\ Ordered(w[i], chan[s])
                        /\ \A j \in i .. n : w[i].rec <= w[j].rec
  BY DEF Chain
<1> HIDE DEF w, n
<1>4. \A i \in 1 .. n + 1 : i \in 1 .. n \/ i = n + 1
  BY <1>2
<1>5. chan[s].rec \in Nat
  BY <1>1 DEF Location
<1>6. \A i \in 1 .. n : w[i] # NoFix /\ w[i].rec <= chan[s].rec
  BY <1>1, <1>2, <1>3, NoFixAssumption DEF Ordered
<1>7. \A i \in 1 .. n + 1 : Ordered(screen[s], wire'[s][i])
  BY <1>2, <1>3, <1>4 DEF Chain
<1>8. \A i \in 1 .. n + 1 : \A j \in i .. n + 1 : wire'[s][i].rec <= wire'[s][j].rec
  <2> SUFFICES ASSUME NEW i \in 1 .. n + 1, NEW j \in i .. n + 1
               PROVE  wire'[s][i].rec <= wire'[s][j].rec
    OBVIOUS
  <2>1. CASE j \in 1 .. n
    <3>1. i \in 1 .. n /\ j \in i .. n
      BY <1>2, <2>1
    <3> QED
      BY <1>2, <1>3, <2>1, <3>1
  <2>2. CASE j = n + 1 /\ i \in 1 .. n
    BY <1>2, <1>6, <2>2
  <2>3. CASE j = n + 1 /\ i = n + 1
    BY <1>2, <1>5, <2>3
  <2>4. j \in 1 .. n + 1
    BY <1>2
  <2> QED
    BY <1>4, <2>1, <2>2, <2>3, <2>4
<1> QED
  BY <1>1, <1>2, <1>7, <1>8 DEF Chain, Ordered

\* Without a connection only the screen is left to be in order; nothing but the
\* answer of a load puts another location there.
LEMMA EndOrdered ==
  ASSUME FeedInv, NEW s \in Screens, Disconnect(s) \/ CloseScreen(s) \/ Load(s), Chain(s)
  PROVE  /\ Chain(s)'
         /\ (\A a \in sgot[s] : ~ApplyCurrent(s, a)) => Ordered(screen[s], screen'[s])
<1>1. Ordered(screen[s], screen[s])
  BY DEF Ordered, FeedInv, ScreensTypeOK, Location
<1>2. CASE \E then \in {"waiting", "closed", "connecting"} : EndConnection(s, then)
  <2>1. chan'[s] = NoFix /\ wire'[s] = <<>>
    BY <1>2 DEF EndConnection, FeedInv, ScreensTypeOK
  <2>2. Len(wire'[s]) = 0
    BY <2>1, EmptySeq
  <2>3. /\ Disconnect(s) => screen'[s] = screen[s]
        /\ CloseScreen(s) => screen'[s] = NoFix
        /\ Load(s) /\ (\A a \in sgot[s] : ~ApplyCurrent(s, a)) => screen'[s] = screen[s]
    BY DEF Disconnect, CloseScreen, Load, ReadCurrent, LoadFails, FeedInv, ScreensTypeOK
  <2> QED
    BY <1>1, <2>1, <2>2, <2>3 DEF Chain, Ordered
<1>3. CASE \E a \in asked[s] : ReadCurrent(s, a)
  BY <1>1, <1>3 DEF ReadCurrent, Chain
<1> QED
  BY <1>2, <1>3 DEF Disconnect, CloseScreen, Load, ApplyCurrent, LoadFails

\* The one handler announces the row, which is not older than anything.
LEMMA AnnounceOrdered ==
  ASSUME FeedInv, BehindInv, SerialInv, OrderInv, NEW h \in Handlers, AnnounceToAll(h),
         NEW s \in Screens
  PROVE  Chain(s)'
<1>1. hout[h] = state
  BY DEF AnnounceToAll, Announce, SerialInv
<1>2. /\ UNCHANGED <<screen, wire>>
      /\ chan'[s] = state \/ chan'[s] = chan[s]
  BY <1>1 DEF AnnounceToAll, Announce, Broadcast
<1>3. NotAfter(screen[s], state) /\ \A i \in 1 .. Len(wire[s]) : NotAfter(wire[s][i], state)
  BY DEF BehindInv, Behind
<1> QED
  BY <1>2, <1>3 DEF OrderInv, Chain, NotAfter, Ordered

\* With one handler every step keeps each screen in order, and only the answer of a
\* load takes one back.
LEMMA OrderKeeps ==
  ASSUME FeedInv, BehindInv, SerialInv, OrderInv, [Next]_vars
  PROVE  /\ OrderInv'
         /\ \A s \in Screens : (\A a \in sgot[s] : ~ApplyCurrent(s, a))
                              => Ordered(screen[s], screen'[s])
<1>1. \A s \in Screens : Ordered(screen[s], screen[s])
  BY DEF Ordered, FeedInv, ScreensTypeOK, Location
<1>2. ASSUME NEW s \in Screens, ScreenNext(s), NEW t \in Screens
      PROVE  /\ Chain(t)'
             /\ (\A a \in sgot[t] : ~ApplyCurrent(t, a)) => Ordered(screen[t], screen'[t])
  <2>1. CASE t # s
    BY <1>1, <1>2, <2>1, OthersStay DEF FeedInv, OrderInv, Chain
  <2>2. CASE t = s /\ Take(s)
    BY <1>1, <2>2, TakeOrdered DEF OrderInv, Take
  <2>3. CASE t = s /\ Deliver(s)
    BY <2>3, DeliverOrdered DEF OrderInv
  <2>4. CASE t = s /\ (Disconnect(s) \/ CloseScreen(s) \/ Load(s))
    BY <2>4, EndOrdered DEF OrderInv
  <2>5. CASE /\ t = s
             /\ OpenScreen(s) \/ Refresh(s) \/ Accept(s) \/ Subscribe(s) \/ Reconnect(s)
    BY <1>1, <2>5 DEF OrderInv, Chain, OpenScreen, Refresh, Accept, Subscribe, Reconnect
  <2> QED
    BY <1>2, <2>1, <2>2, <2>3, <2>4, <2>5 DEF ScreenNext
<1>3. ASSUME NEW h \in Handlers, AnnounceToAll(h)
      PROVE  OrderInv' /\ screen' = screen
  BY <1>3, AnnounceOrdered DEF OrderInv, AnnounceToAll
<1>4. CASE UNCHANGED feedVars
  BY <1>1, <1>4 DEF feedVars, OrderInv, Chain
<1> QED
  BY <1>1, <1>2, <1>3, <1>4 DEF Next, vars, OrderInv

\* What is empty is in order.
LEMMA InitOrdered == Init => SerialInv /\ OrderInv
<1> SUFFICES ASSUME Init PROVE SerialInv /\ OrderInv
  OBVIOUS
<1>1. Len(<<>>) = 0
  BY EmptySeq
<1> QED
  BY <1>1 DEF Init, StoreInit, SerialInv, OrderInv, Chain, Ordered

\* "calculates stopped duration" (README.md 184) holds when a truck has one request
\* handled at a time: no fix since the stop began was moving or out of its radius.
\* Two at a time can break a stop, as the LocationStoreRace instance shows.
THEOREM UnbrokenWhenSerial == ASSUME OneHandler PROVE StoreSpec => []StopIsUnbroken
<1>1. StoreInit => SerialInv /\ StopIsUnbroken
  BY DEF StoreInit, SerialInv, StopIsUnbroken
<1>2. StoreInv /\ SerialInv /\ StopIsUnbroken /\ [StoreNext]_storeVars
        => (SerialInv /\ StopIsUnbroken)'
  BY OneHandler, SerialKeeps, UnbrokenKeeps
<1> QED
  BY <1>1, <1>2, SpecStoreInv, PTL DEF StoreSpec

\* When a truck has one request handled at a time, no message ever replaces what a
\* screen shows by an older location, however loads, the broadcasts, lost updates and
\* new connections follow each other: only the answer of a load does, to no further
\* than RefreshIsCurrent says.
THEOREM ForwardWhenSerial == ASSUME OneHandler PROVE Spec => BroadcastsForward
<1>1. FeedInv /\ BehindInv /\ [Next]_vars => BehindInv'
  BY BehindKeeps
<1>2. FeedInv /\ BehindInv /\ SerialInv /\ OrderInv /\ [Next]_vars
        => (SerialInv /\ OrderInv)'
  BY OneHandler, SerialKeeps, OrderKeeps, FeedStepIsStoreStep DEF FeedInv
<1>3. FeedInv /\ BehindInv /\ SerialInv /\ OrderInv /\ [Next]_vars =>
        [\A s \in Screens :
           /\ screen[s] # NoFix /\ screen'[s] # NoFix
           /\ ~\E a \in sgot[s] : ApplyCurrent(s, a)
           => screen[s].rec <= screen'[s].rec]_vars
  BY OrderKeeps DEF Ordered
<1> QED
  BY <1>1, <1>2, <1>3, InitBehind, InitOrdered, SpecFeedInv, PTL DEF Spec, BroadcastsForward
=============================================================================
