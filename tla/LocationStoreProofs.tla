------------------------- MODULE LocationStoreProofs -------------------------
(***************************************************************************)
(* The safety of LocationStore for any number of handlers, any places and  *)
(* any bounds.  The row a handler read may be out of date when it saves;   *)
(* HandlersInv says what stays true of it, because stored fixes are never  *)
(* removed and the row never gets older.                                   *)
(***************************************************************************)
EXTENDS LocationStore, TLAPS

\* A row whose stop has its origin among the stored fixes.
Rooted(loc) ==
  loc.since # NoTime =>
    /\ ~loc.moving
    /\ loc.since <= loc.rec
    /\ <<loc.anchor, loc.place>> \in Near
    /\ [place |-> loc.anchor, moving |-> FALSE, rec |-> loc.since] \in history

HandlersInv ==
  \A h \in Handlers :
    /\ hpc[h] # "idle" => hfix[h] \in Fix /\ hfix[h].rec <= clock + Skew
    /\ hprev[h] # NoFix => /\ hpc[h] = "saving"
                           /\ Rooted(hprev[h])
                           /\ hprev[h].rec <= hfix[h].rec
    /\ hpc[h] \in {"rereading", "announcing", "created"} => hfix[h] \in history
    /\ hpc[h] \in {"announcing", "created"}
         => hout[h] # NoFix /\ hout[h].rec >= hfix[h].rec

StoreInv == /\ StoreTypeOK
            /\ StateIsNewest
            /\ state # NoFix => Rooted(state)
            /\ HandlersInv

-----------------------------------------------------------------------------
\* The row a handler is about to write: it shows the fix, and its stop begins
\* with that fix or with one stored before, whatever row the handler read.
LEMMA NewRow ==
  ASSUME StoreInv, NEW h \in Handlers, hpc[h] = "saving",
         NEW row, row = Row(hfix[h], Stopped(hprev[h], hfix[h]))
  PROVE  /\ row \in Location
         /\ [place |-> row.place, moving |-> row.moving, rec |-> row.rec]
              = hfix[h]
         /\ row.rec = hfix[h].rec
         /\ row.since # NoTime =>
              /\ ~row.moving
              /\ row.since <= row.rec
              /\ <<row.anchor, row.place>> \in Near
              /\ [place |-> row.anchor, moving |-> FALSE, rec |-> row.since]
                   \in history \cup {hfix[h]}
<1> USE PlacesAssumption, ClockAssumption, NoFixAssumption
<1> DEFINE f == hfix[h]
           prev == hprev[h]
<1>1. f \in Fix /\ prev \in Location \cup {NoFix}
  BY DEF StoreInv, StoreTypeOK, HandlersInv
<1>2. prev # NoFix => Rooted(prev) /\ prev.rec <= f.rec
  BY DEF StoreInv, HandlersInv
<1>3. /\ f = [place |-> f.place, moving |-> f.moving, rec |-> f.rec]
      /\ f.place \in Places /\ f.moving \in BOOLEAN /\ f.rec \in Nat
  BY <1>1 DEF Fix
<1>4. CASE f.moving
  BY <1>3, <1>4 DEF Row, Stopped, Location
<1>5. CASE ~f.moving /\ Stopped(prev, f) = [anchor |-> f.place, since |-> f.rec]
  <2>1. row = [place |-> f.place, moving |-> f.moving, rec |-> f.rec,
               anchor |-> f.place, since |-> f.rec]
    BY <1>5 DEF Row
  <2>2. f.moving = FALSE
    BY <1>3, <1>5
  <2>3. f = [place |-> f.place, moving |-> FALSE, rec |-> f.rec]
    BY <1>3, <2>2
  <2> QED  BY <1>3, <2>1, <2>2, <2>3 DEF Location
<1>6. CASE /\ ~f.moving
           /\ prev # NoFix /\ prev.since # NoTime
           /\ <<prev.anchor, f.place>> \in Near
  <2>1. row = [place |-> f.place, moving |-> f.moving, rec |-> f.rec,
               anchor |-> prev.anchor, since |-> prev.since]
    BY <1>6 DEF Row, Stopped
  <2>2. prev.anchor \in Places \cup {NoPlace} /\ prev.since \in Nat /\ prev.rec \in Nat
    BY <1>1, <1>6 DEF Location
  <2>3. /\ prev.since <= prev.rec /\ prev.rec <= f.rec
        /\ [place |-> prev.anchor, moving |-> FALSE, rec |-> prev.since]
             \in history
    BY <1>2, <1>6 DEF Rooted
  <2> QED  BY <1>3, <1>6, <2>1, <2>2, <2>3 DEF Location
<1> QED  BY <1>4, <1>5, <1>6 DEF Stopped

\* Saving keeps the invariant: the row is replaced by a newer one whose stop is
\* rooted, or stays.
LEMMA SaveKeeps == ASSUME StoreInv, NEW h \in Handlers, Save(h) PROVE StoreInv'
<1> USE PlacesAssumption, ClockAssumption, NoFixAssumption
<1> DEFINE f == hfix[h]
           row == Row(f, Stopped(hprev[h], f))
<1> HIDE DEF row
<1>1. /\ row \in Location
      /\ [place |-> row.place, moving |-> row.moving, rec |-> row.rec] = f
      /\ row.rec = f.rec
      /\ row.since # NoTime =>
           /\ ~row.moving
           /\ row.since <= row.rec
           /\ <<row.anchor, row.place>> \in Near
           /\ [place |-> row.anchor, moving |-> FALSE, rec |-> row.since]
                \in history \cup {f}
  BY NewRow DEF Save, row
<1>2. f \in Fix /\ f.rec \in Nat /\ f.rec <= clock + Skew
  BY DEF StoreInv, HandlersInv, Save, Fix
<1>3. /\ history' = history \cup {f}
      /\ UNCHANGED <<clock, hfix, hout>>
      /\ hpc' = [hpc EXCEPT ![h] = "rereading"]
      /\ hprev' = [hprev EXCEPT ![h] = NoFix]
  BY DEF Save
<1>4. \/ Accepts(f) /\ state' = row /\ applied' = applied \cup {f}
      \/ ~Accepts(f) /\ state' = state /\ applied' = applied
  BY DEF Save, Upsert, row
<1>5. StoreTypeOK'
  BY <1>1, <1>2, <1>3, <1>4 DEF StoreInv, StoreTypeOK
<1>6. StateIsNewest'
  <2>1. row # NoFix
    BY <1>1
  <2>2. \A g \in history : g.rec \in Nat
    BY DEF StoreInv, StoreTypeOK, Fix
  <2>3. state # NoFix => state.rec \in Nat
    BY DEF StoreInv, StoreTypeOK, Location
  <2>4. CASE Accepts(f)
    BY <1>1, <1>2, <1>3, <1>4, <2>1, <2>2, <2>3, <2>4
    DEF StoreInv, StateIsNewest, Accepts
  <2>5. CASE ~Accepts(f)
    BY <1>2, <1>3, <1>4, <2>2, <2>3, <2>5
    DEF StoreInv, StateIsNewest, Accepts
  <2> QED  BY <2>4, <2>5
<1>7. (state # NoFix => Rooted(state))'
  BY <1>1, <1>3, <1>4 DEF StoreInv, Rooted
<1>8. HandlersInv'
  BY <1>2, <1>3 DEF StoreInv, StoreTypeOK, HandlersInv, Rooted
<1> QED  BY <1>5, <1>6, <1>7, <1>8 DEF StoreInv

-----------------------------------------------------------------------------
\* The empty tables satisfy the invariant.
THEOREM InitStoreInv == StoreInit => StoreInv
BY DEF StoreInit, StoreInv, StoreTypeOK, StateIsNewest, HandlersInv

\* Every statement of every handler and the clock keep the invariant.
THEOREM NextStoreInv == StoreInv /\ [StoreNext]_storeVars => StoreInv'
<1> SUFFICES ASSUME StoreInv, [StoreNext]_storeVars PROVE StoreInv' OBVIOUS
<1> USE ClockAssumption, NoFixAssumption DEF StoreInv
<1>1. ASSUME NEW h \in Handlers, NEW f \in Postable, Submit(h, f)
      PROVE  StoreInv'
  <2>1. StoreTypeOK'
    BY <1>1 DEF StoreTypeOK, Fix, Submit, Postable, Valid, tables
  <2>2. StateIsNewest' /\ (state # NoFix => Rooted(state))'
    BY <1>1 DEF StateIsNewest, Rooted, Submit, Postable, Valid, tables
  <2>3. HandlersInv'
    BY <1>1 DEF HandlersInv, Rooted, StoreTypeOK, StateIsNewest, Location,
       Fix, Submit, Postable, Valid, tables
  <2> QED  BY <2>1, <2>2, <2>3
<1>2. ASSUME NEW h \in Handlers, ReadPrevious(h)
      PROVE  StoreInv'
  <2>1. StoreTypeOK'
    BY <1>2 DEF StoreTypeOK, ReadPrevious, tables
  <2>2. StateIsNewest' /\ (state # NoFix => Rooted(state))'
    BY <1>2 DEF StateIsNewest, Rooted, ReadPrevious, tables
  <2>3. HandlersInv'
    BY <1>2 DEF HandlersInv, Rooted, StoreTypeOK, StateIsNewest, Location,
       Fix, ReadPrevious, tables
  <2> QED  BY <2>1, <2>2, <2>3
<1>3. ASSUME NEW h \in Handlers, ReadBack(h)
      PROVE  StoreInv'
  <2>1. StoreTypeOK'
    BY <1>3 DEF StoreTypeOK, ReadBack, tables
  <2>2. StateIsNewest' /\ (state # NoFix => Rooted(state))'
    BY <1>3 DEF StateIsNewest, Rooted, ReadBack, tables
  <2>3. HandlersInv'
    BY <1>3 DEF HandlersInv, Rooted, StoreTypeOK, StateIsNewest, Location,
       Fix, ReadBack, tables
  <2> QED  BY <2>1, <2>2, <2>3
<1>4. ASSUME NEW h \in Handlers, QueryFails(h)
      PROVE  StoreInv'
  <2>1. StoreTypeOK'
    BY <1>4 DEF StoreTypeOK, QueryFails, tables
  <2>2. StateIsNewest' /\ (state # NoFix => Rooted(state))'
    BY <1>4 DEF StateIsNewest, Rooted, QueryFails, tables
  <2>3. HandlersInv'
    BY <1>4 DEF HandlersInv, Rooted, StoreTypeOK, StateIsNewest, Location,
       Fix, QueryFails, tables
  <2> QED  BY <2>1, <2>2, <2>3
<1>5. ASSUME NEW h \in Handlers, Announce(h)
      PROVE  StoreInv'
  <2>1. StoreTypeOK'
    BY <1>5 DEF StoreTypeOK, Announce, tables
  <2>2. StateIsNewest' /\ (state # NoFix => Rooted(state))'
    BY <1>5 DEF StateIsNewest, Rooted, Announce, tables
  <2>3. HandlersInv'
    BY <1>5 DEF HandlersInv, Rooted, StoreTypeOK, StateIsNewest, Location,
       Fix, Announce, tables
  <2> QED  BY <2>1, <2>2, <2>3
<1>6. ASSUME NEW h \in Handlers, Answer(h)
      PROVE  StoreInv'
  <2>1. StoreTypeOK'
    BY <1>6 DEF StoreTypeOK, Answer, tables
  <2>2. StateIsNewest' /\ (state # NoFix => Rooted(state))'
    BY <1>6 DEF StateIsNewest, Rooted, Answer, tables
  <2>3. HandlersInv'
    BY <1>6 DEF HandlersInv, Rooted, StoreTypeOK, StateIsNewest, Location,
       Fix, Answer, tables
  <2> QED  BY <2>1, <2>2, <2>3
<1>7. ASSUME NEW h \in Handlers, Save(h) PROVE StoreInv'
  BY <1>7, SaveKeeps
<1>8. CASE StoreTick
  BY <1>8 DEF StoreTypeOK, StateIsNewest, HandlersInv, Rooted, Fix, StoreTick,
     tables, locals
<1>9. CASE UNCHANGED storeVars
  BY <1>9 DEF StoreTypeOK, StateIsNewest, HandlersInv, Rooted, storeVars,
     tables, locals
<1> QED
  BY <1>1, <1>2, <1>3, <1>4, <1>5, <1>6, <1>7, <1>8, <1>9
  DEF StoreNext, Quiet

\* Every behaviour keeps the invariant.
THEOREM SpecStoreInv == StoreSpec => []StoreInv
BY InitStoreInv, NextStoreInv, PTL DEF StoreSpec

\* Every variable keeps its type.
THEOREM StoreTypeCorrect == StoreSpec => []StoreTypeOK
<1>1. StoreInv => StoreTypeOK  BY DEF StoreInv
<1> QED  BY <1>1, SpecStoreInv, PTL

\* The row is the newest stored fix, however the handlers interleave.
THEOREM StateIsNewestHolds == StoreSpec => []StateIsNewest
<1>1. StoreInv => StateIsNewest  BY DEF StoreInv
<1> QED  BY <1>1, SpecStoreInv, PTL

\* The stop shown begins with a stored fix at its anchor.
THEOREM StopHasOriginHolds == StoreSpec => []StopHasOrigin
<1>1. StoreInv => StopHasOrigin  BY DEF StoreInv, StopHasOrigin, Rooted
<1> QED  BY <1>1, SpecStoreInv, PTL

\* A fix that was acknowledged is stored.
THEOREM AcknowledgedIsStoredHolds == StoreSpec => []AcknowledgedIsStored
<1>1. StoreInv => AcknowledgedIsStored
  BY DEF StoreInv, HandlersInv, AcknowledgedIsStored
<1> QED  BY <1>1, SpecStoreInv, PTL
=============================================================================
