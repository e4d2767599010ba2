------------------------ MODULE ClipServiceRefinement ------------------------
(***************************************************************************)
(* RecordingCache implements ClipService, for every value of the constants: *)
(* each step of the cache maps to the promised step named beside it, or to *)
(* a stutter.                                                              *)
(***************************************************************************)
EXTENDS RecordingCacheProofs

-----------------------------------------------------------------------------
\* A service without requests, fetches or clips.
LEMMA InitPromise == Init => Promise!Init
BY DEF Init, Promise!Init, Stage, StageOf, Got, Fetching, Held, Expired, Running

\* A request that enters Open asks for its clip.
LEMMA BeginPromise ==
  ASSUME IInv, NEW r \in Requests, NEW k \in Keys, Begin(r, k)
  PROVE  Promise!Ask(r, k)
<1>1. Stage[r] = "idle" /\ Stage' = [Stage EXCEPT ![r] = "asked"]
  BY DEF IInv, TypeOK, Begin, Stage, StageOf, NoVerdict, Denied, goroutines
<1>2. UNCHANGED <<Got, Fetching, Held, Expired>>
  BY DEF IInv, TypeOK, Begin, Got, Fetching, Held, Expired, Running, disk,
     shared, goroutines
<1> QED  BY <1>1, <1>2 DEF Begin, Promise!Ask

\* A request that finds its clip in the cache is promised a clip that is held.
LEMMA HitPromise ==
  ASSUME IInv, NEW r \in Requests, Hit(r)
  PROVE  Promise!Hit(r)
<1>1. Stage[r] = "asked" /\ Stage' = [Stage EXCEPT ![r] = "promised"]
  BY DEF IInv, TypeOK, RequestsInv, Hit, Stage, StageOf, NoVerdict, Denied,
     goroutines
<1>2. rkey[r] \in Held
  BY DEF IInv, RequestsInv, Hit, CacheHit, Held
<1>3. UNCHANGED <<Got, Fetching, Held, Expired>>
  BY DEF IInv, TypeOK, RequestsInv, Hit, Got, Fetching, Held, Expired, Running,
     disk, shared, goroutines
<1> QED
  BY <1>1, <1>2, <1>3 DEF Hit, Promise!Hit

\* A request whose client goes away is refused, if its download had not
\* failed already.
LEMMA CancelPromise ==
  ASSUME IInv, NEW r \in Requests, Cancel(r)
  PROVE  Promise!Refuse(r) \/ UNCHANGED Promise!vars
<1>1. /\ Stage[r] \in {"asked", "promised", "refused"}
      /\ Stage' = [Stage EXCEPT ![r] = "refused"]
  BY DEF IInv, TypeOK, Cancel, Stage, StageOf, NoVerdict, Denied, goroutines
<1>2. UNCHANGED <<rkey, Got, Fetching, Held, Expired>>
  BY DEF IInv, TypeOK, Cancel, Got, Fetching, Held, Expired, Running, disk,
     shared, goroutines
<1>3. Stage[r] = "refused" => Stage' = Stage
  BY <1>1 DEF Stage
<1> QED
  BY <1>1, <1>2, <1>3
  DEF Promise!Refuse, Promise!vars

\* The request that opens its file is served the clip it asked for; when the
\* name is gone it is refused.
LEMMA OpenFilePromise ==
  ASSUME IInv, NEW r \in Requests, OpenFile(r)
  PROVE  Promise!Serve(r) \/ Promise!Refuse(r)
<1>1. Stage[r] = "promised"
  BY DEF IInv, OpenFile, Stage, StageOf, NoVerdict, Denied
<1>2. UNCHANGED <<rkey, Fetching, Held, Expired>>
  BY DEF OpenFile, Fetching, Held, Expired, Running, disk, shared, goroutines
<1>3. CASE rfile[r] \in linked
  <2>1. Stage' = [Stage EXCEPT ![r] = "served"]
    BY <1>3 DEF IInv, TypeOK, OpenFile, Stage, StageOf, NoVerdict, Denied,
       goroutines
  <2>2. Got' = [Got EXCEPT ![r] = rkey[r]]
    BY <1>3 DEF IInv, TypeOK, RequestsInv, OpenFile, Got, disk
  <2> QED
    BY <1>1, <1>2, <2>1, <2>2
    DEF Promise!Serve
<1>4. CASE rfile[r] \notin linked
  <2>1. Stage' = [Stage EXCEPT ![r] = "refused"]
    BY <1>4 DEF IInv, TypeOK, OpenFile, Stage, StageOf, NoVerdict, Denied,
       goroutines
  <2>2. Got' = Got
    BY <1>4 DEF IInv, TypeOK, OpenFile, Got, disk
  <2> QED
    BY <1>1, <1>2, <2>1, <2>2
    DEF Promise!Refuse
<1> QED  BY <1>3, <1>4

\* The handler that returns ends the request.
LEMMA ReplyPromise ==
  ASSUME IInv, NEW r \in Requests, Reply(r)
  PROVE  Promise!Finish(r)
<1>1. /\ Stage[r] \in {"served", "refused"}
      /\ Stage' = [Stage EXCEPT ![r] = "idle"]
  BY DEF IInv, TypeOK, Reply, Stage, StageOf, NoVerdict, Denied, goroutines
<1>2. rkey' = [rkey EXCEPT ![r] = NoKey] /\ Got' = [Got EXCEPT ![r] = NoKey]
  BY DEF IInv, TypeOK, Reply, Got, disk
<1>3. UNCHANGED <<Fetching, Held, Expired>>
  BY DEF Reply, Fetching, Held, Expired, Running, disk, shared, goroutines
<1> QED
  BY <1>1, <1>2, <1>3 DEF Promise!Finish

\* The clock makes held clips expire.
LEMMA TickPromise == ASSUME IInv, Tick PROVE Promise!Age
<1>1. UNCHANGED <<Stage, rkey, Got, Fetching, Held>>
  BY DEF Tick, Stage, StageOf, NoVerdict, Denied, Got, Fetching, Held, Running,
     disk, shared, goroutines, handlers
<1>2. /\ Expired' = Expired \cup (Expired' \ Expired)
      /\ Expired' \ Expired \in SUBSET Held
  BY DEF IInv, TypeOK, Tick, Expired, Held, shared
<1> QED  BY <1>1, <1>2 DEF Promise!Age

\* Those who learn the outcome of d are the requests waiting for it.
LEMMA FinishPromise ==
  ASSUME IInv, NEW d \in Downloads, Finish(d), NEW k \in Keys, k = dkey[d]
  PROVE  Promise!FetchOk(k) \/ Promise!FetchFail(k)
<1> USE NullsAssumption, TimeAssumption
<1> DEFINE W == {r \in Requests : rwait[r] = d}
           verdict == IF phase[d] = "written" THEN "promised" ELSE "refused"
<1>1. inflight[k] = d /\ cache[k] = NoFile
  BY DEF IInv, InflightInv, CacheInv, Running, Finish
<1>2. W \in SUBSET Promise!Asking(k)
  BY DEF IInv, RequestsInv, Finish, Promise!Asking, Stage, StageOf, NoVerdict
<1>3. Stage' = [r \in Requests |-> IF r \in W THEN verdict ELSE Stage[r]]
  BY DEF IInv, TypeOK, RequestsInv, FilesInv, Finish, Stage, StageOf, NoVerdict,
     Denied, handlers
<1>4. Promise!Settle(k, verdict)
  BY <1>2, <1>3 DEF Promise!Settle
<1>5. UNCHANGED <<rkey, Got>>
  BY DEF Finish, Got, disk, handlers
<1>6. k \in Fetching /\ Fetching' = Fetching \ {k}
  BY <1>1 DEF IInv, TypeOK, InflightInv, Finish, Fetching, Running
<1>7. CASE phase[d] = "written"
  <2>1. Held' = Held \cup {k} /\ UNCHANGED Expired
    BY <1>1, <1>7 DEF IInv, TypeOK, FilesInv, Finish, Publish, Held, Expired
  <2> QED
    BY <1>4, <1>5, <1>6, <1>7, <2>1
    DEF Promise!FetchOk
<1>8. CASE phase[d] = "errored"
  <2>1. UNCHANGED <<Held, Expired>>
    BY <1>8 DEF Finish, Held, Expired
  <2> QED
    BY <1>4, <1>5, <1>6, <1>8, <2>1
    DEF Promise!FetchFail
<1> QED  BY <1>7, <1>8 DEF Finish

\* Nothing is cached while a download is in flight: Evict changes nothing that
\* is promised, and the request keeps waiting.
LEMMA JoinPromise ==
  ASSUME IInv, NEW r \in Requests, Join(r)
  PROVE  UNCHANGED Promise!vars
<1> USE NullsAssumption
<1>1. /\ rkey[r] \in Keys
      /\ inflight[rkey[r]] \in Running
      /\ cache[rkey[r]] = NoFile
  BY DEF IInv, InflightInv, CacheInv, RequestsInv, Join
<1>2. Stage' = Stage
  BY <1>1 DEF IInv, TypeOK, Join, WaitFor, Stage, StageOf, NoVerdict, Denied,
     Running, goroutines
<1>3. Got' = Got
  BY DEF IInv, TypeOK, Join, WaitFor, Got
<1>4. cache' = cache /\ \A k \in Held : expiresAt'[k] = expiresAt[k]
  BY <1>1 DEF IInv, TypeOK, Join, Evict, Held
<1>5. UNCHANGED <<rkey, Fetching, Held, Expired>>
  BY <1>4 DEF Join, WaitFor, Fetching, Held, Expired, Running, goroutines
<1> QED
  BY <1>2, <1>3, <1>5 DEF Promise!vars

\* A new download is of a clip nobody fetches and no fresh copy is held of.
LEMMA StartPromise ==
  ASSUME IInv, NEW r \in Requests, NEW d \in Downloads, Start(r, d),
         NEW k \in Keys, k = rkey[r]
  PROVE  Promise!StartFetch(k)
<1> USE NullsAssumption
<1>1. d \notin Running
  BY DEF Start, Unused, Running
<1>2. Stage[r] = "asked" /\ Stage' = Stage
  BY DEF IInv, TypeOK, RequestsInv, Start, WaitFor, Unused, Stage, StageOf,
     NoVerdict, Denied
<1>3. Got' = Got
  BY DEF IInv, TypeOK, Start, WaitFor, Got
<1>4. k \notin Fetching
  BY <1>1 DEF IInv, InflightInv, Start, Fetching, Running
<1>5. Fetching' = Fetching \cup {k}
  BY <1>1 DEF IInv, TypeOK, Start, Fetching, Running
<1>6. k \notin Held \ Expired
  BY <1>1 DEF IInv, TypeOK, RequestsInv, Start, CacheHit, Held, Expired
<1>7. Held' = Held \ {k} /\ Expired' = Expired \ {k}
  BY <1>1 DEF IInv, TypeOK, Start, Evict, Held, Expired
<1>8. rkey' = rkey
  BY DEF Start, WaitFor
<1> QED
  BY <1>2, <1>3, <1>4, <1>5, <1>6, <1>7, <1>8
  DEF Promise!StartFetch, Promise!Asking

\* The verdict was known when the channel was closed; the request takes it.
LEMMA ReceivePromise ==
  ASSUME IInv, NEW r \in Requests, Receive(r)
  PROVE  UNCHANGED Promise!vars
<1>1. Stage' = Stage
  BY DEF IInv, TypeOK, RequestsInv, Receive, Stage, StageOf, NoVerdict,
     Denied, goroutines
<1>2. Got' = Got
  BY DEF IInv, TypeOK, Receive, Got, disk
<1>3. UNCHANGED <<rkey, Fetching, Held, Expired>>
  BY DEF Receive, Fetching, Held, Expired, Running, shared, goroutines
<1> QED
  BY <1>1, <1>2, <1>3 DEF Promise!vars

\* Creating the temporary file is not seen: nobody serves that name.
LEMMA CreateFilePromise ==
  ASSUME IInv, NEW d \in Downloads, NEW f \in Files, CreateFile(d, f)
  PROVE  UNCHANGED Promise!vars
<1>1. Stage' = Stage
  BY DEF IInv, TypeOK, CreateFile, Stage, StageOf, NoVerdict, Denied, handlers
<1>2. Got' = Got
  BY DEF IInv, TypeOK, CreateFile, Referenced, Got, handlers
<1>3. UNCHANGED <<rkey, Fetching, Held, Expired>>
  BY DEF IInv, TypeOK, CreateFile, Fetching, Held, Expired, Running, shared,
     handlers
<1> QED
  BY <1>1, <1>2, <1>3 DEF Promise!vars

\* The file completed is none that a request is serving: that one was whole.
LEMMA WriteFilePromise ==
  ASSUME IInv, NEW d \in Downloads, WriteFile(d)
  PROVE  UNCHANGED Promise!vars
<1>1. Stage' = Stage
  BY DEF IInv, TypeOK, WriteFile, Stage, StageOf, NoVerdict, Denied, handlers
<1>2. \A r \in Requests : pc[r] = "serving" => rfile[r] # dpath[d]
  BY NullsAssumption DEF IInv, FilesInv, RequestsInv, WriteFile
<1>3. Got' = Got
  BY <1>2 DEF IInv, TypeOK, WriteFile, RequestsInv, Got, handlers
<1>4. UNCHANGED <<rkey, Fetching, Held, Expired>>
  BY DEF IInv, TypeOK, WriteFile, Fetching, Held, Expired, Running, shared,
     handlers
<1> QED
  BY <1>1, <1>3, <1>4 DEF Promise!vars

\* A download that fails is not seen before its critical section.
LEMMA ErrorPromise ==
  ASSUME IInv, NEW d \in Downloads, FetchFails(d) \/ WriteFails(d)
  PROVE  UNCHANGED Promise!vars
<1>1. Stage' = Stage
  BY DEF IInv, TypeOK, FetchFails, WriteFails, Stage, StageOf, NoVerdict,
     Denied, handlers
<1>2. UNCHANGED <<rkey, Got, Held, Expired>>
  BY DEF FetchFails, WriteFails, Got, Held, Expired, disk, shared, handlers
<1>3. Fetching' = Fetching
  BY DEF IInv, TypeOK, FetchFails, WriteFails, Fetching, Running
<1> QED
  BY <1>1, <1>2, <1>3 DEF Promise!vars

\* A timer whose file is still the cached one finds it expired.
LEMMA FirePromise ==
  ASSUME IInv, NEW t \in timers, Fire(t)
  PROVE  Promise!Drop(t.key) \/ UNCHANGED Promise!vars
<1> USE NullsAssumption
<1>1. t.key \in Keys /\ t.path \in Files /\ t.at \in Nat
  BY DEF IInv, TypeOK, Timer
<1>2. UNCHANGED <<Stage, rkey, Got, Fetching>>
  BY DEF Fire, Stage, StageOf, NoVerdict, Denied, Got, Fetching, Running,
     goroutines, handlers
<1>3. CASE cache[t.key] = t.path /\ Evict(t.key)
  <2>1. t.key \in Expired
    BY <1>1, <1>3 DEF IInv, TypeOK, TimersInv, Fire, Expired, Held
  <2>2. Held' = Held \ {t.key} /\ Expired' = Expired \ {t.key}
    BY <1>1, <1>3 DEF IInv, TypeOK, Fire, Evict, Expired, Held
  <2> QED
    BY <1>2, <2>1, <2>2 DEF Promise!Drop
<1>4. CASE UNCHANGED <<cache, expiresAt, linked>>
  <2>1. UNCHANGED <<Held, Expired>>
    BY <1>4 DEF Fire, Held, Expired
  <2> QED
    BY <1>2, <2>1 DEF Promise!vars
<1> QED  BY <1>3, <1>4 DEF Fire

\* A restart forgets every request, fetch and clip.
LEMMA RestartPromise == ASSUME Restart PROVE Promise!Reset
BY DEF Restart, Promise!Reset, Stage, StageOf, Got, Fetching, Held, Expired,
   Running

\* The recording service keeps its promise.
THEOREM KeepsPromiseHolds == Spec => KeepsPromise
<1>1. Init => Promise!Init
  BY InitPromise
<1>2. IInv /\ [Next]_vars => [Promise!Next]_(Promise!vars)
  <2> SUFFICES ASSUME IInv, [Next]_vars
               PROVE  Promise!Next \/ UNCHANGED Promise!vars
    OBVIOUS
  <2>1. ASSUME NEW r \in Requests, NEW k \in Keys, Begin(r, k)
        PROVE  Promise!Next
    BY <2>1, BeginPromise DEF Promise!Next
  <2>2. ASSUME NEW r \in Requests, Lookup(r)
        PROVE  Promise!Next \/ UNCHANGED Promise!vars
    <3>1. rkey[r] \in Keys
      BY <2>2 DEF IInv, RequestsInv, Lookup, Hit, Join, Start
    <3>2. CASE Hit(r)   BY <3>2, HitPromise DEF Promise!Next
    <3>3. CASE Join(r)  BY <3>3, JoinPromise
    <3>4. ASSUME NEW d \in Downloads, Start(r, d) PROVE Promise!Next
      <4>1. PICK k \in Keys : k = rkey[r]  BY <3>1
      <4>2. Promise!StartFetch(k)  BY <3>4, <4>1, StartPromise
      <4> QED  BY <4>2 DEF Promise!Next
    <3> QED  BY <2>2, <3>2, <3>3, <3>4 DEF Lookup
  <2>3. ASSUME NEW r \in Requests,
               Receive(r) \/ Cancel(r) \/ OpenFile(r) \/ Reply(r)
        PROVE  Promise!Next \/ UNCHANGED Promise!vars
    BY <2>3, ReceivePromise, CancelPromise, OpenFilePromise, ReplyPromise
    DEF Promise!Next
  <2>4. ASSUME NEW d \in Downloads, Download(d)
        PROVE  Promise!Next \/ UNCHANGED Promise!vars
    <3>1. CASE Finish(d)
      <4>1. PICK k \in Keys : k = dkey[d]
        BY <3>1 DEF IInv, InflightInv, Running, Finish
      <4>2. Promise!FetchOk(k) \/ Promise!FetchFail(k)
        BY <3>1, <4>1, FinishPromise
      <4> QED  BY <4>2 DEF Promise!Next
    <3> QED
      BY <2>4, <3>1, CreateFilePromise, WriteFilePromise, ErrorPromise
      DEF Download
  <2>5. ASSUME NEW t \in timers, Fire(t)
        PROVE  Promise!Next \/ UNCHANGED Promise!vars
    <3>1. t.key \in Keys
      BY DEF IInv, TypeOK, Timer
    <3> QED  BY <2>5, <3>1, FirePromise DEF Promise!Next
  <2>6. CASE Tick     BY <2>6, TickPromise DEF Promise!Next
  <2>7. CASE Restart  BY <2>7, RestartPromise DEF Promise!Next
  <2>8. CASE UNCHANGED vars
    BY <2>8 DEF Promise!vars, Stage, StageOf, NoVerdict, Denied, Got,
       Fetching, Held, Expired, Running, vars, disk, shared, goroutines,
       handlers
  <2> QED
    BY <2>1, <2>2, <2>3, <2>4, <2>5, <2>6, <2>7, <2>8 DEF Next
<1> QED  BY <1>1, <1>2, SpecIInv, PTL DEF Spec, Promise!Spec, KeepsPromise
=============================================================================
