------------------------ MODULE RecordingCacheProofs ------------------------
(***************************************************************************)
(* The safety of RecordingCache for any number of clips, requests, files   *)
(* and downloads, any lifetime and any bound on the clock.                 *)
(*                                                                         *)
(* None of the properties is inductive.  That a served file holds the clip *)
(* asked for rests on what was true of the download the request waited     *)
(* for, of the cache entry it read, and of every file that shares the      *)
(* directory; IInv collects these facts.  Its key is FilesInv: the bytes   *)
(* of a file tell whose it is, so that removing or writing one file cannot *)
(* touch another's.                                                        *)
(***************************************************************************)
EXTENDS RecordingCache, TLAPS

\* The map of downloads in flight and the goroutines agree.
InflightInv ==
  /\ \A k \in Keys : inflight[k] # NoDownload
       => inflight[k] \in Running /\ dkey[inflight[k]] = k
  /\ \A d \in Running : dkey[d] \in Keys /\ inflight[dkey[d]] = d

\* A cached file exists, is whole, and its clip is not being downloaded.
CacheInv ==
  \A k \in Keys : cache[k] # NoFile
    => /\ inflight[k] = NoDownload
       /\ cache[k] \in linked
       /\ clip[cache[k]] = k

\* What the file of a download holds, by the phase of the goroutine.
FilesInv ==
  \A d \in Downloads :
    /\ phase[d] \in {"free", "fetching", "errored"} => dpath[d] = NoFile
    /\ phase[d] = "writing" => dpath[d] \in linked /\ clip[dpath[d]] = NoKey
    /\ phase[d] = "written" => dpath[d] \in linked /\ clip[dpath[d]] = dkey[d]
    /\ phase[d] = "done" => /\ dkey[d] \in Keys
                            /\ dpath[d] # NoFile => clip[dpath[d]] = dkey[d]

\* Two goroutines never write the same file.
OneWriter ==
  \A d, e \in Downloads :
    phase[d] = "writing" /\ phase[e] = "writing" /\ dpath[d] = dpath[e] => d = e

\* The timer of a cached file is not due before the file's time, and a file
\* on its way to the cache has no timer yet.
TimersInv ==
  \A t \in timers :
    /\ cache[t.key] = t.path => t.at >= expiresAt[t.key]
    /\ \A d \in Downloads : phase[d] \in {"writing", "written"} => dpath[d] # t.path

\* What a request knows: the clip it waits for is the one it asked for, and
\* the path it was given names a whole file of that clip, removed or not.
RequestsInv ==
  \A r \in Requests :
    /\ pc[r] # "idle" => rkey[r] \in Keys
    /\ pc[r] = "locking" => rnow[r] <= clock
    /\ pc[r] # "waiting" => rwait[r] = NoDownload
    /\ rwait[r] # NoDownload => /\ rfile[r] = NoFile
                                /\ phase[rwait[r]] # "free"
                                /\ dkey[rwait[r]] = rkey[r]
    /\ pc[r] \in {"opening", "serving"} => rfile[r] # NoFile
    /\ pc[r] = "waiting" /\ rwait[r] = NoDownload => rfile[r] # NoFile
    /\ rfile[r] # NoFile => /\ pc[r] \in {"waiting", "opening", "serving"}
                            /\ clip[rfile[r]] = rkey[r]

IInv == /\ TypeOK
        /\ InflightInv
        /\ CacheInv
        /\ FilesInv
        /\ OneWriter
        /\ TimersInv
        /\ RequestsInv
        /\ NoOrphanFiles

-----------------------------------------------------------------------------
\* The empty cache satisfies every part.
THEOREM InitIInv == Init => IInv
BY NullsAssumption DEF Init, IInv, TypeOK, InflightInv, Running, CacheInv,
   FilesInv, OneWriter, TimersInv, RequestsInv, NoOrphanFiles

\* Every step of a request, of a download, of a timer, of the clock and the
\* restart of the process keep the invariant.
THEOREM NextIInv == IInv /\ [Next]_vars => IInv'
<1> SUFFICES ASSUME IInv, [Next]_vars PROVE IInv' OBVIOUS
<1> USE NullsAssumption, TimeAssumption
\* A request reads the clock.
<1>1. ASSUME NEW r \in Requests, NEW k \in Keys, Begin(r, k)
      PROVE  IInv'
  <2>1. TypeOK'
    BY <1>1 DEF IInv, TypeOK, Begin, disk, shared, goroutines
  <2>2. RequestsInv'
    BY <1>1 DEF IInv, RequestsInv, TypeOK, Begin, disk, shared, goroutines
  <2>3. (/\ InflightInv /\ CacheInv /\ FilesInv /\ OneWriter
         /\ TimersInv /\ NoOrphanFiles)'
    BY <1>1 DEF IInv, InflightInv, Running, CacheInv, FilesInv, OneWriter,
      TimersInv, NoOrphanFiles, Begin, disk, shared, goroutines
  <2>4. QED  BY <2>1, <2>2, <2>3 DEF IInv
\* The path read from the map names a whole file of the clip asked for.
<1>2. ASSUME NEW r \in Requests, Hit(r)
      PROVE  IInv'
  <2>1. TypeOK'
    BY <1>2 DEF IInv, TypeOK, RequestsInv, Hit, CacheHit, disk, shared,
      goroutines
  <2>2. RequestsInv'
    BY <1>2 DEF IInv, RequestsInv, TypeOK, CacheInv, Hit, CacheHit, disk,
      shared, goroutines
  <2>3. (/\ InflightInv /\ CacheInv /\ FilesInv /\ OneWriter
         /\ TimersInv /\ NoOrphanFiles)'
    BY <1>2 DEF IInv, InflightInv, Running, CacheInv, FilesInv, OneWriter,
      TimersInv, NoOrphanFiles, Hit, CacheHit, disk, shared, goroutines
  <2>4. QED  BY <2>1, <2>2, <2>3 DEF IInv
\* A joined download means nothing is cached: Evict removes nothing.
<1>3. ASSUME NEW r \in Requests, Join(r)
      PROVE  IInv'
  <2>1. TypeOK'
    BY <1>3 DEF IInv, TypeOK, RequestsInv, Join, CacheHit, Evict, Remove, WaitFor,
      goroutines
  <2>2. CacheInv'
    BY <1>3 DEF IInv, CacheInv, RequestsInv, Join, CacheHit, Evict, Remove, WaitFor,
      goroutines
  <2>3. FilesInv'
    BY <1>3 DEF IInv, FilesInv, TypeOK, CacheInv, RequestsInv, Join,
      CacheHit, Evict, Remove, WaitFor, goroutines
  <2>4. TimersInv'
    BY <1>3 DEF IInv, TimersInv, TypeOK, Timer, RequestsInv, Join, CacheHit,
      Evict, Remove, WaitFor, goroutines
  <2>5. RequestsInv'
    BY <1>3 DEF IInv, RequestsInv, TypeOK, InflightInv, Running, FilesInv,
      Join, CacheHit, Evict, Remove, WaitFor, goroutines
  <2>6. NoOrphanFiles'
    BY <1>3 DEF IInv, NoOrphanFiles, Running, Join, CacheHit, Evict, Remove,
      WaitFor, goroutines
  <2>7. (InflightInv /\ OneWriter)'
    BY <1>3 DEF IInv, InflightInv, Running, OneWriter, Join, CacheHit,
      Evict, Remove, WaitFor, goroutines
  <2>8. QED  BY <2>1, <2>2, <2>3, <2>4, <2>5, <2>6, <2>7 DEF IInv
\* The expired file is no other clip's: its bytes tell whose it is.
<1>4. ASSUME NEW r \in Requests, NEW d \in Downloads, Start(r, d)
      PROVE  IInv'
  <2>1. TypeOK'
    BY <1>4 DEF IInv, TypeOK, RequestsInv, Start, CacheHit, Evict, Remove, WaitFor,
      Unused
  <2>2. InflightInv'
    BY <1>4 DEF IInv, InflightInv, Running, TypeOK, RequestsInv, Start,
      CacheHit, Evict, Remove, WaitFor, Unused
  <2>3. CacheInv'
    BY <1>4 DEF IInv, CacheInv, TypeOK, RequestsInv, Start, CacheHit, Evict, Remove,
      WaitFor, Unused
  <2>4. FilesInv'
    BY <1>4 DEF IInv, FilesInv, TypeOK, CacheInv, InflightInv, Running,
      RequestsInv, Start, CacheHit, Evict, Remove, WaitFor, Unused
  <2>5. OneWriter'
    BY <1>4 DEF IInv, OneWriter, Start, CacheHit, Evict, Remove, WaitFor, Unused
  <2>6. TimersInv'
    BY <1>4 DEF IInv, TimersInv, TypeOK, Timer, RequestsInv, Start, CacheHit,
      Evict, Remove, WaitFor, Unused
  <2>7. RequestsInv'
    BY <1>4 DEF IInv, RequestsInv, TypeOK, Start, CacheHit, Evict, Remove, WaitFor,
      Unused
  <2>8. NoOrphanFiles'
    BY <1>4 DEF IInv, NoOrphanFiles, Running, Start, CacheHit, Evict, Remove,
      WaitFor, Unused
  <2>9. QED  BY <2>1, <2>2, <2>3, <2>4, <2>5, <2>6, <2>7, <2>8 DEF IInv
\* A download that is done leaves a whole file of its clip, or no path.
<1>5. ASSUME NEW r \in Requests, Receive(r)
      PROVE  IInv'
  <2>1. TypeOK'
    BY <1>5 DEF IInv, TypeOK, Receive, disk, shared, goroutines
  <2>2. RequestsInv'
    BY <1>5 DEF IInv, RequestsInv, TypeOK, FilesInv, Receive, disk, shared,
      goroutines
  <2>3. (/\ InflightInv /\ CacheInv /\ FilesInv /\ OneWriter
         /\ TimersInv /\ NoOrphanFiles)'
    BY <1>5 DEF IInv, InflightInv, Running, CacheInv, FilesInv, OneWriter,
      TimersInv, NoOrphanFiles, Receive, disk, shared, goroutines
  <2>4. QED  BY <2>1, <2>2, <2>3 DEF IInv
\* The download goes on without this request.
<1>6. ASSUME NEW r \in Requests, Cancel(r)
      PROVE  IInv'
  <2>1. TypeOK'
    BY <1>6 DEF IInv, TypeOK, Cancel, disk, shared, goroutines
  <2>2. RequestsInv'
    BY <1>6 DEF IInv, RequestsInv, TypeOK, Cancel, disk, shared, goroutines
  <2>3. (/\ InflightInv /\ CacheInv /\ FilesInv /\ OneWriter
         /\ TimersInv /\ NoOrphanFiles)'
    BY <1>6 DEF IInv, InflightInv, Running, CacheInv, FilesInv, OneWriter,
      TimersInv, NoOrphanFiles, Cancel, disk, shared, goroutines
  <2>4. QED  BY <2>1, <2>2, <2>3 DEF IInv
\* The open file is the one whose path was known.
<1>7. ASSUME NEW r \in Requests, OpenFile(r)
      PROVE  IInv'
  <2>1. TypeOK'
    BY <1>7 DEF IInv, TypeOK, OpenFile, disk, shared, goroutines
  <2>2. RequestsInv'
    BY <1>7 DEF IInv, RequestsInv, TypeOK, OpenFile, disk, shared,
      goroutines
  <2>3. (/\ InflightInv /\ CacheInv /\ FilesInv /\ OneWriter
         /\ TimersInv /\ NoOrphanFiles)'
    BY <1>7 DEF IInv, InflightInv, Running, CacheInv, FilesInv, OneWriter,
      TimersInv, NoOrphanFiles, OpenFile, disk, shared, goroutines
  <2>4. QED  BY <2>1, <2>2, <2>3 DEF IInv
\* The handler ends.
<1>8. ASSUME NEW r \in Requests, Reply(r)
      PROVE  IInv'
  <2>1. TypeOK'
    BY <1>8 DEF IInv, TypeOK, Reply, disk, shared, goroutines
  <2>2. RequestsInv'
    BY <1>8 DEF IInv, RequestsInv, TypeOK, Reply, disk, shared, goroutines
  <2>3. (/\ InflightInv /\ CacheInv /\ FilesInv /\ OneWriter
         /\ TimersInv /\ NoOrphanFiles)'
    BY <1>8 DEF IInv, InflightInv, Running, CacheInv, FilesInv, OneWriter,
      TimersInv, NoOrphanFiles, Reply, disk, shared, goroutines
  <2>4. QED  BY <2>1, <2>2, <2>3 DEF IInv
\* The new name is referred to by nothing.
<1>9. ASSUME NEW d \in Downloads, NEW f \in Files, CreateFile(d, f)
      PROVE  IInv'
  <2>1. TypeOK'
    BY <1>9 DEF IInv, TypeOK, CreateFile, Referenced, shared, handlers
  <2>2. InflightInv'
    BY <1>9 DEF IInv, InflightInv, Running, CreateFile, Referenced, shared,
      handlers
  <2>3. CacheInv'
    BY <1>9 DEF IInv, CacheInv, CreateFile, Referenced, shared, handlers
  <2>4. FilesInv'
    BY <1>9 DEF IInv, FilesInv, TypeOK, CreateFile, Referenced, shared,
      handlers
  <2>5. OneWriter'
    BY <1>9 DEF IInv, OneWriter, TypeOK, CreateFile, Referenced, shared,
      handlers
  <2>6. TimersInv'
    BY <1>9 DEF IInv, TimersInv, TypeOK, CreateFile, Referenced, shared,
      handlers
  <2>7. RequestsInv'
    BY <1>9 DEF IInv, RequestsInv, CreateFile, Referenced, shared, handlers
  <2>8. NoOrphanFiles'
    BY <1>9 DEF IInv, NoOrphanFiles, Running, TypeOK, FilesInv, CreateFile,
      Referenced, shared, handlers
  <2>9. QED  BY <2>1, <2>2, <2>3, <2>4, <2>5, <2>6, <2>7, <2>8 DEF IInv
\* No file yet.
<1>10. ASSUME NEW d \in Downloads, FetchFails(d)
      PROVE  IInv'
  <2>1. TypeOK'
    BY <1>10 DEF IInv, TypeOK, FetchFails, disk, shared, handlers
  <2>2. InflightInv'
    BY <1>10 DEF IInv, InflightInv, Running, FetchFails, disk, shared,
      handlers
  <2>3. FilesInv'
    BY <1>10 DEF IInv, FilesInv, FetchFails, disk, shared, handlers
  <2>4. OneWriter'
    BY <1>10 DEF IInv, OneWriter, FetchFails, disk, shared, handlers
  <2>5. TimersInv'
    BY <1>10 DEF IInv, TimersInv, FetchFails, disk, shared, handlers
  <2>6. RequestsInv'
    BY <1>10 DEF IInv, RequestsInv, FetchFails, disk, shared, handlers
  <2>7. NoOrphanFiles'
    BY <1>10 DEF IInv, NoOrphanFiles, Running, FetchFails, disk, shared,
      handlers
  <2>8. CacheInv'
    BY <1>10 DEF IInv, CacheInv, FetchFails, disk, shared, handlers
  <2>9. QED  BY <2>1, <2>2, <2>3, <2>4, <2>5, <2>6, <2>7, <2>8 DEF IInv
\* Only this goroutine has the partial file.
<1>11. ASSUME NEW d \in Downloads, WriteFile(d)
      PROVE  IInv'
  <2>1. TypeOK'
    BY <1>11 DEF IInv, TypeOK, FilesInv, WriteFile, shared, handlers
  <2>2. InflightInv'
    BY <1>11 DEF IInv, InflightInv, Running, WriteFile, shared, handlers
  <2>3. CacheInv'
    BY <1>11 DEF IInv, CacheInv, FilesInv, WriteFile, shared, handlers
  <2>4. FilesInv'
    BY <1>11 DEF IInv, FilesInv, TypeOK, InflightInv, Running, OneWriter,
      WriteFile, shared, handlers
  <2>5. OneWriter'
    BY <1>11 DEF IInv, OneWriter, WriteFile, shared, handlers
  <2>6. TimersInv'
    BY <1>11 DEF IInv, TimersInv, WriteFile, shared, handlers
  <2>7. RequestsInv'
    BY <1>11 DEF IInv, RequestsInv, FilesInv, WriteFile, shared, handlers
  <2>8. NoOrphanFiles'
    BY <1>11 DEF IInv, NoOrphanFiles, Running, WriteFile, shared, handlers
  <2>9. QED  BY <2>1, <2>2, <2>3, <2>4, <2>5, <2>6, <2>7, <2>8 DEF IInv
\* Only this goroutine has the partial file, removed or not.
<1>12. ASSUME NEW d \in Downloads, WriteFails(d)
      PROVE  IInv'
  <2>1. TypeOK'
    BY <1>12 DEF IInv, TypeOK, WriteFails, Remove, shared, handlers
  <2>2. InflightInv'
    BY <1>12 DEF IInv, InflightInv, Running, WriteFails, Remove, shared, handlers
  <2>3. CacheInv'
    BY <1>12 DEF IInv, CacheInv, FilesInv, WriteFails, Remove, shared, handlers
  <2>4. FilesInv'
    BY <1>12 DEF IInv, FilesInv, TypeOK, InflightInv, Running, OneWriter,
      WriteFails, Remove, shared, handlers
  <2>5. OneWriter'
    BY <1>12 DEF IInv, OneWriter, TypeOK, WriteFails, Remove, shared, handlers
  <2>6. TimersInv'
    BY <1>12 DEF IInv, TimersInv, TypeOK, WriteFails, Remove, shared, handlers
  <2>7. RequestsInv'
    BY <1>12 DEF IInv, RequestsInv, WriteFails, Remove, shared, handlers
  <2>8. NoOrphanFiles'
    BY <1>12 DEF IInv, NoOrphanFiles, Running, WriteFails, Remove, shared, handlers
  <2>9. QED  BY <2>1, <2>2, <2>3, <2>4, <2>5, <2>6, <2>7, <2>8 DEF IInv
\* The clip was in flight, hence not cached, and the file has no timer yet.
<1>13. ASSUME NEW d \in Downloads, Finish(d)
      PROVE  IInv'
  <2>1. TypeOK'
    BY <1>13 DEF IInv, TypeOK, InflightInv, Running, FilesInv, Timer,
      Finish, Publish, disk, handlers
  <2>2. InflightInv'
    BY <1>13 DEF IInv, InflightInv, Running, TypeOK, Timer, Finish, Publish, disk,
      handlers
  <2>3. CacheInv'
    BY <1>13 DEF IInv, CacheInv, TypeOK, FilesInv, Timer, Finish, Publish, disk,
      handlers
  <2>4. FilesInv'
    BY <1>13 DEF IInv, FilesInv, InflightInv, Running, Finish, Publish, disk,
      handlers
  <2>5. OneWriter'
    BY <1>13 DEF IInv, OneWriter, Finish, Publish, disk, handlers
  <2>6. TimersInv'
    BY <1>13 DEF IInv, TimersInv, TypeOK, InflightInv, Running, FilesInv,
      Timer, Finish, Publish, disk, handlers
  <2>7. RequestsInv'
    BY <1>13 DEF IInv, RequestsInv, Finish, Publish, disk, handlers
  <2>8. NoOrphanFiles'
    BY <1>13 DEF IInv, NoOrphanFiles, Running, TypeOK, CacheInv, FilesInv,
      InflightInv, Timer, Finish, Publish, disk, handlers
  <2>9. QED  BY <2>1, <2>2, <2>3, <2>4, <2>5, <2>6, <2>7, <2>8 DEF IInv
\* A due timer whose file is still the cached one removes that file only.
<1>14. ASSUME NEW t \in timers, Fire(t)
      PROVE  IInv'
  <2>1. TypeOK'
    BY <1>14 DEF IInv, TypeOK, Timer, Fire, Evict, Remove, goroutines, handlers
  <2>2. CacheInv'
    BY <1>14 DEF IInv, CacheInv, TypeOK, Timer, Fire, Evict, Remove, goroutines,
      handlers
  <2>3. FilesInv'
    BY <1>14 DEF IInv, FilesInv, TimersInv, Fire, Evict, Remove, goroutines,
      handlers
  <2>4. TimersInv'
    BY <1>14 DEF IInv, TimersInv, TypeOK, Timer, Fire, Evict, Remove, goroutines,
      handlers
  <2>5. NoOrphanFiles'
    BY <1>14 DEF IInv, NoOrphanFiles, Running, TypeOK, Timer, Fire, Evict, Remove,
      goroutines, handlers
  <2>6. (InflightInv /\ OneWriter /\ RequestsInv)'
    BY <1>14 DEF IInv, InflightInv, Running, OneWriter, RequestsInv, Fire,
      Evict, Remove, goroutines, handlers
  <2>7. QED  BY <2>1, <2>2, <2>3, <2>4, <2>5, <2>6 DEF IInv
\* Time passes: the clocks requests have read get older.
<1>15. ASSUME Tick
      PROVE  IInv'
  <2>1. TypeOK'
    BY <1>15 DEF IInv, TypeOK, Tick, disk, shared, goroutines, handlers
  <2>2. RequestsInv'
    BY <1>15 DEF IInv, RequestsInv, TypeOK, Tick, disk, shared, goroutines,
      handlers
  <2>3. (/\ InflightInv /\ CacheInv /\ FilesInv /\ OneWriter
         /\ TimersInv /\ NoOrphanFiles)'
    BY <1>15 DEF IInv, InflightInv, Running, CacheInv, FilesInv, OneWriter,
      TimersInv, NoOrphanFiles, Tick, disk, shared, goroutines, handlers
  <2>4. QED  BY <2>1, <2>2, <2>3 DEF IInv
\* The files become leftovers.
<1>16. ASSUME Restart
      PROVE  IInv'
  <2>1. TypeOK'
    BY <1>16 DEF IInv, TypeOK, Restart
  <2>2. InflightInv'
    BY <1>16 DEF IInv, InflightInv, Running, Restart
  <2>3. CacheInv'
    BY <1>16 DEF IInv, CacheInv, Restart
  <2>4. FilesInv'
    BY <1>16 DEF IInv, FilesInv, Restart
  <2>5. OneWriter'
    BY <1>16 DEF IInv, OneWriter, Restart
  <2>6. TimersInv'
    BY <1>16 DEF IInv, TimersInv, Restart
  <2>7. RequestsInv'
    BY <1>16 DEF IInv, RequestsInv, Restart
  <2>8. NoOrphanFiles'
    BY <1>16 DEF IInv, NoOrphanFiles, Running, Restart
  <2>9. QED  BY <2>1, <2>2, <2>3, <2>4, <2>5, <2>6, <2>7, <2>8 DEF IInv
<1>17. CASE UNCHANGED vars
  BY <1>17 DEF IInv, TypeOK, InflightInv, Running, CacheInv, FilesInv,
     OneWriter, TimersInv, RequestsInv, NoOrphanFiles, vars, disk, shared,
     goroutines, handlers
<1>18. QED
  BY <1>1, <1>2, <1>3, <1>4, <1>5, <1>6, <1>7, <1>8, <1>9, <1>10, <1>11,
     <1>12, <1>13, <1>14, <1>15, <1>16, <1>17 DEF Next, Lookup, Download

\* Every behaviour of the cache keeps the invariant.
THEOREM SpecIInv == Spec => []IInv
BY InitIInv, NextIInv, PTL DEF Spec

\* Every variable keeps its type.
THEOREM TypeCorrect == Spec => []TypeOK
<1>1. IInv => TypeOK  BY DEF IInv
<1> QED  BY <1>1, SpecIInv, PTL

\* One download per clip, and none for a clip that is cached.
THEOREM SingleFlightHolds == Spec => []SingleFlight
<1>1. IInv => SingleFlight
  BY NullsAssumption DEF IInv, SingleFlight, InflightInv, CacheInv, Running
<1> QED  BY <1>1, SpecIInv, PTL

\* What a request serves is the whole clip it asked for.
THEOREM CompleteClipHolds == Spec => []CompleteClip
<1>1. IInv => CompleteClip
  BY DEF IInv, CompleteClip, RequestsInv
<1> QED  BY <1>1, SpecIInv, PTL

\* The process forgets no file it created without having tried to remove it, and a
\* file whose removal failed is all that may be left besides an earlier process's.
THEOREM NoOrphanFilesHolds == Spec => []NoOrphanFiles
<1>1. IInv => NoOrphanFiles  BY DEF IInv
<1> QED  BY <1>1, SpecIInv, PTL

\* No step but a restart takes a fresh clip out of the cache: a request evicts
\* what had expired at a clock it read earlier, and a timer that is due finds
\* its own file expired or another one cached.
THEOREM FreshClipKeptHolds == Spec => FreshClipKept
<1> DEFINE Fresh(k) == cache[k] # NoFile /\ clock < expiresAt[k]
           Kept(k) == cache'[k] = cache[k] /\ cache[k] \in linked'
<1>1. ASSUME IInv, Next, ~Restart, NEW k \in Keys, Fresh(k)
      PROVE  Kept(k)
  <2> USE NullsAssumption
  <2>1. cache[k] \in linked /\ clip[cache[k]] = k /\ inflight[k] = NoDownload
    BY <1>1 DEF IInv, CacheInv
  <2>2. ASSUME NEW j \in Keys, j # k, Evict(j) PROVE Kept(k)
    BY <2>1, <2>2, <1>1 DEF IInv, TypeOK, CacheInv, Evict, Remove
  <2>3. ASSUME NEW r \in Requests, Join(r) PROVE Kept(k)
    <3>1. rkey[r] \in Keys /\ rkey[r] # k
      BY <1>1, <2>3 DEF IInv, TypeOK, RequestsInv, Join, CacheHit
    <3> QED  BY <3>1, <2>2, <2>3 DEF Join
  <2>4. ASSUME NEW r \in Requests, NEW d \in Downloads, Start(r, d)
        PROVE  Kept(k)
    <3>1. rkey[r] \in Keys /\ rkey[r] # k
      BY <1>1, <2>4 DEF IInv, TypeOK, RequestsInv, Start, CacheHit
    <3> QED  BY <3>1, <2>2, <2>4 DEF Start
  <2>5. ASSUME NEW t \in timers, Fire(t) PROVE Kept(k)
    <3>1. CASE cache[t.key] = t.path /\ Evict(t.key)
      <4>1. t.key \in Keys /\ t.key # k
        BY <1>1, <2>5, <3>1 DEF IInv, TypeOK, Timer, TimersInv, Fire
      <4> QED  BY <4>1, <2>2, <3>1
    <3>2. CASE UNCHANGED <<cache, expiresAt, linked, leftover>>
      BY <3>2, <2>1
    <3> QED  BY <2>5, <3>1, <3>2 DEF Fire
  <2>6. ASSUME NEW d \in Downloads, Download(d) PROVE Kept(k)
    <3>1. d \in Running => dkey[d] # k
      BY <1>1, <2>1 DEF IInv, InflightInv
    <3>2. ASSUME WriteFails(d) PROVE Kept(k)
      BY <1>1, <2>1, <3>2 DEF IInv, FilesInv, WriteFails, Remove, shared
    <3>3. ASSUME Finish(d) PROVE Kept(k)
      BY <1>1, <2>1, <3>1, <3>3 DEF IInv, TypeOK, Running, Finish, Publish, disk
    <3> QED
      BY <2>1, <2>6, <3>2, <3>3
      DEF Download, CreateFile, FetchFails, WriteFile, disk, shared
  <2>7. QED
    BY <1>1, <2>1, <2>3, <2>4, <2>5, <2>6
    DEF Next, Lookup, Begin, Hit, Receive, Cancel, OpenFile, Reply, Tick, disk,
        shared
<1>2. IInv /\ [Next]_vars
        => [\A k \in Keys : Fresh(k) /\ ~Restart => Kept(k)]_vars
  BY <1>1
<1> QED  BY <1>2, SpecIInv, PTL DEF Spec, FreshClipKept

-----------------------------------------------------------------------------
(* What RequestsAnswered and ExpiredClipsRemoved rest on in every instance. *)

\* A cached file is never without the timer that removes it when its lifetime is
\* over, however many timers of evicted files of the clip fire meanwhile: the one
\* that finds another path in expireCacheEntry and does nothing is never its own.
EntryHasTimer ==
  \A k \in Keys : cache[k] # NoFile =>
    [key |-> k, path |-> cache[k], at |-> expiresAt[k]] \in timers

\* A request waits only for a goroutine that has closed its channel or still runs
\* as the download of its clip: none waits for one that has ended in silence, or
\* that was replaced.
WaiterIsHeard ==
  \A r \in Requests : pc[r] = "waiting" /\ rwait[r] # NoDownload =>
    phase[rwait[r]] = "done" \/ inflight[rkey[r]] = rwait[r]

\* A request waits for a download that has ended or is the one in flight.
THEOREM WaiterIsHeardHolds == Spec => []WaiterIsHeard
<1>1. IInv => WaiterIsHeard
  BY NullsAssumption DEF IInv, TypeOK, InflightInv, RequestsInv, Running, WaiterIsHeard
<1> QED  BY <1>1, SpecIInv, PTL

\* What is taken out of the cache leaves the other entries and their timers.
LEMMA EvictKeepsTimers ==
  ASSUME TypeOK, EntryHasTimer, NEW j \in Keys, Evict(j),
         \A t \in timers : t.key # j => t \in timers'
  PROVE  EntryHasTimer'
<1>1. cache'[j] = NoFile
  BY DEF TypeOK, Evict
<1>2. \A k \in Keys \ {j} : cache'[k] = cache[k] /\ expiresAt'[k] = expiresAt[k]
  BY DEF TypeOK, Evict
<1> QED
  BY <1>1, <1>2 DEF EntryHasTimer

\* Every step leaves each cached file its timer: the only one that fires without
\* removing its file's entry is not the entry's own.
LEMMA NextEntryHasTimer == IInv /\ EntryHasTimer /\ [Next]_vars => EntryHasTimer'
<1> SUFFICES ASSUME IInv, EntryHasTimer, [Next]_vars PROVE EntryHasTimer'
  OBVIOUS
<1> USE NullsAssumption
<1>1. TypeOK
  BY DEF IInv
<1>2. ASSUME UNCHANGED <<cache, expiresAt, timers>> PROVE EntryHasTimer'
  BY <1>2 DEF EntryHasTimer
<1>3. ASSUME NEW r \in Requests, Join(r) \/ \E d \in Downloads : Start(r, d)
      PROVE  EntryHasTimer'
  <2>1. rkey[r] \in Keys
    BY <1>3 DEF IInv, RequestsInv, Join, Start
  <2>2. Evict(rkey[r]) /\ UNCHANGED timers
    BY <1>3 DEF Join, Start
  <2> QED
    BY <1>1, <2>1, <2>2, EvictKeepsTimers
<1>4. ASSUME NEW d \in Downloads, Finish(d) PROVE EntryHasTimer'
  <2>1. dkey[d] \in Keys
    BY <1>4 DEF IInv, InflightInv, Running, Finish
  <2>2. CASE Publish(d)
    <3>1. /\ cache'[dkey[d]] = dpath[d] /\ expiresAt'[dkey[d]] = clock + Lifetime
          /\ [key |-> dkey[d], path |-> dpath[d], at |-> clock + Lifetime] \in timers'
      BY <1>1, <2>1, <2>2 DEF TypeOK, Publish
    <3>2. /\ \A k \in Keys \ {dkey[d]} : cache'[k] = cache[k] /\ expiresAt'[k] = expiresAt[k]
          /\ timers \subseteq timers'
      BY <1>1, <2>2 DEF TypeOK, Publish
    <3> QED
      BY <3>1, <3>2 DEF EntryHasTimer
  <2> QED
    BY <1>2, <1>4, <2>2 DEF Finish
<1>5. ASSUME NEW t \in timers, Fire(t) PROVE EntryHasTimer'
  <2>1. t.key \in Keys /\ timers' = timers \ {t}
    BY <1>1, <1>5 DEF TypeOK, Timer, Fire
  <2>2. CASE cache[t.key] = t.path /\ Evict(t.key)
    BY <1>1, <2>1, <2>2, EvictKeepsTimers
  <2>3. CASE cache[t.key] # t.path /\ UNCHANGED <<cache, expiresAt>>
    <3>1. \A k \in Keys : t # [key |-> k, path |-> cache[k], at |-> expiresAt[k]]
      BY <2>3
    <3> QED
      BY <2>1, <2>3, <3>1 DEF EntryHasTimer
  <2> QED
    BY <1>5, <2>2, <2>3 DEF Fire
<1>6. CASE Restart
  BY <1>6 DEF EntryHasTimer, Restart
<1> QED
  BY <1>2, <1>3, <1>4, <1>5, <1>6
  DEF Next, Lookup, Download, Begin, Hit, Receive, Cancel, OpenFile, Reply, CreateFile,
      FetchFails, WriteFile, WriteFails, Tick, vars, shared

\* Every cached file has its timer, whatever was evicted and fetched again.
THEOREM EntryHasTimerHolds == Spec => []EntryHasTimer
<1>1. Init => EntryHasTimer
  BY DEF Init, EntryHasTimer
<1> QED  BY <1>1, NextEntryHasTimer, SpecIInv, PTL DEF Spec
=============================================================================
