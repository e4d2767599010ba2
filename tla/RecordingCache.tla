--------------------------- MODULE RecordingCache ---------------------------
(***************************************************************************)
(* RecordingService of services/recording_service.go: the clips fetched    *)
(* from MediaMTX for historical playback and kept as temporary files.      *)
(*                                                                         *)
(* Requests are the HTTP handlers in RecordingController.Content.  They    *)
(* share, under cacheMu, the map of cached files and the map of downloads  *)
(* in flight; the downloads run in goroutines of their own, and one timer  *)
(* per cached file removes it when its lifetime is over.  The steps        *)
(* outside the mutex (the read of the clock before it, the select on the   *)
(* download's channel, os.Open) interleave with all of them.               *)
(*                                                                         *)
(* Abstractions.  The cache key (a hash of truck, camera, start and        *)
(* duration) is the clip itself.  A file name is not given out again while *)
(* something still refers to it (os.CreateTemp draws one of 2^32 names     *)
(* and retries when it exists).  The clock is cut at MaxClock.  os.Remove   *)
(* may fail wherever it is called, and the code goes on as if it had not.  *)
(***************************************************************************)
EXTENDS Naturals

CONSTANTS Keys,       \* the clips that can be asked for
          Requests,   \* the handlers that may be running at once
          Files,      \* the names os.CreateTemp may draw
          Downloads,  \* the recordingDownload objects, reused once garbage
          Lifetime,   \* cacheLifetime, in ticks
          MaxClock,   \* bound: the clock stops here
          NoKey, NoFile, NoDownload

ASSUME NullsAssumption == /\ NoKey \notin Keys
                          /\ NoFile \notin Files
                          /\ NoDownload \notin Downloads
ASSUME TimeAssumption == Lifetime \in Nat \ {0} /\ MaxClock \in Nat

VARIABLES
  clock,      \* time.Now()
  linked,     \* the files that exist in cacheDirectory
  clip,       \* clip[f]: the clip whose bytes f holds, NoKey for a partial one
  leftover,   \* the files nobody will remove: those of a previous process, and
              \*   those whose removal failed
  cache,      \* cache[k]: path of the cached file, NoFile when there is none
  expiresAt,  \* expiresAt[k], 0 when nothing is cached
  inflight,   \* inflight[k]: the download other requests join
  timers,     \* the pending time.AfterFunc calls
  phase,      \* phase[d]: how far the goroutine of download d has come
  dkey,       \* dkey[d]: the clip d downloads
  dpath,      \* dpath[d]: the file of d, NoFile when there is none or err # nil
  pc,         \* pc[r]: how far request r has come
  rkey,       \* rkey[r]: the clip r asks for
  rnow,       \* rnow[r]: the `now` r read before it took the mutex
  rwait,      \* rwait[r]: the download r waits for
  rfile       \* rfile[r]: the path r has been given, then the file r has open

disk == <<linked, clip, leftover>>
shared == <<cache, expiresAt, inflight, timers>>
goroutines == <<phase, dkey, dpath>>
handlers == <<pc, rkey, rnow, rwait, rfile>>
vars == <<clock, disk, shared, goroutines, handlers>>

Timer == [key : Keys, path : Files, at : Nat]

Init == /\ clock = 0
        /\ linked = {} /\ leftover = {}
        /\ clip = [f \in Files |-> NoKey]
        /\ cache = [k \in Keys |-> NoFile]
        /\ expiresAt = [k \in Keys |-> 0]
        /\ inflight = [k \in Keys |-> NoDownload]
        /\ timers = {}
        /\ phase = [d \in Downloads |-> "free"]
        /\ dkey = [d \in Downloads |-> NoKey]
        /\ dpath = [d \in Downloads |-> NoFile]
        /\ pc = [r \in Requests |-> "idle"]
        /\ rkey = [r \in Requests |-> NoKey]
        /\ rnow = [r \in Requests |-> 0]
        /\ rwait = [r \in Requests |-> NoDownload]
        /\ rfile = [r \in Requests |-> NoFile]

-----------------------------------------------------------------------------
(* A request enters Open and reads the clock; it does not hold cacheMu yet. *)
Begin(r, k) ==
  /\ pc[r] = "idle"
  /\ pc' = [pc EXCEPT ![r] = "locking"]
  /\ rkey' = [rkey EXCEPT ![r] = k]
  /\ rnow' = [rnow EXCEPT ![r] = clock]
  /\ UNCHANGED <<clock, disk, shared, goroutines, rwait, rfile>>

(* Slip: the comparison with the lifetime is the wrong way round. *)
CacheHitWhenOver(r) == /\ cache[rkey[r]] # NoFile
                       /\ rnow[r] >= expiresAt[rkey[r]]

(* now.Before(cached.expiresAt), with the `now` read before the mutex. *)
CacheHit(r) == /\ cache[rkey[r]] # NoFile
               /\ rnow[r] < expiresAt[rkey[r]]

(* The critical section of downloadFor, cached clip: a completed download  *)
(* has no goroutine, so the request keeps its path and waits for nothing.  *)
Hit(r) ==
  /\ pc[r] = "locking"
  /\ CacheHit(r)
  /\ pc' = [pc EXCEPT ![r] = "waiting"]
  /\ rfile' = [rfile EXCEPT ![r] = cache[rkey[r]]]
  /\ rnow' = [rnow EXCEPT ![r] = 0]
  /\ UNCHANGED <<clock, disk, shared, goroutines, rkey, rwait>>

(* _ = os.Remove(f): the name is gone, or it stays and nobody knows. *)
Remove(f) == \/ linked' = linked \ {f} /\ UNCHANGED leftover
             \/ linked' = linked /\ leftover' = leftover \cup (linked \cap {f})

(* delete(s.cache, key) and os.Remove(cached.path); nothing when k is not  *)
(* cached.                                                                 *)
Evict(k) ==
  /\ cache' = [cache EXCEPT ![k] = NoFile]
  /\ expiresAt' = [expiresAt EXCEPT ![k] = 0]
  /\ Remove(cache[k])

(* A request that did not hit waits for download d. *)
WaitFor(r, d) ==
  /\ pc' = [pc EXCEPT ![r] = "waiting"]
  /\ rwait' = [rwait EXCEPT ![r] = d]
  /\ rnow' = [rnow EXCEPT ![r] = 0]
  /\ UNCHANGED <<rkey, rfile>>

(* The critical section of downloadFor, a download of this clip is in      *)
(* flight.                                                                 *)
Join(r) ==
  /\ pc[r] = "locking"
  /\ ~CacheHit(r)
  /\ inflight[rkey[r]] # NoDownload
  /\ Evict(rkey[r])
  /\ WaitFor(r, inflight[rkey[r]])
  /\ UNCHANGED <<clock, clip, inflight, timers, goroutines>>

(* A recordingDownload object nothing points to any more, or never used. *)
Unused(d) == /\ phase[d] \in {"free", "done"}
             /\ \A r \in Requests : rwait[r] # d

(* Slip: the downloads in flight are not looked up. *)
StartAnyway(r, d) ==
  /\ pc[r] = "locking"
  /\ ~CacheHit(r)
  /\ Unused(d)
  /\ Evict(rkey[r])
  /\ inflight' = [inflight EXCEPT ![rkey[r]] = d]
  /\ phase' = [phase EXCEPT ![d] = "fetching"]
  /\ dkey' = [dkey EXCEPT ![d] = rkey[r]]
  /\ dpath' = [dpath EXCEPT ![d] = NoFile]
  /\ WaitFor(r, d)
  /\ UNCHANGED <<clock, clip, timers>>

(* The critical section of downloadFor, otherwise: register a new download *)
(* and start its goroutine.                                                *)
Start(r, d) ==
  /\ pc[r] = "locking"
  /\ ~CacheHit(r)
  /\ inflight[rkey[r]] = NoDownload
  /\ Unused(d)
  /\ Evict(rkey[r])
  /\ inflight' = [inflight EXCEPT ![rkey[r]] = d]
  /\ phase' = [phase EXCEPT ![d] = "fetching"]
  /\ dkey' = [dkey EXCEPT ![d] = rkey[r]]
  /\ dpath' = [dpath EXCEPT ![d] = NoFile]
  /\ WaitFor(r, d)
  /\ UNCHANGED <<clock, clip, timers>>

(* Slip: the path is read before the channel is closed. *)
ReceiveEarly(r) ==
  /\ pc[r] = "waiting"
  /\ rwait[r] # NoDownload => dpath[rwait[r]] # NoFile
  /\ rfile' = [rfile EXCEPT ![r] = IF rwait[r] = NoDownload THEN @
                                   ELSE dpath[rwait[r]]]
  /\ pc' = [pc EXCEPT ![r] = "opening"]
  /\ rwait' = [rwait EXCEPT ![r] = NoDownload]
  /\ UNCHANGED <<clock, disk, shared, goroutines, rkey, rnow>>

(* The select of Open takes the closed channel: the path, or the error. *)
Receive(r) ==
  /\ pc[r] = "waiting"
  /\ \/ /\ rwait[r] = NoDownload
        /\ pc' = [pc EXCEPT ![r] = "opening"]
        /\ UNCHANGED rfile
     \/ /\ rwait[r] # NoDownload
        /\ phase[rwait[r]] = "done"
        /\ rfile' = [rfile EXCEPT ![r] = dpath[rwait[r]]]
        /\ pc' = [pc EXCEPT ![r] = IF dpath[rwait[r]] = NoFile THEN "failed"
                                                               ELSE "opening"]
  /\ rwait' = [rwait EXCEPT ![r] = NoDownload]
  /\ UNCHANGED <<clock, disk, shared, goroutines, rkey, rnow>>

(* The select takes ctx.Done: the client went away.  The download goes on. *)
Cancel(r) ==
  /\ pc[r] = "waiting"
  /\ pc' = [pc EXCEPT ![r] = "failed"]
  /\ rwait' = [rwait EXCEPT ![r] = NoDownload]
  /\ rfile' = [rfile EXCEPT ![r] = NoFile]
  /\ UNCHANGED <<clock, disk, shared, goroutines, rkey, rnow>>

(* os.Open(download.path), long after the path was read.  The open file    *)
(* keeps its bytes when its name is removed.                               *)
OpenFile(r) ==
  /\ pc[r] = "opening"
  /\ \/ /\ rfile[r] \in linked
        /\ pc' = [pc EXCEPT ![r] = "serving"]
        /\ UNCHANGED rfile
     \/ /\ rfile[r] \notin linked
        /\ pc' = [pc EXCEPT ![r] = "failed"]
        /\ rfile' = [rfile EXCEPT ![r] = NoFile]
  /\ UNCHANGED <<clock, disk, shared, goroutines, rkey, rnow, rwait>>

(* The handler returns: the clip has been written, or a 502. *)
Reply(r) ==
  /\ pc[r] \in {"serving", "failed"}
  /\ pc' = [pc EXCEPT ![r] = "idle"]
  /\ rkey' = [rkey EXCEPT ![r] = NoKey]
  /\ rfile' = [rfile EXCEPT ![r] = NoFile]
  /\ UNCHANGED <<clock, disk, shared, goroutines, rnow, rwait>>

-----------------------------------------------------------------------------
(* The files some live object still refers to by name. *)
Referenced == {cache[k] : k \in Keys} \cup {dpath[d] : d \in Downloads}
                \cup {rfile[r] : r \in Requests} \cup {t.path : t \in timers}

(* MediaMTX answers 2xx and os.CreateTemp succeeds. *)
CreateFile(d, f) ==
  /\ phase[d] = "fetching"
  /\ f \notin linked \cup Referenced
  /\ linked' = linked \cup {f}
  /\ clip' = [clip EXCEPT ![f] = NoKey]
  /\ dpath' = [dpath EXCEPT ![d] = f]
  /\ phase' = [phase EXCEPT ![d] = "writing"]
  /\ UNCHANGED <<clock, leftover, shared, dkey, handlers>>

(* The request to MediaMTX fails, times out or is refused, or the file     *)
(* cannot be created.                                                      *)
FetchFails(d) ==
  /\ phase[d] = "fetching"
  /\ phase' = [phase EXCEPT ![d] = "errored"]
  /\ UNCHANGED <<clock, disk, shared, dkey, dpath, handlers>>

(* io.Copy, Sync and Close all succeed: the file is complete. *)
WriteFile(d) ==
  /\ phase[d] = "writing"
  /\ clip' = [clip EXCEPT ![dpath[d]] = dkey[d]]
  /\ phase' = [phase EXCEPT ![d] = "written"]
  /\ UNCHANGED <<clock, linked, leftover, shared, dkey, dpath, handlers>>

(* Slip: the partial file stays. *)
WriteFailsKeepsFile(d) ==
  /\ phase[d] = "writing"
  /\ dpath' = [dpath EXCEPT ![d] = NoFile]
  /\ phase' = [phase EXCEPT ![d] = "errored"]
  /\ UNCHANGED <<clock, disk, shared, dkey, handlers>>

(* One of them fails: the partial file is removed, if it can be. *)
WriteFails(d) ==
  /\ phase[d] = "writing"
  /\ Remove(dpath[d])
  /\ dpath' = [dpath EXCEPT ![d] = NoFile]
  /\ phase' = [phase EXCEPT ![d] = "errored"]
  /\ UNCHANGED <<clock, clip, shared, dkey, handlers>>

(* Slip: no timer is armed. *)
PublishUntimed(d) ==
  /\ cache' = [cache EXCEPT ![dkey[d]] = dpath[d]]
  /\ expiresAt' = [expiresAt EXCEPT ![dkey[d]] = clock + Lifetime]
  /\ UNCHANGED timers

(* What the goroutine publishes of a download that succeeded. *)
Publish(d) ==
  /\ cache' = [cache EXCEPT ![dkey[d]] = dpath[d]]
  /\ expiresAt' = [expiresAt EXCEPT ![dkey[d]] = clock + Lifetime]
  /\ timers' = timers \cup {[key |-> dkey[d], path |-> dpath[d],
                              at |-> clock + Lifetime]}

(* Slip: the error is not looked at. *)
FinishBlindly(d) ==
  /\ phase[d] \in {"written", "errored"}
  /\ inflight' = [inflight EXCEPT ![dkey[d]] = NoDownload]
  /\ Publish(d)
  /\ phase' = [phase EXCEPT ![d] = "done"]
  /\ UNCHANGED <<clock, disk, dkey, dpath, handlers>>

(* Slip: a goroutine that failed returns without closing the channel. *)
FinishUnclosed(d) ==
  /\ phase[d] \in {"written", "errored"}
  /\ inflight' = [inflight EXCEPT ![dkey[d]] = NoDownload]
  /\ \/ phase[d] = "written" /\ Publish(d)
     \/ phase[d] = "errored" /\ UNCHANGED <<cache, expiresAt, timers>>
  /\ phase' = [phase EXCEPT ![d] = IF @ = "written" THEN "done" ELSE "free"]
  /\ UNCHANGED <<clock, disk, dkey, dpath, handlers>>

(* The critical section at the end of the goroutine: cache the file and    *)
(* arm its timer unless there was an error, then close(download.done).     *)
Finish(d) ==
  /\ phase[d] \in {"written", "errored"}
  /\ inflight' = [inflight EXCEPT ![dkey[d]] = NoDownload]
  /\ \/ phase[d] = "written" /\ Publish(d)
     \/ phase[d] = "errored" /\ UNCHANGED <<cache, expiresAt, timers>>
  /\ phase' = [phase EXCEPT ![d] = "done"]
  /\ UNCHANGED <<clock, disk, dkey, dpath, handlers>>

(* Slip: the timer does not check that the cached file is still its own. *)
FireBlindly(t) ==
  /\ clock >= t.at
  /\ timers' = timers \ {t}
  /\ Evict(t.key)
  /\ UNCHANGED <<clock, clip, inflight, goroutines, handlers>>

(* expireCacheEntry, run by a timer at its time or later. *)
Fire(t) ==
  /\ clock >= t.at
  /\ timers' = timers \ {t}
  /\ \/ cache[t.key] = t.path /\ Evict(t.key)
     \/ cache[t.key] # t.path /\ UNCHANGED <<cache, expiresAt, linked, leftover>>
  /\ UNCHANGED <<clock, clip, inflight, goroutines, handlers>>

Tick == /\ clock < MaxClock
        /\ clock' = clock + 1
        /\ UNCHANGED <<disk, shared, goroutines, handlers>>

(* The process ends and NewRecordingService runs again: the maps start     *)
(* empty, the files stay.                                                  *)
Restart ==
  /\ leftover' = linked
  /\ cache' = [k \in Keys |-> NoFile]
  /\ expiresAt' = [k \in Keys |-> 0]
  /\ inflight' = [k \in Keys |-> NoDownload]
  /\ timers' = {}
  /\ phase' = [d \in Downloads |-> "free"]
  /\ dkey' = [d \in Downloads |-> NoKey]
  /\ dpath' = [d \in Downloads |-> NoFile]
  /\ pc' = [r \in Requests |-> "idle"]
  /\ rkey' = [r \in Requests |-> NoKey]
  /\ rnow' = [r \in Requests |-> 0]
  /\ rwait' = [r \in Requests |-> NoDownload]
  /\ rfile' = [r \in Requests |-> NoFile]
  /\ UNCHANGED <<clock, linked, clip>>

Lookup(r) == Hit(r) \/ Join(r) \/ \E d \in Downloads : Start(r, d)

Download(d) == \/ \E f \in Files : CreateFile(d, f)
               \/ FetchFails(d) \/ WriteFile(d) \/ WriteFails(d) \/ Finish(d)

Next == \/ \E r \in Requests : \/ \E k \in Keys : Begin(r, k)
                               \/ Lookup(r) \/ Receive(r) \/ Cancel(r)
                               \/ OpenFile(r) \/ Reply(r)
        \/ \E d \in Downloads : Download(d)
        \/ \E t \in timers : Fire(t)
        \/ Tick
        \/ Restart

Spec == Init /\ [][Next]_vars

(***************************************************************************)
(* Fairness.  A handler that can take its next step does (Go's mutex and   *)
(* select do not starve it), a download ends because its request carries a *)
(* five minute deadline, and a timer that is due fires.  No request has to *)
(* arrive, no client has to go away or to read its answer to the end, time *)
(* need not advance and the process need not restart.                      *)
(***************************************************************************)
FireFor(k, f) == \E t \in timers : t.key = k /\ t.path = f /\ Fire(t)

Fairness == /\ \A r \in Requests : /\ WF_vars(Lookup(r))
                                   /\ WF_vars(Receive(r))
                                   /\ WF_vars(OpenFile(r))
            /\ \A d \in Downloads : WF_vars(Download(d))
            /\ \A k \in Keys, f \in Files : WF_vars(FireFor(k, f))

FairSpec == Spec /\ Fairness
-----------------------------------------------------------------------------
Running == {d \in Downloads : phase[d] \notin {"free", "done"}}

\* Every variable has its type.
TypeOK ==
  /\ clock \in Nat
  /\ linked \subseteq Files /\ leftover \subseteq Files
  /\ clip \in [Files -> Keys \cup {NoKey}]
  /\ cache \in [Keys -> Files \cup {NoFile}]
  /\ expiresAt \in [Keys -> Nat]
  /\ inflight \in [Keys -> Downloads \cup {NoDownload}]
  /\ timers \subseteq Timer
  /\ phase \in [Downloads -> {"free", "fetching", "writing", "written",
                              "errored", "done"}]
  /\ dkey \in [Downloads -> Keys \cup {NoKey}]
  /\ dpath \in [Downloads -> Files \cup {NoFile}]
  /\ pc \in [Requests -> {"idle", "locking", "waiting", "opening", "serving",
                          "failed"}]
  /\ rkey \in [Requests -> Keys \cup {NoKey}]
  /\ rnow \in [Requests -> Nat]
  /\ rwait \in [Requests -> Downloads \cup {NoDownload}]
  /\ rfile \in [Requests -> Files \cup {NoFile}]

\* MediaMTX is never asked for one clip by two goroutines at once, nor for a
\* clip of which a file is cached: the two maps and the goroutines agree.
SingleFlight ==
  /\ \A d, e \in Running : dkey[d] = dkey[e] => d = e
  /\ \A d \in Running : cache[dkey[d]] = NoFile

\* The file a request serves holds the clip it asked for, whole: never the
\* beginning of one, never another one, whatever was removed, retried or
\* downloaded again since its path was read.
CompleteClip ==
  \A r \in Requests : pc[r] = "serving" => clip[rfile[r]] = rkey[r]

\* Every file of the cache directory is cached, is being downloaded, was left by
\* an earlier process, or is one this process tried to remove and could not (the
\* error of os.Remove is ignored at recording_service.go 158, 221 and 231, and
\* nothing tries again): none is forgotten without an attempt, on any path.
NoOrphanFiles ==
  linked \subseteq {cache[k] : k \in Keys} \cup {dpath[d] : d \in Running}
                     \cup leftover

\* A cached file whose lifetime is not over keeps its entry and its name: no
\* late timer and no request with an old clock removes it.
FreshClipKept ==
  [][\A k \in Keys : cache[k] # NoFile /\ clock < expiresAt[k] /\ ~Restart
       => cache'[k] = cache[k] /\ cache[k] \in linked']_vars

\* A request gets a file or an error, also when the client that started the
\* download it waits for has gone away.
RequestsAnswered ==
  \A r \in Requests : pc[r] = "locking" ~> pc[r] \in {"serving", "failed", "idle"}

\* Once its lifetime is over a cached clip leaves the cache, asked for again or
\* not, and with it the disk, unless os.Remove fails.
ExpiredClipsRemoved ==
  \A k \in Keys : (cache[k] # NoFile /\ clock >= expiresAt[k])
                    ~> (cache[k] = NoFile \/ clock < expiresAt[k])

\* "Open returns a complete, seekable MP4 file" (services/recording_service.go
\* 115): when the lookup finds the clip in the cache, the path it answers with
\* exists until the request has opened it.
HitFindsItsFile ==
  \A r \in Requests :
    pc[r] = "waiting" /\ rwait[r] = NoDownload => rfile[r] \in linked

-----------------------------------------------------------------------------
(* What the service promises, with the state of this one. *)
NoVerdict(r) == \/ pc[r] = "locking"
                \/ /\ pc[r] = "waiting"
                   /\ rwait[r] # NoDownload
                   /\ phase[rwait[r]] # "done"
Denied(r) == \/ pc[r] = "failed"
             \/ /\ pc[r] = "waiting"
                /\ rwait[r] # NoDownload
                /\ phase[rwait[r]] = "done"
                /\ dpath[rwait[r]] = NoFile

StageOf(r) == IF pc[r] = "idle" THEN "idle"
              ELSE IF pc[r] = "serving" THEN "served"
              ELSE IF NoVerdict(r) THEN "asked"
              ELSE IF Denied(r) THEN "refused" ELSE "promised"

Stage == [r \in Requests |-> StageOf(r)]
Got == [r \in Requests |-> IF pc[r] = "serving" THEN clip[rfile[r]] ELSE NoKey]
Fetching == {dkey[d] : d \in Running}
Held == {k \in Keys : cache[k] # NoFile}
Expired == {k \in Held : clock >= expiresAt[k]}

Promise == INSTANCE ClipService WITH
  stage <- Stage, want <- rkey, got <- Got,
  fetching <- Fetching, held <- Held, stale <- Expired

\* A clip is fetched by at most one goroutine and never while a fresh copy is
\* held, a request is answered only with what was held or fetched for it, and
\* gets the clip it asked for: RecordingCache does what ClipService promises.
KeepsPromise == Promise!Spec
=============================================================================
