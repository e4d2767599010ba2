# Formal models of the real-time video surveillance server

TLA+ models of the Go API server and of the parts of its Flutter client that
run concurrently, the TLC configurations that check them on small instances,
and TLAPS proofs of the safety properties for every instance.

## The system

| Component | State it keeps | Operations | Interacts with |
| --- | --- | --- | --- |
| Recording cache (`services/recording_service.go`, `recording_controller.go`) | maps `cache` and `inflight` under `cacheMu`, temporary files, one timer per cached file | `Open`, `downloadFor`, `downloadRecording`, `expireCacheEntry` | MediaMTX playback, HTTP handlers, file system |
| Location store (`location_controller.go` `Create`, `location_service.go`, `db.go`) | tables `truck_locations`, `truck_location_state` | validate, read, compute the stop, save, read back | PostgreSQL, location feed |
| Location feed (`location_controller.go`, `truck_location_screen.dart`) | a channel of capacity one per WebSocket, the location each screen shows | `subscribe`, `broadcast`, `Stream`, `Current`, load, connect, reconnect, dispose | location store, app |
| Status service (`status_service.go`, `db.go`) | `trucks.status`, `cameras.status`, `cameras.last_seen_at` | `ListenUDP`, `MonitorOffline`, `MonitorMediaMTX` | trucks (UDP), MediaMTX API, PostgreSQL |
| Access tokens (`stream_service.go`, `mediamtx_controller.go`, `stream_controller.go`, `camera_controller.go`) | none but the key: signed claims with an expiry | sign, validate, `Allows`, MediaMTX `Auth` | recording cache, MediaMTX, app |
| Sessions (`auth_service.go`, `session_controller.go`, `app.dart`, `api_client.dart`, `session_store.dart`) | `user_api_tokens`; in the app the token in memory and in secure storage | login, logout, middleware, restore, expire | every request |
| WHEP player (`whep_video_player.dart`) | peer connection, session URI, timer, flags | start, restart, stop, dispose, callbacks | MediaMTX WebRTC |
| Recording player, camera screens | the selected clip, its controller, futures | select, load, seek, switch live/history | recording cache, sessions |
| Recording segments (`deploy/mediamtx/`) | the segment being written | rotate at 30 minutes and at Taiwan midnight | recording cache |

What makes it hard: HTTP handlers, goroutines and timers share the cache and
interleave outside its mutex; each handler runs several database statements in
no common transaction; broadcasts, datagrams and answers arrive late, twice or
in another order; clients leave, reconnect and retry; the process restarts over
files and rows that stay. `PROJECT.json` lists every hazard at its line.

What makes each part correct:

* *Recording cache*: one download per clip, a request gets the whole clip it
  asked for or an error, a fresh clip is not taken away, no file is forgotten
  without an attempt to remove it, every request is answered, expired clips go.
* *Location store*: the current row is the newest stored fix, 201 means stored,
  a stop has an origin and is not interrupted.
* *Location feed*: the last broadcast is what remains to be shown, the messages
  of a screen never take it back, a refresh brings nothing older than what was
  shown when it was asked for, an announced fix is seen.
* *Status service*: who falls silent is shown offline for good, a camera online
  carries its truck, trucks do not touch each other's rows.
* *Access tokens*: nothing is served beyond the camera, the stream and the time
  a token was issued for, and through the API nothing beyond the span of its
  clip; what a token promises is not refused before its time.
* *Sessions*: after a logout or an expiry no request of the session passes, what
  is stored is what is used, and nobody waits for ever.
* *Players*: no connection or controller outlives its widget, what plays is the
  last selection, a lost stream is taken up again.
* *Segments*: none crosses Taiwan midnight or thirty minutes by more than a key
  frame.

## The modules

| Module | Models | State and actions |
| --- | --- | --- |
| `RecordingCache` | the recording cache | `cache`/`expiresAt`/`inflight`/`timers` are the struct's maps and the pending `AfterFunc`s; `linked`, `clip`, `leftover` the directory; `phase`, `dkey`, `dpath` the download goroutines; `pc`, `rkey`, `rnow`, `rwait`, `rfile` the handlers. One action per critical section and per step outside it. |
| `ClipService` | what the cache promises | abstract: a request asks, is promised or refused, is served; a clip is fetched, held, stale, dropped |
| `RecordingCacheProofs` | – | types, safety, `FreshClipKept`, and what `RequestsAnswered` and `ExpiredClipsRemoved` rest on |
| `ClipServiceRefinement` | – | `RecordingCache` implements `ClipService` |
| `LocationStore` | `Create`, `StopState`, the tables | `history`, `applied`, `state` are the tables; `hpc`, `hfix`, `hprev`, `hout` a handler's place and locals. One action per statement. |
| `LocationFeed` | extends `LocationStore` by feed and screens | `chan` the connection's channel, `wire` what is written and unread, `screen` the app's `_location`, `spc` how far its connection has come. `asked` and `sgot` are the loads under way, before and after `Current` has read the row: one begins with the screen, others with the refresh button, and each ends with `_connectSocket`. `latest` and the `shown` of a load are kept for the properties. `Announce` of the store is completed by `Broadcast`. |
| `LocationStoreProofs` | – | types and safety of `LocationStore` |
| `LocationFeedProofs` | – | `LocationFeed` implements `LocationStore`; types and safety of `LocationFeed`, and the order a single handler keeps |
| `TruckStatus` | the status service | `truckStatus`, `camStatus`, `age` are the tables; `lpc`, `truck`, `told`, `todo` the UDP listener; `mpc`, `seen`, `publishing` the two monitors; `up`, `live`, `net` the trucks, MediaMTX and the network. One action per statement, two for the refresh. |
| `TruckStatusProofs` | – | types and safety of `TruckStatus` |
| `AccessTokens` | signing, checking and handing out of stream and recording tokens | `answers` are the tokens clients hold, with what each was asked for and what remains of it; `request` the handlers between middleware, truck check and signing; `assigned`, `signedIn` the tables; `phase` where in a second the clock is |
| `AccessTokensProofs` | – | types and safety of `AccessTokens` |
| `AppSession` | the session of one app and the server's login, logout and middleware | `rows` is `user_api_tokens`; `apiToken`, `page`, `loading`, `grid` the app; `stored`, `disk` the secure storage and its queue; `awaits` the continuations of `_login` and `_clearSession`; `call` the HTTP requests. One action per callback. |
| `AppSessionProofs` | – | types and safety of `AppSession` |
| `WhepPlayer` | the live player | `stage`, `used` are the two `_start` that may be under way, `state` the peer connections, the rest the fields of the widget's state |
| `RecordingPlayer` | the player of clips | `selection`, `step`, `clip` are `_selectionId` and the futures begun, `controller`, `open` the video controllers |
| `CameraScreen` | extends both players by the screen that shows one or the other | `data`, `history`, `selected` are the screen's fields, `fresh` says whether the session's token is still good. `Build` is the next frame, which mounts, updates and disposes the players. |
| `CameraScreenProofs` | – | types and safety of `CameraScreen` and the players |
| `MC...` | – | instances for TLC |

The operators commented "Slip" are wrong variants of the definition that
follows them, each the way a plausible mistake would look. `PROJECT.json`
("mutants") says which property finds which slip; no specification uses them.

Abstractions shared by all: keys, files, places and trucks are values without
structure; times are ticks; a clock is cut at `MaxClock`, or replaced by an age
that is cut above the timeout it is compared with. What a module abstracts from
is in its header.

## The runs

| Run | Instance | Shows |
| --- | --- | --- |
| `RecordingCacheSafety` | 2 clips, 2 requests, 3 files, 3 downloads, lifetime 1, clock to 1, symmetric | `TypeOK`, `SingleFlight`, `CompleteClip`, `NoOrphanFiles` |
| `RecordingCacheLive` | 1 clip, 2 requests, 2 files, clock to 2 | `KeepsPromise` (refinement of `ClipService`), `FreshClipKept`, `RequestsAnswered`, `ExpiredClipsRemoved` |
| `RecordingCacheOpenRace` | as small | **violated**: `HitFindsItsFile` |
| `LocationStoreSafety` | 2 handlers, 3 places in a row, 3 fixes | `StoreTypeOK`, `StateIsNewest`, `StopHasOrigin`, `AcknowledgedIsStored` |
| `LocationStoreRace` | 2 handlers | **violated**: `StopIsUnbroken` |
| `LocationFeedSerial` | 1 handler, 1 screen, one load at a time, 2 places apart, 3 fixes, clock to 1 | `FeedTypeOK`, `StopIsUnbroken`, `NewestDelivered`, `RefreshIsCurrent`, `BroadcastsForward`, `BroadcastShown` |
| `LocationFeedReorder` | 2 handlers, 1 screen | **violated**: `BroadcastsForward` |
| `LocationFeedGap` | 1 handler, 1 screen | **violated**: `AnnouncedFixIsSeen` |
| `TruckStatusLive` | a truck on the road and a parked one with the same camera id, three status words, a datagram that may be read again | `StatusTypeOK`, `OnlineHasBeenSeen`, `ParkedStaysOffline`, `SilenceMeansOffline`, `CameraCarriesTruck` |
| `AccessTokensLive` | 2 trucks, 3 of the 4 possible cameras, 2 handlers, 2 answers, half-second ticks | `TokenTypeOK`, `GrantedIsAccepted`, `AcceptedWasGranted`, `PlaybackCovered`, `WithdrawnAccessEnds` |
| `AppSessionLive` | 2 tokens, 2 requests, three things under way | `AppTypeOK`, `QuietAgreement`, `BusyLoginWaits`, `LogoutEnds`, `LoginEnds`, `DeadTokenIsDropped` |
| `CameraScreenLive` | 3 connections, 2 clips, 2 selections | `ScreenTypeOK`, `NeverStuck`, `PictureIsLive`, `NoControllerLeft`, `LastSelectionPlays`, `PictureComesBack` |

Why the bounds are enough. Two requests and two clips reach every pair of
critical sections, a join, a request with an old clock and a clip that must not
be mixed up with another; a third download object is needed for one that is over
while two run. A lifetime of one tick lets an entry be fresh, due, late and
fetched again. A handler pair is the smallest race of `Create`; the places are
chosen so that "within the radius" is not transitive, which is what tells an
anchor from the last place. In `LocationFeedSerial` a moving truck posts from
one of the two places (`Roads`): what a moving fix does to a stop does not
depend on its place, and standing fixes come from both. The other runs let it
post from all. Two messages on the wire let one follow another. One load at a
time, repeated at will, overtakes broadcasts and cuts a connection; that several
at once change nothing is left to the proofs, which bound neither loads nor
screens. Both monitors, the listener and one datagram that may be read again
give every pair of writers of a row. A timeout of nought makes a report stale
after one tick. A second of two ticks has a fraction to lose; the clips last a
half second, the longest allowed, and longer; one truck lacks a camera the other
has. Of two requests of the app one can be of the old session and one of the
new, while the storage is still busy with a third thing. Two starts of the live
player can be under way, the second only because a connection of the first has
failed, and a third connection has been closed; two selections are one that
counts and one that comes late. The proofs lift the safety properties from these
bounds to all values of the constants.

Four properties fail in the code as it is and are recorded as findings with
the counterexample's run:

* `RecordingCacheOpenRace`: a hit returns a path, the timer removes the file,
  `os.Open` fails: a 502 for a clip that could be fetched again.
* `LocationStoreRace`: a handler reads the row, another stores a moving fix,
  the first saves the stop it continued from the old row.
* `LocationFeedReorder`: of two handlers the one with the older location
  broadcasts last, and the app shows it.
* `LocationFeedGap`: a fix is announced after the first load (or while the
  connection was lost) and before the subscription; nothing loads it again until
  the user presses the refresh button or another fix follows.

Other things the models exhibit that no document of the repository rules out:
the answer of a load is applied over broadcasts that arrived after the row was
read, so a refresh can take the screen back, to what it showed when the button
was pressed but not further (`RefreshIsCurrent`), and until the next broadcast;
a cached or partial file whose removal fails stays for good, because the error
is ignored; the playback server accepts a recording token for any span of its
camera, the span being checked by the API alone (production binds port 9996 to
the loopback interface, `compose.dev.yaml` line 19 publishes it);
the refresh of the status service overwrites the status a truck reports of
itself, so a truck that never reports cameras is shown offline; an answer to a
request of the previous session ends the new one, because the app does not tell
whose answer it is; late events of closed connections restart a good one; a
session that cannot be reloaded leaves an error page without a retry; a token
signed by a handler past its check outlives the withdrawal of the truck until
it expires.

## Fairness

* *RecordingCache*: a handler takes its next step (Go's mutex and `select` do
  not starve), a download ends because request and client have a five minute
  limit, a due timer fires. Not assumed: that requests come, clients wait or
  read, time advances, or the process restarts.
* *LocationFeed*: the `Stream` handler takes what is in its channel, the app's
  event loop reads what has arrived; writes are limited to five seconds, after
  which the connection ends. Nobody has to load, connect or stay connected.
* *TruckStatus*: time passes, a datagram does not travel for ever, each loop
  goes on. Strong fairness of MonitorOffline's statements: its ticker tries
  them again every five seconds, and a database that refuses one for ever, or a
  process that is restarted before it every time, would show nothing. Trucks
  need not be switched on, send or publish.

* *AccessTokens*: handlers run to their end and time passes; nobody has to ask
  for anything. The wait for the expiry is all that ends a token.
* *AppSession*: futures complete, the storage's after two seconds at most (the
  continuation may overtake the operation); every request is answered or fails.
  The last is an assumption about the network and not about the code: `ApiClient`
  sets no timeout, so a request that never ends keeps its login screen busy, and
  `LoginEnds` and `LogoutEnds` say nothing of it.
  Strong fairness of the grid's poll, whose timer fires every five seconds as
  long as the grid is open, and of an answer to it: not every poll is lost.
  Nobody has to log in or press anything, and the app may be killed at any time.
* *CameraScreen*: frames are built, futures complete or time out, timers fire,
  MediaMTX answers a post while it serves. The player's post and delete have no
  timeout either: one that never ends keeps the picture away, and
  `PictureComesBack` rests on its ending. Not assumed: that the user does
  anything, that an outage ends, that a session can be reloaded, or that closed
  connections fall silent; `PictureComesBack` names what it needs of these.

## What is assumed of things outside

PostgreSQL runs each statement atomically, the refresh excepted, which is two
steps. A token's HMAC is not forged, so a token is its payload. The storage
plugin runs its operations in the order they were called. A peer connection may
deliver one more event after it has been closed. Flutter builds a frame between
two taps of the user, and between the start and the end of a request.

## What is proved

All theorems are checked by TLAPS from the modules' named assumptions (null
values lie outside the sets they stand beside, bounds are natural numbers, a
place is near itself, "online" and "offline" are statuses).

* `RecordingCacheProofs`: `IInv` is inductive. Besides the types it says which
  download an `inflight` entry points to and in which phase (`InflightInv`),
  that a cached file is linked and whole (`CacheInv`), that files under way and
  cached belong to one owner (`FilesInv`, `OneWriter`), that no timer of a cached
  file is due before the file is (`TimersInv`), and what each stage of a request
  may rely on (`RequestsInv`). `SingleFlight` follows because a running
  download is always the one in `inflight`; `CompleteClip` because a name is
  not drawn again while something refers to it. `FreshClipKept` is an action
  property from the same invariant. `NoOrphanFiles` holds with every removal free to fail: a file whose
  removal failed joins `leftover`, so the theorem says that each path attempts
  one. Two theorems are what the liveness of the
  cache rests on in every instance: `WaiterIsHeard`, a waiting request's
  download has closed its channel or is the running one in `inflight`, and
  `EntryHasTimer`, a cached file's own timer is pending for its `expiresAt`.
  The second needs the invariant for the step that could break it: a timer that
  does nothing has found another path under its key, so it is not the entry's.
  No run lists the two, for the runs check the liveness itself.
* `ClipServiceRefinement`: each action maps to an action of `ClipService` or to
  a stutter under `IInv`; `KeepsPromiseHolds` combines them.
* `LocationStoreProofs`: `StateIsNewest`, `StopHasOrigin`,
  `AcknowledgedIsStored` for any number of handlers. `StoreInv` adds what a
  handler's previous row says: it was the row once, so it satisfies the stop's
  origin, and is not newer than the handler's own fix.
* `LocationFeedProofs`: every step of the feed is a step of the store or leaves
  the store alone (`FeedImplementsStore`), so the theorems above hold in the
  composition. `FeedInv` (types, `NewestDelivered`, and that a screen without a
  connection has nothing in a channel or on the wire, `NothingForTheGone`) is
  inductive for any number of handlers, screens and messages on the wire: a
  broadcast that finds the channel full replaces what is in it, and a message
  that is read was the last of its wire or leaves the last where it is.
  `RefreshIsCurrent` needs no serial handlers: `BehindInv` says that nothing a
  screen shows or will be told is newer than the row, which only moves forward.
  `UnbrokenWhenSerial` and `ForwardWhenSerial` prove `StopIsUnbroken` and
  `BroadcastsForward` under the hypothesis `OneHandler`, that posts of a truck are
  handled one at a time, for any places, radius, skew and number of screens.
  The hypothesis is necessary and the server does not enforce it: the runs
  `LocationStoreRace` and `LocationFeedReorder` violate both properties with
  two handlers. The theorems say that nothing but the overlap is to blame.
  `SerialInv` says that the row a handler read is the row it replaces and the
  row it read back is the one it announces; `OrderInv` that what a screen
  shows, its wire, its channel and the row are in the order of `recordedAt`.
* `TruckStatusProofs`: `OnlineHasBeenSeen` and `ParkedStaysOffline`.
  `StatusInv` adds that what the monitors have in hand concerns trucks on the
  road only.

* `AccessTokensProofs`: `TokenTypeOK`, `GrantedIsAccepted`,
  `AcceptedWasGranted` and `PlaybackCovered` for every length of a second, of
  the live token, of the buffer and of clips. `TokenInv` says of each answer
  what was true when it was sent and what time preserves: its payload is what
  was asked for, its camera has a row, and its own expiry is less than a second
  before the one told (`WholeSecondsBounds`), which for a clip is no earlier
  than its duration and the buffer after the sending (`ExpiryCovers`). The
  invariant is needed because the properties speak of answers whose request is
  long over.

* `AppSessionProofs`: `AppTypeOK`, `QuietAgreement` and `BusyLoginWaits` for any
  number of tokens, requests and things under way. `AppInv` says what holds
  while the queues are not empty: the continuation that runs last shows the
  page of the token in memory (`PageInv`), the operation the storage carries
  out last leaves that token (`DiskInv`), nothing is under way before the
  session has been restored (`StartInv`), and a login that succeeded brings a
  token (`LoginInv`). It is kept because each of a login, a 401 and a logout
  sets the token, the storage operation and the page in one callback, up to its
  await, so the last one decides all three. `BusyInv` adds that the request a
  busy login screen waits for is the only one of a mounted login screen;
  without it the failure of another login could end the wait.

* `CameraScreenProofs`: `ScreenTypeOK`, `NeverStuck`, `PictureIsLive`,
  `NoControllerLeft` and `LastSelectionPlays` for any number of connections,
  clips and selections. `WhepInv` says where the two starts of the live player
  are: the first is past its first await before anything can fail, a running
  restart is exactly a second start and leaves no timer, a posting start's
  connection is untouched (`StartsInv`), every connection but the one in use is
  closed (`PeerInv`), and a player off the screen has left nothing
  (`NothingLeft`). Without these `NeverStuck` is not inductive: a start that
  ends well leaves something to wait for only if its connection is still the
  one in use. `ClipInv` says that the one controller belongs to the selection
  that counts, whose clip is the one shown.

Model-checked only: the liveness properties (`RequestsAnswered`,
`ExpiredClipsRemoved`, `BroadcastShown`, `SilenceMeansOffline`,
`CameraCarriesTruck`, `WithdrawnAccessEnds`, `LogoutEnds`, `LoginEnds`,
`DeadTokenIsDropped`, `PictureComesBack`), which rest on fairness and so on
ENABLED, out of the prover's reach. Every invariant and every action property
that a passing run checks is proved, `StopIsUnbroken` and `BroadcastsForward`
under `OneHandler`.

## Not modelled, and why

`PROJECT.json` lists every part. Routing, CORS, answer formats and static
assets keep no state. Lists of trucks, of cameras without tokens and of
recordings are single reads; the token the server gives itself for a list of
recordings is never handed out. Forms, maps and layout of the app, deployment
and test scripts are no part of the running protocols.

Within the modelled parts: a download shared by two requests carries the first
one's token, which is not composed with the tokens (`RecordingCache` lets any
download fail); a location stream that outlives its API token is as the handler
has it; the live player's `_start` that goes on after `dispose` may leave a
connection behind, whose resources are not in the model; positions and seeking
of clips; the remembered email; paging of MediaMTX's answer; microseconds of
`recorded_at`. The rotation of recording segments is a patch to MediaMTX, whose
muxer is not in the repository.

## Plan

Done: `RecordingCache` with `ClipService`, proofs and refinement;
`LocationStore` and `LocationFeed` with proofs; `TruckStatus`, `AccessTokens`
and `AppSession` with proofs; the players with `CameraScreen` and its proofs.

Left, in this order:

1. Action properties beside the invariants, from the same inductive
   invariants: what a step of the status service may do to a row, what may end
   a session.
2. Tokens composed with a shared download, for the request that fails on
   another one's token.
3. `RecordingSegments`: rotation at key frames, as functions checked against a
   reference over bounded times.
