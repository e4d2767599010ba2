---------------------------- MODULE AccessTokens ----------------------------
(***************************************************************************)
(* The signed tokens that open live streams and recorded clips: who is     *)
(* handed one (AuthService.Middleware, requireTruckAccess and the handlers *)
(* StreamController.Play, CameraController.ListByTruck and                 *)
(* RecordingController.Play), what a token says (StreamService), and what  *)
(* it opens: RecordingController.Content, and MediaMTX, which asks         *)
(* MediaMTXController.Auth about every reader.                             *)
(*                                                                         *)
(* Abstractions.  Nobody makes a token without the signing key, so a       *)
(* token is its payload.  The payload is the sequence of its fields but    *)
(* the last, the expiry: times are relative here, in ticks, `Second` of    *)
(* them to a second, and `left` is what remains until the expiry.  Clips   *)
(* start and end on ticks, so the nanoseconds that are signed for them are *)
(* exact; dates outside the range of UnixNano and durations that round to  *)
(* no nanosecond are left out.  The rows of cameras do not change: the     *)
(* server has no statement that adds or removes one.                       *)
(***************************************************************************)
EXTENDS Integers, FiniteSets, Sequences

CONSTANTS Users, Trucks, CameraIds,
          Cameras,     \* the rows of cameras: pairs of a truck and a camera id
          Requests,    \* the handlers that may be running at once
          Second,      \* ticks in a second, the unit a token's expiry is cut to
          StreamLife,  \* the 5 minutes of a live token
          Buffer,      \* recordingPlaybackBuffer
          Day,         \* the longest clip, 24 hours
          Starts,      \* the starts of clips that may be asked for
          Durations,   \* the durations that may be asked for
          MaxAnswers   \* bound: the answers the clients keep or wait for

ASSUME CamerasAssumption == Cameras \subseteq Trucks \X CameraIds
ASSUME TimesAssumption == /\ Second \in Nat \ {0}
                          /\ StreamLife \in Nat /\ Buffer \in Nat /\ Day \in Nat
                          /\ Starts \subseteq Int /\ Durations \subseteq Int

VARIABLES assigned,  \* user_trucks: the trucks each user may see
          signedIn,  \* the users whose API token is in user_api_tokens and valid
          phase,     \* the ticks since the clock's last whole second
          request,   \* request[r]: what handler r serves and how far it has come
          answers    \* the tokens handed out, each with the answer that carried it

vars == <<assigned, signedIn, phase, request, answers>>

Idle == [pc |-> "idle"]
Calls == [pc : {"authenticated", "authorized"}, kind : {"main", "sub", "recording"},
          user : Users, truck : Trucks, cameras : SUBSET CameraIds,
          start : Int, duration : Int]

Init == /\ assigned \in [Users -> SUBSET Trucks]
        /\ signedIn = {}
        /\ phase = 0
        /\ request = [r \in Requests |-> Idle]
        /\ answers = {}

---------------------------------------------------------------------------
(* What a token says, and when it stops being accepted. *)

\* Slip: the quality is left out.
ShortSignAccess(t, c, quality) == <<t, c>>

\* Slip: every live token is signed for the main stream.
MainSignAccess(t, c, quality) == <<t, c, "main">>

SignAccess(t, c, quality) == <<t, c, quality>>

SignRecordingAccess(t, c, start, duration) == <<"recording", t, c, start, duration>>

\* expires.Unix() drops the fraction of a second of now + ahead.
WholeSeconds(ahead) == ahead - ((phase + ahead) % Second)

\* Slip: the duration is rounded down.
FloorRecordingAccessExpiry(duration) == (duration \div Second) * Second + Buffer

\* math.Ceil(duration) seconds and the buffer.
RecordingAccessExpiry(duration) ==
  ((duration + Second - 1) \div Second) * Second + Buffer

\* Slip: the last moment of the old second is still good.
LateValidateAccess(a) == /\ Len(a.payload) = 3
                         /\ a.left >= 0

ValidateAccess(a) == /\ Len(a.payload) = 3
                     /\ a.left > 0

ValidateRecordingAccess(a) == /\ Len(a.payload) = 5
                              /\ a.payload[1] = "recording"
                              /\ a.left > 0

\* RecordingTokenClaims.Allows: the clip asked for lies within the clip signed.
Allows(a, t, c, start, duration) ==
  /\ a.payload[2] = t /\ a.payload[3] = c
  /\ a.payload[5] > 0 /\ duration > 0
  /\ start >= a.payload[4]
  /\ start + duration <= a.payload[4] + a.payload[5]

---------------------------------------------------------------------------
(* What a token opens. *)

\* MediaMTXController.Auth for a WHEP reader.
ReadAllowed(a, t, c, quality) == /\ ValidateAccess(a)
                                 /\ a.payload = <<t, c, quality>>

\* ... and for the playback server, which Content asks for the clip.  The truck
\* and the camera are looked at, the span that was signed is not.
PlaybackAllowed(a, t, c, quality) == /\ ValidateRecordingAccess(a)
                                     /\ a.payload[2] = t /\ a.payload[3] = c
                                     /\ quality = "main"

ContentAllowed(a, t, c, start, duration) ==
  /\ ValidateRecordingAccess(a)
  /\ duration > 0 /\ duration <= Day
  /\ Allows(a, t, c, start, duration)

---------------------------------------------------------------------------
(* The handlers. *)

\* The middleware finds the API token of a user; without it the answer is 401.
\* A list asks for all cameras of a truck, the other calls for one.
Middleware(r) ==
  /\ request[r] = Idle
  /\ Cardinality(answers) + Cardinality({q \in Requests : request[q] # Idle}) < MaxAnswers
  /\ \E u \in signedIn, t \in Trucks, cs \in {CameraIds} \cup {{c} : c \in CameraIds},
        kind \in {"main", "sub", "recording"},
        s \in Starts \cup {0}, d \in Durations \cup {0} :
       /\ kind = "sub" <=> cs = CameraIds
       /\ kind # "recording" => s = 0 /\ d = 0
       /\ kind = "recording" => s \in Starts /\ d \in Durations
       /\ request' = [request EXCEPT ![r] =
            [pc |-> "authenticated", kind |-> kind, user |-> u, truck |-> t,
             cameras |-> cs, start |-> s, duration |-> d]]
  /\ UNCHANGED <<assigned, signedIn, phase, answers>>

\* Slip: the truck's rows are not consulted.
TrustingTruckAccess(r) ==
  /\ request[r].pc = "authenticated"
  /\ request' = [request EXCEPT ![r].pc = "authorized"]
  /\ UNCHANGED <<assigned, signedIn, phase, answers>>

\* UserCanAccessTruck, 403 when the user has no row for the truck.
RequireTruckAccess(r) ==
  /\ request[r].pc = "authenticated"
  /\ request' = [request EXCEPT ![r] =
       IF request[r].truck \in assigned[request[r].user]
       THEN [request[r] EXCEPT !.pc = "authorized"] ELSE Idle]
  /\ UNCHANGED <<assigned, signedIn, phase, answers>>

\* The cameras asked for that have a row; none is 404, or an empty list.
ExistingCameras(r) == {c \in request[r].cameras : <<request[r].truck, c>> \in Cameras}

\* Handler r answers with a token for each camera.
Hand(r, payload, told, ahead) ==
  /\ answers' = answers \cup
       {[kind |-> request[r].kind, user |-> request[r].user, truck |-> request[r].truck,
         camera |-> c, start |-> request[r].start, duration |-> request[r].duration,
         payload |-> payload[c], told |-> told, left |-> WholeSeconds(ahead), age |-> 0] :
        c \in ExistingCameras(r)}
  /\ request' = [request EXCEPT ![r] = Idle]
  /\ UNCHANGED <<assigned, signedIn, phase>>

\* StreamController.Play tells the expiry with its fraction of a second.
PlayStream(r) ==
  /\ request[r].pc = "authorized" /\ request[r].kind = "main"
  /\ Hand(r, [c \in CameraIds |-> SignAccess(request[r].truck, c, "main")],
             StreamLife, StreamLife)

\* CameraController.ListByTruck tells it in whole seconds (RFC 3339).
ListByTruck(r) ==
  /\ request[r].pc = "authorized" /\ request[r].kind = "sub"
  /\ Hand(r, [c \in CameraIds |-> SignAccess(request[r].truck, c, "sub")],
             WholeSeconds(StreamLife), StreamLife)

PlayRecording(r) ==
  LET d == request[r].duration IN
  /\ request[r].pc = "authorized" /\ request[r].kind = "recording"
  /\ IF d > 0 /\ d <= Day
     THEN Hand(r, [c \in CameraIds |->
                       SignRecordingAccess(request[r].truck, c, request[r].start, d)],
                  RecordingAccessExpiry(d), RecordingAccessExpiry(d))
     ELSE /\ request' = [request EXCEPT ![r] = Idle]
          /\ UNCHANGED <<assigned, signedIn, phase, answers>>

\* A statement fails: 500 or 503, whichever handler it is.
QueryFails(r) ==
  /\ request[r] # Idle
  /\ request' = [request EXCEPT ![r] = Idle]
  /\ UNCHANGED <<assigned, signedIn, phase, answers>>

---------------------------------------------------------------------------
(* The rest of the world: rows of user_trucks, sessions, the clock, clients. *)

Assign(u, t) == /\ assigned' = [assigned EXCEPT ![u] = @ \cup {t}]
                /\ UNCHANGED <<signedIn, phase, request, answers>>
Withdraw(u, t) == /\ assigned' = [assigned EXCEPT ![u] = @ \ {t}]
                  /\ UNCHANGED <<signedIn, phase, request, answers>>
SignIn(u) == /\ signedIn' = signedIn \cup {u}
             /\ UNCHANGED <<assigned, phase, request, answers>>
SignOut(u) == /\ signedIn' = signedIn \ {u}
              /\ UNCHANGED <<assigned, phase, request, answers>>

\* A tick: what an answer told and what its token has left run out together.
Older(a) == [a EXCEPT !.told = IF a.told > 0 THEN @ - 1 ELSE @,
                      !.left = IF a.left > 0 THEN @ - 1 ELSE @,
                      !.age = IF a.told > 0 THEN @ + 1 ELSE @]
Tick == /\ phase' = (phase + 1) % Second
        /\ answers' = {Older(a) : a \in answers}
        /\ UNCHANGED <<assigned, signedIn, request>>

\* A client throws an answer away that has run out.
Forget(a) == /\ a.told <= 0
             /\ answers' = answers \ {a}
             /\ UNCHANGED <<assigned, signedIn, phase, request>>

Handler(r) == \/ RequireTruckAccess(r)
              \/ PlayStream(r) \/ ListByTruck(r) \/ PlayRecording(r)
              \/ QueryFails(r)
Next == \/ \E r \in Requests : Middleware(r) \/ Handler(r)
        \/ \E u \in Users : SignIn(u) \/ SignOut(u)
        \/ \E u \in Users, t \in Trucks : Assign(u, t) \/ Withdraw(u, t)
        \/ \E a \in answers : Forget(a)
        \/ Tick

Spec == Init /\ [][Next]_vars

\* net/http runs every handler to its end, and time passes.
FairSpec == Spec /\ WF_vars(Tick) /\ \A r \in Requests : WF_vars(Handler(r))

---------------------------------------------------------------------------
(* Properties. *)

Payloads == (Trucks \X CameraIds \X {"main", "sub"})
              \cup ({"recording"} \X Trucks \X CameraIds \X Int \X Int)
Answers == [kind : {"main", "sub", "recording"}, user : Users, truck : Trucks,
            camera : CameraIds, start : Int, duration : Int,
            payload : Payloads, told : Int, left : Int, age : Nat]

\* The types of the tables, of the handlers' variables and of the answers.
TokenTypeOK == /\ assigned \in [Users -> SUBSET Trucks]
               /\ signedIn \subseteq Users
               /\ phase \in 0 .. Second - 1
               /\ request \in [Requests -> Calls \cup {Idle}]
               /\ answers \subseteq Answers

\* As long as the expiry an answer told is a second away, its token opens what
\* the answer was about, although the token's own expiry has lost the fraction
\* of a second: the stream of the URL, or the clip, from the API and, for the
\* download behind it, from the playback server.
GrantedIsAccepted ==
  \A a \in answers : a.told >= Second =>
    IF a.kind = "recording"
    THEN /\ ContentAllowed(a, a.truck, a.camera, a.start, a.duration)
         /\ PlaybackAllowed(a, a.truck, a.camera, "main")
    ELSE ReadAllowed(a, a.truck, a.camera, a.kind)

\* What a token opens is what its answer was about, and not after the expiry
\* told.  A live token opens one stream of one registered camera.  A recording
\* token opens, at the API, one clip and its parts; at the playback server it
\* opens recordings of one registered camera, of whatever span, because
\* MediaMTXController.Auth compares truck, camera and quality only
\* (mediamtx_controller.go 64-69).  Live tokens open no recording, recording
\* tokens no live stream.
AcceptedWasGranted ==
  \A a \in answers, t \in Trucks, c \in CameraIds, q \in {"main", "sub"} :
    /\ ReadAllowed(a, t, c, q) =>
         /\ <<t, c, q>> = <<a.truck, a.camera, a.kind>>
         /\ <<t, c>> \in Cameras /\ a.told > 0
    /\ PlaybackAllowed(a, t, c, q) =>
         /\ <<t, c, "recording">> = <<a.truck, a.camera, a.kind>>
         /\ <<t, c>> \in Cameras /\ a.told > 0
    /\ \A s \in Starts, d \in Durations : ContentAllowed(a, t, c, s, d) =>
         /\ <<t, c, "recording">> = <<a.truck, a.camera, a.kind>>
         /\ s >= a.start /\ s + d <= a.start + a.duration
         /\ <<t, c>> \in Cameras /\ a.told > 0

\* Whoever starts a clip while the playback buffer has a second to go sees its
\* end: what the token has left is more than the clip lasts, because
\* RecordingAccessExpiry rounds the duration up.
PlaybackCovered ==
  \A a \in answers :
    a.kind = "recording" /\ a.age + Second <= Buffer => a.left > a.duration

\* A token does not name its user and cannot be recalled.  Still, when a truck
\* is withdrawn from a user for good, or the user stays signed out, the tokens
\* the user was handed for the truck stop opening anything, those included that
\* were signed after the withdrawal by a handler past its check.
WithdrawnAccessEnds ==
  \A u \in Users, t \in Trucks :
    <>[](t \notin assigned[u]) \/ <>[](u \notin signedIn) =>
      <>[](\A a \in answers : a.user = u /\ a.truck = t =>
             ~ValidateAccess(a) /\ ~ValidateRecordingAccess(a))
=============================================================================
