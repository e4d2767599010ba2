------------------------- MODULE AccessTokensProofs -------------------------
(***************************************************************************)
(* What the tokens of AccessTokens open, for every length of a second, a   *)
(* live token, the playback buffer and the clips, any tables and any       *)
(* number of handlers: all an answer promised; of live streams and of the  *)
(* clips of the API nothing else, of the playback server no other camera.  *)
(***************************************************************************)
EXTENDS AccessTokens, TLAPS

\* What holds of an answer from the moment it is sent: the token is signed for
\* what was asked and for a camera with a row, and its life is the one told
\* but for a fraction of a second.
Issued(a) ==
  /\ <<a.truck, a.camera>> \in Cameras
  /\ a.kind = "recording" =>
       /\ a.payload = <<"recording", a.truck, a.camera, a.start, a.duration>>
       /\ a.duration > 0 /\ a.duration <= Day
       /\ a.told + a.age >= a.duration + Buffer
  /\ a.kind # "recording" => a.payload = <<a.truck, a.camera, a.kind>>
  /\ a.left <= a.told /\ a.told < a.left + Second

\* The inductive invariant.
TokenInv == TokenTypeOK /\ \A a \in answers : Issued(a)

\* Cutting an expiry to whole seconds takes less than a second off.
LEMMA WholeSecondsBounds ==
  ASSUME phase \in Int, NEW ahead \in Int
  PROVE  /\ WholeSeconds(ahead) \in Int
         /\ WholeSeconds(ahead) <= ahead
         /\ ahead < WholeSeconds(ahead) + Second
<1> DEFINE x == (phase + ahead) % Second
<1>1. x \in Int /\ 0 <= x /\ x < Second
  BY TimesAssumption
<1>2. WholeSeconds(ahead) = ahead - x
  BY DEF WholeSeconds
<1> HIDE DEF x
<1> QED
  BY <1>1, <1>2, TimesAssumption

\* The expiry of a recording token covers the clip and the buffer.
LEMMA ExpiryCovers ==
  ASSUME NEW d \in Int
  PROVE  /\ RecordingAccessExpiry(d) \in Int
         /\ RecordingAccessExpiry(d) >= d + Buffer
<1> DEFINE n == d + Second - 1
           q == n \div Second
<1>1. n \in Int
  BY TimesAssumption
<1>2. /\ q \in Int /\ n = q * Second + (n % Second)
      /\ 0 <= n % Second /\ n % Second < Second
  BY <1>1, TimesAssumption
<1>3. q * Second \in Int
  BY <1>2, TimesAssumption
<1>4. q * Second >= d
  BY <1>2, <1>3, TimesAssumption
<1>5. RecordingAccessExpiry(d) = q * Second + Buffer
  BY DEF RecordingAccessExpiry
<1> QED
  BY <1>3, <1>4, <1>5, TimesAssumption

\* A handler that is past both checks answers with tokens as they should be.
LEMMA HandKeeps ==
  ASSUME TokenInv, NEW r \in Requests, request[r].pc = "authorized",
         NEW payload, NEW told \in Int, NEW ahead \in Int,
         Hand(r, payload, told, ahead),
         \A c \in CameraIds :
           /\ payload[c] \in Payloads
           /\ request[r].kind = "recording" =>
                /\ payload[c] = <<"recording", request[r].truck, c,
                                  request[r].start, request[r].duration>>
                /\ request[r].duration > 0 /\ request[r].duration <= Day
                /\ told >= request[r].duration + Buffer
           /\ request[r].kind # "recording" =>
                payload[c] = <<request[r].truck, c, request[r].kind>>,
         WholeSeconds(ahead) \in Int,
         WholeSeconds(ahead) <= told, told < WholeSeconds(ahead) + Second
  PROVE  TokenInv'
<1>1. request[r] \in Calls
  BY DEF TokenInv, TokenTypeOK, Idle, Calls
<1> DEFINE New(c) ==
      [kind |-> request[r].kind, user |-> request[r].user, truck |-> request[r].truck,
       camera |-> c, start |-> request[r].start, duration |-> request[r].duration,
       payload |-> payload[c], told |-> told, left |-> WholeSeconds(ahead), age |-> 0]
<1>2. answers' = answers \cup {New(c) : c \in ExistingCameras(r)}
  BY DEF Hand
<1>3. ASSUME NEW c \in ExistingCameras(r)
      PROVE  New(c) \in Answers /\ Issued(New(c))
  <2>1. c \in CameraIds /\ <<request[r].truck, c>> \in Cameras
    BY <1>1 DEF ExistingCameras, Calls
  <2>2. New(c) \in Answers
    BY <1>1, <2>1 DEF Answers, Calls
  <2>3. Issued(New(c))
    BY <1>1, <2>1, TimesAssumption DEF Issued, Calls
  <2> QED
    BY <2>2, <2>3
<1> HIDE DEF New
<1>4. \A a \in answers' : Issued(a)
  BY <1>2, <1>3 DEF TokenInv
<1>5. answers' \subseteq Answers
  BY <1>2, <1>3 DEF TokenInv, TokenTypeOK
<1>6. TokenTypeOK'
  BY <1>5 DEF TokenInv, TokenTypeOK, Hand
<1>7. \A a : Issued(a)' <=> Issued(a)
  BY DEF Issued
<1> QED
  BY <1>4, <1>6, <1>7 DEF TokenInv

\* A tick takes as much from what an answer told as from what its token has.
LEMMA OlderKeeps ==
  ASSUME NEW a \in Answers, Issued(a)
  PROVE  Older(a) \in Answers /\ Issued(Older(a))
<1> DEFINE told == IF a.told > 0 THEN a.told - 1 ELSE a.told
           left == IF a.left > 0 THEN a.left - 1 ELSE a.left
           age == IF a.told > 0 THEN a.age + 1 ELSE a.age
<1>1. Older(a) = [a EXCEPT !.told = told, !.left = left, !.age = age]
  BY DEF Older
<1>2. a.told \in Int /\ a.left \in Int /\ a.age \in Nat /\ a.duration \in Int
  BY DEF Answers
<1>3. /\ told \in Int /\ left \in Int /\ age \in Nat
      /\ told + age = a.told + a.age
      /\ left <= told /\ told < left + Second
  BY <1>2, TimesAssumption DEF Issued
<1> HIDE DEF told, left, age
<1>4. Older(a) \in Answers
  BY <1>1, <1>3 DEF Answers
<1>5. /\ Older(a).told = told /\ Older(a).left = left /\ Older(a).age = age
      /\ Older(a).kind = a.kind /\ Older(a).truck = a.truck /\ Older(a).camera = a.camera
      /\ Older(a).start = a.start /\ Older(a).duration = a.duration
      /\ Older(a).payload = a.payload
  BY <1>1 DEF Answers
<1>6. Issued(Older(a))
  BY <1>2, <1>3, <1>5, TimesAssumption DEF Issued
<1> QED
  BY <1>4, <1>6

\* No answer has been sent in the beginning, and every step keeps the invariant.
LEMMA InitTokenInv == Init => TokenInv
BY TimesAssumption DEF Init, TokenInv, TokenTypeOK, Idle, Calls

LEMMA HandlersKeep ==
  ASSUME TokenInv, NEW r \in Requests, Handler(r)
  PROVE  TokenInv'
<1>1. ASSUME request[r].pc = "authorized"
      PROVE  /\ request[r] \in Calls /\ request[r].truck \in Trucks
             /\ request[r].start \in Int /\ request[r].duration \in Int
  BY <1>1 DEF TokenInv, TokenTypeOK, Idle, Calls
<1>2. phase \in Int /\ StreamLife \in Int
  BY TimesAssumption DEF TokenInv, TokenTypeOK
<1>3. /\ WholeSeconds(StreamLife) \in Int
      /\ WholeSeconds(StreamLife) <= StreamLife
      /\ StreamLife < WholeSeconds(StreamLife) + Second
  BY <1>2, WholeSecondsBounds
<1>4. Second \in Nat /\ Second > 0 /\ StreamLife \in Int
  BY TimesAssumption
<1>5. CASE RequireTruckAccess(r)
  <2>1. request' \in [Requests -> Calls \cup {Idle}]
    BY <1>5 DEF TokenInv, TokenTypeOK, RequireTruckAccess, Calls, Idle
  <2> QED
    BY <1>5, <2>1 DEF TokenInv, TokenTypeOK, RequireTruckAccess, Issued
<1>6. CASE PlayStream(r)
  <2> DEFINE payload == [c \in CameraIds |-> SignAccess(request[r].truck, c, "main")]
  <2>1. /\ request[r].pc = "authorized" /\ request[r].kind = "main"
        /\ Hand(r, payload, StreamLife, StreamLife)
    BY <1>6 DEF PlayStream
  <2>2. \A c \in CameraIds : /\ payload[c] = <<request[r].truck, c, request[r].kind>>
                             /\ payload[c] \in Payloads
    BY <1>1, <2>1 DEF SignAccess, Payloads
  <2> HIDE DEF payload
  <2> QED
    BY <1>3, <1>4, <2>1, <2>2, HandKeeps
<1>7. CASE ListByTruck(r)
  <2> DEFINE payload == [c \in CameraIds |-> SignAccess(request[r].truck, c, "sub")]
  <2>1. /\ request[r].pc = "authorized" /\ request[r].kind = "sub"
        /\ Hand(r, payload, WholeSeconds(StreamLife), StreamLife)
    BY <1>7 DEF ListByTruck
  <2>2. \A c \in CameraIds : /\ payload[c] = <<request[r].truck, c, request[r].kind>>
                             /\ payload[c] \in Payloads
    BY <1>1, <2>1 DEF SignAccess, Payloads
  <2>3. WholeSeconds(StreamLife) < WholeSeconds(StreamLife) + Second
    BY <1>3, <1>4
  <2> HIDE DEF payload
  <2> QED
    BY <1>3, <1>4, <2>1, <2>2, <2>3, HandKeeps
<1>8. CASE PlayRecording(r)
  <2> DEFINE d == request[r].duration
             expiry == RecordingAccessExpiry(d)
             payload == [c \in CameraIds |->
                           SignRecordingAccess(request[r].truck, c, request[r].start, d)]
  <2>1. request[r].pc = "authorized" /\ request[r].kind = "recording"
    BY <1>8 DEF PlayRecording
  <2>2. CASE d > 0 /\ d <= Day
    <3>1. Hand(r, payload, expiry, expiry)
      BY <1>8, <2>2 DEF PlayRecording
    <3>2. expiry \in Int /\ expiry >= d + Buffer
      BY <1>1, <2>1, ExpiryCovers
    <3>3. /\ WholeSeconds(expiry) \in Int
          /\ WholeSeconds(expiry) <= expiry /\ expiry < WholeSeconds(expiry) + Second
      BY <1>2, <3>2, WholeSecondsBounds
    <3>4. \A c \in CameraIds :
            /\ payload[c] = <<"recording", request[r].truck, c, request[r].start,
                              request[r].duration>>
            /\ payload[c] \in Payloads
      BY <1>1, <2>1 DEF SignRecordingAccess, Payloads
    <3> HIDE DEF payload, expiry
    <3> QED
      BY <2>1, <2>2, <3>1, <3>2, <3>3, <3>4, HandKeeps
  <2>3. CASE ~(d > 0 /\ d <= Day)
    <3>1. request' = [request EXCEPT ![r] = Idle] /\ UNCHANGED <<assigned, signedIn, phase, answers>>
      BY <1>8, <2>3 DEF PlayRecording
    <3> QED
      BY <3>1 DEF TokenInv, TokenTypeOK, Issued
  <2> QED
    BY <2>2, <2>3
<1>9. CASE QueryFails(r)
  BY <1>9 DEF TokenInv, TokenTypeOK, QueryFails, Issued
<1> QED
  BY <1>5, <1>6, <1>7, <1>8, <1>9 DEF Handler

LEMMA TokenInvStep == TokenInv /\ [Next]_vars => TokenInv'
<1> SUFFICES ASSUME TokenInv, [Next]_vars
             PROVE  TokenInv'
  OBVIOUS
<1>1. ASSUME NEW r \in Requests, Middleware(r)
      PROVE  TokenInv'
  <2>1. request' \in [Requests -> Calls \cup {Idle}]
    BY <1>1, TimesAssumption DEF Middleware, TokenInv, TokenTypeOK, Calls
  <2> QED
    BY <1>1, <2>1 DEF Middleware, TokenInv, TokenTypeOK, Issued
<1>2. ASSUME NEW r \in Requests, Handler(r)
      PROVE  TokenInv'
  BY <1>2, HandlersKeep
<1>3. ASSUME NEW u \in Users, SignIn(u) \/ SignOut(u)
      PROVE  TokenInv'
  BY <1>3 DEF SignIn, SignOut, TokenInv, TokenTypeOK, Issued
<1>4. ASSUME NEW u \in Users, NEW t \in Trucks, Assign(u, t) \/ Withdraw(u, t)
      PROVE  TokenInv'
  BY <1>4 DEF Assign, Withdraw, TokenInv, TokenTypeOK, Issued
<1>5. ASSUME NEW a \in answers, Forget(a)
      PROVE  TokenInv'
  BY <1>5 DEF Forget, TokenInv, TokenTypeOK, Issued
<1>6. CASE Tick
  <2>1. phase' \in 0 .. Second - 1
    BY <1>6, TimesAssumption DEF Tick, TokenInv, TokenTypeOK
  <2>2. \A a \in answers : Older(a) \in Answers /\ Issued(Older(a))
    BY OlderKeeps DEF TokenInv, TokenTypeOK
  <2>3. answers' \subseteq Answers /\ \A a \in answers' : Issued(a)
    BY <1>6, <2>2 DEF Tick
  <2>4. TokenTypeOK'
    BY <1>6, <2>1, <2>3 DEF Tick, TokenInv, TokenTypeOK
  <2> QED
    BY <2>3, <2>4 DEF TokenInv, Issued
<1>7. CASE UNCHANGED vars
  BY <1>7 DEF vars, TokenInv, TokenTypeOK, Issued
<1> QED
  BY <1>1, <1>2, <1>3, <1>4, <1>5, <1>6, <1>7 DEF Next

LEMMA TokenInvAlways == Spec => []TokenInv
BY InitTokenInv, TokenInvStep, PTL DEF Spec

\* Type correctness.
THEOREM TokensTyped == Spec => []TokenTypeOK
<1>1. TokenInv => TokenTypeOK
  BY DEF TokenInv
<1> QED
  BY <1>1, TokenInvAlways, PTL

\* As long as the expiry told is a second away, the token opens what was asked.
THEOREM GrantedTokensAccepted == Spec => []GrantedIsAccepted
<1>1. TokenInv => GrantedIsAccepted
  <2> SUFFICES ASSUME TokenInv, NEW a \in answers, a.told >= Second
               PROVE  IF a.kind = "recording"
                      THEN /\ ContentAllowed(a, a.truck, a.camera, a.start, a.duration)
                           /\ PlaybackAllowed(a, a.truck, a.camera, "main")
                      ELSE ReadAllowed(a, a.truck, a.camera, a.kind)
    BY DEF GrantedIsAccepted
  <2>1. a \in Answers /\ Issued(a)
    BY DEF TokenInv, TokenTypeOK
  <2>2. a.told \in Int /\ a.left \in Int /\ a.start \in Int /\ a.duration \in Int
    BY <2>1 DEF Answers
  <2>3. a.left > 0
    BY <2>1, <2>2, TimesAssumption DEF Issued
  <2>4. CASE a.kind = "recording"
    <3>1. a.payload = <<"recording", a.truck, a.camera, a.start, a.duration>>
      BY <2>1, <2>4 DEF Issued
    <3>2. /\ Len(a.payload) = 5 /\ a.payload[1] = "recording"
          /\ a.payload[2] = a.truck /\ a.payload[3] = a.camera
          /\ a.payload[4] = a.start /\ a.payload[5] = a.duration
      BY <3>1
    <3>3. a.duration > 0 /\ a.duration <= Day
      BY <2>1, <2>4 DEF Issued
    <3> QED
      BY <2>2, <2>3, <2>4, <3>2, <3>3
         DEF ContentAllowed, PlaybackAllowed, ValidateRecordingAccess, Allows
  <2>5. CASE a.kind # "recording"
    <3>1. a.payload = <<a.truck, a.camera, a.kind>> /\ Len(a.payload) = 3
      BY <2>1, <2>5 DEF Issued
    <3> QED
      BY <2>3, <2>5, <3>1 DEF ReadAllowed, ValidateAccess
  <2> QED
    BY <2>4, <2>5
<1> QED
  BY <1>1, TokenInvAlways, PTL

\* A live token opens the one stream of its answer, a recording token parts of
\* the one clip at the API and recordings of the one camera at the playback
\* server; neither opens anything after the expiry told, nor what the other does.
THEOREM AcceptedTokensGranted == Spec => []AcceptedWasGranted
<1>1. TokenInv => AcceptedWasGranted
  <2> SUFFICES ASSUME TokenInv, NEW a \in answers, NEW t \in Trucks,
                      NEW c \in CameraIds, NEW q \in {"main", "sub"}
               PROVE  /\ ReadAllowed(a, t, c, q) =>
                           /\ <<t, c, q>> = <<a.truck, a.camera, a.kind>>
                           /\ <<t, c>> \in Cameras /\ a.told > 0
                      /\ PlaybackAllowed(a, t, c, q) =>
                           /\ <<t, c, "recording">> = <<a.truck, a.camera, a.kind>>
                           /\ <<t, c>> \in Cameras /\ a.told > 0
                      /\ \A s \in Starts, d \in Durations : ContentAllowed(a, t, c, s, d) =>
                           /\ <<t, c, "recording">> = <<a.truck, a.camera, a.kind>>
                           /\ s >= a.start /\ s + d <= a.start + a.duration
                           /\ <<t, c>> \in Cameras /\ a.told > 0
    BY DEF AcceptedWasGranted
  <2>1. a \in Answers /\ Issued(a)
    BY DEF TokenInv, TokenTypeOK
  <2>2. a.told \in Int /\ a.left \in Int /\ <<a.truck, a.camera>> \in Cameras
    BY <2>1 DEF Answers, Issued
  <2>3. a.left > 0 => a.told > 0
    BY <2>1, <2>2 DEF Issued
  <2>4. CASE a.kind = "recording"
    <3>1. a.payload = <<"recording", a.truck, a.camera, a.start, a.duration>>
      BY <2>1, <2>4 DEF Issued
    <3>2. /\ Len(a.payload) = 5
          /\ a.payload[2] = a.truck /\ a.payload[3] = a.camera
          /\ a.payload[4] = a.start /\ a.payload[5] = a.duration
      BY <3>1
    <3> QED
      BY <2>2, <2>3, <2>4, <3>2
         DEF ReadAllowed, ContentAllowed, PlaybackAllowed, ValidateAccess,
             ValidateRecordingAccess, Allows
  <2>5. CASE a.kind # "recording"
    <3>1. a.payload = <<a.truck, a.camera, a.kind>>
      BY <2>1, <2>5 DEF Issued
    <3>2. Len(a.payload) = 3
      BY <3>1
    <3> QED
      BY <2>2, <2>3, <3>1, <3>2
         DEF ReadAllowed, ContentAllowed, PlaybackAllowed, ValidateAccess,
             ValidateRecordingAccess
  <2> QED
    BY <2>4, <2>5
<1> QED
  BY <1>1, TokenInvAlways, PTL

\* A clip begun within the buffer, less a second, can be watched to its end.
THEOREM PlaybackIsCovered == Spec => []PlaybackCovered
<1>1. TokenInv => PlaybackCovered
  <2> SUFFICES ASSUME TokenInv, NEW a \in answers, a.kind = "recording",
                      a.age + Second <= Buffer
               PROVE  a.left > a.duration
    BY DEF PlaybackCovered
  <2>1. a \in Answers /\ Issued(a)
    BY DEF TokenInv, TokenTypeOK
  <2>2. a.told \in Int /\ a.left \in Int /\ a.age \in Int /\ a.duration \in Int
    BY <2>1 DEF Answers
  <2> QED
    BY <2>1, <2>2, TimesAssumption DEF Issued
<1> QED
  BY <1>1, TokenInvAlways, PTL
=============================================================================
