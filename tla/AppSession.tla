----------------------------- MODULE AppSession -----------------------------
(***************************************************************************)
(* One installation of the app and its session: the token ApiClient sends, *)
(* the token in the device's storage, the page SurveillanceApp shows       *)
(* (apps/mobile/lib/src/app.dart), and the rows of user_api_tokens behind  *)
(* the server's login, logout and middleware.                              *)
(*                                                                         *)
(* Dart runs one callback at a time, so what interleaves is the answers of *)
(* the requests in flight, the operations on the storage and what the app  *)
(* does when their future completes or its two seconds are over.           *)
(*                                                                         *)
(* Abstractions.  The storage plugin runs its operations in the order they *)
(* were called (external); since their time limits are equal too, the      *)
(* continuations that wait for them run in that order.  A password is      *)
(* right or wrong by choice.  A token nothing refers to may be drawn again *)
(* in place of one of the 2^256 others.                                    *)
(***************************************************************************)
EXTENDS Naturals, Sequences, FiniteSets

CONSTANTS Tokens, None,
          Calls,       \* the HTTP requests that may be in flight
          MaxPending   \* bound: requests, continuations and storage operations

ASSUME NoneAssumption == None \notin Tokens

VARIABLES rows,      \* user_api_tokens: the tokens neither deleted nor expired
          apiToken,  \* ApiClient._apiToken, None for the empty string
          stored,    \* the token in the storage
          faithful,  \* the last operation on the storage did what it was to do
          page,      \* what MaterialApp shows
          loading,   \* _LoginScreenState._loading of the login screen shown
          grid,      \* a camera grid, which polls, is open
          disk,      \* the storage operations under way: the token to be left there
          awaits,    \* the continuations behind them: the page each one shows
          call       \* call[c]: a request, its token and its answer

vars == <<rows, apiToken, stored, faithful, page, loading, grid, disk, awaits, call>>
client == <<apiToken, page, loading, grid, disk, awaits>>
storage == <<stored, faithful>>

Free == [kind |-> "free", token |-> None, answer |-> "none", mounted |-> FALSE]

Init == /\ rows = {} /\ apiToken = None
        /\ stored = None /\ faithful = TRUE
        /\ page = "initializing" /\ loading = FALSE /\ grid = FALSE
        /\ disk = <<>> /\ awaits = <<>>
        /\ call = [c \in Calls |-> Free]

Pending == Cardinality({c \in Calls : call[c] # Free}) + Len(disk) + Len(awaits)

Send(c, kind, token) ==
  /\ call[c] = Free /\ Pending < MaxPending
  /\ call' = [call EXCEPT ![c] = [kind |-> kind, token |-> token, answer |-> "none",
                                  mounted |-> TRUE]]

Asked(c, kind) == call[c].kind = kind /\ call[c].answer = "none"
Answered(c, kind) == call[c].kind = kind /\ call[c].answer # "none"
Done(c) == call' = [call EXCEPT ![c] = Free]

---------------------------------------------------------------------------
(* The server. *)

InUse == rows \cup {apiToken, stored} \cup {disk[i] : i \in 1 .. Len(disk)}
           \cup {call[c].token : c \in Calls}

\* Slip: the answer of a login carries no token.
TokenlessServerLogin(c) ==
  /\ Asked(c, "login")
  /\ call' = [call EXCEPT ![c].answer = "ok", ![c].token = ""]
  /\ UNCHANGED <<rows, client, storage>>

\* SessionController.Login: wrong credentials, or a new row; the answer that
\* carries the token may be lost on its way.
ServerLogin(c) ==
  /\ Asked(c, "login")
  /\ \/ /\ call' = [call EXCEPT ![c].answer = "401"]
        /\ UNCHANGED rows
     \/ \E t \in Tokens \ InUse, lost \in BOOLEAN :
          /\ rows' = rows \cup {t}
          /\ call' = [call EXCEPT ![c].answer = IF lost THEN "failed" ELSE "ok",
                                  ![c].token = IF lost THEN None ELSE t]
  /\ UNCHANGED <<client, storage>>

\* SessionController.Logout deletes the row, whoever else still uses the token.
ServerLogout(c) ==
  /\ Asked(c, "logout")
  /\ rows' = rows \ {call[c].token}
  /\ \E answer \in {"ok", "failed"} : call' = [call EXCEPT ![c].answer = answer]
  /\ UNCHANGED <<client, storage>>

\* AuthService.Middleware in front of every other handler.
ServerGet(c) ==
  /\ Asked(c, "get")
  /\ call' = [call EXCEPT ![c].answer = IF call[c].token \in rows THEN "ok" ELSE "401"]
  /\ UNCHANGED <<rows, client, storage>>

\* The network or a statement of the server fails before anything is changed.
CallFails(c) ==
  /\ call[c] # Free /\ call[c].answer = "none"
  /\ call' = [call EXCEPT ![c].answer = "failed"]
  /\ UNCHANGED <<rows, client, storage>>

\* The 24 hours of a token are over, or its user is no longer active.
Expire(t) == /\ rows' = rows \ {t}
             /\ UNCHANGED <<client, storage, call>>

---------------------------------------------------------------------------
(* SurveillanceApp and ApiClient. *)

\* _restoreSession: the token found, or none after an error or two seconds.
Restore ==
  /\ page = "initializing"
  /\ \/ /\ apiToken' = stored
        /\ page' = IF stored # None THEN "authenticated" ELSE "login"
        /\ UNCHANGED storage
     \/ /\ page' = "login" /\ faithful' = FALSE
        /\ UNCHANGED <<apiToken, stored>>
  /\ UNCHANGED <<rows, loading, grid, disk, awaits, call>>

\* Slip: the stored token stays.
ForgetfulClear == /\ apiToken' = None
                  /\ awaits' = Append(awaits, "login")
                  /\ UNCHANGED disk

\* _clearSession up to its await.
Clear == /\ apiToken' = None
         /\ disk' = Append(disk, None)
         /\ awaits' = Append(awaits, "login")

SubmitLogin(c) ==
  /\ page = "login" /\ ~loading
  /\ loading' = TRUE
  /\ Send(c, "login", None)
  /\ UNCHANGED <<rows, storage, apiToken, page, grid, disk, awaits>>

\* Slip: an error leaves the screen as it is.
StuckReceiveLogin(c) ==
  /\ Answered(c, "login")
  /\ IF call[c].answer = "ok"
     THEN /\ apiToken' = call[c].token
          /\ disk' = Append(disk, call[c].token)
          /\ awaits' = Append(awaits, "authenticated")
     ELSE UNCHANGED <<apiToken, disk, awaits>>
  /\ Done(c)
  /\ UNCHANGED <<rows, storage, page, loading, grid>>

\* ApiClient.login, then _login up to its await, or the error on the screen that
\* asked, if it is still there.
ReceiveLogin(c) ==
  /\ Answered(c, "login")
  /\ IF call[c].answer = "ok"
     THEN /\ apiToken' = call[c].token
          /\ disk' = Append(disk, call[c].token)
          /\ awaits' = Append(awaits, "authenticated")
          /\ UNCHANGED loading
     ELSE /\ loading' = (loading /\ ~call[c].mounted)
          /\ UNCHANGED <<apiToken, disk, awaits>>
  /\ Done(c)
  /\ UNCHANGED <<rows, storage, page, grid>>

\* Any screen of a session asks the API for something.
Ask(c) == /\ page = "authenticated"
          /\ Send(c, "get", apiToken)
          /\ UNCHANGED <<rows, storage, client>>

\* The timer of the camera grid.
Poll == grid /\ \E c \in Calls : Ask(c)

\* Slip: a 401 is an error like any other.
DeafReceiveGet(c) == /\ Answered(c, "get")
                     /\ Done(c)
                     /\ UNCHANGED <<rows, storage, client>>

\* _ensureSuccess: a 401 ends the session, whichever session asked.
ReceiveGet(c) ==
  /\ Answered(c, "get")
  /\ IF call[c].answer = "401" THEN Clear ELSE UNCHANGED <<apiToken, disk, awaits>>
  /\ Done(c)
  /\ UNCHANGED <<rows, storage, page, loading, grid>>

\* _logout without a token makes no request.
PressLogout(c) ==
  /\ page = "authenticated"
  /\ IF apiToken = None
     THEN /\ Pending < MaxPending /\ Clear
          /\ UNCHANGED call
     ELSE /\ Send(c, "logout", apiToken)
          /\ UNCHANGED <<apiToken, disk, awaits>>
  /\ UNCHANGED <<rows, storage, page, loading, grid>>

\* Slip: no `finally`, a failed logout throws past _clearSession.
ThrowingReceiveLogout(c) ==
  /\ Answered(c, "logout")
  /\ IF call[c].answer = "ok" THEN Clear
     ELSE apiToken' = None /\ UNCHANGED <<disk, awaits>>
  /\ Done(c)
  /\ UNCHANGED <<rows, storage, page, loading, grid>>

\* Whatever became of the request, the app forgets the session.
ReceiveLogout(c) ==
  /\ Answered(c, "logout")
  /\ Clear
  /\ Done(c)
  /\ UNCHANGED <<rows, storage, page, loading, grid>>

\* The rest of _login and _clearSession, when the storage is done or late: a new
\* navigator, whose screens know nothing of the requests of the old ones.
Resume ==
  /\ awaits # <<>>
  /\ awaits' = Tail(awaits)
  /\ page' = Head(awaits) /\ loading' = FALSE /\ grid' = FALSE
  /\ call' = [c \in Calls |-> [call[c] EXCEPT !.mounted = FALSE]]
  /\ UNCHANGED <<rows, storage, apiToken, disk>>

ToggleGrid == /\ page = "authenticated"
              /\ grid' = ~grid
              /\ UNCHANGED <<rows, storage, apiToken, page, loading, disk, awaits, call>>

---------------------------------------------------------------------------
(* The device. *)

\* The storage carries out its next operation, or fails.
DiskStep == /\ disk # <<>>
            /\ disk' = Tail(disk)
            /\ \/ stored' = Head(disk) /\ faithful' = TRUE
               \/ UNCHANGED stored /\ faithful' = FALSE
            /\ UNCHANGED <<rows, apiToken, page, loading, grid, awaits, call>>

\* The app is killed and opened again.
Kill == /\ apiToken' = None /\ page' = "initializing"
        /\ loading' = FALSE /\ grid' = FALSE
        /\ disk' = <<>> /\ awaits' = <<>> /\ call' = [c \in Calls |-> Free]
        /\ faithful' = TRUE
        /\ UNCHANGED <<rows, stored>>

Receive(c) == ReceiveLogin(c) \/ ReceiveGet(c) \/ ReceiveLogout(c)
Server(c) == ServerLogin(c) \/ ServerGet(c) \/ ServerLogout(c)
Next == \/ \E c \in Calls : \/ SubmitLogin(c) \/ Ask(c) \/ PressLogout(c)
                            \/ Server(c) \/ CallFails(c) \/ Receive(c)
        \/ \E t \in Tokens : Expire(t)
        \/ Restore \/ Resume \/ ToggleGrid \/ DiskStep \/ Kill

Spec == Init /\ [][Next]_vars

\* Futures complete, at the latest by their time limits; every request is
\* answered or fails.  The grid's timer keeps firing, and not every request it
\* makes is lost.
FairSpec == /\ Spec
            /\ WF_vars(Restore) /\ WF_vars(Resume) /\ WF_vars(DiskStep) /\ SF_vars(Poll)
            /\ \A c \in Calls : /\ WF_vars(Server(c)) /\ WF_vars(Receive(c))
                                /\ SF_vars(ServerGet(c))

---------------------------------------------------------------------------
(* Properties. *)

\* The types of the app's variables, of the storage, the rows and the requests.
AppTypeOK ==
  /\ rows \subseteq Tokens
  /\ {apiToken, stored} \subseteq Tokens \cup {None}
  /\ {faithful, loading, grid} \subseteq BOOLEAN
  /\ page \in {"initializing", "login", "authenticated"}
  /\ disk \in Seq(Tokens \cup {None})
  /\ awaits \in Seq({"login", "authenticated"})
  /\ call \in [Calls -> [kind : {"free", "login", "get", "logout"},
                         token : Tokens \cup {None},
                         answer : {"none", "ok", "401", "failed"}, mounted : BOOLEAN]]

\* Logins, logouts and 401s overlap in any order, and continuations of one run
\* in the middle of another.  When the last of them has run, the page, the token
\* in memory and the stored token agree: nobody sees the app's pages without a
\* token, nobody is asked to log in while the app holds one, and the next start
\* finds the session this one had, unless the storage failed.
QuietAgreement ==
  page # "initializing" /\ disk = <<>> /\ awaits = <<>> =>
    /\ page = "authenticated" <=> apiToken # None
    /\ faithful => stored = apiToken

\* A login screen is busy only while there is something to wait for: its own
\* request, or a continuation that will replace the page.
BusyLoginWaits ==
  loading => \/ awaits # <<>>
             \/ \E c \in Calls : call[c].kind = "login" /\ call[c].mounted

\* Pressing logout leads to the login page, also when the request fails, the
\* token is dead already or the storage hangs.
LogoutEnds ==
  \A c \in Calls : call[c].kind = "logout" ~> page \in {"login", "initializing"}

\* A login screen does not stay busy: the login fails or the session begins.
LoginEnds == loading ~> ~loading

\* A token that is no longer in user_api_tokens does not stay in use while a
\* camera grid is open: one of its polls is answered 401, and the app drops it.
DeadTokenIsDropped ==
  \A t \in Tokens : (apiToken = t /\ t \notin rows /\ grid) ~> (apiToken # t \/ ~grid)
=============================================================================
