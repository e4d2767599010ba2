--------------------------- MODULE AppSessionProofs ---------------------------
(***************************************************************************)
(* The safety of AppSession for any number of tokens and requests: what    *)
(* overlapping logins, logouts and 401s leave agrees, because each of them *)
(* queues the page and the stored token together with the one in memory.   *)
(***************************************************************************)
EXTENDS AppSession, SequenceTheorems, TLAPS

Final(seq) == seq[Len(seq)]

Request == [kind : {"free", "login", "get", "logout"}, token : Tokens \cup {None},
            answer : {"none", "ok", "401", "failed"}, mounted : BOOLEAN]

AppTypes ==
  /\ rows \subseteq Tokens
  /\ apiToken \in Tokens \cup {None} /\ stored \in Tokens \cup {None}
  /\ faithful \in BOOLEAN /\ loading \in BOOLEAN /\ grid \in BOOLEAN
  /\ page \in {"initializing", "login", "authenticated"}
  /\ disk \in Seq(Tokens \cup {None})
  /\ awaits \in Seq({"login", "authenticated"})
  /\ call \in [Calls -> Request]

\* Nothing is under way when the app starts.
StartInv ==
  page = "initializing" =>
    /\ apiToken = None /\ disk = <<>> /\ awaits = <<>>
    /\ \A c \in Calls : call[c] = Free

\* The page that is shown last belongs to the token in memory.
PageInv ==
  page # "initializing" =>
    IF awaits = <<>> THEN page = "authenticated" <=> apiToken # None
    ELSE Final(awaits) = "authenticated" <=> apiToken # None

\* The token that is stored last is the one in memory.
DiskInv ==
  page # "initializing" =>
    IF disk = <<>> THEN faithful => stored = apiToken
    ELSE Final(disk) = apiToken

\* A login that succeeds brings a token.
LoginInv ==
  \A c \in Calls : Answered(c, "login") /\ call[c].answer = "ok" => call[c].token \in Tokens

\* The login screen that is shown waits for this request.
Awaited(c) == call[c].kind = "login" /\ call[c].mounted

\* A busy login screen has one request, or its answer is being stored.
BusyInv ==
  /\ BusyLoginWaits
  /\ page = "initializing" => ~loading
  /\ \A c \in Calls : Awaited(c) => loading
  /\ \A c, d \in Calls : Awaited(c) /\ Awaited(d) => c = d

AppInv == AppTypes /\ StartInv /\ PageInv /\ DiskInv /\ LoginInv /\ BusyInv

-----------------------------------------------------------------------------
\* What is appended to a queue is the last that comes out of it.
LEMMA AppendIsFinal ==
  ASSUME NEW S, NEW seq \in Seq(S), NEW x \in S
  PROVE  /\ Append(seq, x) \in Seq(S) /\ Append(seq, x) # <<>>
         /\ Final(Append(seq, x)) = x
BY AppendProperties DEF Final

\* Taking the head of a queue leaves the last where it is, unless it was that.
LEMMA TailKeepsFinal ==
  ASSUME NEW S, NEW seq \in Seq(S), seq # <<>>
  PROVE  /\ Head(seq) \in S /\ Tail(seq) \in Seq(S)
         /\ IF Tail(seq) = <<>> THEN Head(seq) = Final(seq)
            ELSE Final(Tail(seq)) = Final(seq)
<1> DEFINE n == Len(seq)
<1>1. /\ Head(seq) \in S /\ Tail(seq) \in Seq(S) /\ Head(seq) = seq[1]
      /\ n \in Nat \ {0} /\ Len(Tail(seq)) = n - 1
      /\ \A i \in 1 .. n - 1 : Tail(seq)[i] = seq[i+1]
  BY HeadTailProperties, EmptySeq
<1>2. Tail(seq) = <<>> => n = 1
  BY <1>1, EmptySeq
<1>3. Tail(seq) # <<>> => Len(Tail(seq)) # 0
  BY <1>1, EmptySeq
<1> HIDE DEF n
<1>4. n # 1 => n - 1 \in 1 .. n - 1 /\ n - 1 + 1 = n
  BY <1>1
<1>5. n # 1 => Tail(seq)[n - 1] = seq[n]
  BY <1>1, <1>4
<1>6. n = 1 => Tail(seq) = <<>>
  BY <1>1, <1>3
<1> QED
  BY <1>1, <1>2, <1>5, <1>6 DEF Final, n

-----------------------------------------------------------------------------
\* An action that ends in queueing a token and the page that goes with it.
LEMMA QueueKeeps ==
  ASSUME AppInv, page # "initializing", page' = page, faithful' = faithful,
         NEW t \in Tokens \cup {None}, NEW p \in {"login", "authenticated"},
         p = "authenticated" <=> t # None,
         apiToken' = t, disk' = Append(disk, t), awaits' = Append(awaits, p)
  PROVE  /\ disk' \in Seq(Tokens \cup {None}) /\ awaits' \in Seq({"login", "authenticated"})
         /\ StartInv' /\ PageInv' /\ DiskInv' /\ BusyLoginWaits'
<1>1. disk \in Seq(Tokens \cup {None}) /\ awaits \in Seq({"login", "authenticated"})
  BY DEF AppInv, AppTypes
<1>2. disk' \in Seq(Tokens \cup {None}) /\ disk' # <<>> /\ Final(disk') = t
  BY <1>1, AppendIsFinal
<1>3. awaits' \in Seq({"login", "authenticated"}) /\ awaits' # <<>> /\ Final(awaits') = p
  BY <1>1, AppendIsFinal
<1> QED
  BY <1>2, <1>3 DEF StartInv, PageInv, DiskInv, BusyLoginWaits

\* What an answer makes of a request.
Reply(r, a, t) == [kind |-> r.kind, token |-> t, answer |-> a, mounted |-> r.mounted]

\* The server and the network change nothing of a request but its answer and, for
\* a login, its token.
LEMMA AnswersOnly ==
  ASSUME AppTypes, NEW c \in Calls,
         ServerLogin(c) \/ ServerGet(c) \/ ServerLogout(c) \/ CallFails(c)
  PROVE  /\ UNCHANGED <<client, storage>> /\ call[c] # Free /\ rows' \subseteq Tokens
         /\ \E a \in {"ok", "401", "failed"}, t \in Tokens \cup {None} :
              /\ call' = [call EXCEPT ![c] = Reply(call[c], a, t)]
              /\ call[c].kind = "login" /\ a = "ok" => t \in Tokens
<1> DEFINE r == call[c]
<1>1. r \in Request /\ rows \subseteq Tokens
  BY DEF AppTypes
<1>2. r.token \in Tokens \cup {None}
  BY <1>1 DEF Request
<1>3. \A a : [r EXCEPT !.answer = a] = Reply(r, a, r.token)
  BY <1>1 DEF Request, Reply
<1>4. ASSUME NEW a, NEW t PROVE [r EXCEPT !.answer = a, !.token = t] = Reply(r, a, t)
  <2>1. [Reply(r, a, r.token) EXCEPT !.token = t] = Reply(r, a, t)
    BY DEF Reply
  <2>2. [r EXCEPT !.answer = a, !.token = t] = [[r EXCEPT !.answer = a] EXCEPT !.token = t]
    OBVIOUS
  <2> QED
    BY <1>3, <2>1, <2>2
<1>5. call[c] # Free
  <2>1. Free.kind = "free"
    BY DEF Free
  <2> QED
    BY <2>1 DEF ServerLogin, ServerGet, ServerLogout, CallFails, Asked
<1>6. CASE ServerLogin(c)
  <2>1. CASE call' = [call EXCEPT ![c].answer = "401"] /\ UNCHANGED rows
    BY <1>1, <1>2, <1>5, <1>3, <1>6, <2>1 DEF ServerLogin, Asked
  <2>2. ASSUME NEW t \in Tokens, NEW lost \in BOOLEAN,
               rows' = rows \cup {t},
               call' = [call EXCEPT ![c].answer = IF lost THEN "failed" ELSE "ok",
                                    ![c].token = IF lost THEN None ELSE t]
        PROVE  /\ rows' \subseteq Tokens
               /\ \E a \in {"ok", "401", "failed"}, u \in Tokens \cup {None} :
                    /\ call' = [call EXCEPT ![c] = Reply(call[c], a, u)]
                    /\ call[c].kind = "login" /\ a = "ok" => u \in Tokens
    <3>1. CASE lost
      <4>1. call' = [call EXCEPT ![c] = Reply(call[c], "failed", None)]
        BY <1>4, <2>2, <3>1
      <4> QED
        BY <1>1, <2>2, <4>1
    <3>2. CASE ~lost
      <4>1. call' = [call EXCEPT ![c] = Reply(call[c], "ok", t)]
        BY <1>4, <2>2, <3>2
      <4> QED
        BY <1>1, <2>2, <4>1
    <3> QED
      BY <3>1, <3>2
  <2> QED
    BY <1>6, <1>5, <2>1, <2>2 DEF ServerLogin, Asked
<1>7. CASE ServerGet(c)
  <2>1. PICK a \in {"ok", "401"} : call' = [call EXCEPT ![c].answer = a]
    BY <1>7 DEF ServerGet
  <2> QED
    BY <1>1, <1>2, <1>5, <1>3, <1>7, <2>1 DEF ServerGet, Asked
<1>8. CASE ServerLogout(c)
  <2>1. PICK a \in {"ok", "failed"} : call' = [call EXCEPT ![c].answer = a]
    BY <1>8 DEF ServerLogout
  <2> QED
    BY <1>1, <1>2, <1>5, <1>3, <1>8, <2>1 DEF ServerLogout, Asked
<1>9. CASE CallFails(c)
  BY <1>1, <1>2, <1>5, <1>3, <1>9 DEF CallFails
<1> QED
  BY <1>6, <1>7, <1>8, <1>9

-----------------------------------------------------------------------------
(* Each action keeps AppInv. *)

\* The answers of the server: the page, the tokens and the queues stay.
LEMMA AnswerKeeps ==
  ASSUME AppInv, NEW c \in Calls, Server(c) \/ CallFails(c)
  PROVE  AppInv'
<1>1. /\ UNCHANGED <<client, storage>> /\ call[c] # Free /\ rows' \subseteq Tokens
      /\ \E a \in {"ok", "401", "failed"}, t \in Tokens \cup {None} :
           /\ call' = [call EXCEPT ![c] = Reply(call[c], a, t)]
           /\ call[c].kind = "login" /\ a = "ok" => t \in Tokens
  BY AnswersOnly DEF AppInv, Server
<1>2. PICK a \in {"ok", "401", "failed"}, t \in Tokens \cup {None} :
           /\ call' = [call EXCEPT ![c] = Reply(call[c], a, t)]
           /\ call[c].kind = "login" /\ a = "ok" => t \in Tokens
  BY <1>1
<1>3. call \in [Calls -> Request]
  BY DEF AppInv, AppTypes
<1>4. Reply(call[c], a, t) \in Request
  BY <1>3 DEF Reply, Request
<1>5. call' \in [Calls -> Request] /\ \A d \in Calls \ {c} : call'[d] = call[d]
  BY <1>2, <1>3, <1>4
<1>6. /\ call'[c].kind = call[c].kind /\ call'[c].mounted = call[c].mounted
      /\ call'[c].answer = a /\ call'[c].token = t
  BY <1>2, <1>3 DEF Reply
<1>7. page # "initializing"
  BY <1>1 DEF AppInv, StartInv
<1>8. AppTypes'
  BY <1>1, <1>5 DEF AppInv, AppTypes, client, storage
<1>9. StartInv' /\ PageInv' /\ DiskInv'
  BY <1>1, <1>7 DEF AppInv, StartInv, PageInv, DiskInv, client, storage
<1>10. LoginInv'
  BY <1>2, <1>5, <1>6 DEF AppInv, LoginInv, Answered
<1>11. \A d \in Calls : call'[d].kind = call[d].kind /\ call'[d].mounted = call[d].mounted
  BY <1>5, <1>6
<1>12. BusyInv'
  <2>1. loading' = loading /\ page' = page /\ awaits' = awaits
    BY <1>1 DEF client
  <2>2. \A d \in Calls : Awaited(d)' <=> Awaited(d)
    BY <1>11 DEF Awaited
  <2> QED
    BY <1>11, <2>1, <2>2 DEF AppInv, BusyInv, BusyLoginWaits
<1> QED
  BY <1>8, <1>9, <1>10, <1>12 DEF AppInv

\* A request that is sent by a screen of the session, or by the login screen when
\* it is not busy.
LEMMA SendKeeps ==
  ASSUME AppInv, NEW c \in Calls, NEW k \in {"login", "get", "logout"},
         NEW t \in Tokens \cup {None},
         Send(c, k, t), page # "initializing",
         loading' \in BOOLEAN, k = "login" => ~loading /\ loading',
         k # "login" => loading' = loading,
         UNCHANGED <<rows, storage, apiToken, page, grid, disk, awaits>>
  PROVE  AppInv'
<1> DEFINE q == [kind |-> k, token |-> t, answer |-> "none", mounted |-> TRUE]
<1>1. call \in [Calls -> Request]
  BY DEF AppInv, AppTypes
<1>2. q \in Request
  BY DEF Request
<1>3. /\ call' \in [Calls -> Request] /\ call'[c] = q
      /\ \A d \in Calls \ {c} : call'[d] = call[d]
  BY <1>1, <1>2 DEF Send
<1>4. q.kind = k /\ q.token = t /\ q.answer = "none" /\ q.mounted
  OBVIOUS
<1>5. call[c].kind # "login"
  <2>1. Free.kind = "free"
    BY DEF Free
  <2> QED
    BY <2>1 DEF Send
<1> HIDE DEF q
<1>6. AppTypes'
  BY <1>3 DEF AppInv, AppTypes, storage
<1>7. StartInv' /\ PageInv' /\ DiskInv'
  BY DEF AppInv, StartInv, PageInv, DiskInv, storage
<1>8. LoginInv'
  BY <1>3, <1>4 DEF AppInv, LoginInv, Answered
<1>9. \A d \in Calls : Awaited(d)' => (k = "login" /\ d = c) \/ (d # c /\ Awaited(d))
  BY <1>3, <1>4 DEF Awaited
<1>10. \A d \in Calls : Awaited(d) => Awaited(d)'
  BY <1>3, <1>5 DEF Awaited
<1>11. BusyInv'
  <2>1. CASE k = "login"
    <3>1. Awaited(c)'
      BY <1>3, <1>4, <2>1 DEF Awaited
    <3>2. \A d \in Calls : Awaited(d)' => d = c
      BY <1>9, <2>1 DEF AppInv, BusyInv
    <3> QED
      BY <2>1, <3>1, <3>2 DEF BusyInv, BusyLoginWaits, Awaited
  <2>2. CASE k # "login"
    <3>1. loading' = loading /\ page' = page /\ awaits' = awaits
      BY <2>2
    <3>2. \A d \in Calls : Awaited(d)' <=> Awaited(d)
      BY <1>9, <1>10, <2>2
    <3>3. BusyLoginWaits'
      BY <1>10, <3>1 DEF AppInv, BusyInv, BusyLoginWaits, Awaited
    <3> QED
      BY <3>1, <3>2, <3>3 DEF AppInv, BusyInv
  <2> QED
    BY <2>1, <2>2
<1> QED
  BY <1>6, <1>7, <1>8, <1>11 DEF AppInv

\* What forgetting an answered request does, whatever else its receiver changes.
LEMMA DoneKeeps ==
  ASSUME AppInv, NEW c \in Calls, call[c].kind # "free", Done(c)
  PROVE  /\ page # "initializing" /\ call' \in [Calls -> Request] /\ LoginInv'
         /\ \A d \in Calls : Awaited(d)' <=> d # c /\ Awaited(d)
<1>1. call \in [Calls -> Request]
  BY DEF AppInv, AppTypes
<1>2. Free \in Request /\ Free.kind = "free"
  BY DEF Free, Request
<1>3. /\ call' \in [Calls -> Request] /\ call'[c] = Free
      /\ \A d \in Calls \ {c} : call'[d] = call[d]
  BY <1>1, <1>2 DEF Done
<1>4. page # "initializing"
  BY <1>2 DEF AppInv, StartInv
<1>5. LoginInv'
  BY <1>2, <1>3 DEF AppInv, LoginInv, Answered
<1>6. \A d \in Calls : Awaited(d)' <=> d # c /\ Awaited(d)
  BY <1>2, <1>3 DEF Awaited
<1> QED
  BY <1>3, <1>4, <1>5, <1>6

\* A receiver that queues a token and the page that goes with it.
LEMMA ReceiveAndQueueKeeps ==
  ASSUME AppInv, NEW c \in Calls, call[c].kind # "free", Done(c),
         NEW t \in Tokens \cup {None}, NEW p \in {"login", "authenticated"},
         p = "authenticated" <=> t # None,
         apiToken' = t, disk' = Append(disk, t), awaits' = Append(awaits, p),
         UNCHANGED <<rows, storage, page, loading, grid>>
  PROVE  AppInv'
<1>1. /\ page # "initializing" /\ call' \in [Calls -> Request] /\ LoginInv'
      /\ \A d \in Calls : Awaited(d)' <=> d # c /\ Awaited(d)
  BY DoneKeeps
<1>2. page' = page /\ faithful' = faithful /\ stored' = stored
  BY DEF storage
<1>3. /\ disk' \in Seq(Tokens \cup {None}) /\ awaits' \in Seq({"login", "authenticated"})
      /\ StartInv' /\ PageInv' /\ DiskInv' /\ BusyLoginWaits'
  BY <1>1, <1>2, QueueKeeps
<1>4. AppTypes'
  BY <1>1, <1>2, <1>3 DEF AppInv, AppTypes
<1>5. BusyInv'
  BY <1>1, <1>2, <1>3 DEF AppInv, BusyInv
<1> QED
  BY <1>1, <1>3, <1>4, <1>5 DEF AppInv

\* A receiver that queues nothing.
LEMMA ReceiveOnlyKeeps ==
  ASSUME AppInv, NEW c \in Calls, call[c].kind # "free", Done(c),
         loading' = (loading /\ ~Awaited(c)),
         UNCHANGED <<rows, storage, apiToken, page, grid, disk, awaits>>
  PROVE  AppInv'
<1>1. /\ page # "initializing" /\ call' \in [Calls -> Request] /\ LoginInv'
      /\ \A d \in Calls : Awaited(d)' <=> d # c /\ Awaited(d)
  BY DoneKeeps
<1>2. page' = page /\ faithful' = faithful /\ stored' = stored
  BY DEF storage
<1>3. AppTypes'
  BY <1>1, <1>2 DEF AppInv, AppTypes
<1>4. StartInv' /\ PageInv' /\ DiskInv'
  BY <1>1, <1>2 DEF AppInv, StartInv, PageInv, DiskInv
<1>5. BusyLoginWaits'
  BY <1>1 DEF AppInv, BusyInv, BusyLoginWaits, Awaited
<1>6. BusyInv'
  BY <1>1, <1>2, <1>5 DEF AppInv, BusyInv
<1> QED
  BY <1>1, <1>3, <1>4, <1>6 DEF AppInv

\* The app receives an answer: a login brings its token, a 401 and a logout none.
LEMMA ReceiveKeeps ==
  ASSUME AppInv, NEW c \in Calls, Receive(c)
  PROVE  AppInv'
<1>1. call \in [Calls -> Request] /\ loading \in BOOLEAN /\ LoginInv
  BY DEF AppInv, AppTypes
<1>2. call[c].kind = "login" => (Awaited(c) <=> call[c].mounted)
  BY DEF Awaited
<1>3. call[c].kind # "login" => ~Awaited(c)
  BY DEF Awaited
<1>4. CASE ReceiveLogin(c)
  <2>1. call[c].kind = "login"
    BY <1>4 DEF ReceiveLogin, Answered
  <2>2. CASE call[c].answer = "ok"
    <3>1. call[c].token \in Tokens
      BY <1>1, <1>4, <2>2 DEF LoginInv, ReceiveLogin
    <3> QED
      BY <1>4, <2>1, <2>2, <3>1, NoneAssumption, ReceiveAndQueueKeeps DEF ReceiveLogin
  <2>3. CASE call[c].answer # "ok"
    BY <1>2, <1>4, <2>1, <2>3, ReceiveOnlyKeeps DEF ReceiveLogin
  <2> QED
    BY <2>2, <2>3
<1>5. CASE ReceiveGet(c)
  <2>1. call[c].kind = "get"
    BY <1>5 DEF ReceiveGet, Answered
  <2>2. CASE call[c].answer = "401"
    BY <1>5, <2>1, <2>2, ReceiveAndQueueKeeps DEF ReceiveGet, Clear
  <2>3. CASE call[c].answer # "401"
    BY <1>1, <1>3, <1>5, <2>1, <2>3, ReceiveOnlyKeeps DEF ReceiveGet
  <2> QED
    BY <2>2, <2>3
<1>6. CASE ReceiveLogout(c)
  <2>1. call[c].kind = "logout"
    BY <1>6 DEF ReceiveLogout, Answered
  <2> QED
    BY <1>6, <2>1, ReceiveAndQueueKeeps DEF ReceiveLogout, Clear
<1> QED
  BY <1>4, <1>5, <1>6 DEF Receive

\* What a screen asks for: a login, the data of a session, a logout, or, without a
\* token, the end of the session at once.
LEMMA PressKeeps ==
  ASSUME AppInv, NEW c \in Calls, SubmitLogin(c) \/ Ask(c) \/ PressLogout(c)
  PROVE  AppInv'
<1>1. /\ apiToken \in Tokens \cup {None} /\ loading \in BOOLEAN
      /\ call \in [Calls -> Request]
  BY DEF AppInv, AppTypes
<1>2. CASE SubmitLogin(c)
  <2>1. page # "initializing" /\ ~loading /\ loading' /\ loading' \in BOOLEAN
    BY <1>2 DEF SubmitLogin
  <2>2. Send(c, "login", None)
    BY <1>2 DEF SubmitLogin
  <2>3. UNCHANGED <<rows, storage, apiToken, page, grid, disk, awaits>>
    BY <1>2 DEF SubmitLogin
  <2> QED
    BY <2>1, <2>2, <2>3, SendKeeps
<1>3. CASE Ask(c)
  <2>1. page # "initializing" /\ Send(c, "get", apiToken) /\ UNCHANGED loading
    BY <1>3 DEF Ask, client
  <2>2. UNCHANGED <<rows, storage, apiToken, page, grid, disk, awaits>>
    BY <1>3 DEF Ask, client
  <2> QED
    BY <1>1, <2>1, <2>2, SendKeeps
<1>4. CASE PressLogout(c) /\ apiToken # None
  <2>1. page # "initializing" /\ Send(c, "logout", apiToken) /\ UNCHANGED loading
    BY <1>4 DEF PressLogout
  <2>2. UNCHANGED <<rows, storage, apiToken, page, grid, disk, awaits>>
    BY <1>4 DEF PressLogout
  <2> QED
    BY <1>1, <2>1, <2>2, SendKeeps
<1>5. CASE PressLogout(c) /\ apiToken = None
  <2>1. /\ page # "initializing" /\ Clear
        /\ UNCHANGED <<rows, storage, page, loading, grid, call>>
    BY <1>5 DEF PressLogout
  <2>2. /\ disk' \in Seq(Tokens \cup {None}) /\ awaits' \in Seq({"login", "authenticated"})
        /\ StartInv' /\ PageInv' /\ DiskInv' /\ BusyLoginWaits'
    BY <2>1, QueueKeeps DEF Clear, storage
  <2>3. AppTypes'
    BY <2>1, <2>2 DEF AppInv, AppTypes, Clear, storage
  <2>4. LoginInv'
    BY <2>1 DEF AppInv, LoginInv, Answered
  <2>5. BusyInv'
    BY <2>1, <2>2 DEF AppInv, BusyInv, Awaited
  <2> QED
    BY <2>2, <2>3, <2>4, <2>5 DEF AppInv
<1> QED
  BY <1>2, <1>3, <1>4, <1>5

\* A start finds the stored token, or none, with nothing under way.
LEMMA RestoreKeeps ==
  ASSUME AppInv, Restore
  PROVE  AppInv'
<1>1. AppTypes'
  BY DEF AppInv, AppTypes, Restore, storage
<1>2. StartInv' /\ PageInv' /\ DiskInv'
  BY DEF AppInv, StartInv, PageInv, DiskInv, Restore, storage
<1>3. LoginInv'
  BY DEF AppInv, LoginInv, Answered, Restore
<1>4. BusyInv'
  BY DEF AppInv, BusyInv, BusyLoginWaits, Awaited, Restore
<1> QED
  BY <1>1, <1>2, <1>3, <1>4 DEF AppInv

\* A continuation shows its page: the screens of the last one are gone, and with
\* them every busy login.
LEMMA ResumeKeeps ==
  ASSUME AppInv, Resume
  PROVE  AppInv'
<1>1. /\ awaits \in Seq({"login", "authenticated"}) /\ awaits # <<>>
      /\ call \in [Calls -> Request]
  BY DEF AppInv, AppTypes, Resume
<1>2. /\ Head(awaits) \in {"login", "authenticated"}
      /\ Tail(awaits) \in Seq({"login", "authenticated"})
      /\ IF Tail(awaits) = <<>> THEN Head(awaits) = Final(awaits)
         ELSE Final(Tail(awaits)) = Final(awaits)
  BY <1>1, TailKeepsFinal
<1>3. \A c \in Calls : /\ call'[c] \in Request /\ ~call'[c].mounted
                       /\ call'[c].kind = call[c].kind /\ call'[c].answer = call[c].answer
                       /\ call'[c].token = call[c].token
  BY <1>1 DEF Request, Resume
<1>4. call' \in [Calls -> Request]
  BY <1>3 DEF Resume
<1>5. page # "initializing" /\ page' # "initializing"
  BY <1>1, <1>2 DEF AppInv, StartInv, Resume
<1>6. AppTypes'
  BY <1>2, <1>4 DEF AppInv, AppTypes, Resume, storage
<1>7. StartInv' /\ PageInv' /\ DiskInv'
  BY <1>1, <1>2, <1>5 DEF AppInv, StartInv, PageInv, DiskInv, Resume, storage
<1>8. LoginInv'
  BY <1>3 DEF AppInv, LoginInv, Answered
<1>9. BusyInv'
  BY <1>3 DEF BusyInv, BusyLoginWaits, Awaited, Resume
<1> QED
  BY <1>6, <1>7, <1>8, <1>9 DEF AppInv

\* An operation on the storage: the last one leaves the token in memory there, or
\* fails.
LEMMA DiskStepKeeps ==
  ASSUME AppInv, DiskStep
  PROVE  AppInv'
<1>1. disk \in Seq(Tokens \cup {None}) /\ disk # <<>>
  BY DEF AppInv, AppTypes, DiskStep
<1>2. /\ Head(disk) \in Tokens \cup {None} /\ Tail(disk) \in Seq(Tokens \cup {None})
      /\ IF Tail(disk) = <<>> THEN Head(disk) = Final(disk)
         ELSE Final(Tail(disk)) = Final(disk)
  BY <1>1, TailKeepsFinal
<1>3. page # "initializing" /\ page' = page
  BY <1>1 DEF AppInv, StartInv, DiskStep
<1>4. AppTypes'
  BY <1>2 DEF AppInv, AppTypes, DiskStep
<1>5. StartInv' /\ PageInv' /\ DiskInv'
  BY <1>1, <1>2, <1>3 DEF AppInv, StartInv, PageInv, DiskInv, DiskStep
<1>6. LoginInv'
  BY DEF AppInv, LoginInv, Answered, DiskStep
<1>7. BusyInv'
  BY DEF AppInv, BusyInv, BusyLoginWaits, Awaited, DiskStep
<1> QED
  BY <1>4, <1>5, <1>6, <1>7 DEF AppInv

\* A token that expires, a grid that is opened or closed: no queue is touched.
LEMMA AsideKeeps ==
  ASSUME AppInv, ToggleGrid \/ \E t \in Tokens : Expire(t)
  PROVE  AppInv'
<1>1. /\ UNCHANGED <<storage, apiToken, page, loading, disk, awaits, call>>
      /\ rows' \subseteq rows /\ (grid' = grid \/ grid' = ~grid)
  BY DEF ToggleGrid, Expire, client
<1>2. AppTypes'
  BY <1>1 DEF AppInv, AppTypes, storage
<1>3. StartInv' /\ PageInv' /\ DiskInv'
  BY <1>1 DEF AppInv, StartInv, PageInv, DiskInv, storage
<1>4. LoginInv' /\ BusyInv'
  BY <1>1 DEF AppInv, LoginInv, Answered, BusyInv, BusyLoginWaits, Awaited
<1> QED
  BY <1>2, <1>3, <1>4 DEF AppInv

\* A killed app starts with nothing under way.
LEMMA KillKeeps ==
  ASSUME AppInv, Kill
  PROVE  AppInv'
<1>1. Free \in Request /\ Free.kind = "free"
  BY DEF Free, Request
<1>2. AppTypes'
  BY <1>1, EmptySeq DEF AppInv, AppTypes, Kill
<1>3. StartInv' /\ PageInv' /\ DiskInv'
  BY DEF StartInv, PageInv, DiskInv, Kill
<1>4. LoginInv' /\ BusyInv'
  BY <1>1 DEF LoginInv, Answered, BusyInv, BusyLoginWaits, Awaited, Kill
<1> QED
  BY <1>2, <1>3, <1>4 DEF AppInv

-----------------------------------------------------------------------------
\* The app is installed with an empty storage.
LEMMA InitAppInv == Init => AppInv
<1> SUFFICES ASSUME Init PROVE AppInv
  OBVIOUS
<1>1. Free \in Request /\ Free.kind = "free"
  BY DEF Free, Request
<1>2. AppTypes
  BY <1>1, EmptySeq DEF AppTypes, Init
<1>3. StartInv /\ PageInv /\ DiskInv
  BY DEF StartInv, PageInv, DiskInv, Init
<1>4. LoginInv /\ BusyInv
  BY <1>1 DEF LoginInv, Answered, BusyInv, BusyLoginWaits, Awaited, Init
<1> QED
  BY <1>2, <1>3, <1>4 DEF AppInv

\* Every step keeps the invariant, whatever else is under way.
LEMMA NextAppInv == AppInv /\ [Next]_vars => AppInv'
<1> SUFFICES ASSUME AppInv, [Next]_vars PROVE AppInv'
  OBVIOUS
<1>1. ASSUME NEW c \in Calls, SubmitLogin(c) \/ Ask(c) \/ PressLogout(c) PROVE AppInv'
  BY <1>1, PressKeeps
<1>2. ASSUME NEW c \in Calls, Server(c) \/ CallFails(c) PROVE AppInv'
  BY <1>2, AnswerKeeps
<1>3. ASSUME NEW c \in Calls, Receive(c) PROVE AppInv'
  BY <1>3, ReceiveKeeps
<1>4. CASE ToggleGrid \/ \E t \in Tokens : Expire(t)
  BY <1>4, AsideKeeps
<1>5. CASE Restore
  BY <1>5, RestoreKeeps
<1>6. CASE Resume
  BY <1>6, ResumeKeeps
<1>7. CASE DiskStep
  BY <1>7, DiskStepKeeps
<1>8. CASE Kill
  BY <1>8, KillKeeps
<1>9. CASE UNCHANGED vars
  <2>1. AppTypes'
    BY <1>9 DEF AppInv, AppTypes, vars
  <2>2. StartInv' /\ PageInv' /\ DiskInv'
    BY <1>9 DEF AppInv, StartInv, PageInv, DiskInv, vars
  <2>3. LoginInv' /\ BusyInv'
    BY <1>9 DEF AppInv, LoginInv, Answered, BusyInv, BusyLoginWaits, Awaited, vars
  <2> QED
    BY <2>1, <2>2, <2>3 DEF AppInv
<1> QED
  BY <1>1, <1>2, <1>3, <1>4, <1>5, <1>6, <1>7, <1>8, <1>9 DEF Next

\* The inductive invariant of a session.
THEOREM SpecAppInv == Spec => []AppInv
BY InitAppInv, NextAppInv, PTL DEF Spec

\* The variables of the app, the storage and the rows keep their types.
THEOREM AppTypeCorrect == Spec => []AppTypeOK
<1>1. AppInv => AppTypeOK
  BY DEF AppInv, AppTypes, AppTypeOK, Request
<1> QED
  BY <1>1, SpecAppInv, PTL

\* When the last continuation has run, the page, the token in memory and the stored
\* one agree, however logins, logouts and 401s overlapped.
THEOREM QuietAgreementHolds == Spec => []QuietAgreement
<1>1. AppInv => QuietAgreement
  BY DEF AppInv, PageInv, DiskInv, QuietAgreement
<1> QED
  BY <1>1, SpecAppInv, PTL

\* A login screen is never busy with nothing left that would end it.
THEOREM BusyLoginWaitsHolds == Spec => []BusyLoginWaits
<1>1. AppInv => BusyLoginWaits
  BY DEF AppInv, BusyInv
<1> QED
  BY <1>1, SpecAppInv, PTL
=============================================================================
