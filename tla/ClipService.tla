---------------------------- MODULE ClipService ----------------------------
(***************************************************************************)
(* What the recording service promises to the requests for historical      *)
(* clips, without saying how.  A clip (one truck, camera, start and        *)
(* duration) is fetched from MediaMTX at most once at a time and never     *)
(* while a fresh copy is held; a request is promised a clip only while     *)
(* that clip is held or at the moment its fetch succeeds, and what it is   *)
(* served is the clip it asked for.  RecordingCache implements this.       *)
(***************************************************************************)
EXTENDS Naturals

CONSTANTS Keys,      \* the clips that can be asked for
          Requests,  \* the handlers that may be running at once
          NoKey

VARIABLES stage,     \* stage[r]: how far request r has come
          want,      \* want[r]: the clip r asked for, NoKey when idle
          got,       \* got[r]: the clip r is being served, or NoKey
          fetching,  \* the clips being fetched from MediaMTX
          held,      \* the clips kept for the next request
          stale      \* the held clips whose lifetime is over

vars == <<stage, want, got, fetching, held, stale>>

Init == /\ stage = [r \in Requests |-> "idle"]
        /\ want = [r \in Requests |-> NoKey]
        /\ got = [r \in Requests |-> NoKey]
        /\ fetching = {} /\ held = {} /\ stale = {}

Asking(k) == {r \in Requests : stage[r] = "asked" /\ want[r] = k}

\* Some of the requests waiting for k learn how its fetch ended.  A request
\* that has not joined the fetch yet is not among them.
Settle(k, verdict) ==
  \E S \in SUBSET Asking(k) :
    stage' = [r \in Requests |-> IF r \in S THEN verdict ELSE stage[r]]

Ask(r, k) == /\ stage[r] = "idle"
             /\ stage' = [stage EXCEPT ![r] = "asked"]
             /\ want' = [want EXCEPT ![r] = k]
             /\ UNCHANGED <<got, fetching, held, stale>>

\* A fetch starts for a clip somebody asked for, that nobody is fetching and
\* of which no fresh copy is held.
StartFetch(k) == /\ Asking(k) # {}
                 /\ k \notin fetching
                 /\ k \notin held \ stale
                 /\ fetching' = fetching \cup {k}
                 /\ held' = held \ {k}
                 /\ stale' = stale \ {k}
                 /\ UNCHANGED <<stage, want, got>>

FetchOk(k) == /\ k \in fetching
              /\ fetching' = fetching \ {k}
              /\ held' = held \cup {k}
              /\ Settle(k, "promised")
              /\ UNCHANGED <<want, got, stale>>

FetchFail(k) == /\ k \in fetching
                /\ fetching' = fetching \ {k}
                /\ Settle(k, "refused")
                /\ UNCHANGED <<want, got, held, stale>>

Hit(r) == /\ stage[r] = "asked"
          /\ want[r] \in held
          /\ stage' = [stage EXCEPT ![r] = "promised"]
          /\ UNCHANGED <<want, got, fetching, held, stale>>

Serve(r) == /\ stage[r] = "promised"
            /\ stage' = [stage EXCEPT ![r] = "served"]
            /\ got' = [got EXCEPT ![r] = want[r]]
            /\ UNCHANGED <<want, fetching, held, stale>>

\* The client went away, or the clip did.
Refuse(r) == /\ stage[r] \in {"asked", "promised"}
             /\ stage' = [stage EXCEPT ![r] = "refused"]
             /\ UNCHANGED <<want, got, fetching, held, stale>>

Finish(r) == /\ stage[r] \in {"served", "refused"}
             /\ stage' = [stage EXCEPT ![r] = "idle"]
             /\ want' = [want EXCEPT ![r] = NoKey]
             /\ got' = [got EXCEPT ![r] = NoKey]
             /\ UNCHANGED <<fetching, held, stale>>

\* Time passes: some held clips outlive their lifetime.
Age == /\ \E S \in SUBSET held : stale' = stale \cup S
       /\ UNCHANGED <<stage, want, got, fetching, held>>

Drop(k) == /\ k \in stale
           /\ held' = held \ {k}
           /\ stale' = stale \ {k}
           /\ UNCHANGED <<stage, want, got, fetching>>

Reset == /\ stage' = [r \in Requests |-> "idle"]
         /\ want' = [r \in Requests |-> NoKey]
         /\ got' = [r \in Requests |-> NoKey]
         /\ fetching' = {} /\ held' = {} /\ stale' = {}

Next == \/ \E r \in Requests : \/ \E k \in Keys : Ask(r, k)
                               \/ Hit(r) \/ Serve(r) \/ Refuse(r) \/ Finish(r)
        \/ \E k \in Keys : \/ StartFetch(k) \/ FetchOk(k) \/ FetchFail(k)
                           \/ Drop(k)
        \/ Age
        \/ Reset

Spec == Init /\ [][Next]_vars
=============================================================================
