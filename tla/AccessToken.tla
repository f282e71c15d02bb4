---------------------------- MODULE AccessToken ----------------------------
(***************************************************************************)
(* The cache of Google access tokens (webpush-gcp-auth) under the sends of *)
(* the FCM bridge (webpush-fcm) of one application.  Sends run             *)
(* concurrently; each asks the cache for a token, waiting for its lock,    *)
(* then posts the message.  token() holds the lock across the request for  *)
(* a new token.  The token endpoint and FCM are external.                  *)
(***************************************************************************)
EXTENDS Naturals, FiniteSets, Sequences, SequencesExt

CONSTANTS
    Sends,       \* pushes for bridged user agents, one send each
    Margin,      \* REFRESH_MARGIN
    Timeout,     \* the HTTP client's timeout
    Lifetimes,   \* the values of expires_in
    MaxTime,     \* bound on the clock
    MaxRevoked,  \* bound on the tokens that are revoked
    NoToken      \* no token

(***************************************************************************)
(* The defaults are 60 s, 10 s and an hour.  A timeout above the margin,   *)
(* which the configuration allows, lets a token lapse on its way.          *)
(***************************************************************************)
ASSUME AccessAssumption ==
    /\ Margin \in Nat /\ Timeout \in Nat /\ MaxTime \in Nat /\ MaxRevoked \in Nat
    /\ Timeout <= Margin
    /\ Lifetimes \subseteq Nat
    /\ \A l \in Lifetimes : l > 2 * Timeout
    /\ \E longest \in Lifetimes : \A l \in Lifetimes : l <= longest
    /\ NoToken \notin Nat
    /\ IsFiniteSet(Sends)

VARIABLES
    cached,    \* the number of the cached token, or NoToken
    lock,      \* the sends that wait for the cache's mutex; the first holds it
    sends,     \* the state of each send
    issued,    \* the tokens fetched, in order: what the endpoint and the cache know of them
    revoked,   \* the tokens FCM no longer accepts
    device,    \* the device the sends are for, as FCM knows it
    now        \* the clock

accessVars == <<cached, lock, sends, issued, revoked, device, now>>

(***************************************************************************)
(* A token is valid until a time that counts from when it was issued; the  *)
(* cache counts from when it was requested.                                *)
(***************************************************************************)
Token == [until : Nat, requested : Nat, expires : Nat]

(***************************************************************************)
(* What FCM answers: the status, the error code in the body, and whether   *)
(* its message names the registration token.  A proxy's page has no code.  *)
(***************************************************************************)
Answer(status, code, names_token) == [status |-> status, code |-> code, names_token |-> names_token]

Transient ==
    {Answer(403, "none", FALSE), Answer(429, "none", FALSE), Answer(503, "none", FALSE),
     Answer(400, "none", FALSE)}

ForRegistered ==
    Transient \cup {Answer(200, "none", FALSE), Answer(400, "INVALID_ARGUMENT", FALSE)}

ForGone ==
    Transient \cup {Answer(404, "UNREGISTERED", FALSE), Answer(403, "SENDER_ID_MISMATCH", FALSE),
                    Answer(400, "INVALID_ARGUMENT", TRUE)}

(***************************************************************************)
(* A send: its next step, the token it uses, since when its request is     *)
(* under way, and of its outcome what matters afterwards: whether FCM      *)
(* refused the token, and whether deliver() reports the device gone.  A    *)
(* handler that is dropped leaves its send "dropped".                      *)
(***************************************************************************)
Send ==
    [stage : {"idle", "token", "fetching", "sending", "invalidate", "done", "dropped"},
     token : Nat \cup {NoToken}, since : Nat, refused : BOOLEAN, gone : BOOLEAN]

AccessInit ==
    /\ cached = NoToken
    /\ lock = <<>>
    /\ sends = [s \in Sends |-> [stage |-> "idle", token |-> NoToken, since |-> 0,
                                refused |-> FALSE, gone |-> FALSE]]
    /\ device = "registered"
    /\ issued = <<>>
    /\ revoked = {}
    /\ now = 0

-----------------------------------------------------------------------------

Holds(s) == lock # <<>> /\ Head(lock) = s

Queued(s) == \E i \in DOMAIN lock : lock[i] = s

(***************************************************************************)
(* The cached token is handed out while more than the margin remains.      *)
(***************************************************************************)
Usable == cached # NoToken /\ issued[cached].expires > now + Margin

(***************************************************************************)
(* The send ends; only a token that was refused is remembered.             *)
(***************************************************************************)
Ends(s) == sends' = [sends EXCEPT ![s].stage = "done", ![s].token = NoToken, ![s].since = 0]

(***************************************************************************)
(* deliver() refuses an unknown application and a message above the limit  *)
(* without a request, else calls token().                                  *)
(***************************************************************************)
deliver(s) ==
    /\ sends[s].stage = "idle"
    /\ \/ Ends(s) /\ UNCHANGED lock
       \/ /\ sends' = [sends EXCEPT ![s].stage = "token"]
          /\ lock' = Append(lock, s)
    /\ UNCHANGED <<cached, issued, revoked, device, now>>

(***************************************************************************)
(* token() with the lock: the cached token, and the lock is released.      *)
(***************************************************************************)
token(s) ==
    /\ sends[s].stage = "token" /\ Holds(s)
    /\ Usable
    /\ sends' = [sends EXCEPT ![s].stage = "sending", ![s].token = cached, ![s].since = now]
    /\ lock' = Tail(lock)
    /\ UNCHANGED <<cached, issued, revoked, device, now>>

(***************************************************************************)
(* token() with the lock and no usable token: a request for one, with the  *)
(* time noted before it is sent.                                           *)
(***************************************************************************)
fetch(s) ==
    /\ sends[s].stage = "token" /\ Holds(s)
    /\ ~Usable
    /\ sends' = [sends EXCEPT ![s].stage = "fetching", ![s].since = now]
    /\ UNCHANGED <<cached, lock, issued, revoked, device, now>>

(***************************************************************************)
(* Faulty: the lifetime counts from the response.                          *)
(***************************************************************************)
fetched_late(s, at, lifetime) ==
    /\ sends[s].stage = "fetching"
    /\ issued' = Append(issued, [until |-> at + lifetime, requested |-> sends[s].since,
                                 expires |-> now + lifetime])
    /\ cached' = Len(issued')
    /\ sends' = [sends EXCEPT ![s].stage = "sending", ![s].token = Len(issued'), ![s].since = now]
    /\ lock' = Tail(lock)
    /\ UNCHANGED <<revoked, device, now>>

(***************************************************************************)
(* The response arrives: the token is cached and the lock released.  The   *)
(* endpoint (external) issued the token at some time since the request.    *)
(***************************************************************************)
fetched(s, at, lifetime) ==
    /\ sends[s].stage = "fetching"
    /\ issued' = Append(issued, [until |-> at + lifetime, requested |-> sends[s].since,
                                 expires |-> sends[s].since + lifetime])
    /\ cached' = Len(issued')
    /\ sends' = [sends EXCEPT ![s].stage = "sending", ![s].token = Len(issued'), ![s].since = now]
    /\ lock' = Tail(lock)
    /\ UNCHANGED <<revoked, device, now>>

(***************************************************************************)
(* The endpoint cannot be reached, refuses, or answers too late or with    *)
(* something else: the cache stays as it was.                              *)
(***************************************************************************)
fetch_fails(s) ==
    /\ sends[s].stage = "fetching"
    /\ Ends(s)
    /\ lock' = Tail(lock)
    /\ UNCHANGED <<cached, issued, revoked, device, now>>

(***************************************************************************)
(* Faulty: every INVALID_ARGUMENT is taken for a malformed token.          *)
(***************************************************************************)
classify_by_code(a) ==
    IF a.status = 404 \/ a.code # "none" THEN "TokenGone"
    ELSE IF a.status = 429 THEN "Throttled"
    ELSE IF a.status = 400 THEN "Rejected"
    ELSE "Unavailable"

(***************************************************************************)
(* The error for an answer that is no success.                             *)
(***************************************************************************)
classify(a) ==
    IF a.status = 404 \/ a.code \in {"UNREGISTERED", "SENDER_ID_MISMATCH"} THEN "TokenGone"
    ELSE IF a.status = 429 THEN "Throttled"
    ELSE IF a.status = 400 THEN IF a.code = "INVALID_ARGUMENT" /\ a.names_token
                                THEN "TokenGone" ELSE "Rejected"
    ELSE "Unavailable"

(***************************************************************************)
(* FCM answers 401 to a token that has lapsed or is revoked, and to no     *)
(* other; else it answers for the device.                                  *)
(***************************************************************************)
Refuses(t) == now >= issued[t].until \/ t \in revoked

(***************************************************************************)
(* Faulty: a 401 is an error like any other.                               *)
(***************************************************************************)
refused_only(s) ==
    /\ sends[s].stage = "sending"
    /\ Refuses(sends[s].token)
    /\ sends' = [sends EXCEPT ![s].stage = "done", ![s].since = 0, ![s].refused = TRUE]
    /\ UNCHANGED <<cached, lock, issued, revoked, device, now>>

(***************************************************************************)
(* deliver() is refused: it calls invalidate(), which waits for the lock.  *)
(***************************************************************************)
refused(s) ==
    /\ sends[s].stage = "sending"
    /\ Refuses(sends[s].token)
    /\ sends' = [sends EXCEPT ![s].stage = "invalidate", ![s].since = 0, ![s].refused = TRUE]
    /\ lock' = Append(lock, s)
    /\ UNCHANGED <<cached, issued, revoked, device, now>>

(***************************************************************************)
(* deliver() gets any other answer.                                        *)
(***************************************************************************)
answered(s) ==
    /\ sends[s].stage = "sending"
    /\ ~Refuses(sends[s].token)
    /\ \E a \in IF device = "registered" THEN ForRegistered ELSE ForGone :
           sends' = [sends EXCEPT ![s].stage = "done", ![s].token = NoToken, ![s].since = 0,
                                ![s].gone = a.status # 200 /\ classify(a) = "TokenGone"]
    /\ UNCHANGED <<cached, lock, issued, revoked, device, now>>

(***************************************************************************)
(* The request fails or times out.                                         *)
(***************************************************************************)
unanswered(s) ==
    /\ sends[s].stage = "sending"
    /\ Ends(s)
    /\ UNCHANGED <<cached, lock, issued, revoked, device, now>>

(***************************************************************************)
(* invalidate() drops whatever is cached.                                  *)
(***************************************************************************)
invalidate(s) ==
    /\ sends[s].stage = "invalidate" /\ Holds(s)
    /\ cached' = NoToken
    /\ sends' = [sends EXCEPT ![s].stage = "done"]
    /\ lock' = Tail(lock)
    /\ UNCHANGED <<issued, revoked, device, now>>

(***************************************************************************)
(* Faulty: a handler that is dropped leaves the cache locked.              *)
(***************************************************************************)
hang_up_locked(s) ==
    /\ sends[s].stage \notin {"idle", "done", "dropped"}
    /\ sends' = [sends EXCEPT ![s].stage = "dropped", ![s].since = 0,
                             ![s].token = IF sends[s].refused THEN @ ELSE NoToken]
    /\ UNCHANGED <<cached, lock, issued, revoked, device, now>>

(***************************************************************************)
(* The push handler is dropped at an await, because its client hung up:    *)
(* the guard, or the place in the queue for it, goes with the handler.     *)
(* One that waits in invalidate() leaves the refused token cached.         *)
(***************************************************************************)
hang_up(s) ==
    /\ sends[s].stage \notin {"idle", "done", "dropped"}
    /\ sends' = [sends EXCEPT ![s].stage = "dropped", ![s].since = 0,
                             ![s].token = IF sends[s].refused THEN @ ELSE NoToken]
    /\ \/ ~Queued(s) /\ UNCHANGED lock
       \/ \E i \in DOMAIN lock : lock[i] = s /\ lock' = RemoveAt(lock, i)
    /\ UNCHANGED <<cached, issued, revoked, device, now>>

(***************************************************************************)
(* External: a token is revoked.                                           *)
(***************************************************************************)
revoke(t) ==
    /\ t \notin revoked /\ Cardinality(revoked) < MaxRevoked
    /\ revoked' = revoked \cup {t}
    /\ UNCHANGED <<cached, lock, sends, issued, device, now>>

(***************************************************************************)
(* External: the app is removed from the device.                           *)
(***************************************************************************)
unregister_device ==
    /\ device = "registered"
    /\ device' = "gone"
    /\ UNCHANGED <<cached, lock, sends, issued, revoked, now>>

(***************************************************************************)
(* Time passes.  No request outlives the timeout of the HTTP client.       *)
(***************************************************************************)
tick ==
    /\ now < MaxTime
    /\ \A s \in Sends : sends[s].stage \in {"fetching", "sending"} => now < sends[s].since + Timeout
    /\ now' = now + 1
    /\ UNCHANGED <<cached, lock, sends, issued, revoked, device>>

Fetched(s) == \E at \in sends[s].since..now, lifetime \in Lifetimes : fetched(s, at, lifetime)

AccessNext ==
    \/ \E s \in Sends :
           \/ deliver(s) \/ token(s) \/ fetch(s) \/ Fetched(s) \/ fetch_fails(s)
           \/ refused(s) \/ answered(s) \/ unanswered(s) \/ invalidate(s) \/ hang_up(s)
    \/ \E t \in DOMAIN issued : revoke(t)
    \/ unregister_device
    \/ tick

(***************************************************************************)
(* Tasks are scheduled, and a request is answered or times out.            *)
(***************************************************************************)
AccessFairness ==
    \A s \in Sends : WF_accessVars(\/ token(s) \/ fetch(s) \/ refused(s) \/ answered(s) \/ unanswered(s)
                                   \/ Fetched(s) \/ fetch_fails(s) \/ invalidate(s))

AccessSpec == AccessInit /\ [][AccessNext]_accessVars /\ AccessFairness

-----------------------------------------------------------------------------

(***************************************************************************)
(* The types of the token cache; a send waits for its lock once.           *)
(***************************************************************************)
AccessTypeOK ==
    /\ cached \in DOMAIN issued \cup {NoToken}
    /\ lock \in Seq(Sends) /\ IsInjective(lock)
    /\ sends \in [Sends -> Send]
    /\ issued \in Seq(Token)
    /\ revoked \subseteq DOMAIN issued
    /\ device \in {"registered", "gone"}
    /\ now \in 0..MaxTime

(***************************************************************************)
(* "Refresh this long before expiry so a token never lapses mid-request":  *)
(* a token is valid for as long as the request that carries it is under    *)
(* way, however long it, and the request for the token, took.              *)
(***************************************************************************)
NeverLapses == \A s \in Sends : sends[s].stage = "sending" => now < issued[sends[s].token].until

(***************************************************************************)
(* A token that FCM refused is out of the cache, and stays out of it, once *)
(* deliver() returns to one of the sends it was refused to.  While it is   *)
(* cached, each of them still waits in invalidate(), or was dropped there. *)
(***************************************************************************)
RefusedForgotten ==
    \A s \in Sends :
        sends[s].refused /\ sends[s].token = cached => sends[s].stage \in {"invalidate", "dropped"}

(***************************************************************************)
(* A device is only reported gone, and its user agent deleted, when FCM no *)
(* longer knows it: not for a refused token, a bad request or a failure.   *)
(***************************************************************************)
GoneIsGone == (\E s \in Sends : sends[s].gone) => device = "gone"

(***************************************************************************)
(* The cache is a Credential: a token is due when the margin is all that   *)
(* remains of it, which is why request times are moved by the margin.      *)
(***************************************************************************)
Early == {i \in 2..Len(issued) : issued[i - 1].expires > issued[i].requested + Margin}

Invalidations == {s \in Sends : sends[s].stage = "done" /\ sends[s].refused}

Cache == INSTANCE Credential WITH
    Times <- 0..(MaxTime + Margin + Max(Lifetimes)),
    Unset <- NoToken,
    current <- IF cached = NoToken THEN NoToken ELSE issued[cached].expires,
    newest <- IF issued = <<>> THEN NoToken ELSE Last(issued).expires,
    early <- Cardinality(Early),
    refusals <- Cardinality(Invalidations)

(***************************************************************************)
(* "Concurrent callers wait for a single refresh": sends that overlap, and *)
(* whose handlers may be dropped, implement the promise of a Credential.   *)
(***************************************************************************)
SharesRefresh == Cache!CredentialSpec

(***************************************************************************)
(* A send that waits for the cache's lock gets it and ends, although the   *)
(* lock is held across requests and its holder may be dropped.             *)
(***************************************************************************)
SendsEnd == \A s \in Sends : sends[s].stage # "idle" ~> sends[s].stage \in {"done", "dropped"}
=============================================================================
