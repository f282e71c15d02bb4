--------------------------- MODULE ProviderToken ---------------------------
(***************************************************************************)
(* The APNs bridge (webpush-apns) of one application: the provider token   *)
(* it signs and reuses, under concurrent pushes.  jwt() and drop_jwt()     *)
(* take a mutex and never wait, so each is part of a step; the request and *)
(* the body of its answer are waited for.  APNs is external.               *)
(***************************************************************************)
EXTENDS Naturals, FiniteSets, Sequences, SequencesExt

CONSTANTS
    Pushes,          \* messages for one device, one send each
    TokenLifetime,   \* TOKEN_LIFETIME
    MaxAge,          \* APNs refuses tokens that are older: an hour
    SendTimeout,     \* the HTTP client's timeout
    MaxInstant,      \* bound on the clock
    NoJwt            \* no token

(***************************************************************************)
(* 40 minutes, an hour, and 10 seconds unless configured otherwise.        *)
(***************************************************************************)
ASSUME ProviderAssumption ==
    /\ TokenLifetime \in Nat /\ MaxAge \in Nat /\ SendTimeout \in Nat /\ MaxInstant \in Nat
    /\ TokenLifetime + SendTimeout <= MaxAge
    /\ NoJwt \notin Nat
    /\ IsFiniteSet(Pushes)

VARIABLES
    jwt,         \* the number of the cached token, or NoJwt
    push,        \* the state of each push
    signed,      \* when each token was signed, in order
    keyRevoked,  \* whether Apple has revoked the signing key
    phone,       \* the device the pushes are for, as APNs knows it
    instant      \* the clock

providerVars == <<jwt, push, signed, keyRevoked, phone, instant>>

Reply(status, reason) == [status |-> status, reason |-> reason]

Busy ==
    {Reply(413, "PayloadTooLarge"), Reply(429, "TooManyRequests"), Reply(503, "Shutdown"),
     Reply(400, "BadTopic"), Reply(403, "Forbidden")}

ForKnown == Busy \cup {Reply(200, "none")}

ForUnknown ==
    Busy \cup {Reply(410, "Unregistered"), Reply(400, "BadDeviceToken"),
               Reply(400, "DeviceTokenNotForTopic")}

Push ==
    [stage : {"idle", "sending", "refused", "done"}, token : Nat \cup {NoJwt},
     since : Nat, dropped : BOOLEAN, gone : BOOLEAN]

ProviderInit ==
    /\ jwt = NoJwt
    /\ push = [p \in Pushes |-> [stage |-> "idle", token |-> NoJwt, since |-> 0,
                                 dropped |-> FALSE, gone |-> FALSE]]
    /\ signed = <<>>
    /\ keyRevoked = FALSE
    /\ phone = "known"
    /\ instant = 0

-----------------------------------------------------------------------------

(***************************************************************************)
(* The cached token is reused until its lifetime is over.                  *)
(***************************************************************************)
Reusable == jwt # NoJwt /\ instant < signed[jwt] + TokenLifetime

EndOf(p) == [push[p] EXCEPT !.stage = "done", !.token = NoJwt, !.since = 0]

(***************************************************************************)
(* Faulty: every send signs a token.                                       *)
(***************************************************************************)
send_signing(p) ==
    /\ push[p].stage = "idle"
    /\ \/ push' = [push EXCEPT ![p] = EndOf(p)] /\ UNCHANGED <<jwt, signed>>
       \/ /\ signed' = Append(signed, instant)
          /\ jwt' = Len(signed')
          /\ push' = [push EXCEPT ![p].stage = "sending", ![p].token = jwt', ![p].since = instant]
    /\ UNCHANGED <<keyRevoked, phone, instant>>

(***************************************************************************)
(* send(): an unknown application and a body above the limit end it        *)
(* without a request.  Else jwt() returns the cached token or signs one,   *)
(* and the request is sent.  The device token is one that Apple issued,    *)
(* so that send() does not refuse it itself.                               *)
(***************************************************************************)
send(p) ==
    /\ push[p].stage = "idle"
    /\ \/ push' = [push EXCEPT ![p] = EndOf(p)] /\ UNCHANGED <<jwt, signed>>
       \/ /\ signed' = IF Reusable THEN signed ELSE Append(signed, instant)
          /\ jwt' = IF Reusable THEN jwt ELSE Len(signed')
          /\ push' = [push EXCEPT ![p].stage = "sending", ![p].token = jwt', ![p].since = instant]
    /\ UNCHANGED <<keyRevoked, phone, instant>>

(***************************************************************************)
(* The error for an answer other than 200.                                 *)
(***************************************************************************)
error_of(r) ==
    CASE r.status = 410 -> "TokenGone"
      [] r.status = 400 -> IF r.reason \in {"BadDeviceToken", "DeviceTokenNotForTopic"}
                           THEN "TokenGone" ELSE "Rejected"
      [] r.status = 413 -> "TooLarge"
      [] r.status = 429 -> "Throttled"
      [] OTHER -> "Unavailable"

(***************************************************************************)
(* External: APNs refuses a token that is too old or whose key is revoked. *)
(***************************************************************************)
RefusesJwt(t) == instant > signed[t] + MaxAge \/ keyRevoked

reply(p) ==
    /\ push[p].stage = "sending"
    /\ ~RefusesJwt(push[p].token)
    /\ \E r \in IF phone = "known" THEN ForKnown ELSE ForUnknown :
           push' = [push EXCEPT ![p] = [EndOf(p) EXCEPT
                        !.gone = r.status # 200 /\ error_of(r) = "TokenGone"]]
    /\ UNCHANGED <<jwt, signed, keyRevoked, phone, instant>>

(***************************************************************************)
(* A 403 arrives; its reason is in the body, which is waited for.          *)
(***************************************************************************)
forbidden(p) ==
    /\ push[p].stage = "sending"
    /\ RefusesJwt(push[p].token)
    /\ push' = [push EXCEPT ![p].stage = "refused"]
    /\ UNCHANGED <<jwt, signed, keyRevoked, phone, instant>>

(***************************************************************************)
(* The reason is ExpiredProviderToken or InvalidProviderToken: drop_jwt()  *)
(* drops whatever is cached.                                               *)
(***************************************************************************)
drop_jwt(p) ==
    /\ push[p].stage = "refused"
    /\ jwt' = NoJwt
    /\ push' = [push EXCEPT ![p] = [EndOf(p) EXCEPT !.dropped = TRUE]]
    /\ UNCHANGED <<signed, keyRevoked, phone, instant>>

(***************************************************************************)
(* The request fails or times out, the body of the answer is lost or is    *)
(* not what APNs documents, or the handler is dropped.                     *)
(***************************************************************************)
send_fails(p) ==
    /\ push[p].stage \in {"sending", "refused"}
    /\ push' = [push EXCEPT ![p] = EndOf(p)]
    /\ UNCHANGED <<jwt, signed, keyRevoked, phone, instant>>

(***************************************************************************)
(* External: the signing key is revoked, or trusted again; the app is      *)
(* removed from the device.                                                *)
(***************************************************************************)
change_key ==
    /\ keyRevoked' = ~keyRevoked
    /\ UNCHANGED <<jwt, push, signed, phone, instant>>

remove_app ==
    /\ phone = "known"
    /\ phone' = "unknown"
    /\ UNCHANGED <<jwt, push, signed, keyRevoked, instant>>

pass ==
    /\ instant < MaxInstant
    /\ \A p \in Pushes : push[p].stage \in {"sending", "refused"} => instant < push[p].since + SendTimeout
    /\ instant' = instant + 1
    /\ UNCHANGED <<jwt, push, signed, keyRevoked, phone>>

ProviderNext ==
    \/ \E p \in Pushes : send(p) \/ reply(p) \/ forbidden(p) \/ drop_jwt(p) \/ send_fails(p)
    \/ change_key
    \/ remove_app
    \/ pass

ProviderSpec == ProviderInit /\ [][ProviderNext]_providerVars

-----------------------------------------------------------------------------

(***************************************************************************)
(* A token is never refused for its age: "Inside Apple's window", also     *)
(* when it was handed out at the end of its lifetime and the request is    *)
(* slow.                                                                   *)
(***************************************************************************)
WithinWindow ==
    \A p \in Pushes : push[p].stage = "sending" => instant <= signed[push[p].token] + MaxAge

(***************************************************************************)
(* A device is only reported gone, and its user agent deleted, when APNs   *)
(* no longer knows it.                                                     *)
(***************************************************************************)
UnknownIsGone == (\E p \in Pushes : push[p].gone) => phone = "unknown"

EarlySigned == {i \in 2..Len(signed) : signed[i - 1] + TokenLifetime > signed[i]}

JwtCache == INSTANCE Credential WITH
    Times <- 0..(MaxInstant + TokenLifetime),
    Unset <- NoJwt,
    current <- IF jwt = NoJwt THEN NoJwt ELSE signed[jwt] + TokenLifetime,
    newest <- IF signed = <<>> THEN NoJwt ELSE Last(signed) + TokenLifetime,
    early <- Cardinality(EarlySigned),
    refusals <- Cardinality({p \in Pushes : push[p].dropped})

(***************************************************************************)
(* "Each application reuses its token for 40 minutes": tokens are signed   *)
(* more often only after pushes were refused, once for each of them.       *)
(***************************************************************************)
ReusesJwt == JwtCache!CredentialSpec
=============================================================================
