---------------------------- MODULE PushRequest ----------------------------
(***************************************************************************)
(* A push request from the router to its answer: endpoint.rs (push,        *)
(* check_vapid, store_and_notify, bridge, bridge_error), headers.rs,       *)
(* error.rs and vapid.rs.  The handler takes a step for each call to the   *)
(* store or to a bridge.  A header is the sequence of its values; a value  *)
(* is a number (digits, or the length of a topic) or Junk.  Signatures are *)
(* abstract.  Registration has the races between the lookups.              *)
(***************************************************************************)
EXTENDS Naturals, Sequences

CONSTANTS
    Requests,     \* the requests to answer
    MaxPayload,   \* push.max_payload
    MaxTtl,       \* push.max_ttl
    TtlCeiling,   \* TTL_CEILING, 2^31
    U64Limit,     \* the first number that does not parse, 2^64
    MaxExpAhead,  \* MAX_EXP_AHEAD, a day
    Now,          \* the time of the request
    Junk,         \* a value that does not parse
    NoKey         \* no application server key

ASSUME PushAssumption ==
    /\ MaxPayload \in Nat /\ MaxTtl \in Nat /\ TtlCeiling \in Nat /\ U64Limit \in Nat
    /\ MaxExpAhead \in Nat /\ Now \in Nat
    /\ TtlCeiling <= U64Limit
    /\ Junk \notin Nat \cup {"some", "none"}
    /\ \A r \in Requests :
           /\ r.ttl \in Seq(Nat \cup {Junk})
           /\ r.auth.scheme \in {"absent", "other", "unreadable", "vapid"}
           /\ r.auth.exp \in Nat \cup {Junk}
           /\ r.agent \in {"session", "bridged", "missing"}

VARIABLES
    req,       \* the request, and what it finds: its subscription and user agent
    step,      \* the call the handler makes next
    status,    \* of the answer, 0 before
    rsub,      \* the receipt subscription of the message: "none", "linked" or "created"
    ttl,       \* the effective TTL
    reached,   \* where the message went: "nowhere", "store" or "platform"
    deleted    \* whether the user agent is deleted

pushVars == <<req, step, status, rsub, ttl, reached, deleted>>

NoRequest == [size |-> 0]

PushInit ==
    /\ req = NoRequest
    /\ step = "receive"
    /\ status = 0
    /\ rsub = "none"
    /\ ttl = 0
    /\ reached = "nowhere"
    /\ deleted = FALSE

-----------------------------------------------------------------------------
(* headers.rs *)

(***************************************************************************)
(* single(): a header that may appear at most once.  Invalid is Junk.      *)
(***************************************************************************)
single(values) == IF Len(values) > 1 THEN Junk ELSE values[1]

Smaller(a, b) == IF a < b THEN a ELSE b

(***************************************************************************)
(* Digits that overflow are the ceiling.                                   *)
(***************************************************************************)
parse_ttl(n) == IF n >= U64Limit THEN TtlCeiling ELSE Smaller(n, TtlCeiling)

TtlValid(r) == r.ttl # <<>> /\ single(r.ttl) # Junk

UrgencyValid(r) == r.urgency # <<>> => single(r.urgency) # Junk

TopicValid(r) == r.topic # <<>> => single(r.topic) # Junk /\ single(r.topic) \in 1..32

(***************************************************************************)
(* The receipt Link counts with respond-async only; its target is a        *)
(* receipt subscription's URL here or the URL of something else.           *)
(***************************************************************************)
NamesRsub(r) == r.respond_async /\ r.link # "absent"

LinkValid(r) == NamesRsub(r) => r.link # "foreign"

HeadersValid(r) == TtlValid(r) /\ UrgencyValid(r) /\ TopicValid(r) /\ LinkValid(r)

-----------------------------------------------------------------------------
(* vapid.rs and check_vapid() *)

(***************************************************************************)
(* parse_authorization(): "none" for another scheme, which is as good as   *)
(* no header, Junk for what is malformed, lacks a parameter or has a key   *)
(* that is none.                                                           *)
(***************************************************************************)
Credentials(r) == IF r.auth.scheme = "vapid" THEN "some" ELSE IF r.auth.scheme = "unreadable" THEN Junk ELSE "none"

ParamsValid(a) == a.params = "t, k" /\ a.key # NoKey

(***************************************************************************)
(* Faulty: a token for another push service is accepted.                   *)
(***************************************************************************)
verify_anywhere(a) ==
    /\ a.on_curve
    /\ a.alg = "ES256"
    /\ a.signed_by = a.key
    /\ a.exp # Junk /\ Now <= a.exp /\ a.exp - Now <= MaxExpAhead

(***************************************************************************)
(* verify(): three segments, ES256, the signature of that key, and claims  *)
(* that are current and for this origin.                                   *)
(***************************************************************************)
verify(a) ==
    /\ a.on_curve
    /\ a.alg = "ES256"
    /\ a.signed_by = a.key
    /\ a.exp # Junk /\ Now <= a.exp /\ a.exp - Now <= MaxExpAhead
    /\ a.aud

(***************************************************************************)
(* check_vapid(): the status of the refusal, or 0.                         *)
(***************************************************************************)
check_vapid(r) ==
    CASE Credentials(r) = Junk -> 403
      [] Credentials(r) = "none" -> IF r.restricted # NoKey THEN 401 ELSE 0
      [] OTHER -> IF ParamsValid(r.auth) /\ verify(r.auth) /\ r.restricted \in {NoKey, r.auth.key}
                  THEN 0 ELSE 403

(***************************************************************************)
(* The message is encrypted with the application server's key.             *)
(***************************************************************************)
SameKey(r) == Credentials(r) = "some" /\ r.cenc = "aes128gcm" /\ r.keyid = r.auth.key

-----------------------------------------------------------------------------
(* The handler *)

answers(code) ==
    /\ status' = code
    /\ step' = "done"

proceeds(next) ==
    /\ step' = next
    /\ UNCHANGED status

(***************************************************************************)
(* The router refuses a body above the limit, the handler an id that it    *)
(* cannot have issued.                                                     *)
(***************************************************************************)
receive(r) ==
    /\ step = "receive"
    /\ req' = r
    /\ IF r.size > MaxPayload THEN answers(413)
       ELSE IF ~r.is_id THEN answers(404)
       ELSE proceeds("resolve")
    /\ UNCHANGED <<rsub, ttl, reached, deleted>>

(***************************************************************************)
(* Faulty: the receipt subscription is made as soon as it is asked for.    *)
(***************************************************************************)
resolve_creating ==
    /\ step = "resolve"
    /\ IF ~req.subscribed THEN answers(404) /\ UNCHANGED <<ttl, rsub>>
       ELSE IF ~HeadersValid(req) THEN answers(400) /\ UNCHANGED <<ttl, rsub>>
       ELSE /\ ttl' = Smaller(parse_ttl(single(req.ttl)), MaxTtl)
            /\ rsub' = IF req.respond_async /\ ~NamesRsub(req) THEN "created" ELSE rsub
            /\ proceeds(IF NamesRsub(req) THEN "link" ELSE "authorize")
    /\ UNCHANGED <<req, reached, deleted>>

(***************************************************************************)
(* subscription_by_push(), then the headers.                               *)
(***************************************************************************)
resolve ==
    /\ step = "resolve"
    /\ IF ~req.subscribed THEN answers(404) /\ UNCHANGED ttl
       ELSE IF ~HeadersValid(req) THEN answers(400) /\ UNCHANGED ttl
       ELSE /\ ttl' = Smaller(parse_ttl(single(req.ttl)), MaxTtl)
            /\ proceeds(IF NamesRsub(req) THEN "link" ELSE "authorize")
    /\ UNCHANGED <<req, rsub, reached, deleted>>

(***************************************************************************)
(* receipt_sub_exists()                                                    *)
(***************************************************************************)
check_link ==
    /\ step = "link"
    /\ IF req.link = "unknown" THEN answers(400) /\ UNCHANGED rsub
       ELSE rsub' = "linked" /\ proceeds("authorize")
    /\ UNCHANGED <<req, ttl, reached, deleted>>

(***************************************************************************)
(* check_vapid() and the comparison of keys, which wait for nothing.       *)
(***************************************************************************)
authorize ==
    /\ step = "authorize"
    /\ IF check_vapid(req) # 0 THEN answers(check_vapid(req))
       ELSE IF SameKey(req) THEN answers(400)
       ELSE proceeds("agent")
    /\ UNCHANGED <<req, rsub, ttl, reached, deleted>>

(***************************************************************************)
(* user_agent(), which may have been deleted since.                        *)
(***************************************************************************)
find_agent ==
    /\ step = "agent"
    /\ IF req.agent = "missing" THEN answers(404)
       ELSE proceeds(CASE req.agent = "bridged" -> "bridge"
                       [] req.agent = "session" /\ req.respond_async /\ rsub = "none" -> "rsub"
                       [] OTHER -> "insert")
    /\ UNCHANGED <<req, rsub, ttl, reached, deleted>>

(***************************************************************************)
(* store_and_notify(): create_receipt_sub() if one is needed.              *)
(***************************************************************************)
create_rsub ==
    /\ step = "rsub"
    /\ rsub' = "created"
    /\ proceeds("insert")
    /\ UNCHANGED <<req, ttl, reached, deleted>>

(***************************************************************************)
(* store_and_notify(): insert_message() and the announcement.              *)
(***************************************************************************)
insert ==
    /\ step = "insert"
    /\ reached' = "store"
    /\ answers(IF rsub = "none" THEN 201 ELSE 202)
    /\ UNCHANGED <<req, rsub, ttl, deleted>>

(***************************************************************************)
(* A call to the store fails.                                              *)
(***************************************************************************)
store_fails ==
    /\ step \in {"resolve", "link", "agent", "rsub", "insert"}
    /\ answers(500)
    /\ UNCHANGED <<req, rsub, ttl, reached, deleted>>

(***************************************************************************)
(* The errors of the bridges.                                              *)
(***************************************************************************)
BridgeErrors == {"UnknownApp", "TokenGone", "TooLarge", "Throttled", "Rejected", "Unavailable"}

(***************************************************************************)
(* bridge_error(): the answer to a failure of the bridge.  A user agent    *)
(* whose token is gone is deleted, unless the store fails.                 *)
(***************************************************************************)
bridge_error(e) ==
    /\ answers(CASE e = "TokenGone" -> 410
                 [] e = "TooLarge" -> 413
                 [] e = "Throttled" -> 429
                 [] OTHER -> 502)
    /\ deleted' \in IF e = "TokenGone" THEN BOOLEAN ELSE {FALSE}

(***************************************************************************)
(* bridge(): the message goes to the platform, or its bridge is no longer  *)
(* configured.  A receipt is not offered.                                  *)
(***************************************************************************)
bridge ==
    /\ step = "bridge"
    /\ \/ answers(502) /\ UNCHANGED <<reached, deleted>>
       \/ answers(201) /\ reached' = "platform" /\ UNCHANGED deleted
       \/ \E e \in BridgeErrors : bridge_error(e) /\ UNCHANGED reached
    /\ UNCHANGED <<req, rsub, ttl>>

PushNext ==
    \/ step = "receive" /\ \E r \in Requests : receive(r)
    \/ resolve \/ check_link \/ authorize \/ find_agent \/ create_rsub \/ insert \/ bridge \/ store_fails

PushSpec == PushInit /\ [][PushNext]_pushVars

-----------------------------------------------------------------------------

(***************************************************************************)
(* "A push is validated in a fixed order, so each failure maps to exactly  *)
(* one status": the answer is that of the first line of the table at the   *)
(* top of endpoint.rs that applies, unless the store failed.               *)
(***************************************************************************)
Documented ==
    IF ~req.is_id \/ ~req.subscribed THEN {404}
    ELSE IF ~HeadersValid(req) \/ (NamesRsub(req) /\ req.link = "unknown") THEN {400}
    ELSE IF req.restricted # NoKey /\ req.auth.scheme \in {"absent", "other"} THEN {401}
    ELSE IF \/ req.auth.scheme = "unreadable"
            \/ req.auth.scheme = "vapid" /\ ~(ParamsValid(req.auth) /\ verify(req.auth))
            \/ req.auth.scheme = "vapid" /\ req.restricted \notin {NoKey, req.auth.key} THEN {403}
    ELSE IF SameKey(req) THEN {400}
    ELSE IF req.agent = "missing" THEN {404}
    ELSE IF req.agent = "bridged" THEN {201, 410, 413, 429, 502}
    ELSE IF req.respond_async THEN {202} ELSE {201}

AnsweredInOrder ==
    step = "done" => status \in (IF req.size > MaxPayload THEN {413} ELSE Documented \cup {500})

(***************************************************************************)
(* RFC 8292 section 4.2: what reaches the store or the platform through a  *)
(* restricted subscription carries a current token for this origin, signed *)
(* with the restricting key; and credentials that do not verify are not    *)
(* accepted on any subscription.                                           *)
(***************************************************************************)
RestrictionHolds ==
    reached # "nowhere" =>
        /\ req.restricted # NoKey => req.auth.scheme = "vapid" /\ req.auth.signed_by = req.restricted
        /\ req.auth.scheme = "vapid" => req.auth.aud /\ req.auth.exp \in Now..(Now + MaxExpAhead)

(***************************************************************************)
(* A push that is refused leaves nothing behind: no message, and no        *)
(* receipt subscription that nobody knows of.  Only a token that is gone   *)
(* costs the user agent its registration.                                  *)
(***************************************************************************)
RefusedLeavesNothing ==
    status \in {400, 401, 403, 404, 410, 413, 429, 502} =>
        reached = "nowhere" /\ rsub # "created" /\ (deleted => status = 410)

(***************************************************************************)
(* The message lives as long as it was asked to, up to the limits: a TTL   *)
(* too large for an integer is a long one.                                 *)
(***************************************************************************)
TtlKept ==
    reached # "nowhere" => ttl = Smaller(single(req.ttl), Smaller(TtlCeiling, MaxTtl))

(***************************************************************************)
(* What push() decides: its answers come in the documented order, a        *)
(* refusal leaves nothing behind, and what is accepted keeps its lifetime. *)
(***************************************************************************)
PushDecided == AnsweredInOrder /\ RefusedLeavesNothing /\ TtlKept
=============================================================================
