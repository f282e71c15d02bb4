----------------------------- MODULE Registration -----------------------------
(***************************************************************************)
(* User agents, their subscriptions and the pushes that resolve them:      *)
(* registration.rs, subscription.rs, `register` and `unregister` of        *)
(* session.rs, the push handler and its bridge half (endpoint.rs), and the *)
(* expiry loop (maintenance.rs).                                           *)
(*                                                                         *)
(* A request is a handler under way.  Each of its calls to the store or to *)
(* the platform is one step, and what it read before may be stale.  The    *)
(* bearer secret is an HMAC of the uaid: whoever was issued a uaid has it. *)
(***************************************************************************)
EXTENDS MemoryStore

CONSTANTS
    ReqIds,        \* requests that may be under way together
    MaxClient,     \* how many of them may come from user agents
    ExpireAfter,   \* user_agents.expire_after
    MaxClock       \* bound on the clock

ASSUME RegistrationAssumption ==
    /\ MaxClient \in Nat /\ MaxClock \in Nat
    /\ ExpireAfter \in Nat
    /\ 0..MaxClock \subseteq Times

VARIABLES
    requests,   \* request id -> the handler's state, or None
    alive,      \* the device tokens that the platform accepts
    stored,     \* user agents that a session has stored, and may still serve
    promised,   \* history: subscriptions confirmed to the client, not removed since
    clock       \* now_ms

vars == <<storeVars, requests, alive, stored, promised, clock>>

ClientKinds == {"register", "unregister", "read", "update_token", "delete"}

\* `late`: a push to an endpoint whose user agent was deleted before it began.
Request == [kind : ClientKinds \cup {"push"},
            step : {"create", "authorize", "channel", "create_subscription",
                    "delete_subscription", "update_bridge_token", "touch",
                    "delete_user_agent", "subscription_by_push", "user_agent",
                    "insert", "send", "token_gone"},
            uaid : Maybe(Uaids), channel_id : Maybe(ChannelIds), vapid : Maybe(Keys),
            token : Maybe(Tokens), push : Maybe(PushIds), late : BOOLEAN]

NoRequest == [kind |-> "push", step |-> "create", uaid |-> None, channel_id |-> None,
              vapid |-> None, token |-> None, push |-> None, late |-> FALSE]

\* Request `r` is about to make the call named `step`.
At(r, step) == requests[r] # None /\ requests[r].step = step

Goto(r, step) == requests' = [requests EXCEPT ![r].step = step]

Done(r) == requests' = [requests EXCEPT ![r] = None]

\* The subscription that the handler finds under its channel: none or one.
channel(r) == {s \in channels : s.uaid = requests[r].uaid /\ s.channel_id = requests[r].channel_id}

FromClients == {r \in ReqIds : requests[r] # None /\ requests[r].kind \in ClientKinds}

\* No promise is left once its channel or its user agent is removed.
Revoke(uaids, chs) ==
    promised' = {s \in promised : s.uaid \notin uaids \/ s.channel_id \notin chs}

------------------------------------------------------------------------------
(***************************************************************************)
(* The client side: registration.rs and the session.                       *)
(***************************************************************************)

\* POST /v1/user-agents.
create(u, token) ==
    /\ token \in alive
    /\ create_user_agent(u, [bridge |-> token, last_seen |-> clock])
    /\ UNCHANGED <<requests, alive, stored, promised, clock>>

\* A call of the registration API by the owner of a bridged user agent.
call(r, kind, u, ch, key, token) ==
    /\ requests[r] = None
    /\ Cardinality(FromClients) < MaxClient
    /\ u \in issued
    /\ requests' = [requests EXCEPT ![r] =
          [NoRequest EXCEPT !.kind = kind, !.step = "authorize", !.uaid = u,
              !.channel_id = ch, !.vapid = key, !.token = token]]
    /\ UNCHANGED <<storeVars, alive, stored, promised, clock>>

\* authorize: 404 unless the user agent exists and is bridged.
authorize(r) ==
    LET u == requests[r].uaid
        next == [register |-> "channel", unregister |-> "channel", read |-> "touch",
                 update_token |-> "update_bridge_token", delete |-> "delete_user_agent"]
    IN  /\ At(r, "authorize")
        /\ IF user_agents[u] # None /\ user_agents[u].bridge # None
           THEN Goto(r, next[requests[r].kind]) ELSE Done(r)
        /\ UNCHANGED <<storeVars, alive, stored, promised, clock>>

\* `register` on a session.  Its user agent is stored, or is fresh and has
\* this session only.  A session may outlive its user agent's expiry.
session_register(r, u, ch, key) ==
    /\ requests[r] = None
    /\ Cardinality(FromClients) < MaxClient
    /\ \/ u \in stored
       \/ u \notin issued /\ \A q \in FromClients : requests[q].uaid # u
    /\ requests' = [requests EXCEPT ![r] =
          [NoRequest EXCEPT !.kind = "register",
              !.step = IF u \in stored THEN "channel" ELSE "create",
              !.uaid = u, !.channel_id = ch, !.vapid = key]]
    /\ UNCHANGED <<storeVars, alive, stored, promised, clock>>

session_create(r) ==
    /\ At(r, "create")
    /\ create_user_agent(requests[r].uaid, [bridge |-> None, last_seen |-> clock])
    /\ stored' = stored \cup {requests[r].uaid}
    /\ Goto(r, "channel")
    /\ UNCHANGED <<alive, promised, clock>>

\* `unregister` on a session with a stored user agent.
session_unregister(r, u, ch) ==
    /\ requests[r] = None
    /\ Cardinality(FromClients) < MaxClient
    /\ u \in stored
    /\ requests' = [requests EXCEPT ![r] =
          [NoRequest EXCEPT !.kind = "unregister", !.step = "delete_subscription",
              !.uaid = u, !.channel_id = ch]]
    /\ UNCHANGED <<storeVars, alive, stored, promised, clock>>

\* Faulty: whatever key the channel has, it is confirmed.
register_lookup_any_key(r) ==
    /\ At(r, "channel")
    /\ requests[r].kind = "register"
    /\ IF channel(r) = {} THEN Goto(r, "create_subscription") /\ UNCHANGED promised
       ELSE /\ promised' = promised \cup {[s EXCEPT !.vapid = requests[r].vapid] : s \in channel(r)}
            /\ Done(r)
    /\ UNCHANGED <<storeVars, alive, stored, clock>>

\* Faulty: an existing subscription is registered anew.
register_lookup_blind(r) ==
    /\ At(r, "channel")
    /\ requests[r].kind = "register"
    /\ Goto(r, "create_subscription")
    /\ UNCHANGED <<storeVars, alive, stored, promised, clock>>

\* subscription::register, the lookup.  An identical subscription is
\* confirmed, one with another key is a conflict.
register_lookup(r) ==
    /\ At(r, "channel")
    /\ requests[r].kind = "register"
    /\ IF channel(r) = {} THEN Goto(r, "create_subscription") /\ UNCHANGED promised
       ELSE /\ promised' = promised \cup {s \in channel(r) : s.vapid = requests[r].vapid}
            /\ Done(r)
    /\ UNCHANGED <<storeVars, alive, stored, clock>>

\* subscription::register, the creation, with push resource `p`.
register_create(r, p) ==
    LET s == [uaid |-> requests[r].uaid, channel_id |-> requests[r].channel_id,
              push |-> p, vapid |-> requests[r].vapid]
    IN  /\ At(r, "create_subscription")
        /\ create_subscription(s)
        /\ promised' = promised \cup {s}
        /\ Done(r)
        /\ UNCHANGED <<alive, stored, clock>>

\* unsubscribe: 404 for an unknown channel.
unsubscribe_lookup(r) ==
    /\ At(r, "channel")
    /\ requests[r].kind = "unregister"
    /\ IF channel(r) = {} THEN Done(r) ELSE Goto(r, "delete_subscription")
    /\ UNCHANGED <<storeVars, alive, stored, promised, clock>>

unsubscribe(r) ==
    /\ At(r, "delete_subscription")
    /\ delete_subscription(requests[r].uaid, requests[r].channel_id)
    /\ Revoke({requests[r].uaid}, {requests[r].channel_id})
    /\ Done(r)
    /\ UNCHANGED <<alive, stored, clock>>

\* update_token and read: a user agent that is gone by now is not an error.
update_token(r) ==
    LET u == requests[r].uaid
    IN  /\ At(r, "update_bridge_token")
        /\ IF user_agents[u] = None THEN UNCHANGED storeVars
           ELSE update_bridge_token(u, requests[r].token)
        /\ Goto(r, "touch")
        /\ UNCHANGED <<alive, stored, promised, clock>>

touch(r) ==
    LET u == requests[r].uaid
    IN  /\ At(r, "touch")
        /\ IF user_agents[u] = None THEN UNCHANGED storeVars
           ELSE touch_user_agent(u, clock)
        /\ Done(r)
        /\ UNCHANGED <<alive, stored, promised, clock>>

delete(r) ==
    /\ At(r, "delete_user_agent")
    /\ delete_user_agent(requests[r].uaid)
    /\ Revoke({requests[r].uaid}, ChannelIds)
    /\ Done(r)
    /\ UNCHANGED <<alive, stored, clock>>

------------------------------------------------------------------------------
(***************************************************************************)
(* The push handler.                                                       *)
(***************************************************************************)

\* POST /push/{p}, for an endpoint that was handed out.
push_begins(r, g) ==
    /\ requests[r] = None
    /\ requests' = [requests EXCEPT ![r] =
          [NoRequest EXCEPT !.step = "subscription_by_push", !.push = g.push,
              !.late = user_agents[g.uaid] = None]]
    /\ UNCHANGED <<storeVars, alive, stored, promised, clock>>

\* 404 unless the push id resolves. The refusals that follow (restricted key,
\* VAPID, TTL and urgency headers, body size) change nothing: the request then
\* ends as it does when the client hangs up.
push_resolve(r) ==
    /\ At(r, "subscription_by_push")
    /\ IF subscription_by_push(requests[r].push) = {} THEN Done(r)
       ELSE \E s \in subscription_by_push(requests[r].push) :
               requests' = [requests EXCEPT ![r].step = "user_agent", ![r].uaid = s.uaid,
                               ![r].channel_id = s.channel_id]
    /\ UNCHANGED <<storeVars, alive, stored, promised, clock>>

\* Faulty: a missing user agent is taken for one with sessions.
push_agent_unchecked(r) ==
    LET ua == user_agents[requests[r].uaid]
    IN  /\ At(r, "user_agent")
        /\ requests' = [requests EXCEPT
              ![r].step = IF ua = None \/ ua.bridge = None THEN "insert" ELSE "send",
              ![r].token = IF ua = None THEN None ELSE ua.bridge]
        /\ UNCHANGED <<storeVars, alive, stored, promised, clock>>

\* 404 unless its user agent exists.  A bridged one is addressed by the token
\* it has now.
push_agent(r) ==
    LET ua == user_agents[requests[r].uaid]
    IN  /\ At(r, "user_agent")
        /\ IF ua = None THEN Done(r)
           ELSE requests' = [requests EXCEPT ![r].step = IF ua.bridge = None THEN "insert" ELSE "send",
                                ![r].token = ua.bridge]
        /\ UNCHANGED <<storeVars, alive, stored, promised, clock>>

\* store_and_notify, without receipt and topic; see Delivery.
push_insert(r, id) ==
    /\ At(r, "insert")
    /\ insert_message([id |-> id, uaid |-> requests[r].uaid, channel_id |-> requests[r].channel_id,
                       topic |-> None, accepted |-> clock, expiry |-> clock, rsub |-> None])
    /\ Done(r)
    /\ UNCHANGED <<alive, stored, promised, clock>>

\* The platform's answer: it takes the message or refuses it, or says that the
\* token is gone.
bridge(r) ==
    /\ At(r, "send")
    /\ \/ Done(r)
       \/ requests[r].token \notin alive /\ Goto(r, "token_gone")
    /\ UNCHANGED <<storeVars, alive, stored, promised, clock>>

\* Whose token is gone is deleted.
bridge_error(r) ==
    /\ At(r, "token_gone")
    /\ delete_user_agent(requests[r].uaid)
    /\ Revoke({requests[r].uaid}, ChannelIds)
    /\ Done(r)
    /\ UNCHANGED <<alive, stored, clock>>

------------------------------------------------------------------------------
(***************************************************************************)
(* Maintenance and the environment.                                        *)
(***************************************************************************)

\* The expiry loop.  The cutoff saturates at 0.
expire ==
    LET cutoff == IF clock > ExpireAfter THEN clock - ExpireAfter ELSE 0
    IN  /\ expire_user_agents(cutoff)
        /\ Revoke(Stale(cutoff), ChannelIds)
        /\ UNCHANGED <<requests, alive, stored, clock>>

\* The client hangs up and its handler is dropped at an await.  A session is a
\* task of its own and is not.
hang_up(r) ==
    /\ requests[r] # None
    /\ \/ requests[r].kind = "push"
       \/ requests[r].uaid \notin stored /\ requests[r].step # "create"
    /\ Done(r)
    /\ UNCHANGED <<storeVars, alive, stored, promised, clock>>

\* The app was uninstalled or the platform replaced the token.
token_dies(token) ==
    /\ token \in alive
    /\ alive' = alive \ {token}
    /\ UNCHANGED <<storeVars, requests, stored, promised, clock>>

tick ==
    /\ clock < MaxClock
    /\ clock' = clock + 1
    /\ UNCHANGED <<storeVars, requests, alive, stored, promised>>

------------------------------------------------------------------------------
RegistrationInit ==
    /\ StoreInit
    /\ requests = [r \in ReqIds |-> None]
    /\ alive = Tokens
    /\ stored = {}
    /\ promised = {}
    /\ clock = 0

ClientCalls ==
    \/ \E u \in Uaids, token \in Tokens : create(u, token)
    \/ \E r \in ReqIds, u \in Uaids : \/ call(r, "delete", u, None, None, None)
                                      \/ call(r, "read", u, None, None, None)
    \/ \E r \in ReqIds, u \in Uaids, token \in alive : call(r, "update_token", u, None, None, token)
    \/ \E r \in ReqIds, u \in Uaids, ch \in ChannelIds :
          \/ call(r, "unregister", u, ch, None, None)
          \/ session_unregister(r, u, ch)
    \/ \E r \in ReqIds, u \in Uaids, ch \in ChannelIds, key \in Maybe(Keys) :
          \/ call(r, "register", u, ch, key, None)
          \/ session_register(r, u, ch, key)

ClientHandlers ==
    \/ \E r \in ReqIds : authorize(r)
    \/ \E r \in ReqIds : session_create(r)
    \/ \E r \in ReqIds : register_lookup(r)
    \/ \E r \in ReqIds, p \in PushIds : register_create(r, p)
    \/ \E r \in ReqIds : unsubscribe_lookup(r)
    \/ \E r \in ReqIds : unsubscribe(r)
    \/ \E r \in ReqIds : update_token(r)
    \/ \E r \in ReqIds : touch(r)
    \/ \E r \in ReqIds : delete(r)

PushHandlers ==
    \/ \E r \in ReqIds, g \in granted : push_begins(r, g)
    \/ \E r \in ReqIds : push_resolve(r)
    \/ \E r \in ReqIds : push_agent(r)
    \/ \E r \in ReqIds, id \in MsgIds : push_insert(r, id)
    \/ \E r \in ReqIds : bridge(r)
    \/ \E r \in ReqIds : bridge_error(r)

RegistrationNext ==
    \/ ClientCalls
    \/ ClientHandlers
    \/ PushHandlers
    \/ expire
    \/ \E r \in ReqIds : hang_up(r)
    \/ \E token \in Tokens : token_dies(token)
    \/ tick

RegistrationSpec == RegistrationInit /\ [][RegistrationNext]_vars

------------------------------------------------------------------------------
(***************************************************************************)
(* Properties.                                                             *)
(***************************************************************************)

\* The types of the requests and the bookkeeping.
RegistrationTypeOK ==
    /\ requests \in [ReqIds -> Maybe(Request)]
    /\ alive \subseteq Tokens
    /\ stored \subseteq issued
    /\ promised \subseteq Subscription
    /\ clock \in 0..MaxClock

\* A push endpoint that a client was told keeps resolving to its subscription,
\* under the key it was registered with, until the channel or the user agent is
\* deleted, as long as the user agent sends one request after the other.
PromisesKept == \A s \in promised : subscription_by_push(s.push) = {s}

\* What clients were told stays true of the store.
RegistrationInv == RegistrationTypeOK /\ PromisesKept

\* "Creating one is an idempotent PUT": a channel has one endpoint, however
\* often it is registered.
IdempotentRegister ==
    \A s, t \in promised : s.uaid = t.uaid /\ s.channel_id = t.channel_id => s = t

\* "Their push endpoints return 404 from then on": a push that begins after
\* the user agent was deleted is neither stored nor sent, though a racing
\* register may have left a subscription behind that still resolves.
DeletedUnreachable ==
    \A r \in ReqIds : requests[r] # None /\ requests[r].late =>
        requests[r].step \notin {"insert", "send", "token_gone"}

\* "Nothing sent to this user agent can arrive again": a user agent is deleted
\* for a token that is gone only while it has no other.
GoneTokensOnly ==
    [][\A r \in ReqIds : At(r, "token_gone") /\ requests'[r] = None =>
          LET ua == user_agents[requests[r].uaid]
          IN  ua # None /\ user_agents'[requests[r].uaid] = None => ua.bridge \notin alive]_vars

==============================================================================
