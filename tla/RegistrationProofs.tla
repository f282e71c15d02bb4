-------------------------- MODULE RegistrationProofs --------------------------
(***************************************************************************)
(* The safety properties of Registration, for every number of user agents, *)
(* channels, push ids, tokens and requests under way.                      *)
(***************************************************************************)
EXTENDS Registration, MemoryStoreProofs

\* A subscription once created belongs to a user agent whose id was handed
\* out, and its push id never leads to another subscription's key.
GrantsKnown ==
    \A g \in granted : /\ g.uaid \in issued
                       /\ push[g.push] \in {None, <<g.uaid, g.channel_id>>}

\* What a handler of the client side holds at each of its steps.
ClientOK(q) ==
    /\ q.kind \in ClientKinds /\ ~q.late
    /\ q.step \in {"create", "authorize", "channel", "create_subscription",
                   "delete_subscription", "update_bridge_token", "touch", "delete_user_agent"}
    /\ q.uaid \in Uaids
    /\ q.step # "create" => q.uaid \in issued
    /\ q.step \in {"create", "create_subscription"} => q.kind = "register"
    /\ q.step = "update_bridge_token" => q.kind = "update_token"
    /\ q.step \in {"channel", "delete_subscription"} => q.kind \in {"register", "unregister"}
    /\ q.kind \in {"register", "unregister"} => q.channel_id \in ChannelIds
    /\ q.kind = "update_token" => q.token \in Tokens

\* What a push handler holds: its push id was granted, what it has looked up
\* is that grant, and a late one never gets past its user agent.
PushOK(q) ==
    /\ q.kind = "push"
    /\ q.step \in {"subscription_by_push", "user_agent", "insert", "send", "token_gone"}
    /\ \E g \in granted :
          /\ g.push = q.push
          /\ q.step # "subscription_by_push" => q.uaid = g.uaid /\ q.channel_id = g.channel_id
          /\ q.late => /\ user_agents[g.uaid] = None
                       /\ q.step \in {"subscription_by_push", "user_agent"}

RequestsOK == \A r \in ReqIds : requests[r] # None => ClientOK(requests[r]) \/ PushOK(requests[r])

\* The inductive invariant of every execution.
RegistrationIInv == StoreInv /\ RegistrationTypeOK /\ GrantsKnown /\ RequestsOK

\* A user agent has at most one request of its own under way.
OneAtATime ==
    \A q, r \in FromClients : requests[q].uaid = requests[r].uaid => q = r

\* What is promised is stored, and who is about to create a subscription
\* has found none and there is still none.
PromiseInv ==
    /\ promised \subseteq channels
    /\ \A r \in ReqIds : At(r, "create_subscription") => channel(r) = {}

------------------------------------------------------------------------------
(***************************************************************************)
(* The store's operations, as far as the handlers rely on them.            *)
(***************************************************************************)

\* Ids and grants are never taken back, and a user agent that is gone stays
\* gone.
StoreMovesOn ==
    /\ issued \subseteq issued'
    /\ granted \subseteq granted'
    /\ \A u \in Uaids : u \in issued /\ user_agents[u] = None => user_agents'[u] = None

StoreGood == StoreInv' /\ GrantsKnown' /\ StoreMovesOn

\* Whatever the store does, a handler's position stays as good as it was.
LEMMA RequestsOutlive ==
    ASSUME StoreInv, GrantsKnown, StoreMovesOn, NEW q
    PROVE  /\ ClientOK(q) => ClientOK(q)'
           /\ PushOK(q) => PushOK(q)'
<1>1. granted \subseteq Subscription
  BY DEF StoreInv, StoreTypeOK
<1>2. \A g \in granted : g.uaid \in Uaids
  BY <1>1 DEF Subscription
<1>3. ClientOK(q) => ClientOK(q)'
  BY DEF ClientOK, StoreMovesOn
<1>4. ASSUME PushOK(q) PROVE PushOK(q)'
  <2>1. PICK g \in granted :
          /\ g.push = q.push
          /\ q.step # "subscription_by_push" => q.uaid = g.uaid /\ q.channel_id = g.channel_id
          /\ q.late => /\ user_agents[g.uaid] = None
                       /\ q.step \in {"subscription_by_push", "user_agent"}
    BY <1>4 DEF PushOK
  <2>2. g \in granted' /\ (q.late => user_agents'[g.uaid] = None)
    BY <2>1, <1>2 DEF StoreMovesOn, GrantsKnown
  <2> QED
    BY <2>1, <2>2, <1>4 DEF PushOK
<1> QED
  BY <1>3, <1>4

\* A step that leaves the store alone.
LEMMA IdleStore ==
    ASSUME StoreInv, GrantsKnown, UNCHANGED storeVars
    PROVE  StoreGood
<1>1. StoreInv'
  BY StutterKeepsInv
<1>2. GrantsKnown' /\ StoreMovesOn
  BY DEF storeVars, GrantsKnown, StoreMovesOn
<1> QED
  BY <1>1, <1>2 DEF StoreGood

LEMMA CreateUserAgentGood ==
    ASSUME StoreInv, GrantsKnown, NEW u \in Uaids, NEW ua \in UserAgent,
           create_user_agent(u, ua)
    PROVE  StoreGood
<1>1. StoreInv'
  BY StepKeepsInv DEF StoreNext
<1>2. user_agents \in [Uaids -> Maybe(UserAgent)]
  BY DEF StoreInv, StoreTypeOK
<1>3. GrantsKnown' /\ StoreMovesOn
  BY <1>2 DEF create_user_agent, GrantsKnown, StoreMovesOn
<1> QED
  BY <1>1, <1>3 DEF StoreGood

LEMMA TouchUserAgentGood ==
    ASSUME StoreInv, GrantsKnown, NEW u \in Uaids, NEW now \in Times,
           touch_user_agent(u, now)
    PROVE  StoreGood
<1>1. StoreInv'
  BY StepKeepsInv DEF StoreNext
<1>2. user_agents \in [Uaids -> Maybe(UserAgent)]
  BY DEF StoreInv, StoreTypeOK
<1>3. GrantsKnown' /\ StoreMovesOn
  BY <1>2 DEF touch_user_agent, GrantsKnown, StoreMovesOn
<1> QED
  BY <1>1, <1>3 DEF StoreGood

LEMMA UpdateTokenGood ==
    ASSUME StoreInv, GrantsKnown, NEW u \in Uaids, NEW token \in Tokens,
           update_bridge_token(u, token)
    PROVE  StoreGood
<1>1. StoreInv'
  BY StepKeepsInv DEF StoreNext
<1>2. user_agents \in [Uaids -> Maybe(UserAgent)]
  BY DEF StoreInv, StoreTypeOK
<1>3. GrantsKnown' /\ StoreMovesOn
  BY <1>2 DEF update_bridge_token, GrantsKnown, StoreMovesOn
<1> QED
  BY <1>1, <1>3 DEF StoreGood

\* Removal only clears entries of the push index.
LEMMA RemovalKeepsGrants ==
    ASSUME StoreInv, GrantsKnown, NEW subs, remove_subscription(subs),
           UNCHANGED <<issued, granted>>
    PROVE  GrantsKnown'
<1>1. granted \subseteq Subscription
  BY DEF StoreInv, StoreTypeOK
<1>2. \A g \in granted : g.push \in PushIds
  BY <1>1 DEF Subscription
<1> QED
  BY <1>2 DEF remove_subscription, GrantsKnown

LEMMA DeleteUserAgentsGood ==
    ASSUME StoreInv, GrantsKnown, NEW uaids, remove_user_agent(uaids)
    PROVE  StoreGood
<1>1. StoreInv'
  BY UserAgentRemovalKeepsInv
<1>2. GrantsKnown'
  BY RemovalKeepsGrants DEF remove_user_agent
<1>3. StoreMovesOn
  BY DEF remove_user_agent, StoreMovesOn
<1> QED
  BY <1>1, <1>2, <1>3 DEF StoreGood

LEMMA DeleteSubscriptionGood ==
    ASSUME StoreInv, GrantsKnown, NEW u \in Uaids, NEW ch \in ChannelIds,
           delete_subscription(u, ch)
    PROVE  StoreGood
<1>1. StoreInv'
  BY StepKeepsInv DEF StoreNext
<1>2. GrantsKnown'
  BY RemovalKeepsGrants DEF delete_subscription
<1>3. StoreMovesOn
  BY DEF delete_subscription, StoreMovesOn
<1> QED
  BY <1>1, <1>2, <1>3 DEF StoreGood

LEMMA CreateSubscriptionGood ==
    ASSUME StoreInv, GrantsKnown, NEW s \in Subscription, s.uaid \in issued,
           create_subscription(s)
    PROVE  StoreGood
<1>1. StoreInv'
  BY StepKeepsInv DEF StoreNext, Subscribable
<1>2. /\ granted \subseteq Subscription
      /\ push \in [PushIds -> Maybe(Uaids \X ChannelIds)]
  BY DEF StoreInv, StoreTypeOK
<1>3. s.push \in PushIds /\ \A g \in granted : g.push # s.push
  BY DEF create_subscription, Subscription
<1>4. GrantsKnown'
  BY <1>2, <1>3 DEF create_subscription, GrantsKnown, Subscription
<1>5. StoreMovesOn
  BY DEF create_subscription, StoreMovesOn
<1> QED
  BY <1>1, <1>4, <1>5 DEF StoreGood

LEMMA InsertMessageGood ==
    ASSUME StoreInv, GrantsKnown, NEW m \in Message, Acceptable(m), insert_message(m)
    PROVE  StoreGood
<1>1. StoreInv'
  BY StepKeepsInv DEF StoreNext
<1>2. GrantsKnown' /\ StoreMovesOn
  BY DEF insert_message, accountVars, GrantsKnown, StoreMovesOn
<1> QED
  BY <1>1, <1>2 DEF StoreGood

------------------------------------------------------------------------------
(***************************************************************************)
(* The handlers keep the invariant.                                        *)
(***************************************************************************)

\* A step of the store alone.
LEMMA RequestsStay ==
    ASSUME RegistrationIInv, StoreGood, UNCHANGED requests
    PROVE  requests' \in [ReqIds -> Maybe(Request)] /\ RequestsOK'
<1>1. ASSUME NEW x \in ReqIds, requests'[x] # None
      PROVE  ClientOK(requests[x])' \/ PushOK(requests[x])'
  <2>1. PICK q : q = requests[x]
    OBVIOUS
  <2>2. requests'[x] = q /\ (ClientOK(q) \/ PushOK(q))
    BY <1>1, <2>1 DEF RegistrationIInv, RequestsOK
  <2>3. ClientOK(q)' \/ PushOK(q)'
    BY <2>2, RequestsOutlive DEF RegistrationIInv, StoreGood
  <2> QED
    BY <2>2, <2>3
<1> QED
  BY <1>1 DEF RequestsOK, RegistrationIInv, RegistrationTypeOK

\* Handler `r` ends; the others stay where they are.
LEMMA RequestEnds ==
    ASSUME RegistrationIInv, StoreGood, NEW r \in ReqIds, Done(r)
    PROVE  requests' \in [ReqIds -> Maybe(Request)] /\ RequestsOK'
<1>1. requests \in [ReqIds -> Maybe(Request)]
  BY DEF RegistrationIInv, RegistrationTypeOK
<1>2. requests' \in [ReqIds -> Maybe(Request)]
  BY <1>1 DEF Done, Maybe
<1>3. ASSUME NEW x \in ReqIds, requests'[x] # None
      PROVE  ClientOK(requests[x])' \/ PushOK(requests[x])'
  <2>1. requests'[x] = requests[x]
    BY <1>1, <1>3 DEF Done
  <2>2. PICK q : q = requests[x]
    OBVIOUS
  <2>3. ClientOK(q) \/ PushOK(q)
    BY <1>3, <2>1, <2>2 DEF RegistrationIInv, RequestsOK
  <2>4. ClientOK(q)' \/ PushOK(q)'
    BY <2>3, RequestsOutlive DEF RegistrationIInv, StoreGood
  <2>5. requests'[x] = q
    BY <2>1, <2>2
  <2> QED
    BY <2>4, <2>5
<1> QED
  BY <1>2, <1>3 DEF RequestsOK

\* Handler `r` begins or goes on as `q`; the others stay where they are.
LEMMA RequestMoves ==
    ASSUME RegistrationIInv, StoreGood, NEW r \in ReqIds, NEW q \in Request,
           requests' = [requests EXCEPT ![r] = q], ClientOK(q)' \/ PushOK(q)'
    PROVE  requests' \in [ReqIds -> Maybe(Request)] /\ RequestsOK'
<1>1. requests \in [ReqIds -> Maybe(Request)]
  BY DEF RegistrationIInv, RegistrationTypeOK
<1>2. requests' \in [ReqIds -> Maybe(Request)]
  BY <1>1 DEF Maybe
<1>3. ASSUME NEW x \in ReqIds, requests'[x] # None
      PROVE  ClientOK(requests[x])' \/ PushOK(requests[x])'
  <2>1. CASE x = r
    BY <1>1, <2>1
  <2>2. CASE x # r
    <3>1. requests'[x] = requests[x]
      BY <1>1, <2>2
    <3>2. PICK y : y = requests[x]
      OBVIOUS
    <3>3. ClientOK(y) \/ PushOK(y)
      BY <1>3, <3>1, <3>2 DEF RegistrationIInv, RequestsOK
    <3>4. ClientOK(y)' \/ PushOK(y)'
      BY <3>3, RequestsOutlive DEF RegistrationIInv, StoreGood
    <3>5. requests'[x] = y
      BY <3>1, <3>2
    <3> QED
      BY <3>4, <3>5
  <2> QED
    BY <2>1, <2>2
<1> QED
  BY <1>2, <1>3 DEF RequestsOK

\* The same when `q` is as good as `r` before the step.
LEMMA RequestGoesOn ==
    ASSUME RegistrationIInv, StoreGood, NEW r \in ReqIds, NEW q \in Request,
           requests' = [requests EXCEPT ![r] = q], ClientOK(q) \/ PushOK(q)
    PROVE  requests' \in [ReqIds -> Maybe(Request)] /\ RequestsOK'
<1>1. ClientOK(q)' \/ PushOK(q)'
  BY RequestsOutlive DEF RegistrationIInv, StoreGood
<1> QED
  BY <1>1, RequestMoves

\* A client's handler goes to another step of its kind.
LEMMA ClientGoesTo ==
    ASSUME RegistrationIInv, StoreGood, NEW r \in ReqIds, NEW step, Goto(r, step),
           requests[r] # None, requests[r].kind \in ClientKinds, requests[r].step # "create",
           \/ step \in {"touch", "delete_user_agent"}
           \/ step = "update_bridge_token" /\ requests[r].kind = "update_token"
           \/ step = "create_subscription" /\ requests[r].kind = "register"
           \/ step \in {"channel", "delete_subscription"}
                 /\ requests[r].kind \in {"register", "unregister"}
    PROVE  requests' \in [ReqIds -> Maybe(Request)] /\ RequestsOK'
<1>1. requests \in [ReqIds -> Maybe(Request)]
  BY DEF RegistrationIInv, RegistrationTypeOK
<1>2. requests[r] \in Request
  BY <1>1 DEF Maybe
<1>3. PICK q : q = [requests[r] EXCEPT !.step = step]
  OBVIOUS
<1>4. q \in Request
  BY <1>2, <1>3 DEF Request
<1>5. requests' = [requests EXCEPT ![r] = q]
  BY <1>3 DEF Goto
<1>6. ClientOK(requests[r])
  BY DEF RegistrationIInv, RequestsOK, PushOK, ClientKinds
<1>7. ClientOK(q)
  BY <1>2, <1>3, <1>6 DEF ClientOK, Request
<1> QED
  BY <1>4, <1>5, <1>7, RequestGoesOn

\* The bookkeeping's types, for a step that promises no more than is stored.
LEMMA BookkeepingKept ==
    ASSUME RegistrationIInv, StoreGood, requests' \in [ReqIds -> Maybe(Request)],
           RequestsOK', alive' \subseteq alive, stored' \subseteq issued',
           promised' \subseteq promised \cup channels', clock' \in 0..MaxClock
    PROVE  RegistrationIInv'
<1>1. channels' \subseteq Subscription
  BY DEF StoreGood, StoreInv, StoreTypeOK
<1>2. RegistrationTypeOK'
  BY <1>1 DEF RegistrationIInv, RegistrationTypeOK
<1> QED
  BY <1>2 DEF RegistrationIInv, StoreGood

\* The clock shows readings that occur.
LEMMA ClockReads ==
    ASSUME RegistrationTypeOK
    PROVE  clock \in Times
BY RegistrationAssumption DEF RegistrationTypeOK

\* The same for a step that changes the store and the requests only.
LEMMA HandlerKept ==
    ASSUME RegistrationIInv, StoreGood, requests' \in [ReqIds -> Maybe(Request)],
           RequestsOK', promised' \subseteq promised \cup channels',
           UNCHANGED <<alive, stored, clock>>
    PROVE  RegistrationIInv'
<1>1. stored' \subseteq issued' /\ clock' \in 0..MaxClock
  BY DEF RegistrationIInv, RegistrationTypeOK, StoreGood, StoreMovesOn
<1> QED
  BY <1>1, BookkeepingKept

\* Requests that arrive.
LEMMA ClientCallKeeps ==
    ASSUME RegistrationIInv, ClientCalls
    PROVE  RegistrationIInv'
<1>0. /\ StoreInv /\ GrantsKnown /\ RequestsOK
      /\ requests \in [ReqIds -> Maybe(Request)]
      /\ alive \subseteq Tokens /\ stored \subseteq issued
      /\ clock \in Times
  BY ClockReads DEF RegistrationIInv, RegistrationTypeOK
<1>1. ASSUME NEW u \in Uaids, NEW token \in Tokens, create(u, token)
      PROVE  RegistrationIInv'
  <2>1. PICK ua : ua = [bridge |-> token, last_seen |-> clock]
    OBVIOUS
  <2>2. ua \in UserAgent
    BY <2>1, <1>0 DEF UserAgent, Maybe
  <2>3. StoreGood
    BY <2>1, <2>2, <1>0, <1>1, CreateUserAgentGood DEF create
  <2>4. requests' \in [ReqIds -> Maybe(Request)] /\ RequestsOK'
    BY <2>3, <1>1, RequestsStay DEF create
  <2> QED
    BY <2>3, <2>4, <1>0, <1>1, HandlerKept DEF create
<1>2. ASSUME NEW r \in ReqIds, NEW kind \in ClientKinds, NEW u \in Uaids,
             NEW ch \in Maybe(ChannelIds), NEW key \in Maybe(Keys), NEW token \in Maybe(Tokens),
             call(r, kind, u, ch, key, token),
             kind \in {"register", "unregister"} => ch \in ChannelIds,
             kind = "update_token" => token \in Tokens
      PROVE  RegistrationIInv'
  <2>1. PICK q : q = [NoRequest EXCEPT !.kind = kind, !.step = "authorize", !.uaid = u,
                         !.channel_id = ch, !.vapid = key, !.token = token]
    OBVIOUS
  <2>2. q \in Request
    BY <2>1 DEF NoRequest, Request, Maybe
  <2>3. ClientOK(q)
    BY <2>1, <1>2 DEF NoRequest, ClientOK, call
  <2>4. StoreGood
    BY <1>0, <1>2, IdleStore DEF call
  <2>5. requests' = [requests EXCEPT ![r] = q]
    BY <2>1, <1>2 DEF call
  <2> QED
    BY <2>2, <2>3, <2>4, <2>5, <1>2, RequestGoesOn, HandlerKept DEF call
<1>3. ASSUME NEW r \in ReqIds, NEW u \in Uaids, NEW ch \in ChannelIds,
             session_unregister(r, u, ch)
      PROVE  RegistrationIInv'
  <2>1. PICK q : q = [NoRequest EXCEPT !.kind = "unregister", !.step = "delete_subscription",
                         !.uaid = u, !.channel_id = ch]
    OBVIOUS
  <2>2. q \in Request
    BY <2>1 DEF NoRequest, Request, Maybe, ClientKinds
  <2>3. ClientOK(q)
    BY <2>1, <1>0, <1>3 DEF NoRequest, ClientOK, session_unregister, ClientKinds
  <2>4. StoreGood
    BY <1>0, <1>3, IdleStore DEF session_unregister
  <2>5. requests' = [requests EXCEPT ![r] = q]
    BY <2>1, <1>3 DEF session_unregister
  <2> QED
    BY <2>2, <2>3, <2>4, <2>5, <1>3, RequestGoesOn, HandlerKept DEF session_unregister
<1>4. ASSUME NEW r \in ReqIds, NEW u \in Uaids, NEW ch \in ChannelIds,
             NEW key \in Maybe(Keys), session_register(r, u, ch, key)
      PROVE  RegistrationIInv'
  <2>1. PICK q : q = [NoRequest EXCEPT !.kind = "register",
                         !.step = IF u \in stored THEN "channel" ELSE "create",
                         !.uaid = u, !.channel_id = ch, !.vapid = key]
    OBVIOUS
  <2>2. q \in Request
    BY <2>1 DEF NoRequest, Request, Maybe, ClientKinds
  <2>3. ClientOK(q)
    BY <2>1, <1>0 DEF NoRequest, ClientOK, ClientKinds
  <2>4. StoreGood
    BY <1>0, <1>4, IdleStore DEF session_register
  <2>5. requests' = [requests EXCEPT ![r] = q]
    BY <2>1, <1>4 DEF session_register
  <2> QED
    BY <2>2, <2>3, <2>4, <2>5, <1>4, RequestGoesOn, HandlerKept DEF session_register
<1>5. /\ {"register", "unregister", "read", "update_token", "delete"} = ClientKinds
      /\ None \in Maybe(ChannelIds) /\ None \in Maybe(Keys) /\ None \in Maybe(Tokens)
      /\ ChannelIds \subseteq Maybe(ChannelIds) /\ alive \subseteq Maybe(Tokens)
  BY <1>0 DEF ClientKinds, Maybe
<1>6. CASE \E r \in ReqIds, u \in Uaids : \/ call(r, "delete", u, None, None, None)
                                          \/ call(r, "read", u, None, None, None)
  BY <1>2, <1>5, <1>6
<1>7. CASE \E r \in ReqIds, u \in Uaids, token \in alive :
              call(r, "update_token", u, None, None, token)
  BY <1>0, <1>2, <1>5, <1>7
<1>8. CASE \E r \in ReqIds, u \in Uaids, ch \in ChannelIds :
              \/ call(r, "unregister", u, ch, None, None)
              \/ session_unregister(r, u, ch)
  BY <1>2, <1>3, <1>5, <1>8
<1>9. CASE \E r \in ReqIds, u \in Uaids, ch \in ChannelIds, key \in Maybe(Keys) :
              \/ call(r, "register", u, ch, key, None)
              \/ session_register(r, u, ch, key)
  BY <1>2, <1>4, <1>5, <1>9
<1> QED
  BY <1>1, <1>6, <1>7, <1>8, <1>9 DEF ClientCalls

\* The steps of the handlers of the client side.
LEMMA ClientHandlerKeeps ==
    ASSUME RegistrationIInv, ClientHandlers
    PROVE  RegistrationIInv'
<1>0. /\ StoreInv /\ GrantsKnown /\ RequestsOK
      /\ requests \in [ReqIds -> Maybe(Request)]
      /\ alive \subseteq Tokens /\ stored \subseteq issued
      /\ clock \in Times /\ promised \subseteq Subscription
  BY ClockReads DEF RegistrationIInv, RegistrationTypeOK
<1>a. ASSUME NEW r \in ReqIds, requests[r] # None,
             requests[r].step \in {"create", "authorize", "channel", "create_subscription",
                "delete_subscription", "update_bridge_token", "touch", "delete_user_agent"}
      PROVE  ClientOK(requests[r])
  BY <1>0, <1>a DEF RequestsOK, PushOK
<1>1. ASSUME NEW r \in ReqIds, authorize(r) PROVE RegistrationIInv'
  <2>1. StoreGood
    BY <1>0, <1>1, IdleStore DEF authorize
  <2>2. ClientOK(requests[r]) /\ At(r, "authorize")
    BY <1>a, <1>1 DEF authorize, At
  <2>3. CASE Done(r)
    BY <2>1, <2>3, <1>1, RequestEnds, HandlerKept DEF authorize
  <2>4. CASE ~Done(r)
    <3> DEFINE next == [register |-> "channel", unregister |-> "channel", read |-> "touch",
                 update_token |-> "update_bridge_token", delete |-> "delete_user_agent"]
    <3>1. Goto(r, next[requests[r].kind])
      BY <2>4, <1>1 DEF authorize
    <3>2. PICK step : step = next[requests[r].kind]
      OBVIOUS
    <3>3. requests[r].kind \in ClientKinds /\ requests[r] # None /\ requests[r].step # "create"
      BY <2>2 DEF ClientOK, At
    <3>4. \/ step \in {"touch", "delete_user_agent"}
          \/ step = "update_bridge_token" /\ requests[r].kind = "update_token"
          \/ step = "create_subscription" /\ requests[r].kind = "register"
          \/ step \in {"channel", "delete_subscription"}
                /\ requests[r].kind \in {"register", "unregister"}
      BY <3>2, <3>3 DEF ClientKinds
    <3>5. requests' \in [ReqIds -> Maybe(Request)] /\ RequestsOK'
      BY <3>1, <3>2, <3>3, <3>4, <2>1, ClientGoesTo
    <3> QED
      BY <3>5, <2>1, <1>1, HandlerKept DEF authorize
  <2> QED
    BY <2>3, <2>4
<1>2. ASSUME NEW r \in ReqIds, session_create(r) PROVE RegistrationIInv'
  <2>1. ClientOK(requests[r]) /\ requests[r] # None /\ requests[r].step = "create"
    BY <1>a, <1>2 DEF session_create, At
  <2>2. requests[r].uaid \in Uaids /\ requests[r] \in Request
    BY <2>1, <1>0 DEF ClientOK, Maybe
  <2>3. PICK ua : ua = [bridge |-> None, last_seen |-> clock]
    OBVIOUS
  <2>4. ua \in UserAgent
    BY <2>3, <1>0 DEF UserAgent, Maybe
  <2>5. create_user_agent(requests[r].uaid, ua)
    BY <2>3, <1>2 DEF session_create
  <2>6. StoreGood
    BY <2>2, <2>4, <2>5, <1>0, CreateUserAgentGood
  <2>7. PICK q : q = [requests[r] EXCEPT !.step = "channel"]
    OBVIOUS
  <2>8. q \in Request /\ q.uaid = requests[r].uaid /\ requests[r].uaid \in issued'
    BY <2>2, <2>5, <2>7 DEF Request, create_user_agent
  <2>9. ClientOK(q)'
    BY <2>1, <2>2, <2>7, <2>8 DEF ClientOK, Request
  <2>10. requests' = [requests EXCEPT ![r] = q]
    BY <2>7, <1>2 DEF session_create, Goto
  <2>11. requests' \in [ReqIds -> Maybe(Request)] /\ RequestsOK'
    BY <2>6, <2>8, <2>9, <2>10, RequestMoves
  <2>12. /\ stored' \subseteq issued' /\ clock' \in 0..MaxClock
         /\ alive' \subseteq alive /\ promised' \subseteq promised
    BY <1>0, <1>2, <2>6, <2>8 DEF session_create, StoreGood, StoreMovesOn, RegistrationIInv,
       RegistrationTypeOK
  <2> QED
    BY <2>6, <2>11, <2>12, BookkeepingKept
<1>3. ASSUME NEW r \in ReqIds, register_lookup(r) PROVE RegistrationIInv'
  <2>1. StoreGood /\ UNCHANGED channels
    BY <1>0, <1>3, IdleStore DEF register_lookup, storeVars
  <2>2. ClientOK(requests[r]) /\ requests[r] # None /\ requests[r].step = "channel"
        /\ requests[r].kind = "register" /\ requests[r].kind \in ClientKinds
    BY <1>a, <1>3 DEF register_lookup, At, ClientKinds
  <2>3. promised' \subseteq promised \cup channels'
    BY <2>1, <1>3 DEF register_lookup, channel
  <2>4. requests' \in [ReqIds -> Maybe(Request)] /\ RequestsOK'
    <3>1. CASE Done(r)
      BY <2>1, <3>1, RequestEnds
    <3>2. CASE Goto(r, "create_subscription")
      BY <2>1, <2>2, <3>2, ClientGoesTo
    <3> QED
      BY <3>1, <3>2, <1>3 DEF register_lookup
  <2> QED
    BY <2>1, <2>3, <2>4, <1>3, HandlerKept DEF register_lookup
<1>4. ASSUME NEW r \in ReqIds, NEW p \in PushIds, register_create(r, p) PROVE RegistrationIInv'
  <2>1. ClientOK(requests[r]) /\ requests[r] # None /\ requests[r].step = "create_subscription"
    BY <1>a, <1>4 DEF register_create, At
  <2>2. PICK s : s = [uaid |-> requests[r].uaid, channel_id |-> requests[r].channel_id,
                      push |-> p, vapid |-> requests[r].vapid]
    OBVIOUS
  <2>3. requests[r] \in Request
    BY <2>1, <1>0 DEF Maybe
  <2>4. s \in Subscription /\ s.uaid \in issued
    BY <2>1, <2>2, <2>3 DEF ClientOK, Request, Subscription
  <2>5. create_subscription(s) /\ promised' = promised \cup {s}
    BY <2>2, <1>4 DEF register_create
  <2>6. StoreGood /\ s \in channels'
    BY <2>4, <2>5, <1>0, CreateSubscriptionGood DEF create_subscription
  <2>7. requests' \in [ReqIds -> Maybe(Request)] /\ RequestsOK'
    BY <2>6, <1>4, RequestEnds DEF register_create
  <2> QED
    BY <2>5, <2>6, <2>7, <1>4, HandlerKept DEF register_create
<1>5. ASSUME NEW r \in ReqIds, unsubscribe_lookup(r) PROVE RegistrationIInv'
  <2>1. StoreGood
    BY <1>0, <1>5, IdleStore DEF unsubscribe_lookup
  <2>2. requests[r] # None /\ requests[r].step = "channel"
        /\ requests[r].kind = "unregister" /\ requests[r].kind \in ClientKinds
    BY <1>5 DEF unsubscribe_lookup, At, ClientKinds
  <2>4. requests' \in [ReqIds -> Maybe(Request)] /\ RequestsOK'
    <3>1. CASE Done(r)
      BY <2>1, <3>1, RequestEnds
    <3>2. CASE Goto(r, "delete_subscription")
      BY <2>1, <2>2, <3>2, ClientGoesTo
    <3> QED
      BY <3>1, <3>2, <1>5 DEF unsubscribe_lookup
  <2> QED
    BY <2>1, <2>4, <1>5, HandlerKept DEF unsubscribe_lookup
<1>6. ASSUME NEW r \in ReqIds, unsubscribe(r) PROVE RegistrationIInv'
  <2>1. ClientOK(requests[r]) /\ requests[r].step = "delete_subscription"
    BY <1>a, <1>6 DEF unsubscribe, At
  <2>2. StoreGood
    BY <2>1, <1>0, <1>6, DeleteSubscriptionGood DEF unsubscribe, ClientOK
  <2> QED
    BY <2>2, <1>6, RequestEnds, HandlerKept DEF unsubscribe, Revoke
<1>7. ASSUME NEW r \in ReqIds, update_token(r) PROVE RegistrationIInv'
  <2>1. ClientOK(requests[r]) /\ requests[r] # None /\ requests[r].step = "update_bridge_token"
    BY <1>a, <1>7 DEF update_token, At
  <2>2. requests[r].uaid \in Uaids /\ requests[r].token \in Tokens
        /\ requests[r].kind \in ClientKinds
    BY <2>1 DEF ClientOK
  <2>3. StoreGood
    BY <2>2, <1>0, <1>7, IdleStore, UpdateTokenGood DEF update_token
  <2>4. requests' \in [ReqIds -> Maybe(Request)] /\ RequestsOK'
    BY <2>1, <2>2, <2>3, <1>7, ClientGoesTo DEF update_token
  <2> QED
    BY <2>3, <2>4, <1>7, HandlerKept DEF update_token
<1>8. ASSUME NEW r \in ReqIds, touch(r) PROVE RegistrationIInv'
  <2>1. ClientOK(requests[r])
    BY <1>a, <1>8 DEF touch, At
  <2>2. StoreGood
    BY <2>1, <1>0, <1>8, IdleStore, TouchUserAgentGood DEF touch, ClientOK
  <2> QED
    BY <2>2, <1>8, RequestEnds, HandlerKept DEF touch
<1>9. ASSUME NEW r \in ReqIds, delete(r) PROVE RegistrationIInv'
  <2>1. StoreGood
    BY <1>0, <1>9, DeleteUserAgentsGood DEF delete, delete_user_agent
  <2> QED
    BY <2>1, <1>9, RequestEnds, HandlerKept DEF delete, Revoke
<1> QED
  BY <1>1, <1>2, <1>3, <1>4, <1>5, <1>6, <1>7, <1>8, <1>9 DEF ClientHandlers

\* The steps of the push handler.
LEMMA PushHandlerKeeps ==
    ASSUME RegistrationIInv, PushHandlers
    PROVE  RegistrationIInv'
<1>0. /\ StoreInv /\ GrantsKnown /\ RequestsOK
      /\ requests \in [ReqIds -> Maybe(Request)]
      /\ clock \in Times
      /\ granted \subseteq Subscription /\ channels \subseteq granted
      /\ user_agents \in [Uaids -> Maybe(UserAgent)]
      /\ \A s, t \in granted : s.push = t.push => s = t
  BY ClockReads DEF RegistrationIInv, RegistrationTypeOK, StoreInv, StoreTypeOK, PushIndexed
<1>a. ASSUME NEW r \in ReqIds, requests[r] # None,
             requests[r].step \in {"subscription_by_push", "user_agent", "insert", "send",
                                   "token_gone"}
      PROVE  PushOK(requests[r]) /\ requests[r] \in Request
  BY <1>0, <1>a DEF RequestsOK, ClientOK, Maybe
<1>1. ASSUME NEW r \in ReqIds, NEW g \in granted, push_begins(r, g) PROVE RegistrationIInv'
  <2>1. PICK q : q = [NoRequest EXCEPT !.step = "subscription_by_push", !.push = g.push,
                         !.late = user_agents[g.uaid] = None]
    OBVIOUS
  <2>2. g.push \in PushIds
    BY <1>0 DEF Subscription
  <2>3. q \in Request
    BY <2>1, <2>2 DEF NoRequest, Request, Maybe
  <2>4. PushOK(q)
    BY <2>1 DEF NoRequest, PushOK
  <2>5. StoreGood
    BY <1>0, <1>1, IdleStore DEF push_begins
  <2>6. requests' = [requests EXCEPT ![r] = q]
    BY <2>1, <1>1 DEF push_begins
  <2> QED
    BY <2>3, <2>4, <2>5, <2>6, <1>1, RequestGoesOn, HandlerKept DEF push_begins
<1>2. ASSUME NEW r \in ReqIds, push_resolve(r) PROVE RegistrationIInv'
  <2>1. StoreGood
    BY <1>0, <1>2, IdleStore DEF push_resolve
  <2>2. CASE Done(r)
    BY <2>1, <2>2, <1>2, RequestEnds, HandlerKept DEF push_resolve
  <2>3. ASSUME NEW s \in subscription_by_push(requests[r].push),
               requests' = [requests EXCEPT ![r].step = "user_agent", ![r].uaid = s.uaid,
                               ![r].channel_id = s.channel_id]
        PROVE  RegistrationIInv'
    <3>1. PushOK(requests[r]) /\ requests[r] \in Request
          /\ requests[r].step = "subscription_by_push"
      BY <1>a, <1>2 DEF push_resolve, At
    <3>2. PICK g \in granted :
             /\ g.push = requests[r].push
             /\ requests[r].late => user_agents[g.uaid] = None
      BY <3>1 DEF PushOK
    <3>3. s \in channels /\ push[g.push] = <<s.uaid, s.channel_id>>
      BY <2>3, <3>2 DEF subscription_by_push
    <3>4. push[g.push] # None
      <4>1. s.uaid \in Uaids /\ s.channel_id \in ChannelIds
        BY <3>3, <1>0 DEF Subscription
      <4> QED
        BY <4>1, <3>3, NoneAssumption
    <3>5. s.uaid = g.uaid /\ s.channel_id = g.channel_id
      <4>1. push[g.push] = <<g.uaid, g.channel_id>>
        BY <3>2, <3>4, <1>0 DEF GrantsKnown
      <4> QED
        BY <4>1, <3>3
    <3>6. PICK q : q = [requests[r] EXCEPT !.step = "user_agent", !.uaid = s.uaid,
                           !.channel_id = s.channel_id]
      OBVIOUS
    <3>7. q \in Request
      <4>1. s.uaid \in Maybe(Uaids) /\ s.channel_id \in Maybe(ChannelIds)
        BY <3>3, <1>0 DEF Subscription, Maybe
      <4> QED
        BY <4>1, <3>1, <3>6 DEF Request
    <3>8. PushOK(q)
      BY <3>1, <3>2, <3>5, <3>6 DEF PushOK, Request
    <3>9. requests' = [requests EXCEPT ![r] = q]
      BY <2>3, <3>6, <3>1, <1>0
    <3> QED
      BY <3>7, <3>8, <3>9, <2>1, <1>2, RequestGoesOn, HandlerKept DEF push_resolve
  <2> QED
    BY <2>2, <2>3, <1>2 DEF push_resolve

<1>3. ASSUME NEW r \in ReqIds, push_agent(r) PROVE RegistrationIInv'
  <2>1. StoreGood
    BY <1>0, <1>3, IdleStore DEF push_agent
  <2>2. PushOK(requests[r]) /\ requests[r] \in Request /\ requests[r].step = "user_agent"
    BY <1>a, <1>3 DEF push_agent, At
  <2>3. CASE Done(r)
    BY <2>1, <2>3, <1>3, RequestEnds, HandlerKept DEF push_agent
  <2>4. CASE ~Done(r)
    <3>1. PICK ua : ua = user_agents[requests[r].uaid]
      OBVIOUS
    <3>2. /\ ua # None
          /\ requests' = [requests EXCEPT ![r].step = IF ua.bridge = None THEN "insert" ELSE "send",
                             ![r].token = ua.bridge]
      BY <3>1, <2>4, <1>3 DEF push_agent
    <3>3. PICK g \in granted :
             /\ g.push = requests[r].push
             /\ requests[r].uaid = g.uaid /\ requests[r].channel_id = g.channel_id
             /\ requests[r].late => user_agents[g.uaid] = None
      BY <2>2 DEF PushOK
    <3>4. ~requests[r].late /\ ua \in UserAgent
      BY <3>1, <3>2, <3>3, <1>0 DEF Subscription, Maybe
    <3>5. PICK q : q = [requests[r] EXCEPT !.step = IF ua.bridge = None THEN "insert" ELSE "send",
                           !.token = ua.bridge]
      OBVIOUS
    <3>6. q \in Request
      BY <3>4, <3>5, <2>2 DEF Request, UserAgent
    <3>7. PushOK(q)
      BY <3>3, <3>4, <3>5, <2>2 DEF PushOK, Request
    <3>8. requests' = [requests EXCEPT ![r] = q]
      BY <3>2, <3>5, <2>2, <1>0
    <3> QED
      BY <3>6, <3>7, <3>8, <2>1, <1>3, RequestGoesOn, HandlerKept DEF push_agent
  <2> QED
    BY <2>3, <2>4
<1>4. ASSUME NEW r \in ReqIds, NEW id \in MsgIds, push_insert(r, id) PROVE RegistrationIInv'
  <2>1. PushOK(requests[r]) /\ requests[r].step = "insert"
    BY <1>a, <1>4 DEF push_insert, At
  <2>2. PICK g \in granted : requests[r].uaid = g.uaid /\ requests[r].channel_id = g.channel_id
    BY <2>1 DEF PushOK
  <2>3. PICK m : m = [id |-> id, uaid |-> requests[r].uaid, channel_id |-> requests[r].channel_id,
                      topic |-> None, accepted |-> clock, expiry |-> clock, rsub |-> None]
    OBVIOUS
  <2>4. m \in Message
    BY <2>2, <2>3, <1>0 DEF Message, Subscription, Maybe
  <2>5. Acceptable(m)
    BY <2>2, <2>3, <1>0, TimesAssumption DEF Acceptable, Maybe
  <2>6. StoreGood
    BY <2>3, <2>4, <2>5, <1>0, <1>4, InsertMessageGood DEF push_insert
  <2> QED
    BY <2>6, <1>4, RequestEnds, HandlerKept DEF push_insert
<1>5. ASSUME NEW r \in ReqIds, bridge(r) PROVE RegistrationIInv'
  <2>1. StoreGood
    BY <1>0, <1>5, IdleStore DEF bridge
  <2>2. CASE Done(r)
    BY <2>1, <2>2, <1>5, RequestEnds, HandlerKept DEF bridge
  <2>3. CASE Goto(r, "token_gone")
    <3>1. PushOK(requests[r]) /\ requests[r] \in Request /\ requests[r].step = "send"
      BY <1>a, <1>5 DEF bridge, At
    <3>2. PICK q : q = [requests[r] EXCEPT !.step = "token_gone"]
      OBVIOUS
    <3>3. q \in Request
      BY <3>1, <3>2 DEF Request
    <3>4. PushOK(q)
      BY <3>1, <3>2 DEF PushOK, Request
    <3>5. requests' = [requests EXCEPT ![r] = q]
      BY <2>3, <3>2 DEF Goto
    <3> QED
      BY <3>3, <3>4, <3>5, <2>1, <1>5, RequestGoesOn, HandlerKept DEF bridge
  <2> QED
    BY <2>2, <2>3, <1>5 DEF bridge
<1>6. ASSUME NEW r \in ReqIds, bridge_error(r) PROVE RegistrationIInv'
  <2>1. StoreGood
    BY <1>0, <1>6, DeleteUserAgentsGood DEF bridge_error, delete_user_agent
  <2> QED
    BY <2>1, <1>6, RequestEnds, HandlerKept DEF bridge_error, Revoke
<1> QED
  BY <1>1, <1>2, <1>3, <1>4, <1>5, <1>6 DEF PushHandlers

\* Every step of the system keeps the invariant.
LEMMA RegistrationStepKeeps ==
    ASSUME RegistrationIInv, [RegistrationNext]_vars
    PROVE  RegistrationIInv'
<1>0. StoreInv /\ GrantsKnown /\ alive \subseteq Tokens /\ clock \in 0..MaxClock
      /\ stored \subseteq issued
  BY DEF RegistrationIInv, RegistrationTypeOK
<1>1. CASE expire
  <2>1. StoreGood
    BY <1>0, <1>1, DeleteUserAgentsGood DEF expire, expire_user_agents
  <2> QED
    BY <2>1, <1>1, RequestsStay, HandlerKept DEF expire, Revoke
<1>2. ASSUME NEW r \in ReqIds, hang_up(r) PROVE RegistrationIInv'
  <2>1. StoreGood
    BY <1>0, <1>2, IdleStore DEF hang_up
  <2> QED
    BY <2>1, <1>2, RequestEnds, HandlerKept DEF hang_up
<1>3. ASSUME UNCHANGED <<storeVars, requests, stored, promised>>,
             alive' \subseteq alive, clock' \in 0..MaxClock
      PROVE  RegistrationIInv'
  <2>1. StoreGood
    BY <1>0, <1>3, IdleStore
  <2>2. UNCHANGED issued
    BY <1>3 DEF storeVars
  <2>3. stored' \subseteq issued' /\ promised' \subseteq promised
    BY <1>0, <1>3, <2>2
  <2> QED
    BY <2>1, <2>3, <1>3, RequestsStay, BookkeepingKept
<1>4. ASSUME NEW token \in Tokens, token_dies(token) PROVE RegistrationIInv'
  BY <1>0, <1>3, <1>4 DEF token_dies
<1>5. CASE tick
  <2>1. clock' \in 0..MaxClock
    BY <1>0, <1>5, RegistrationAssumption DEF tick
  <2> QED
    BY <2>1, <1>3, <1>5 DEF tick
<1>6. CASE UNCHANGED vars
  BY <1>0, <1>3, <1>6 DEF vars
<1> QED
  BY <1>1, <1>2, <1>4, <1>5, <1>6, ClientCallKeeps, ClientHandlerKeeps, PushHandlerKeeps
     DEF RegistrationNext

LEMMA RegistrationStarts ==
    ASSUME RegistrationInit
    PROVE  RegistrationIInv
<1>1. StoreInv
  BY InitMakesInv DEF RegistrationInit
<1>2. RegistrationTypeOK
  BY RegistrationAssumption DEF RegistrationInit, RegistrationTypeOK, Maybe
<1>3. GrantsKnown /\ RequestsOK
  BY DEF RegistrationInit, StoreInit, GrantsKnown, RequestsOK
<1> QED
  BY <1>1, <1>2, <1>3 DEF RegistrationIInv

------------------------------------------------------------------------------
(***************************************************************************)
(* The promises, as long as no user agent's requests overlap.              *)
(***************************************************************************)

\* No handler arrives at the creation of a subscription in this step.
NoNewCreator ==
    \A x \in ReqIds : requests'[x] # None /\ requests'[x].step = "create_subscription" =>
        requests'[x] = requests[x]

\* A step that adds no subscription and brings no handler to adding one.
LEMMA NothingAdded ==
    ASSUME PromiseInv, NoNewCreator, channels' \subseteq channels,
           promised' \subseteq channels'
    PROVE  PromiseInv'
BY DEF PromiseInv, NoNewCreator, At, channel

\* A handler that ends, begins, or goes to another step than the creation.
LEMMA NoCreator ==
    ASSUME requests \in [ReqIds -> Maybe(Request)], NEW r \in ReqIds, NEW q,
           requests' = [requests EXCEPT ![r] = q],
           q = None \/ q.step # "create_subscription"
    PROVE  NoNewCreator
BY DEF NoNewCreator

LEMMA GoesElsewhere ==
    ASSUME requests \in [ReqIds -> Maybe(Request)], NEW r \in ReqIds, NEW step,
           Goto(r, step), requests[r] # None, step # "create_subscription"
    PROVE  NoNewCreator
<1>1. requests[r] \in Request
  BY DEF Maybe
<1>2. requests'[r].step = step
  BY <1>1 DEF Goto, Request
<1> QED
  BY <1>2 DEF NoNewCreator, Goto

\* Dropping the subscriptions of a channel or a user agent drops its promises.
LEMMA UserAgentsRevoked ==
    ASSUME StoreInv, promised \subseteq channels, NEW uaids, remove_user_agent(uaids),
           Revoke(uaids, ChannelIds)
    PROVE  channels' \subseteq channels /\ promised' \subseteq channels'
<1>1. \A s \in channels : s.channel_id \in ChannelIds
  BY DEF StoreInv, StoreTypeOK, Subscription
<1> QED
  BY <1>1 DEF remove_user_agent, remove_subscription, Revoke

LEMMA ChannelRevoked ==
    ASSUME promised \subseteq channels, NEW u, NEW ch, delete_subscription(u, ch),
           Revoke({u}, {ch})
    PROVE  channels' \subseteq channels /\ promised' \subseteq channels'
BY DEF delete_subscription, remove_subscription, Revoke

\* Registering a channel that has no subscription leaves the others alone.
LEMMA CreationKeepsPromises ==
    ASSUME RegistrationIInv, PromiseInv, OneAtATime, NEW r \in ReqIds, NEW p \in PushIds,
           register_create(r, p)
    PROVE  PromiseInv'
<1> DEFINE s == [uaid |-> requests[r].uaid, channel_id |-> requests[r].channel_id,
                 push |-> p, vapid |-> requests[r].vapid]
<1>1. /\ At(r, "create_subscription")
      /\ channels' = {c \in channels : <<c.uaid, c.channel_id>> # <<s.uaid, s.channel_id>>} \cup {s}
      /\ promised' = promised \cup {s}
      /\ Done(r)
  BY DEF register_create, create_subscription
<1>2. \A c \in channels : <<c.uaid, c.channel_id>> # <<s.uaid, s.channel_id>>
  BY <1>1 DEF PromiseInv, channel
<1>3. channels' = channels \cup {s}
  BY <1>1, <1>2
<1>4. requests \in [ReqIds -> Maybe(Request)]
  BY DEF RegistrationIInv, RegistrationTypeOK
<1>5. ASSUME NEW x \in ReqIds, requests'[x] # None, requests'[x].step = "create_subscription"
      PROVE  {c \in channels' : c.uaid = requests'[x].uaid /\ c.channel_id = requests'[x].channel_id} = {}
  <2>1. x # r /\ requests'[x] = requests[x]
    BY <1>1, <1>4, <1>5 DEF Done
  <2>2. At(x, "create_subscription") /\ channel(x) = {}
    BY <2>1, <1>5 DEF At, PromiseInv
  <2>3. x \in FromClients /\ r \in FromClients
    BY <2>2, <1>1 DEF At, FromClients, RegistrationIInv, RequestsOK, ClientOK, PushOK
  <2>4. requests[x].uaid # requests[r].uaid
    BY <2>1, <2>3 DEF OneAtATime
  <2> QED
    BY <2>1, <2>2, <2>4, <1>3 DEF channel
<1>6. promised' \subseteq channels'
  BY <1>1, <1>3 DEF PromiseInv
<1> QED
  BY <1>5, <1>6 DEF PromiseInv, At, channel

\* Every other step keeps the promises whatever overlaps.
LEMMA PromiseStep ==
    ASSUME RegistrationIInv, PromiseInv, OneAtATime, [RegistrationNext]_vars
    PROVE  PromiseInv'
<1>0. /\ StoreInv /\ requests \in [ReqIds -> Maybe(Request)] /\ promised \subseteq channels
  BY DEF RegistrationIInv, RegistrationTypeOK, PromiseInv
<1>a. ASSUME UNCHANGED storeVars, UNCHANGED promised, NoNewCreator
      PROVE  PromiseInv'
  BY <1>0, <1>a, NothingAdded DEF storeVars
<1>b. ASSUME UNCHANGED requests
      PROVE  NoNewCreator
  BY <1>b DEF NoNewCreator
<1>c. ASSUME NEW r \in ReqIds, Done(r) PROVE NoNewCreator
  BY <1>c, <1>0, NoCreator DEF Done
<1>d. UNCHANGED channels /\ NoNewCreator /\ UNCHANGED promised => PromiseInv'
  BY <1>0, NothingAdded
<1>1. CASE ClientCalls
  <2>1. ASSUME NEW u \in Uaids, NEW token \in Tokens, create(u, token) PROVE PromiseInv'
    BY <1>b, <1>d, <2>1 DEF create, create_user_agent
  <2>2. ASSUME NEW r \in ReqIds, NEW kind, NEW u, NEW ch, NEW key, NEW token,
               call(r, kind, u, ch, key, token)
        PROVE  PromiseInv'
    <3>1. [NoRequest EXCEPT !.kind = kind, !.step = "authorize", !.uaid = u,
              !.channel_id = ch, !.vapid = key, !.token = token].step # "create_subscription"
      BY DEF NoRequest
    <3> QED
      BY <3>1, <1>0, <1>a, <2>2, NoCreator DEF call
  <2>3. ASSUME NEW r \in ReqIds, NEW u, NEW ch, session_unregister(r, u, ch)
        PROVE  PromiseInv'
    <3>1. [NoRequest EXCEPT !.kind = "unregister", !.step = "delete_subscription",
              !.uaid = u, !.channel_id = ch].step # "create_subscription"
      BY DEF NoRequest
    <3> QED
      BY <3>1, <1>0, <1>a, <2>3, NoCreator DEF session_unregister
  <2>4. ASSUME NEW r \in ReqIds, NEW u, NEW ch, NEW key, session_register(r, u, ch, key)
        PROVE  PromiseInv'
    <3>1. [NoRequest EXCEPT !.kind = "register",
              !.step = IF u \in stored THEN "channel" ELSE "create",
              !.uaid = u, !.channel_id = ch, !.vapid = key].step # "create_subscription"
      BY DEF NoRequest
    <3> QED
      BY <3>1, <1>0, <1>a, <2>4, NoCreator DEF session_register
  <2> QED
    BY <2>1, <2>2, <2>3, <2>4, <1>1 DEF ClientCalls
<1>2. CASE ClientHandlers
  <2>1. ASSUME NEW r \in ReqIds, authorize(r) PROVE PromiseInv'
    <3> DEFINE next == [register |-> "channel", unregister |-> "channel", read |-> "touch",
                 update_token |-> "update_bridge_token", delete |-> "delete_user_agent"]
    <3>1. CASE Done(r)
      BY <3>1, <1>a, <1>c, <2>1 DEF authorize
    <3>2. CASE ~Done(r)
      <4>1. Goto(r, next[requests[r].kind]) /\ requests[r] # None /\ requests[r].step = "authorize"
        BY <3>2, <2>1 DEF authorize, At
      <4>2. requests[r].kind \in ClientKinds
        BY <4>1 DEF RegistrationIInv, RequestsOK, ClientOK, PushOK
      <4>3. next[requests[r].kind] # "create_subscription"
        BY <4>2 DEF ClientKinds
      <4>4. NoNewCreator
        BY <4>1, <4>3, <1>0, GoesElsewhere
      <4> QED
        BY <4>4, <1>a, <2>1 DEF authorize
    <3> QED
      BY <3>1, <3>2
  <2>2. ASSUME NEW r \in ReqIds, session_create(r) PROVE PromiseInv'
    BY <1>0, <1>d, <2>2, GoesElsewhere DEF session_create, create_user_agent, At
  <2>3. ASSUME NEW r \in ReqIds, register_lookup(r) PROVE PromiseInv'
    <3>1. CASE Done(r) /\ channel(r) # {}
      <4>1. UNCHANGED channels /\ promised' \subseteq channels
        BY <3>1, <1>0, <2>3 DEF register_lookup, storeVars, channel
      <4> QED
        BY <4>1, <3>1, <1>c, NothingAdded
    <3>2. CASE channel(r) = {}
      <4>1. Goto(r, "create_subscription") /\ UNCHANGED <<channels, promised>> /\ requests[r] # None
        BY <3>2, <2>3 DEF register_lookup, storeVars, At
      <4>2. requests[r] \in Request
        BY <4>1, <1>0 DEF Maybe
      <4>3. /\ requests'[r].uaid = requests[r].uaid
            /\ requests'[r].channel_id = requests[r].channel_id
            /\ \A x \in ReqIds : x # r => requests'[x] = requests[x]
        BY <4>1, <4>2, <1>0 DEF Goto, Request
      <4> QED
        BY <4>1, <4>3, <3>2 DEF PromiseInv, At, channel
    <3> QED
      BY <3>1, <3>2, <2>3 DEF register_lookup
  <2>4. ASSUME NEW r \in ReqIds, NEW p \in PushIds, register_create(r, p) PROVE PromiseInv'
    BY <2>4, CreationKeepsPromises
  <2>5. ASSUME NEW r \in ReqIds, unsubscribe_lookup(r) PROVE PromiseInv'
    BY <1>0, <1>a, <1>c, <2>5, GoesElsewhere DEF unsubscribe_lookup, At
  <2>6. ASSUME NEW r \in ReqIds, unsubscribe(r) PROVE PromiseInv'
    BY <1>0, <1>c, <2>6, ChannelRevoked, NothingAdded DEF unsubscribe
  <2>7. ASSUME NEW r \in ReqIds, update_token(r) PROVE PromiseInv'
    <3>1. UNCHANGED channels
      BY <2>7 DEF update_token, update_bridge_token, storeVars
    <3> QED
      BY <3>1, <1>0, <1>d, <2>7, GoesElsewhere DEF update_token, At
  <2>8. ASSUME NEW r \in ReqIds, touch(r) PROVE PromiseInv'
    <3>1. UNCHANGED channels
      BY <2>8 DEF touch, touch_user_agent, storeVars
    <3> QED
      BY <3>1, <1>c, <1>d, <2>8 DEF touch
  <2>9. ASSUME NEW r \in ReqIds, delete(r) PROVE PromiseInv'
    BY <1>0, <1>c, <2>9, UserAgentsRevoked, NothingAdded DEF delete, delete_user_agent
  <2> QED
    BY <2>1, <2>2, <2>3, <2>4, <2>5, <2>6, <2>7, <2>8, <2>9, <1>2 DEF ClientHandlers

<1>3. CASE PushHandlers
  <2>1. ASSUME NEW r \in ReqIds, NEW g \in granted, push_begins(r, g) PROVE PromiseInv'
    <3>1. [NoRequest EXCEPT !.step = "subscription_by_push", !.push = g.push,
              !.late = user_agents[g.uaid] = None].step # "create_subscription"
      BY DEF NoRequest
    <3> QED
      BY <3>1, <1>0, <1>a, <2>1, NoCreator DEF push_begins
  <2>2. ASSUME NEW r \in ReqIds, push_resolve(r) PROVE PromiseInv'
    <3>1. NoNewCreator
      <4>1. requests[r] \in Request
        BY <1>0, <2>2 DEF push_resolve, At, Maybe
      <4>2. ASSUME NEW s, requests' = [requests EXCEPT ![r].step = "user_agent", ![r].uaid = s.uaid,
                                         ![r].channel_id = s.channel_id]
            PROVE  NoNewCreator
        <5>1. requests'[r].step = "user_agent"
          BY <4>1, <4>2, <1>0 DEF Request
        <5> QED
          BY <5>1, <4>2, <1>0 DEF NoNewCreator
      <4> QED
        BY <4>2, <1>c, <2>2 DEF push_resolve
    <3> QED
      BY <3>1, <1>a, <2>2 DEF push_resolve
  <2>3. ASSUME NEW r \in ReqIds, push_agent(r) PROVE PromiseInv'
    <3>1. NoNewCreator
      <4>1. requests[r] \in Request
        BY <1>0, <2>3 DEF push_agent, At, Maybe
      <4>2. ASSUME NEW ua, requests' = [requests EXCEPT
                                  ![r].step = IF ua.bridge = None THEN "insert" ELSE "send",
                                  ![r].token = ua.bridge]
            PROVE  NoNewCreator
        <5>1. requests'[r].step \in {"insert", "send"}
          BY <4>1, <4>2, <1>0 DEF Request
        <5> QED
          BY <5>1, <4>2, <1>0 DEF NoNewCreator
      <4> QED
        BY <4>2, <1>c, <2>3 DEF push_agent
    <3> QED
      BY <3>1, <1>a, <2>3 DEF push_agent
  <2>4. ASSUME NEW r \in ReqIds, NEW id \in MsgIds, push_insert(r, id) PROVE PromiseInv'
    BY <1>c, <1>d, <2>4 DEF push_insert, insert_message, accountVars
  <2>5. ASSUME NEW r \in ReqIds, bridge(r) PROVE PromiseInv'
    BY <1>0, <1>a, <1>c, <2>5, GoesElsewhere DEF bridge, At
  <2>6. ASSUME NEW r \in ReqIds, bridge_error(r) PROVE PromiseInv'
    BY <1>0, <1>c, <2>6, UserAgentsRevoked, NothingAdded DEF bridge_error, delete_user_agent
  <2> QED
    BY <2>1, <2>2, <2>3, <2>4, <2>5, <2>6, <1>3 DEF PushHandlers
<1>4. CASE expire
  BY <1>0, <1>b, <1>4, UserAgentsRevoked, NothingAdded DEF expire, expire_user_agents
<1>5. ASSUME NEW r \in ReqIds, hang_up(r) PROVE PromiseInv'
  BY <1>a, <1>c, <1>5 DEF hang_up
<1>6. CASE (\E token \in Tokens : token_dies(token)) \/ tick \/ UNCHANGED vars
  BY <1>a, <1>b, <1>6 DEF token_dies, tick, vars
<1> QED
  BY <1>1, <1>2, <1>3, <1>4, <1>5, <1>6 DEF RegistrationNext

------------------------------------------------------------------------------
(***************************************************************************)
(* One client request at a time, in the whole system.                      *)
(***************************************************************************)

OneClient == \A q, r \in FromClients : q = r

\* A request that arrives is let in below the limit; otherwise no handler
\* becomes a client's.
Admission ==
    \/ FromClients' \subseteq FromClients
    \/ /\ Cardinality(FromClients) < MaxClient
       /\ \E r \in ReqIds : FromClients' \subseteq FromClients \cup {r}

LEMMA StepsAdmit ==
    ASSUME RegistrationIInv, [RegistrationNext]_vars
    PROVE  Admission
<1>0. requests \in [ReqIds -> Maybe(Request)]
  BY DEF RegistrationIInv, RegistrationTypeOK
<1>a. ASSUME NEW r \in ReqIds, NEW step, Goto(r, step), requests[r] # None
      PROVE  FromClients' \subseteq FromClients
  <2>1. requests[r] \in Request
    BY <1>0, <1>a DEF Maybe
  <2>2. requests'[r].kind = requests[r].kind
    BY <1>0, <1>a, <2>1 DEF Goto, Request
  <2> QED
    BY <1>0, <1>a, <2>2 DEF Goto, FromClients
<1>b. ASSUME NEW r \in ReqIds, Done(r)
      PROVE  FromClients' \subseteq FromClients
  BY <1>0, <1>b DEF Done, FromClients
<1>c. ASSUME UNCHANGED requests
      PROVE  FromClients' \subseteq FromClients
  BY <1>c DEF FromClients
<1>d. ASSUME NEW r \in ReqIds, NEW q, requests' = [requests EXCEPT ![r] = q],
             Cardinality(FromClients) < MaxClient
      PROVE  Admission
  <2>1. FromClients' \subseteq FromClients \cup {r}
    BY <1>0, <1>d DEF FromClients
  <2> QED
    BY <2>1, <1>d DEF Admission
<1>1. CASE ClientCalls
  BY <1>1, <1>c, <1>d DEF ClientCalls, create, call, session_register, session_unregister, Admission
<1>2. CASE ClientHandlers
  <2>1. CASE \E r \in ReqIds : authorize(r)
    BY <2>1, <1>a, <1>b DEF authorize, At, Admission
  <2>2. CASE \E r \in ReqIds : session_create(r) \/ register_lookup(r)
    BY <2>2, <1>a, <1>b DEF session_create, register_lookup, At, Admission
  <2>3. CASE \E r \in ReqIds : unsubscribe_lookup(r) \/ unsubscribe(r) \/ update_token(r)
    BY <2>3, <1>a, <1>b DEF unsubscribe_lookup, unsubscribe, update_token, At, Admission
  <2>4. CASE \E r \in ReqIds : touch(r) \/ delete(r) \/ \E p \in PushIds : register_create(r, p)
    BY <2>4, <1>b DEF touch, delete, register_create, Admission
  <2> QED
    BY <2>1, <2>2, <2>3, <2>4, <1>2 DEF ClientHandlers
<1>3. CASE PushHandlers
  <2>1. ASSUME NEW r \in ReqIds, NEW g \in granted, push_begins(r, g) PROVE Admission
    <3>1. requests'[r].kind = "push"
      BY <2>1, <1>0 DEF push_begins, NoRequest
    <3>2. FromClients' \subseteq FromClients
      BY <3>1, <2>1, <1>0 DEF push_begins, FromClients, ClientKinds
    <3> QED
      BY <3>2 DEF Admission
  <2>2. ASSUME NEW r \in ReqIds, push_resolve(r) PROVE Admission
    <3>1. requests[r] \in Request
      BY <2>2, <1>0 DEF push_resolve, At, Maybe
    <3>2. ASSUME NEW s, requests' = [requests EXCEPT ![r].step = "user_agent", ![r].uaid = s.uaid,
                                       ![r].channel_id = s.channel_id]
          PROVE  FromClients' \subseteq FromClients
      <4>1. requests'[r].kind = requests[r].kind
        BY <3>1, <3>2, <1>0 DEF Request
      <4> QED
        BY <4>1, <3>2, <2>2, <1>0 DEF FromClients, push_resolve, At
    <3> QED
      BY <3>2, <1>b, <2>2 DEF push_resolve, Admission
  <2>3. ASSUME NEW r \in ReqIds, push_agent(r) PROVE Admission
    <3>1. requests[r] \in Request
      BY <2>3, <1>0 DEF push_agent, At, Maybe
    <3>2. ASSUME NEW ua, requests' = [requests EXCEPT
                                ![r].step = IF ua.bridge = None THEN "insert" ELSE "send",
                                ![r].token = ua.bridge]
          PROVE  FromClients' \subseteq FromClients
      <4>1. requests'[r].kind = requests[r].kind
        BY <3>1, <3>2, <1>0 DEF Request
      <4> QED
        BY <4>1, <3>2, <2>3, <1>0 DEF FromClients, push_agent, At
    <3> QED
      BY <3>2, <1>b, <2>3 DEF push_agent, Admission
  <2>4. CASE \E r \in ReqIds : bridge(r) \/ bridge_error(r) \/ \E id \in MsgIds : push_insert(r, id)
    BY <2>4, <1>a, <1>b DEF bridge, bridge_error, push_insert, At, Admission
  <2> QED
    BY <2>1, <2>2, <2>3, <2>4, <1>3 DEF PushHandlers
<1>4. CASE expire \/ (\E token \in Tokens : token_dies(token)) \/ tick \/ UNCHANGED vars
  BY <1>4, <1>c DEF expire, token_dies, tick, vars, Admission
<1>5. CASE \E r \in ReqIds : hang_up(r)
  BY <1>5, <1>b DEF hang_up, Admission
<1> QED
  BY <1>1, <1>2, <1>3, <1>4, <1>5 DEF RegistrationNext

\* With a limit of one, the second request waits for the first.
LEMMA OneClientStep ==
    ASSUME MaxClient = 1, RegistrationIInv, OneClient, [RegistrationNext]_vars
    PROVE  OneClient'
<1>1. CASE FromClients' \subseteq FromClients
  BY <1>1 DEF OneClient
<1>2. ASSUME Cardinality(FromClients) < 1,
             NEW r \in ReqIds, FromClients' \subseteq FromClients \cup {r}
      PROVE  OneClient'
  <2>1. ASSUME NEW q \in FromClients PROVE FALSE
    <3>1. FromClients = {q}
      BY <2>1 DEF OneClient
    <3>2. Cardinality({q}) = 1
      BY FS_Singleton
    <3> QED
      BY <3>1, <3>2, <1>2
  <2> QED
    BY <2>1, <1>2 DEF OneClient
<1> QED
  BY <1>1, <1>2, StepsAdmit DEF Admission

------------------------------------------------------------------------------
(***************************************************************************)
(* The theorems.                                                           *)
(***************************************************************************)

\* The inductive invariant holds however requests, pushes, expiry and the
\* platform's verdicts interleave.
THEOREM RegistrationInvariant == RegistrationSpec => []RegistrationIInv
<1>1. RegistrationInit => RegistrationIInv
  BY RegistrationStarts
<1>2. RegistrationIInv /\ [RegistrationNext]_vars => RegistrationIInv'
  BY RegistrationStepKeeps
<1> QED
  BY <1>1, <1>2, PTL DEF RegistrationSpec

\* A push that begins after its user agent was deleted ends with a 404 at the
\* lookup of the user agent, though the subscription may still resolve:
\* neither store_and_notify nor the bridge sees it.
THEOREM DeletedStaysUnreachable == RegistrationSpec => []DeletedUnreachable
<1>1. RegistrationIInv => DeletedUnreachable
  <2> SUFFICES ASSUME RegistrationIInv, NEW r \in ReqIds,
                      requests[r] # None, requests[r].late
               PROVE  requests[r].step \notin {"insert", "send", "token_gone"}
    BY DEF DeletedUnreachable
  <2>1. ClientOK(requests[r]) \/ PushOK(requests[r])
    BY DEF RegistrationIInv, RequestsOK
  <2> QED
    BY <2>1 DEF ClientOK, PushOK
<1> QED
  BY <1>1, RegistrationInvariant, PTL

\* The promises follow from what is stored: promised subscriptions are
\* channels, whose push ids resolve and whose keys are unique.
LEMMA PromisesFollow ==
    ASSUME RegistrationIInv, PromiseInv
    PROVE  RegistrationInv /\ IdempotentRegister
<1>1. PushResolves
  BY InvResolves DEF RegistrationIInv
<1>2. PromisesKept
  BY <1>1 DEF PromisesKept, PushResolves, PromiseInv
<1>3. IdempotentRegister
  BY DEF IdempotentRegister, PromiseInv, RegistrationIInv, StoreInv, PushIndexed
<1> QED
  BY <1>2, <1>3 DEF RegistrationInv, RegistrationIInv

\* Any number of user agents may talk to the server at once: as long as each
\* sends one request after the other, every endpoint it was told keeps
\* resolving under its key, and no channel has two endpoints.
THEOREM PromisesKeptOneAtATime ==
    RegistrationSpec /\ []OneAtATime => [](RegistrationInv /\ IdempotentRegister)
<1>1. RegistrationInit => PromiseInv
  BY DEF RegistrationInit, PromiseInv, At
<1>2. RegistrationIInv /\ PromiseInv /\ OneAtATime /\ [RegistrationNext]_vars => PromiseInv'
  BY PromiseStep
<1>3. RegistrationIInv /\ PromiseInv => RegistrationInv /\ IdempotentRegister
  BY PromisesFollow
<1> QED
  BY <1>1, <1>2, <1>3, RegistrationInvariant, PTL DEF RegistrationSpec

\* A limit of one client request in the whole system is one way to that.
LEMMA OneClientIsOneAtATime ==
    ASSUME MaxClient = 1
    PROVE  RegistrationSpec => []OneAtATime
<1>1. RegistrationInit => OneClient
  BY DEF RegistrationInit, OneClient, FromClients
<1>2. RegistrationIInv /\ OneClient /\ [RegistrationNext]_vars => OneClient'
  BY OneClientStep
<1>3. OneClient => OneAtATime
  BY DEF OneClient, OneAtATime
<1> QED
  BY <1>1, <1>2, <1>3, RegistrationInvariant, PTL DEF RegistrationSpec

\* What clients were told stays true when their requests do not overlap.
THEOREM RegistrationCorrect ==
    ASSUME MaxClient = 1
    PROVE  RegistrationSpec => []RegistrationInv
<1>1. RegistrationInv /\ IdempotentRegister => RegistrationInv
  OBVIOUS
<1> QED
  BY <1>1, OneClientIsOneAtATime, PromisesKeptOneAtATime, PTL

\* Registering a channel again confirms the endpoint it has when requests do
\* not overlap.
THEOREM RegisterIdempotent ==
    ASSUME MaxClient = 1
    PROVE  RegistrationSpec => []IdempotentRegister
<1>1. RegistrationInv /\ IdempotentRegister => IdempotentRegister
  OBVIOUS
<1> QED
  BY <1>1, OneClientIsOneAtATime, PromisesKeptOneAtATime, PTL

==============================================================================
