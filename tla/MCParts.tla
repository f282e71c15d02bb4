------------------------------ MODULE MCParts ------------------------------
(***************************************************************************)
(* The components that keep no state in common with any other, so that a   *)
(* behaviour of the system is one of each of them: the connections and     *)
(* tasks of a process, the clocks of a session, a push request, the        *)
(* bridges' credentials, the content encoding, the reader of Bigtable's    *)
(* rows and the route row of a recipient.  A behaviour checked here is one *)
(* of one part.                                                            *)
(***************************************************************************)
EXTENDS Server, Activity, AccessToken, ProviderToken, PushRequest, ContentEncoding,
        CellChunks, RouteRows

CONSTANTS ka, kb   \* application server keys

VARIABLE part      \* the component that runs

partsVars ==
    <<part, serverVars, activityVars, accessVars, providerVars, pushVars, encodingVars, chunkVars,
      routeVars>>

PartsInit ==
    /\ part \in {"server", "activity", "access", "provider", "push", "encoding", "chunks",
                "routes"}
    /\ ServerInit /\ ActivityInit /\ AccessInit /\ ProviderInit
    /\ PushInit /\ EncodingInit /\ ChunkInit /\ RouteInit

(***************************************************************************)
(* What the parts other than p keep stays as it was.                       *)
(***************************************************************************)
OnlyChanges(p) ==
    /\ part = p /\ UNCHANGED part
    /\ p # "server" => UNCHANGED serverVars
    /\ p # "activity" => UNCHANGED activityVars
    /\ p # "access" => UNCHANGED accessVars
    /\ p # "provider" => UNCHANGED providerVars
    /\ p # "push" => UNCHANGED pushVars
    /\ p # "encoding" => UNCHANGED encodingVars
    /\ p # "chunks" => UNCHANGED chunkVars
    /\ p # "routes" => UNCHANGED routeVars

PartsNext ==
    \/ OnlyChanges("server") /\ ServerNext
    \/ OnlyChanges("activity") /\ ActivityNext
    \/ OnlyChanges("access") /\ AccessNext
    \/ OnlyChanges("provider") /\ ProviderNext
    \/ OnlyChanges("push") /\ PushNext
    \/ OnlyChanges("encoding") /\ EncodingNext
    \/ OnlyChanges("chunks") /\ ChunkNext
    \/ OnlyChanges("routes") /\ RouteNext

PartsSpec == PartsInit /\ [][PartsNext]_partsVars /\ ServerFairness /\ AccessFairness

-----------------------------------------------------------------------------
(* Rows: an empty value, values that can be split, qualifiers in common. *)

CellOf(q, v) == [qualifier |-> q, value |-> v]

ThreeRows ==
    <<[key |-> "k1", cells |-> <<CellOf("a", <<1, 2>>), CellOf("b", <<>>)>>],
      [key |-> "k2", cells |-> <<CellOf("b", <<3>>)>>],
      [key |-> "k3", cells |-> <<CellOf("a", <<4>>), CellOf("c", <<5, 6, 7>>)>>]>>

-----------------------------------------------------------------------------
(* Requests: one of every kind that the handler tells apart. *)

NoAuth(scheme) ==
    [scheme |-> scheme, params |-> "none", key |-> NoKey, on_curve |-> FALSE, alg |-> "none",
     signed_by |-> NoKey, exp |-> Junk, aud |-> FALSE]

Good(k) ==
    [scheme |-> "vapid", params |-> "t, k", key |-> k, on_curve |-> TRUE, alg |-> "ES256",
     signed_by |-> k, exp |-> Now, aud |-> TRUE]

SomeAuths ==
    {NoAuth("absent"), NoAuth("other"), NoAuth("unreadable"), NoAuth("vapid"),
     [Good(ka) EXCEPT !.on_curve = FALSE], [Good(ka) EXCEPT !.alg = "HS256"],
     [Good(ka) EXCEPT !.signed_by = kb], [Good(ka) EXCEPT !.aud = FALSE]}
    \cup {[Good(k) EXCEPT !.exp = e] :
              k \in {ka, kb}, e \in {Junk, Now - 1, Now, Now + MaxExpAhead, Now + MaxExpAhead + 1}}

Plain ==
    [size |-> 1, is_id |-> TRUE, subscribed |-> TRUE, ttl |-> <<1>>, urgency |-> <<>>, topic |-> <<>>,
     respond_async |-> FALSE, link |-> "absent", auth |-> NoAuth("absent"), restricted |-> NoKey,
     cenc |-> "none", keyid |-> NoKey, agent |-> "session"]

SomeRequests ==
    {[Plain EXCEPT !.auth = a, !.restricted = k, !.cenc = c, !.keyid = ka, !.agent = u,
                   !.respond_async = x, !.ttl = t] :
        a \in SomeAuths, k \in {NoKey, ka}, c \in {"none", "aes128gcm"},
        u \in {"session", "bridged", "missing"}, x \in BOOLEAN, t \in {<<>>, <<1>>}}
    \cup
    {[Plain EXCEPT !.ttl = t, !.urgency = u, !.topic = p, !.respond_async = x, !.link = l, !.restricted = k] :
        t \in {<<>>, <<0>>, <<MaxTtl + 1>>, <<U64Limit>>, <<Junk>>, <<1, 1>>},
        u \in {<<>>, <<1>>, <<Junk>>}, p \in {<<>>, <<0>>, <<32>>, <<33>>, <<1, 2>>},
        x \in BOOLEAN, l \in {"absent", "foreign", "unknown", "known"}, k \in {NoKey, ka}}
    \cup
    {[Plain EXCEPT !.size = s, !.is_id = i, !.subscribed = b] :
        s \in {0, MaxPayload, MaxPayload + 1}, i \in BOOLEAN, b \in BOOLEAN}

-----------------------------------------------------------------------------
(* Properties of several parts. *)

(***************************************************************************)
(* The types of the parts: permits of serve(), clocks of a session, the    *)
(* token cache.                                                            *)
(***************************************************************************)
PartsTypeOK == ServerTypeOK /\ ActivityTypeOK /\ AccessTypeOK

(***************************************************************************)
(* No request is refused for the age of the token it carries: neither      *)
(* token() of webpush-gcp-auth nor jwt() of webpush-apns hands out one     *)
(* that lapses on its way.                                                 *)
(***************************************************************************)
CredentialsLast == NeverLapses /\ WithinWindow

(***************************************************************************)
(* The platforms' answers are read right: classify() of webpush-fcm and    *)
(* send() of webpush-apns report a device gone only if it is.              *)
(***************************************************************************)
OnlyGoneDeleted == GoneIsGone /\ UnknownIsGone

(***************************************************************************)
(* Both token caches implement Credential: users share a credential until  *)
(* it is due, and each refusal costs one at most.                          *)
(***************************************************************************)
CredentialsShared == SharesRefresh /\ ReusesJwt
=============================================================================
