--------------------------------- MODULE Mail ---------------------------------
(***************************************************************************)
(* What delivery promises to an application server whose message it has    *)
(* accepted, and to the user agents: a message is held until its own user  *)
(* agent acknowledges it, it is withdrawn or replaced by a newer one of    *)
(* its topic, or it is past its expiry, whatever becomes of nodes and      *)
(* connections; and a connection is sent what was announced, or was        *)
(* fetched while it was held and unexpired, for its own user agent.        *)
(* Delivery implements this specification.                                 *)
(***************************************************************************)
EXTENDS Naturals

CONSTANTS
    Agents,        \* user agents
    Connections,   \* their connections
    MessageIds,
    Message,       \* messages, each with the fields of MemoryStore
    None           \* nobody; no topic

VARIABLES
    held,        \* the messages that are held
    used,        \* the ids that are in use
    asked,       \* <<id, who>> if the last step removed a message because it
                 \* was asked to: by its user agent, or by its sender, None
    underway,    \* <<id, agent>> for everything on its way to an agent
    owner,       \* connection -> its user agent, None if it is not open
    sent,        \* connection -> the ids of the messages it was sent
    now          \* the time

mailboxVars == <<held, used, asked, underway, owner, sent, now>>

MailInit ==
    /\ held = {} /\ asked = {} /\ underway = {}
    /\ owner = [c \in Connections |-> None]
    /\ sent = [c \in Connections |-> {}]

\* A message with a topic takes the place of the one before it.
Replaces(m, x) ==
    /\ m.topic # None
    /\ x.uaid = m.uaid /\ x.channel_id = m.channel_id /\ x.topic = m.topic

Accept(m) ==
    /\ m.id \notin used /\ m.expiry >= now
    /\ used' = used \cup {m.id}
    /\ held' = {x \in held : ~Replaces(m, x)} \cup {m}
    /\ underway' = underway \cup {<<m.id, m.uaid>>}
    /\ UNCHANGED <<owner, sent, now>> /\ asked' = {}

\* A message leaves because its own user agent acknowledges it, or because it
\* is withdrawn.
Remove(m, who) ==
    /\ m \in held /\ who \in {m.uaid, None}
    /\ held' = held \ {m}
    /\ asked' = {<<m.id, who>>}
    /\ UNCHANGED <<used, underway, owner, sent, now>>

\* Those that are due leave, and no other.
Expire ==
    /\ held' = {m \in held : m.expiry > now}
    /\ UNCHANGED <<used, underway, owner, sent, now>> /\ asked' = {}

Connect(c, u) ==
    /\ owner[c] = None /\ sent[c] = {}
    /\ owner' = [owner EXCEPT ![c] = u]
    /\ UNCHANGED <<held, used, underway, sent, now>> /\ asked' = {}

\* A connection finds messages that are held for its user agent.
Fetch(c, found) ==
    /\ owner[c] # None
    /\ \A m \in found : m.uaid = owner[c] /\ m.expiry > now
    /\ underway' = underway \cup {<<m.id, owner[c]>> : m \in found}
    /\ UNCHANGED <<held, used, owner, sent, now>> /\ asked' = {}

\* A connection is sent what is on its way to its user agent, even if the
\* message has left since.
Send(c, ids) ==
    /\ owner[c] # None
    /\ \A id \in ids : <<id, owner[c]>> \in underway
    /\ sent' = [sent EXCEPT ![c] = @ \cup ids]
    /\ underway' \subseteq underway
    /\ UNCHANGED <<held, used, owner, now>> /\ asked' = {}

\* Connections end, by themselves or with their node, and what is on its way
\* is lost.
Lose(C) ==
    /\ owner' = [c \in Connections |-> IF c \in C THEN None ELSE owner[c]]
    /\ sent' = [c \in Connections |-> IF c \in C THEN {} ELSE sent[c]]
    /\ underway' \subseteq underway
    /\ UNCHANGED <<held, used, now>> /\ asked' = {}

Tick ==
    /\ now' = now + 1
    /\ UNCHANGED <<held, used, underway, owner, sent>> /\ asked' = {}

MailNext ==
    \/ \E m \in Message : Accept(m)
    \/ \E m \in held, who \in Agents \cup {None} : Remove(m, who)
    \/ Expire
    \/ \E c \in Connections, u \in Agents : Connect(c, u)
    \/ \E c \in Connections, found \in SUBSET held : Fetch(c, found)
    \/ \E c \in Connections, ids \in SUBSET MessageIds : Send(c, ids)
    \/ \E C \in SUBSET Connections : Lose(C)
    \/ Tick

MailSpec == MailInit /\ [][MailNext]_mailboxVars
===============================================================================
