------------------------------- MODULE Activity -------------------------------
(***************************************************************************)
(* Time in a session, crates/webpush-server/src/session.rs: pings, the     *)
(* idle timeout and the refresh of last_seen, against the expiry loop of   *)
(* maintenance.rs, which deletes user agents that were not seen for long.  *)
(*                                                                         *)
(* One user agent, connected at most once at a time.  Timers fire when     *)
(* they are due, and the loop is back at its select by then: sends do not  *)
(* block.  The expiry loop may run at any time.                            *)
(***************************************************************************)
EXTENDS Integers

CONSTANTS
    Ping,           \* websocket.ping_interval
    PongTimeout,    \* websocket.pong_timeout
    TouchInterval,  \* TOUCH_INTERVAL
    ExpireAfter,    \* user_agents.expire_after
    MaxSetup,       \* the longest from the first frame to the loop
    MaxClock        \* bound on the clock

ASSUME ActivityAssumption ==
    /\ Ping \in Nat \ {0} /\ PongTimeout \in Nat /\ TouchInterval \in Nat
    /\ ExpireAfter \in Nat /\ MaxSetup \in Nat /\ MaxClock \in Nat

VARIABLES
    clock,
    exists,      \* whether the user agent is in the store
    last_seen,   \* its last_seen, if it is
    stage,       \* of the session: "away", "known" (the user agent was looked up),
                 \* "hello" (in listen) or "serving"
    stored,      \* Session::stored
    orphaned,    \* history: whether the user agent was gone when it was touched
    heard,       \* when the client was last heard
    touched,     \* Session::touched
    next_tick    \* when the ping interval is due

activityVars == <<clock, exists, last_seen, stage, stored, orphaned, heard, touched, next_tick>>

ActivityInit ==
    /\ clock = 0
    /\ exists = FALSE
    /\ last_seen = 0
    /\ stage = "away"
    /\ stored = FALSE /\ orphaned = FALSE
    /\ heard = 0 /\ touched = 0 /\ next_tick = 0

------------------------------------------------------------------------------
\* hello looks the user agent up.  One that is not in the store gets a fresh
\* uaid, which is not stored yet.
hello ==
    /\ stage = "away"
    /\ stage' = IF exists THEN "known" ELSE "hello"
    /\ heard' = clock
    /\ stored' = exists /\ orphaned' = FALSE
    /\ UNCHANGED <<clock, exists, last_seen, touched, next_tick>>

\* touch_user_agent, which does nothing if the user agent is gone by now; its
\* result is not looked at.
touch ==
    /\ stage = "known"
    /\ stage' = "hello"
    /\ last_seen' = IF exists THEN clock ELSE last_seen
    /\ orphaned' = ~exists
    /\ UNCHANGED <<clock, exists, stored, heard, touched, next_tick>>

\* listen() returns and the loop begins.
serve ==
    /\ stage = "hello"
    /\ stage' = "serving"
    /\ heard' = clock
    /\ touched' = clock
    /\ next_tick' = clock + Ping
    /\ UNCHANGED <<clock, exists, last_seen, stored, orphaned>>

\* Any frame, for example the pong that answers a ping.
frame ==
    /\ stage = "serving"
    /\ heard' = clock
    /\ UNCHANGED <<clock, exists, last_seen, stage, stored, orphaned, touched, next_tick>>

\* The first `register` stores the user agent.
register_channel ==
    /\ stage = "serving"
    /\ heard' = clock
    /\ stored' = TRUE
    /\ exists' = (exists \/ ~stored)
    /\ last_seen' = IF stored THEN last_seen ELSE clock
    /\ UNCHANGED <<clock, stage, orphaned, touched, next_tick>>

\* Faulty: looks at the time of the last frame instead of the last touch.
ping_touching_by_heard ==
    /\ stage = "serving"
    /\ clock = next_tick
    /\ next_tick' = clock + Ping
    /\ clock - heard <= Ping + PongTimeout
    /\ UNCHANGED <<clock, exists, stage, stored, orphaned, heard>>
    /\ IF stored /\ clock - heard > TouchInterval
       THEN touched' = clock /\ last_seen' = IF exists THEN clock ELSE last_seen
       ELSE UNCHANGED <<touched, last_seen>>

\* The ping interval is due and the client was heard: ping it, and refresh
\* last_seen if that was long ago.
ping ==
    /\ stage = "serving"
    /\ clock = next_tick
    /\ next_tick' = clock + Ping
    /\ clock - heard <= Ping + PongTimeout
    /\ UNCHANGED <<clock, exists, stage, stored, orphaned, heard>>
    /\ IF stored /\ clock - touched > TouchInterval
       THEN touched' = clock /\ last_seen' = IF exists THEN clock ELSE last_seen
       ELSE UNCHANGED <<touched, last_seen>>

\* Faulty: only a client that missed two pings is idle.
idle_twice ==
    /\ stage = "serving"
    /\ clock = next_tick
    /\ IF clock - heard > 2 * (Ping + PongTimeout)
       THEN stage' = "away" /\ UNCHANGED next_tick
       ELSE UNCHANGED stage /\ next_tick' = clock + Ping
    /\ UNCHANGED <<clock, exists, last_seen, stored, orphaned, heard, touched>>

\* The ping interval is due and the client was silent for too long: close.
idle ==
    /\ stage = "serving"
    /\ clock = next_tick
    /\ clock - heard > Ping + PongTimeout
    /\ stage' = "away"
    /\ UNCHANGED <<clock, exists, last_seen, stored, orphaned, heard, touched, next_tick>>

\* The session ends for another reason.
leave_session ==
    /\ stage # "away"
    /\ stage' = "away"
    /\ UNCHANGED <<clock, exists, last_seen, stored, orphaned, heard, touched, next_tick>>

\* The expiry loop: the cutoff is now - expire_after, or 0.
expire ==
    /\ exists
    /\ last_seen < clock - ExpireAfter
    /\ exists' = FALSE
    /\ UNCHANGED <<clock, last_seen, stage, stored, orphaned, heard, touched, next_tick>>

\* Time passes, but not past a timer that is due.
pass_time ==
    /\ clock < MaxClock
    /\ stage \in {"known", "hello"} => clock < heard + MaxSetup
    /\ stage = "serving" => clock < next_tick
    /\ clock' = clock + 1
    /\ UNCHANGED <<exists, last_seen, stage, stored, orphaned, heard, touched, next_tick>>

ActivityNext ==
    \/ hello \/ touch \/ serve \/ frame \/ register_channel \/ ping \/ idle \/ leave_session \/ expire
    \/ pass_time

ActivitySpec == ActivityInit /\ [][ActivityNext]_activityVars

------------------------------------------------------------------------------
\* The types of the clocks and flags.
ActivityTypeOK ==
    /\ clock \in Nat /\ last_seen \in Nat /\ heard \in Nat /\ touched \in Nat
    /\ next_tick \in Nat
    /\ exists \in BOOLEAN /\ stored \in BOOLEAN /\ orphaned \in BOOLEAN
    /\ stage \in {"away", "known", "hello", "serving"}

\* "user_agents.expire_after never removes an active session": the user agent
\* that a session has stored, or found and touched, stays in the store.  One that
\* expires between the lookup and the touch does not: the session goes on without.
ActiveKept == stage \in {"hello", "serving"} /\ stored /\ ~orphaned => exists

\* "A session that sends nothing for ping_interval plus pong_timeout is
\* closed", at the next ping: none is silent for longer than that.
SilentClosed == stage = "serving" => clock - heard <= 2 * Ping + PongTimeout

==============================================================================
