--------------------------- MODULE CacheKeepalive ---------------------------
(***************************************************************************)
(* internal/platform/cachekeepalive: the timers that ping idle provider    *)
(* sessions to keep their prompt cache warm.  There is an entry per        *)
(* session with the agent it belongs to and its current time.AfterFunc     *)
(* timer; bus events register, reset and stop entries, and a ping arms the *)
(* next timer itself.  Stopping a timer that already fired has no effect:  *)
(* its callback runs on, next to whatever replaced it.                     *)
(*                                                                         *)
(* A critical section of the manager's mutex is a step.  What the stores   *)
(* and the resolver answer a callback is left open.                        *)
(***************************************************************************)
EXTENDS Naturals

CONSTANTS
    Agent, Session, Nil,
    MaxTimers       \* bound on the timers created

ASSUME KeepaliveAssumption == Nil \notin Agent \cup Session /\ MaxTimers \in Nat

VARIABLES
    timers,         \* timers[session]: the agent and the timer, or NoTimer
    created,        \* timers created so far; a timer is its number, nil is 0
    armed,          \* the timers that will fire
    owner,          \* owner[t]: the session timer t was made for
    callback,       \* callback[t]: where the callback of timer t is
    drainClosed,    \* Shutdown closed the gate
    cancelled,      \* pingCtx is cancelled
    shutdown        \* "no", "gate", "cancel", "wait", "done" or "timeout"

entries == <<timers, created, armed, owner>>
gate == <<drainClosed, cancelled, shutdown>>
keepaliveVars == <<entries, callback, gate>>

NoTimer == [agent |-> Nil, timer |-> 0]

Timed == {s \in Session : timers[s] # NoTimer}

NoCallback == [pc |-> "none", agent |-> Nil]

KeepaliveInit ==
    /\ timers = [s \in Session |-> NoTimer]
    /\ created = 0 /\ armed = {}
    /\ owner = [t \in 1..MaxTimers |-> Nil]
    /\ callback = [t \in 1..MaxTimers |-> NoCallback]
    /\ drainClosed = FALSE /\ cancelled = FALSE /\ shutdown = "no"

At(t, pc) == callback' = [callback EXCEPT ![t].pc = pc]

-----------------------------------------------------------------------------
(***************************************************************************)
(* The operations that bus events call.                                    *)
(***************************************************************************)

Without(gone) == [s \in Session |-> IF s \in gone THEN NoTimer ELSE timers[s]]

Running(gone) == armed \ {timers[s].timer : s \in gone}

\* stopLocked, for every session of a set.
stopLocked(gone) == timers' = Without(gone) /\ armed' = Running(gone)

Arm(s, a, gone) ==
    /\ created < MaxTimers
    /\ created' = created + 1
    /\ timers' = [Without(gone) EXCEPT ![s] = [agent |-> a, timer |-> created + 1]]
    /\ armed' = Running(gone \cup {s}) \cup {created + 1}
    /\ owner' = [owner EXCEPT ![created + 1] = s]

\* As scheduleLocked, without a look at the gate.
scheduleAnyway(s, a, gone) == Arm(s, a, gone)

\* The old timer of the entry is stopped; behind the gate none replaces it.
scheduleLocked(s, a, gone) ==
    \/ /\ drainClosed
       /\ timers' = [Without(gone) EXCEPT ![s] = [agent |-> a, timer |-> 0]]
       /\ armed' = Running(gone \cup {s})
       /\ UNCHANGED <<created, owner>>
    \/ /\ ~drainClosed
       /\ Arm(s, a, gone)

OfAgent(a) == {s \in Session : timers[s].agent = a}

\* As register, with the other sessions of the agent kept.
registerBeside(s, a) ==
    /\ scheduleLocked(s, a, {})
    /\ UNCHANGED <<callback, gate>>

\* An agent's entries for other sessions go.
register(s, a) ==
    /\ scheduleLocked(s, a, OfAgent(a) \ {s})
    /\ UNCHANGED <<callback, gate>>

ResetTimerByAgent(a) ==
    /\ \E s \in OfAgent(a) : scheduleLocked(s, a, {})
    /\ UNCHANGED <<callback, gate>>

StopTimerByAgent(a) ==
    /\ stopLocked(OfAgent(a))
    /\ UNCHANGED <<created, owner, callback, gate>>

-----------------------------------------------------------------------------
(***************************************************************************)
(* The callback of a timer.                                                *)
(***************************************************************************)
Fire(t) ==
    /\ t \in armed
    /\ armed' = armed \ {t}
    /\ At(t, "enter")
    /\ UNCHANGED <<timers, created, owner, gate>>

enterPing(t) ==
    /\ callback[t].pc = "enter"
    /\ At(t, IF drainClosed THEN "done" ELSE "snapshot")
    /\ UNCHANGED <<entries, gate>>

IsCurrent(t) == timers[owner[t]].timer = t

\* snapshotTimer gives up a callback whose timer was replaced or stopped.
preparePing(t) ==
    /\ callback[t].pc = "snapshot"
    /\ callback' = [callback EXCEPT
                      ![t].pc = IF IsCurrent(t) /\ ~cancelled THEN "peer" ELSE "done",
                      ![t].agent = timers[owner[t]].agent]
    /\ UNCHANGED <<entries, gate>>

\* Without a live binding or a session that takes pings the entry goes, unless
\* its timer is a later one.
resolvePingPeer(t) ==
    /\ callback[t].pc = "peer"
    /\ \/ At(t, "send") /\ UNCHANGED <<timers, armed>>
       \/ /\ At(t, "done")
          /\ stopLocked(IF IsCurrent(t) THEN {owner[t]} ELSE {})
    /\ UNCHANGED <<created, owner, gate>>

\* SendKeepalive returns, with an error or not.
SendKeepalive(t) ==
    /\ callback[t].pc = "send"
    /\ At(t, IF cancelled THEN "done" ELSE "reset")
    /\ UNCHANGED <<entries, gate>>

\* As deliverPing, with nothing armed: a failed ping ends the cycle.
deliverOrDrop(t) ==
    /\ callback[t].pc = "reset"
    /\ At(t, "done")
    /\ UNCHANGED <<entries, gate>>

\* The end of deliverPing: the timer of the agent starts again, whether the
\* ping failed or not.
deliverPing(t) ==
    /\ callback[t].pc = "reset"
    /\ At(t, "done")
    /\ LET a == callback[t].agent IN
       IF OfAgent(a) = {} THEN UNCHANGED entries
       ELSE \E s \in OfAgent(a) : scheduleLocked(s, a, {})
    /\ UNCHANGED gate

Callback(t) ==
    \/ enterPing(t)
    \/ preparePing(t)
    \/ resolvePingPeer(t)
    \/ SendKeepalive(t)
    \/ deliverPing(t)

\* pingInflight counts the callbacks that entered.
Inside == {t \in 1..MaxTimers : callback[t].pc \in {"snapshot", "peer", "send", "reset"}}

-----------------------------------------------------------------------------
(***************************************************************************)
(* Shutdown.                                                               *)
(***************************************************************************)
closeDrainGate ==
    /\ shutdown = "no"
    /\ drainClosed' = TRUE
    /\ shutdown' = "gate"
    /\ UNCHANGED <<entries, callback, cancelled>>

pingCancel ==
    /\ shutdown = "gate"
    /\ cancelled' = TRUE
    /\ shutdown' = "cancel"
    /\ UNCHANGED <<entries, callback, drainClosed>>

StopAll ==
    /\ shutdown = "cancel"
    /\ stopLocked(Session)
    /\ shutdown' = "wait"
    /\ UNCHANGED <<created, owner, callback, drainClosed, cancelled>>

\* Shutdown returns once the callbacks are out, or when its grace is over.
Drained ==
    /\ shutdown = "wait"
    /\ \/ Inside = {} /\ shutdown' = "done"
       \/ shutdown' = "timeout"
    /\ UNCHANGED <<entries, callback, drainClosed, cancelled>>

Shutdown == closeDrainGate \/ pingCancel \/ StopAll \/ Drained

-----------------------------------------------------------------------------

KeepaliveNext ==
    \/ \E s \in Session, a \in Agent : register(s, a)
    \/ \E a \in Agent : ResetTimerByAgent(a) \/ StopTimerByAgent(a)
    \/ \E t \in 1..MaxTimers : Fire(t) \/ Callback(t)
    \/ Shutdown

KeepaliveSpec == KeepaliveInit /\ [][KeepaliveNext]_keepaliveVars

-----------------------------------------------------------------------------
(***************************************************************************)
(* Properties.                                                             *)
(***************************************************************************)

\* Only timers that were made are armed or called, each belongs to a session,
\* and an entry names an agent and a timer made for its session, or none.
KeepaliveTypeOK ==
    /\ armed \subseteq 1..created
    /\ \A t \in 1..MaxTimers : /\ owner[t] # Nil <=> t <= created
                               /\ callback[t].pc # "none" => t \in 1..created \ armed
    /\ \A s \in Timed : /\ timers[s].agent \in Agent
                            /\ timers[s].timer # 0 => owner[timers[s].timer] = s

\* A registered session keeps being pinged: its timer is armed, or the callback
\* of that very timer is on its way to arm the next one or to remove the entry.
TimerNotLost ==
    ~drainClosed =>
        \A s \in Timed :
            LET t == timers[s].timer IN
            t \in armed \/ callback[t].pc \in {"enter", "snapshot", "peer", "send", "reset"}

\* An agent has one entry, and every armed timer is the current one of an entry:
\* no timer of a replaced or stopped session fires later.
OneTimerPerAgent ==
    /\ \A a \in Agent : \A s, u \in OfAgent(a) : s = u
    /\ armed \subseteq {timers[s].timer : s \in Session}

\* A callback that finds its session gone does not take away an entry that was
\* reset meanwhile: an armed entry is removed by stop events, a new session of
\* the agent or Shutdown, never by a callback.
ResetSurvives ==
    [][\A s \in Session :
          timers[s].timer \in armed /\ timers'[s] = NoTimer
             => callback' = callback]_keepaliveVars

\* When Shutdown returns without a timeout no ping runs and none can start.
QuietAfterShutdown ==
    shutdown = "done" => armed = {} /\ Inside = {}

=============================================================================
