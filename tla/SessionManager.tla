---------------------------- MODULE SessionManager ----------------------------
(***************************************************************************)
(* internal/provider/unified: SessionManager, the in-memory table of       *)
(* provider sessions, for one agent.  An entry carries a generation, so    *)
(* that a clean-up removes the session it looked at and no later one, and  *)
(* may be pending: a resumed session is hidden from Get until the thread   *)
(* module has persisted it and calls ActivateSession.  Resumes of an agent *)
(* share one singleflight call; a resolver that is handed a pending        *)
(* session waits for the entry's pendingDone channel, which activation,    *)
(* removal and replacement close.                                          *)
(*                                                                         *)
(* A critical section of the manager is one step.  The close or ForceStop  *)
(* of a session just taken out of the table follows the unlock in the same *)
(* goroutine and is part of the step.  Every resume of the agent names the *)
(* same provider thread (a binding never changes it), so the identity      *)
(* check of finishCoordinatedResume always passes.                         *)
(***************************************************************************)
EXTENDS Naturals, FiniteSets

CONSTANTS Caller, None,
          MaxSessions   \* bound on the sessions the provider opens

VARIABLES entry,        \* sessions[agent], or NoEntry
          generation,   \* nextGeneration
          made,         \* sessions opened so far; a session is its number
          open,         \* the sessions whose provider process runs
          flight,       \* the caller executing the resumeFlight call, or None
          frame         \* the program counter and locals of every caller

manager == <<entry, generation, made, open, flight>>

NoEntry == [gen |-> 0, sess |-> 0, pending |-> FALSE]

Entry == [gen : Nat, sess : Nat, pending : BOOLEAN]

Registered == entry # NoEntry

\* Get: a pending session is not found.
Visible == Registered /\ ~entry.pending

Goes(c, pc) == frame' = [frame EXCEPT ![c].pc = pc]

-----------------------------------------------------------------------------
(* Operations on the table. *)

ActivateSession == entry' = [entry EXCEPT !.pending = FALSE]

\* As Dropped, with the session left running.
DroppedOpen == entry' = NoEntry /\ UNCHANGED open

\* removeEntry followed by closeRemovedSession.
Dropped == /\ entry' = NoEntry
           /\ open' = open \ {entry.sess}

RemoveCurrent == Dropped

\* A generation that no longer matches belongs to a session that took over.
Remove(g) == IF entry.gen = g THEN Dropped ELSE UNCHANGED <<entry, open>>

registerWithIdentity(c, pending) ==
    /\ generation' = generation + 1
    /\ entry' = [gen |-> generation + 1, sess |-> frame[c].sess,
                 pending |-> pending]
    /\ open' = open \ ({entry.sess} \ {frame[c].sess})

-----------------------------------------------------------------------------
(* resumeSession.  Its caller enters at "flight" and leaves at "opened",       *)
(* "failed" or "lost" (an error the thread module treats as unrecoverable).    *)

resumeFlightDo(c) ==
    /\ frame[c].pc = "flight"
    /\ IF flight = None THEN /\ flight' = c
                             /\ Goes(c, "current")
                        ELSE /\ UNCHANGED flight
                             /\ Goes(c, "joined")
    /\ UNCHANGED <<entry, generation, made, open>>

\* singleflight hands the outcome of its leader to everyone who joined.
Settle(c, outcome) ==
    /\ flight' = None
    /\ frame' = [d \in Caller |->
                   IF d = c \/ frame[d].pc = "joined"
                   THEN [frame[d] EXCEPT !.pc = outcome.pc, !.gen = outcome.gen,
                                         !.sess = outcome.sess]
                   ELSE frame[d]]

Failure(pc) == [pc |-> pc, gen |-> 0, sess |-> 0]

\* The session of the entry; gen is that of its pendingDone channel, 0 if none.
currentResume == [pc |-> "finish", sess |-> entry.sess,
                  gen |-> IF entry.pending THEN entry.gen ELSE 0]

runCoordinatedResume(c) ==
    /\ frame[c].pc = "current"
    /\ IF Registered THEN Settle(c, currentResume)
                     ELSE /\ Goes(c, "open")
                          /\ UNCHANGED flight
    /\ UNCHANGED <<entry, generation, made, open>>

\* The provider driver's ResumeSession.
OpenSession(c) ==
    /\ frame[c].pc = "open"
    /\ \/ /\ made < MaxSessions
          /\ made' = made + 1
          /\ open' = open \cup {made + 1}
          /\ frame' = [frame EXCEPT ![c].pc = "register", ![c].sess = made + 1]
          /\ UNCHANGED flight
       \/ /\ \E pc \in {"failed", "lost"} : Settle(c, Failure(pc))
          /\ UNCHANGED <<made, open>>
    /\ UNCHANGED <<entry, generation>>

Register(c, pending) ==
    /\ frame[c].pc = "register"
    /\ registerWithIdentity(c, pending)
    /\ Goes(c, "reread")
    /\ UNCHANGED <<made, flight>>

\* The owner reads the entry again; it may have been removed by now.
Reread(c) ==
    /\ frame[c].pc = "reread"
    /\ Settle(c, IF Registered THEN currentResume ELSE Failure("failed"))
    /\ UNCHANGED <<entry, generation, made, open>>

\* A resume that owns pending sessions returns at once, a resolver waits.
finishCoordinatedResume(c, pending) ==
    /\ frame[c].pc = "finish"
    /\ Goes(c, IF frame[c].gen = 0 \/ pending THEN "opened" ELSE "wait")
    /\ UNCHANGED manager

\* As waitPendingResume, for a channel that only activation closes.
waitActivation(c) ==
    /\ frame[c].pc = "wait"
    /\ entry.gen = frame[c].gen /\ ~entry.pending
    /\ Goes(c, "opened")
    /\ UNCHANGED manager

waitPendingResume(c) ==
    /\ frame[c].pc = "wait"
    /\ ~(entry.gen = frame[c].gen /\ entry.pending)
    /\ Goes(c, IF Visible THEN "opened" ELSE "failed")
    /\ UNCHANGED manager

\* waitPendingResume, when the caller's context ends first.
CancelWait(c) ==
    /\ frame[c].pc = "wait"
    /\ Goes(c, "failed")
    /\ UNCHANGED manager

resumeSession(c, pending) ==
    \/ resumeFlightDo(c)
    \/ runCoordinatedResume(c)
    \/ OpenSession(c)
    \/ Register(c, pending)
    \/ Reread(c)
    \/ finishCoordinatedResume(c, pending)
    \/ waitPendingResume(c)

=============================================================================
