------------------------- MODULE IdempotencyRegistry -------------------------
(***************************************************************************)
(* internal/util/idempotency: Registry, for one key.  Do merges the        *)
(* concurrent executions of a function for a key and replays its result;   *)
(* the steps below are the accesses to the three concurrent maps of the    *)
(* registry (fingerprints, results and the calls of the singleflight       *)
(* group), in the order Do makes them.  What the function does is up to    *)
(* the module that uses the registry (ThreadLaunch): the caller is at      *)
(* "run" while it executes, and Executed is its return.                    *)
(*                                                                         *)
(* A call of the singleflight group is named by the caller that leads it.  *)
(***************************************************************************)
EXTENDS Naturals

CONSTANTS
    Caller,         \* the goroutines that call the service
    Fingerprint,    \* what JSONFingerprint makes of the parameters
    None

VARIABLES
    fprint,     \* fingerprints: the fingerprint reserved for the key
    result,     \* results: the stored value or retained error
    flight,     \* singleflight: the leader of the call registered for the key
    frame       \* what each caller is doing

registry == <<fprint, result, flight>>

(***************************************************************************)
(* What an execution returns: a value, an error that a retry may undo, or  *)
(* an error wrapped by Retain.  "mismatch" is the error for a key that was *)
(* used with other parameters.  fp is the fingerprint it was executed for. *)
(***************************************************************************)
Outcome(kind, fp, val) == [kind |-> kind, fp |-> fp, val |-> val]

NoOutcome == Outcome("none", None, None)
Mismatch == Outcome("mismatch", None, None)

shouldRetain(o) == o.kind = "retained"
Stored(o) == o.kind \in {"value", "retained"}

\* The frame of caller c moves on to pc, with some fields changed.
Goes(c, pc) == [frame EXCEPT ![c].pc = pc]
Returns(c, o) == [frame EXCEPT ![c].pc = "return", ![c].out = o]

\* replayCached: the stored outcome, if it was stored for these parameters.
replayCached(fp) == IF result.fp = fp THEN result ELSE Mismatch

\* Do, first step: reserveFingerprint.
reserveFingerprint(c) ==
    /\ frame[c].pc = "reserve"
    /\ \/ /\ fprint \in {None, frame[c].fp}
          /\ fprint' = frame[c].fp
          /\ frame' = Goes(c, "load")
       \/ /\ fprint \notin {None, frame[c].fp}
          /\ frame' = Returns(c, Mismatch)
          /\ UNCHANGED fprint
    /\ UNCHANGED <<result, flight>>

\* The first look at the results, before the singleflight group.
LoadResult(c) ==
    /\ frame[c].pc = "load"
    /\ frame' = IF result # None THEN Returns(c, replayCached(frame[c].fp)) ELSE Goes(c, "join")
    /\ UNCHANGED registry

\* flight.Do: lead a call of its own, or wait for the one that is registered.
JoinFlight(c) ==
    /\ frame[c].pc = "join"
    /\ \/ /\ flight = None
          /\ flight' = c
          /\ frame' = Goes(c, "recheck")
       \/ /\ flight # None
          /\ frame' = [frame EXCEPT ![c].pc = "wait", ![c].leader = flight]
          /\ UNCHANGED flight
    /\ UNCHANGED <<fprint, result>>

\* A leader that trusts the look it took before it joined (for mutation).
RecheckNothing(c) ==
    /\ frame[c].pc = "recheck"
    /\ frame' = Goes(c, "run")
    /\ UNCHANGED registry

\* A leader looks at the results again before it executes the function.
RecheckResult(c) ==
    /\ frame[c].pc = "recheck"
    /\ frame' = IF result # None
                  THEN [frame EXCEPT ![c].pc = "leave", ![c].out = replayCached(frame[c].fp)]
                  ELSE Goes(c, "run")
    /\ UNCHANGED registry

\* The function returns o: a value or a retained error is stored.
Executed(c, o) ==
    /\ result' = IF Stored(o) THEN o ELSE result
    /\ frame' = [frame EXCEPT ![c].pc = "leave", ![c].out = o]
    /\ UNCHANGED <<fprint, flight>>

(***************************************************************************)
(* The call of leader c ends: the group drops it, unless Forget already    *)
(* did, and everyone who waits for it has its outcome.                     *)
(***************************************************************************)
Waiters(c) == {w \in Caller : frame[w].pc = "wait" /\ frame[w].leader = c}

LeaveFlight(c) ==
    /\ frame[c].pc = "leave"
    /\ flight' = IF flight = c THEN None ELSE flight
    /\ frame' = [w \in Caller |-> IF w = c THEN [frame[c] EXCEPT !.pc = "settle"]
                                  ELSE IF w \in Waiters(c)
                                    THEN [frame[w] EXCEPT !.pc = "settle", !.leader = None, !.out = frame[c].out]
                                    ELSE frame[w]]
    /\ UNCHANGED <<fprint, result>>

\* Do, last step: after an error that is not retained the key may be used again.
SettleDo(c) ==
    /\ frame[c].pc = "settle"
    /\ fprint' = IF ~Stored(frame[c].out) /\ fprint = frame[c].fp THEN None ELSE fprint
    /\ frame' = Goes(c, "return")
    /\ UNCHANGED <<result, flight>>

Do(c) ==
    \/ reserveFingerprint(c)
    \/ LoadResult(c)
    \/ JoinFlight(c)
    \/ RecheckResult(c)
    \/ LeaveFlight(c)
    \/ SettleDo(c)

\* RetainError: only a stored result is rewritten.
RetainedResult == IF result = None THEN None ELSE Outcome("retained", result.fp, None)

\* Error: is a retained error stored?
HasError == result # None /\ shouldRetain(result)

\* Forget: the three maps, one after the other.
ForgetFlight == flight' = None /\ UNCHANGED <<fprint, result>>
ForgetFingerprint == fprint' = None /\ UNCHANGED <<result, flight>>
ForgetResult == result' = None /\ UNCHANGED <<fprint, flight>>
=============================================================================
