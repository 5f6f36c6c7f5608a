------------------------------ MODULE TurnTracker ------------------------------
(***************************************************************************)
(* The turn service of the desktop application (internal/module/turn) for  *)
(* one thread: the in-memory tracker, PrepareTurn and StartTurn with the   *)
(* watcher they leave behind, the Stop requests that race with them, the   *)
(* interrupt of a closing thread, force-complete, CleanupThread, and the   *)
(* durable rows of internal/store/turndedupe.                              *)
(*                                                                         *)
(* One step is one critical section of the tracker's lock, one call to the *)
(* provider's session or one statement on the registry.  The provider is   *)
(* external.  A turn's provider id is never empty and its dedupe key is    *)
(* its own.  turn/interrupt demands a request id that is not empty.        *)
(* Errors strike at any call, so they need no counter.                     *)
(***************************************************************************)
EXTENDS Naturals, Sequences

CONSTANTS
    Turn,      \* local turn ids
    Caller,    \* concurrent callers of interrupt, force-complete and close
    Request,   \* the request ids of Stops
    Overlap    \* whether a Stop is repeated before its last answer came

None == ""  \* the empty request id

ASSUME TurnAssumption == None \notin Request /\ Overlap \in BOOLEAN

VARIABLES
    trk,       \* inMemoryTurnTrackerStore.turns
    recency,   \* the local ids, most recently updated first: updatedAt
    start,     \* per turn: where PrepareTurn, StartTurn and the watcher are
    call,      \* per caller: where its request is
    prov,      \* per turn: what the provider's turn is doing
    row,       \* per turn: its row of turn_dedupe_registry
    answered   \* per turn: interrupts for a Stop the provider acknowledged (0, 1, many)

vars == <<trk, recency, start, call, prov, row, answered>>

------------------------------------------------------------------------------
(* The state machine of a turn.                                            *)

Terminal == {"interrupted", "completed", "failed", "stalled"}

Permits ==
    [preparing |-> [run |-> "running", complete |-> "completed",
                    interrupt |-> "interrupting", abort |-> "interrupted",
                    fail |-> "failed", stall |-> "stalled"],
     running |-> [force |-> "force_completing", interrupt |-> "interrupting",
                  abort |-> "interrupted", complete |-> "completed",
                  fail |-> "failed", stall |-> "stalled"],
     force_completing |-> [complete |-> "completed", fail |-> "failed",
                           stall |-> "stalled", abort |-> "interrupted"],
     interrupting |-> [abort |-> "interrupted", fail |-> "failed",
                       complete |-> "interrupted", run |-> "running",
                       stall |-> "stalled"]]

Permitted(st, trigger) == st \in DOMAIN Permits /\ trigger \in DOMAIN Permits[st]

\* A trigger the state does not permit is logged and changes nothing.
Fire(st, trigger) == IF Permitted(st, trigger) THEN Permits[st][trigger] ELSE st

------------------------------------------------------------------------------
(* Tracked turns.  "absent": there is no record.                           *)

NoTurn ==
    [state |-> "absent", pid |-> FALSE, handle |-> FALSE, startClaimed |-> FALSE,
     requested |-> FALSE, claim |-> None, accepted |-> None, owned |-> FALSE,
     sent |-> FALSE, terminalSent |-> FALSE, retryable |-> FALSE, diag |-> FALSE]

Fresh == [NoTurn EXCEPT !.state = "preparing"]

IsTerminal(t) == trk[t].state \in Terminal
Present(t) == trk[t].state # "absent"
Active(t) == Present(t) /\ ~IsTerminal(t)

\* MutateLatest and ActiveByThread: the active turn that was updated last.
IsLatest(t) ==
    /\ Active(t)
    /\ \A i \in 1 .. Len(recency) :
         Active(recency[i]) => \E k \in 1 .. i : recency[k] = t

Touched(t) == <<t>> \o SelectSeq(recency, LAMBDA u : u # t)

\* Mutate: without a record there is nothing to change.
Put(t, r) == trk' = [trk EXCEPT ![t] = r] /\ recency' = Touched(t)
Mutate(t, r) == IF Present(t) THEN Put(t, r) ELSE UNCHANGED <<trk, recency>>
MutateQuietly(t, r) ==
    trk' = [trk EXCEPT ![t] = IF Present(t) THEN r ELSE @] /\ UNCHANGED recency

Cleared(r) ==
    [r EXCEPT !.terminalSent = @ \/ r.sent, !.claim = None, !.owned = FALSE,
              !.sent = FALSE, !.requested = FALSE, !.retryable = FALSE]

\* A turn that ended badly after an interrupt was delivered was interrupted.
Completed(r, ok) ==
    [Cleared(r) EXCEPT !.handle = FALSE,
       !.state = IF r.state \in Terminal THEN @
                 ELSE Fire(@, IF ok THEN "complete"
                              ELSE IF r.requested /\ r.sent THEN "abort" ELSE "fail")]

Stall(r) == [Cleared(r) EXCEPT !.handle = FALSE, !.state = Fire(@, "stall")]

CanClaimPreparingStart(t, q) ==
    /\ trk[t].state \in {"preparing", "interrupting"}
    /\ ~trk[t].startClaimed /\ ~trk[t].handle /\ ~trk[t].pid
    /\ q = None \/ trk[t].accepted = q

\* A claim that no one has promoted yet is taken over by the binding.
BindTakesOver(r) == r.claim # None /\ r.accepted = None
BindBlocked(r) == BindTakesOver(r) /\ ~Permitted(r.state, "interrupt")

TakenOver(r) ==
    IF BindTakesOver(r)
      THEN [r EXCEPT !.state = Fire(@, "interrupt"), !.claim = None,
                     !.accepted = r.claim, !.requested = TRUE]
      ELSE r

\* Mutant of BindClaimsDelivery: whoever delivers already is overlooked.
BindAlwaysDelivers(r) == ~BindBlocked(r) /\ TakenOver(r).requested /\ ~r.sent

BindClaimsDelivery(r) ==
    /\ ~BindBlocked(r)
    /\ TakenOver(r).requested /\ ~r.owned /\ ~r.sent

BindProviderID(r) ==
    LET b == [r EXCEPT !.pid = TRUE]
    IN  IF BindBlocked(r) THEN b
        ELSE [TakenOver(b) EXCEPT !.owned = @ \/ BindClaimsDelivery(r)]

CanClaimDelivery(r, q) == r.claim = q /\ ~r.owned /\ ~r.sent

AckTerminal(r, q) == r.accepted \in {None, q}
AckKnown(r, q) == r.accepted = q /\ r.sent
AckOwner(r, q) == r.owned /\ q = (IF r.accepted = None THEN r.claim ELSE r.accepted)
AckLive(r, q) ==
    \/ AckKnown(r, q)
    \/ AckOwner(r, q) /\ (r.requested \/ Permitted(r.state, "interrupt"))

Acknowledges(r, q) == IF r.state \in Terminal THEN AckTerminal(r, q) ELSE AckLive(r, q)

\* acknowledgeInterruptDelivery; an owner whose transition is refused has
\* written the accepted id by then.
Acknowledged(r, q) ==
    IF r.state \in Terminal
      THEN IF AckTerminal(r, q)
             THEN [r EXCEPT !.accepted = q, !.terminalSent = TRUE, !.retryable = FALSE]
             ELSE r
    ELSE IF AckKnown(r, q) THEN r
    ELSE IF AckLive(r, q)
      THEN [r EXCEPT !.accepted = q, !.requested = TRUE, !.claim = None, !.sent = TRUE,
                     !.retryable = FALSE,
                     !.state = IF r.requested THEN @ ELSE Fire(@, "interrupt")]
    ELSE IF AckOwner(r, q) THEN [r EXCEPT !.accepted = q]
    ELSE r

\* Mutant of ReleaseUndelivered: the failed delivery is not marked retryable.
ReleaseForGood(r, q) ==
    IF r.accepted = q /\ r.owned /\ ~r.sent /\ r.state \in {"interrupting", "running"}
      THEN [r EXCEPT !.state = "running", !.owned = FALSE, !.requested = FALSE]
      ELSE r

ReleaseUndelivered(r, q) ==
    IF r.accepted = q /\ r.owned /\ ~r.sent /\ r.state \in {"interrupting", "running"}
      THEN [r EXCEPT !.state = "running", !.owned = FALSE, !.requested = FALSE,
                     !.retryable = TRUE]
      ELSE r

ReleaseClaim(r, q) ==
    IF r.claim = q THEN [r EXCEPT !.claim = None, !.owned = r.sent /\ @] ELSE r

\* confirmInterruptClaim registers the Stop of a turn that has no provider yet.
Confirms(r, q) ==
    IF r.claim = q THEN Permitted(r.state, "interrupt") ELSE r.accepted = q

Confirmed(r, q) ==
    IF r.claim # q THEN r
    ELSE LET c == [r EXCEPT !.claim = None, !.retryable = FALSE, !.accepted = q]
         IN  IF Permitted(r.state, "interrupt")
               THEN [c EXCEPT !.state = Fire(@, "interrupt"), !.requested = TRUE]
               ELSE c

\* applyActiveInterruptClaim: the first Stop claims; the same one may claim
\* again when its delivery failed.
Reclaims(r, q) == r.accepted = q /\ r.retryable /\ ~r.owned /\ ~r.sent
FirstClaims(r) == r.accepted = None /\ ~r.requested /\ r.claim = None
Claims(r, q) == Reclaims(r, q) \/ FirstClaims(r)
Claimed(r, q) == [r EXCEPT !.claim = q, !.retryable = Reclaims(r, q)]

------------------------------------------------------------------------------
Free == [pc |-> "idle", t |-> None, q |-> None, handle |-> FALSE, bare |-> FALSE]

NotStarted == [pc |-> "none", q |-> None, retr |-> FALSE]

Init ==
    /\ trk = [t \in Turn |-> NoTurn]
    /\ recency = <<>>
    /\ start = [t \in Turn |-> NotStarted]
    /\ call = [a \in Caller |-> Free]
    /\ prov = [t \in Turn |-> "none"]
    /\ row = [t \in Turn |-> "none"]
    /\ answered = [t \in Turn |-> 0]

Ended == {"ok", "err", "canceled"}

SetStart(t, s) == start' = [start EXCEPT ![t] = s]
Step(t, pc) == SetStart(t, [start[t] EXCEPT !.pc = pc])
At(t, pc) == start[t].pc = pc
Rest == UNCHANGED call

\* What a client asks for with this request id is still unanswered.
Unanswered(q) ==
    \/ \E a \in Caller : call[a].q = q
    \/ \E t \in Turn : start[t].pc \in {"registering", "confirming"} /\ start[t].q = q

MaySend(q) == Overlap \/ ~Unanswered(q)

------------------------------------------------------------------------------
(* PrepareTurn, with the Stop the client may already have sent with it.    *)

PrepareTurn(t) ==
    /\ At(t, "none") /\ ~Present(t)
    /\ Put(t, Fresh)
    /\ \E q \in {r \in Request : MaySend(r)} \cup {None} :
         SetStart(t, [start[t] EXCEPT !.pc = IF q = None THEN "preparing" ELSE "registering",
                                      !.q = q])
    /\ UNCHANGED <<prov, row, answered>> /\ Rest

\* The same Stop again, on the active turn or, when there is none, on the one named.
AcceptedBefore(t, q) ==
    trk[t].accepted = q /\ (IsLatest(t) \/ \A u \in Turn : ~Active(u))

\* ClaimInterruptTarget on behalf of PrepareTurn; what it finds is not a turn
\* of a provider, so the next step confirms.
RegisterPreparing(t) ==
    LET q == start[t].q IN
    /\ At(t, "registering")
    /\ \/ /\ IsLatest(t) /\ Claims(trk[t], q)
          /\ MutateQuietly(t, Claimed(trk[t], q)) /\ Step(t, "confirming")
       \/ /\ ~(IsLatest(t) /\ Claims(trk[t], q)) /\ AcceptedBefore(t, q)
          /\ Step(t, "preparing") /\ UNCHANGED <<trk, recency>>
       \/ /\ ~(IsLatest(t) /\ Claims(trk[t], q)) /\ ~AcceptedBefore(t, q)
          /\ Mutate(t, Completed(trk[t], FALSE)) /\ Step(t, "done")
    /\ UNCHANGED <<prov, row, answered>> /\ Rest

ConfirmPreparing(t) ==
    LET q == start[t].q IN
    /\ At(t, "confirming")
    /\ IF Confirms(trk[t], q)
         THEN Mutate(t, Confirmed(trk[t], q)) /\ Step(t, "preparing")
         ELSE Mutate(t, Completed(Confirmed(trk[t], q), FALSE)) /\ Step(t, "done")
    /\ UNCHANGED <<prov, row, answered>> /\ Rest

PrepareEnds(t) ==
    /\ At(t, "preparing")
    /\ \/ Step(t, "prepared") /\ UNCHANGED <<trk, recency>>
       \/ Step(t, "done") /\ Mutate(t, Completed(trk[t], FALSE))
    /\ UNCHANGED <<prov, row, answered>> /\ Rest

------------------------------------------------------------------------------
(* StartTurn.                                                              *)

\* Cleanup drops terminal turns that are old enough; the turn is then taken
\* over from PrepareTurn, or made by a caller that prepares by itself.
ClaimStartTracker(t) ==
    /\ At(t, "none") \/ At(t, "prepared")
    /\ \E old \in SUBSET {u \in Turn : IsTerminal(u)} :
         LET kept == [u \in Turn |-> IF u \in old THEN NoTurn ELSE trk[u]]
         IN  \/ /\ CanClaimPreparingStart(t, start[t].q)
                /\ trk' = [kept EXCEPT ![t].startClaimed = TRUE]
                /\ recency' = Touched(t) /\ Step(t, "claimed")
             \/ /\ kept[t] = NoTurn /\ start[t].q = None
                /\ trk' = [kept EXCEPT ![t] = Fresh]
                /\ recency' = Touched(t) /\ Step(t, "claimed")
             \/ /\ ~CanClaimPreparingStart(t, start[t].q)
                /\ kept[t] # NoTurn \/ start[t].q # None
                /\ trk' = kept
                /\ Step(t, "done") /\ UNCHANGED recency
    /\ UNCHANGED <<prov, row, answered>> /\ Rest

\* RegisterDedupeKey and the durable row, before the provider is asked.
RecordDedupeUpsert(t) ==
    /\ At(t, "claimed")
    /\ \/ /\ row' = [row EXCEPT ![t] = IF @ = "none" THEN "live" ELSE @]
          /\ Mutate(t, trk[t]) /\ Step(t, "upserted")
       \/ /\ Mutate(t, Completed(trk[t], FALSE)) /\ Step(t, "done")
          /\ UNCHANGED row
    /\ UNCHANGED <<prov, answered>> /\ Rest

SessionStartTurn(t) ==
    /\ At(t, "upserted")
    /\ \/ /\ prov' = [prov EXCEPT ![t] = "live"]
          /\ Step(t, "started") /\ UNCHANGED <<trk, recency>>
       \/ /\ Mutate(t, Completed(trk[t], FALSE))
          /\ Step(t, "marking") /\ UNCHANGED prov
    /\ UNCHANGED <<row, answered>> /\ Rest

AttachHandle(t) ==
    /\ At(t, "started")
    /\ Mutate(t, [trk[t] EXCEPT !.handle = TRUE, !.pid = TRUE])
    /\ Step(t, "attached")
    /\ UNCHANGED <<prov, row, answered>> /\ Rest

\* deliverRegisteredCancellation begins: the id it got is the one to deliver.
DeliverRegistered(t) ==
    LET r == trk[t]
        b == BindProviderID(r)
        delivers == Present(t) /\ BindClaimsDelivery(r) /\ b.accepted # None
    IN  /\ At(t, "attached")
        /\ Mutate(t, b)
        /\ SetStart(t, [pc |-> IF delivers THEN "delivering" ELSE "bound",
                        q |-> IF delivers THEN b.accepted ELSE None, retr |-> FALSE])
        /\ UNCHANGED <<prov, row, answered>> /\ Rest

Answers(t) == answered' = [answered EXCEPT ![t] = IF @ < 2 THEN @ + 1 ELSE @]

\* The provider acknowledges the interrupt, or there is an error: it refused, or
\* the answer to an interrupt it took did not come within the call's timeout.
SessionInterrupt(t) ==
    /\ At(t, "delivering")
    /\ \/ prov[t] = "live" /\ Answers(t) /\ Step(t, "delivered")
       \/ Step(t, "undelivered") /\ UNCHANGED answered
    /\ UNCHANGED <<trk, recency, prov, row>> /\ Rest

AcknowledgeRegistered(t) ==
    /\ At(t, "delivered")
    /\ Mutate(t, Acknowledged(trk[t], start[t].q))
    /\ Step(t, IF Present(t) /\ Acknowledges(trk[t], start[t].q) THEN "bound"
                                                                ELSE "undelivered")
    /\ UNCHANGED <<prov, row, answered>> /\ Rest

PreserveDeliveryFailure(t) ==
    /\ At(t, "undelivered")
    /\ Mutate(t, ReleaseUndelivered(trk[t], start[t].q))
    /\ SetStart(t, [start[t] EXCEPT !.pc = "bound", !.retr = TRUE])
    /\ UNCHANGED <<prov, row, answered>> /\ Rest

RecordDedupeProviderID(t) ==
    /\ At(t, "bound")
    /\ \/ UNCHANGED <<trk, recency>>
       \/ Mutate(t, [trk[t] EXCEPT !.retryable = @ /\ ~start[t].retr, !.diag = TRUE])
    /\ Step(t, "recorded")
    /\ UNCHANGED <<prov, row, answered>> /\ Rest

\* Mutant of FinalizeStartedTurn: running is written past the state machine.
FinalizeUnchecked(t) ==
    /\ At(t, "recorded")
    /\ Mutate(t, IF start[t].retr THEN trk[t] ELSE [trk[t] EXCEPT !.state = "running"])
    /\ Step(t, "watching")
    /\ UNCHANGED <<prov, row, answered>> /\ Rest

FinalizeStartedTurn(t) ==
    /\ At(t, "recorded")
    /\ Mutate(t, IF start[t].retr THEN trk[t]
                 ELSE [trk[t] EXCEPT !.state = Fire(@, "run")])
    /\ Step(t, "watching")
    /\ UNCHANGED <<prov, row, answered>> /\ Rest

\* completeStartedTurn or the watcher: a cancelled turn is interrupted first.
AfterDone(t) ==
    Completed([trk[t] EXCEPT !.state = IF prov[t] = "canceled" THEN Fire(@, "abort") ELSE @],
              prov[t] = "ok")

\* Mutant of WatchTurn: the watcher waits for the provider alone.
WatchTurnForever(t) ==
    /\ At(t, "watching")
    /\ prov[t] \in Ended /\ Mutate(t, AfterDone(t))
    /\ Step(t, "marking")
    /\ UNCHANGED <<prov, row, answered>> /\ Rest

\* The watcher gives up after trackerTTL and when the service stops.
WatchTurn(t) ==
    /\ At(t, "watching")
    /\ \/ prov[t] \in Ended /\ Mutate(t, AfterDone(t))
       \/ Mutate(t, Stall(trk[t]))
    /\ Step(t, "marking")
    /\ UNCHANGED <<prov, row, answered>> /\ Rest

MarkedTerminal(t) == row' = [row EXCEPT ![t] = IF @ = "live" THEN "terminal" ELSE @]

\* The error of the statement is dropped.
RecordDedupeTerminal(t) ==
    /\ At(t, "marking")
    /\ MarkedTerminal(t) \/ UNCHANGED row
    /\ Step(t, "done")
    /\ UNCHANGED <<trk, recency, prov, answered>> /\ Rest

StartSteps(t) ==
    \/ RegisterPreparing(t) \/ ConfirmPreparing(t) \/ PrepareEnds(t)
    \/ RecordDedupeUpsert(t) \/ SessionStartTurn(t) \/ AttachHandle(t)
    \/ DeliverRegistered(t) \/ SessionInterrupt(t) \/ AcknowledgeRegistered(t)
    \/ PreserveDeliveryFailure(t) \/ RecordDedupeProviderID(t)
    \/ FinalizeStartedTurn(t) \/ WatchTurn(t) \/ RecordDedupeTerminal(t)

TurnEnds(t) ==
    /\ prov[t] = "live"
    /\ \E e \in Ended : prov' = [prov EXCEPT ![t] = e]
    /\ UNCHANGED <<trk, recency, start, call, row, answered>>

------------------------------------------------------------------------------
(* Stop, force-complete, and the interrupt and clean-up of a closing thread. *)

SetCall(a, c) == call' = [call EXCEPT ![a] = c]
Move(a, pc) == SetCall(a, [call[a] EXCEPT !.pc = pc])
Calls(a, pc) == call[a].pc = pc
Aside == UNCHANGED <<start, prov>>

Captured(t, q, pc) ==
    [pc |-> pc, t |-> t, q |-> q, handle |-> trk[t].handle,
     bare |-> ~trk[t].handle /\ ~trk[t].pid]

\* InterruptTurnForTarget: what is not claimed is answered at once.
ClaimInterruptTarget(a, t, q) ==
    /\ Calls(a, "idle") /\ MaySend(q)
    /\ IsLatest(t) /\ Claims(trk[t], q)
    /\ MutateQuietly(t, Claimed(trk[t], q))
    /\ SetCall(a, Captured(t, q, "claimed"))
    /\ Aside /\ UNCHANGED <<row, answered>>

ExecuteInterruptClaim(a) ==
    LET t == call[a].t
        q == call[a].q
        r == trk[t]
    IN  /\ Calls(a, "claimed")
        /\ \/ /\ call[a].bare
              /\ Mutate(t, IF Confirms(r, q) THEN Confirmed(r, q)
                           ELSE ReleaseClaim(Confirmed(r, q), q))
              /\ SetCall(a, Free)
           \/ /\ ~call[a].bare /\ Present(t) /\ CanClaimDelivery(r, q)
              /\ Mutate(t, [r EXCEPT !.owned = TRUE]) /\ Move(a, "calling")
           \/ /\ ~call[a].bare /\ ~(Present(t) /\ CanClaimDelivery(r, q))
              /\ MutateQuietly(t, ReleaseClaim(r, q)) /\ Move(a, "replaying")
        /\ Aside /\ UNCHANGED <<row, answered>>

\* replayBoundInterruptClaim looks at the turn again, and may claim it again.
ReplayBoundInterruptClaim(a) ==
    LET t == call[a].t IN
    /\ Calls(a, "replaying")
    /\ IF IsLatest(t) /\ Claims(trk[t], call[a].q)
         THEN MutateQuietly(t, Claimed(trk[t], call[a].q))
         ELSE UNCHANGED <<trk, recency>>
    /\ SetCall(a, Free)
    /\ Aside /\ UNCHANGED <<row, answered>>

\* The same two outcomes as in SessionInterrupt.
CallInterrupt(a) ==
    LET t == call[a].t IN
    /\ Calls(a, "calling")
    /\ \/ prov[t] = "live" /\ Answers(t) /\ Move(a, "told")
       \/ Move(a, "refused") /\ UNCHANGED answered
    /\ Aside /\ UNCHANGED <<trk, recency, row>>

AcknowledgeInterrupt(a) ==
    LET t == call[a].t
        q == call[a].q
    IN  /\ Calls(a, "told")
        /\ Mutate(t, Acknowledged(trk[t], q))
        /\ IF Present(t) /\ Acknowledges(trk[t], q) THEN Move(a, "settling")
                                                    ELSE SetCall(a, Free)
        /\ Aside /\ UNCHANGED <<row, answered>>

ReleaseInterruptClaim(a) ==
    /\ Calls(a, "refused")
    /\ MutateQuietly(call[a].t, ReleaseClaim(trk[call[a].t], call[a].q))
    /\ SetCall(a, Free)
    /\ Aside /\ UNCHANGED <<row, answered>>

\* waitForTurnSettle: complete what the handle says, or time out.
WaitForTurnSettle(a) ==
    LET t == call[a].t IN
    /\ Calls(a, "settling")
    /\ \/ /\ call[a].handle /\ prov[t] \in Ended
          /\ Mutate(t, Completed(trk[t], prov[t] = "ok")) /\ Move(a, "marking")
       \/ SetCall(a, Free) /\ UNCHANGED <<trk, recency>>
    /\ Aside /\ UNCHANGED <<row, answered>>

SettleDedupeTerminal(a) ==
    /\ Calls(a, "marking")
    /\ (Present(call[a].t) /\ MarkedTerminal(call[a].t)) \/ UNCHANGED row
    /\ SetCall(a, Free)
    /\ Aside /\ UNCHANGED <<trk, recency, answered>>

\* InterruptActiveTurn tells the provider without any claim.
InterruptActiveTurn(a, t) ==
    /\ Calls(a, "idle")
    /\ IsLatest(t)
    /\ SetCall(a, Captured(t, None, "closing"))
    /\ Aside /\ UNCHANGED <<trk, recency, row, answered>>

MarkInterruptRequested(a) ==
    LET t == call[a].t IN
    /\ Calls(a, "closing")
    /\ \/ SetCall(a, Free) /\ UNCHANGED <<trk, recency>>
       \/ /\ prov[t] = "live"
          /\ IF Permitted(trk[t].state, "interrupt")
               THEN /\ Put(t, [trk[t] EXCEPT !.state = Fire(@, "interrupt"),
                                             !.requested = TRUE])
                    /\ Move(a, "settling")
               ELSE SetCall(a, Free) /\ UNCHANGED <<trk, recency>>
    /\ Aside /\ UNCHANGED <<row, answered>>

ForceCompleteTurn(a, t) ==
    /\ Calls(a, "idle")
    /\ IsLatest(t)
    /\ Mutate(t, [trk[t] EXCEPT !.state = Fire(@, "force")])
    /\ SetCall(a, Captured(t, None, "settling")) \/ SetCall(a, Free)
    /\ Aside /\ UNCHANGED <<row, answered>>

\* Mutant of AbortThread: the registry is told that the turns are over.
AbortThreadAndRows ==
    /\ \E t \in Turn : Active(t)
    /\ trk' = [t \in Turn |-> IF Active(t)
                 THEN [trk[t] EXCEPT !.handle = FALSE, !.requested = TRUE,
                                     !.state = Fire(@, "abort")]
                 ELSE trk[t]]
    /\ row' = [t \in Turn |-> IF Active(t) /\ row[t] = "live" THEN "terminal" ELSE row[t]]
    /\ UNCHANGED <<recency, start, call, prov, answered>>

\* CleanupThread aborts every active turn of the thread, the provider untold.
AbortThread ==
    /\ \E t \in Turn : Active(t)
    /\ trk' = [t \in Turn |-> IF Active(t)
                 THEN [trk[t] EXCEPT !.handle = FALSE, !.requested = TRUE,
                                     !.state = Fire(@, "abort")]
                 ELSE trk[t]]
    /\ UNCHANGED <<recency, start, call, prov, row, answered>>

CallerSteps(a) ==
    \/ ExecuteInterruptClaim(a) \/ ReplayBoundInterruptClaim(a)
    \/ CallInterrupt(a) \/ AcknowledgeInterrupt(a) \/ ReleaseInterruptClaim(a)
    \/ WaitForTurnSettle(a) \/ SettleDedupeTerminal(a)
    \/ MarkInterruptRequested(a)

CallerBegins(a, t) ==
    \/ \E q \in Request : ClaimInterruptTarget(a, t, q)
    \/ InterruptActiveTurn(a, t) \/ ForceCompleteTurn(a, t)

Next ==
    \/ \E t \in Turn : PrepareTurn(t) \/ ClaimStartTracker(t) \/ StartSteps(t) \/ TurnEnds(t)
    \/ \E a \in Caller : CallerSteps(a) \/ (\E t \in Turn : CallerBegins(a, t))
    \/ AbortThread

Spec == Init /\ [][Next]_vars

------------------------------------------------------------------------------
(* The actors run, and a watcher waits no longer than trackerTTL.          *)
FairSpec ==
    /\ Spec
    /\ \A t \in Turn : WF_vars(StartSteps(t))
    /\ \A a \in Caller : WF_vars(CallerSteps(a))

------------------------------------------------------------------------------
(* Properties.                                                             *)

StartPc == {"none", "registering", "confirming", "preparing", "prepared", "claimed",
            "upserted", "started", "attached", "delivering", "delivered",
            "undelivered", "bound", "recorded", "watching", "marking", "done"}

CallPc == {"idle", "claimed", "calling", "told", "refused", "replaying", "settling",
           "marking", "closing"}

\* The records have their shape, and a delivered Stop is one that was accepted,
\* by the one who owned its delivery.
TypeOK ==
    /\ trk \in [Turn -> [state : {"absent"} \cup DOMAIN Permits \cup Terminal,
                        pid : BOOLEAN, handle : BOOLEAN, startClaimed : BOOLEAN,
                        requested : BOOLEAN, claim : Request \cup {None},
                        accepted : Request \cup {None}, owned : BOOLEAN, sent : BOOLEAN,
                        terminalSent : BOOLEAN, retryable : BOOLEAN, diag : BOOLEAN]]
    /\ start \in [Turn -> [pc : StartPc, q : Request \cup {None}, retr : BOOLEAN]]
    /\ call \in [Caller -> [pc : CallPc, t : Turn \cup {None}, q : Request \cup {None},
                           handle : BOOLEAN, bare : BOOLEAN]]
    /\ prov \in [Turn -> {"none", "live"} \cup Ended]
    /\ row \in [Turn -> {"none", "live", "terminal"}]
    /\ answered \in [Turn -> 0 .. 2]
    /\ \A t \in Turn : trk[t].sent => trk[t].owned /\ trk[t].accepted # None

\* What was decided of a turn stands until its record is removed: no late event,
\* acknowledgement, bind or roll-back changes a terminal state, and the Stop that
\* was accepted first stays the accepted one.
DecisionsStand ==
    [][\A t \in Turn :
         \/ trk'[t] \in {NoTurn, Fresh}
         \/ /\ IsTerminal(t) => trk'[t].state = trk[t].state
            /\ trk[t].accepted # None => trk'[t].accepted = trk[t].accepted]_vars

\* While the provider's turn runs a lookup by its dedupe key finds it, in the
\* tracker or in the registry, until the watcher gives up on it: a thread that
\* was cleaned up, a Stop or a force-complete that timed out do not hide it.
LiveTurnFound ==
    \A t \in Turn : prov[t] = "live" /\ start[t].pc \notin {"marking", "done"} =>
        Active(t) \/ row[t] = "live"

Delivering(t) ==
    (IF start[t].pc \in {"delivering", "delivered"} THEN {t} ELSE {})
      \cup {a \in Caller : call[a].t = t /\ call[a].pc \in {"calling", "told"}}

\* The binding of the provider, the Stop itself and its repetitions race to tell
\* the provider: never two of them at a time, and never again once the provider
\* has acknowledged.  A Stop whose acknowledgement was lost may be sent again:
\* the tracker cannot tell it from one that did not arrive.
StopDeliveredOnce ==
    \A t \in Turn : answered[t] <= 1 /\ \A x, y \in Delivering(t) : x = y

Undecided ==
    {"registering", "confirming", "preparing", "prepared", "claimed", "upserted",
     "started", "attached", "delivering", "undelivered"}

\* What must hold of the Stop that an active turn accepted: it was acknowledged, is
\* being delivered or will be once the provider is bound, or it may be sent again.
Kept(t) ==
    \/ answered[t] > 0 \/ trk[t].retryable
    \/ start[t].pc \in Undecided \/ Delivering(t) # {}

\* A Stop registered before the provider was bound is not lost, unless the
\* registry write that follows its failed delivery failed as well.
RegisteredStopKept ==
    \A t \in Turn :
        Active(t) /\ trk[t].accepted # None /\ trk[t].accepted = start[t].q =>
          Kept(t) \/ trk[t].diag \/ start[t].pc = "done"

\* No Stop is lost: releaseInterruptClaim gives back a claim the provider has not
\* accepted, so that the same Stop can be sent again.
AcceptedStopKept ==
    \A t \in Turn :
        Active(t) /\ trk[t].accepted # None =>
          Kept(t) \/ trk[t].diag \/ start[t].pc = "done"
          \/ \E a \in Caller : call[a].t = t /\ call[a].pc = "refused"

\* Every turn StartTurn took on becomes terminal.
StartedTurnSettles ==
    \A t \in Turn : (start[t].pc = "claimed") ~> ~Active(t)

=============================================================================
