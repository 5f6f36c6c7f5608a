----------------------------- MODULE EventGroup -----------------------------
(***************************************************************************)
(* third_party/kelindar-event: the dispatcher behind internal/platform/bus *)
(* for one event type.  Publishers append to the queue of every consumer   *)
(* and wait while one of the queues is full; each consumer has a goroutine *)
(* that takes its whole queue and handles it outside the lock.  Publishers *)
(* and consumers sleep on one condition variable, which wakes all of them. *)
(*                                                                         *)
(* A critical section of the group's lock, up to the Wait that gives it    *)
(* up, is one step.  SubscribeTo creates the group of a type with its      *)
(* first consumer in it before the registry shows it, and so is one step   *)
(* as well.  A handler call is a step; handlers publish nothing here.      *)
(***************************************************************************)
EXTENDS Naturals, Sequences, FiniteSets

CONSTANTS
    Publisher, Subscriber,
    maxQueue,       \* queue length at which publishers wait
    MaxEvents       \* bound on the events published

ASSUME GroupAssumption == maxQueue \in Nat \ {0} /\ MaxEvents \in Nat

VARIABLES
    found,          \* the registry has a group for the type
    subs,           \* group.subs
    queue,          \* consumer.queue
    stop,           \* the consumers with the stop mark
    pending,        \* what the goroutine of a consumer took and has not handled
    listener,       \* "none", "loop", "handle" or "done", per consumer
    publishing,     \* the event a publisher is in Broadcast with, or 0
    asleep,         \* who sits in cond.Wait
    sent,           \* events published so far; an event is its number
    heard           \* the event a consumer's handler saw last, 0 if none

groupVars == <<found, subs, queue, stop, pending, listener, publishing, asleep,
               sent, heard>>

GroupInit ==
    /\ found = FALSE
    /\ subs = {} /\ stop = {} /\ asleep = {}
    /\ queue = [s \in Subscriber |-> <<>>]
    /\ pending = [s \in Subscriber |-> <<>>]
    /\ listener = [s \in Subscriber |-> "none"]
    /\ publishing = [p \in Publisher |-> 0]
    /\ sent = 0
    /\ heard = [s \in Subscriber |-> 0]

-----------------------------------------------------------------------------

\* Add, and the entry in the registry for the first consumer.
SubscribeTo(s) ==
    /\ listener[s] = "none"
    /\ found' = TRUE
    /\ subs' = subs \cup {s}
    /\ listener' = [listener EXCEPT ![s] = "loop"]
    /\ UNCHANGED <<queue, stop, pending, publishing, asleep, sent, heard>>

\* The cancel function.  It wakes nobody.
Del(s) ==
    /\ listener[s] # "none" /\ s \notin stop
    /\ stop' = stop \cup {s}
    /\ subs' = subs \ {s}
    /\ UNCHANGED <<found, queue, pending, listener, publishing, asleep, sent, heard>>

\* Without a group the event is nobody's.
Publish(p) ==
    /\ publishing[p] = 0
    /\ sent < MaxEvents
    /\ sent' = sent + 1
    /\ publishing' = [publishing EXCEPT ![p] = IF found THEN sent + 1 ELSE 0]
    /\ UNCHANGED <<found, subs, queue, stop, pending, listener, asleep, heard>>

AtCapacity == \E s \in subs : Len(queue[s]) >= maxQueue

\* Backpressure: back to sleep for as long as a queue is full.
AwaitCapacity(p) ==
    /\ publishing[p] # 0 /\ p \notin asleep
    /\ AtCapacity
    /\ asleep' = asleep \cup {p}
    /\ UNCHANGED <<found, subs, queue, stop, pending, listener, publishing, sent, heard>>

Enqueued(e) == [s \in Subscriber |-> IF s \in subs THEN Append(queue[s], e)
                                                   ELSE queue[s]]

Broadcast(p) ==
    /\ publishing[p] # 0 /\ p \notin asleep
    /\ ~AtCapacity
    /\ queue' = Enqueued(publishing[p])
    /\ publishing' = [publishing EXCEPT ![p] = 0]
    /\ asleep' = {}
    /\ UNCHANGED <<found, subs, stop, pending, listener, sent, heard>>

-----------------------------------------------------------------------------
(***************************************************************************)
(* Listen.                                                                 *)
(***************************************************************************)
Looks(s) == listener[s] = "loop" /\ s \notin asleep

\* As ListenEnds, for a goroutine that looks at the mark before the queue.
ListenEndsAtOnce(s) ==
    /\ Looks(s)
    /\ s \in stop
    /\ listener' = [listener EXCEPT ![s] = "done"]
    /\ UNCHANGED <<found, subs, queue, stop, pending, publishing, asleep, sent, heard>>

ListenEnds(s) ==
    /\ Looks(s)
    /\ queue[s] = <<>> /\ s \in stop
    /\ listener' = [listener EXCEPT ![s] = "done"]
    /\ UNCHANGED <<found, subs, queue, stop, pending, publishing, asleep, sent, heard>>

ListenWaits(s) ==
    /\ Looks(s)
    /\ queue[s] = <<>> /\ s \notin stop
    /\ asleep' = asleep \cup {s}
    /\ UNCHANGED <<found, subs, queue, stop, pending, listener, publishing, sent, heard>>

\* As Swap, with the publishers that wait for room left asleep.
SwapQuietly(s) ==
    /\ Looks(s)
    /\ queue[s] # <<>>
    /\ pending' = [pending EXCEPT ![s] = queue[s]]
    /\ queue' = [queue EXCEPT ![s] = <<>>]
    /\ listener' = [listener EXCEPT ![s] = "handle"]
    /\ UNCHANGED <<found, subs, stop, publishing, asleep, sent, heard>>

Swap(s) ==
    /\ Looks(s)
    /\ queue[s] # <<>>
    /\ pending' = [pending EXCEPT ![s] = queue[s]]
    /\ queue' = [queue EXCEPT ![s] = <<>>]
    /\ asleep' = {}
    /\ listener' = [listener EXCEPT ![s] = "handle"]
    /\ UNCHANGED <<found, subs, stop, publishing, sent, heard>>

Handle(s) ==
    /\ listener[s] = "handle"
    /\ heard' = [heard EXCEPT ![s] = Head(pending[s])]
    /\ pending' = [pending EXCEPT ![s] = Tail(@)]
    /\ listener' = [listener EXCEPT ![s] = IF Tail(pending[s]) = <<>> THEN "loop"
                                                                      ELSE "handle"]
    /\ UNCHANGED <<found, subs, queue, stop, publishing, asleep, sent>>

Listen(s) == ListenEnds(s) \/ ListenWaits(s) \/ Swap(s) \/ Handle(s)

Broadcasts(p) == AwaitCapacity(p) \/ Broadcast(p)

-----------------------------------------------------------------------------

GroupNext ==
    \/ \E s \in Subscriber : SubscribeTo(s) \/ Del(s) \/ Listen(s)
    \/ \E p \in Publisher : Publish(p) \/ Broadcasts(p)

GroupSpec == GroupInit /\ [][GroupNext]_groupVars

\* Goroutines that can run do, and handlers return.
GroupFairness ==
    /\ \A s \in Subscriber : WF_groupVars(Listen(s))
    /\ \A p \in Publisher : WF_groupVars(Broadcasts(p))

FairGroupSpec == GroupSpec /\ GroupFairness

-----------------------------------------------------------------------------
(***************************************************************************)
(* Properties.                                                             *)
(***************************************************************************)

\* Queues stay within the capacity that Broadcast waits for, a goroutine
\* handles something exactly while it holds events, and nobody is called who
\* never subscribed.
GroupTypeOK ==
    /\ subs \cup stop \subseteq {s \in Subscriber : listener[s] # "none"}
    /\ subs \cap stop = {}
    /\ asleep \subseteq Publisher \cup Subscriber
    /\ \A s \in Subscriber : /\ Len(queue[s]) <= maxQueue
                             /\ listener[s] = "handle" <=> pending[s] # <<>>

\* The bus keeps the promise of EventStream: what a consumer has yet to hear
\* is what its goroutine took and then what is queued, across the swap of the
\* two buffers, full queues, and a cancel while events are queued.
Stream == INSTANCE EventStream WITH
              Event <- 1..MaxEvents,
              member <- subs,
              backlog <- [s \in Subscriber |-> pending[s] \o queue[s]]

StreamSpec == Stream!StreamFair

\* A publisher that waits for a full queue gets through, also when the
\* consumer with the full queue is cancelled meanwhile.
PublisherReturns ==
    \A p \in Publisher : publishing[p] # 0 ~> publishing[p] = 0

=============================================================================
