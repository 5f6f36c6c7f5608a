----------------------------- MODULE EventStream -----------------------------
(***************************************************************************)
(* What the in-process event bus promises a subscriber of one event type:  *)
(* it hears every event published while it is subscribed, once, in the     *)
(* order of publication, at some time of the bus's choosing; events        *)
(* published before it unsubscribes are still heard afterwards.            *)
(***************************************************************************)
EXTENDS Naturals, Sequences

CONSTANTS Subscriber, Event

VARIABLES
    member,     \* the current subscribers
    backlog,    \* backlog[s]: the events s has yet to hear, in order
    heard       \* heard[s]: the event s heard last, 0 before the first

streamVars == <<member, backlog, heard>>

StreamInit ==
    /\ member = {}
    /\ backlog = [s \in Subscriber |-> <<>>]
    /\ heard = [s \in Subscriber |-> 0]

Join(s) ==
    /\ s \notin member
    /\ member' = member \cup {s}
    /\ UNCHANGED <<backlog, heard>>

Leave(s) ==
    /\ s \in member
    /\ member' = member \ {s}
    /\ UNCHANGED <<backlog, heard>>

Announce(e) ==
    /\ backlog' = [s \in Subscriber |-> IF s \in member THEN Append(backlog[s], e)
                                                        ELSE backlog[s]]
    /\ UNCHANGED <<member, heard>>

Deliver(s) ==
    /\ backlog[s] # <<>>
    /\ backlog' = [backlog EXCEPT ![s] = Tail(@)]
    /\ heard' = [heard EXCEPT ![s] = Head(backlog[s])]
    /\ UNCHANGED member

StreamNext ==
    \/ \E s \in Subscriber : Join(s) \/ Leave(s) \/ Deliver(s)
    \/ \E e \in Event : Announce(e)

StreamSafe == StreamInit /\ [][StreamNext]_streamVars

StreamFair ==
    /\ StreamSafe
    /\ \A s \in Subscriber : WF_streamVars(Deliver(s))

=============================================================================
