------------------------------ MODULE Delivery ------------------------------
(* What a link promises the users who send events over it: the receiver    *)
(* executes the events of each user in their order, each at most once, and *)
(* an event is confirmed only when it has been executed or the receiver    *)
(* has it and will; only a receiver that ends takes an event with it.      *)
EXTENDS Integers, Sequences

CONSTANTS Users,
          MaxEvents   \* bound on the events of a user

VARIABLES
    sent,       \* the number of each user's last event
    taken,      \* the event the receiver has taken and not executed, if any
    executed,   \* the last event of each user that was executed
    confirmed,  \* the last event of each user that was confirmed
    lost        \* the events the receiver ended with in its hands

vars == <<sent, taken, executed, confirmed, lost>>

Init ==
    /\ sent = [u \in Users |-> 0]
    /\ taken = <<>>
    /\ executed = [u \in Users |-> 0]
    /\ confirmed = [u \in Users |-> 0]
    /\ lost = {}

Send(u) ==
    /\ sent[u] < MaxEvents
    /\ sent' = [sent EXCEPT ![u] = @ + 1]
    /\ UNCHANGED <<taken, executed, confirmed, lost>>

\* Events may be left out, and never made up for.
Take(u) ==
    /\ taken = <<>>
    /\ \E n \in executed[u]+1..sent[u] : taken' = <<[from |-> u, no |-> n]>>
    /\ UNCHANGED <<sent, executed, confirmed, lost>>

Execute(u) ==
    /\ taken # <<>> /\ taken[1].from = u
    /\ executed' = [executed EXCEPT ![u] = taken[1].no]
    /\ taken' = <<>>
    /\ UNCHANGED <<sent, confirmed, lost>>

Lose ==
    /\ taken # <<>>
    /\ taken' = <<>> /\ lost' = lost \cup {taken[1]}
    /\ UNCHANGED <<sent, executed, confirmed>>

\* Only a user's last event is confirmed: he waits for the answer to each.
Confirm(u) ==
    /\ LET e == [from |-> u, no |-> sent[u]]
       IN  sent[u] = executed[u] \/ taken = <<e>> \/ e \in lost
    /\ confirmed' = [confirmed EXCEPT ![u] = sent[u]]
    /\ UNCHANGED <<sent, taken, executed, lost>>

Next == Lose \/ \E u \in Users : Send(u) \/ Take(u) \/ Execute(u) \/ Confirm(u)

Spec == Init /\ [][Next]_vars
=============================================================================
