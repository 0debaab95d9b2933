---------------------------- MODULE BoundedDeque ----------------------------
(* What OSSendMessage, OSJamMessage and OSReceiveMessage promise, without   *)
(* ring buffers, sleepers or retries: a bounded sequence of messages with   *)
(* one way in at each end and one way out at the front.                     *)
EXTENDS Naturals, Sequences

CONSTANTS
    Capacity,  \* the most messages it holds
    Message,
    Client,    \* who takes messages out
    None       \* what a client holds before it took one

VARIABLES
    items,     \* the messages in it, first out first
    received   \* the last message each client took

vars == <<items, received>>

Init ==
    /\ items = <<>>
    /\ received = [c \in Client |-> None]

HasRoom == Len(items) < Capacity

PutBack(m) ==
    /\ HasRoom
    /\ items' = Append(items, m)
    /\ UNCHANGED received

PutFront(m) ==
    /\ HasRoom
    /\ items' = <<m>> \o items
    /\ UNCHANGED received

Take(c) ==
    /\ items # <<>>
    /\ items' = Tail(items)
    /\ received' = [received EXCEPT ![c] = Head(items)]

Next ==
    \/ \E m \in Message : PutBack(m) \/ PutFront(m)
    \/ \E c \in Client : Take(c)

Spec == Init /\ [][Next]_vars
=============================================================================
