------------------------- MODULE BoundedQueue -------------------------
(***************************************************************************)
(* What the message queue between the master and the workers promises      *)
(* (README.md:54-56): at most N connections wait in it, and each one is    *)
(* handed to exactly one worker, oldest first.                             *)
(***************************************************************************)
EXTENDS Integers, Sequences

CONSTANTS Producer, Consumer, Item, N

VARIABLES offer,  \* the item each producer wants to insert
          queue,  \* the waiting items, oldest first
          taken   \* the item each consumer removed last

vars == <<offer, queue, taken>>

Init ==
  /\ offer \in [Producer -> Item]
  /\ queue = <<>>
  /\ taken \in [Consumer -> Item]

Offer(p) ==
  /\ \E x \in Item : offer' = [offer EXCEPT ![p] = x]
  /\ UNCHANGED <<queue, taken>>

Enqueue(p) ==
  /\ Len(queue) < N
  /\ queue' = Append(queue, offer[p])
  /\ UNCHANGED <<offer, taken>>

Dequeue(c) ==
  /\ queue # <<>>
  /\ taken' = [taken EXCEPT ![c] = Head(queue)]
  /\ queue' = Tail(queue)
  /\ UNCHANGED offer

Next == \/ \E p \in Producer : Offer(p) \/ Enqueue(p)
        \/ \E c \in Consumer : Dequeue(c)

Spec == Init /\ [][Next]_vars
=======================================================================
