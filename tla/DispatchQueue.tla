----------------------------- MODULE DispatchQueue -----------------------------
(* What a queue owes the one it queues work for, be it the cloud's control  *)
(* commands and patrol tasks for a base station or the local dashboard's    *)
(* commands for the car: an item is handed out once at most, oldest first,  *)
(* and not at all once it has been withdrawn.                               *)
EXTENDS Integers

CONSTANT Items     \* natural numbers, in the order the items are submitted

Places == {"none", "waiting", "taken", "delivered", "lost", "withdrawn"}

VARIABLE place     \* where each item is

Init == place = [i \in Items |-> "none"]

Move(S, to) == place' = [i \in Items |-> IF i \in S THEN to ELSE place[i]]

Taken == {i \in Items : place[i] = "taken"}

Submit(i) ==
  /\ place[i] = "none"
  /\ \A j \in Items : j < i => place[j] # "none"
  /\ Move({i}, "waiting")

Withdraw(i) ==
  /\ place[i] = "waiting"
  /\ Move({i}, "withdrawn")

\* The next item of an answer is the oldest that still waits.
Take(i) ==
  /\ place[i] = "waiting"
  /\ \A j \in Items : j < i => place[j] # "waiting"
  /\ Move({i}, "taken")

\* The answer arrives as a whole, or nothing of it does.
Deliver == Move(Taken, "delivered")
Lose    == Move(Taken, "lost")

Next ==
  \/ \E i \in Items : Submit(i) \/ Withdraw(i) \/ Take(i)
  \/ Deliver
  \/ Lose

Spec == Init /\ [][Next]_place

\* A queue that promises no order: all else is as above.
TakeAny(i) ==
  /\ place[i] = "waiting"
  /\ Move({i}, "taken")

AnyOrderNext ==
  \/ \E i \in Items : Submit(i) \/ Withdraw(i) \/ TakeAny(i)
  \/ Deliver
  \/ Lose

AnyOrderSpec == Init /\ [][AnyOrderNext]_place

\* A queue that hands out one item at a time: any of those on the way may be
\* lost, and one arrives only if no later one has.
Arrive(i) ==
  /\ place[i] = "taken"
  /\ \A j \in Items : i < j => place[j] # "delivered"
  /\ Move({i}, "delivered")

Vanish(i) == place[i] = "taken" /\ Move({i}, "lost")

StreamNext == \E i \in Items : Submit(i) \/ Withdraw(i) \/ Take(i) \/ Arrive(i) \/ Vanish(i)

StreamSpec == Init /\ [][StreamNext]_place
=============================================================================
