------------------------------ MODULE Mailbox -------------------------------
(***************************************************************************)
(* What the Redis message bus promises about the messages of a topic: they *)
(* are taken in the order in which they were published, in batches, and    *)
(* each is handled at most once.  A message may be trimmed before it is    *)
(* taken, and lost after.                                                  *)
(***************************************************************************)
EXTENDS Integers

CONSTANTS MaxMessages, BatchSize

VARIABLE status

Messages == 1..MaxMessages
Statuses == {"unpublished", "waiting", "trimmed", "taken", "handled", "lost"}

TypeOK == status \in [Messages -> Statuses]

Init == status = [m \in Messages |-> "unpublished"]

Become(S, from, to) ==
    /\ \A m \in S : status[m] \in from
    /\ status' = [m \in Messages |-> IF m \in S THEN to ELSE status[m]]

\* A message is added at the end, and some of the oldest ones may be trimmed.
Publish ==
    \E n \in Messages, old \in 0..MaxMessages :
        /\ status[n] = "unpublished" /\ \A m \in 1..(n - 1) : status[m] # "unpublished"
        /\ status' = [m \in Messages |->
               IF m <= old /\ m <= n /\ status[m] \in {"unpublished", "waiting"} THEN "trimmed"
               ELSE IF m = n THEN "waiting" ELSE status[m]]

\* The oldest waiting messages are taken; if the reply is lost, for nothing.
Take ==
    \E first \in Messages, last \in Messages :
        /\ first <= last /\ last < first + BatchSize
        /\ \A m \in 1..(first - 1) : status[m] # "waiting"
        /\ Become(first..last, {"waiting"}, "taken") \/ Become(first..last, {"waiting"}, "lost")

Handle == \E m \in Messages : Become({m}, {"taken"}, "handled")

\* A handler that raised, or a consumer that ended before it came to them.
Lose == \E S \in SUBSET Messages : S # {} /\ Become(S, {"taken"}, "lost")

Next == Publish \/ Take \/ Handle \/ Lose

Spec == Init /\ [][Next]_status
=============================================================================
