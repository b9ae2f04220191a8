----------------------------- MODULE PacketMerge -----------------------------
(***************************************************************************)
(* What libavformat's interleaving promises, without its list: a first-in  *)
(* first-out queue per stream, and packets written from the queue whose    *)
(* head is least.  It waits until every queue has a head, unless it is     *)
(* closed, or hurried by the caller or by a queue that grows too long.     *)
(***************************************************************************)
EXTENDS Naturals, Sequences

CONSTANTS Streams, Least(_, _)  \* a total order on packets
VARIABLES queue, written, hurried, closed

Init == /\ queue = [s \in Streams |-> <<>>] /\ written = <<>>
        /\ hurried = FALSE /\ closed = FALSE

Heads == {s \in Streams : queue[s] # <<>>}

(* A packet never overtakes another one of its stream. *)
Put(s) == /\ ~closed /\ Len(queue'[s]) > Len(queue[s])
          /\ queue' = [queue EXCEPT ![s] = Append(@, queue'[s][Len(queue[s]) + 1])]
          /\ UNCHANGED <<written, hurried, closed>>

Take(s) == /\ s \in Heads
           /\ \A t \in Heads : Least(Head(queue[s]), Head(queue[t]))
           /\ queue' = [queue EXCEPT ![s] = Tail(@)]
           /\ hurried' = (hurried \/ (~closed /\ Heads # Streams))
           /\ written' \in {written, Append(written, Head(queue[s]))}
           /\ UNCHANGED closed

(* What is too late is dropped, all of it. *)
Drop == /\ queue' = [s \in Streams |-> <<>>]
        /\ UNCHANGED <<written, hurried, closed>>

Close == closed' = TRUE /\ UNCHANGED <<queue, written, hurried>>

Next == Close \/ Drop \/ \E s \in Streams : Put(s) \/ Take(s)
Spec == Init /\ [][Next]_<<queue, written, hurried, closed>>
=============================================================================
