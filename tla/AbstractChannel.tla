--------------------------- MODULE AbstractChannel ---------------------------
(***************************************************************************)
(* What `Channel<T, N>` promises: a FIFO queue of at most N messages that  *)
(* loses, duplicates and reorders nothing.                                 *)
(***************************************************************************)
EXTENDS Naturals, Sequences

CONSTANTS Producers, PerProducer, Cap

VARIABLES queue,     \* messages sent and not yet received
          sent,      \* how many messages each producer has sent
          received   \* what the consumer got, in order

vars == <<queue, sent, received>>

Init == /\ queue = <<>>
        /\ sent = [p \in Producers |-> 0]
        /\ received = <<>>

Send(p) == /\ Len(queue) < Cap
           /\ sent[p] < PerProducer
           /\ sent' = [sent EXCEPT ![p] = @ + 1]
           /\ queue' = Append(queue, <<p, sent[p] + 1>>)
           /\ UNCHANGED received

Receive == /\ queue # <<>>
           /\ received' = Append(received, Head(queue))
           /\ queue' = Tail(queue)
           /\ UNCHANGED sent

Next == Receive \/ \E p \in Producers : Send(p)

Spec == Init /\ [][Next]_vars
=============================================================================
