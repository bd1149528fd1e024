------------------------------- MODULE Channel -------------------------------
(***************************************************************************)
(* The `Channel<T, N>` runtime: the Vyukov multi-producer single-consumer  *)
(* ring that emit_channel_bundle writes for C and that the LLVM backend    *)
(* inlines. Every atomic access, and every plain access to a slot of buf,  *)
(* is one step. The k-th message of producer p is <<p, k>>.                *)
(***************************************************************************)
EXTENDS Naturals, Sequences

CONSTANTS Producers,    \* threads that call channel_send
          PerProducer,  \* messages each of them sends (bound)
          Cap,          \* N of Channel<T, N>
          Empty         \* the zero every slot of buf starts with

(* The capacities the checker accepts: a power of two >= 1.                 *)
IsPowerOfTwo(n) == n >= 1 /\ \E k \in 0..n : n = 2^k

ASSUME CapAssumption == Cap \in Nat /\ IsPowerOfTwo(Cap)
ASSUME BoundAssumption == PerProducer \in Nat

Slots   == 0 .. Cap - 1
Slot(i) == i % Cap      \* i & (CAP - 1)

VARIABLES buf, seq, head, tail,  \* the shared ring
          ppc, t,                \* producers: position, loaded tail
          sent,                  \* messages whose slot is claimed
          cpc, h, got,           \* consumer: position, loaded head, value read
          received               \* what channel_recv returned, in order

ring == <<buf, seq, head, tail>>
producerVars == <<ppc, t, sent>>
consumerVars == <<cpc, h, got, received>>
vars == <<ring, producerVars, consumerVars>>

Messages == Producers \X (1..PerProducer)

TypeOK == /\ buf \in [Slots -> Messages \union {Empty}]
          /\ seq \in [Slots -> Nat]
          /\ head \in Nat /\ tail \in Nat
          /\ ppc \in [Producers -> {"load", "check", "claim", "write", "publish"}]
          /\ t \in [Producers -> Nat]
          /\ sent \in [Producers -> 0..PerProducer]
          /\ cpc \in {"load", "poll", "read", "release", "advance"}
          /\ h \in Nat
          /\ got \in Messages \union {Empty}
          /\ received \in Seq(Messages)

(* channel_new                                                              *)
Init == /\ buf = [i \in Slots |-> Empty]
        /\ seq = [i \in Slots |-> i]
        /\ head = 0 /\ tail = 0
        /\ ppc = [p \in Producers |-> "load"]
        /\ t = [p \in Producers |-> 0]
        /\ sent = [p \in Producers |-> 0]
        /\ cpc = "load" /\ h = 0 /\ got = Empty
        /\ received = <<>>

-----------------------------------------------------------------------------
(* channel_send                                                             *)

Goto(p, label) == ppc' = [ppc EXCEPT ![p] = label]

SendLoad(p) ==
  /\ ppc[p] = "load"
  /\ sent[p] < PerProducer
  /\ t' = [t EXCEPT ![p] = tail]
  /\ Goto(p, "check")
  /\ UNCHANGED <<ring, sent, consumerVars>>

(* Faulty: never looks at seq, so a full slot is claimed again.             *)
SendCheckSkipped(p) ==
  /\ ppc[p] = "check"
  /\ Goto(p, "claim")
  /\ UNCHANGED <<ring, t, sent, consumerVars>>

(* The slot is free for this round only when its seq equals the ticket; a   *)
(* smaller seq (full) and a larger one (lost a race) both reload tail.      *)
SendCheck(p) ==
  /\ ppc[p] = "check"
  /\ Goto(p, IF seq[Slot(t[p])] = t[p] THEN "claim" ELSE "load")
  /\ UNCHANGED <<ring, t, sent, consumerVars>>

(* Faulty: stores tail instead of compare-exchanging it.                    *)
SendClaimStores(p) ==
  /\ ppc[p] = "claim"
  /\ tail' = t[p] + 1
  /\ sent' = [sent EXCEPT ![p] = @ + 1]
  /\ Goto(p, "write")
  /\ UNCHANGED <<buf, seq, head, t, consumerVars>>

SendClaim(p) ==
  /\ ppc[p] = "claim"
  /\ \/ /\ tail = t[p]
        /\ tail' = t[p] + 1
        /\ sent' = [sent EXCEPT ![p] = @ + 1]
        /\ Goto(p, "write")
     \/ /\ tail # t[p]
        /\ Goto(p, "load")
        /\ UNCHANGED <<tail, sent>>
  /\ UNCHANGED <<buf, seq, head, t, consumerVars>>

SendWrite(p) ==
  /\ ppc[p] = "write"
  /\ buf' = [buf EXCEPT ![Slot(t[p])] = <<p, sent[p]>>]
  /\ Goto(p, "publish")
  /\ UNCHANGED <<seq, head, tail, t, sent, consumerVars>>

SendPublish(p) ==
  /\ ppc[p] = "publish"
  /\ seq' = [seq EXCEPT ![Slot(t[p])] = t[p] + 1]
  /\ Goto(p, "load")
  /\ UNCHANGED <<buf, head, tail, t, sent, consumerVars>>

-----------------------------------------------------------------------------
(* channel_recv                                                             *)

RecvLoad == /\ cpc = "load"
            /\ h' = head
            /\ cpc' = "poll"
            /\ UNCHANGED <<ring, producerVars, got, received>>

(* Faulty: takes a slot that is merely free for a published one.            *)
RecvPollEarly == /\ cpc = "poll"
                 /\ seq[Slot(h)] >= h
                 /\ cpc' = "read"
                 /\ UNCHANGED <<ring, producerVars, h, got, received>>

RecvPoll == /\ cpc = "poll"
            /\ seq[Slot(h)] = h + 1
            /\ cpc' = "read"
            /\ UNCHANGED <<ring, producerVars, h, got, received>>

RecvRead == /\ cpc = "read"
            /\ got' = buf[Slot(h)]
            /\ cpc' = "release"
            /\ UNCHANGED <<ring, producerVars, h, received>>

(* Faulty: releases the slot for a round that never comes.                  *)
RecvReleaseOffByOne == /\ cpc = "release"
                       /\ seq' = [seq EXCEPT ![Slot(h)] = h + Cap - 1]
                       /\ received' = Append(received, got)
                       /\ cpc' = "advance"
                       /\ UNCHANGED <<buf, head, tail, producerVars, h, got>>

RecvRelease == /\ cpc = "release"
               /\ seq' = [seq EXCEPT ![Slot(h)] = h + Cap]
               /\ received' = Append(received, got)
               /\ cpc' = "advance"
               /\ UNCHANGED <<buf, head, tail, producerVars, h, got>>

RecvAdvance == /\ cpc = "advance"
               /\ head' = h + 1
               /\ cpc' = "load"
               /\ UNCHANGED <<buf, seq, tail, producerVars, h, got, received>>

-----------------------------------------------------------------------------
Send(p) == SendLoad(p) \/ SendCheck(p) \/ SendClaim(p) \/ SendWrite(p) \/ SendPublish(p)
Recv    == RecvLoad \/ RecvPoll \/ RecvRead \/ RecvRelease \/ RecvAdvance

Next == Recv \/ \E p \in Producers : Send(p)

Spec == Init /\ [][Next]_vars

(* Each thread inside send or recv is scheduled; the program keeps calling  *)
(* channel_recv, and channel_send until PerProducer messages are sent.      *)
FairSpec == Spec /\ WF_vars(Recv) /\ \A p \in Producers : WF_vars(Send(p))

-----------------------------------------------------------------------------
(* Properties                                                               *)

(* Between its claim and its publish a producer owns the ticket t[p].       *)
Writing(p) == ppc[p] \in {"write", "publish"}

(* The plain accesses to a slot are never concurrent: no two producers hold *)
(* tickets of one slot, and the consumer reads no slot being written.       *)
NoDataRace ==
  \A p \in Producers : Writing(p) =>
    /\ \A q \in Producers \ {p} : Writing(q) => Slot(t[p]) # Slot(t[q])
    /\ cpc \in {"read", "release"} => Slot(t[p]) # Slot(h)

(* The first ticket that is not received yet.                               *)
First == IF cpc = "advance" THEN h + 1 ELSE head

(* A full channel takes no further message (README: channel_send blocks     *)
(* when the buffer is full).                                                *)
SendBlocksWhenFull == tail - First <= Cap

(* The message of a claimed ticket: its producer may not have stored it yet.*)
MessageOf(ticket) ==
  IF \E p \in Producers : Writing(p) /\ t[p] = ticket
    THEN LET p == CHOOSE p \in Producers : Writing(p) /\ t[p] = ticket
         IN  <<p, sent[p]>>
    ELSE buf[Slot(ticket)]

(* Refinement: a send takes effect at its claim, a receive when it releases *)
(* the slot.                                                                *)
Fifo == INSTANCE AbstractChannel WITH
          queue <- [i \in 1 .. tail - First |-> MessageOf(First + i - 1)]
ImplementsFifo == Fifo!Spec

(* Every message a producer sends arrives.                                  *)
AllDelivered == <>[](\A p \in Producers : \A k \in 1..PerProducer :
                       \E i \in 1..Len(received) : received[i] = <<p, k>>)
=============================================================================
