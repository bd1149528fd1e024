---------------------------- MODULE ChannelProofs ----------------------------
(***************************************************************************)
(* Proofs about Channel for any producers, any number of messages and any  *)
(* capacity from 2 on.  At capacity 1 the sequence numbers of a published  *)
(* slot and of the next free one are equal, and the theorems are false.    *)
(*                                                                         *)
(* The invariant follows the tickets of one turn of the ring, First to     *)
(* First + Cap - 1: those from tail on are free and their slot says so,    *)
(* those before it are being written or published, and the slots of        *)
(* different tickets are different.                                        *)
(***************************************************************************)
EXTENDS Channel, SequenceTheorems, TLAPS

-----------------------------------------------------------------------------
(* Products keep the order of their factors.                                *)
LEMMA TimesMonotone ==
  ASSUME NEW c \in Int, NEW a \in Int, NEW b \in Int, 0 <= c, a <= b
  PROVE  a * c <= b * c
<1>1. (b - a) * c >= 0
  <2>. DEFINE d == b - a
  <2>1. d \in Int /\ d >= 0
    OBVIOUS
  <2>. HIDE DEF d
  <2>2. d * c >= 0
    BY <2>1
  <2>. QED
    BY <2>2 DEF d
<1>2. QED
  BY <1>1

(* Division of a number by a positive one, as quotient and remainder.       *)
LEMMA Division ==
  ASSUME NEW a \in Int, NEW b \in Int, 0 < b
  PROVE  /\ a \div b \in Int
         /\ (a \div b) * b <= a
         /\ a < (a \div b) * b + b
         /\ a % b = a - (a \div b) * b
OBVIOUS

(* Quotient and remainder are the only ones.                                *)
LEMMA DivisionUnique ==
  ASSUME NEW a \in Int, NEW b \in Int, 0 < b,
         NEW q \in Int, NEW r \in Int, a = q * b + r, 0 <= r, r < b
  PROVE  a % b = r
<1>. DEFINE p == a \div b
<1>1. p \in Int /\ p * b <= a /\ a < p * b + b /\ a % b = a - p * b
  BY Division
<1>. HIDE DEF p
<1>2. p = q
  <2>1. CASE p + 1 <= q
    <3>1. (p + 1) * b <= q * b
      BY <1>1, <2>1, TimesMonotone
    <3>2. (p + 1) * b = p * b + b /\ p * b \in Int /\ q * b \in Int
      BY <1>1
    <3>. QED
      BY <1>1, <3>1, <3>2
  <2>2. CASE q + 1 <= p
    <3>1. (q + 1) * b <= p * b
      BY <1>1, <2>2, TimesMonotone
    <3>2. (q + 1) * b = q * b + b /\ p * b \in Int /\ q * b \in Int
      BY <1>1
    <3>. QED
      BY <1>1, <3>1, <3>2
  <2>. QED
    BY <1>1, <2>1, <2>2
<1>3. a % b = a - q * b /\ q * b \in Int
  BY <1>1, <1>2
<1>. QED
  BY <1>3


(* The slots of two tickets of one turn of the ring are different.          *)
LEMMA SlotsDiffer ==
  ASSUME NEW x \in Nat, NEW y \in Nat, x < y, y < x + Cap
  PROVE  Slot(x) # Slot(y)
<1>1. Cap \in Int /\ 0 < Cap
  BY CapAssumption DEF IsPowerOfTwo
<1>. DEFINE p == x \div Cap
            q == y \div Cap
<1>2. /\ p \in Int /\ x % Cap = x - p * Cap
      /\ q \in Int /\ y % Cap = y - q * Cap
  BY <1>1, Division
<1>. HIDE DEF p, q
<1>3. SUFFICES ASSUME x - p * Cap = y - q * Cap PROVE FALSE
  BY <1>2 DEF Slot
<1>4. (q - p) * Cap = y - x
  <2>1. (q - p) * Cap = q * Cap - p * Cap /\ q * Cap \in Int /\ p * Cap \in Int
    BY <1>1, <1>2
  <2>. QED
    BY <1>3, <2>1
<1>5. CASE q - p >= 1
  <2>1. 1 * Cap <= (q - p) * Cap
    BY <1>1, <1>2, <1>5, TimesMonotone
  <2>. QED
    BY <1>1, <1>4, <2>1
<1>6. CASE q - p <= 0
  <2>1. (q - p) * Cap <= 0 * Cap
    BY <1>1, <1>2, <1>6, TimesMonotone
  <2>. QED
    BY <1>1, <1>4, <2>1
<1>. QED
  BY <1>2, <1>5, <1>6

(* The next turn uses the same slots.                                       *)
LEMMA SlotPeriod ==
  ASSUME NEW x \in Nat
  PROVE  Slot(x) \in Slots /\ Slot(x + Cap) = Slot(x)
<1>1. Cap \in Int /\ 0 < Cap
  BY CapAssumption DEF IsPowerOfTwo
<1>. DEFINE q == x \div Cap
            r == x % Cap
<1>2. q \in Int /\ q * Cap <= x /\ x < q * Cap + Cap /\ r = x - q * Cap
  BY <1>1, Division
<1>. HIDE DEF q
<1>3. q * Cap \in Int /\ (q + 1) * Cap = q * Cap + Cap
  BY <1>1, <1>2
<1>. HIDE DEF r
<1>. DEFINE q1 == q + 1
            y == x + Cap
<1>4. /\ r \in Int /\ 0 <= r /\ r < Cap
      /\ q1 \in Int /\ y \in Int /\ y = q1 * Cap + r
  BY <1>1, <1>2, <1>3
<1>. HIDE DEF q1, y
<1>5. y % Cap = r
  BY <1>1, <1>4, DivisionUnique
<1>. QED
  BY <1>1, <1>4, <1>5 DEF Slot, Slots, r, y

-----------------------------------------------------------------------------
(* What the slots say of the tickets of the current turn.                   *)
TicketInv ==
  /\ First <= tail /\ tail <= First + Cap
  /\ \A k \in First .. First + Cap - 1 :
       seq[Slot(k)] \in IF k < tail THEN {k, k + 1} ELSE {k}

(* A producer between claim and publish owns a ticket that is not published *)
(* and that no other producer owns; one about to claim has seen its ticket  *)
(* free, and it stays within the turn.                                      *)
ProducerInv ==
  \A p \in Producers :
    /\ ppc[p] # "load" => t[p] <= tail
    /\ ppc[p] = "claim" => t[p] < First + Cap
    /\ Writing(p) => /\ First <= t[p] /\ t[p] < tail
                     /\ seq[Slot(t[p])] = t[p]
                     /\ \A q \in Producers \ {p} : Writing(q) => t[q] # t[p]

(* The consumer reads a published slot.                                     *)
ConsumerInv ==
  /\ cpc # "load" => h = head
  /\ cpc \in {"read", "release"} => h < tail /\ seq[Slot(h)] = h + 1

Types ==
  /\ seq \in [Slots -> Nat] /\ head \in Nat /\ tail \in Nat /\ h \in Nat
  /\ ppc \in [Producers -> {"load", "check", "claim", "write", "publish"}]
  /\ t \in [Producers -> Nat]
  /\ cpc \in {"load", "poll", "read", "release", "advance"}

RingInv == Types /\ TicketInv /\ ProducerInv /\ ConsumerInv

LEMMA FirstType == ASSUME Types PROVE First \in Nat
BY DEF Types, First

(* A slot whose number equals a ticket not above tail is free for it, and   *)
(* the ticket lies within the turn.  This is what capacity 1 breaks.        *)
LEMMA FreeTicket ==
  ASSUME 2 <= Cap, RingInv, NEW k \in Nat, k <= tail, seq[Slot(k)] = k
  PROVE  k < First + Cap
<1>. USE DEF RingInv
<1>1. First \in Nat /\ tail \in Nat /\ Cap \in Nat /\ First <= tail /\ tail <= First + Cap
  BY FirstType, CapAssumption DEF Types, TicketInv
<1>2. SUFFICES ASSUME k = First + Cap PROVE FALSE
  BY <1>1
<1>3. Slot(k) = Slot(First)
  BY <1>1, <1>2, SlotPeriod
<1>4. First \in First .. First + Cap - 1
  BY <1>1
<1>5. seq[Slot(First)] \in {First, First + 1}
  BY <1>1, <1>4 DEF TicketInv
<1>. QED
  BY <1>1, <1>2, <1>3, <1>5

(* Two tickets of the turn share a slot only if they are one.               *)
LEMMA OneTicketPerSlot ==
  ASSUME NEW f \in Nat, NEW x \in f .. f + Cap - 1, NEW y \in f .. f + Cap - 1, Slot(x) = Slot(y)
  PROVE  x = y
<1>1. x \in Nat /\ y \in Nat /\ Cap \in Nat /\ x < y + Cap /\ y < x + Cap
  BY CapAssumption
<1>. QED
  BY <1>1, SlotsDiffer

LEMMA RingInvInit == Init => RingInv
<1>. SUFFICES ASSUME Init PROVE RingInv
  OBVIOUS
<1>1. Cap \in Nat /\ 1 <= Cap
  BY CapAssumption DEF IsPowerOfTwo
<1>2. Types
  BY <1>1 DEF Init, Types, Slots
<1>3. First = 0 /\ tail = 0
  BY DEF Init, First
<1>4. \A k \in 0 .. Cap - 1 : Slot(k) = k
  <2>. SUFFICES ASSUME NEW k \in 0 .. Cap - 1 PROVE Slot(k) = k
    OBVIOUS
  <2>1. k \in Int /\ 0 <= k /\ k < Cap /\ k = 0 * Cap + k
    BY <1>1
  <2>. QED
    BY <1>1, <2>1, DivisionUnique DEF Slot
<1>5. TicketInv
  BY <1>1, <1>3, <1>4 DEF Init, TicketInv, Slots
<1>6. ProducerInv /\ ConsumerInv
  BY DEF Init, ProducerInv, ConsumerInv, Writing
<1>. QED
  BY <1>2, <1>5, <1>6 DEF RingInv

(* Every step of channel_send and channel_recv keeps the tickets in order.  *)
LEMMA RingInvStep ==
  ASSUME 2 <= Cap, RingInv, [Next]_vars
  PROVE  RingInv'
<1>1. /\ Types /\ TicketInv /\ ProducerInv /\ ConsumerInv
      /\ First \in Nat /\ Cap \in Nat
  BY FirstType, CapAssumption DEF RingInv
<1>2. ASSUME NEW p \in Producers, SendLoad(p) PROVE RingInv'
  <2>1. Types' /\ First' = First
    BY <1>1, <1>2 DEF SendLoad, Goto, Types, First, ring, consumerVars
  <2>2. TicketInv' /\ ConsumerInv'
    BY <1>1, <1>2, <2>1 DEF SendLoad, TicketInv, ConsumerInv, ring, consumerVars
  <2>3. ProducerInv'
    BY <1>1, <1>2, <2>1 DEF SendLoad, Goto, Types, ProducerInv, Writing, ring, consumerVars
  <2>. QED
    BY <2>1, <2>2, <2>3 DEF RingInv
<1>3. ASSUME NEW p \in Producers, SendCheck(p) PROVE RingInv'
  <2>1. Types' /\ First' = First
    BY <1>1, <1>3 DEF SendCheck, Goto, Types, First, ring, consumerVars
  <2>2. TicketInv' /\ ConsumerInv'
    BY <1>1, <1>3, <2>1 DEF SendCheck, TicketInv, ConsumerInv, ring, consumerVars
  <2>3. seq[Slot(t[p])] = t[p] => t[p] < First + Cap
    BY <1>1, <1>3, FreeTicket DEF SendCheck, Types, ProducerInv
  <2>4. ProducerInv'
    BY <1>1, <1>3, <2>1, <2>3 DEF SendCheck, Goto, Types, ProducerInv, Writing, ring, consumerVars
  <2>. QED
    BY <2>1, <2>2, <2>4 DEF RingInv
<1>4. ASSUME NEW p \in Producers, SendClaim(p), tail = t[p], tail' = t[p] + 1, ppc'[p] = "write"
      PROVE RingInv'
  <2>1. /\ Types' /\ First' = First /\ UNCHANGED <<seq, head, t, cpc, h>>
        /\ ppc' = [ppc EXCEPT ![p] = "write"] /\ ppc[p] = "claim"
    BY <1>1, <1>4 DEF SendClaim, Goto, Types, First, consumerVars
  <2>2. tail < First + Cap /\ seq[Slot(tail)] = tail
    <3>1. tail < First + Cap
      BY <1>1, <1>4, <2>1 DEF ProducerInv
    <3>2. tail \in First .. First + Cap - 1
      BY <1>1, <3>1 DEF TicketInv, Types
    <3>3. seq[Slot(tail)] \in IF tail < tail THEN {tail, tail + 1} ELSE {tail}
      BY <1>1, <3>2 DEF TicketInv
    <3>. QED
      BY <1>1, <3>1, <3>3 DEF Types
  <2>3. TicketInv'
    <3>1. ASSUME NEW k \in First .. First + Cap - 1
          PROVE  seq[Slot(k)] \in IF k < tail + 1 THEN {k, k + 1} ELSE {k}
      <4>1. seq[Slot(k)] \in IF k < tail THEN {k, k + 1} ELSE {k}
        BY <1>1, <3>1 DEF TicketInv
      <4>. QED
        BY <1>1, <2>2, <4>1 DEF Types
    <3>. QED
      BY <1>1, <1>4, <2>1, <2>2, <3>1 DEF TicketInv, Types
  <2>4. ProducerInv'
    <3>1. ASSUME NEW q \in Producers, q # p
          PROVE  /\ ppc'[q] = ppc[q]
                 /\ Writing(q) => t[q] < tail
      BY <1>1, <2>1, <3>1 DEF ProducerInv, Types
    <3>2. \A q \in Producers : t[q] <= tail \/ ppc[q] = "load"
      BY <1>1 DEF ProducerInv
    <3>. QED
      BY <1>1, <1>4, <2>1, <2>2, <3>1, <3>2 DEF ProducerInv, Writing, Types, TicketInv
  <2>5. ConsumerInv'
    BY <1>1, <1>4, <2>1 DEF ConsumerInv, Types
  <2>. QED
    BY <2>1, <2>3, <2>4, <2>5 DEF RingInv
<1>5. ASSUME NEW p \in Producers, SendClaim(p), tail # t[p] PROVE RingInv'
  <2>1. Types' /\ First' = First /\ UNCHANGED <<seq, head, tail, t, cpc, h>>
    BY <1>1, <1>5 DEF SendClaim, Goto, Types, First, consumerVars
  <2>2. TicketInv' /\ ConsumerInv'
    BY <1>1, <2>1 DEF TicketInv, ConsumerInv
  <2>3. ProducerInv'
    BY <1>1, <1>5, <2>1 DEF SendClaim, Goto, Types, ProducerInv, Writing
  <2>. QED
    BY <2>1, <2>2, <2>3 DEF RingInv
<1>6. ASSUME NEW p \in Producers, SendWrite(p) PROVE RingInv'
  <2>1. Types' /\ First' = First /\ UNCHANGED <<seq, head, tail, t, cpc, h>>
    BY <1>1, <1>6 DEF SendWrite, Goto, Types, First, consumerVars
  <2>2. TicketInv' /\ ConsumerInv'
    BY <1>1, <2>1 DEF TicketInv, ConsumerInv
  <2>3. ProducerInv'
    BY <1>1, <1>6, <2>1 DEF SendWrite, Goto, Types, ProducerInv, Writing
  <2>. QED
    BY <2>1, <2>2, <2>3 DEF RingInv
<1>7. ASSUME NEW p \in Producers, SendPublish(p) PROVE RingInv'
  <2>1. /\ First' = First /\ UNCHANGED <<head, tail, t, cpc, h>>
        /\ ppc' = [ppc EXCEPT ![p] = "load"] /\ ppc[p] = "publish"
        /\ seq' = [seq EXCEPT ![Slot(t[p])] = t[p] + 1]
    BY <1>7 DEF SendPublish, Goto, First, consumerVars
  <2>2. /\ t[p] \in First .. First + Cap - 1 /\ t[p] < tail
        /\ seq[Slot(t[p])] = t[p] /\ t[p] \in Nat /\ Slot(t[p]) \in Slots
    BY <1>1, <2>1, SlotPeriod DEF ProducerInv, TicketInv, Types, Writing
  <2>3. Types'
    BY <1>1, <2>1, <2>2 DEF Types
  <2>4. ASSUME NEW k \in First .. First + Cap - 1, k # t[p] PROVE seq'[Slot(k)] = seq[Slot(k)]
    <3>1. Slot(k) # Slot(t[p])
      BY <1>1, <2>2, <2>4, OneTicketPerSlot
    <3>. QED
      BY <1>1, <2>1, <2>2, <3>1 DEF Types
  <2>5. seq'[Slot(t[p])] = t[p] + 1
    BY <1>1, <2>1, <2>2 DEF Types
  <2>6. TicketInv'
    <3>1. ASSUME NEW k \in First .. First + Cap - 1
          PROVE  seq'[Slot(k)] \in IF k < tail THEN {k, k + 1} ELSE {k}
      <4>1. CASE k = t[p]
        BY <2>2, <2>5, <4>1
      <4>2. CASE k # t[p]
        <5>1. seq[Slot(k)] \in IF k < tail THEN {k, k + 1} ELSE {k}
          BY <1>1 DEF TicketInv
        <5>. QED
          BY <2>4, <4>2, <5>1
      <4>. QED
        BY <4>1, <4>2
    <3>. QED
      BY <1>1, <2>1, <3>1 DEF TicketInv
  <2>7. ProducerInv'
    <3>1. ASSUME NEW q \in Producers \ {p}, Writing(q)
          PROVE  seq'[Slot(t[q])] = t[q]
      <4>1. t[q] # t[p] /\ t[q] \in First .. First + Cap - 1 /\ seq[Slot(t[q])] = t[q]
        BY <1>1, <2>1, <3>1 DEF ProducerInv, TicketInv, Types, Writing
      <4>. QED
        BY <2>4, <4>1
    <3>. QED
      BY <1>1, <2>1, <3>1 DEF ProducerInv, Writing, Types
  <2>8. ConsumerInv'
    <3>1. ASSUME cpc \in {"read", "release"} PROVE seq'[Slot(h)] = h + 1
      <4>1. h = First /\ seq[Slot(h)] = h + 1 /\ h \in First .. First + Cap - 1 /\ h # t[p]
        BY <1>1, <2>2, <3>1 DEF ConsumerInv, First, Types, TicketInv
      <4>. QED
        BY <2>4, <4>1
    <3>. QED
      BY <1>1, <2>1, <3>1 DEF ConsumerInv
  <2>. QED
    BY <2>3, <2>6, <2>7, <2>8 DEF RingInv
<1>8. ASSUME RecvLoad \/ RecvRead PROVE RingInv'
  <2>1. Types' /\ First' = First /\ UNCHANGED <<seq, head, tail, ppc, t>>
    BY <1>1, <1>8 DEF RecvLoad, RecvRead, Types, First, ring, producerVars
  <2>2. TicketInv' /\ ProducerInv'
    BY <1>1, <2>1 DEF TicketInv, ProducerInv, Writing
  <2>3. ConsumerInv'
    BY <1>1, <1>8, <2>1 DEF RecvLoad, RecvRead, ConsumerInv
  <2>. QED
    BY <2>1, <2>2, <2>3 DEF RingInv
<1>9. ASSUME RecvPoll PROVE RingInv'
  <2>1. /\ Types' /\ First' = First /\ UNCHANGED <<seq, head, tail, ppc, t, h>>
        /\ cpc = "poll" /\ cpc' = "read" /\ seq[Slot(h)] = h + 1
    BY <1>1, <1>9 DEF RecvPoll, Types, First, ring, producerVars
  <2>2. TicketInv' /\ ProducerInv'
    BY <1>1, <2>1 DEF TicketInv, ProducerInv, Writing
  <2>3. h = First /\ h < tail
    <3>1. h = First /\ h \in First .. First + Cap - 1 /\ h \in Nat
      BY <1>1, <2>1, CapAssumption DEF ConsumerInv, First, Types, IsPowerOfTwo
    <3>2. seq[Slot(h)] \in IF h < tail THEN {h, h + 1} ELSE {h}
      BY <1>1, <3>1 DEF TicketInv
    <3>. QED
      BY <2>1, <3>1, <3>2
  <2>4. ConsumerInv'
    BY <1>1, <2>1, <2>3 DEF ConsumerInv
  <2>. QED
    BY <2>1, <2>2, <2>4 DEF RingInv
<1>10. ASSUME RecvRelease PROVE RingInv'
  <2>1. /\ UNCHANGED <<head, tail, ppc, t, h>>
        /\ seq' = [seq EXCEPT ![Slot(h)] = h + Cap]
        /\ cpc = "release" /\ cpc' = "advance"
    BY <1>10 DEF RecvRelease, producerVars
  <2>2. /\ First = h /\ First' = h + 1 /\ h \in Nat /\ h < tail
        /\ seq[Slot(h)] = h + 1 /\ Slot(h) \in Slots
    BY <1>1, <2>1, SlotPeriod DEF First, ConsumerInv, Types
  <2>3. Types'
    BY <1>1, <2>1, <2>2 DEF Types
  <2>4. ASSUME NEW k \in h + 1 .. h + Cap - 1 PROVE seq'[Slot(k)] = seq[Slot(k)]
    <3>1. Slot(k) # Slot(h)
      BY <1>1, <2>2, <2>4, SlotsDiffer
    <3>. QED
      BY <1>1, <2>1, <2>2, <3>1 DEF Types
  <2>5. seq'[Slot(h + Cap)] = h + Cap
    <3>1. Slot(h + Cap) = Slot(h)
      BY <2>2, SlotPeriod
    <3>. QED
      BY <1>1, <2>1, <2>2, <3>1 DEF Types
  <2>6. TicketInv'
    <3>1. tail <= h + Cap
      BY <1>1, <2>2 DEF TicketInv
    <3>2. ASSUME NEW k \in h + 1 .. h + Cap
          PROVE  seq'[Slot(k)] \in IF k < tail THEN {k, k + 1} ELSE {k}
      <4>1. CASE k = h + Cap
        BY <1>1, <2>2, <2>5, <3>1, <4>1 DEF Types
      <4>2. CASE k # h + Cap
        <5>1. k \in h + 1 .. h + Cap - 1 /\ k \in First .. First + Cap - 1
          BY <1>1, <2>2, <4>2
        <5>2. seq[Slot(k)] \in IF k < tail THEN {k, k + 1} ELSE {k}
          BY <1>1, <5>1 DEF TicketInv
        <5>. QED
          BY <2>4, <5>1, <5>2
      <4>. QED
        BY <4>1, <4>2
    <3>3. First' + Cap - 1 = h + Cap /\ First' <= tail' /\ tail' <= First' + Cap
      BY <1>1, <2>1, <2>2, <3>1 DEF Types
    <3>. QED
      BY <2>1, <2>2, <3>2, <3>3 DEF TicketInv
  <2>7. ProducerInv'
    <3>1. ASSUME NEW p \in Producers, Writing(p)
          PROVE  h + 1 <= t[p] /\ seq'[Slot(t[p])] = t[p]
      <4>1. t[p] \in First .. First + Cap - 1 /\ seq[Slot(t[p])] = t[p] /\ t[p] # h
        BY <1>1, <2>2, <3>1 DEF ProducerInv, TicketInv, Types
      <4>2. t[p] \in h + 1 .. h + Cap - 1
        BY <1>1, <2>2, <4>1 DEF Types
      <4>. QED
        BY <2>4, <4>1, <4>2
    <3>2. ASSUME NEW p \in Producers PROVE t[p] < First + Cap => t[p] < First' + Cap
      BY <1>1, <2>2 DEF Types
    <3>. QED
      BY <1>1, <2>1, <2>2, <3>1, <3>2 DEF ProducerInv, Writing
  <2>8. ConsumerInv'
    BY <1>1, <2>1 DEF ConsumerInv
  <2>. QED
    BY <2>3, <2>6, <2>7, <2>8 DEF RingInv
<1>11. ASSUME RecvAdvance PROVE RingInv'
  <2>1. /\ UNCHANGED <<seq, tail, ppc, t, h>> /\ head' = h + 1
        /\ cpc = "advance" /\ cpc' = "load"
    BY <1>11 DEF RecvAdvance, producerVars
  <2>2. Types' /\ First' = First
    BY <1>1, <2>1 DEF Types, First
  <2>3. TicketInv' /\ ProducerInv' /\ ConsumerInv'
    BY <1>1, <2>1, <2>2 DEF TicketInv, ProducerInv, ConsumerInv, Writing
  <2>. QED
    BY <2>2, <2>3 DEF RingInv
<1>12. CASE UNCHANGED vars
  <2>1. Types' /\ First' = First
    BY <1>1, <1>12 DEF vars, ring, producerVars, consumerVars, Types, First
  <2>2. TicketInv' /\ ProducerInv' /\ ConsumerInv'
    BY <1>1, <1>12, <2>1
    DEF vars, ring, producerVars, consumerVars, TicketInv, ProducerInv, ConsumerInv, Writing
  <2>. QED
    BY <2>1, <2>2 DEF RingInv
<1>13. ASSUME NEW p \in Producers, SendClaim(p) PROVE RingInv'
  <2>1. CASE tail = t[p]
    <3>1. tail' = t[p] + 1 /\ ppc'[p] = "write"
      BY <1>1, <1>13, <2>1 DEF SendClaim, Goto, Types
    <3>. QED
      BY <1>4, <1>13, <2>1, <3>1
  <2>2. CASE tail # t[p]
    BY <1>5, <1>13, <2>2
  <2>. QED
    BY <2>1, <2>2
<1>. QED
  BY <1>2, <1>3, <1>6, <1>7, <1>8, <1>9, <1>10, <1>11, <1>12, <1>13 DEF Next, Send, Recv

LEMMA RingInvariant == ASSUME 2 <= Cap PROVE Spec => []RingInv
<1>1. RingInv /\ [Next]_vars => RingInv'
  BY RingInvStep
<1>. QED
  BY RingInvInit, <1>1, PTL DEF Spec

-----------------------------------------------------------------------------
(* channel_send and channel_recv never touch one slot of buf at the same    *)
(* time, for any number of producers and any capacity from 2 on.            *)
THEOREM ChannelRaceFree == ASSUME 2 <= Cap PROVE Spec => []NoDataRace
<1>1. RingInv => NoDataRace
  <2>. SUFFICES ASSUME RingInv, NEW p \in Producers, Writing(p)
                PROVE  /\ \A q \in Producers \ {p} : Writing(q) => Slot(t[p]) # Slot(t[q])
                       /\ cpc \in {"read", "release"} => Slot(t[p]) # Slot(h)
    BY DEF NoDataRace
  <2>1. /\ t[p] \in Nat /\ seq[Slot(t[p])] = t[p]
        /\ \A q \in Producers \ {p} : Writing(q) => t[q] # t[p] /\ seq[Slot(t[q])] = t[q]
    BY DEF RingInv, ProducerInv, Types
  <2>2. cpc \in {"read", "release"} => seq[Slot(h)] = h + 1 /\ h = First
    BY DEF RingInv, ConsumerInv, First, Types
  <2>3. First \in Nat /\ First <= t[p] /\ h \in Nat
    BY FirstType DEF RingInv, ProducerInv, Types
  <2>4. t[p] \in First .. First + Cap - 1
    BY <2>1, <2>3, CapAssumption DEF RingInv, ProducerInv, TicketInv, Types
  <2>5. cpc \in {"read", "release"} => h \in First .. First + Cap - 1 /\ h # t[p]
    BY <2>1, <2>2, <2>3, CapAssumption DEF RingInv, ConsumerInv, IsPowerOfTwo
  <2>6. cpc \in {"read", "release"} => Slot(t[p]) # Slot(h)
    BY <2>1, <2>2, <2>3, <2>4, <2>5, OneTicketPerSlot
  <2>. QED
    BY <2>1, <2>6
<1>. QED
  BY <1>1, RingInvariant, PTL

(* A full channel blocks its senders: at most Cap messages are claimed and  *)
(* not received.                                                            *)
THEOREM ChannelBounded == ASSUME 2 <= Cap PROVE Spec => []SendBlocksWhenFull
<1>1. RingInv => SendBlocksWhenFull
  <2>. SUFFICES ASSUME RingInv PROVE tail - First <= Cap
    BY DEF SendBlocksWhenFull
  <2>1. First \in Nat /\ tail \in Nat /\ Cap \in Nat /\ tail <= First + Cap
    BY FirstType, CapAssumption DEF RingInv, TicketInv, Types
  <2>. QED
    BY <2>1
<1>. QED
  BY <1>1, RingInvariant, PTL

-----------------------------------------------------------------------------
(* A claimed message is numbered within bounds; a published slot holds one, *)
(* and the consumer has read the slot that it is about to release.          *)
ContentInv ==
  /\ buf \in [Slots -> Messages \union {Empty}]
  /\ got \in Messages \union {Empty}
  /\ received \in Seq(Messages)
  /\ sent \in [Producers -> 0 .. PerProducer]
  /\ \A p \in Producers :
       /\ ppc[p] \in {"check", "claim"} => sent[p] < PerProducer
       /\ Writing(p) => sent[p] >= 1
       /\ ppc[p] = "publish" => buf[Slot(t[p])] = <<p, sent[p]>>
  /\ \A k \in First .. tail - 1 : seq[Slot(k)] = k + 1 => buf[Slot(k)] \in Messages
  /\ cpc = "release" => got = buf[Slot(h)]

LEMMA ContentInvInit == ASSUME RingInv, Init PROVE ContentInv
<1>1. First = 0 /\ tail = 0 /\ PerProducer \in Nat
  BY BoundAssumption DEF Init, First
<1>2. received \in Seq(Messages)
  BY DEF Init
<1>. QED
  BY <1>1, <1>2 DEF Init, ContentInv, Writing

LEMMA ContentInvStep ==
  ASSUME RingInv, RingInv', ContentInv, [Next]_vars
  PROVE  ContentInv'
<1>1. /\ Types /\ TicketInv /\ ProducerInv /\ ConsumerInv
      /\ First \in Nat /\ Cap \in Nat /\ PerProducer \in Nat
  BY FirstType, CapAssumption, BoundAssumption DEF RingInv
<1>2. ASSUME NEW p \in Producers, SendLoad(p) \/ SendCheck(p) PROVE ContentInv'
  <2>1. First' = First /\ UNCHANGED <<buf, seq, tail, sent, cpc, h, got, received>>
    BY <1>2 DEF SendLoad, SendCheck, First, ring, consumerVars
  <2>2. \A q \in Producers :
          /\ ppc'[q] \in {"check", "claim"} => sent[q] < PerProducer
          /\ ppc'[q] \in {"write", "publish"} => ppc'[q] = ppc[q] /\ t'[q] = t[q]
    BY <1>1, <1>2 DEF SendLoad, SendCheck, Goto, Types, ContentInv
  <2>. QED
    BY <2>1, <2>2 DEF ContentInv, Writing
<1>3. ASSUME NEW p \in Producers, SendClaim(p) PROVE ContentInv'
  <2>1. First' = First /\ UNCHANGED <<buf, seq, t, cpc, h, got, received>> /\ ppc[p] = "claim"
    BY <1>3 DEF SendClaim, First, consumerVars
  <2>2. CASE tail # t[p]
    <3>1. UNCHANGED <<tail, sent>> /\ ppc' = [ppc EXCEPT ![p] = "load"]
      BY <1>3, <2>2 DEF SendClaim, Goto
    <3>. QED
      BY <1>1, <2>1, <3>1 DEF ContentInv, Writing, Types
  <2>3. CASE tail = t[p]
    <3>1. /\ tail' = tail + 1 /\ sent' = [sent EXCEPT ![p] = @ + 1]
          /\ ppc' = [ppc EXCEPT ![p] = "write"]
      BY <1>3, <2>3 DEF SendClaim, Goto
    <3>2. sent' \in [Producers -> 0 .. PerProducer] /\ sent'[p] >= 1
      BY <1>1, <2>1, <3>1 DEF ContentInv
    <3>3. \A q \in Producers :
            /\ ppc'[q] \in {"check", "claim"} => sent'[q] < PerProducer
            /\ ppc'[q] \in {"write", "publish"} => sent'[q] >= 1
            /\ ppc'[q] = "publish" => buf[Slot(t[q])] = <<q, sent'[q]>>
      BY <1>1, <2>1, <3>1, <3>2 DEF ContentInv, Writing, Types
    <3>4. \A k \in First .. tail : seq[Slot(k)] = k + 1 => buf[Slot(k)] \in Messages
      <4>1. seq[Slot(tail)] = tail
        <5>1. tail < First + Cap
          BY <1>1, <2>1, <2>3 DEF ProducerInv
        <5>2. tail \in First .. First + Cap - 1
          BY <1>1, <5>1 DEF TicketInv, Types
        <5>3. seq[Slot(tail)] \in IF tail < tail THEN {tail, tail + 1} ELSE {tail}
          BY <1>1, <5>2 DEF TicketInv
        <5>. QED
          BY <1>1, <5>3 DEF Types
      <4>. QED
        BY <1>1, <4>1 DEF ContentInv, Types
    <3>. QED
      BY <1>1, <2>1, <3>1, <3>2, <3>3, <3>4 DEF ContentInv, Writing, Types
  <2>. QED
    BY <2>2, <2>3
<1>4. ASSUME NEW p \in Producers, SendWrite(p) PROVE ContentInv'
  <2>1. /\ First' = First /\ UNCHANGED <<seq, tail, t, sent, cpc, h, got, received>>
        /\ ppc[p] = "write" /\ ppc' = [ppc EXCEPT ![p] = "publish"]
        /\ buf' = [buf EXCEPT ![Slot(t[p])] = <<p, sent[p]>>]
    BY <1>4 DEF SendWrite, Goto, First, consumerVars
  <2>2. /\ t[p] \in First .. First + Cap - 1 /\ seq[Slot(t[p])] = t[p] /\ t[p] \in Nat
        /\ Slot(t[p]) \in Slots /\ <<p, sent[p]>> \in Messages
    <3>1. Writing(p) /\ sent[p] \in 1 .. PerProducer
      BY <1>1, <2>1 DEF ContentInv, Writing
    <3>. QED
      BY <1>1, <3>1, SlotPeriod DEF ProducerInv, TicketInv, Types, Messages
  <2>3. ASSUME NEW k \in First .. First + Cap - 1, k # t[p] PROVE buf'[Slot(k)] = buf[Slot(k)]
    <3>1. Slot(k) # Slot(t[p]) /\ Slot(k) \in Slots
      BY <1>1, <2>2, <2>3, OneTicketPerSlot, SlotPeriod
    <3>. QED
      BY <2>1, <3>1 DEF ContentInv
  <2>4. buf' \in [Slots -> Messages \union {Empty}] /\ buf'[Slot(t[p])] = <<p, sent[p]>>
    BY <2>1, <2>2 DEF ContentInv
  <2>5. ASSUME NEW q \in Producers \ {p}, ppc[q] = "publish"
        PROVE  buf'[Slot(t[q])] = <<q, sent[q]>>
    <3>1. t[q] \in First .. First + Cap - 1 /\ t[q] # t[p]
      BY <1>1, <2>1, <2>5 DEF ProducerInv, TicketInv, Types, Writing
    <3>. QED
      BY <2>3, <2>5, <3>1 DEF ContentInv
  <2>6. ASSUME NEW k \in First .. tail - 1, seq[Slot(k)] = k + 1 PROVE buf'[Slot(k)] \in Messages
    <3>1. k # t[p] /\ k \in First .. First + Cap - 1
      BY <1>1, <2>2, <2>6 DEF TicketInv, Types
    <3>. QED
      BY <2>3, <2>6, <3>1 DEF ContentInv
  <2>7. cpc = "release" => got = buf'[Slot(h)]
    <3>1. SUFFICES ASSUME cpc = "release" PROVE got = buf'[Slot(h)]
      OBVIOUS
    <3>2. h = First /\ seq[Slot(h)] = h + 1 /\ h \in First .. First + Cap - 1 /\ h # t[p]
      BY <1>1, <2>2, <3>1 DEF ConsumerInv, First, Types, TicketInv
    <3>. QED
      BY <2>3, <3>1, <3>2 DEF ContentInv
  <2>. QED
    BY <1>1, <2>1, <2>4, <2>5, <2>6, <2>7 DEF ContentInv, Writing, Types
<1>5. ASSUME NEW p \in Producers, SendPublish(p) PROVE ContentInv'
  <2>1. /\ First' = First /\ UNCHANGED <<buf, tail, t, sent, cpc, h, got, received>>
        /\ ppc[p] = "publish" /\ ppc' = [ppc EXCEPT ![p] = "load"]
        /\ seq' = [seq EXCEPT ![Slot(t[p])] = t[p] + 1]
    BY <1>5 DEF SendPublish, Goto, First, consumerVars
  <2>2. /\ t[p] \in First .. First + Cap - 1 /\ t[p] \in Nat /\ Slot(t[p]) \in Slots
        /\ buf[Slot(t[p])] \in Messages
    <3>1. Writing(p) /\ sent[p] >= 1 /\ buf[Slot(t[p])] = <<p, sent[p]>>
      BY <2>1, Zenon DEF ContentInv, Writing
    <3>2. sent[p] \in 1 .. PerProducer
      BY <1>1, <3>1 DEF ContentInv
    <3>. QED
      BY <1>1, <3>1, <3>2, SlotPeriod DEF ProducerInv, TicketInv, Types, Messages
  <2>3. ASSUME NEW k \in First .. tail - 1, seq'[Slot(k)] = k + 1 PROVE buf[Slot(k)] \in Messages
    <3>1. CASE k = t[p]
      BY <2>2, <3>1
    <3>2. CASE k # t[p]
      <4>1. k \in First .. First + Cap - 1
        BY <1>1 DEF TicketInv, Types
      <4>2. Slot(k) # Slot(t[p]) /\ Slot(k) \in Slots
        BY <1>1, <2>2, <3>2, <4>1, OneTicketPerSlot, SlotPeriod
      <4>3. seq'[Slot(k)] = seq[Slot(k)]
        BY <1>1, <2>1, <4>2 DEF Types
      <4>. QED
        BY <2>3, <4>3 DEF ContentInv
    <3>. QED
      BY <3>1, <3>2
  <2>. QED
    BY <1>1, <2>1, <2>3 DEF ContentInv, Writing, Types
<1>6. ASSUME RecvLoad \/ RecvPoll PROVE ContentInv'
  <2>1. First' = First /\ UNCHANGED <<buf, seq, tail, ppc, t, sent, got, received>>
        /\ cpc' # "release"
    BY <1>6 DEF RecvLoad, RecvPoll, First, ring, producerVars
  <2>. QED
    BY <2>1 DEF ContentInv, Writing
<1>7. ASSUME RecvRead PROVE ContentInv'
  <2>1. First' = First /\ UNCHANGED <<buf, seq, tail, ppc, t, sent, h, received>>
        /\ got' = buf[Slot(h)] /\ Slot(h) \in Slots
    BY <1>1, <1>7, SlotPeriod DEF RecvRead, First, ring, producerVars, Types
  <2>. QED
    BY <2>1 DEF ContentInv, Writing
<1>8. ASSUME RecvRelease PROVE ContentInv'
  <2>1. /\ UNCHANGED <<buf, tail, ppc, t, sent, h, got>> /\ cpc' = "advance" /\ cpc = "release"
        /\ seq' = [seq EXCEPT ![Slot(h)] = h + Cap]
        /\ received' = Append(received, got)
    BY <1>8 DEF RecvRelease, producerVars
  <2>2. First = h /\ First' = h + 1 /\ h \in Nat /\ h < tail /\ seq[Slot(h)] = h + 1
    BY <1>1, <2>1 DEF First, ConsumerInv, Types
  <2>3. got \in Messages
    <3>1. h \in First .. tail - 1
      BY <1>1, <2>2 DEF Types
    <3>. QED
      BY <2>1, <2>2, <3>1 DEF ContentInv
  <2>4. received' \in Seq(Messages)
    BY <2>1, <2>3 DEF ContentInv
  <2>5. ASSUME NEW k \in h + 1 .. tail - 1, seq'[Slot(k)] = k + 1 PROVE buf[Slot(k)] \in Messages
    <3>1. k \in First .. tail - 1 /\ k \in h + 1 .. h + Cap - 1
      BY <1>1, <2>2 DEF TicketInv, Types
    <3>2. Slot(k) # Slot(h) /\ Slot(k) \in Slots
      BY <1>1, <2>2, <3>1, SlotsDiffer, SlotPeriod
    <3>3. seq'[Slot(k)] = seq[Slot(k)]
      BY <1>1, <2>1, <3>2 DEF Types
    <3>. QED
      BY <2>5, <3>1, <3>3 DEF ContentInv
  <2>. QED
    BY <2>1, <2>2, <2>4, <2>5 DEF ContentInv, Writing
<1>9. ASSUME RecvAdvance PROVE ContentInv'
  <2>1. First' = First /\ UNCHANGED <<buf, seq, tail, ppc, t, sent, h, got, received>>
        /\ cpc' = "load"
    BY <1>9 DEF RecvAdvance, First, producerVars
  <2>. QED
    BY <2>1 DEF ContentInv, Writing
<1>10. CASE UNCHANGED vars
  <2>1. First' = First
    BY <1>10 DEF vars, ring, consumerVars, First
  <2>. QED
    BY <1>10, <2>1 DEF vars, ring, producerVars, consumerVars, ContentInv, Writing
<1>. QED
  BY <1>2, <1>3, <1>4, <1>5, <1>6, <1>7, <1>8, <1>9, <1>10 DEF Next, Send, Recv

LEMMA ContentInvariant == ASSUME 2 <= Cap PROVE Spec => [](RingInv /\ ContentInv)
<1>1. RingInv /\ ContentInv /\ RingInv' /\ [Next]_vars => ContentInv'
  BY ContentInvStep
<1>2. Init /\ RingInv => ContentInv
  BY ContentInvInit
<1>. QED
  BY <1>1, <1>2, RingInvariant, PTL DEF Spec

(* Types: no slot holds anything but a message or the initial zero, and     *)
(* what channel_recv returned are messages that were sent.                  *)
THEOREM ChannelTypes == ASSUME 2 <= Cap PROVE Spec => []TypeOK
<1>1. RingInv /\ ContentInv => TypeOK
  BY DEF RingInv, Types, ContentInv, TypeOK
<1>. QED
  BY <1>1, ContentInvariant, PTL

-----------------------------------------------------------------------------
(* Functions on 1..n as sequences: adding a last, taking the first element. *)
LEMMA Extended ==
  ASSUME NEW S, NEW n \in Nat, NEW q \in [1 .. n -> S], NEW r \in [1 .. n + 1 -> S],
         \A i \in 1 .. n : r[i] = q[i]
  PROVE  Len(q) = n /\ r = Append(q, r[n + 1])
<1>1. q \in Seq(S) /\ r \in Seq(S) /\ Len(q) = n /\ Len(r) = n + 1 /\ r[n + 1] \in S
  BY SeqDef
<1>. DEFINE a == Append(q, r[n + 1])
<1>2. /\ a \in Seq(S) /\ Len(a) = n + 1
      /\ \A i \in 1 .. n : a[i] = q[i]
      /\ a[n + 1] = r[n + 1]
  BY <1>1, AppendProperties
<1>. HIDE DEF a
<1>3. \A i \in 1 .. Len(r) : r[i] = a[i]
  BY <1>1, <1>2
<1>4. r = a
  BY <1>1, <1>2, <1>3, SeqEqual
<1>. QED
  BY <1>1, <1>4 DEF a

LEMMA Shortened ==
  ASSUME NEW S, NEW n \in Nat, NEW q \in [1 .. n + 1 -> S], NEW r \in [1 .. n -> S],
         \A i \in 1 .. n : r[i] = q[i + 1]
  PROVE  q # << >> /\ Head(q) = q[1] /\ r = Tail(q)
<1>1. q \in Seq(S) /\ r \in Seq(S) /\ Len(q) = n + 1 /\ Len(r) = n
  BY SeqDef
<1>2. q # << >>
  BY <1>1, EmptySeq
<1>. DEFINE a == Tail(q)
<1>3. a \in Seq(S) /\ Len(a) = n /\ \A i \in 1 .. n : a[i] = q[i + 1]
  BY <1>1, <1>2, HeadTailProperties
<1>. HIDE DEF a
<1>4. r = a
  BY <1>1, <1>3, SeqEqual
<1>. QED
  BY <1>1, <1>2, <1>4 DEF a

(* The message of a ticket is its producer's until the slot is published.   *)
LEMMA MessageWritten ==
  ASSUME RingInv, NEW p \in Producers, Writing(p)
  PROVE  MessageOf(t[p]) = <<p, sent[p]>>
<1>1. \A q \in Producers : Writing(q) /\ t[q] = t[p] => q = p
  BY DEF RingInv, ProducerInv
<1>. QED
  BY <1>1 DEF MessageOf

LEMMA MessageStored ==
  ASSUME NEW k, \A p \in Producers : Writing(p) => t[p] # k
  PROVE  MessageOf(k) = buf[Slot(k)]
BY DEF MessageOf

Queue == [i \in 1 .. tail - First |-> MessageOf(First + i - 1)]

LEMMA QueueType ==
  ASSUME RingInv, ContentInv
  PROVE  /\ tail - First \in Nat
         /\ Queue \in [1 .. tail - First -> Messages \union {Empty}]
<1>1. First \in Nat /\ tail \in Nat /\ First <= tail /\ Cap \in Nat
  BY FirstType, CapAssumption DEF RingInv, Types, TicketInv
<1>2. ASSUME NEW k \in Nat PROVE MessageOf(k) \in Messages \union {Empty}
  <2>1. CASE \E p \in Producers : Writing(p) /\ t[p] = k
    <3>1. PICK p \in Producers : Writing(p) /\ t[p] = k
      BY <2>1
    <3>2. MessageOf(k) = <<p, sent[p]>>
      BY <3>1, MessageWritten
    <3>3. sent[p] >= 1 /\ sent[p] \in 0 .. PerProducer
      BY <3>1 DEF ContentInv
    <3>. QED
      BY <3>2, <3>3, BoundAssumption DEF Messages
  <2>2. CASE ~ \E p \in Producers : Writing(p) /\ t[p] = k
    BY <2>2, SlotPeriod, MessageStored DEF ContentInv
  <2>. QED
    BY <2>1, <2>2
<1>. QED
  BY <1>1, <1>2 DEF Queue

(* Which steps a program sees: the claim sends, the release receives.       *)
LEMMA QueueUnchanged ==
  ASSUME RingInv, UNCHANGED <<tail, sent, received>>, First' = First,
         \A k \in First .. tail - 1 : MessageOf(k)' = MessageOf(k)
  PROVE  UNCHANGED Fifo!vars
<1>1. First \in Nat /\ tail \in Nat
  BY FirstType DEF RingInv, Types
<1>2. Queue' = Queue
  BY <1>1 DEF Queue
<1>. QED
  BY <1>2 DEF Fifo!vars, Queue

(* A ticket keeps its message if its writer, or the content of its slot,    *)
(* stays what it is.                                                        *)
LEMMA MessageKept ==
  ASSUME RingInv, RingInv', NEW k \in Nat,
         \A p \in Producers : Writing(p) /\ t[p] = k =>
           Writing(p)' /\ t'[p] = k /\ sent'[p] = sent[p],
         (\A p \in Producers : Writing(p) => t[p] # k) =>
           (\A p \in Producers : Writing(p)' => t'[p] # k) /\ buf'[Slot(k)] = buf[Slot(k)]
  PROVE  MessageOf(k)' = MessageOf(k)
<1>1. CASE \E p \in Producers : Writing(p) /\ t[p] = k
  <2>1. PICK p \in Producers : Writing(p) /\ t[p] = k
    BY <1>1
  <2>2. MessageOf(k) = <<p, sent[p]>>
    BY <2>1, MessageWritten
  <2>3. Writing(p)' /\ t'[p] = k /\ sent'[p] = sent[p]
    BY <2>1
  <2>4. \A q \in Producers : Writing(q)' /\ t'[q] = k => q = p
    BY <2>3 DEF RingInv, ProducerInv
  <2>5. MessageOf(k)' = <<p, sent'[p]>>
    BY <2>3, <2>4 DEF MessageOf
  <2>. QED
    BY <2>2, <2>3, <2>5
<1>2. CASE \A p \in Producers : Writing(p) => t[p] # k
  BY <1>2 DEF MessageOf
<1>. QED
  BY <1>1, <1>2

(* The claim: the message joins the queue.                                  *)
LEMMA ClaimSends ==
  ASSUME RingInv, RingInv', ContentInv, ContentInv',
         NEW p \in Producers, SendClaim(p), tail = t[p]
  PROVE  Fifo!Send(p)
<1>1. /\ tail' = tail + 1 /\ sent' = [sent EXCEPT ![p] = @ + 1]
      /\ ppc' = [ppc EXCEPT ![p] = "write"] /\ ppc[p] = "claim"
      /\ UNCHANGED <<buf, seq, head, t, cpc, h, got, received>>
      /\ First' = First
  BY DEF SendClaim, Goto, First, consumerVars
<1>2. /\ Types /\ ProducerInv /\ First \in Nat /\ tail \in Nat /\ Cap \in Nat /\ First <= tail
      /\ tail < First + Cap /\ sent[p] \in 0 .. PerProducer /\ sent[p] < PerProducer
      /\ PerProducer \in Nat
  BY <1>1, FirstType, CapAssumption, BoundAssumption
  DEF RingInv, TicketInv, ProducerInv, Types, ContentInv
<1>0. PICK c \in Nat : c = tail
  BY <1>2
<1>3. ASSUME NEW k \in First .. tail - 1 PROVE MessageOf(k)' = MessageOf(k)
  <2>1. k \in Nat /\ k # t[p]
    BY <1>2
  <2>2. \A q \in Producers : q # p => /\ (Writing(q)' <=> Writing(q)) /\ t'[q] = t[q]
                                      /\ sent'[q] = sent[q]
    BY <1>1, <1>2 DEF Writing, Types, ContentInv
  <2>3. ~ Writing(p) /\ t'[p] = t[p]
    BY <1>1 DEF Writing
  <2>. QED
    BY <1>1, <2>1, <2>2, <2>3, MessageKept
<1>4. MessageOf(c)' = <<p, sent[p] + 1>>
  <2>1. Writing(p)' /\ t'[p] = c /\ sent'[p] = sent[p] + 1
    BY <1>0, <1>1, <1>2 DEF Writing, Types, ContentInv
  <2>2. \A q \in Producers : Writing(q)' /\ t'[q] = c => q = p
    BY <2>1 DEF RingInv, ProducerInv
  <2>. QED
    BY <2>1, <2>2 DEF MessageOf
<1>. DEFINE n == tail - First
<1>5. /\ n \in Nat /\ Queue \in [1 .. n -> Messages \union {Empty}]
      /\ n < Cap
  BY <1>2, QueueType
<1>6. Queue' \in [1 .. n + 1 -> Messages \union {Empty}]
  <2>1. (RingInv /\ ContentInv => Queue \in [1 .. tail - First -> Messages \union {Empty}])'
    BY QueueType, PTL
  <2>2. tail' - First' = n + 1
    BY <1>1, <1>2
  <2>. QED
    BY <2>1, <2>2
<1>7. \A i \in 1 .. n : Queue'[i] = Queue[i]
  BY <1>1, <1>2, <1>3 DEF Queue
<1>8. Queue'[n + 1] = <<p, sent[p] + 1>>
  <2>1. First' + (n + 1) - 1 = c /\ n + 1 \in 1 .. tail' - First'
    BY <1>0, <1>1, <1>2
  <2>2. Queue'[n + 1] = MessageOf(c)'
    BY <2>1 DEF Queue
  <2>. QED
    BY <1>4, <2>2
<1>. HIDE DEF n
<1>9. Len(Queue) = n /\ Queue' = Append(Queue, <<p, sent[p] + 1>>)
  BY <1>5, <1>6, <1>7, <1>8, Extended
<1>. QED
  BY <1>1, <1>2, <1>5, <1>9 DEF Fifo!Send, Queue

(* The release: the oldest message leaves the queue.                        *)
LEMMA ReleaseReceives ==
  ASSUME RingInv, RingInv', ContentInv, ContentInv', RecvRelease
  PROVE  Fifo!Receive
<1>1. /\ UNCHANGED <<buf, tail, ppc, t, sent, h, got>> /\ cpc' = "advance" /\ cpc = "release"
      /\ received' = Append(received, got)
  BY DEF RecvRelease, producerVars
<1>2. /\ First = h /\ First' = h + 1 /\ h \in Nat /\ h < tail /\ seq[Slot(h)] = h + 1
      /\ tail \in Nat /\ got = buf[Slot(h)]
  BY <1>1 DEF First, RingInv, ConsumerInv, Types, ContentInv
<1>3. MessageOf(h) = got
  <2>1. \A p \in Producers : Writing(p) => t[p] # h
    BY <1>2 DEF RingInv, ProducerInv, Types
  <2>. QED
    BY <1>2, <2>1, MessageStored
<1>4. ASSUME NEW k \in Nat PROVE MessageOf(k)' = MessageOf(k)
  <2>1. \A p \in Producers : (Writing(p)' <=> Writing(p)) /\ t'[p] = t[p] /\ sent'[p] = sent[p]
    BY <1>1 DEF Writing
  <2>. QED
    BY <1>1, <2>1, MessageKept
<1>. DEFINE n == tail - First - 1
<1>5. n \in Nat /\ Queue \in [1 .. n + 1 -> Messages \union {Empty}]
  BY <1>2, QueueType
<1>6. Queue' \in [1 .. n -> Messages \union {Empty}]
  <2>1. (RingInv /\ ContentInv => Queue \in [1 .. tail - First -> Messages \union {Empty}])'
    BY QueueType, PTL
  <2>2. tail' - First' = n
    BY <1>1, <1>2
  <2>. QED
    BY <2>1, <2>2
<1>7. \A i \in 1 .. n : Queue'[i] = Queue[i + 1]
  <2>. SUFFICES ASSUME NEW i \in 1 .. n PROVE Queue'[i] = Queue[i + 1]
    OBVIOUS
  <2>1. /\ i \in 1 .. tail' - First' /\ i + 1 \in 1 .. tail - First
        /\ First' + i - 1 = h + i /\ First + (i + 1) - 1 = h + i /\ h + i \in Nat
    BY <1>1, <1>2
  <2>2. PICK k \in Nat : k = h + i
    BY <2>1
  <2>3. Queue'[i] = MessageOf(k)' /\ Queue[i + 1] = MessageOf(k)
    BY <2>1, <2>2 DEF Queue
  <2>. QED
    BY <1>4, <2>3
<1>8. Queue[1] = got
  BY <1>2, <1>3 DEF Queue
<1>. HIDE DEF n
<1>9. Queue # << >> /\ Head(Queue) = got /\ Queue' = Tail(Queue)
  BY <1>5, <1>6, <1>7, <1>8, Shortened
<1>. QED
  BY <1>1, <1>9 DEF Fifo!Receive, Queue

(* A step that neither claims, writes, publishes nor releases is invisible. *)
LEMMA QuietStep ==
  ASSUME RingInv, RingInv', UNCHANGED <<buf, tail, sent, received>>, First' = First,
         \A p \in Producers : (Writing(p)' <=> Writing(p)) /\ (Writing(p) => t'[p] = t[p])
  PROVE  UNCHANGED Fifo!vars
<1>1. First \in Nat /\ tail \in Nat
  BY FirstType DEF RingInv, Types
<1>2. ASSUME NEW k \in First .. tail - 1 PROVE MessageOf(k)' = MessageOf(k)
  <2>1. k \in Nat
    BY <1>1
  <2>. QED
    BY <2>1, MessageKept
<1>. QED
  BY <1>2, QueueUnchanged

(* Storing the message leaves the queue alone: it held the message since    *)
(* the claim, and no other ticket of the turn has that slot.                *)
LEMMA WriteInvisible ==
  ASSUME RingInv, RingInv', ContentInv, NEW p \in Producers, SendWrite(p)
  PROVE  UNCHANGED Fifo!vars
<1>1. /\ UNCHANGED <<tail, t, sent, received>> /\ First' = First
      /\ ppc[p] = "write" /\ ppc' = [ppc EXCEPT ![p] = "publish"]
      /\ buf' = [buf EXCEPT ![Slot(t[p])] = <<p, sent[p]>>]
  BY DEF SendWrite, Goto, First, consumerVars
<1>2. /\ Types /\ First \in Nat /\ tail \in Nat /\ Cap \in Nat /\ tail <= First + Cap
      /\ buf \in [Slots -> Messages \union {Empty}]
  BY FirstType, CapAssumption DEF RingInv, Types, TicketInv, ContentInv
<1>3. Writing(p) /\ t[p] \in First .. tail - 1
  BY <1>1, <1>2 DEF Writing, RingInv, ProducerInv, Types
<1>4. \A q \in Producers : Writing(q)' <=> Writing(q)
  BY <1>1, <1>2 DEF Writing, Types
<1>5. ASSUME NEW k \in First .. tail - 1 PROVE MessageOf(k)' = MessageOf(k)
  <2>1. k \in Nat /\ k \in First .. First + Cap - 1 /\ t[p] \in First .. First + Cap - 1
    BY <1>2, <1>3
  <2>2. (\A q \in Producers : Writing(q) => t[q] # k) => buf'[Slot(k)] = buf[Slot(k)]
    <3>1. SUFFICES ASSUME t[p] # k PROVE buf'[Slot(k)] = buf[Slot(k)]
      BY <1>3
    <3>2. Slot(k) # Slot(t[p]) /\ Slot(k) \in Slots
      BY <1>2, <2>1, <3>1, OneTicketPerSlot, SlotPeriod
    <3>. QED
      BY <1>1, <1>2, <3>2
  <2>. QED
    BY <1>1, <1>4, <2>1, <2>2, MessageKept
<1>. QED
  BY <1>1, <1>5, QueueUnchanged

(* Publishing hands the ticket's message from its producer to the slot.     *)
LEMMA PublishInvisible ==
  ASSUME RingInv, RingInv', ContentInv, NEW p \in Producers, SendPublish(p)
  PROVE  UNCHANGED Fifo!vars
<1>1. /\ UNCHANGED <<buf, tail, t, sent, received>> /\ First' = First
      /\ ppc[p] = "publish" /\ ppc' = [ppc EXCEPT ![p] = "load"]
  BY DEF SendPublish, Goto, First, consumerVars
<1>2. /\ Types /\ First \in Nat /\ tail \in Nat /\ Writing(p)
      /\ buf[Slot(t[p])] = <<p, sent[p]>>
  BY <1>1, FirstType DEF RingInv, Types, ContentInv, Writing
<1>3. /\ ~ Writing(p)'
      /\ \A q \in Producers \ {p} : Writing(q)' <=> Writing(q)
      /\ \A q \in Producers \ {p} : Writing(q) => t[q] # t[p]
  BY <1>1, <1>2 DEF Writing, Types, RingInv, ProducerInv
<1>4. ASSUME NEW k \in First .. tail - 1 PROVE MessageOf(k)' = MessageOf(k)
  <2>1. k \in Nat
    BY <1>2
  <2>2. CASE k = t[p]
    <3>1. MessageOf(k) = <<p, sent[p]>>
      BY <1>2, <2>2, MessageWritten
    <3>2. \A q \in Producers : Writing(q)' => t'[q] # k
      BY <1>1, <1>3, <2>2
    <3>3. MessageOf(k)' = buf'[Slot(k)]
      BY <3>2 DEF MessageOf
    <3>. QED
      BY <1>1, <1>2, <2>2, <3>1, <3>3
  <2>3. CASE k # t[p]
    <3>1. \A q \in Producers : Writing(q) /\ t[q] = k =>
            Writing(q)' /\ t'[q] = k /\ sent'[q] = sent[q]
      BY <1>1, <1>3, <2>3
    <3>2. (\A q \in Producers : Writing(q) => t[q] # k) =>
            (\A q \in Producers : Writing(q)' => t'[q] # k) /\ buf'[Slot(k)] = buf[Slot(k)]
      BY <1>1, <1>3, <2>3
    <3>. QED
      BY <2>1, <3>1, <3>2, MessageKept
  <2>. QED
    BY <2>2, <2>3
<1>. QED
  BY <1>1, <1>4, QueueUnchanged

(* Every step of the ring is a step of the FIFO queue or invisible to it.   *)
LEMMA FifoStep ==
  ASSUME RingInv, RingInv', ContentInv, ContentInv', [Next]_vars
  PROVE  Fifo!Next \/ UNCHANGED Fifo!vars
<1>1. Types
  BY DEF RingInv
<1>2. ASSUME NEW p \in Producers, SendLoad(p) PROVE UNCHANGED Fifo!vars
  <2>1. /\ First' = First /\ UNCHANGED <<buf, tail, sent, received>>
        /\ \A q \in Producers : (Writing(q)' <=> Writing(q)) /\ (Writing(q) => t'[q] = t[q])
    BY <1>1, <1>2 DEF SendLoad, Goto, Types, First, Writing, ring, consumerVars
  <2>. QED
    BY <2>1, QuietStep
<1>3. ASSUME NEW p \in Producers, SendCheck(p) PROVE UNCHANGED Fifo!vars
  <2>1. /\ First' = First /\ UNCHANGED <<buf, tail, sent, received>>
        /\ \A q \in Producers : (Writing(q)' <=> Writing(q)) /\ (Writing(q) => t'[q] = t[q])
    BY <1>1, <1>3 DEF SendCheck, Goto, Types, First, Writing, ring, consumerVars
  <2>. QED
    BY <2>1, QuietStep
<1>4. ASSUME NEW p \in Producers, SendClaim(p) PROVE Fifo!Next \/ UNCHANGED Fifo!vars
  <2>1. CASE tail = t[p]
    BY <1>4, <2>1, ClaimSends DEF Fifo!Next
  <2>2. CASE tail # t[p]
    <3>1. /\ First' = First /\ UNCHANGED <<buf, tail, sent, received>>
          /\ \A q \in Producers : (Writing(q)' <=> Writing(q)) /\ (Writing(q) => t'[q] = t[q])
      BY <1>1, <1>4, <2>2 DEF SendClaim, Goto, Types, First, Writing, consumerVars
    <3>. QED
      BY <3>1, QuietStep
  <2>. QED
    BY <2>1, <2>2
<1>5. ASSUME NEW p \in Producers, SendWrite(p) PROVE UNCHANGED Fifo!vars
  BY <1>5, WriteInvisible
<1>6. ASSUME NEW p \in Producers, SendPublish(p) PROVE UNCHANGED Fifo!vars
  BY <1>6, PublishInvisible
<1>7. ASSUME RecvLoad \/ RecvPoll \/ RecvRead \/ RecvAdvance PROVE UNCHANGED Fifo!vars
  <2>1. /\ First' = First /\ UNCHANGED <<buf, tail, sent, received, ppc, t>>
    BY <1>7 DEF RecvLoad, RecvPoll, RecvRead, RecvAdvance, First, ring, producerVars
  <2>2. \A q \in Producers : (Writing(q)' <=> Writing(q)) /\ (Writing(q) => t'[q] = t[q])
    BY <2>1 DEF Writing
  <2>. QED
    BY <2>1, <2>2, QuietStep
<1>8. ASSUME RecvRelease PROVE Fifo!Next
  BY <1>8, ReleaseReceives DEF Fifo!Next
<1>9. ASSUME UNCHANGED vars PROVE UNCHANGED Fifo!vars
  <2>1. /\ First' = First /\ UNCHANGED <<buf, tail, sent, received, ppc, t>>
    BY <1>9 DEF vars, First, ring, producerVars, consumerVars
  <2>2. \A q \in Producers : (Writing(q)' <=> Writing(q)) /\ (Writing(q) => t'[q] = t[q])
    BY <2>1 DEF Writing
  <2>. QED
    BY <2>1, <2>2, QuietStep
<1>. QED
  BY <1>2, <1>3, <1>4, <1>5, <1>6, <1>7, <1>8, <1>9 DEF Next, Send, Recv

(* The channel implements the bounded FIFO queue: a send takes effect when  *)
(* channel_send claims its ticket, a receive when channel_recv releases the *)
(* slot, and nothing is lost, duplicated, reordered or taken from an empty  *)
(* channel.                                                                 *)
THEOREM ChannelRefines == ASSUME 2 <= Cap PROVE Spec => ImplementsFifo
<1>1. Init => Fifo!Init
  <2>. SUFFICES ASSUME Init PROVE Fifo!Init
    OBVIOUS
  <2>1. First = 0 /\ tail = 0 /\ sent = [p \in Producers |-> 0] /\ received = << >>
    BY DEF Init, First
  <2>2. Queue = << >>
    BY <2>1 DEF Queue
  <2>. QED
    BY <2>1, <2>2 DEF Fifo!Init, Queue
<1>2. RingInv /\ ContentInv /\ (RingInv /\ ContentInv)' /\ [Next]_vars => [Fifo!Next]_Fifo!vars
  BY FifoStep
<1>. QED
  BY <1>1, <1>2, ContentInvariant, PTL DEF Spec, ImplementsFifo, Fifo!Spec
=============================================================================
