---------------------------- MODULE TablesProofs ----------------------------
(***************************************************************************)
(* Proofs about the containers of Tables, for any capacities, keys, hashes *)
(* and elements.  What a call of a hash table does is proved in a module   *)
(* of its own and used here through INSTANCE; the deque comes first, then  *)
(* the union-find.                                                         *)
(*                                                                         *)
(* A Ring is a well-shaped ring whose cells in use hold elements; the      *)
(* cells in use are the first len places of the ring from front on, and    *)
(* place i is cell (front + i) modulo the capacity (Places).  Each change  *)
(* of a ring keeps it one and does to its content, read from front on,     *)
(* what the call does to a sequence; growing does nothing to it.           *)
(***************************************************************************)
EXTENDS Tables, SequenceTheorems, FiniteSetTheorems, TLAPS

HSP == INSTANCE HashTableProofs WITH table <- st, IsMap <- FALSE,
        FirstCapacity <- TableCapacities[1], MaxCapacity <- TableCapacities[2]
HMP == INSTANCE HashTableProofs WITH table <- st, IsMap <- TRUE,
        FirstCapacity <- TableCapacities[1], MaxCapacity <- TableCapacities[2]

Shaped(r) ==
    /\ r = [data |-> r.data, front |-> r.front, len |-> r.len, capacity |-> r.capacity]
    /\ r.capacity \in Nat /\ r.len \in 0 .. r.capacity
    /\ r.front \in Nat /\ (r.capacity # 0 => r.front < r.capacity)
    /\ r.data \in [0 .. r.capacity - 1 -> Elements \cup {None}]

\* The inductive invariant.
Ring(r) == Shaped(r) /\ \A i \in 0 .. r.len - 1 : r.data[DQ!At(r, i)] \in Elements

-----------------------------------------------------------------------------
(* The remainder of a number less than twice the divisor.                   *)
LEMMA Wraps ==
  ASSUME NEW c \in Nat \ {0}, NEW a \in Nat, a < c + c
  PROVE  a % c = IF a < c THEN a ELSE a - c
<1>1. CASE a < c
  <2>1. 0 \in Int /\ a \in Int /\ c \in Int /\ 0 < c /\ a = 0 * c + a /\ 0 <= a
    OBVIOUS
  <2>2. a % c = a
    BY <1>1, <2>1, HSP!DivisionUnique
  <2>. QED
    BY <1>1, <2>2
<1>2. CASE a >= c
  <2>1. /\ 1 \in Int /\ a \in Int /\ c \in Int /\ a - c \in Int
        /\ 0 < c /\ a = 1 * c + (a - c) /\ 0 <= a - c /\ a - c < c
    BY <1>2
  <2>2. a % c = a - c
    BY <2>1, HSP!DivisionUnique
  <2>. QED
    BY <1>2, <2>2
<1>. QED
  BY <1>1, <1>2

(* Where the places of a ring are.                                          *)
LEMMA Places ==
  ASSUME NEW r, Shaped(r), r.capacity # 0, NEW i \in 0 .. r.capacity - 1
  PROVE  /\ DQ!At(r, i) = IF r.front + i < r.capacity THEN r.front + i
                       ELSE (r.front + i) - r.capacity
         /\ DQ!At(r, i) \in 0 .. r.capacity - 1
<1>1. /\ r.capacity \in Nat \ {0} /\ r.front + i \in Nat
      /\ r.front + i < r.capacity + r.capacity
  BY DEF Shaped
<1>2. (r.front + i) % r.capacity
        = IF r.front + i < r.capacity THEN r.front + i ELSE (r.front + i) - r.capacity
  <2>. DEFINE a == r.front + i
              c == r.capacity
  <2>1. a \in Nat /\ c \in Nat \ {0} /\ a < c + c
    BY <1>1
  <2>. HIDE DEF a, c
  <2>2. a % c = IF a < c THEN a ELSE a - c
    BY <2>1, Wraps
  <2>. QED
    BY <2>2 DEF a, c
<1>. QED
  BY <1>1, <1>2 DEF DQ!At

(* The content of a ring.                                                   *)
LEMMA Contents ==
  ASSUME NEW r, Ring(r)
  PROVE  /\ DQ!Content(r) \in Seq(Elements)
         /\ Len(DQ!Content(r)) = r.len
         /\ \A i \in 1 .. r.len : DQ!Content(r)[i] = r.data[DQ!At(r, i - 1)]
<1>1. r.len \in Nat
  BY DEF Ring, Shaped
<1>2. \A i \in 1 .. r.len : r.data[DQ!At(r, i - 1)] \in Elements
  <2>1. \A i \in 1 .. r.len : i - 1 \in 0 .. r.len - 1
    BY <1>1
  <2>. QED
    BY <2>1 DEF Ring
<1>3. DQ!Content(r) \in [1 .. r.len -> Elements]
  BY <1>2 DEF DQ!Content
<1>4. DQ!Content(r) \in Seq(Elements)
  BY <1>1, <1>3, SeqDef
<1>5. Len(DQ!Content(r)) = r.len
  BY <1>1, <1>3, <1>4, LenProperties
<1>. QED
  BY <1>4, <1>5 DEF DQ!Content

(* A ring's content is a sequence with the same members in the same order.  *)
LEMMA ContentIs ==
  ASSUME NEW r, Ring(r), NEW s \in Seq(Elements), Len(s) = r.len,
         \A i \in 0 .. r.len - 1 : r.data[DQ!At(r, i)] = s[i + 1]
  PROVE  DQ!Content(r) = s
<1>1. /\ DQ!Content(r) \in Seq(Elements) /\ Len(DQ!Content(r)) = r.len
      /\ \A i \in 1 .. r.len : DQ!Content(r)[i] = r.data[DQ!At(r, i - 1)]
  BY Contents
<1>2. ASSUME NEW i \in 1 .. r.len PROVE DQ!Content(r)[i] = s[i]
  <2>1. i - 1 \in 0 .. r.len - 1 /\ (i - 1) + 1 = i
    BY DEF Ring, Shaped
  <2>. QED
    BY <1>1, <2>1
<1>. QED
  BY <1>1, <1>2, SeqEqual

-----------------------------------------------------------------------------
(* A ring with room for one more holds what the ring held.                  *)
LEMMA RoomKeeps ==
  ASSUME NEW r, Ring(r)
  PROVE  /\ Ring(DQ!Room(r))
         /\ DQ!Room(r).len = r.len
         /\ DQ!Room(r).len < DQ!Room(r).capacity
         /\ DQ!Content(DQ!Room(r)) = DQ!Content(r)
<1>1. /\ r.capacity \in Nat /\ r.len \in 0 .. r.capacity /\ r.front \in Nat
      /\ r.data \in [0 .. r.capacity - 1 -> Elements \cup {None}]
      /\ r.capacity # 0 => r.front < r.capacity
      /\ RingCapacities[1] \in Nat \ {0}
  BY TablesAssumption DEF Ring, Shaped
<1>2. CASE r.len < r.capacity
  BY <1>1, <1>2 DEF DQ!Room
<1>3. CASE ~(r.len < r.capacity)
  <2>. DEFINE c == IF r.capacity = 0 THEN RingCapacities[1] ELSE 2 * r.capacity
              t == [data |-> [i \in 0 .. c - 1 |-> IF i < r.len THEN r.data[DQ!At(r, i)] ELSE None],
                    front |-> 0, len |-> r.len, capacity |-> c]
  <2>1. DQ!Room(r) = t
    BY <1>1, <1>3 DEF DQ!Room, DQ!Grown
  <2>2. c \in Nat \ {0} /\ r.len < c /\ r.len \in Nat
    BY <1>1, <1>3
  <2>3. \A i \in 0 .. r.len - 1 : r.data[DQ!At(r, i)] \in Elements
    BY DEF Ring
  <2>. HIDE DEF c
  <2>4. Shaped(t)
    <3>1. t.data \in [0 .. c - 1 -> Elements \cup {None}]
      BY <2>2, <2>3
    <3>2. /\ t.front = 0 /\ t.len = r.len /\ t.capacity = c
          /\ t = [data |-> t.data, front |-> t.front, len |-> t.len, capacity |-> t.capacity]
      OBVIOUS
    <3>. HIDE DEF t
    <3>. QED
      BY <3>1, <3>2, <2>2 DEF Shaped
  <2>5. /\ t.len = r.len /\ t.capacity = c /\ t.front = 0
        /\ \A i \in 0 .. c - 1 : t.data[i] = IF i < r.len THEN r.data[DQ!At(r, i)] ELSE None
    OBVIOUS
  <2>. HIDE DEF t
  <2>6. \A i \in 0 .. r.len - 1 : t.data[DQ!At(t, i)] = r.data[DQ!At(r, i)]
    <3>1. SUFFICES ASSUME NEW i \in 0 .. r.len - 1 PROVE t.data[DQ!At(t, i)] = r.data[DQ!At(r, i)]
      OBVIOUS
    <3>2. i \in 0 .. t.capacity - 1 /\ i \in 0 .. c - 1 /\ i < r.len
      BY <2>2, <2>5
    <3>3. DQ!At(t, i) = i
      BY <2>2, <2>4, <2>5, <3>2, Places
    <3>. QED
      BY <2>5, <3>2, <3>3
  <2>7. Ring(t)
    BY <2>3, <2>4, <2>5, <2>6 DEF Ring
  <2>8. DQ!Content(t) = DQ!Content(r)
    <3>1. \A i \in 0 .. r.len - 1 : r.data[DQ!At(r, i)] = DQ!Content(r)[i + 1]
      <4>1. \A i \in 0 .. r.len - 1 : i + 1 \in 1 .. r.len /\ (i + 1) - 1 = i
        BY <2>2
      <4>. QED
        BY <4>1, Contents
    <3>. QED
      BY <2>5, <2>6, <2>7, <3>1, Contents, ContentIs
  <2>. QED
    BY <2>1, <2>2, <2>5, <2>7, <2>8
<1>. QED
  BY <1>2, <1>3

-----------------------------------------------------------------------------
\* The four changes of a ring.
PushedBack(r, v) == [r EXCEPT !.data[DQ!At(r, r.len)] = v, !.len = @ + 1]
PushedFront(r, v) ==
    LET front == (r.front + r.capacity - 1) % r.capacity
    IN  [r EXCEPT !.front = front, !.data[front] = v, !.len = @ + 1]
PoppedBack(r) == [r EXCEPT !.len = @ - 1]
PoppedFront(r) == [r EXCEPT !.front = (@ + 1) % r.capacity, !.len = @ - 1]

LEMMA PushBackAppends ==
  ASSUME NEW r, Ring(r), r.len < r.capacity, NEW v \in Elements
  PROVE  /\ Ring(PushedBack(r, v))
         /\ DQ!Content(PushedBack(r, v)) = Append(DQ!Content(r), v)
<1>. DEFINE t == PushedBack(r, v)
            k == DQ!At(r, r.len)
            n == r.len
<1>1. /\ r.capacity \in Nat /\ n \in 0 .. r.capacity /\ r.front \in Nat
      /\ r.data \in [0 .. r.capacity - 1 -> Elements \cup {None}]
      /\ r.capacity # 0 => r.front < r.capacity
      /\ r = [data |-> r.data, front |-> r.front, len |-> r.len, capacity |-> r.capacity]
      /\ Shaped(r)
  BY DEF Ring, Shaped
<1>2. \A i \in 0 .. r.capacity - 1 :
        /\ DQ!At(r, i) = IF r.front + i < r.capacity THEN r.front + i
                      ELSE (r.front + i) - r.capacity
        /\ DQ!At(r, i) \in 0 .. r.capacity - 1
  BY <1>1, Places
<1>3. n \in 0 .. r.capacity - 1 /\ k \in 0 .. r.capacity - 1
  BY <1>1, <1>2
<1>4. \A i \in 0 .. n - 1 : DQ!At(r, i) # k /\ DQ!At(r, i) \in 0 .. r.capacity - 1
  BY <1>1, <1>2, <1>3
<1>5. t = [data |-> [r.data EXCEPT ![k] = v], front |-> r.front, len |-> n + 1,
           capacity |-> r.capacity]
  <2>. DEFINE d == [r EXCEPT !.data[k] = v]
  <2>1. t = [d EXCEPT !.len = n + 1]
    BY DEF PushedBack
  <2>2. d = [data |-> [r.data EXCEPT ![k] = v], front |-> r.front, len |-> r.len,
             capacity |-> r.capacity]
    <3>. HIDE DEF k
    <3>. QED
      BY <1>1
  <2>. HIDE DEF d, t, k
  <2>. QED
    BY <2>1, <2>2
<1>. HIDE DEF k, t
<1>6. /\ t.front = r.front /\ t.len = n + 1 /\ t.capacity = r.capacity
      /\ t.data \in [0 .. r.capacity - 1 -> Elements \cup {None}]
      /\ t.data[k] = v
      /\ \A i \in 0 .. r.capacity - 1 : i # k => t.data[i] = r.data[i]
      /\ t = [data |-> t.data, front |-> t.front, len |-> t.len, capacity |-> t.capacity]
  BY <1>1, <1>3, <1>5
<1>7. Shaped(t)
  BY <1>1, <1>3, <1>6 DEF Shaped
<1>8. \A i : DQ!At(t, i) = DQ!At(r, i)
  BY <1>6 DEF DQ!At
<1>9. \A i \in 0 .. n - 1 : t.data[DQ!At(t, i)] = r.data[DQ!At(r, i)]
  BY <1>4, <1>6, <1>8
<1>10. t.data[DQ!At(t, n)] = v
  BY <1>6, <1>8 DEF k
<1>11. \A i \in 0 .. t.len - 1 : i \in 0 .. n - 1 \/ i = n
  BY <1>1, <1>6
<1>12. Ring(t)
  BY <1>7, <1>9, <1>10, <1>11 DEF Ring
<1>13. /\ DQ!Content(r) \in Seq(Elements) /\ Len(DQ!Content(r)) = n
       /\ \A i \in 1 .. n : DQ!Content(r)[i] = r.data[DQ!At(r, i - 1)]
  BY Contents
<1>. DEFINE s == Append(DQ!Content(r), v)
<1>14. /\ s \in Seq(Elements) /\ Len(s) = n + 1
       /\ \A i \in 1 .. n : s[i] = DQ!Content(r)[i]
       /\ s[n + 1] = v
  BY <1>13, AppendProperties
<1>. HIDE DEF s, n
<1>15. ASSUME NEW i \in 0 .. t.len - 1 PROVE t.data[DQ!At(t, i)] = s[i + 1]
  <2>1. CASE i \in 0 .. n - 1
    <3>1. i + 1 \in 1 .. n /\ (i + 1) - 1 = i
      BY <1>1, <2>1
    <3>. QED
      BY <2>1, <3>1, <1>9, <1>13, <1>14
  <2>2. CASE i = n
    BY <2>2, <1>10, <1>14
  <2>. QED
    BY <2>1, <2>2, <1>11
<1>16. DQ!Content(t) = s
  BY <1>6, <1>12, <1>14, <1>15, ContentIs
<1>. QED
  BY <1>12, <1>16 DEF s, t

LEMMA PushFrontPrepends ==
  ASSUME NEW r, Ring(r), r.len < r.capacity, NEW v \in Elements
  PROVE  /\ Ring(PushedFront(r, v))
         /\ DQ!Content(PushedFront(r, v)) = <<v>> \o DQ!Content(r)
<1>. DEFINE t == PushedFront(r, v)
            k == (r.front + r.capacity - 1) % r.capacity
            n == r.len
            c == r.capacity
<1>1. /\ c \in Nat /\ n \in 0 .. c /\ r.front \in Nat /\ n < c
      /\ r.data \in [0 .. c - 1 -> Elements \cup {None}]
      /\ r.front < c
      /\ r = [data |-> r.data, front |-> r.front, len |-> r.len, capacity |-> r.capacity]
      /\ Shaped(r)
  BY DEF Ring, Shaped
<1>2. k = (IF r.front = 0 THEN c - 1 ELSE r.front - 1)
  <2>. DEFINE a == r.front + c - 1
  <2>1. c \in Nat \ {0} /\ a \in Nat /\ a < c + c
    BY <1>1
  <2>2. k = a % c
    OBVIOUS
  <2>3. (IF a < c THEN a ELSE a - c) = (IF r.front = 0 THEN c - 1 ELSE r.front - 1)
    BY <1>1
  <2>. HIDE DEF a, c, k
  <2>4. a % c = IF a < c THEN a ELSE a - c
    BY <2>1, Wraps
  <2>. QED
    BY <2>2, <2>3, <2>4
<1>3. t = [data |-> [r.data EXCEPT ![k] = v], front |-> k, len |-> n + 1,
           capacity |-> r.capacity]
  <2>. DEFINE f == [r EXCEPT !.front = k]
              d == [f EXCEPT !.data[k] = v]
  <2>1. t = [d EXCEPT !.len = n + 1]
    BY DEF PushedFront
  <2>. HIDE DEF k
  <2>2. f = [data |-> r.data, front |-> k, len |-> r.len, capacity |-> r.capacity]
    BY <1>1
  <2>. HIDE DEF f
  <2>3. d = [data |-> [r.data EXCEPT ![k] = v], front |-> k, len |-> r.len,
             capacity |-> r.capacity]
    BY <2>2
  <2>. HIDE DEF d, t
  <2>. QED
    BY <2>1, <2>3
<1>4. \A i \in 0 .. c - 1 :
        /\ DQ!At(r, i) = IF r.front + i < c THEN r.front + i ELSE (r.front + i) - c
        /\ DQ!At(r, i) \in 0 .. c - 1
  BY <1>1, Places
<1>. HIDE DEF k, t
<1>5. k \in 0 .. c - 1
  BY <1>1, <1>2
<1>6. /\ t.front = k /\ t.len = n + 1 /\ t.capacity = c
      /\ t.data \in [0 .. c - 1 -> Elements \cup {None}]
      /\ t.data[k] = v
      /\ \A i \in 0 .. c - 1 : i # k => t.data[i] = r.data[i]
      /\ t = [data |-> t.data, front |-> t.front, len |-> t.len, capacity |-> t.capacity]
  BY <1>1, <1>3, <1>5
<1>7. Shaped(t)
  BY <1>1, <1>5, <1>6 DEF Shaped
<1>8. \A i \in 0 .. c - 1 :
        /\ DQ!At(t, i) = IF k + i < c THEN k + i ELSE (k + i) - c
        /\ DQ!At(t, i) \in 0 .. c - 1
  BY <1>1, <1>6, <1>7, Places
<1>. HIDE DEF c, n
<1>9. DQ!At(t, 0) = k
  BY <1>1, <1>5, <1>8
<1>10. \A i \in 0 .. n - 1 : i + 1 \in 0 .. c - 1 /\ i \in 0 .. c - 1
  BY <1>1
<1>11. \A i \in 0 .. n - 1 : DQ!At(t, i + 1) = DQ!At(r, i) /\ DQ!At(r, i) # k
  <2>1. SUFFICES ASSUME NEW i \in 0 .. n - 1 PROVE DQ!At(t, i + 1) = DQ!At(r, i) /\ DQ!At(r, i) # k
    OBVIOUS
  <2>2. DQ!At(t, i + 1) = IF k + (i + 1) < c THEN k + (i + 1) ELSE (k + (i + 1)) - c
    BY <1>8, <1>10
  <2>3. DQ!At(r, i) = IF r.front + i < c THEN r.front + i ELSE (r.front + i) - c
    BY <1>4, <1>10
  <2>4. i \in Nat /\ i < n
    BY <1>1
  <2>. QED
    BY <1>1, <1>2, <2>2, <2>3, <2>4
<1>12. \A i \in 0 .. n - 1 : t.data[DQ!At(t, i + 1)] = r.data[DQ!At(r, i)]
  BY <1>4, <1>6, <1>10, <1>11
<1>13. \A i \in 0 .. t.len - 1 : i = 0 \/ i - 1 \in 0 .. n - 1
  BY <1>1, <1>6
<1>14. \A i \in 0 .. n - 1 : r.data[DQ!At(r, i)] \in Elements
  BY DEF Ring, n
<1>15. Ring(t)
  <2>1. ASSUME NEW i \in 0 .. t.len - 1, i - 1 \in 0 .. n - 1
        PROVE  t.data[DQ!At(t, i)] \in Elements
    <3>1. (i - 1) + 1 = i
      BY <1>1, <1>6
    <3>. QED
      BY <2>1, <3>1, <1>12, <1>14
  <2>. QED
    BY <1>6, <1>7, <1>9, <1>13, <2>1 DEF Ring
<1>16. /\ DQ!Content(r) \in Seq(Elements) /\ Len(DQ!Content(r)) = n
       /\ \A i \in 1 .. n : DQ!Content(r)[i] = r.data[DQ!At(r, i - 1)]
  BY Contents DEF n
<1>. DEFINE s == <<v>> \o DQ!Content(r)
<1>17. /\ s \in Seq(Elements) /\ Len(s) = n + 1 /\ s[1] = v
       /\ \A i \in 1 .. n : s[i + 1] = DQ!Content(r)[i]
  <2>1. <<v>> \in Seq(Elements) /\ Len(<<v>>) = 1 /\ <<v>>[1] = v
    OBVIOUS
  <2>2. /\ s \in Seq(Elements) /\ Len(s) = 1 + n
        /\ \A i \in 1 .. 1 + n : s[i] = IF i <= 1 THEN <<v>>[i] ELSE DQ!Content(r)[i - 1]
    BY <1>16, <2>1, ConcatProperties
  <2>. HIDE DEF s
  <2>3. \A i \in 1 .. n : i + 1 \in 1 .. 1 + n /\ ~(i + 1 <= 1) /\ (i + 1) - 1 = i
    BY <1>1
  <2>4. 1 \in 1 .. 1 + n
    BY <1>1
  <2>. QED
    BY <1>1, <2>1, <2>2, <2>3, <2>4, SMTT(60)
<1>. HIDE DEF s
<1>18. ASSUME NEW i \in 0 .. t.len - 1 PROVE t.data[DQ!At(t, i)] = s[i + 1]
  <2>1. CASE i = 0
    BY <2>1, <1>6, <1>9, <1>17
  <2>2. CASE i - 1 \in 0 .. n - 1
    <3>1. i \in 1 .. n /\ (i - 1) + 1 = i
      BY <1>1, <1>6, <2>2
    <3>. QED
      BY <2>2, <3>1, <1>12, <1>16, <1>17
  <2>. QED
    BY <2>1, <2>2, <1>13
<1>19. DQ!Content(t) = s
  BY <1>6, <1>15, <1>17, <1>18, ContentIs
<1>. QED
  BY <1>15, <1>19 DEF s, t

LEMMA PopBackDrops ==
  ASSUME NEW r, Ring(r), r.len # 0
  PROVE  /\ Ring(PoppedBack(r))
         /\ DQ!Content(PoppedBack(r)) = SubSeq(DQ!Content(r), 1, Len(DQ!Content(r)) - 1)
         /\ r.data[DQ!At(r, r.len - 1)] = DQ!Content(r)[Len(DQ!Content(r))]
<1>. DEFINE t == PoppedBack(r)
            n == r.len
<1>1. /\ r.capacity \in Nat /\ n \in 0 .. r.capacity /\ n # 0
      /\ r = [data |-> r.data, front |-> r.front, len |-> n, capacity |-> r.capacity]
      /\ Shaped(r)
      /\ \A i \in 0 .. n - 1 : r.data[DQ!At(r, i)] \in Elements
  BY DEF Ring, Shaped
<1>2. t = [data |-> r.data, front |-> r.front, len |-> n - 1, capacity |-> r.capacity]
  BY <1>1 DEF PoppedBack
<1>3. /\ t.data = r.data /\ t.front = r.front /\ t.len = n - 1 /\ t.capacity = r.capacity
      /\ t = [data |-> t.data, front |-> t.front, len |-> t.len, capacity |-> t.capacity]
  BY <1>2
<1>. HIDE DEF t
<1>4. \A i : DQ!At(t, i) = DQ!At(r, i)
  BY <1>3 DEF DQ!At
<1>5. Shaped(t)
  BY <1>1, <1>3 DEF Shaped
<1>6. \A i \in 0 .. t.len - 1 : i \in 0 .. n - 1 /\ i + 1 \in 1 .. n - 1 /\ (i + 1) - 1 = i
  BY <1>1, <1>3
<1>7. Ring(t)
  BY <1>1, <1>3, <1>4, <1>5, <1>6 DEF Ring
<1>8. /\ DQ!Content(r) \in Seq(Elements) /\ Len(DQ!Content(r)) = n
      /\ \A i \in 1 .. n : DQ!Content(r)[i] = r.data[DQ!At(r, i - 1)]
  BY Contents
<1>. DEFINE s == SubSeq(DQ!Content(r), 1, n - 1)
<1>9. /\ s \in Seq(Elements) /\ Len(s) = n - 1
      /\ \A i \in 1 .. n - 1 : s[i] = DQ!Content(r)[i]
  <2>1. \A i \in 1 .. n - 1 : DQ!Content(r)[i] \in Elements
    <3>1. \A i \in 1 .. n - 1 : i \in 1 .. Len(DQ!Content(r))
      BY <1>1, <1>8
    <3>. QED
      BY <1>8, <3>1, ElementOfSeq
  <2>2. /\ s \in Seq(Elements)
        /\ Len(s) = IF 1 <= n - 1 THEN (n - 1) - 1 + 1 ELSE 0
        /\ \A i \in 1 .. (n - 1) - 1 + 1 : s[i] = DQ!Content(r)[1 + i - 1]
    <3>1. 1 \in Int /\ n - 1 \in Int
      BY <1>1
    <3>. QED
      BY <2>1, <3>1, SubSeqProperties
  <2>. HIDE DEF s
  <2>3. (n - 1) - 1 + 1 = n - 1 /\ \A i \in 1 .. n - 1 : 1 + i - 1 = i
    BY <1>1
  <2>. QED
    BY <1>1, <2>2, <2>3
<1>. HIDE DEF s, n
<1>10. \A i \in 0 .. t.len - 1 : t.data[DQ!At(t, i)] = s[i + 1]
  <2>1. SUFFICES ASSUME NEW i \in 0 .. t.len - 1 PROVE t.data[DQ!At(t, i)] = s[i + 1]
    OBVIOUS
  <2>2. i + 1 \in 1 .. n - 1 /\ i + 1 \in 1 .. n /\ (i + 1) - 1 = i
    BY <1>1, <1>6
  <2>. QED
    BY <2>2, <1>3, <1>4, <1>8, <1>9
<1>11. DQ!Content(t) = s
  BY <1>3, <1>7, <1>9, <1>10, ContentIs
<1>12. r.data[DQ!At(r, n - 1)] = DQ!Content(r)[n]
  <2>1. n \in 1 .. n
    BY <1>1
  <2>. QED
    BY <2>1, <1>8
<1>. QED
  BY <1>7, <1>8, <1>11, <1>12 DEF s, t, n

LEMMA PopFrontDrops ==
  ASSUME NEW r, Ring(r), r.len # 0
  PROVE  /\ Ring(PoppedFront(r))
         /\ DQ!Content(PoppedFront(r)) = Tail(DQ!Content(r))
         /\ r.data[r.front] = Head(DQ!Content(r))
<1>. DEFINE t == PoppedFront(r)
            n == r.len
            c == r.capacity
            k == (r.front + 1) % c
<1>1. /\ c \in Nat /\ n \in 0 .. c /\ n # 0 /\ c # 0
      /\ r.front \in Nat /\ r.front < c
      /\ r = [data |-> r.data, front |-> r.front, len |-> n, capacity |-> c]
      /\ Shaped(r)
      /\ r.data \in [0 .. c - 1 -> Elements \cup {None}]
      /\ \A i \in 0 .. n - 1 : r.data[DQ!At(r, i)] \in Elements
  BY DEF Ring, Shaped
<1>2. k = IF r.front + 1 < c THEN r.front + 1 ELSE 0
  <2>. DEFINE a == r.front + 1
  <2>1. c \in Nat \ {0} /\ a \in Nat /\ a < c + c
    BY <1>1
  <2>2. (IF a < c THEN a ELSE a - c) = (IF r.front + 1 < c THEN r.front + 1 ELSE 0)
    BY <1>1
  <2>3. k = a % c
    OBVIOUS
  <2>. HIDE DEF a, c, k
  <2>4. a % c = IF a < c THEN a ELSE a - c
    BY <2>1, Wraps
  <2>. QED
    BY <2>2, <2>3, <2>4
<1>3. t = [data |-> r.data, front |-> k, len |-> n - 1, capacity |-> c]
  <2>. DEFINE f == [r EXCEPT !.front = k]
  <2>1. t = [f EXCEPT !.len = n - 1]
    BY DEF PoppedFront
  <2>. HIDE DEF k
  <2>2. f = [data |-> r.data, front |-> k, len |-> n, capacity |-> c]
    BY <1>1
  <2>. HIDE DEF f, t
  <2>. QED
    BY <2>1, <2>2
<1>. HIDE DEF k
<1>4. /\ t.data = r.data /\ t.front = k /\ t.len = n - 1 /\ t.capacity = c
      /\ t = [data |-> t.data, front |-> t.front, len |-> t.len, capacity |-> t.capacity]
  BY <1>3
<1>. HIDE DEF t
<1>5. Shaped(t)
  BY <1>1, <1>2, <1>4 DEF Shaped
<1>6. \A i \in 0 .. c - 1 :
        /\ DQ!At(r, i) = IF r.front + i < c THEN r.front + i ELSE (r.front + i) - c
        /\ DQ!At(t, i) = IF k + i < c THEN k + i ELSE (k + i) - c
  <2>1. \A i \in 0 .. c - 1 :
          DQ!At(r, i) = IF r.front + i < c THEN r.front + i ELSE (r.front + i) - c
    BY <1>1, Places
  <2>2. \A i \in 0 .. c - 1 :
          DQ!At(t, i) = IF k + i < c THEN k + i ELSE (k + i) - c
    BY <1>1, <1>4, <1>5, Places
  <2>. QED
    BY <2>1, <2>2
<1>. HIDE DEF c, n
<1>7. \A i \in 0 .. n - 2 : /\ DQ!At(t, i) = DQ!At(r, i + 1) /\ i + 1 \in 0 .. n - 1
                             /\ i + 1 \in 1 .. n - 1 /\ i + 2 \in 1 .. n
                             /\ (i + 2) - 1 = i + 1
  <2>1. SUFFICES ASSUME NEW i \in 0 .. n - 2 PROVE DQ!At(t, i) = DQ!At(r, i + 1)
    BY <1>1
  <2>2. i \in 0 .. c - 1 /\ i + 1 \in 0 .. c - 1 /\ i \in Nat
    BY <1>1
  <2>3. DQ!At(t, i) = IF k + i < c THEN k + i ELSE (k + i) - c
    BY <1>6, <2>2
  <2>4. DQ!At(r, i + 1) = IF r.front + (i + 1) < c THEN r.front + (i + 1)
                       ELSE (r.front + (i + 1)) - c
    BY <1>6, <2>2
  <2>. QED
    BY <1>1, <1>2, <2>2, <2>3, <2>4, SMTT(60)
<1>8. \A i \in 0 .. t.len - 1 : i \in 0 .. n - 2
  BY <1>1, <1>4
<1>9. Ring(t)
  BY <1>1, <1>4, <1>5, <1>7, <1>8 DEF Ring
<1>10. /\ DQ!Content(r) \in Seq(Elements) /\ Len(DQ!Content(r)) = n
       /\ \A i \in 1 .. n : DQ!Content(r)[i] = r.data[DQ!At(r, i - 1)]
  BY Contents DEF n
<1>. DEFINE s == Tail(DQ!Content(r))
<1>11. /\ s \in Seq(Elements) /\ Len(s) = n - 1
       /\ \A i \in 1 .. n - 1 : s[i] = DQ!Content(r)[i + 1]
  <2>1. DQ!Content(r) # <<>>
    BY <1>1, <1>10
  <2>. QED
    BY <1>10, <2>1, HeadTailProperties
<1>. HIDE DEF s
<1>12. ASSUME NEW i \in 0 .. t.len - 1 PROVE t.data[DQ!At(t, i)] = s[i + 1]
  <2>1. i \in 0 .. n - 2
    BY <1>8
  <2>2. s[i + 1] = DQ!Content(r)[(i + 1) + 1] /\ (i + 1) + 1 = i + 2
    BY <1>7, <1>11, <2>1
  <2>3. DQ!Content(r)[i + 2] = r.data[DQ!At(r, i + 1)]
    BY <1>7, <1>10, <2>1
  <2>. QED
    BY <1>4, <1>7, <2>1, <2>2, <2>3
<1>13. DQ!Content(t) = s
  BY <1>4, <1>9, <1>11, <1>12, ContentIs
<1>14. r.data[r.front] = Head(DQ!Content(r))
  <2>1. 1 \in 1 .. n /\ 1 - 1 = 0 /\ 0 \in 0 .. c - 1
    BY <1>1
  <2>2. DQ!At(r, 0) = r.front
    BY <1>1, <1>6, <2>1
  <2>3. DQ!Content(r)[1] = r.data[r.front]
    BY <1>10, <2>1, <2>2
  <2>. QED
    BY <2>3, <1>10
<1>. QED
  BY <1>9, <1>13, <1>14 DEF s, t

LEMMA NewIsEmpty == Ring(DQ!New) /\ DQ!Content(DQ!New) = <<>>
<1>1. 0 .. 0 - 1 = {}
  OBVIOUS
<1>2. Shaped(DQ!New)
  <2>1. DQ!New.data \in [0 .. 0 - 1 -> Elements \cup {None}]
    BY <1>1 DEF DQ!New
  <2>. QED
    BY <2>1 DEF DQ!New, Shaped
<1>3. DQ!New.len = 0
  BY DEF DQ!New
<1>4. Ring(DQ!New)
  BY <1>1, <1>2, <1>3 DEF Ring
<1>5. DQ!Content(DQ!New) \in Seq(Elements) /\ Len(DQ!Content(DQ!New)) = 0
  BY <1>3, <1>4, Contents
<1>. QED
  BY <1>4, <1>5, EmptySeq

(* The hash set in Tables and in the proofs about it are the same, and so   *)
(* are the hash map, and the union-find.                                    *)
LEMMA SameSet ==
  /\ HS!Init <=> HSP!Init
  /\ HS!Next <=> HSP!Next
  /\ HSP!TypeOK /\ HSP!WalksEnd /\ HSP!LookupsAgree
       => HS!TypeOK /\ HS!WalksEnd /\ HS!LookupsAgree
  /\ \A t : HS!Content(t) = HSP!Content(t)
<1>1. /\ \A c : HS!Fresh(c) = HSP!Fresh(c)
      /\ \A t, k, v : HS!InsertRaw(t, k, v) = HSP!InsertRaw(t, k, v)
      /\ \A t : HS!Full(t) = HSP!Full(t)
      /\ \A t, k : HS!Member(t, k) = HSP!Member(t, k)
      /\ \A t, k : HS!Walk(t, k) = HSP!Walk(t, k)
      /\ \A t, k : HS!Stops(t, k) = HSP!Stops(t, k)
      /\ \A t, k, v : HS!Placed(t, k, v) = HSP!Placed(t, k, v)
      /\ \A t : HS!Content(t) = HSP!Content(t)
      /\ \A t, tag : HS!Filled(t, tag) = HSP!Filled(t, tag)
  BY DEF HS!Fresh, HSP!Fresh, HS!InsertRaw, HSP!InsertRaw, HS!Store, HSP!Store,
         HS!Probe, HSP!Probe, HS!First, HSP!First, HS!Full, HSP!Full,
         HS!Holds, HSP!Holds, HS!Stops, HSP!Stops, HS!Walk, HSP!Walk, HS!Tombs, HSP!Tombs,
         HS!Member, HSP!Member, HS!Placed, HSP!Placed, HS!Content, HSP!Content,
         HS!Filled, HSP!Filled
<1>2. \A t, f : HS!Moved(t, f) = HSP!Moved(t, f)
  BY DEF HS!Moved, HSP!Moved, HS!InsertRaw, HSP!InsertRaw, HS!Store, HSP!Store,
         HS!Probe, HSP!Probe, HS!First, HSP!First
<1>3. /\ \A t : HS!Room(t) = HSP!Room(t)
      /\ \A t, k : HS!Get(t, k) = HSP!Get(t, k)
      /\ \A t, k : HS!Removed(t, k) = HSP!Removed(t, k)
  BY <1>1, <1>2 DEF HS!Room, HSP!Room, HS!Grown, HSP!Grown, HS!Get, HSP!Get,
     HS!Removed, HSP!Removed
<1>4. HS!Next <=> HSP!Next
  BY <1>1, <1>3 DEF HS!Next, HSP!Next, HS!Add, HSP!Add, HS!Put, HSP!Put,
     HS!Discard, HSP!Discard, HS!Take, HSP!Take, HS!Clear, HSP!Clear,
     HS!WithinBound, HSP!WithinBound, HS!Returns, HSP!Returns
<1>5. HS!Init <=> HSP!Init
  BY <1>1 DEF HS!Init, HSP!Init
<1>6. HSP!TypeOK /\ HSP!WalksEnd /\ HSP!LookupsAgree
       => HS!TypeOK /\ HS!WalksEnd /\ HS!LookupsAgree
  BY <1>1, <1>3 DEF HS!TypeOK, HSP!TypeOK, HS!WalksEnd, HSP!WalksEnd,
     HS!LookupsAgree, HSP!LookupsAgree, HS!Tags, HSP!Tags, HS!Cardinality, HSP!Cardinality
<1>. QED
  BY <1>1, <1>4, <1>5, <1>6

LEMMA SameMap ==
  /\ HM!Init <=> HMP!Init
  /\ HM!Next <=> HMP!Next
  /\ HMP!TypeOK /\ HMP!WalksEnd /\ HMP!LookupsAgree
       => HM!TypeOK /\ HM!WalksEnd /\ HM!LookupsAgree
  /\ \A t : HM!Content(t) = HMP!Content(t)
<1>1. /\ \A c : HM!Fresh(c) = HMP!Fresh(c)
      /\ \A t, k, v : HM!InsertRaw(t, k, v) = HMP!InsertRaw(t, k, v)
      /\ \A t : HM!Full(t) = HMP!Full(t)
      /\ \A t, k : HM!Member(t, k) = HMP!Member(t, k)
      /\ \A t, k : HM!Walk(t, k) = HMP!Walk(t, k)
      /\ \A t, k : HM!Stops(t, k) = HMP!Stops(t, k)
      /\ \A t, k, v : HM!Placed(t, k, v) = HMP!Placed(t, k, v)
      /\ \A t : HM!Content(t) = HMP!Content(t)
      /\ \A t, tag : HM!Filled(t, tag) = HMP!Filled(t, tag)
  BY DEF HM!Fresh, HMP!Fresh, HM!InsertRaw, HMP!InsertRaw, HM!Store, HMP!Store,
         HM!Probe, HMP!Probe, HM!First, HMP!First, HM!Full, HMP!Full,
         HM!Holds, HMP!Holds, HM!Stops, HMP!Stops, HM!Walk, HMP!Walk, HM!Tombs, HMP!Tombs,
         HM!Member, HMP!Member, HM!Placed, HMP!Placed, HM!Content, HMP!Content,
         HM!Filled, HMP!Filled
<1>2. \A t, f : HM!Moved(t, f) = HMP!Moved(t, f)
  BY DEF HM!Moved, HMP!Moved, HM!InsertRaw, HMP!InsertRaw, HM!Store, HMP!Store,
         HM!Probe, HMP!Probe, HM!First, HMP!First
<1>3. /\ \A t : HM!Room(t) = HMP!Room(t)
      /\ \A t, k : HM!Get(t, k) = HMP!Get(t, k)
      /\ \A t, k : HM!Removed(t, k) = HMP!Removed(t, k)
  BY <1>1, <1>2 DEF HM!Room, HMP!Room, HM!Grown, HMP!Grown, HM!Get, HMP!Get,
     HM!Removed, HMP!Removed
<1>4. HM!Next <=> HMP!Next
  BY <1>1, <1>3 DEF HM!Next, HMP!Next, HM!Add, HMP!Add, HM!Put, HMP!Put,
     HM!Discard, HMP!Discard, HM!Take, HMP!Take, HM!Clear, HMP!Clear,
     HM!WithinBound, HMP!WithinBound, HM!Returns, HMP!Returns
<1>5. HM!Init <=> HMP!Init
  BY <1>1 DEF HM!Init, HMP!Init
<1>6. HMP!TypeOK /\ HMP!WalksEnd /\ HMP!LookupsAgree
       => HM!TypeOK /\ HM!WalksEnd /\ HM!LookupsAgree
  BY <1>1, <1>3 DEF HM!TypeOK, HMP!TypeOK, HM!WalksEnd, HMP!WalksEnd,
     HM!LookupsAgree, HMP!LookupsAgree, HM!Tags, HMP!Tags, HM!Cardinality, HMP!Cardinality
<1>. QED
  BY <1>1, <1>4, <1>5, <1>6

-----------------------------------------------------------------------------
(* The union-find.  A forest of parent links is Ranked when ranks grow along *)
(* every link.  In a ranked forest the path up from an element comes to its  *)
(* root in less than N steps (PathEnds), so that Root is what its recursive  *)
(* reading says (Roots), and a map that is constant along the links and      *)
(* fixes the roots is Root (RootsKnown): this is how compression is shown to *)
(* leave every root and a union to change those of one set.                  *)
Forests == [parent : [UF!Elems -> UF!Elems], rank : [UF!Elems -> 0 .. N - 1], sets : Int]

\* Ranks grow along the links.
Climbs(u) ==
    \A x \in UF!Elems : u.parent[x] # x => u.rank[x] < u.rank[u.parent[x]]
Ranked(u) == u \in Forests /\ Climbs(u)

-----------------------------------------------------------------------------
(* The path up from an element is the function its equation describes.      *)
LEMMA PathIs ==
  ASSUME N \in Nat \ {0}, NEW u, u.parent \in [UF!Elems -> UF!Elems], NEW x \in UF!Elems
  PROVE  /\ UF!Path(u, x) \in [0 .. N -> UF!Elems]
         /\ UF!Path(u, x)[0] = x
         /\ \A n \in Nat : n < N => UF!Path(u, x)[n + 1] = u.parent[UF!Path(u, x)[n]]
<1>. DEFINE Up(g, k) == g = [n \in 0 .. k |-> IF n = 0 THEN x ELSE u.parent[g[n - 1]]]
            Built == {k \in Nat : \E g : Up(g, k) /\ g \in [0 .. k -> UF!Elems]}
<1>1. 0 \in Built
  <2>. DEFINE g == [n \in 0 .. 0 |-> x]
  <2>1. g = [n \in 0 .. 0 |-> IF n = 0 THEN x ELSE u.parent[g[n - 1]]]
    OBVIOUS
  <2>2. g \in [0 .. 0 -> UF!Elems]
    OBVIOUS
  <2>. QED
    BY <2>1, <2>2
<1>2. ASSUME NEW k \in Nat, k \in Built PROVE k + 1 \in Built
  <2>1. PICK g : Up(g, k) /\ g \in [0 .. k -> UF!Elems]
    BY <1>2
  <2>. DEFINE h == [n \in 0 .. k + 1 |-> IF n <= k THEN g[n] ELSE u.parent[g[k]]]
  <2>2. h \in [0 .. k + 1 -> UF!Elems]
    BY <2>1
  <2>3. \A n \in 0 .. k : h[n] = g[n]
    OBVIOUS
  <2>4. h[k + 1] = u.parent[g[k]]
    OBVIOUS
  <2>5. \A n \in 0 .. k + 1 : h[n] = IF n = 0 THEN x ELSE u.parent[h[n - 1]]
    <3>1. ASSUME NEW n \in 0 .. k PROVE h[n] = IF n = 0 THEN x ELSE u.parent[h[n - 1]]
      <4>1. g[n] = IF n = 0 THEN x ELSE u.parent[g[n - 1]]
        BY <2>1
      <4>2. n # 0 => n - 1 \in 0 .. k
        OBVIOUS
      <4>. HIDE DEF h
      <4>. QED
        BY <4>1, <4>2, <2>3
    <3>2. h[k + 1] = u.parent[h[k + 1 - 1]] /\ k + 1 # 0
      <4>1. k + 1 - 1 = k /\ k \in 0 .. k /\ k + 1 # 0
        OBVIOUS
      <4>. HIDE DEF h
      <4>. QED
        BY <4>1, <2>3, <2>4
    <3>3. \A n \in 0 .. k + 1 : n \in 0 .. k \/ n = k + 1
      OBVIOUS
    <3>. HIDE DEF h
    <3>. QED
      BY <3>1, <3>2, <3>3
  <2>6. Up(h, k + 1)
    <3>1. h = [n \in 0 .. k + 1 |-> h[n]]
      OBVIOUS
    <3>. HIDE DEF h
    <3>. QED
      BY <3>1, <2>5
  <2>. HIDE DEF h, Up
  <2>. QED
    BY <2>2, <2>6
<1>3. N \in Built
  <2>. HIDE DEF Built
  <2>1. \A n \in 0 .. N : n \in Built
    BY <1>1, <1>2, HSP!UpTo
  <2>. QED
    BY <2>1
<1>4. Up(UF!Path(u, x), N)
  <2>1. \E g : Up(g, N)
    <3>. HIDE DEF Up
    <3>. QED
      BY <1>3
  <2>2. UF!Path(u, x) = CHOOSE g : Up(g, N)
    BY DEF UF!Path
  <2>. HIDE DEF Up
  <2>. QED
    BY <2>1, <2>2
<1>5. PICK g : Up(g, N) /\ g \in [0 .. N -> UF!Elems]
  BY <1>3
<1>. DEFINE p == UF!Path(u, x)
<1>6. /\ p[0] = x
      /\ \A n \in Nat : n < N => p[n + 1] = u.parent[p[n]]
  <2>1. p = [n \in 0 .. N |-> IF n = 0 THEN x ELSE u.parent[p[n - 1]]]
    BY <1>4
  <2>. HIDE DEF p
  <2>2. p[0] = x
    BY <2>1
  <2>3. ASSUME NEW n \in Nat, n < N PROVE p[n + 1] = u.parent[p[n]]
    <3>1. n + 1 \in 0 .. N /\ n + 1 # 0 /\ (n + 1) - 1 = n
      BY <2>3
    <3>. QED
      BY <2>1, <3>1
  <2>. QED
    BY <2>2, <2>3
<1>7. \A n \in 0 .. N : n \in {m \in Nat : p[m] \in UF!Elems}
  <2>. HIDE DEF p
  <2>. DEFINE S == {m \in Nat : p[m] \in UF!Elems}
  <2>1. 0 \in S
    BY <1>6
  <2>2. \A n \in Nat : n < N /\ n \in S => n + 1 \in S
    BY <1>6
  <2>. HIDE DEF S
  <2>3. \A n \in 0 .. N : n \in S
    BY <2>1, <2>2, HSP!UpTo
  <2>. QED
    BY <2>3 DEF S
<1>8. p \in [0 .. N -> UF!Elems]
  <2>1. p = [n \in 0 .. N |-> IF n = 0 THEN x ELSE u.parent[p[n - 1]]]
    BY <1>4
  <2>2. p = [n \in 0 .. N |-> p[n]]
    <3>. HIDE DEF p
    <3>1. DOMAIN p = 0 .. N /\ p = [n \in DOMAIN p |-> p[n]]
      BY <2>1
    <3>. QED
      BY <3>1
  <2>. HIDE DEF p
  <2>. QED
    BY <2>2, <1>7
<1>. QED
  BY <1>6, <1>8

LEMMA RankedPath ==
  ASSUME N \in Nat \ {0}, NEW u, Ranked(u), NEW x \in UF!Elems
  PROVE  /\ UF!Path(u, x) \in [0 .. N -> UF!Elems]
         /\ UF!Path(u, x)[0] = x
         /\ \A n \in Nat : n < N => UF!Path(u, x)[n + 1] = u.parent[UF!Path(u, x)[n]]
<1>1. u.parent \in [UF!Elems -> UF!Elems]
  BY DEF Ranked, Forests
<1>. QED
  BY <1>1, PathIs

(* In a ranked forest the path comes to a root before its last step.        *)
LEMMA PathEnds ==
  ASSUME N \in Nat \ {0}, NEW u, Ranked(u), NEW x \in UF!Elems
  PROVE  \E m \in 0 .. N - 1 : u.parent[UF!Path(u, x)[m]] = UF!Path(u, x)[m]
<1>. DEFINE p == UF!Path(u, x)
            Ended(n) == \E m \in 0 .. n - 1 : u.parent[p[m]] = p[m]
            S == {n \in Nat : u.rank[p[n]] >= n \/ Ended(n)}
<1>1. /\ p \in [0 .. N -> UF!Elems]
      /\ p[0] = x
      /\ \A n \in Nat : n < N => p[n + 1] = u.parent[p[n]]
  BY RankedPath
<1>2. u.parent \in [UF!Elems -> UF!Elems] /\ u.rank \in [UF!Elems -> 0 .. N - 1] /\ Climbs(u)
  BY DEF Ranked, Forests
<1>. HIDE DEF p
<1>3. 0 \in S
  BY <1>1, <1>2
<1>4. ASSUME NEW n \in Nat, n < N, n \in S PROVE n + 1 \in S
  <2>1. p[n] \in UF!Elems /\ p[n + 1] = u.parent[p[n]] /\ p[n + 1] \in UF!Elems
    <3>1. n \in 0 .. N /\ n + 1 \in 0 .. N
      BY <1>4
    <3>. QED
      BY <1>1, <1>4, <3>1
  <2>2. CASE Ended(n)
    BY <2>2
  <2>3. CASE u.parent[p[n]] = p[n]
    BY <2>3
  <2>4. CASE u.rank[p[n]] >= n /\ u.parent[p[n]] # p[n]
    <3>1. u.rank[p[n]] < u.rank[p[n + 1]]
      BY <2>1, <2>4, <1>2 DEF Climbs
    <3>2. u.rank[p[n]] \in Int /\ u.rank[p[n + 1]] \in Int
      BY <2>1, <1>2
    <3>3. u.rank[p[n + 1]] >= n + 1
      BY <3>1, <3>2, <2>4
    <3>. QED
      BY <3>3
  <2>. HIDE DEF Ended
  <2>. QED
    BY <2>2, <2>3, <2>4, <1>4
<1>5. N \in S
  <2>. HIDE DEF S
  <2>1. \A n \in 0 .. N : n \in S
    BY <1>3, <1>4, HSP!UpTo
  <2>. QED
    BY <2>1
<1>6. u.rank[p[N]] \in 0 .. N - 1
  BY <1>1, <1>2
<1>7. Ended(N)
  <2>. HIDE DEF Ended
  <2>. QED
    BY <1>5, <1>6
<1>. QED
  BY <1>7 DEF p

(* A map that is constant along the links and fixes the roots is Root.      *)
LEMMA RootsKnown ==
  ASSUME N \in Nat \ {0}, NEW u, Ranked(u), NEW F,
         \A y \in UF!Elems : F[u.parent[y]] = F[y] /\ (u.parent[y] = y => F[y] = y)
  PROVE  \A x \in UF!Elems :
            /\ UF!Root(u, x) = F[x]
            /\ \A y \in UF!Above(u, x) : y \in UF!Elems /\ F[y] = F[x]
            /\ \E y \in UF!Above(u, x) : u.parent[y] = y
<1>. SUFFICES ASSUME NEW x \in UF!Elems
              PROVE  /\ UF!Root(u, x) = F[x]
                     /\ \A y \in UF!Above(u, x) : y \in UF!Elems /\ F[y] = F[x]
                     /\ \E y \in UF!Above(u, x) : u.parent[y] = y
  OBVIOUS
<1>. DEFINE p == UF!Path(u, x)
<1>1. /\ p \in [0 .. N -> UF!Elems]
      /\ p[0] = x
      /\ \A n \in Nat : n < N => p[n + 1] = u.parent[p[n]]
  BY RankedPath
<1>2. UF!Above(u, x) = {p[n] : n \in 0 .. N}
  BY DEF UF!Above
<1>3. \E m \in 0 .. N - 1 : u.parent[p[m]] = p[m]
  BY PathEnds
<1>. HIDE DEF p
<1>. DEFINE S == {n \in Nat : F[p[n]] = F[x]}
<1>4. 0 \in S
  BY <1>1
<1>5. ASSUME NEW n \in Nat, n < N, n \in S PROVE n + 1 \in S
  <2>1. n \in 0 .. N
    BY <1>5
  <2>. QED
    BY <2>1, <1>1, <1>5
<1>6. \A n \in 0 .. N : n \in S
  <2>. HIDE DEF S
  <2>. QED
    BY <1>4, <1>5, HSP!UpTo
<1>7. \A y \in UF!Above(u, x) : y \in UF!Elems /\ F[y] = F[x]
  BY <1>1, <1>2, <1>6
<1>8. \E y \in UF!Above(u, x) : u.parent[y] = y
  BY <1>2, <1>3
<1>9. UF!Root(u, x) = CHOOSE r \in UF!Above(u, x) : u.parent[r] = r
  BY DEF UF!Root
<1>10. UF!Root(u, x) \in UF!Above(u, x) /\ u.parent[UF!Root(u, x)] = UF!Root(u, x)
  BY <1>8, <1>9
<1>. QED
  BY <1>7, <1>8, <1>10

(* The path stays at the root it came to.                                   *)
LEMMA PathStays ==
  ASSUME N \in Nat \ {0}, NEW u, Ranked(u), NEW x \in UF!Elems, NEW m \in 0 .. N,
         u.parent[UF!Path(u, x)[m]] = UF!Path(u, x)[m]
  PROVE  \A n \in m .. N : UF!Path(u, x)[n] = UF!Path(u, x)[m]
<1>. DEFINE p == UF!Path(u, x)
            S == {n \in Nat : m + n <= N => p[m + n] = p[m]}
<1>1. \A n \in Nat : n < N => p[n + 1] = u.parent[p[n]]
  BY RankedPath
<1>2. u.parent[p[m]] = p[m]
  OBVIOUS
<1>. HIDE DEF p
<1>3. 0 \in S
  <2>1. m + 0 = m
    OBVIOUS
  <2>. QED
    BY <2>1
<1>4. ASSUME NEW n \in Nat, n < N, n \in S PROVE n + 1 \in S
  <2>1. SUFFICES ASSUME m + (n + 1) <= N PROVE p[m + (n + 1)] = p[m]
    OBVIOUS
  <2>2. m + n \in Nat /\ m + n < N /\ m + (n + 1) = (m + n) + 1
    BY <2>1
  <2>. QED
    BY <1>1, <1>2, <1>4, <2>2
<1>5. \A n \in 0 .. N : n \in S
  <2>. HIDE DEF S
  <2>. QED
    BY <1>3, <1>4, HSP!UpTo
<1>6. ASSUME NEW n \in m .. N PROVE p[n] = p[m]
  <2>1. n - m \in 0 .. N /\ m + (n - m) = n /\ n <= N
    OBVIOUS
  <2>. QED
    BY <1>5, <2>1
<1>. QED
  BY <1>6 DEF p

(* A root on the path up from an element is the root of the element.        *)
LEMMA RootOnPath ==
  ASSUME N \in Nat \ {0}, NEW u, Ranked(u), NEW x \in UF!Elems
  PROVE  /\ \E n \in 0 .. N : UF!Root(u, x) = UF!Path(u, x)[n]
         /\ u.parent[UF!Root(u, x)] = UF!Root(u, x)
         /\ \A m \in 0 .. N : u.parent[UF!Path(u, x)[m]] = UF!Path(u, x)[m]
                               => UF!Root(u, x) = UF!Path(u, x)[m]
<1>1. UF!Root(u, x) \in UF!Above(u, x) /\ u.parent[UF!Root(u, x)] = UF!Root(u, x)
  <2>1. \E r \in UF!Above(u, x) : u.parent[r] = r
    <3>1. PICK m \in 0 .. N - 1 : u.parent[UF!Path(u, x)[m]] = UF!Path(u, x)[m]
      BY PathEnds
    <3>. QED
      BY <3>1 DEF UF!Above
  <2>. QED
    BY <2>1 DEF UF!Root
<1>2. PICK n \in 0 .. N : UF!Root(u, x) = UF!Path(u, x)[n]
  BY <1>1 DEF UF!Above
<1>3. u.parent[UF!Path(u, x)[n]] = UF!Path(u, x)[n]
  BY <1>1, <1>2
<1>4. ASSUME NEW m \in 0 .. N, u.parent[UF!Path(u, x)[m]] = UF!Path(u, x)[m]
      PROVE  UF!Root(u, x) = UF!Path(u, x)[m]
  <2>1. CASE n <= m
    <3>1. m \in n .. N
      BY <2>1
    <3>. QED
      BY <3>1, <1>2, <1>3, PathStays
  <2>2. CASE m <= n
    <3>1. n \in m .. N
      BY <2>2
    <3>. QED
      BY <3>1, <1>2, <1>4, PathStays
  <2>. QED
    BY <2>1, <2>2
<1>. QED
  BY <1>1, <1>2, <1>4

(* The root of an element: every walk up from the element ends there, and   *)
(* so does every walk from its parent.                                      *)
LEMMA Roots ==
  ASSUME N \in Nat \ {0}, NEW u, Ranked(u), NEW x \in UF!Elems
  PROVE  /\ UF!Root(u, x) \in UF!Elems
         /\ u.parent[UF!Root(u, x)] = UF!Root(u, x)
         /\ u.parent[x] = x => UF!Root(u, x) = x
         /\ UF!Root(u, u.parent[x]) = UF!Root(u, x)
<1>1. u.parent \in [UF!Elems -> UF!Elems]
  BY DEF Ranked, Forests
<1>2. /\ \E n \in 0 .. N : UF!Root(u, x) = UF!Path(u, x)[n]
      /\ u.parent[UF!Root(u, x)] = UF!Root(u, x)
  BY RootOnPath
<1>3. ASSUME NEW m \in 0 .. N, u.parent[UF!Path(u, x)[m]] = UF!Path(u, x)[m]
      PROVE  UF!Root(u, x) = UF!Path(u, x)[m]
  BY <1>3, RootOnPath
<1>4. /\ UF!Path(u, x) \in [0 .. N -> UF!Elems]
      /\ UF!Path(u, x)[0] = x
      /\ \A n \in Nat : n < N => UF!Path(u, x)[n + 1] = u.parent[UF!Path(u, x)[n]]
  BY RankedPath
<1>5. UF!Root(u, x) \in UF!Elems
  BY <1>2, <1>4
<1>6. u.parent[x] = x => UF!Root(u, x) = x
  <2>1. 0 \in 0 .. N
    OBVIOUS
  <2>. QED
    BY <2>1, <1>3, <1>4
<1>7. UF!Root(u, u.parent[x]) = UF!Root(u, x)
  <2>. DEFINE w == u.parent[x]
  <2>1. w \in UF!Elems
    BY <1>1
  <2>. HIDE DEF w
  <2>. DEFINE q == UF!Path(u, w)
              p == UF!Path(u, x)
  <2>2. /\ q[0] = w
        /\ \A n \in Nat : n < N => q[n + 1] = u.parent[q[n]]
    BY <2>1, RankedPath
  <2>3. p[0] = x /\ \A n \in Nat : n < N => p[n + 1] = u.parent[p[n]]
    BY <1>4
  <2>4. PICK m \in 0 .. N - 1 : u.parent[q[m]] = q[m]
    BY <2>1, PathEnds
  <2>5. UF!Root(u, w) = q[m]
    <3>1. m \in 0 .. N
      OBVIOUS
    <3>. QED
      BY <2>1, <2>4, <3>1, RootOnPath
  <2>. HIDE DEF q, p
  <2>. DEFINE S == {n \in Nat : n < N => q[n] = p[n + 1]}
  <2>6. 0 \in S
    BY <2>2, <2>3 DEF w
  <2>7. ASSUME NEW n \in Nat, n < N, n \in S PROVE n + 1 \in S
    <3>1. SUFFICES ASSUME n + 1 < N PROVE q[n + 1] = p[(n + 1) + 1]
      OBVIOUS
    <3>2. n + 1 \in Nat
      OBVIOUS
    <3>. QED
      BY <2>7, <3>1, <3>2, <2>2, <2>3
  <2>8. \A n \in 0 .. N : n \in S
    <3>. HIDE DEF S
    <3>. QED
      BY <2>6, <2>7, HSP!UpTo
  <2>9. q[m] = p[m + 1] /\ m + 1 \in 0 .. N
    BY <2>8
  <2>10. UF!Root(u, x) = p[m + 1]
    BY <2>4, <2>9, <1>3 DEF p
  <2>. QED
    BY <2>5, <2>9, <2>10 DEF w
<1>. QED
  BY <1>2, <1>4, <1>5, <1>6, <1>7


(* Ranks grow along a path up to its root, and the elements of the path     *)
(* share the root.                                                          *)
LEMMA Upward ==
  ASSUME N \in Nat \ {0}, NEW u, Ranked(u), NEW x \in UF!Elems
  PROVE  /\ \A y \in UF!Above(u, x) : y \in UF!Elems /\ UF!Root(u, y) = UF!Root(u, x)
         /\ x # UF!Root(u, x) => u.rank[x] < u.rank[UF!Root(u, x)]
<1>1. \A y \in UF!Above(u, x) : y \in UF!Elems /\ UF!Root(u, y) = UF!Root(u, x)
  <2>. DEFINE F == [y \in UF!Elems |-> UF!Root(u, y)]
  <2>1. u.parent \in [UF!Elems -> UF!Elems]
    BY DEF Ranked, Forests
  <2>2. ASSUME NEW y \in UF!Elems
        PROVE  F[u.parent[y]] = F[y] /\ (u.parent[y] = y => F[y] = y)
    <3>1. u.parent[y] \in UF!Elems
      BY <2>1
    <3>. QED
      BY <3>1, Roots
  <2>3. \A y \in UF!Above(u, x) : y \in UF!Elems /\ F[y] = F[x]
    <3>. HIDE DEF F
    <3>. QED
      BY <2>2, RootsKnown
  <2>. QED
    BY <2>3
<1>2. x # UF!Root(u, x) => u.rank[x] < u.rank[UF!Root(u, x)]
  <2>. DEFINE p == UF!Path(u, x)
  <2>1. /\ p \in [0 .. N -> UF!Elems]
        /\ p[0] = x
        /\ \A n \in Nat : n < N => p[n + 1] = u.parent[p[n]]
    BY RankedPath
  <2>2. PICK m \in 0 .. N : UF!Root(u, x) = p[m]
    BY RootOnPath
  <2>3. /\ u.parent \in [UF!Elems -> UF!Elems] /\ u.rank \in [UF!Elems -> 0 .. N - 1]
        /\ Climbs(u)
    BY DEF Ranked, Forests
  <2>. HIDE DEF p
  <2>. DEFINE S == {n \in Nat : p[n] = x \/ u.rank[x] < u.rank[p[n]]}
  <2>4. 0 \in S
    BY <2>1
  <2>5. ASSUME NEW n \in Nat, n < N, n \in S PROVE n + 1 \in S
    <3>1. n \in 0 .. N /\ p[n] \in UF!Elems /\ p[n + 1] = u.parent[p[n]]
      BY <2>1, <2>5
    <3>2. u.rank[x] \in Int /\ u.rank[p[n]] \in Int /\ u.rank[p[n + 1]] \in Int
      BY <2>3, <3>1
    <3>3. p[n + 1] # p[n] => u.rank[p[n]] < u.rank[p[n + 1]]
      BY <2>3, <3>1 DEF Climbs
    <3>. QED
      BY <2>5, <3>2, <3>3
  <2>6. m \in S
    <3>. HIDE DEF S
    <3>. QED
      BY <2>4, <2>5, HSP!UpTo
  <2>. QED
    BY <2>2, <2>6
<1>. QED
  BY <1>1, <1>2

(* find leaves every root and every rank as it was.                         *)
LEMMA CompressedKeeps ==
  ASSUME N \in Nat \ {0}, NEW u, Ranked(u), NEW x
  PROVE  /\ Ranked(UF!Compressed(u, x))
         /\ UF!Compressed(u, x).rank = u.rank
         /\ UF!Compressed(u, x).sets = u.sets
         /\ \A y \in UF!Elems : UF!Root(UF!Compressed(u, x), y) = UF!Root(u, y)
<1>1. CASE x \notin UF!Elems
  BY <1>1 DEF UF!Compressed
<1>2. CASE x \in UF!Elems
  <2>. DEFINE v == UF!Compressed(u, x)
              A == UF!Above(u, x)
              r == UF!Root(u, x)
              F == [y \in UF!Elems |-> UF!Root(u, y)]
  <2>1. /\ u \in Forests /\ u.parent \in [UF!Elems -> UF!Elems]
        /\ u.rank \in [UF!Elems -> 0 .. N - 1] /\ Climbs(u)
    BY DEF Ranked, Forests
  <2>2. /\ \A y \in A : y \in UF!Elems /\ UF!Root(u, y) = r
        /\ r \in UF!Elems
    BY <1>2, Upward, Roots
  <2>3. v = [u EXCEPT !.parent = [y \in UF!Elems |-> IF y \in A THEN r ELSE u.parent[y]]]
    BY <1>2 DEF UF!Compressed
  <2>. HIDE DEF A, r, v
  <2>4. /\ v \in Forests
        /\ v.rank = u.rank /\ v.sets = u.sets
        /\ \A y \in UF!Elems : v.parent[y] = IF y \in A THEN r ELSE u.parent[y]
    BY <2>1, <2>2, <2>3 DEF Forests
  <2>5. ASSUME NEW y \in UF!Elems, v.parent[y] # y PROVE v.rank[y] < v.rank[v.parent[y]]
    <3>1. CASE y \in A
      <4>1. v.parent[y] = UF!Root(u, y) /\ y # UF!Root(u, y)
        BY <2>2, <2>4, <2>5, <3>1
      <4>. QED
        BY <2>4, <4>1, Upward
    <3>2. CASE y \notin A
      BY <2>1, <2>4, <2>5, <3>2 DEF Climbs
    <3>. QED
      BY <3>1, <3>2
  <2>6. Ranked(v)
    BY <2>4, <2>5 DEF Ranked, Climbs
  <2>7. ASSUME NEW y \in UF!Elems
        PROVE  F[v.parent[y]] = F[y] /\ (v.parent[y] = y => F[y] = y)
    <3>1. CASE y \in A
      <4>1. v.parent[y] = r /\ UF!Root(u, y) = r
        BY <2>2, <2>4, <3>1
      <4>2. UF!Root(u, r) = r
        BY <1>2, <2>2, Roots DEF r
      <4>. QED
        BY <2>2, <4>1, <4>2
    <3>2. CASE y \notin A
      <4>1. v.parent[y] = u.parent[y] /\ u.parent[y] \in UF!Elems
        BY <2>1, <2>4, <3>2
      <4>. QED
        BY <4>1, Roots
    <3>. QED
      BY <3>1, <3>2
  <2>8. \A y \in UF!Elems : UF!Root(v, y) = F[y]
    <3>. HIDE DEF F
    <3>. QED
      BY <2>6, <2>7, RootsKnown
  <2>. QED
    BY <2>4, <2>6, <2>8 DEF v
<1>. QED
  BY <1>1, <1>2

-----------------------------------------------------------------------------
\* Every rank below one in use is in use.
Filled(u) ==
    \A x \in UF!Elems : \A k \in 0 .. u.rank[x] : \E y \in UF!Elems : u.rank[y] = k

(* So no rank reaches the number of elements.                               *)
LEMMA RankBound ==
  ASSUME N \in Nat \ {0}, NEW u, u.rank \in [UF!Elems -> Nat], Filled(u)
  PROVE  u.rank \in [UF!Elems -> 0 .. N - 1]
<1>1. SUFFICES ASSUME NEW x \in UF!Elems PROVE u.rank[x] < N
  OBVIOUS
<1>. DEFINE r == u.rank[x]
            f == [k \in 0 .. r |-> CHOOSE y \in UF!Elems : u.rank[y] = k]
<1>2. r \in Nat
  OBVIOUS
<1>3. \A k \in 0 .. r : f[k] \in UF!Elems /\ u.rank[f[k]] = k
  <2>1. \A k \in 0 .. r : \E y \in UF!Elems : u.rank[y] = k
    BY DEF Filled
  <2>. QED
    BY <2>1
<1>4. f \in Injection(0 .. r, UF!Elems)
  <2>1. f \in [0 .. r -> UF!Elems]
    BY <1>3
  <2>. HIDE DEF f
  <2>. QED
    BY <1>3, <2>1 DEF Injection, IsInjective
<1>5. IsFiniteSet(UF!Elems) /\ Cardinality(UF!Elems) = N
  <2>1. 0 \in Int /\ N - 1 \in Int
    OBVIOUS
  <2>. QED
    BY <2>1, FS_Interval DEF UF!Elems
<1>6. Cardinality(0 .. r) = r + 1
  <2>1. 0 \in Int /\ r \in Int
    BY <1>2
  <2>. HIDE DEF r
  <2>2. Cardinality(0 .. r) = IF 0 > r THEN 0 ELSE r - 0 + 1
    BY <2>1, FS_Interval
  <2>. QED
    BY <1>2, <2>2
<1>7. Cardinality(0 .. r) <= Cardinality(UF!Elems)
  <2>. HIDE DEF f, r
  <2>. QED
    BY <1>4, <1>5, FS_Injection
<1>. QED
  BY <1>2, <1>5, <1>6, <1>7

\* A root is linked below another of no smaller rank.
Linked(u, v, lower, upper) ==
    /\ u.parent[lower] = lower /\ u.parent[upper] = upper
    /\ u.rank[lower] <= u.rank[upper]
    /\ v \in [parent : [UF!Elems -> UF!Elems], rank : [UF!Elems -> Nat], sets : Int]
    /\ v.parent = [u.parent EXCEPT ![lower] = upper]
    /\ v.rank = IF u.rank[lower] = u.rank[upper]
                THEN [u.rank EXCEPT ![upper] = @ + 1] ELSE u.rank

(* Such a link keeps the forest ranked and gives its elements a new root.   *)
LEMMA LinkedRoots ==
  ASSUME N \in Nat \ {0}, NEW u, Ranked(u), Filled(u), NEW v,
         NEW lower \in UF!Elems, NEW upper \in UF!Elems, lower # upper,
         Linked(u, v, lower, upper)
  PROVE  /\ Ranked(v) /\ Filled(v)
         /\ \A y \in UF!Elems :
               UF!Root(v, y) = IF UF!Root(u, y) = lower THEN upper ELSE UF!Root(u, y)
<1>. USE DEF Linked
<1>1. /\ u.parent \in [UF!Elems -> UF!Elems] /\ u.rank \in [UF!Elems -> 0 .. N - 1]
      /\ \A x \in UF!Elems : u.parent[x] # x => u.rank[x] < u.rank[u.parent[x]]
  BY DEF Ranked, Forests, Climbs
<1>2. /\ v.rank \in [UF!Elems -> Nat] /\ v.parent \in [UF!Elems -> UF!Elems]
      /\ \A x \in UF!Elems : v.parent[x] = IF x = lower THEN upper ELSE u.parent[x]
  BY <1>1
<1>3. \A x \in UF!Elems :
        v.rank[x] = IF x = upper /\ u.rank[lower] = u.rank[upper] THEN u.rank[x] + 1
                    ELSE u.rank[x]
  BY <1>1
<1>4. Filled(v)
  <2>1. SUFFICES ASSUME NEW x \in UF!Elems, NEW k \in 0 .. v.rank[x]
                 PROVE  \E y \in UF!Elems : v.rank[y] = k
    BY DEF Filled
  <2>2. k \in Nat /\ k <= v.rank[x] /\ u.rank[x] \in Nat /\ v.rank[x] \in Nat
    BY <1>1, <1>2
  <2>3. CASE k = v.rank[x]
    BY <2>3
  <2>4. CASE k # v.rank[x]
    <3>1. k \in 0 .. u.rank[x]
      BY <2>2, <2>4, <1>3
    <3>2. PICK y \in UF!Elems : u.rank[y] = k
      BY <3>1 DEF Filled
    <3>3. CASE y # upper \/ u.rank[lower] # u.rank[upper]
      BY <3>2, <3>3, <1>3
    <3>4. CASE y = upper /\ u.rank[lower] = u.rank[upper]
      <4>1. v.rank[lower] = k
        BY <3>2, <3>4, <1>3
      <4>. QED
        BY <4>1
    <3>. QED
      BY <3>3, <3>4
  <2>. QED
    BY <2>3, <2>4
<1>5. v \in Forests
  <2>1. v.rank \in [UF!Elems -> 0 .. N - 1]
    BY <1>2, <1>4, RankBound
  <2>. QED
    BY <1>2, <2>1 DEF Forests
<1>6. ASSUME NEW x \in UF!Elems, v.parent[x] # x PROVE v.rank[x] < v.rank[v.parent[x]]
  <2>1. CASE x = lower
    <3>1. v.parent[x] = upper
      BY <2>1, <1>2
    <3>2. u.rank[lower] \in Nat /\ u.rank[upper] \in Nat
      BY <1>1
    <3>. QED
      BY <3>1, <3>2, <2>1, <1>3
  <2>2. CASE x # lower
    <3>1. v.parent[x] = u.parent[x] /\ u.parent[x] # x /\ u.parent[x] \in UF!Elems
      BY <2>2, <1>1, <1>2, <1>6
    <3>2. x # upper /\ v.rank[x] = u.rank[x]
      BY <3>1, <1>3
    <3>3. u.rank[x] < u.rank[u.parent[x]]
      BY <3>1, <1>1
    <3>4. u.rank[x] \in Nat /\ u.rank[u.parent[x]] \in Nat
      BY <3>1, <1>1
    <3>. QED
      BY <3>1, <3>2, <3>3, <3>4, <1>3
  <2>. QED
    BY <2>1, <2>2
<1>7. Ranked(v)
  BY <1>5, <1>6 DEF Ranked, Climbs
<1>. DEFINE F == [y \in UF!Elems |-> IF UF!Root(u, y) = lower THEN upper ELSE UF!Root(u, y)]
<1>8. ASSUME NEW y \in UF!Elems
      PROVE  F[v.parent[y]] = F[y] /\ (v.parent[y] = y => F[y] = y)
  <2>1. /\ UF!Root(u, lower) = lower /\ UF!Root(u, upper) = upper
        /\ UF!Root(u, y) = UF!Root(u, u.parent[y]) /\ (u.parent[y] = y => UF!Root(u, y) = y)
    BY Roots
  <2>2. CASE y = lower
    <3>1. v.parent[y] = upper
      BY <2>2, <1>2
    <3>. QED
      BY <2>1, <2>2, <3>1
  <2>3. CASE y # lower
    <3>1. v.parent[y] = u.parent[y] /\ u.parent[y] \in UF!Elems
      BY <2>3, <1>1, <1>2
    <3>. QED
      BY <2>1, <2>3, <3>1
  <2>. QED
    BY <2>2, <2>3
<1>9. \A y \in UF!Elems : UF!Root(v, y) = F[y]
  <2>1. \A y \in UF!Elems : F[v.parent[y]] = F[y] /\ (v.parent[y] = y => F[y] = y)
    BY <1>8
  <2>. HIDE DEF F
  <2>2. N \in Nat \ {0} /\ Ranked(v)
    BY <1>7
  <2>. QED
    BY ONLY <2>1, <2>2, RootsKnown
<1>. QED
  BY <1>4, <1>7, <1>9

-----------------------------------------------------------------------------
BlockOf(u, x) == {y \in UF!Elems : UF!Root(u, y) = UF!Root(u, x)}
BlocksOf(u) == {BlockOf(u, x) : x \in UF!Elems}

LEMMA BlocksFinite ==
  ASSUME N \in Nat \ {0}, NEW u
  PROVE  IsFiniteSet(BlocksOf(u))
<1>. DEFINE f == [x \in UF!Elems |-> BlockOf(u, x)]
<1>1. f \in Surjection(UF!Elems, BlocksOf(u))
  BY DEF Surjection, BlocksOf
<1>2. IsFiniteSet(UF!Elems)
  <2>1. 0 \in Int /\ N - 1 \in Int
    OBVIOUS
  <2>. QED
    BY <2>1, FS_Interval DEF UF!Elems
<1>. HIDE DEF f
<1>. QED
  BY <1>1, <1>2, FS_Surjection

(* The sets follow the roots.                                               *)
LEMMA BlocksFollow ==
  ASSUME NEW u, NEW v, \A y \in UF!Elems : UF!Root(v, y) = UF!Root(u, y)
  PROVE  BlocksOf(v) = BlocksOf(u)
<1>1. \A x \in UF!Elems : BlockOf(v, x) = BlockOf(u, x)
  BY DEF BlockOf
<1>. QED
  BY <1>1 DEF BlocksOf

(* When one root gives way to another their two sets become one.            *)
LEMMA BlocksJoin ==
  ASSUME N \in Nat \ {0}, NEW u, NEW v, NEW a \in UF!Elems, NEW b \in UF!Elems,
         UF!Root(u, a) # UF!Root(u, b), NEW lower, NEW upper,
         \/ lower = UF!Root(u, a) /\ upper = UF!Root(u, b)
         \/ lower = UF!Root(u, b) /\ upper = UF!Root(u, a),
         \A y \in UF!Elems :
            UF!Root(v, y) = IF UF!Root(u, y) = lower THEN upper ELSE UF!Root(u, y)
  PROVE  /\ BlockOf(u, a) # BlockOf(u, b)
         /\ a \in BlockOf(u, a) /\ b \in BlockOf(u, b)
         /\ BlocksOf(v) = (BlocksOf(u) \ {BlockOf(u, a), BlockOf(u, b)})
                             \cup {BlockOf(u, a) \cup BlockOf(u, b)}
         /\ Cardinality(BlocksOf(v)) = Cardinality(BlocksOf(u)) - 1
<1>. DEFINE p == BlockOf(u, a)
            q == BlockOf(u, b)
<1>1. a \in p /\ b \in q /\ a \notin q /\ p # q
  BY DEF BlockOf
<1>2. ASSUME NEW x \in UF!Elems, UF!Root(u, x) \in {UF!Root(u, a), UF!Root(u, b)}
      PROVE  BlockOf(v, x) = p \cup q
  BY <1>2 DEF BlockOf
<1>3. ASSUME NEW x \in UF!Elems, UF!Root(u, x) \notin {UF!Root(u, a), UF!Root(u, b)}
      PROVE  BlockOf(v, x) = BlockOf(u, x) /\ BlockOf(u, x) \notin {p, q}
  <2>1. BlockOf(v, x) = BlockOf(u, x)
    BY <1>3 DEF BlockOf
  <2>2. x \in BlockOf(u, x) /\ x \notin p /\ x \notin q
    BY <1>3 DEF BlockOf
  <2>. QED
    BY <2>1, <2>2
<1>4. ASSUME NEW x \in UF!Elems, BlockOf(u, x) # p, BlockOf(u, x) # q
      PROVE  UF!Root(u, x) \notin {UF!Root(u, a), UF!Root(u, b)}
  BY <1>4 DEF BlockOf
<1>. HIDE DEF p, q
<1>5. BlocksOf(v) = (BlocksOf(u) \ {p, q}) \cup {p \cup q}
  <2>1. ASSUME NEW B \in BlocksOf(v) PROVE B \in (BlocksOf(u) \ {p, q}) \cup {p \cup q}
    <3>1. PICK x \in UF!Elems : B = BlockOf(v, x)
      BY <2>1 DEF BlocksOf
    <3>. QED
      BY <3>1, <1>2, <1>3 DEF BlocksOf
  <2>2. ASSUME NEW B \in BlocksOf(u) \ {p, q} PROVE B \in BlocksOf(v)
    <3>1. PICK x \in UF!Elems : B = BlockOf(u, x)
      BY <2>2 DEF BlocksOf
    <3>2. BlockOf(u, x) # p /\ BlockOf(u, x) # q
      BY <2>2, <3>1
    <3>4. UF!Root(u, x) \notin {UF!Root(u, a), UF!Root(u, b)}
      BY <3>2, <1>4
    <3>5. B = BlockOf(v, x)
      BY <3>1, <3>4, <1>3
    <3>. QED
      BY <3>5 DEF BlocksOf
  <2>3. p \cup q \in BlocksOf(v)
    <3>1. BlockOf(v, a) = p \cup q
      BY <1>2
    <3>. QED
      BY <3>1 DEF BlocksOf
  <2>. QED
    BY <2>1, <2>2, <2>3
<1>6. p \cup q \notin BlocksOf(u)
  <2>1. SUFFICES ASSUME NEW x \in UF!Elems, p \cup q = BlockOf(u, x) PROVE FALSE
    BY DEF BlocksOf
  <2>2. a \in BlockOf(u, x) /\ b \in BlockOf(u, x)
    BY <1>1, <2>1
  <2>. QED
    BY <2>2 DEF BlockOf
<1>7. p \in BlocksOf(u) /\ q \in BlocksOf(u)
  BY DEF BlocksOf, p, q
<1>. DEFINE B == BlocksOf(u)
            B1 == B \ {p}
            B2 == B1 \ {q}
<1>8. IsFiniteSet(B)
  BY BlocksFinite
<1>9. p \in B /\ q \in B /\ p \cup q \notin B
  BY <1>6, <1>7
<1>10. BlocksOf(v) = B2 \cup {p \cup q}
  BY <1>5
<1>. HIDE DEF B
<1>11. IsFiniteSet(B1) /\ Cardinality(B1) = Cardinality(B) - 1
  BY <1>8, <1>9, FS_RemoveElement
<1>12. q \in B1
  BY <1>1, <1>9
<1>. HIDE DEF B1
<1>13. IsFiniteSet(B2) /\ Cardinality(B2) = Cardinality(B1) - 1
  BY <1>11, <1>12, FS_RemoveElement
<1>14. p \cup q \notin B2
  BY <1>9 DEF B1
<1>. HIDE DEF B2
<1>15. Cardinality(B2 \cup {p \cup q}) = Cardinality(B2) + 1
  BY <1>13, <1>14, FS_AddElement
<1>16. Cardinality(B) \in Nat
  BY <1>8, FS_CardinalityType
<1>17. Cardinality(BlocksOf(v)) = Cardinality(BlocksOf(u)) - 1
  <2>1. Cardinality(BlocksOf(v)) = Cardinality(B) - 1
    BY <1>10, <1>11, <1>13, <1>15, <1>16
  <2>. QED
    BY <2>1 DEF B
<1>. QED
  BY <1>1, <1>5, <1>17 DEF p, q

-----------------------------------------------------------------------------
\* The inductive invariant.
Sound(u) ==
    /\ Ranked(u)
    /\ Filled(u)
    /\ u.sets = Cardinality(BlocksOf(u))

LEMMA CompressedSound ==
  ASSUME N \in Nat \ {0}, NEW u, Sound(u), NEW x
  PROVE  /\ Sound(UF!Compressed(u, x))
         /\ UF!Compressed(u, x).rank = u.rank
         /\ \A y \in UF!Elems : UF!Root(UF!Compressed(u, x), y) = UF!Root(u, y)
         /\ BlocksOf(UF!Compressed(u, x)) = BlocksOf(u)
<1>. DEFINE v == UF!Compressed(u, x)
<1>1. /\ Ranked(v) /\ v.rank = u.rank /\ v.sets = u.sets
      /\ \A y \in UF!Elems : UF!Root(v, y) = UF!Root(u, y)
  BY CompressedKeeps DEF Sound
<1>. HIDE DEF v
<1>2. BlocksOf(v) = BlocksOf(u)
  BY <1>1, BlocksFollow
<1>3. Filled(v)
  BY <1>1 DEF Sound, Filled
<1>4. Sound(v)
  BY <1>1, <1>2, <1>3 DEF Sound
<1>. QED
  BY <1>1, <1>2, <1>4 DEF v

LEMMA SingletonsSound ==
  ASSUME N \in Nat \ {0}
  PROVE  Sound(UF!Singletons) /\ BlocksOf(UF!Singletons) = {{x} : x \in UF!Elems}
<1>. DEFINE u == UF!Singletons
            F == [x \in UF!Elems |-> x]
<1>1. /\ u \in [parent : [UF!Elems -> UF!Elems], rank : [UF!Elems -> Nat], sets : Int]
      /\ u.sets = N
      /\ \A x \in UF!Elems : u.parent[x] = x /\ u.rank[x] = 0
  BY DEF UF!Singletons
<1>. HIDE DEF u
<1>2. Filled(u)
  <2>1. \A x \in UF!Elems : \A k \in 0 .. u.rank[x] : k = u.rank[x]
    BY <1>1
  <2>. QED
    BY <2>1 DEF Filled
<1>3. Ranked(u)
  <2>1. u.rank \in [UF!Elems -> 0 .. N - 1]
    BY <1>1, <1>2, RankBound
  <2>. QED
    BY <1>1, <2>1 DEF Ranked, Forests, Climbs
<1>4. \A x \in UF!Elems : UF!Root(u, x) = x
  <2>1. \A y \in UF!Elems : F[u.parent[y]] = F[y] /\ (u.parent[y] = y => F[y] = y)
    BY <1>1
  <2>2. \A x \in UF!Elems : F[x] = x
    OBVIOUS
  <2>. HIDE DEF F
  <2>. QED
    BY <1>3, <2>1, <2>2, RootsKnown
<1>5. BlocksOf(u) = {{x} : x \in UF!Elems}
  <2>1. \A x \in UF!Elems : BlockOf(u, x) = {x}
    BY <1>4 DEF BlockOf
  <2>. QED
    BY <2>1 DEF BlocksOf
<1>6. Cardinality(BlocksOf(u)) = N
  <2>. DEFINE f == [x \in UF!Elems |-> {x}]
  <2>1. f \in Bijection(UF!Elems, BlocksOf(u))
    BY <1>5 DEF Bijection, Injection, Surjection, IsInjective
  <2>2. ExistsBijection(UF!Elems, BlocksOf(u))
    <3>. HIDE DEF f
    <3>. QED
      BY <2>1 DEF ExistsBijection
  <2>3. IsFiniteSet(UF!Elems) /\ Cardinality(UF!Elems) = N
    <3>1. 0 \in Int /\ N - 1 \in Int
      OBVIOUS
    <3>. QED
      BY <3>1, FS_Interval DEF UF!Elems
  <2>. QED
    BY <2>2, <2>3, FS_Bijection
<1>. QED
  BY <1>1, <1>2, <1>3, <1>5, <1>6 DEF Sound, u

(* A union joins the two sets it was given, if they were two, and says so.  *)
LEMMA UnionStep ==
  ASSUME N \in Nat \ {0}, Sound(st), NEW a \in UF!Elems, NEW b \in UF!Elems, UF!Union(a, b)
  PROVE  Sound(st') /\ UF!JoinsOnlyThese
<1>. DEFINE u == UF!Compressed(UF!Compressed(st, a), b)
            ra == UF!Root(st, a)
            rb == UF!Root(st, b)
            lower == IF u.rank[ra] < u.rank[rb] THEN ra ELSE rb
            upper == IF lower = ra THEN rb ELSE ra
<1>1. /\ Sound(u) /\ u.rank = st.rank
      /\ \A y \in UF!Elems : UF!Root(u, y) = UF!Root(st, y)
      /\ BlocksOf(u) = BlocksOf(st)
  BY CompressedSound
<1>2. /\ st' = IF ra = rb THEN u
               ELSE [u EXCEPT !.parent[lower] = upper, !.sets = @ - 1,
                              !.rank[upper] = IF u.rank[ra] = u.rank[rb] THEN @ + 1 ELSE @]
      /\ out'.op = "union" /\ out'.arg = <<a, b>> /\ out'.result = (ra # rb)
  BY DEF UF!Union, UF!Returns
<1>3. UF!Blocks = BlocksOf(st) /\ UF!Blocks' = BlocksOf(st')
  BY DEF UF!Blocks, BlocksOf, BlockOf
<1>4. ra = UF!Root(u, a) /\ rb = UF!Root(u, b)
  BY <1>1
<1>5. /\ ra \in UF!Elems /\ rb \in UF!Elems
      /\ u.parent[ra] = ra /\ u.parent[rb] = rb
  <2>. HIDE DEF ra, rb, u
  <2>. QED
    BY <1>1, <1>4, Roots DEF Sound
<1>. HIDE DEF u, ra, rb
<1>6. CASE ra = rb
  BY <1>1, <1>2, <1>3, <1>6 DEF UF!JoinsOnlyThese
<1>7. CASE ra # rb
  <2>. DEFINE v == st'
  <2>1. /\ Ranked(u) /\ Filled(u) /\ u \in Forests
        /\ u.parent \in [UF!Elems -> UF!Elems] /\ u.rank \in [UF!Elems -> 0 .. N - 1]
    BY <1>1 DEF Sound, Ranked, Forests
  <2>2. /\ lower \in UF!Elems /\ upper \in UF!Elems /\ lower # upper
        /\ u.parent[lower] = lower /\ u.parent[upper] = upper
        /\ u.rank[lower] <= u.rank[upper]
        /\ u.rank[lower] = u.rank[upper] <=> u.rank[ra] = u.rank[rb]
        /\ \/ lower = ra /\ upper = rb
           \/ lower = rb /\ upper = ra
    BY <1>5, <1>7, <2>1
  <2>. HIDE DEF lower, upper
  <2>3. /\ v \in [parent : [UF!Elems -> UF!Elems], rank : [UF!Elems -> Nat], sets : Int]
        /\ v.parent = [u.parent EXCEPT ![lower] = upper]
        /\ v.rank = IF u.rank[lower] = u.rank[upper]
                    THEN [u.rank EXCEPT ![upper] = @ + 1] ELSE u.rank
        /\ v.sets = u.sets - 1
    <3>1. v = [u EXCEPT !.parent[lower] = upper, !.sets = @ - 1,
                        !.rank[upper] = IF u.rank[lower] = u.rank[upper] THEN @ + 1 ELSE @]
      BY <1>2, <1>7, <2>2
    <3>2. v = [parent |-> [u.parent EXCEPT ![lower] = upper],
               rank |-> [u.rank EXCEPT ![upper] =
                            IF u.rank[lower] = u.rank[upper] THEN @ + 1 ELSE @],
               sets |-> u.sets - 1]
      BY <3>1, <2>1 DEF Forests
    <3>3. u.rank[lower] # u.rank[upper] => [u.rank EXCEPT ![upper] = @] = u.rank
      BY <2>1
    <3>4. u.sets \in Int
      BY <2>1 DEF Forests
    <3>. HIDE DEF v
    <3>5. [u.parent EXCEPT ![lower] = upper] \in [UF!Elems -> UF!Elems]
      BY <2>1, <2>2
    <3>6. [u.rank EXCEPT ![upper] = IF u.rank[lower] = u.rank[upper] THEN @ + 1 ELSE @]
             \in [UF!Elems -> Nat]
      BY <2>1, <2>2
    <3>. QED
      BY <3>2, <3>3, <3>4, <3>5, <3>6
  <2>. HIDE DEF v
  <2>4. /\ Ranked(v) /\ Filled(v)
        /\ \A y \in UF!Elems : UF!Root(v, y) = IF UF!Root(u, y) = lower THEN upper ELSE UF!Root(u, y)
    <3>1. Linked(u, v, lower, upper)
      BY <2>2, <2>3 DEF Linked
    <3>2. lower \in UF!Elems /\ upper \in UF!Elems /\ lower # upper
      BY <2>2
    <3>3. Ranked(u) /\ Filled(u)
      BY <2>1
    <3>. QED
      BY ONLY N \in Nat \ {0}, <3>1, <3>2, <3>3, LinkedRoots
  <2>5. /\ BlockOf(u, a) # BlockOf(u, b)
        /\ a \in BlockOf(u, a) /\ b \in BlockOf(u, b)
        /\ BlocksOf(v) = (BlocksOf(u) \ {BlockOf(u, a), BlockOf(u, b)})
                            \cup {BlockOf(u, a) \cup BlockOf(u, b)}
        /\ Cardinality(BlocksOf(v)) = Cardinality(BlocksOf(u)) - 1
    <3>1. UF!Root(u, a) # UF!Root(u, b)
      BY <1>4, <1>7
    <3>2. \/ lower = UF!Root(u, a) /\ upper = UF!Root(u, b)
          \/ lower = UF!Root(u, b) /\ upper = UF!Root(u, a)
      BY <1>4, <2>2
    <3>. QED
      BY <2>4, <3>1, <3>2, BlocksJoin
  <2>6. Sound(v)
    BY <1>1, <2>3, <2>4, <2>5 DEF Sound
  <2>7. BlockOf(u, a) \in BlocksOf(u) /\ BlockOf(u, b) \in BlocksOf(u)
    BY DEF BlocksOf
  <2>8. UF!JoinsOnlyThese
    <3>1. out'.op = "union" /\ out'.result /\ out'.arg[1] = a /\ out'.arg[2] = b
      <4>1. out'.result
        <5>1. out'.result = TRUE
          BY <1>2, <1>7
        <5>. QED
          BY <5>1, Zenon
      <4>2. out'.arg[1] = a /\ out'.arg[2] = b
        BY <1>2
      <4>. QED
        BY <1>2, <4>1, <4>2
    <3>2. UF!Blocks' = (UF!Blocks \ {BlockOf(u, a), BlockOf(u, b)})
                       \cup {BlockOf(u, a) \cup BlockOf(u, b)}
      BY <1>1, <1>3, <2>5 DEF v
    <3>3. BlockOf(u, a) \in UF!Blocks /\ BlockOf(u, b) \in UF!Blocks
      BY <1>1, <1>3, <2>7
    <3>. QED
      BY <3>1, <3>2, <3>3, <2>5 DEF UF!JoinsOnlyThese
  <2>. QED
    BY <2>6, <2>8 DEF v
<1>. QED
  BY <1>6, <1>7

LEMMA Steps ==
  ASSUME N \in Nat \ {0}, Sound(st), [UF!Next]_<<st, out>>
  PROVE  Sound(st') /\ (UF!JoinsOnlyThese \/ UNCHANGED <<st, out>>)
<1>1. UF!Blocks = BlocksOf(st) /\ UF!Blocks' = BlocksOf(st')
  BY DEF UF!Blocks, BlocksOf, BlockOf
<1>2. ASSUME NEW x \in UF!Elems \cup {N}, UF!Find(x)
      PROVE  Sound(st') /\ UF!JoinsOnlyThese
  <2>1. st' = UF!Compressed(st, x) /\ out'.op = "find"
    BY <1>2 DEF UF!Find, UF!Returns
  <2>2. Sound(st') /\ BlocksOf(st') = BlocksOf(st)
    BY <2>1, CompressedSound
  <2>. QED
    BY <1>1, <2>1, <2>2 DEF UF!JoinsOnlyThese
<1>3. ASSUME NEW a \in UF!Elems, NEW b \in UF!Elems, UF!Union(a, b)
      PROVE  Sound(st') /\ UF!JoinsOnlyThese
  BY <1>3, UnionStep
<1>4. ASSUME NEW a \in UF!Elems, NEW b \in UF!Elems, UF!Connected(a, b)
      PROVE  Sound(st') /\ UF!JoinsOnlyThese
  <2>1. st' = UF!Compressed(UF!Compressed(st, a), b) /\ out'.op = "connected"
    BY <1>4 DEF UF!Connected, UF!Returns
  <2>2. Sound(st') /\ BlocksOf(st') = BlocksOf(st)
    BY <2>1, CompressedSound
  <2>. QED
    BY <1>1, <2>1, <2>2 DEF UF!JoinsOnlyThese
<1>5. ASSUME UF!Clear
      PROVE  Sound(st') /\ UF!JoinsOnlyThese
  <2>1. st' = UF!Singletons /\ out'.op = "clear"
    BY <1>5 DEF UF!Clear, UF!Returns
  <2>. QED
    BY <1>1, <2>1, SingletonsSound DEF UF!JoinsOnlyThese
<1>6. ASSUME UNCHANGED <<st, out>>
      PROVE  Sound(st')
  BY <1>6
<1>. QED
  BY <1>2, <1>3, <1>4, <1>5, <1>6 DEF UF!Next

(* What the invariant says in the model's terms.                            *)
LEMMA SoundForest ==
  ASSUME N \in Nat \ {0}, Sound(st)
  PROVE  UF!TypeOK /\ UF!Forest
<1>1. UF!TypeOK /\ Climbs(st)
  BY DEF Sound, Ranked, Forests, UF!TypeOK
<1>2. ASSUME NEW x \in UF!Elems PROVE \E r \in UF!Above(st, x) : st.parent[r] = r
  <2>1. PICK m \in 0 .. N - 1 : st.parent[UF!Path(st, x)[m]] = UF!Path(st, x)[m]
    BY PathEnds DEF Sound
  <2>. QED
    BY <2>1 DEF UF!Above
<1>3. UF!Blocks = BlocksOf(st)
  BY DEF UF!Blocks, BlocksOf, BlockOf
<1>4. UF!Cardinality(BlocksOf(st)) = Cardinality(BlocksOf(st))
  BY DEF Cardinality, UF!Cardinality
<1>5. st.sets = UF!Cardinality(BlocksOf(st))
  BY <1>4 DEF Sound
<1>. QED
  BY <1>1, <1>2, <1>3, <1>5 DEF UF!Forest, Climbs, Sound

-----------------------------------------------------------------------------
(* The inductive invariant: that of the container in use.                   *)
TablesInv ==
    /\ kind = "hashset" => HSP!Table(st)
    /\ kind = "hashmap" => HMP!Table(st)
    /\ kind = "deque" => Ring(st)
    /\ kind = "unionfind" => Sound(st)

LEMMA HashConstants == HSP!Sized /\ HMP!Sized
BY TablesAssumption DEF HSP!Sized, HMP!Sized

LEMMA SetIsMap ==
  ASSUME Entries = HS!Content(st), Entries' = HS!Content(st)', EntryAnswer' = out'
  PROVE  HSP!Map!Next => TableMap!Next
<1>1. Entries = HSP!Content(st) /\ Entries' = HSP!Content(st')
  BY SameSet DEF HS!Content, HS!Filled
<1>2. /\ \A S : HSP!Map!Cardinality(S) = TableMap!Cardinality(S)
      /\ \A m, k, v : HSP!Map!With(m, k, v) = TableMap!With(m, k, v)
      /\ \A m, k : HSP!Map!Without(m, k) = TableMap!Without(m, k)
  BY DEF HSP!Map!Cardinality, TableMap!Cardinality, HSP!Map!With, TableMap!With,
     HSP!Map!Without, TableMap!Without
<1>3. \A op, k, r : HSP!Map!Returns(op, k, r) <=> TableMap!Returns(op, k, r)
  BY DEF HSP!Map!Returns, TableMap!Returns
<1>4. /\ \A k : HSP!Map!Has(k) = TableMap!Has(k)
      /\ \A k : HSP!Map!Lookup(k) = TableMap!Lookup(k)
  BY <1>1 DEF HSP!Map!Has, TableMap!Has, HSP!Map!Lookup, TableMap!Lookup
<1>5. \A k : HSP!Map!Add(k) => TableMap!Add(k)
  BY <1>1, <1>2, <1>3, <1>4 DEF HSP!Map!Add, TableMap!Add
<1>6. \A k, v : HSP!Map!Put(k, v) => TableMap!Put(k, v)
  BY <1>1, <1>2, <1>3, <1>4 DEF HSP!Map!Put, TableMap!Put
<1>7. \A k : HSP!Map!Discard(k) => TableMap!Discard(k)
  BY <1>1, <1>2, <1>3, <1>4 DEF HSP!Map!Discard, TableMap!Discard
<1>8. \A k : HSP!Map!Take(k) => TableMap!Take(k)
  BY <1>1, <1>2, <1>3, <1>4 DEF HSP!Map!Take, TableMap!Take
<1>9. HSP!Map!Clear => TableMap!Clear
  BY <1>1, <1>2, <1>3 DEF HSP!Map!Clear, TableMap!Clear
<1>. QED
  BY <1>5, <1>6, <1>7, <1>8, <1>9 DEF HSP!Map!Next, TableMap!Next

LEMMA MapIsMap ==
  ASSUME Entries = HS!Content(st), Entries' = HS!Content(st)', EntryAnswer' = out'
  PROVE  HMP!Map!Next => TableMap!Next
<1>1. Entries = HMP!Content(st) /\ Entries' = HMP!Content(st')
  <2>1. \A t : HS!Content(t) = HM!Content(t)
    BY DEF HS!Content, HS!Filled, HM!Content, HM!Filled
  <2>. QED
    BY <2>1, SameMap DEF HS!Content, HS!Filled
<1>2. /\ \A S : HMP!Map!Cardinality(S) = TableMap!Cardinality(S)
      /\ \A m, k, v : HMP!Map!With(m, k, v) = TableMap!With(m, k, v)
      /\ \A m, k : HMP!Map!Without(m, k) = TableMap!Without(m, k)
  BY DEF HMP!Map!Cardinality, TableMap!Cardinality, HMP!Map!With, TableMap!With,
     HMP!Map!Without, TableMap!Without
<1>3. \A op, k, r : HMP!Map!Returns(op, k, r) <=> TableMap!Returns(op, k, r)
  BY DEF HMP!Map!Returns, TableMap!Returns
<1>4. /\ \A k : HMP!Map!Has(k) = TableMap!Has(k)
      /\ \A k : HMP!Map!Lookup(k) = TableMap!Lookup(k)
  BY <1>1 DEF HMP!Map!Has, TableMap!Has, HMP!Map!Lookup, TableMap!Lookup
<1>5. \A k : HMP!Map!Add(k) => TableMap!Add(k)
  BY <1>1, <1>2, <1>3, <1>4 DEF HMP!Map!Add, TableMap!Add
<1>6. \A k, v : HMP!Map!Put(k, v) => TableMap!Put(k, v)
  BY <1>1, <1>2, <1>3, <1>4 DEF HMP!Map!Put, TableMap!Put
<1>7. \A k : HMP!Map!Discard(k) => TableMap!Discard(k)
  BY <1>1, <1>2, <1>3, <1>4 DEF HMP!Map!Discard, TableMap!Discard
<1>8. \A k : HMP!Map!Take(k) => TableMap!Take(k)
  BY <1>1, <1>2, <1>3, <1>4 DEF HMP!Map!Take, TableMap!Take
<1>9. HMP!Map!Clear => TableMap!Clear
  BY <1>1, <1>2, <1>3 DEF HMP!Map!Clear, TableMap!Clear
<1>. QED
  BY <1>5, <1>6, <1>7, <1>8, <1>9 DEF HMP!Map!Next, TableMap!Next

-----------------------------------------------------------------------------
(* The content of the deque as a sequence, and what the answers are of it.  *)
LEMMA Ends ==
  ASSUME Ring(st)
  PROVE  /\ DQ!Content(st) \in Seq(Elements) /\ Len(DQ!Content(st)) = st.len
         /\ DQ!Content(st) = <<>> <=> st.len = 0
         /\ st.len # 0 => /\ st.data[st.front] = Head(DQ!Content(st))
                            /\ st.data[DQ!At(st, st.len - 1)]
                                  = DQ!Content(st)[Len(DQ!Content(st))]
<1>1. DQ!Content(st) \in Seq(Elements) /\ Len(DQ!Content(st)) = st.len
  BY Contents
<1>2. DQ!Content(st) = <<>> <=> st.len = 0
  BY <1>1, EmptySeq
<1>3. st.len # 0 => /\ st.data[st.front] = Head(DQ!Content(st))
                      /\ st.data[DQ!At(st, st.len - 1)]
                            = DQ!Content(st)[Len(DQ!Content(st))]
  BY PopBackDrops, PopFrontDrops
<1>. QED
  BY <1>1, <1>2, <1>3

(* Every call keeps the ring well formed and is the queue's own call.       *)
LEMMA DequeCalls ==
  ASSUME kind = "deque", kind' = kind, Ring(st), DQ!Next
  PROVE  Ring(st') /\ Queue!Deque
<1>0. Items = DQ!Content(st) /\ Items' = DQ!Content(st') /\ ItemAnswer' = out'
  BY DEF Items, ItemAnswer
<1>1. /\ DQ!Content(st) \in Seq(Elements) /\ Len(DQ!Content(st)) = st.len
      /\ DQ!Content(st) = <<>> <=> st.len = 0
      /\ st.len # 0 => /\ st.data[st.front] = Head(DQ!Content(st))
                         /\ st.data[DQ!At(st, st.len - 1)]
                               = DQ!Content(st)[Len(DQ!Content(st))]
  BY Ends
<1>. DEFINE t == DQ!Room(st)
<1>2. Ring(t) /\ t.len = st.len /\ t.len < t.capacity /\ DQ!Content(t) = DQ!Content(st)
  BY RoomKeeps
<1>. HIDE DEF t
<1>3. ASSUME NEW v \in Elements, DQ!PushBack(v) PROVE Ring(st') /\ Queue!PushBack(v)
  <2>1. /\ st' = PushedBack(t, v)
        /\ out' = [op |-> "push_back", arg |-> v, result |-> t.len + 1]
    BY <1>3 DEF DQ!PushBack, PushedBack, DQ!Returns, t
  <2>2. Ring(PushedBack(t, v)) /\ DQ!Content(PushedBack(t, v)) = Append(DQ!Content(t), v)
    BY <1>2, PushBackAppends
  <2>3. DQ!Content(st') = Append(DQ!Content(st), v)
    BY <1>2, <2>1, <2>2
  <2>4. out' = [op |-> "push_back", arg |-> v, result |-> Len(DQ!Content(st)) + 1]
    BY <1>1, <1>2, <2>1
  <2>. QED
    BY <1>0, <2>1, <2>2, <2>3, <2>4 DEF Queue!PushBack, Queue!Returns
<1>4. ASSUME NEW v \in Elements, DQ!PushFront(v) PROVE Ring(st') /\ Queue!PushFront(v)
  <2>1. /\ st' = PushedFront(t, v)
        /\ out' = [op |-> "push_front", arg |-> v, result |-> t.len + 1]
    BY <1>4 DEF DQ!PushFront, PushedFront, DQ!Returns, t
  <2>2. Ring(PushedFront(t, v)) /\ DQ!Content(PushedFront(t, v)) = <<v>> \o DQ!Content(t)
    BY <1>2, PushFrontPrepends
  <2>3. DQ!Content(st') = <<v>> \o DQ!Content(st)
    BY <1>2, <2>1, <2>2
  <2>4. out' = [op |-> "push_front", arg |-> v, result |-> Len(DQ!Content(st)) + 1]
    BY <1>1, <1>2, <2>1
  <2>. QED
    BY <1>0, <2>1, <2>2, <2>3, <2>4 DEF Queue!PushFront, Queue!Returns, Queue!Cons
<1>5. ASSUME DQ!PopBack PROVE Ring(st') /\ Queue!PopBack
  <2>1. CASE st.len = 0
    <3>1. st' = st /\ out' = [op |-> "pop_back", arg |-> None, result |-> None]
      BY <1>5, <2>1 DEF DQ!PopBack, DQ!Returns
    <3>. QED
      BY <1>0, <1>1, <2>1, <3>1 DEF Queue!PopBack, Queue!Returns
  <2>2. CASE st.len # 0
    <3>1. /\ st' = PoppedBack(st)
          /\ out' = [op |-> "pop_back", arg |-> None,
                     result |-> st.data[DQ!At(st, st.len - 1)]]
      BY <1>5, <2>2 DEF DQ!PopBack, PoppedBack, DQ!Returns
    <3>2. /\ Ring(PoppedBack(st))
          /\ DQ!Content(PoppedBack(st)) = SubSeq(DQ!Content(st), 1, Len(DQ!Content(st)) - 1)
      BY <2>2, PopBackDrops
    <3>3. DQ!Content(st') = SubSeq(DQ!Content(st), 1, Len(DQ!Content(st)) - 1)
      BY <3>1, <3>2
    <3>4. out' = [op |-> "pop_back", arg |-> None,
                  result |-> DQ!Content(st)[Len(DQ!Content(st))]]
      BY <1>1, <2>2, <3>1
    <3>. QED
      BY <1>0, <1>1, <2>2, <3>1, <3>2, <3>3, <3>4
      DEF Queue!PopBack, Queue!Returns, Queue!Front, Queue!Last
  <2>. QED
    BY <2>1, <2>2
<1>6. ASSUME DQ!PopFront PROVE Ring(st') /\ Queue!PopFront
  <2>1. CASE st.len = 0
    <3>1. st' = st /\ out' = [op |-> "pop_front", arg |-> None, result |-> None]
      BY <1>6, <2>1 DEF DQ!PopFront, DQ!Returns
    <3>. QED
      BY <1>0, <1>1, <2>1, <3>1 DEF Queue!PopFront, Queue!Returns
  <2>2. CASE st.len # 0
    <3>1. /\ st' = PoppedFront(st)
          /\ out' = [op |-> "pop_front", arg |-> None, result |-> st.data[st.front]]
      BY <1>6, <2>2 DEF DQ!PopFront, PoppedFront, DQ!Returns
    <3>2. /\ Ring(PoppedFront(st))
          /\ DQ!Content(PoppedFront(st)) = Tail(DQ!Content(st))
      BY <2>2, PopFrontDrops
    <3>3. DQ!Content(st') = Tail(DQ!Content(st))
      BY <3>1, <3>2
    <3>4. out' = [op |-> "pop_front", arg |-> None, result |-> Head(DQ!Content(st))]
      BY <1>1, <2>2, <3>1
    <3>. QED
      BY <1>0, <1>1, <2>2, <3>1, <3>2, <3>3, <3>4 DEF Queue!PopFront, Queue!Returns
  <2>. QED
    BY <2>1, <2>2
<1>7. ASSUME DQ!Clear PROVE Ring(st') /\ Queue!Clear
  <2>1. st' = DQ!New /\ out' = [op |-> "clear", arg |-> None, result |-> Len(DQ!Content(st))]
    BY <1>1, <1>7 DEF DQ!Clear, DQ!Returns
  <2>2. Ring(st') /\ DQ!Content(st') = <<>>
    BY <2>1, NewIsEmpty
  <2>. QED
    BY <1>0, <2>1, <2>2 DEF Queue!Clear, Queue!Returns
<1>. QED
  BY <1>3, <1>4, <1>5, <1>6, <1>7 DEF DQ!Next, Queue!Deque

(* What the invariant says in the model's terms.                            *)
LEMMA RingLooks ==
  ASSUME Ring(st)
  PROVE  DQ!TypeOK /\ DQ!LookupsAgree
<1>1. DQ!TypeOK
  BY DEF Ring, Shaped, DQ!TypeOK
<1>. DEFINE s == DQ!Content(st)
<1>2. /\ s \in Seq(Elements) /\ Len(s) = st.len
      /\ s = <<>> <=> st.len = 0
      /\ st.len # 0 => /\ st.data[st.front] = Head(s)
                         /\ st.data[DQ!At(st, st.len - 1)] = s[Len(s)]
  BY Ends
<1>3. DQ!At(st, st.len - 1) = (st.front + st.len - 1) % st.capacity
  BY DEF DQ!At
<1>. HIDE DEF s
<1>4. \A i \in DOMAIN s : s[i] \in Elements
  BY <1>2
<1>5. Head(s) = s[1]
  OBVIOUS
<1>6. DQ!PeekFront = IF s = <<>> THEN None ELSE s[1]
  BY <1>2, <1>5 DEF DQ!PeekFront
<1>7. DQ!PeekBack = IF s = <<>> THEN None ELSE s[Len(s)]
  BY <1>2, <1>3 DEF DQ!PeekBack
<1>. QED
  BY <1>1, <1>4, <1>6, <1>7 DEF DQ!LookupsAgree, s

-----------------------------------------------------------------------------
(* A new container satisfies the invariant and is empty.                    *)
LEMMA NewTables ==
  ASSUME TableInit
  PROVE  TablesInv /\ TableMap!Init /\ Queue!Init
<1>1. CASE kind = "hashset" /\ HS!Init
  <2>1. HSP!Table(st) /\ HSP!Map!Init
    BY <1>1, SameSet, HashConstants, HSP!TableInit
  <2>2. HSP!Content(st) = [k \in {} |-> None] /\ out = Unused
    BY <2>1 DEF HSP!Map!Init, Unused
  <2>3. Entries = HSP!Content(st) /\ EntryAnswer = out /\ Items = <<>> /\ ItemAnswer = UnusedQueue
    BY <1>1, SameSet DEF Entries, EntryAnswer, Items, ItemAnswer
  <2>. QED
    BY <1>1, <2>1, <2>2, <2>3 DEF TablesInv, TableMap!Init, Queue!Init, Unused, UnusedQueue
<1>2. CASE kind = "hashmap" /\ HM!Init
  <2>1. HMP!Table(st) /\ HMP!Map!Init
    BY <1>2, SameMap, HashConstants, HMP!TableInit
  <2>2. HMP!Content(st) = [k \in {} |-> None] /\ out = Unused
    BY <2>1 DEF HMP!Map!Init, Unused
  <2>3. HS!Content(st) = HMP!Content(st)
    BY SameMap DEF HS!Content, HS!Filled, HM!Content, HM!Filled
  <2>4. Entries = HMP!Content(st) /\ EntryAnswer = out /\ Items = <<>> /\ ItemAnswer = UnusedQueue
    BY <1>2, <2>3 DEF Entries, EntryAnswer, Items, ItemAnswer
  <2>. QED
    BY <1>2, <2>1, <2>2, <2>4 DEF TablesInv, TableMap!Init, Queue!Init, Unused, UnusedQueue
<1>3. CASE kind = "deque" /\ DQ!Init
  <2>1. st = DQ!New /\ out = UnusedQueue
    BY <1>3 DEF DQ!Init, UnusedQueue
  <2>2. Ring(st) /\ DQ!Content(st) = <<>>
    BY <2>1, NewIsEmpty
  <2>. QED
    BY <1>3, <2>1, <2>2
    DEF TablesInv, TableMap!Init, Queue!Init, Entries, EntryAnswer, Items, ItemAnswer,
        NoEntries, Unused, UnusedQueue
<1>4. CASE kind = "unionfind" /\ UF!Init
  <2>1. Sound(st)
    BY <1>4, TablesAssumption, SingletonsSound DEF UF!Init
  <2>. QED
    BY <1>4, <2>1
    DEF TablesInv, TableMap!Init, Queue!Init, Entries, EntryAnswer, Items, ItemAnswer,
        NoEntries, Unused, UnusedQueue
<1>. QED
  BY <1>1, <1>2, <1>3, <1>4 DEF TableInit, NewTable

(* What a step of each container does, to it and to what it stands for.     *)
SeenSteps ==
    /\ [TableMap!Next]_<<Entries, EntryAnswer>>
    /\ kind = "deque" => Queue!Deque
    /\ kind = "unionfind" => UF!JoinsOnlyThese

LEMMA TableSteps ==
  ASSUME TablesInv, TableNext
  PROVE  TablesInv' /\ (SeenSteps \/ UNCHANGED vars)
<1>1. kind' = kind
  BY DEF TableNext
<1>2. CASE kind = "hashset" /\ HS!Next
  <2>1. HSP!Table(st) /\ HSP!Next /\ HSP!Sized
    BY <1>2, SameSet, HashConstants DEF TablesInv
  <2>2. HSP!Table(st') /\ HSP!Map!Next
    BY <2>1, HSP!Calls
  <2>3. Entries = HS!Content(st) /\ Entries' = HS!Content(st)' /\ EntryAnswer' = out'
    BY <1>1, <1>2 DEF Entries, EntryAnswer
  <2>4. TableMap!Next
    BY <2>2, <2>3, SetIsMap
  <2>. QED
    BY <1>1, <1>2, <2>2, <2>4 DEF TablesInv, SeenSteps
<1>3. CASE kind = "hashmap" /\ HM!Next
  <2>1. HMP!Table(st) /\ HMP!Next /\ HMP!Sized
    BY <1>3, SameMap, HashConstants DEF TablesInv
  <2>2. HMP!Table(st') /\ HMP!Map!Next
    BY <2>1, HMP!Calls
  <2>3. Entries = HS!Content(st) /\ Entries' = HS!Content(st)' /\ EntryAnswer' = out'
    BY <1>1, <1>3 DEF Entries, EntryAnswer
  <2>4. TableMap!Next
    BY <2>2, <2>3, MapIsMap
  <2>. QED
    BY <1>1, <1>3, <2>2, <2>4 DEF TablesInv, SeenSteps
<1>4. CASE kind = "deque" /\ DQ!Next
  <2>1. Ring(st') /\ Queue!Deque
    BY <1>1, <1>4, DequeCalls DEF TablesInv
  <2>2. UNCHANGED <<Entries, EntryAnswer>>
    BY <1>1, <1>4 DEF Entries, EntryAnswer
  <2>. QED
    BY <1>1, <1>4, <2>1, <2>2 DEF TablesInv, SeenSteps
<1>5. CASE kind = "unionfind" /\ UF!Next
  <2>1. Sound(st) /\ [UF!Next]_<<st, out>>
    BY <1>5 DEF TablesInv
  <2>2. Sound(st') /\ (UF!JoinsOnlyThese \/ UNCHANGED <<st, out>>)
    BY <2>1, TablesAssumption, Steps
  <2>3. UNCHANGED <<Entries, EntryAnswer>>
    BY <1>1, <1>5 DEF Entries, EntryAnswer
  <2>4. UF!JoinsOnlyThese \/ UNCHANGED vars
    BY <1>1, <2>2 DEF vars
  <2>. QED
    BY <1>1, <1>5, <2>2, <2>3, <2>4 DEF TablesInv, SeenSteps
<1>. QED
  BY <1>2, <1>3, <1>4, <1>5 DEF TableNext, TableCall

LEMMA TablesStep ==
  ASSUME TablesInv, [TableNext]_vars
  PROVE  TablesInv' /\ (SeenSteps \/ UNCHANGED vars)
<1>1. CASE UNCHANGED vars
  BY <1>1 DEF TablesInv, vars
<1>. QED
  BY <1>1, TableSteps

-----------------------------------------------------------------------------
(* Whatever calls a program makes of a hash set, a hash map, a deque or a   *)
(* union-find, of any size and with any hash: every probe and every find    *)
(* ends, and where it should (backend_c.rs, __grow, hash set and hash map   *)
(* insert, get and remove, deque push and grow, union_find_find).           *)
THEOREM WalksSafe == TableSpec => [](TablesTyped /\ WalksEnd)
<1>1. TableInit => TablesInv
  BY NewTables
<1>2. TablesInv /\ [TableNext]_vars => TablesInv'
  BY TablesStep
<1>3. TablesInv => TablesTyped /\ WalksEnd
  <2>. SUFFICES ASSUME TablesInv PROVE TablesTyped /\ WalksEnd
    OBVIOUS
  <2>1. CASE kind = "hashset"
    <3>1. HSP!TypeOK /\ HSP!WalksEnd /\ HSP!LookupsAgree
      BY <2>1, HashConstants, HSP!TableLooks DEF TablesInv
    <3>. QED
      BY <2>1, <3>1, SameSet DEF TablesTyped, WalksEnd
  <2>2. CASE kind = "hashmap"
    <3>1. HMP!TypeOK /\ HMP!WalksEnd /\ HMP!LookupsAgree
      BY <2>2, HashConstants, HMP!TableLooks DEF TablesInv
    <3>. QED
      BY <2>2, <3>1, SameMap DEF TablesTyped, WalksEnd
  <2>3. CASE kind = "deque"
    BY <2>3, RingLooks DEF TablesInv, TablesTyped, WalksEnd
  <2>4. CASE kind = "unionfind"
    <3>1. UF!TypeOK /\ UF!Forest
      BY <2>4, TablesAssumption, SoundForest DEF TablesInv
    <3>. QED
      BY <2>4, <3>1 DEF TablesTyped, WalksEnd
  <2>. QED
    BY <2>1, <2>2, <2>3, <2>4 DEF TablesTyped, WalksEnd
<1>. QED
  BY <1>1, <1>2, <1>3, PTL DEF TableSpec

(* A hash set and a hash map are finite maps, and a deque is a sequence     *)
(* open at both ends: every call changes what the container holds, and      *)
(* answers, as the same call of those does, whether it reuses a tombstone,  *)
(* wraps around the ring or grows the array.                                *)
THEOREM TablesRefine == TableSpec => TablesImplemented
<1>1. TableInit => TablesInv /\ TableMap!Init /\ Queue!Init
  BY NewTables
<1>2. TablesInv /\ [TableNext]_vars
        => TablesInv' /\ [TableMap!Next]_<<Entries, EntryAnswer>>
           /\ [kind = "deque" => Queue!Deque]_vars
  <2>1. UNCHANGED vars => UNCHANGED <<Entries, EntryAnswer>>
    BY DEF vars, Entries, EntryAnswer, HS!Content, HS!Filled
  <2>. QED
    BY <2>1, TablesStep DEF SeenSteps
<1>. QED
  BY <1>1, <1>2, PTL DEF TableSpec, TablesImplemented, TableMap!Spec

(* A union-find call joins no other sets than those of its two arguments,   *)
(* although find rewrites the links it walked.                              *)
THEOREM UnionsJoin == TableSpec => JoinsOnlyThese
<1>1. TableInit => TablesInv
  BY NewTables
<1>2. TablesInv /\ [TableNext]_vars
        => TablesInv' /\ [kind = "unionfind" => UF!JoinsOnlyThese]_vars
  BY TablesStep DEF SeenSteps
<1>. QED
  BY <1>1, <1>2, PTL DEF TableSpec, JoinsOnlyThese
=============================================================================
