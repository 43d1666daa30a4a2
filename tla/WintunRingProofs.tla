-------------------------- MODULE WintunRingProofs --------------------------
(***************************************************************************)
(* Proofs about WintunRing for rings of any capacity and packets of any    *)
(* size: the types, that a ring that is not closed is never taken for      *)
(* broken, that a session has one read() under way, and that the rings     *)
(* implement PacketQueue.                                                  *)
(***************************************************************************)
EXTENDS WintunRing, FiniteSetTheorems, TLAPS

-----------------------------------------------------------------------------
(* Multiples of the alignment *)

Aligned(x) == x \in Int /\ x % Align = 0

LEMMA DivisionBy ==
    ASSUME NEW x \in Int, NEW m \in Nat \ {0}
    PROVE  x \div m \in Int /\ x % m \in 0 .. (m - 1) /\ x = (x \div m) * m + (x % m)
<1>1. x = (x \div m) * m + (x % m)
    BY Z3
<1>2. x \div m \in Int /\ x % m \in 0 .. (m - 1)
    OBVIOUS
<1> QED
    BY <1>1, <1>2

LEMMA MultipleOf ==
    ASSUME NEW q \in Int, NEW m \in Nat \ {0}
    PROVE  (q * m) \div m = q /\ (q * m) % m = 0
<1>1. (m * q + 0) \div m = q /\ (m * q + 0) % m = 0
    OBVIOUS
<1>2. m * q + 0 = q * m
    OBVIOUS
<1> QED
    BY <1>1, <1>2

LEMMA AlignedIs ==
    ASSUME NEW x, Aligned(x)
    PROVE  x \in Int /\ x \div Align \in Int /\ x = (x \div Align) * Align
BY AlignDividesCapacity, DivisionBy DEF Aligned

LEMMA AlignedAdd ==
    ASSUME NEW x, NEW y, Aligned(x), Aligned(y)
    PROVE  Aligned(x + y) /\ (x + y) \div Align = (x \div Align) + (y \div Align)
<1> DEFINE a == x \div Align  b == y \div Align
<1>1. a \in Int /\ b \in Int /\ x = a * Align /\ y = b * Align /\ Align \in Nat \ {0}
    BY AlignedIs, AlignDividesCapacity
<1> HIDE DEF a, b
<1>2. x + y = (a + b) * Align /\ a + b \in Int
    BY <1>1
<1>3. ((a + b) * Align) \div Align = a + b /\ ((a + b) * Align) % Align = 0
    BY <1>1, <1>2, MultipleOf
<1>4. x + y \in Int
    BY <1>1
<1> QED
    BY <1>2, <1>3, <1>4 DEF Aligned, a, b

LEMMA AlignedMinus ==
    ASSUME NEW x, NEW y, Aligned(x), Aligned(y)
    PROVE  Aligned(x - y) /\ (x - y) \div Align = (x \div Align) - (y \div Align)
<1> DEFINE a == x \div Align  b == y \div Align
<1>1. a \in Int /\ b \in Int /\ x = a * Align /\ y = b * Align /\ Align \in Nat \ {0}
    BY AlignedIs, AlignDividesCapacity
<1> HIDE DEF a, b
<1>2. x - y = (a - b) * Align /\ a - b \in Int
    BY <1>1
<1>3. ((a - b) * Align) \div Align = a - b /\ ((a - b) * Align) % Align = 0
    BY <1>1, <1>2, MultipleOf
<1>4. x - y \in Int
    BY <1>1
<1> QED
    BY <1>2, <1>3, <1>4 DEF Aligned, a, b

\* Positions are in the order of the units they begin.
LEMMA AlignedOrder ==
    ASSUME NEW x, NEW y, Aligned(x), Aligned(y)
    PROVE  /\ x <= y <=> x \div Align <= y \div Align
           /\ x < y => x + Align <= y
<1> DEFINE a == x \div Align  b == y \div Align
<1>1. a \in Int /\ b \in Int /\ x = a * Align /\ y = b * Align /\ Align \in Nat \ {0}
    BY AlignedIs, AlignDividesCapacity
<1> HIDE DEF a, b
<1>2. ASSUME a <= b PROVE x <= y
    <2>1. (b - a) * Align >= 0
        BY <1>1, <1>2
    <2> QED
        BY <1>1, <2>1
<1>3. ASSUME a > b PROVE y + Align <= x
    <2>1. (a - b - 1) * Align >= 0
        BY <1>1, <1>3
    <2> QED
        BY <1>1, <2>1
<1>4. ASSUME b > a PROVE x + Align <= y
    <2>1. (b - a - 1) * Align >= 0
        BY <1>1, <1>4
    <2> QED
        BY <1>1, <2>1
<1>5. x <= y <=> a <= b
    BY <1>1, <1>2, <1>3
<1>6. x < y => x + Align <= y
    BY <1>1, <1>2, <1>3, <1>4
<1> QED
    BY <1>5, <1>6 DEF a, b

LEMMA Constants ==
    /\ Aligned(Align) /\ Aligned(Capacity) /\ Aligned(0)
    /\ Align \in Nat \ {0} /\ Capacity \in Nat \ {0} /\ Align <= Capacity
    /\ Align \div Align = 1 /\ 0 \div Align = 0
<1>1. Align \in Nat \ {0} /\ Capacity \in Nat \ {0} /\ Capacity % Align = 0
    BY AlignDividesCapacity
<1>2. (1 * Align) \div Align = 1 /\ (1 * Align) % Align = 0
    BY <1>1, MultipleOf
<1>3. (0 * Align) \div Align = 0 /\ (0 * Align) % Align = 0
    BY <1>1, MultipleOf
<1>4. 1 * Align = Align /\ 0 * Align = 0
    BY <1>1
<1>5. Aligned(Align) /\ Aligned(Capacity) /\ Aligned(0)
    BY <1>1, <1>2, <1>3, <1>4 DEF Aligned
<1>6. Align <= Capacity
    BY <1>1, <1>4, <1>5, AlignedOrder
<1> QED
    BY <1>1, <1>2, <1>3, <1>4, <1>5, <1>6

-----------------------------------------------------------------------------
(* Positions in a ring *)

LEMMA WrapIs ==
    ASSUME NEW y \in Int, -Capacity <= y, y < 2 * Capacity
    PROVE  Wrap(y) = IF y < 0 THEN y + Capacity ELSE IF y < Capacity THEN y ELSE y - Capacity
<1>1. Capacity \in Nat \ {0}
    BY AlignDividesCapacity
<1>2. \A z \in Int : 0 <= z /\ z < Capacity =>
          z % Capacity = z /\ (z + Capacity) % Capacity = z /\ (z - Capacity) % Capacity = z
    BY <1>1
<1>3. CASE y < 0
    <2>1. 0 <= y + Capacity /\ y + Capacity < Capacity /\ y + Capacity \in Int
        BY <1>1, <1>3
    <2>2. ((y + Capacity) - Capacity) % Capacity = y + Capacity /\ (y + Capacity) - Capacity = y
        BY <1>1, <1>2, <2>1
    <2> QED
        BY <1>3, <2>2 DEF Wrap
<1>4. CASE 0 <= y /\ y < Capacity
    BY <1>2, <1>4 DEF Wrap
<1>5. CASE Capacity <= y
    <2>1. 0 <= y - Capacity /\ y - Capacity < Capacity /\ y - Capacity \in Int
        BY <1>1, <1>5
    <2>2. ((y - Capacity) + Capacity) % Capacity = y - Capacity /\ (y - Capacity) + Capacity = y
        BY <1>1, <1>2, <2>1
    <2> QED
        BY <1>1, <1>5, <2>2 DEF Wrap
<1> QED
    BY <1>1, <1>3, <1>4, <1>5

LEMMA PositionIs ==
    \A x : x \in Position <=> Aligned(x) /\ 0 <= x /\ x < Capacity
BY Constants DEF Position, Aligned

LEMMA WrapPosition ==
    ASSUME NEW y, Aligned(y), -Capacity <= y, y < 2 * Capacity
    PROVE  Wrap(y) \in Position
<1>1. y \in Int /\ Capacity \in Nat \ {0}
    BY Constants DEF Aligned
<1>2. Aligned(y + Capacity) /\ Aligned(y - Capacity)
    BY Constants, AlignedAdd, AlignedMinus
<1>3. Wrap(y) = IF y < 0 THEN y + Capacity ELSE IF y < Capacity THEN y ELSE y - Capacity
    BY <1>1, WrapIs
<1> QED
    BY <1>1, <1>2, <1>3, PositionIs

\* The memory of a packet.
LEMMA SpaceIs ==
    ASSUME NEW p \in Packet
    PROVE  Aligned(Space(p)) /\ Align < Space(p) /\ Space(p) < Trailing + Align
<1> DEFINE n == Header + Size[p] + Align - 1  q == n \div Align
<1>1. /\ Align \in Nat \ {0} /\ Header = Align /\ Size[p] \in Nat \ {0} /\ Trailing \in Nat
      /\ Size[p] + Header <= Trailing
    BY Constants, HeaderIsOneUnit, SizesArePositive, TrailingHoldsPacket
<1>2. n \in Int
    BY <1>1
<1>3. q \in Int /\ n % Align \in 0 .. (Align - 1) /\ n = q * Align + (n % Align)
    BY <1>1, <1>2, DivisionBy
<1>4. Space(p) = q * Align
    BY DEF Space, PacketAlign
<1>5. n = Align + Size[p] + Align - 1
    BY <1>1
<1> HIDE DEF n, q
<1>6. q * Align \in Int
    BY <1>1, <1>3
<1>7. (q * Align) % Align = 0
    BY <1>1, <1>3, MultipleOf
<1>8. PICK left \in 0 .. (Align - 1) : n = Space(p) + left
    BY <1>3, <1>4
<1>9. Align < Space(p) /\ Space(p) < Trailing + Align
    BY <1>1, <1>4, <1>5, <1>6, <1>8
<1> QED
    BY <1>4, <1>6, <1>7, <1>9 DEF Aligned

\* What is in a ring from h to t, and what is left of it.
LEMMA ContentIs ==
    ASSUME NEW h \in Position, NEW t \in Position
    PROVE  /\ Wrap(t - h) \in Position /\ Wrap(t - h) = IF h <= t THEN t - h ELSE t - h + Capacity
           /\ Free(h, t) = Capacity - Align - Wrap(t - h)
<1>1. /\ Aligned(h) /\ Aligned(t) /\ 0 <= h /\ h < Capacity /\ 0 <= t /\ t < Capacity
      /\ h \in Int /\ t \in Int /\ Capacity \in Nat \ {0} /\ Align \in Nat \ {0}
    BY PositionIs, Constants DEF Aligned
<1>2. Aligned(t - h) /\ Aligned(h - t) /\ Aligned(h - t - Align)
    BY <1>1, Constants, AlignedMinus
<1>3. Wrap(t - h) \in Position
    BY <1>1, <1>2, WrapPosition
<1>4. Wrap(t - h) = IF h <= t THEN t - h ELSE t - h + Capacity
    BY <1>1, WrapIs
<1>5. h + Align <= Capacity /\ t + Align <= Capacity /\ (t < h => t + Align <= h)
    BY <1>1, Constants, AlignedOrder
<1>6. Wrap(h - t - Align) = IF h - t - Align < 0 THEN h - t - Align + Capacity ELSE h - t - Align
    BY <1>1, <1>5, WrapIs
<1> QED
    BY <1>1, <1>3, <1>4, <1>5, <1>6 DEF Free

\* A packet written at t is the last of those that begin at h.
LEMMA WriteEnds ==
    ASSUME NEW h \in Position, NEW t \in Position, NEW p \in Packet, Space(p) <= Free(h, t)
    PROVE  LET end == Wrap(t - h) + Space(p) IN
           /\ t = Wrap(h + Wrap(t - h)) /\ end \in Position
           /\ Wrap(t + Space(p)) \in Position /\ Wrap(Wrap(t + Space(p)) - h) = end
<1> DEFINE c == Wrap(t - h)  s == Space(p)  end == c + s
<1>1. /\ Aligned(h) /\ 0 <= h /\ h < Capacity /\ Aligned(t) /\ 0 <= t /\ t < Capacity
      /\ Aligned(s) /\ Align < s
    BY PositionIs, SpaceIs
<1>2. h \in Int /\ t \in Int /\ s \in Int /\ Capacity \in Nat \ {0} /\ Align \in Nat \ {0}
    BY <1>1, Constants DEF Aligned
<1>3. /\ c \in Position /\ c = IF h <= t THEN t - h ELSE t - h + Capacity
      /\ s <= Capacity - Align - c
    BY ContentIs
<1>4. Aligned(c) /\ 0 <= c /\ c < Capacity /\ c \in Int
    BY <1>3, PositionIs DEF Aligned
<1>5. Aligned(end) /\ Aligned(t + s)
    BY <1>1, <1>4, AlignedAdd
<1> HIDE DEF c, s
<1>6. end \in Position
    BY <1>1, <1>2, <1>3, <1>4, <1>5, PositionIs
<1>7. Wrap(t + s) \in Position
    BY <1>1, <1>2, <1>3, <1>4, <1>5, WrapPosition
<1>8. Wrap(t + s) = IF t + s < Capacity THEN t + s ELSE t + s - Capacity
    BY <1>1, <1>2, <1>3, <1>4, WrapIs
<1>9. Wrap(Wrap(t + s) - h) = IF h <= Wrap(t + s) THEN Wrap(t + s) - h ELSE Wrap(t + s) - h + Capacity
    BY <1>7, ContentIs
<1>10. Wrap(Wrap(t + s) - h) = end
    BY <1>1, <1>2, <1>3, <1>4, <1>8, <1>9
<1>11. t = Wrap(h + c)
    <2>1. Wrap(h + c) = IF h + c < Capacity THEN h + c ELSE h + c - Capacity
        BY <1>1, <1>2, <1>4, WrapIs
    <2> QED
        BY <1>1, <1>2, <1>3, <1>4, <2>1
<1> QED
    BY <1>6, <1>7, <1>10, <1>11 DEF c, s

\* It is beside those that lie before it.
LEMMA WriteBeside ==
    ASSUME NEW h \in Position, NEW t \in Position, NEW q \in Packet, Space(q) <= Free(h, t),
           NEW x \in Position, NEW p \in Packet, x + Space(p) <= Wrap(t - h)
    PROVE  LET a == Wrap(h + x) IN a \in Position /\ (a + Space(p) <= t \/ t + Space(q) <= a)
<1> DEFINE c == Wrap(t - h)  s == Space(q)  e == Space(p)  a == Wrap(h + x)
<1>1. /\ Aligned(h) /\ 0 <= h /\ h < Capacity /\ Aligned(t) /\ 0 <= t /\ t < Capacity
      /\ Aligned(s) /\ Align < s /\ Aligned(e) /\ Align < e
      /\ Aligned(x) /\ 0 <= x /\ x < Capacity
    BY PositionIs, SpaceIs
<1>2. /\ h \in Int /\ t \in Int /\ s \in Int /\ e \in Int /\ x \in Int
      /\ Capacity \in Nat \ {0} /\ Align \in Nat \ {0}
    BY <1>1, Constants DEF Aligned
<1>3. /\ c = IF h <= t THEN t - h ELSE t - h + Capacity
      /\ s <= Capacity - Align - c /\ x + e <= c
    BY ContentIs
<1>4. Aligned(h + x)
    BY <1>1, AlignedAdd
<1> HIDE DEF c, s, e, a
<1>5. h + x \in Int /\ -Capacity <= h + x /\ h + x < 2 * Capacity /\ ~(h + x < 0)
    BY <1>1, <1>2
<1>6. a \in Position
    BY <1>4, <1>5, WrapPosition DEF a
<1>7. a = IF h + x < Capacity THEN h + x ELSE h + x - Capacity
    <2>1. Wrap(h + x) = IF h + x < 0 THEN h + x + Capacity
                        ELSE IF h + x < Capacity THEN h + x ELSE h + x - Capacity
        BY <1>1, <1>2, <1>5, WrapIs
    <2> QED
        BY <1>5, <2>1 DEF a
<1>8. a + e <= t \/ t + s <= a
    BY <1>1, <1>2, <1>3, <1>7
<1> QED
    BY <1>6, <1>8 DEF a, e, s

\* Positions seen from the end of the first packet.
LEMMA ReadShifts ==
    ASSUME NEW h \in Position, NEW p \in Packet, Space(p) \in Position
    PROVE  LET next == Wrap(h + Space(p)) IN
           /\ next \in Position
           /\ \A x \in Int : 0 <= x /\ x + Space(p) < Capacity => Wrap(next + x) = Wrap(h + (x + Space(p)))
           /\ \A t \in Position : Space(p) <= Wrap(t - h) => Wrap(t - next) = Wrap(t - h) - Space(p)
<1> DEFINE s == Space(p)  next == Wrap(h + s)
<1>1. Aligned(h) /\ 0 <= h /\ h < Capacity /\ Aligned(s) /\ Align < s /\ s < Capacity
    BY PositionIs, SpaceIs
<1>2. h \in Int /\ s \in Int /\ Capacity \in Nat \ {0} /\ Align \in Nat \ {0}
    BY <1>1, Constants DEF Aligned
<1>3. Aligned(h + s)
    BY <1>1, AlignedAdd
<1> HIDE DEF s
<1>4. next \in Position
    BY <1>1, <1>2, <1>3, WrapPosition
<1>5. next = IF h + s < Capacity THEN h + s ELSE h + s - Capacity
    BY <1>1, <1>2, WrapIs
<1> HIDE DEF next
<1>6. 0 <= next /\ next < Capacity /\ next \in Int
    BY <1>4, PositionIs DEF Aligned
<1>7. ASSUME NEW x \in Int, 0 <= x, x + s < Capacity PROVE Wrap(next + x) = Wrap(h + (x + s))
    <2>1. Wrap(h + (x + s)) = IF h + (x + s) < Capacity THEN h + (x + s) ELSE h + (x + s) - Capacity
        <3>1. h + (x + s) \in Int /\ 0 <= h + (x + s) /\ h + (x + s) < 2 * Capacity
            BY <1>1, <1>2, <1>7
        <3> QED
            BY <1>1, <1>2, <3>1, WrapIs
    <2>2. Wrap(next + x) = IF next + x < Capacity THEN next + x ELSE next + x - Capacity
        <3>1. /\ next + x \in Int /\ ~(next + x < 0)
              /\ -Capacity <= next + x /\ next + x < 2 * Capacity
            BY <1>1, <1>2, <1>6, <1>7
        <3>2. Wrap(next + x) = IF next + x < 0 THEN next + x + Capacity
                               ELSE IF next + x < Capacity THEN next + x ELSE next + x - Capacity
            BY <1>2, <1>6, <1>7, <3>1, WrapIs
        <3> QED
            BY <3>1, <3>2
    <2> QED
        BY <1>1, <1>2, <1>5, <1>7, <2>1, <2>2
<1>8. ASSUME NEW t \in Position, s <= Wrap(t - h) PROVE Wrap(t - next) = Wrap(t - h) - s
    <2>1. Wrap(t - h) = IF h <= t THEN t - h ELSE t - h + Capacity
        BY ContentIs
    <2>2. Wrap(t - next) = IF next <= t THEN t - next ELSE t - next + Capacity
        BY <1>4, ContentIs
    <2>3. 0 <= t /\ t < Capacity /\ t \in Int
        BY PositionIs DEF Aligned
    <2> QED
        BY <1>1, <1>2, <1>5, <1>8, <2>1, <2>2, <2>3
<1> QED
    BY <1>4, <1>7, <1>8 DEF s, next

-----------------------------------------------------------------------------
(* The inductive invariant *)

Stored(d, a, p) == \A k \in 0 .. Space(p) \div Align - 1 : d[a \div Align + k] = <<p, k>>

\* starts holds the offsets from h at which a packet begins, and content, where
\* the last one ends: packets lie one after the other and none over another.
Chain(d, h, starts, content) ==
    /\ starts \in SUBSET Position /\ 0 \in starts /\ content \in starts
    /\ \A x \in starts : x <= content
    /\ \A x \in starts \ {content} : \E p \in Packet :
          /\ x + Space(p) \in starts
          /\ \A y \in starts : y <= x \/ x + Space(p) <= y
          /\ Stored(d, Wrap(h + x), p)

Reading == pc \in {"read", "copied"}

\* Once a ring is closed its client has the tail it has looked at.
SendEnd == IF closed THEN local.tail ELSE tail["send"]
SendInv ==
    ~closed \/ Reading =>
        \E starts \in SUBSET Position :
            /\ Chain(data["send"], head["send"], starts, Wrap(SendEnd - head["send"]))
            /\ Reading => Wrap(local.tail - head["send"]) \in starts

\* The driver may see the tail of an earlier packet.
ReceiveInv ==
    ~closed =>
        \E starts \in SUBSET Position :
            /\ Chain(data["receive"], head["receive"], starts, Wrap(ownTail - head["receive"]))
            /\ Wrap(tail["receive"] - head["receive"]) \in starts

PlaceInv ==
    /\ head["send"] \in Position /\ tail["receive"] \in Position
    /\ IF closed THEN head["receive"] = Invalid /\ tail["send"] = Invalid
                 ELSE head["receive"] \in Position /\ tail["send"] \in Position
    /\ Reading => local.head = head["send"]
    /\ pc = "copied" => local.head # local.tail

\* A session that is not stopped has its read() in one place, or in none if it
\* has been stopped half-way, which is only once the rings are closed.
None(queue, s) == \A i \in DOMAIN queue : queue[i] # s
One(queue, s) == \E i \in DOMAIN queue : queue[i] = s /\ \A j \in DOMAIN queue : queue[j] = s => j = i
ReaderInv ==
    /\ broken => ~halted /\ failed
    /\ ~halted => \/ Reading /\ None(waits, session) /\ None(ready, session)
                  \/ ~Reading /\ One(waits, session) /\ None(ready, session)
                  \/ ~Reading /\ None(waits, session) /\ One(ready, session)
                  \/ ~Reading /\ None(waits, session) /\ None(ready, session) /\ broken
HaltedIsIdle == halted => ~Reading

IInv == TypeOK /\ PlaceInv /\ SendInv /\ ReceiveInv /\ ReaderInv /\ HaltedIsIdle /\ NoFalseAlarm

-----------------------------------------------------------------------------
(* The memory of a ring *)

LEMMA PacketInMemory ==
    ASSUME NEW a \in Position, NEW p \in Packet
    PROVE  /\ a \div Align \in Nat /\ Space(p) \div Align \in Nat \ {0}
           /\ (a + Space(p)) \div Align = (a \div Align) + (Space(p) \div Align)
           /\ \A k \in 0 .. Space(p) \div Align - 1 : a \div Align + k \in Unit
<1> DEFINE s == Space(p)  u == a \div Align  n == s \div Align  whole == Capacity + Trailing
           units == whole \div Align
<1>1. /\ Aligned(a) /\ 0 <= a /\ a < Capacity /\ Aligned(s) /\ Align < s /\ s < Trailing + Align
      /\ Align \in Nat \ {0} /\ Capacity \in Nat \ {0} /\ Trailing \in Nat
    BY PositionIs, SpaceIs, Constants, TrailingHoldsPacket
<1>2. a \in Int /\ u \in Int /\ a = u * Align /\ s \in Int /\ n \in Int /\ s = n * Align
    BY <1>1, AlignedIs
<1>3. (a + s) \div Align = u + n
    BY <1>1, AlignedAdd
<1>4. a + Align <= Capacity
    BY <1>1, Constants, AlignedOrder
<1>5. 0 <= u /\ 1 <= n
    <2> HIDE DEF s
    <2>1. Aligned(0) /\ Aligned(Align) /\ 0 \div Align = 0 /\ Align \div Align = 1
        BY Constants
    <2>2. 0 \div Align <= u
        BY <1>1, <2>1, AlignedOrder
    <2>3. Align <= s
        BY <1>1, <1>2
    <2>4. Align \div Align <= n
        BY <1>1, <2>1, <2>3, AlignedOrder
    <2> QED
        BY <2>1, <2>2, <2>4
<1>6. whole \in Int
    BY <1>1
<1>7. units \in Int /\ whole % Align \in 0 .. (Align - 1) /\ whole = units * Align + (whole % Align)
    BY <1>1, <1>6, DivisionBy
<1>8. a + s < whole
    BY <1>1, <1>2, <1>4
<1>9. PICK left \in 0 .. (Align - 1) : whole = units * Align + left
    BY <1>7
<1>10. Unit = 0 .. units - 1
    BY DEF Unit
<1> HIDE DEF s, u, n, whole, units
<1>11. u + n <= units
    <2>1. SUFFICES ASSUME units + 1 <= u + n PROVE FALSE
        BY <1>2, <1>7
    <2>2. (u + n - (units + 1)) * Align >= 0
        BY <2>1, <1>1, <1>2, <1>7
    <2>3. (u + n) * Align = a + s /\ (units + 1) * Align = units * Align + Align
        BY <1>1, <1>2, <1>7
    <2>4. (u + n - (units + 1)) * Align = (u + n) * Align - (units + 1) * Align
        BY <1>1, <1>2, <1>7
    <2> QED
        BY <2>2, <2>3, <2>4, <1>1, <1>2, <1>7, <1>8, <1>9
<1>12. \A k \in 0 .. n - 1 : u + k \in 0 .. units - 1
    BY <1>2, <1>5, <1>7, <1>11
<1> QED
    BY <1>2, <1>3, <1>5, <1>10, <1>12 DEF s, u, n

\* A packet is where it has been written.
LEMMA StoredWritten ==
    ASSUME NEW d, NEW t \in Position, NEW q \in Packet
    PROVE  Stored(Written(d, q, t), t, q)
<1> DEFINE v == t \div Align  m == Space(q) \div Align
<1>1. /\ v \in Nat /\ m \in Nat \ {0} /\ (t + Space(q)) \div Align = v + m
      /\ \A k \in 0 .. m - 1 : v + k \in Unit
    BY PacketInMemory
<1>2. Written(d, q, t) = [u \in Unit |-> IF v <= u /\ u < v + m THEN <<q, u - v>> ELSE d[u]]
    BY <1>1 DEF Written
<1> HIDE DEF v, m
<1>3. ASSUME NEW k \in 0 .. m - 1 PROVE Written(d, q, t)[v + k] = <<q, k>>
    <2>1. v + k \in Unit /\ v <= v + k /\ v + k < v + m /\ (v + k) - v = k
        BY <1>1
    <2> QED
        BY <1>2, <2>1
<1> QED
    BY <1>3 DEF Stored, v, m

\* Those beside it stay where they are.
LEMMA StoredKept ==
    ASSUME NEW d, NEW t \in Position, NEW q \in Packet, NEW a \in Position, NEW p \in Packet,
           Stored(d, a, p), a + Space(p) <= t \/ t + Space(q) <= a
    PROVE  Stored(Written(d, q, t), a, p)
<1> DEFINE v == t \div Align  m == Space(q) \div Align  u == a \div Align  n == Space(p) \div Align
<1>1. /\ v \in Nat /\ m \in Nat \ {0} /\ (t + Space(q)) \div Align = v + m
      /\ u \in Nat /\ n \in Nat \ {0} /\ (a + Space(p)) \div Align = u + n
      /\ \A k \in 0 .. n - 1 : u + k \in Unit
    BY PacketInMemory
<1>2. Written(d, q, t) = [w \in Unit |-> IF v <= w /\ w < v + m THEN <<q, w - v>> ELSE d[w]]
    BY <1>1 DEF Written
<1>3. Aligned(a) /\ Aligned(t) /\ Aligned(a + Space(p)) /\ Aligned(t + Space(q))
    BY PositionIs, SpaceIs, AlignedAdd
<1>4. u + n <= v \/ v + m <= u
    BY <1>1, <1>3, AlignedOrder
<1>5. \A k \in 0 .. n - 1 : d[u + k] = <<p, k>>
    BY DEF Stored
<1> HIDE DEF v, m, u, n
<1>6. ASSUME NEW k \in 0 .. n - 1 PROVE Written(d, q, t)[u + k] = <<p, k>>
    <2>1. u + k \in Unit /\ ~(v <= u + k /\ u + k < v + m)
        BY <1>1, <1>4
    <2> QED
        BY <1>2, <1>5, <2>1
<1> QED
    BY <1>6 DEF Stored, u, n

LEMMA ChainEmpty ==
    ASSUME NEW d, NEW h \in Position
    PROVE  Wrap(h - h) = 0 /\ {0} \in SUBSET Position /\ Chain(d, h, {0}, 0)
<1>1. 0 \in Position
    BY Constants, PositionIs
<1>2. h \in Int
    BY PositionIs DEF Aligned
<1>3. Wrap(h - h) = h - h
    BY <1>2, ContentIs
<1> QED
    BY <1>1, <1>2, <1>3 DEF Chain

\* A packet for which there is room is the last one of the ring.
LEMMA ChainWrite ==
    ASSUME NEW d, NEW h \in Position, NEW t \in Position, NEW q \in Packet, NEW starts,
           Chain(d, h, starts, Wrap(t - h)), Space(q) <= Free(h, t)
    PROVE  LET end == Wrap(t - h) + Space(q) IN
           /\ Wrap(t + Space(q)) \in Position /\ Wrap(Wrap(t + Space(q)) - h) = end
           /\ starts \cup {end} \in SUBSET Position
           /\ Chain(Written(d, q, t), h, starts \cup {end}, end)
<1> DEFINE c == Wrap(t - h)  s == Space(q)  end == c + s
<1>1. /\ Aligned(h) /\ 0 <= h /\ h < Capacity /\ Aligned(t) /\ 0 <= t /\ t < Capacity
      /\ Aligned(s) /\ Align < s
    BY PositionIs, SpaceIs
<1>2. h \in Int /\ t \in Int /\ s \in Int /\ Capacity \in Nat \ {0} /\ Align \in Nat \ {0}
    BY <1>1, Constants DEF Aligned
<1>3. c \in Position
    BY ContentIs
<1>4. Aligned(c) /\ 0 <= c /\ c < Capacity /\ c \in Int
    BY <1>3, PositionIs DEF Aligned
<1>5. /\ t = Wrap(h + c) /\ end \in Position
      /\ Wrap(t + s) \in Position /\ Wrap(Wrap(t + s) - h) = end
    BY WriteEnds
<1> HIDE DEF c, s
<1>12. /\ starts \in SUBSET Position /\ 0 \in starts /\ c \in starts /\ \A x \in starts : x <= c
       /\ \A x \in starts \ {c} : \E p \in Packet :
             /\ x + Space(p) \in starts
             /\ \A y \in starts : y <= x \/ x + Space(p) <= y
             /\ Stored(d, Wrap(h + x), p)
    BY DEF Chain, c
<1>13. \A x \in starts : x \in Int /\ 0 <= x /\ x <= c /\ x < end
    BY <1>1, <1>2, <1>4, <1>12, PositionIs DEF Aligned
<1> DEFINE new == starts \cup {end}  d2 == Written(d, q, t)
<1>14. /\ new \in SUBSET Position /\ 0 \in new /\ end \in new
       /\ \A x \in new : x <= end
    <2>1. end \in Int
        BY <1>2, <1>4
    <2> QED
        BY <1>5, <1>12, <1>13, <2>1
<1>15. ASSUME NEW x \in new \ {end}
       PROVE  \E p \in Packet : /\ x + Space(p) \in new
                                /\ \A y \in new : y <= x \/ x + Space(p) <= y
                                /\ Stored(d2, Wrap(h + x), p)
    <2>1. x \in starts /\ x \in Int /\ x <= c /\ x < end /\ x \in Position
        BY <1>12, <1>13
    <2>2. CASE x = c
        <3>1. Stored(d2, Wrap(h + x), q)
            BY <2>2, <1>5, StoredWritten
        <3>2. x + Space(q) = end /\ end \in Int
            BY <2>2, <1>2, <1>4 DEF s
        <3>3. \A y \in new : y <= x \/ x + Space(q) <= y
            BY <2>2, <3>2, <1>13
        <3> QED
            BY <3>1, <3>2, <3>3
    <2>3. CASE x # c
        <3>1. PICK p \in Packet : /\ x + Space(p) \in starts
                                  /\ \A y \in starts : y <= x \/ x + Space(p) <= y
                                  /\ Stored(d, Wrap(h + x), p)
            BY <2>1, <2>3, <1>12
        <3> DEFINE e == Space(p)  a == Wrap(h + x)
        <3>2. x + e <= c /\ e \in Int
            BY <3>1, <1>13, SpaceIs DEF Aligned
        <3>3. a \in Position /\ (a + e <= t \/ t + s <= a)
            BY <2>1, <3>2, WriteBeside DEF c, s
        <3>4. Stored(d2, a, p)
            BY <3>1, <3>3, StoredKept DEF s
        <3> HIDE DEF e, a
        <3>5. \A y \in new : y <= x \/ x + e <= y
            <4>1. x + e <= end /\ e \in Int
                BY <1>1, <1>2, <1>4, <2>1, <3>2
            <4> QED
                BY <3>1, <4>1 DEF e
        <3> QED
            BY <3>1, <3>4, <3>5 DEF a, e
    <2> QED
        BY <2>2, <2>3
<1>16. Chain(d2, h, new, end)
    <2> HIDE DEF new, d2, end
    <2> QED
        BY <1>14, <1>15 DEF Chain
<1> QED
    BY <1>5, <1>14, <1>16 DEF c, s

\* What lies at the head of a ring that is not empty is a whole packet.
LEMMA ChainHead ==
    ASSUME NEW d, NEW h \in Position, NEW starts, NEW content, Chain(d, h, starts, content),
           NEW x \in starts, x # 0
    PROVE  \E p \in Packet :
              /\ d[h \div Align] = <<p, 0>> /\ Stored(d, h, p)
              /\ Space(p) \in starts /\ Space(p) <= x
              /\ \A y \in starts : y <= 0 \/ Space(p) <= y
<1>1. /\ starts \in SUBSET Position /\ 0 \in starts /\ content \in starts
      /\ \A y \in starts : y <= content
      /\ \A y \in starts \ {content} : \E p \in Packet :
            /\ y + Space(p) \in starts
            /\ \A z \in starts : z <= y \/ y + Space(p) <= z
            /\ Stored(d, Wrap(h + y), p)
    BY DEF Chain
<1>2. h \in Int /\ 0 <= h /\ h < Capacity /\ Capacity \in Nat \ {0} /\ h \div Align \in Int
    BY PositionIs, Constants, AlignedIs DEF Aligned
<1>3. \A y \in starts : y \in Int /\ 0 <= y
    BY <1>1, PositionIs DEF Aligned
<1>4. content # 0
    BY <1>1, <1>3
<1>5. PICK p \in Packet : /\ 0 + Space(p) \in starts
                          /\ \A z \in starts : z <= 0 \/ 0 + Space(p) <= z
                          /\ Stored(d, Wrap(h + 0), p)
    BY <1>1, <1>4
<1> DEFINE s == Space(p)
<1>6. s \in Int
    BY SpaceIs DEF Aligned
<1>7. Wrap(h) = h
    BY <1>2, WrapIs
<1> HIDE DEF s
<1>8. h + 0 = h /\ 0 + s = s
    BY <1>2, <1>6
<1>9. s \in starts /\ (\A z \in starts : z <= 0 \/ s <= z) /\ Stored(d, h, p)
    BY <1>5, <1>7, <1>8 DEF s
<1>10. s <= x
    BY <1>3, <1>9
<1>11. d[h \div Align] = <<p, 0>>
    <2>1. Space(p) \div Align \in Nat \ {0}
        BY PacketInMemory
    <2>2. 0 \in 0 .. Space(p) \div Align - 1
        BY <2>1
    <2>3. d[h \div Align + 0] = <<p, 0>>
        BY <1>9, <2>2 DEF Stored
    <2>4. h \div Align + 0 = h \div Align
        BY <1>2
    <2> QED
        BY <2>3, <2>4
<1> QED
    BY <1>9, <1>10, <1>11 DEF s

\* The ring after its first packet.
LEMMA ChainRead ==
    ASSUME NEW d, NEW h \in Position, NEW starts, NEW content, Chain(d, h, starts, content),
           NEW p \in Packet, Space(p) \in starts,
           \A y \in starts : y <= 0 \/ Space(p) <= y
    PROVE  LET next == Wrap(h + Space(p))
               rest == {y \in Position : y + Space(p) \in starts}
           IN  /\ next \in Position
               /\ Chain(d, next, rest, content - Space(p))
               /\ \A t \in Position :
                     Wrap(t - h) \in starts /\ Wrap(t - h) # 0 =>
                        Wrap(t - next) = Wrap(t - h) - Space(p) /\ Wrap(t - next) \in rest
<1> DEFINE s == Space(p)  next == Wrap(h + s)
           rest == {y \in Position : y + s \in starts}
<1>1. /\ starts \in SUBSET Position /\ 0 \in starts /\ content \in starts
      /\ \A y \in starts : y <= content
      /\ \A y \in starts \ {content} : \E q \in Packet :
            /\ y + Space(q) \in starts
            /\ \A z \in starts : z <= y \/ y + Space(q) <= z
            /\ Stored(d, Wrap(h + y), q)
    BY DEF Chain
<1>2. Aligned(h) /\ 0 <= h /\ h < Capacity /\ Aligned(s) /\ Align < s
    BY PositionIs, SpaceIs
<1>3. h \in Int /\ s \in Int /\ Capacity \in Nat \ {0} /\ Align \in Nat \ {0}
    BY <1>2, Constants DEF Aligned
<1>4. \A y \in starts : Aligned(y) /\ y \in Int /\ 0 <= y /\ y < Capacity
    BY <1>1, PositionIs DEF Aligned
<1>5. s \in starts /\ \A y \in starts : y <= 0 \/ s <= y
    OBVIOUS
<1> HIDE DEF s
<1>6. s < Capacity /\ 0 < s
    BY <1>2, <1>3, <1>4, <1>5
<1>7. s \in Position
    BY <1>1, <1>5
<1>8. /\ next \in Position
      /\ \A x \in Int : 0 <= x /\ x + s < Capacity => Wrap(next + x) = Wrap(h + (x + s))
      /\ \A t \in Position : s <= Wrap(t - h) => Wrap(t - next) = Wrap(t - h) - s
    BY <1>7, ReadShifts DEF s
<1> HIDE DEF next
<1>10. \A y \in starts : y # 0 => y - s \in Position /\ y - s \in rest
    <2> SUFFICES ASSUME NEW y \in starts, y # 0
                 PROVE  y - s \in Position /\ y - s \in rest
        OBVIOUS
    <2>1. Aligned(y - s)
        BY <1>2, <1>4, AlignedMinus
    <2>2. 0 <= y - s /\ y - s < Capacity /\ (y - s) + s = y
        BY <1>3, <1>4, <1>5, <1>6
    <2> QED
        BY <2>1, <2>2, PositionIs
<1>11. content - s \in rest /\ \A y \in rest : y \in Int /\ y <= content - s /\ 0 <= y
    <2>1. content # 0
        BY <1>1, <1>4, <1>5, <1>6
    <2>2. content - s \in rest
        BY <1>1, <1>10, <2>1
    <2>3. ASSUME NEW y \in rest PROVE y \in Int /\ y <= content - s /\ 0 <= y
        <3>1. y + s <= content /\ y \in Int /\ 0 <= y
            BY <1>1, PositionIs DEF Aligned
        <3>2. content \in Int
            BY <1>1, <1>4
        <3> QED
            BY <3>1, <3>2, <1>3
    <2> QED
        BY <2>2, <2>3
<1>12. 0 \in rest
    <2>1. 0 + s = s /\ 0 \in Position
        BY <1>3, Constants, PositionIs
    <2> QED
        BY <1>5, <2>1
<1>13. ASSUME NEW x \in rest \ {content - s}
       PROVE  \E q \in Packet : /\ x + Space(q) \in rest
                                /\ \A y \in rest : y <= x \/ x + Space(q) <= y
                                /\ Stored(d, Wrap(next + x), q)
    <2>1. x \in Int /\ 0 <= x /\ x + s \in starts /\ content \in Int
        BY <1>1, <1>4, <1>11
    <2>2. x + s # content
        BY <1>3, <2>1
    <2>3. PICK q \in Packet : /\ (x + s) + Space(q) \in starts
                              /\ \A z \in starts : z <= x + s \/ (x + s) + Space(q) <= z
                              /\ Stored(d, Wrap(h + (x + s)), q)
        BY <1>1, <2>1, <2>2
    <2> DEFINE e == Space(q)
    <2>4. e \in Int /\ 0 < e
        BY SpaceIs, <1>3 DEF Aligned
    <2> HIDE DEF e
    <2>5. x + e \in rest
        <3>1. (x + s) + e \in starts
            BY <2>3 DEF e
        <3>2. (x + s) + e # 0 /\ ((x + s) + e) - s = x + e
            BY <1>3, <1>6, <2>1, <2>4
        <3> HIDE DEF rest
        <3>3. ((x + s) + e) - s \in rest
            BY <1>10, <3>1, <3>2
        <3> QED
            BY <3>2, <3>3
    <2>6. ASSUME NEW y \in rest PROVE y <= x \/ x + e <= y
        <3>1. y + s \in starts /\ y \in Int
            BY <1>11
        <3>2. y + s <= x + s \/ (x + s) + e <= y + s
            BY <2>3, <3>1 DEF e
        <3> QED
            BY <1>3, <2>1, <2>4, <3>1, <3>2
    <2>7. x + s < Capacity
        BY <1>4, <2>1
    <2>8. Wrap(next + x) = Wrap(h + (x + s))
        BY <1>8, <2>1, <2>7
    <2> QED
        BY <2>3, <2>5, <2>6, <2>8 DEF e
<1>14. Chain(d, next, rest, content - s)
    <2>1. rest \in SUBSET Position
        OBVIOUS
    <2> HIDE DEF rest
    <2> QED
        BY <1>11, <1>12, <1>13, <2>1 DEF Chain
<1>15. ASSUME NEW t \in Position, Wrap(t - h) \in starts, Wrap(t - h) # 0
       PROVE  Wrap(t - next) = Wrap(t - h) - s /\ Wrap(t - next) \in rest
    <2>1. s <= Wrap(t - h)
        BY <1>4, <1>5, <1>15
    <2>2. Wrap(t - next) = Wrap(t - h) - s
        BY <1>8, <2>1
    <2> QED
        BY <2>2, <1>10, <1>15
<1> QED
    BY <1>8, <1>14, <1>15 DEF s, next

\* As far as one of the packets.
LEMMA ChainCut ==
    ASSUME NEW d, NEW h \in Position, NEW starts, NEW content, Chain(d, h, starts, content),
           NEW end \in starts
    PROVE  Chain(d, h, {x \in starts : x <= end}, end)
<1> DEFINE part == {x \in starts : x <= end}
<1>1. /\ starts \in SUBSET Position /\ 0 \in starts /\ content \in starts
      /\ \A y \in starts : y <= content
      /\ \A y \in starts \ {content} : \E q \in Packet :
            /\ y + Space(q) \in starts
            /\ \A z \in starts : z <= y \/ y + Space(q) <= z
            /\ Stored(d, Wrap(h + y), q)
    BY DEF Chain
<1>2. \A y \in starts : y \in Int /\ 0 <= y
    BY <1>1, PositionIs DEF Aligned
<1>3. part \in SUBSET Position /\ 0 \in part /\ end \in part /\ \A x \in part : x <= end
    BY <1>1, <1>2
<1>4. ASSUME NEW x \in part \ {end}
      PROVE  \E q \in Packet : /\ x + Space(q) \in part
                               /\ \A y \in part : y <= x \/ x + Space(q) <= y
                               /\ Stored(d, Wrap(h + x), q)
    <2>1. x \in starts /\ x < end /\ x # content
        BY <1>1, <1>2
    <2>2. PICK q \in Packet : /\ x + Space(q) \in starts
                              /\ \A z \in starts : z <= x \/ x + Space(q) <= z
                              /\ Stored(d, Wrap(h + x), q)
        BY <1>1, <2>1
    <2>3. x + Space(q) <= end
        BY <1>2, <2>1, <2>2
    <2> QED
        BY <2>2, <2>3
<1> HIDE DEF part
<1>5. Chain(d, h, part, end)
    BY <1>3, <1>4 DEF Chain
<1> QED
    BY <1>5 DEF part

-----------------------------------------------------------------------------
(* Queues of reads *)

LEMMA Appended ==
    ASSUME NEW S, NEW queue \in Seq(S), NEW x \in S, NEW s
    PROVE  /\ Append(queue, x) \in Seq(S)
           /\ None(queue, s) /\ x # s => None(Append(queue, x), s)
           /\ None(queue, s) /\ x = s => One(Append(queue, x), s)
           /\ One(queue, s) /\ x # s => One(Append(queue, x), s)
<1> DEFINE more == Append(queue, x)  n == Len(queue)
<1>1. n \in Nat /\ DOMAIN queue = 1 .. n
    OBVIOUS
<1>2. more \in Seq(S) /\ DOMAIN more = 1 .. n + 1
    OBVIOUS
<1>3. more[n + 1] = x /\ \A i \in 1 .. n : more[i] = queue[i]
    OBVIOUS
<1> HIDE DEF more, n
<1>4. \A i \in 1 .. n + 1 : i \in 1 .. n \/ i = n + 1
    BY <1>1
<1>5. n + 1 \notin 1 .. n /\ n + 1 \in 1 .. n + 1 /\ \A i \in 1 .. n : i \in 1 .. n + 1
    BY <1>1
<1>6. ASSUME None(queue, s), x # s PROVE None(more, s)
    BY <1>1, <1>2, <1>3, <1>4, <1>6 DEF None
<1>7. ASSUME None(queue, s), x = s PROVE One(more, s)
    <2>1. more[n + 1] = s /\ \A j \in 1 .. n + 1 : more[j] = s => j = n + 1
        BY <1>1, <1>3, <1>4, <1>5, <1>7 DEF None
    <2> QED
        BY <2>1, <1>2, <1>5 DEF One
<1>8. ASSUME One(queue, s), x # s PROVE One(more, s)
    <2>1. PICK i \in 1 .. n : queue[i] = s /\ \A j \in 1 .. n : queue[j] = s => j = i
        BY <1>1, <1>8 DEF One
    <2>2. more[i] = s /\ \A j \in 1 .. n + 1 : more[j] = s => j = i
        BY <1>3, <1>4, <1>5, <1>8, <2>1
    <2> QED
        BY <2>1, <2>2, <1>2, <1>5 DEF One
<1> QED
    BY <1>2, <1>6, <1>7, <1>8 DEF more

LEMMA Removed ==
    ASSUME NEW S, NEW queue \in Seq(S), queue # <<>>, NEW s
    PROVE  /\ Head(queue) \in S /\ Tail(queue) \in Seq(S)
           /\ None(queue, s) => None(Tail(queue), s) /\ Head(queue) # s
           /\ One(queue, s) /\ Head(queue) # s => One(Tail(queue), s)
           /\ One(queue, s) /\ Head(queue) = s => None(Tail(queue), s)
<1> DEFINE less == Tail(queue)  n == Len(queue)
<1>1. n \in Nat \ {0} /\ DOMAIN queue = 1 .. n
    OBVIOUS
<1>2. less \in Seq(S) /\ DOMAIN less = 1 .. n - 1
    OBVIOUS
<1>3. \A i \in 1 .. n - 1 : less[i] = queue[i + 1]
    OBVIOUS
<1>4. Head(queue) = queue[1] /\ Head(queue) \in S
    OBVIOUS
<1> HIDE DEF less, n
<1>5. /\ 1 \in 1 .. n
      /\ \A i \in 1 .. n - 1 : i + 1 \in 1 .. n /\ i + 1 # 1
      /\ \A i \in 1 .. n : i # 1 => i - 1 \in 1 .. n - 1 /\ (i - 1) + 1 = i
    BY <1>1
<1>6. ASSUME None(queue, s) PROVE None(less, s) /\ Head(queue) # s
    BY <1>1, <1>2, <1>3, <1>4, <1>5, <1>6 DEF None
<1>7. ASSUME One(queue, s), Head(queue) # s PROVE One(less, s)
    <2>1. PICK i \in 1 .. n : queue[i] = s /\ \A j \in 1 .. n : queue[j] = s => j = i
        BY <1>1, <1>7 DEF One
    <2>2. i # 1
        BY <1>4, <1>5, <1>7, <2>1
    <2>3. i - 1 \in 1 .. n - 1
        BY <1>5, <2>2
    <2>4. less[i - 1] = s
        BY <1>3, <1>5, <2>1, <2>2, <2>3
    <2>5. ASSUME NEW j \in 1 .. n - 1, less[j] = s PROVE j = i - 1
        <3>1. j + 1 = i
            BY <1>3, <1>5, <2>1, <2>5
        <3> QED
            BY <1>1, <3>1
    <2> QED
        BY <2>3, <2>4, <2>5, <1>2 DEF One
<1>8. ASSUME One(queue, s), Head(queue) = s PROVE None(less, s)
    <2>1. PICK i \in 1 .. n : queue[i] = s /\ \A j \in 1 .. n : queue[j] = s => j = i
        BY <1>1, <1>8 DEF One
    <2>2. i = 1
        BY <1>4, <1>5, <1>8, <2>1
    <2> QED
        BY <1>2, <1>3, <1>5, <2>1, <2>2 DEF None
<1> QED
    BY <1>2, <1>4, <1>6, <1>7, <1>8 DEF less

-----------------------------------------------------------------------------
(* What a step leaves alone *)

LEMMA SendKept ==
    ASSUME SendInv, closed' = closed, data'["send"] = data["send"],
           head'["send"] = head["send"], tail'["send"] = tail["send"],
           Reading' => Reading /\ local'.tail = local.tail
    PROVE  SendInv'
<1>1. CASE ~closed
    BY <1>1 DEF SendInv, SendEnd
<1>2. CASE closed /\ Reading'
    BY <1>2 DEF SendInv, SendEnd
<1>3. CASE closed /\ ~Reading'
    BY <1>3 DEF SendInv
<1> QED
    BY <1>1, <1>2, <1>3

LEMMA ReceiveKept ==
    ASSUME ReceiveInv, closed' = closed, data'["receive"] = data["receive"],
           head'["receive"] = head["receive"], ownTail' = ownTail,
           tail'["receive"] = tail["receive"] \/ tail'["receive"] = ownTail
    PROVE  ReceiveInv'
<1>1. SUFFICES ASSUME ~closed PROVE ReceiveInv'
    BY DEF ReceiveInv
<1>2. PICK starts \in SUBSET Position :
         /\ Chain(data["receive"], head["receive"], starts, Wrap(ownTail - head["receive"]))
         /\ Wrap(tail["receive"] - head["receive"]) \in starts
    BY <1>1 DEF ReceiveInv
<1>3. Wrap(ownTail - head["receive"]) \in starts
    BY <1>2 DEF Chain
<1> QED
    BY <1>2, <1>3 DEF ReceiveInv

LEMMA PlaceKept ==
    ASSUME PlaceInv, UNCHANGED <<head, tail, closed>>,
           Reading' => Reading /\ local'.head = local.head /\ local'.tail = local.tail,
           pc' = "copied" => pc = "copied"
    PROVE  PlaceInv'
<1>1. pc' = "copied" => Reading'
    BY DEF Reading
<1>2. Reading' => local'.head = head'["send"]
    BY DEF PlaceInv
<1>3. pc' = "copied" => local'.head # local'.tail
    BY <1>1 DEF PlaceInv
<1> QED
    BY <1>2, <1>3 DEF PlaceInv

LEMMA ReaderKept ==
    ASSUME ReaderInv, UNCHANGED <<session, waits, ready, halted, broken, failed>>, Reading' <=> Reading
    PROVE  ReaderInv'
BY DEF ReaderInv

-----------------------------------------------------------------------------
(* The types *)

LEMMA WrittenType ==
    ASSUME NEW d \in [Unit -> (Packet \cup {Nothing}) \X Nat], NEW t \in Position, NEW p \in Packet
    PROVE  Written(d, p, t) \in [Unit -> (Packet \cup {Nothing}) \X Nat]
<1>1. t \div Align \in Nat
    BY PacketInMemory
<1>2. \A u \in Unit : t \div Align <= u => u - t \div Align \in Nat
    BY <1>1 DEF Unit
<1> QED
    BY <1>2 DEF Written

LEMMA QueueType ==
    ASSUME NEW queue \in Seq(Packet), NEW p \in Packet
    PROVE  Without(queue) \in Seq(Packet) /\ Append(queue, p) \in Seq(Packet)
BY DEF Without

LEMMA HeldType ==
    ASSUME TypeOK, NEW r \in Ring, NEW p \in Packet,
           \/ held' = held
           \/ held' = [held EXCEPT ![r] = Without(@)]
           \/ held' = [held EXCEPT ![r] = Append(@, p)]
    PROVE  held' \in [Ring -> Seq(Packet)]
<1>1. held \in [Ring -> Seq(Packet)]
    BY DEF TypeOK
<1>2. Without(held[r]) \in Seq(Packet) /\ Append(held[r], p) \in Seq(Packet)
    BY <1>1, QueueType
<1> QED
    BY <1>1, <1>2

-----------------------------------------------------------------------------
(* Initially *)

LEMMA Initial == Init => IInv
<1> SUFFICES ASSUME Init PROVE IInv
    OBVIOUS
<1> USE DEF Init
<1>1. 0 \in Position
    BY Constants, PositionIs
<1>2. /\ Wrap(0 - 0) = 0 /\ {0} \in SUBSET Position
      /\ Chain(data["send"], 0, {0}, 0) /\ Chain(data["receive"], 0, {0}, 0)
    BY <1>1, ChainEmpty
<1>3. /\ head["send"] = 0 /\ tail["send"] = 0 /\ head["receive"] = 0 /\ tail["receive"] = 0
      /\ ownTail = 0 /\ ~closed /\ ~Reading
    BY DEF Ring, Reading
<1>4. TypeOK
    <2>1. data \in [Ring -> [Unit -> (Packet \cup {Nothing}) \X Nat]]
        OBVIOUS
    <2>2. 1 \in 1 .. MaxSessions /\ <<>> \in Seq(1 .. 1) /\ <<1>> \in Seq(1 .. 1)
        BY SessionsAreBounded
    <2>3. local \in Local
        BY <1>1 DEF NoLocal, Local
    <2>4. held \in [Ring -> Seq(Packet)]
        OBVIOUS
    <2> QED
        BY <1>1, <2>1, <2>2, <2>3, <2>4 DEF TypeOK
<1>5. PlaceInv
    BY <1>1, <1>3 DEF PlaceInv, Reading
<1>6. SendInv
    BY <1>2, <1>3 DEF SendInv, SendEnd
<1>7. ReceiveInv
    BY <1>2, <1>3 DEF ReceiveInv
<1>8. ReaderInv
    <2>1. None(waits, session)
        BY DEF None
    <2>2. One(ready, session)
        BY DEF One
    <2> QED
        BY <1>3, <2>1, <2>2 DEF ReaderInv
<1> QED
    BY <1>3, <1>4, <1>5, <1>6, <1>7, <1>8 DEF IInv, HaltedIsIdle, NoFalseAlarm

-----------------------------------------------------------------------------
(* The client: read() *)

LEMMA OpenIs ==
    ASSUME TypeOK, PlaceInv
    PROVE  /\ tail["send"] < Capacity => ~closed
           /\ tail["send"] >= Capacity => closed
           /\ head["receive"] <= Capacity => ~closed
           /\ head["receive"] > Capacity => closed
<1>1. Invalid \in Nat /\ Invalid > Capacity /\ Capacity \in Nat
    BY InvalidIsBeyond, Constants
<1>2. \A a \in Position : a \in Int /\ a < Capacity
    BY PositionIs DEF Aligned
<1>3. CASE closed
    BY <1>1, <1>3 DEF PlaceInv
<1>4. CASE ~closed
    BY <1>1, <1>2, <1>4 DEF PlaceInv
<1> QED
    BY <1>3, <1>4

LEMMA ReadBeginsCorrect ==
    ASSUME IInv, ReadBegins
    PROVE  IInv'
<1> USE DEF IInv
<1>1. /\ pc = "idle" /\ ready # <<>> /\ ready' = Tail(ready)
      /\ UNCHANGED <<traffic, ringVars, session, waits, driver, closed, given, held>>
    BY DEF ReadBegins
<1>2. UNCHANGED <<head, tail, data, ownTail, alertable, event>>
    BY <1>1 DEF ringVars
<1>3. ready \in Seq(1 .. session) /\ session \in 1 .. MaxSessions
    BY DEF TypeOK
<1>4. /\ Tail(ready) \in Seq(1 .. session)
      /\ None(ready, session) => None(Tail(ready), session) /\ Head(ready) # session
      /\ One(ready, session) /\ Head(ready) # session => One(Tail(ready), session)
      /\ One(ready, session) /\ Head(ready) = session => None(Tail(ready), session)
    BY <1>1, <1>3, Removed
<1>5. ~Reading
    BY <1>1 DEF Reading
<1>6. ReceiveInv'
    BY <1>1, <1>2, ReceiveKept
<1>7. CASE Ended(Head(ready)) /\ UNCHANGED <<halted, broken, pc, local, failed>>
    <2>1. TypeOK'
        BY <1>1, <1>2, <1>4, <1>7 DEF TypeOK
    <2>2. ~Reading'
        BY <1>5, <1>7 DEF Reading
    <2>3. PlaceInv'
        BY <1>1, <1>2, <1>7, <2>2, PlaceKept
    <2>4. SendInv'
        BY <1>1, <1>2, <2>2, SendKept
    <2>5. ReaderInv'
        <3> SUFFICES ASSUME ~halted PROVE ReaderInv'
            BY <1>7 DEF ReaderInv
        <3>1. Head(ready) # session
            BY <1>7 DEF Ended
        <3>2. broken' => ~halted' /\ failed'
            BY <1>7 DEF ReaderInv
        <3>3. \/ One(waits, session) /\ None(ready, session)
              \/ None(waits, session) /\ One(ready, session)
              \/ None(waits, session) /\ None(ready, session) /\ broken'
            BY <1>5, <1>7 DEF ReaderInv
        <3> QED
            BY <1>1, <1>4, <2>2, <3>1, <3>2, <3>3 DEF ReaderInv
    <2>6. HaltedIsIdle'
        BY <2>2 DEF HaltedIsIdle
    <2>7. NoFalseAlarm'
        BY <1>1, <1>7 DEF NoFalseAlarm
    <2> QED
        BY <1>6, <2>1, <2>3, <2>4, <2>5, <2>6, <2>7
<1>8. CASE tail["send"] >= Capacity /\ TunError /\ UNCHANGED <<pc, local>>
    <2>1. TypeOK'
        <3>1. halted' \in BOOLEAN /\ broken' = broken /\ failed' = TRUE
            BY <1>8 DEF TunError, StopSession
        <3> QED
            BY <1>1, <1>2, <1>4, <1>8, <3>1 DEF TypeOK
    <2>2. ~Reading'
        BY <1>5, <1>8 DEF Reading
    <2>3. PlaceInv'
        BY <1>1, <1>2, <1>8, <2>2, PlaceKept
    <2>4. SendInv'
        BY <1>1, <1>2, <2>2, SendKept
    <2>5. ReaderInv'
        <3>1. CASE halted'
            BY <1>8, <3>1 DEF ReaderInv, TunError, StopSession
        <3>2. CASE ~halted'
            <4>1. ~halted /\ broken /\ broken' /\ failed' /\ session' = session /\ waits' = waits
                BY <1>1, <1>8, <3>2 DEF TunError, StopSession
            <4>2. \/ One(waits, session) /\ None(ready, session)
                  \/ None(waits, session) /\ One(ready, session)
                  \/ None(waits, session) /\ None(ready, session)
                BY <1>5, <4>1 DEF ReaderInv
            <4>3. CASE Head(ready) = session
                <5>1. ~None(ready, session)
                    BY <1>4, <4>3
                <5> QED
                    BY <1>1, <1>4, <2>2, <3>2, <4>1, <4>2, <4>3, <5>1 DEF ReaderInv
            <4>4. CASE Head(ready) # session
                BY <1>1, <1>4, <2>2, <3>2, <4>1, <4>2, <4>4 DEF ReaderInv
            <4> QED
                BY <4>3, <4>4
        <3> QED
            BY <3>1, <3>2
    <2>6. HaltedIsIdle'
        BY <2>2 DEF HaltedIsIdle
    <2>7. NoFalseAlarm'
        BY <1>1, <1>8, OpenIs DEF NoFalseAlarm
    <2> QED
        BY <1>6, <2>1, <2>3, <2>4, <2>5, <2>6, <2>7
<1>9. CASE /\ ~Ended(Head(ready)) /\ tail["send"] < Capacity /\ pc' = "read"
           /\ local' = [head |-> head["send"], tail |-> tail["send"], buf |-> Nothing]
           /\ UNCHANGED <<halted, broken, failed>>
    <2>1. ~closed /\ head["send"] \in Position /\ tail["send"] \in Position
        BY <1>9, OpenIs DEF PlaceInv
    <2>2. TypeOK'
        <3>1. local' \in Local
            BY <1>9, <2>1 DEF Local
        <3> QED
            BY <1>1, <1>2, <1>4, <1>9, <3>1 DEF TypeOK
    <2>3. Head(ready) = session /\ ~halted
        BY <1>9 DEF Ended
    <2>4. Reading' /\ local'.head = head["send"] /\ local'.tail = tail["send"]
        BY <1>9 DEF Reading
    <2>5. PlaceInv'
        BY <1>1, <1>2, <1>9, <2>1, <2>4 DEF PlaceInv
    <2>6. SendInv'
        <3>1. PICK starts \in SUBSET Position :
                 Chain(data["send"], head["send"], starts, Wrap(tail["send"] - head["send"]))
            BY <2>1 DEF SendInv, SendEnd
        <3>2. Wrap(tail["send"] - head["send"]) \in starts
            BY <3>1 DEF Chain
        <3> QED
            BY <1>1, <1>2, <2>1, <2>4, <3>1, <3>2 DEF SendInv, SendEnd
    <2>7. ReaderInv'
        <3>1. broken' => ~halted' /\ failed'
            BY <1>9 DEF ReaderInv
        <3>2. None(waits, session) /\ One(ready, session)
            BY <1>4, <1>5, <2>3 DEF ReaderInv
        <3> QED
            BY <1>1, <1>4, <2>3, <2>4, <3>1, <3>2 DEF ReaderInv
    <2>8. HaltedIsIdle'
        BY <1>9, <2>3 DEF HaltedIsIdle
    <2>9. NoFalseAlarm'
        BY <1>1, <1>9 DEF NoFalseAlarm
    <2> QED
        BY <1>6, <2>2, <2>5, <2>6, <2>7, <2>8, <2>9
<1> QED
    BY <1>7, <1>8, <1>9 DEF ReadBegins

LEMMA ReadWaitsCorrect ==
    ASSUME IInv, ReadWaits
    PROVE  IInv'
<1> USE DEF IInv
<1>1. /\ pc = "read" /\ waits' = Append(waits, session) /\ pc' = "idle" /\ local' = NoLocal
      /\ UNCHANGED <<traffic, ringVars, session, halted, broken, ready, failed, driver, closed, given,
                     held>>
    BY DEF ReadWaits
<1>2. UNCHANGED <<head, tail, data, ownTail, alertable, event>>
    BY <1>1 DEF ringVars
<1>3. waits \in Seq(1 .. session) /\ session \in 1 .. MaxSessions /\ session \in 1 .. session
    BY DEF TypeOK
<1>4. /\ Append(waits, session) \in Seq(1 .. session)
      /\ None(waits, session) => One(Append(waits, session), session)
    BY <1>3, Appended
<1>5. Reading /\ ~Reading' /\ ~halted
    BY <1>1 DEF Reading, HaltedIsIdle
<1>6. TypeOK'
    <2>1. local' \in Local
        BY <1>1, Constants, PositionIs DEF Local, NoLocal
    <2> QED
        BY <1>1, <1>2, <1>4, <2>1 DEF TypeOK
<1>7. PlaceInv'
    BY <1>1, <1>2, <1>5, PlaceKept
<1>8. SendInv'
    BY <1>1, <1>2, <1>5, SendKept
<1>9. ReceiveInv'
    BY <1>1, <1>2, ReceiveKept
<1>10. ReaderInv'
    BY <1>1, <1>4, <1>5 DEF ReaderInv
<1>11. HaltedIsIdle' /\ NoFalseAlarm'
    BY <1>1, <1>5 DEF HaltedIsIdle, NoFalseAlarm
<1> QED
    BY <1>6, <1>7, <1>8, <1>9, <1>10, <1>11

\* What read() finds below the tail it has looked at.
LEMMA ReadFinds ==
    ASSUME IInv, Reading, local.head # local.tail
    PROVE  LET h == head["send"]  d == data["send"] IN
           \E starts \in SUBSET Position : \E p \in Packet :
              /\ h \in Position /\ SendEnd \in Position /\ local.head = h /\ local.tail \in Position
              /\ Chain(d, h, starts, Wrap(SendEnd - h))
              /\ Wrap(local.tail - h) \in starts /\ Wrap(local.tail - h) # 0
              /\ Wrap(SendEnd - h) \in starts /\ Wrap(SendEnd - h) # 0
              /\ d[h \div Align] = <<p, 0>> /\ Stored(d, h, p)
              /\ Space(p) \in starts /\ Space(p) <= Wrap(local.tail - h)
              /\ \A y \in starts : y <= 0 \/ Space(p) <= y
<1> USE DEF IInv
<1> DEFINE h == head["send"]  d == data["send"]
<1>1. h \in Position /\ local.head = h /\ local.tail \in Position
    BY DEF TypeOK, PlaceInv, Local
<1>2. SendEnd \in Position
    BY <1>1 DEF PlaceInv, SendEnd
<1>3. PICK starts \in SUBSET Position :
         Chain(d, h, starts, Wrap(SendEnd - h)) /\ Wrap(local.tail - h) \in starts
    BY DEF SendInv
<1> DEFINE x == Wrap(local.tail - h)  c == Wrap(SendEnd - h)
<1>4. x # 0
    <2>1. x = IF h <= local.tail THEN local.tail - h ELSE local.tail - h + Capacity
        BY <1>1, ContentIs
    <2>2. /\ h \in Int /\ local.tail \in Int /\ Capacity \in Int
          /\ 0 <= local.tail /\ h < Capacity
        BY <1>1, PositionIs, Constants DEF Aligned
    <2> HIDE DEF x, h
    <2>3. h # local.tail
        BY <1>1
    <2> QED
        BY <2>1, <2>2, <2>3
<1>5. c \in starts /\ x <= c
    BY <1>3 DEF Chain
<1>6. x \in Int /\ c \in Int /\ 0 <= x
    BY <1>3, <1>5, PositionIs DEF Aligned
<1>7. c # 0
    BY <1>4, <1>5, <1>6
<1>8. PICK p \in Packet :
         /\ d[h \div Align] = <<p, 0>> /\ Stored(d, h, p)
         /\ Space(p) \in starts /\ Space(p) <= x
         /\ \A y \in starts : y <= 0 \/ Space(p) <= y
    <2> HIDE DEF h, d, x
    <2> QED
        BY <1>1, <1>3, <1>4, ChainHead DEF x
<1> QED
    BY <1>1, <1>2, <1>3, <1>4, <1>5, <1>7, <1>8

LEMMA ReadCopiesCorrect ==
    ASSUME IInv, ReadCopies
    PROVE  IInv'
<1> USE DEF IInv
<1> DEFINE h == head["send"]  d == data["send"]
<1>1. /\ pc = "read" /\ local.head # local.tail
      /\ UNCHANGED <<traffic, ringVars, session, waits, ready, driver, closed, given, held>>
    BY DEF ReadCopies
<1>2. UNCHANGED <<head, tail, data, ownTail, alertable, event>>
    BY <1>1 DEF ringVars
<1>3. Reading
    BY <1>1 DEF Reading
<1>4. PICK starts \in SUBSET Position, p \in Packet :
         /\ h \in Position /\ local.head = h /\ local.tail \in Position
         /\ Wrap(local.tail - h) \in starts /\ Wrap(local.tail - h) # 0
         /\ d[h \div Align] = <<p, 0>> /\ Space(p) <= Wrap(local.tail - h)
    BY <1>1, <1>3, ReadFinds
<1> DEFINE x == Wrap(local.tail - local.head)  q == data["send"][local.head \div Align][1]
<1>5. q = p /\ Starts(d, local.head)
    <2>1. d[local.head \div Align] = <<p, 0>>
        BY <1>4
    <2> QED
        BY <2>1, NothingIsNoPacket DEF Starts
<1>6. ~(x < Header)
    <2>1. x \in Position /\ x # 0
        BY <1>4
    <2>2. x \in Int /\ 0 < x /\ Aligned(x)
        BY <2>1, PositionIs DEF Aligned
    <2> HIDE DEF x
    <2>3. 0 + Align <= x /\ Align \in Nat
        BY <2>2, Constants, AlignedOrder
    <2> QED
        BY <2>2, <2>3, HeaderIsOneUnit
<1>7. ~Incomplete(q, x)
    <2>1. x \in Int /\ Space(p) \in Int /\ Space(p) <= x
        BY <1>4, SpaceIs, PositionIs DEF Aligned
    <2> HIDE DEF x, q
    <2> QED
        BY <1>5, <2>1 DEF Incomplete
<1>8. /\ pc' = "copied" /\ UNCHANGED <<halted, broken, failed>>
      /\ local' = [local EXCEPT !.buf = IF Whole(d, local.head) THEN q ELSE Nothing]
    BY <1>5, <1>6, <1>7 DEF ReadCopies
<1> HIDE DEF x, q
<1>9. TypeOK'
    <2>1. local' \in Local
        BY <1>5, <1>8 DEF TypeOK, Local
    <2> QED
        BY <1>1, <1>2, <1>8, <2>1 DEF TypeOK
<1>10. Reading' /\ local'.head = local.head /\ local'.tail = local.tail
    <2>1. local \in Local
        BY DEF TypeOK
    <2> QED
        BY <1>8, <2>1 DEF Reading, Local
<1>11. PlaceInv'
    BY <1>1, <1>2, <1>3, <1>10 DEF PlaceInv
<1>12. SendInv'
    BY <1>1, <1>2, <1>3, <1>10, SendKept
<1>13. ReceiveInv'
    BY <1>1, <1>2, ReceiveKept
<1>14. ReaderInv'
    BY <1>1, <1>3, <1>8, <1>10 DEF ReaderInv
<1>15. HaltedIsIdle' /\ NoFalseAlarm'
    BY <1>1, <1>3, <1>8 DEF HaltedIsIdle, NoFalseAlarm
<1> QED
    BY <1>9, <1>11, <1>12, <1>13, <1>14, <1>15

LEMMA ReadReleasesCorrect ==
    ASSUME IInv, ReadReleases
    PROVE  IInv'
<1> USE DEF IInv
<1> DEFINE h == head["send"]  d == data["send"]
<1>1. /\ pc = "copied"
      /\ UNCHANGED <<traffic, tail, data, ownTail, alertable, event, session, waits, ready, driver,
                     closed>>
    BY DEF ReadReleases
<1>2. Reading /\ ~halted /\ local.head # local.tail
    BY <1>1 DEF Reading, HaltedIsIdle, PlaceInv
<1>3. PICK starts \in SUBSET Position, p \in Packet :
         /\ h \in Position /\ SendEnd \in Position /\ local.head = h /\ local.tail \in Position
         /\ Chain(d, h, starts, Wrap(SendEnd - h))
         /\ Wrap(local.tail - h) \in starts /\ Wrap(local.tail - h) # 0
         /\ Wrap(SendEnd - h) \in starts /\ Wrap(SendEnd - h) # 0
         /\ d[h \div Align] = <<p, 0>>
         /\ Space(p) \in starts
         /\ \A y \in starts : y <= 0 \/ Space(p) <= y
    BY <1>2, ReadFinds
<1> DEFINE next == Wrap(h + Space(p))  rest == {y \in Position : y + Space(p) \in starts}
<1>4. /\ next \in Position /\ Chain(d, next, rest, Wrap(SendEnd - h) - Space(p))
      /\ \A t \in Position :
            Wrap(t - h) \in starts /\ Wrap(t - h) # 0 =>
                Wrap(t - next) = Wrap(t - h) - Space(p) /\ Wrap(t - next) \in rest
    <2>1. /\ h \in Position /\ Chain(d, h, starts, Wrap(SendEnd - h))
          /\ p \in Packet /\ Space(p) \in starts
          /\ \A y \in starts : y <= 0 \/ Space(p) <= y
        BY <1>3
    <2> HIDE DEF h, d
    <2> QED
        BY <2>1, ChainRead, Zenon
<1>5. /\ Chain(d, next, rest, Wrap(SendEnd - next)) /\ Wrap(local.tail - next) \in rest
      /\ rest \in SUBSET Position
    BY <1>3, <1>4
<1>6. /\ head' = [head EXCEPT !["send"] = next]
      /\ given' = [given EXCEPT !["send"] = local.buf]
      /\ held' = [held EXCEPT !["send"] = Without(@)]
      /\ \/ UNCHANGED <<halted, broken, failed>>
         \/ StopSession /\ UNCHANGED failed
         \/ head["receive"] > Capacity /\ SendError
      /\ IF halted' THEN pc' = "idle" /\ local' = NoLocal
                    ELSE pc' = "read" /\ local' = Rest(next)
    <2>1. data["send"][local.head \div Align][1] = p
        BY <1>3
    <2>2. Wrap(local.head + Space(p)) = next
        BY <1>3
    <2>3. /\ \/ UNCHANGED <<halted, broken, failed>>
             \/ StopSession /\ UNCHANGED failed
             \/ head["receive"] > Capacity /\ SendError
          /\ IF halted' THEN pc' = "idle" /\ local' = NoLocal
                        ELSE pc' = "read"
                             /\ local' = Rest(Wrap(local.head + Space(data["send"][local.head \div Align][1])))
        BY DEF ReadReleases
    <2>4. /\ head' = [head EXCEPT !["send"] = Wrap(local.head + Space(data["send"][local.head \div Align][1]))]
          /\ given' = [given EXCEPT !["send"] = local.buf]
          /\ held' = [held EXCEPT !["send"] = Without(@)]
        BY DEF ReadReleases
    <2> HIDE DEF next
    <2> QED
        BY <2>1, <2>2, <2>3, <2>4
<1> HIDE DEF next, rest, d
<1>7. local \in Local
    BY DEF TypeOK
<1>8. TypeOK'
    <2>1. local' \in Local
        <3>1. NoLocal \in Local
            BY Constants, PositionIs DEF Local, NoLocal
        <3>2. Rest(next) \in Local
            BY <1>4, <1>7 DEF Rest, Local
        <3> QED
            BY <1>6, <3>1, <3>2
    <2>2. head' \in [Ring -> Position \cup {Invalid}]
        BY <1>4, <1>6 DEF TypeOK
    <2>3. given' \in [Ring -> Packet \cup {Nothing}]
        BY <1>6, <1>7 DEF TypeOK, Local
    <2>4. pc' \in {"idle", "read", "copied", "sent"}
        BY <1>6
    <2>5. halted' \in BOOLEAN /\ broken' \in BOOLEAN /\ failed' \in BOOLEAN
        BY <1>6 DEF TypeOK, StopSession, SendError
    <2>6. held' \in [Ring -> Seq(Packet)]
        BY <1>3, <1>6, HeldType DEF Ring
    <2> QED
        BY <1>1, <2>1, <2>2, <2>3, <2>4, <2>5, <2>6 DEF TypeOK
<1>9. head'["send"] = next /\ head'["receive"] = head["receive"]
    BY <1>6 DEF TypeOK, Ring
<1>10. Reading' => ~halted' /\ local'.head = next /\ local'.tail = local.tail
    BY <1>6, <1>7 DEF Reading, Rest, Local
<1>11. pc' # "copied"
    BY <1>6
<1>12. PlaceInv'
    BY <1>1, <1>4, <1>9, <1>10, <1>11 DEF PlaceInv
<1>13. SendInv'
    <2>1. SendEnd' = SendEnd \/ (closed /\ ~Reading')
        BY <1>1, <1>10 DEF SendEnd
    <2> QED
        BY <1>1, <1>5, <1>9, <1>10, <2>1 DEF SendInv, d
<1>14. ReceiveInv'
    BY <1>1, <1>9, ReceiveKept
<1>15. ReaderInv'
    <2>1. None(waits', session') /\ None(ready', session')
        BY <1>1, <1>2 DEF ReaderInv
    <2>2. broken' => ~halted' /\ failed'
        <3>1. broken => ~halted /\ failed
            BY DEF ReaderInv
        <3>2. CASE UNCHANGED <<halted, broken, failed>>
            BY <3>1, <3>2
        <3>3. CASE StopSession /\ UNCHANGED failed
            <4>1. broken' = broken /\ failed' = failed /\ halted' = (halted \/ ~broken)
                BY <3>3 DEF StopSession
            <4> QED
                BY <3>1, <4>1
        <3>4. CASE SendError
            BY <1>2, <3>4 DEF SendError
        <3> QED
            BY <1>6, <3>2, <3>3, <3>4
    <2>3. ~halted' => Reading'
        BY <1>6 DEF Reading
    <2> QED
        BY <2>1, <2>2, <2>3 DEF ReaderInv
<1>16. HaltedIsIdle'
    BY <1>10 DEF HaltedIsIdle
<1>17. NoFalseAlarm'
    BY <1>1, <1>6, OpenIs DEF NoFalseAlarm
<1> QED
    BY <1>8, <1>12, <1>13, <1>14, <1>15, <1>16, <1>17

-----------------------------------------------------------------------------
(* The client: its other handlers *)

LEMMA TunSendCorrect ==
    ASSUME IInv, TunSend
    PROVE  IInv'
<1> USE DEF IInv
<1> DEFINE h == head["receive"]  d == data["receive"]
<1>1. /\ pc = "idle"
      /\ UNCHANGED <<traffic, head, tail, alertable, event, session, halted, broken, waits, ready,
                     local, failed, driver, closed, given>>
    BY DEF TunSend
<1>2. ~Reading
    BY <1>1 DEF Reading
<1>3. ASSUME NEW p \in Packet, h <= Capacity, Space(p) <= Free(h, ownTail), pc' = "sent",
             data' = [data EXCEPT !["receive"] = Written(@, p, ownTail)],
             held' = [held EXCEPT !["receive"] = Append(@, p)],
             ownTail' = Wrap(ownTail + Space(p))
      PROVE  IInv'
    <2>1. ~closed /\ h \in Position /\ ownTail \in Position /\ tail["receive"] = ownTail
        BY <1>3, OpenIs DEF PlaceInv, TypeOK, TunSend
    <2>2. PICK starts \in SUBSET Position : Chain(d, h, starts, Wrap(ownTail - h))
        BY <2>1 DEF ReceiveInv
    <2> DEFINE end == Wrap(ownTail - h) + Space(p)
    <2>3. /\ Wrap(ownTail + Space(p)) \in Position /\ Wrap(Wrap(ownTail + Space(p)) - h) = end
          /\ starts \cup {end} \in SUBSET Position
          /\ Chain(Written(d, p, ownTail), h, starts \cup {end}, end)
        <3>1. /\ h \in Position /\ ownTail \in Position /\ p \in Packet
              /\ Chain(d, h, starts, Wrap(ownTail - h)) /\ Space(p) <= Free(h, ownTail)
            BY <1>3, <2>1, <2>2
        <3> HIDE DEF h, d
        <3> QED
            BY <3>1, ChainWrite, Zenon
    <2> HIDE DEF end
    <2>4. /\ data'["send"] = data["send"] /\ data'["receive"] = Written(d, p, ownTail)
          /\ data' \in [Ring -> [Unit -> (Packet \cup {Nothing}) \X Nat]]
        <3>1. data \in [Ring -> [Unit -> (Packet \cup {Nothing}) \X Nat]]
            BY DEF TypeOK
        <3>2. Written(d, p, ownTail) \in [Unit -> (Packet \cup {Nothing}) \X Nat]
            BY <2>1, <3>1, WrittenType DEF Ring
        <3> QED
            BY <1>3, <3>1, <3>2 DEF Ring
    <2>5. ~Reading'
        BY <1>3 DEF Reading
    <2>6. TypeOK'
        <3>1. held' \in [Ring -> Seq(Packet)]
            BY <1>3, HeldType DEF Ring
        <3> QED
            BY <1>1, <1>3, <2>3, <2>4, <3>1 DEF TypeOK
    <2>7. PlaceInv'
        BY <1>1, <1>3, <2>5, PlaceKept
    <2>8. SendInv'
        BY <1>1, <2>4, <2>5, SendKept
    <2>9. ReceiveInv'
        <3>1. Wrap(tail["receive"] - h) \in starts
            BY <2>1, <2>2 DEF Chain
        <3> QED
            BY <1>1, <1>3, <2>3, <2>4, <3>1 DEF ReceiveInv
    <2>10. ReaderInv'
        BY <1>1, <1>2, <1>3, <2>5, ReaderKept
    <2>11. HaltedIsIdle' /\ NoFalseAlarm'
        BY <1>1, <1>3, <2>5 DEF HaltedIsIdle, NoFalseAlarm
    <2> QED
        BY <2>6, <2>7, <2>8, <2>9, <2>10, <2>11
<1> QED
    BY <1>3 DEF TunSend

LEMMA TunSendFailsCorrect ==
    ASSUME IInv, TunSendFails
    PROVE  IInv'
<1> USE DEF IInv
<1>1. /\ ~halted /\ ~halted' /\ broken' = TRUE /\ failed' = TRUE /\ head["receive"] > Capacity
      /\ UNCHANGED <<traffic, head, tail, data, ownTail, alertable, event, session, halted, waits, ready,
                     pc, local, driver, closed, given, held>>
    BY DEF TunSendFails, SendError, ringVars
<1>2. Reading' <=> Reading
    BY <1>1 DEF Reading
<1>3. TypeOK'
    BY <1>1 DEF TypeOK
<1>4. PlaceInv' /\ SendInv' /\ ReceiveInv'
    <2>1. pc' = pc
        BY <1>1
    <2> QED
        BY <1>1, <1>2, <2>1, PlaceKept, SendKept, ReceiveKept
<1>5. ReaderInv' /\ HaltedIsIdle'
    BY <1>1, <1>2 DEF ReaderInv, HaltedIsIdle
<1>6. NoFalseAlarm'
    BY <1>1, OpenIs DEF NoFalseAlarm
<1> QED
    BY <1>3, <1>4, <1>5, <1>6

LEMMA WaitFailsCorrect ==
    ASSUME IInv, WaitFails
    PROVE  IInv'
<1> USE DEF IInv
<1>1. /\ pc = "idle" /\ waits # <<>> /\ waits' = Tail(waits)
      /\ UNCHANGED <<traffic, head, tail, data, ownTail, alertable, event, session, ready, pc, local,
                     failed, driver, closed, given, held>>
    BY DEF WaitFails, ringVars
<1>2. /\ broken' = broken /\ halted' \in BOOLEAN
      /\ halted' = halted \/ (halted' = (halted \/ ~broken) /\ ~Ended(Head(waits)))
      /\ Ended(Head(waits)) => halted' = halted
      /\ ~Ended(Head(waits)) => halted' = (halted \/ ~broken)
    BY DEF WaitFails, StopSession, TypeOK
<1>3. waits \in Seq(1 .. session)
    BY DEF TypeOK
<1>4. /\ Tail(waits) \in Seq(1 .. session)
      /\ None(waits, session) => None(Tail(waits), session) /\ Head(waits) # session
      /\ One(waits, session) /\ Head(waits) # session => One(Tail(waits), session)
      /\ One(waits, session) /\ Head(waits) = session => None(Tail(waits), session)
    BY <1>1, <1>3, Removed
<1>5. ~Reading /\ ~Reading'
    BY <1>1 DEF Reading
<1>6. TypeOK'
    BY <1>1, <1>2, <1>4 DEF TypeOK
<1>7. PlaceInv' /\ SendInv' /\ ReceiveInv'
    BY <1>1, <1>5, PlaceKept, SendKept, ReceiveKept
<1>8. ReaderInv'
    <2>1. broken' => ~halted' /\ failed'
        BY <1>1, <1>2 DEF ReaderInv
    <2>2. CASE halted'
        BY <2>1, <2>2 DEF ReaderInv
    <2>3. CASE ~halted' /\ Head(waits) = session
        <3>1. ~halted /\ broken /\ broken'
            BY <1>2, <2>3 DEF Ended
        <3>2. One(waits, session) /\ None(ready, session)
            BY <1>4, <1>5, <2>3, <3>1 DEF ReaderInv
        <3> QED
            BY <1>1, <1>4, <1>5, <2>1, <2>3, <3>1, <3>2 DEF ReaderInv
    <2>4. CASE ~halted' /\ Head(waits) # session
        <3>1. ~halted
            BY <1>2, <2>4 DEF Ended
        <3>2. \/ One(waits, session) /\ None(ready, session)
              \/ None(waits, session) /\ One(ready, session)
              \/ None(waits, session) /\ None(ready, session) /\ broken
            BY <1>5, <3>1 DEF ReaderInv
        <3> QED
            BY <1>1, <1>2, <1>4, <1>5, <2>1, <2>4, <3>2 DEF ReaderInv
    <2> QED
        BY <2>2, <2>3, <2>4
<1>9. HaltedIsIdle' /\ NoFalseAlarm'
    BY <1>1, <1>5 DEF HaltedIsIdle, NoFalseAlarm
<1> QED
    BY <1>6, <1>7, <1>8, <1>9

LEMMA TunSentCorrect ==
    ASSUME IInv, TunSent
    PROVE  IInv'
<1> USE DEF IInv
<1>1. /\ pc = "sent" /\ pc' = "idle"
      /\ UNCHANGED <<traffic, head, data, alertable, session, halted, broken, waits, ready, local,
                     failed, driver, closed, given, held>>
      /\ SetEvent \/ UNCHANGED <<event, tail, ownTail>>
    BY DEF TunSent, Alerted
<1>2. ~Reading /\ ~Reading'
    BY <1>1 DEF Reading
<1>3. ownTail' = ownTail /\ ownTail \in Position
    BY <1>1 DEF SetEvent, TypeOK
<1>4. /\ tail'["send"] = tail["send"]
      /\ tail'["receive"] = tail["receive"] \/ tail'["receive"] = ownTail
      /\ tail' \in [Ring -> Position \cup {Invalid}]
    BY <1>1, <1>3 DEF SetEvent, TypeOK, Ring
<1>5. TypeOK'
    <2>1. event' \in [Ring -> BOOLEAN]
        BY <1>1 DEF SetEvent, TypeOK
    <2> QED
        BY <1>1, <1>3, <1>4, <2>1 DEF TypeOK
<1>6. PlaceInv'
    BY <1>1, <1>2, <1>3, <1>4 DEF PlaceInv, Reading
<1>7. SendInv' /\ ReceiveInv'
    BY <1>1, <1>2, <1>3, <1>4, SendKept, ReceiveKept
<1>8. ReaderInv' /\ HaltedIsIdle' /\ NoFalseAlarm'
    BY <1>1, <1>2, ReaderKept DEF HaltedIsIdle, NoFalseAlarm
<1> QED
    BY <1>5, <1>6, <1>7, <1>8

LEMMA StoreIsSeenCorrect ==
    ASSUME IInv, StoreIsSeen
    PROVE  IInv'
<1> USE DEF IInv
<1>1. /\ UNCHANGED <<traffic, head, data, ownTail, alertable, event, session, halted, broken, waits,
                     ready, pc, local, failed, driver, closed, given, held>>
      /\ tail' = [tail EXCEPT !["receive"] = ownTail]
    BY DEF StoreIsSeen, clientVars
<1>2. ownTail \in Position
    BY DEF TypeOK
<1>3. /\ tail'["send"] = tail["send"] /\ tail'["receive"] = ownTail
      /\ tail' \in [Ring -> Position \cup {Invalid}]
    BY <1>1, <1>2 DEF TypeOK, Ring
<1>4. Reading' = Reading
    BY <1>1 DEF Reading
<1>5. TypeOK'
    BY <1>1, <1>3 DEF TypeOK
<1>6. PlaceInv'
    BY <1>1, <1>2, <1>3, <1>4 DEF PlaceInv
<1>7. SendInv' /\ ReceiveInv'
    BY <1>1, <1>3, <1>4, SendKept, ReceiveKept
<1>8. ReaderInv' /\ HaltedIsIdle' /\ NoFalseAlarm'
    BY <1>1, <1>4, ReaderKept DEF HaltedIsIdle, NoFalseAlarm
<1> QED
    BY <1>5, <1>6, <1>7, <1>8

LEMMA StopCorrect ==
    ASSUME IInv, Stop
    PROVE  IInv'
<1> USE DEF IInv
<1>1. /\ UNCHANGED <<traffic, head, tail, data, ownTail, alertable, event, session, waits, ready,
                     pc, local, failed, driver, closed, given, held>>
      /\ halted' = (halted \/ ~broken) /\ broken' = broken /\ pc = "idle"
    BY DEF Stop, StopSession, ringVars
<1>2. ~Reading /\ ~Reading'
    BY <1>1 DEF Reading
<1>3. TypeOK'
    BY <1>1 DEF TypeOK
<1>4. PlaceInv' /\ SendInv' /\ ReceiveInv'
    BY <1>1, <1>2, PlaceKept, SendKept, ReceiveKept
<1>5. ReaderInv' /\ HaltedIsIdle' /\ NoFalseAlarm'
    BY <1>1, <1>2 DEF ReaderInv, HaltedIsIdle, NoFalseAlarm
<1> QED
    BY <1>3, <1>4, <1>5

LEMMA TunStartCorrect ==
    ASSUME IInv, TunStart
    PROVE  IInv'
<1> USE DEF IInv
<1>1. /\ UNCHANGED <<traffic, head, tail, data, ownTail, alertable, event, waits, pc, local, failed,
                     driver, closed, given, held>>
      /\ pc = "idle" /\ session < MaxSessions
      /\ session' = session + 1 /\ halted /\ halted' = FALSE /\ broken' = broken
      /\ ready' = Append(ready, session + 1)
    BY DEF TunStart, ringVars
<1>2. ~Reading /\ ~Reading'
    BY <1>1 DEF Reading
<1>3. /\ session \in Nat /\ session' \in 1 .. MaxSessions /\ session' \in 1 .. session'
      /\ waits \in Seq(1 .. session) /\ ready \in Seq(1 .. session)
    BY <1>1, SessionsAreBounded DEF TypeOK
<1>4. waits \in Seq(1 .. session') /\ ready \in Seq(1 .. session')
    <2>1. 1 .. session \subseteq 1 .. session'
        BY <1>1, <1>3
    <2> QED
        BY <1>3, <2>1
<1>5. None(waits, session') /\ None(ready, session')
    <2>1. session' \notin 1 .. session
        BY <1>1, <1>3
    <2>2. /\ \A i \in DOMAIN waits : waits[i] \in 1 .. session
          /\ \A i \in DOMAIN ready : ready[i] \in 1 .. session
        BY <1>3
    <2> QED
        BY <2>1, <2>2 DEF None
<1>6. ready' \in Seq(1 .. session') /\ One(ready', session')
    BY <1>1, <1>3, <1>4, <1>5, Appended
<1>7. TypeOK'
    BY <1>1, <1>3, <1>4, <1>6 DEF TypeOK
<1>8. PlaceInv' /\ SendInv' /\ ReceiveInv'
    BY <1>1, <1>2, PlaceKept, SendKept, ReceiveKept
<1>9. ReaderInv'
    BY <1>1, <1>2, <1>5, <1>6 DEF ReaderInv
<1>10. HaltedIsIdle' /\ NoFalseAlarm'
    BY <1>1, <1>2 DEF HaltedIsIdle, NoFalseAlarm
<1> QED
    BY <1>7, <1>8, <1>9, <1>10

LEMMA EventCompletesCorrect ==
    ASSUME IInv, EventCompletes
    PROVE  IInv'
<1> USE DEF IInv
<1>1. /\ UNCHANGED <<traffic, head, tail, data, ownTail, alertable, session, halted, broken, pc, local,
                     failed, driver, closed, given, held>>
      /\ waits # <<>> /\ ready' = Append(ready, Head(waits)) /\ waits' = Tail(waits)
      /\ event' = [event EXCEPT !["send"] = FALSE]
    BY DEF EventCompletes
<1>2. waits \in Seq(1 .. session) /\ ready \in Seq(1 .. session)
    BY DEF TypeOK
<1>3. /\ Head(waits) \in 1 .. session /\ Tail(waits) \in Seq(1 .. session)
      /\ None(waits, session) => None(Tail(waits), session) /\ Head(waits) # session
      /\ One(waits, session) /\ Head(waits) # session => One(Tail(waits), session)
      /\ One(waits, session) /\ Head(waits) = session => None(Tail(waits), session)
    BY <1>1, <1>2, Removed
<1>4. /\ ready' \in Seq(1 .. session)
      /\ None(ready, session) /\ Head(waits) # session => None(ready', session)
      /\ None(ready, session) /\ Head(waits) = session => One(ready', session)
      /\ One(ready, session) /\ Head(waits) # session => One(ready', session)
    BY <1>1, <1>2, <1>3, Appended
<1>5. Reading' = Reading
    BY <1>1 DEF Reading
<1>6. TypeOK'
    <2>1. event' \in [Ring -> BOOLEAN]
        BY <1>1 DEF TypeOK
    <2> QED
        BY <1>1, <1>3, <1>4, <2>1 DEF TypeOK
<1>7. PlaceInv' /\ SendInv' /\ ReceiveInv'
    <2>1. pc' = pc
        BY <1>1
    <2> QED
        BY <1>1, <1>5, <2>1, PlaceKept, SendKept, ReceiveKept
<1>8. ReaderInv'
    <2> SUFFICES ASSUME ~halted PROVE ReaderInv'
        BY <1>1 DEF ReaderInv
    <2>1. CASE Reading
        BY <1>1, <1>3, <1>4, <1>5, <2>1 DEF ReaderInv
    <2>2. CASE ~Reading /\ One(waits, session) /\ None(ready, session)
        BY <1>1, <1>3, <1>4, <1>5, <2>2 DEF ReaderInv
    <2>3. CASE ~Reading /\ None(waits, session) /\ One(ready, session)
        BY <1>1, <1>3, <1>4, <1>5, <2>3 DEF ReaderInv
    <2>4. CASE ~Reading /\ None(waits, session) /\ None(ready, session) /\ broken
        BY <1>1, <1>3, <1>4, <1>5, <2>4 DEF ReaderInv
    <2> QED
        BY <2>1, <2>2, <2>3, <2>4 DEF ReaderInv
<1>9. HaltedIsIdle' /\ NoFalseAlarm'
    BY <1>1, <1>5 DEF HaltedIsIdle, NoFalseAlarm
<1> QED
    BY <1>6, <1>7, <1>8, <1>9

-----------------------------------------------------------------------------
(* The driver *)

LEMMA DriverWritesCorrect ==
    ASSUME IInv, DriverWrites
    PROVE  IInv'
<1> USE DEF IInv
<1> DEFINE h == head["send"]  d == data["send"]  t == tail["send"]
<1>1. PICK p \in Packet :
         /\ Space(p) <= Free(h, t)
         /\ data' = [data EXCEPT !["send"] = Written(d, p, t)]
         /\ held' = [held EXCEPT !["send"] = Append(@, p)]
         /\ tail' = [tail EXCEPT !["send"] = Wrap(t + Space(p))]
    BY DEF DriverWrites
<1>2. /\ ~closed /\ driver' = "written"
      /\ UNCHANGED <<traffic, head, ownTail, alertable, event, session, halted, broken, waits, ready,
                     pc, local, failed, closed, given>>
    BY DEF DriverWrites, clientVars
<1>3. h \in Position /\ t \in Position /\ local.tail \in Int
    BY <1>2, PositionIs DEF PlaceInv, TypeOK, Local, Aligned
<1>4. PICK starts \in SUBSET Position :
         /\ Chain(d, h, starts, Wrap(t - h))
         /\ Reading => Wrap(local.tail - h) \in starts
    BY <1>2 DEF SendInv, SendEnd
<1> DEFINE end == Wrap(t - h) + Space(p)
<1>5. /\ Wrap(t + Space(p)) \in Position /\ Wrap(Wrap(t + Space(p)) - h) = end
      /\ starts \cup {end} \in SUBSET Position
      /\ Chain(Written(d, p, t), h, starts \cup {end}, end)
    <2>1. /\ h \in Position /\ t \in Position /\ p \in Packet
          /\ Chain(d, h, starts, Wrap(t - h)) /\ Space(p) <= Free(h, t)
        BY <1>1, <1>3, <1>4
    <2> HIDE DEF h, d, t
    <2> QED
        BY <2>1, ChainWrite, Zenon
<1> HIDE DEF end
<1>6. /\ data'["receive"] = data["receive"] /\ data'["send"] = Written(d, p, t)
      /\ data' \in [Ring -> [Unit -> (Packet \cup {Nothing}) \X Nat]]
    <2>1. data \in [Ring -> [Unit -> (Packet \cup {Nothing}) \X Nat]]
        BY DEF TypeOK
    <2>2. Written(d, p, t) \in [Unit -> (Packet \cup {Nothing}) \X Nat]
        BY <1>3, <2>1, WrittenType DEF Ring
    <2> QED
        BY <1>1, <2>1, <2>2 DEF Ring
<1>7. /\ tail'["receive"] = tail["receive"] /\ tail'["send"] = Wrap(t + Space(p))
      /\ tail' \in [Ring -> Position \cup {Invalid}]
    BY <1>1, <1>5 DEF TypeOK, Ring
<1>8. Reading' <=> Reading
    BY <1>2 DEF Reading
<1>9. TypeOK'
    <2>1. held' \in [Ring -> Seq(Packet)]
        BY <1>1, HeldType DEF Ring
    <2> QED
        BY <1>2, <1>6, <1>7, <2>1 DEF TypeOK
<1>10. PlaceInv'
    BY <1>2, <1>5, <1>7, <1>8 DEF PlaceInv
<1>11. SendInv'
    BY <1>2, <1>4, <1>5, <1>6, <1>7, <1>8 DEF SendInv, SendEnd
<1>12. ReceiveInv'
    BY <1>2, <1>6, <1>7, ReceiveKept
<1>13. ReaderInv' /\ HaltedIsIdle' /\ NoFalseAlarm'
    BY <1>2, <1>8, ReaderKept DEF HaltedIsIdle, NoFalseAlarm
<1> QED
    BY <1>9, <1>10, <1>11, <1>12, <1>13

\* What the driver finds below the tail it sees.
LEMMA DriverFinds ==
    ASSUME IInv, ~closed, head["receive"] # tail["receive"]
    PROVE  LET h == head["receive"]  d == data["receive"]  t == tail["receive"] IN
           \E starts \in SUBSET Position : \E p \in Packet :
              /\ Chain(d, h, starts, Wrap(ownTail - h))
              /\ Wrap(t - h) \in starts /\ Wrap(t - h) # 0
              /\ Wrap(ownTail - h) \in starts /\ Wrap(ownTail - h) # 0
              /\ d[h \div Align] = <<p, 0>> /\ Stored(d, h, p)
              /\ Space(p) \in starts
              /\ \A y \in starts : y <= 0 \/ Space(p) <= y
<1> USE DEF IInv
<1> DEFINE h == head["receive"]  d == data["receive"]  t == tail["receive"]
<1>1. h # t
    OBVIOUS
<1>2. h \in Position /\ t \in Position /\ ownTail \in Position
    BY DEF PlaceInv, TypeOK
<1>3. PICK starts \in SUBSET Position :
         Chain(d, h, starts, Wrap(ownTail - h)) /\ Wrap(t - h) \in starts
    BY DEF ReceiveInv
<1> DEFINE x == Wrap(t - h)  c == Wrap(ownTail - h)
<1>4. x # 0
    <2>1. x = IF h <= t THEN t - h ELSE t - h + Capacity
        BY <1>2, ContentIs
    <2>2. h \in Int /\ t \in Int /\ Capacity \in Int /\ 0 <= t /\ h < Capacity /\ h # t
        BY <1>1, <1>2, PositionIs, Constants DEF Aligned
    <2> HIDE DEF x, h, t
    <2> QED
        BY <2>1, <2>2
<1>5. c \in starts /\ c # 0
    <2>1. c \in starts /\ x <= c
        BY <1>3 DEF Chain
    <2>2. x \in Int /\ c \in Int /\ 0 <= x
        BY <1>3, <2>1, PositionIs DEF Aligned
    <2> QED
        BY <1>4, <2>1, <2>2
<1>6. PICK p \in Packet :
         /\ d[h \div Align] = <<p, 0>> /\ Stored(d, h, p)
         /\ Space(p) \in starts
         /\ \A y \in starts : y <= 0 \/ Space(p) <= y
    <2> HIDE DEF h, d, x
    <2> QED
        BY <1>2, <1>3, <1>4, ChainHead DEF x
<1> QED
    BY <1>3, <1>4, <1>5, <1>6

LEMMA DriverReadsCorrect ==
    ASSUME IInv, DriverReads
    PROVE  IInv'
<1> USE DEF IInv
<1> DEFINE h == head["receive"]  d == data["receive"]  t == tail["receive"]
           q == d[h \div Align][1]
<1>1. /\ ~closed /\ h # t
      /\ UNCHANGED <<traffic, tail, data, ownTail, alertable, event, session, halted, broken, waits,
                     ready, pc, local, failed, driver, closed>>
      /\ given' = [given EXCEPT !["receive"] = IF Starts(d, h) /\ Whole(d, h) THEN q ELSE Nothing]
      /\ head' = [head EXCEPT !["receive"] = Wrap(h + Space(q))]
      /\ held' = [held EXCEPT !["receive"] = Without(@)]
    BY DEF DriverReads, clientVars
<1>2. h \in Position /\ t \in Position /\ ownTail \in Position
    BY <1>1 DEF PlaceInv, TypeOK
<1>3. PICK starts \in SUBSET Position, p \in Packet :
         /\ Chain(d, h, starts, Wrap(ownTail - h))
         /\ Wrap(t - h) \in starts /\ Wrap(t - h) # 0
         /\ Wrap(ownTail - h) \in starts /\ Wrap(ownTail - h) # 0
         /\ d[h \div Align] = <<p, 0>>
         /\ Space(p) \in starts
         /\ \A y \in starts : y <= 0 \/ Space(p) <= y
    BY <1>1, DriverFinds
<1>4. q = p
    BY <1>3
<1> DEFINE next == Wrap(h + Space(p))  rest == {y \in Position : y + Space(p) \in starts}
<1>5. /\ next \in Position /\ Chain(d, next, rest, Wrap(ownTail - h) - Space(p))
      /\ \A a \in Position :
            Wrap(a - h) \in starts /\ Wrap(a - h) # 0 =>
                Wrap(a - next) = Wrap(a - h) - Space(p) /\ Wrap(a - next) \in rest
    <2>1. /\ h \in Position /\ Chain(d, h, starts, Wrap(ownTail - h))
          /\ p \in Packet /\ Space(p) \in starts
          /\ \A y \in starts : y <= 0 \/ Space(p) <= y
        BY <1>2, <1>3
    <2> HIDE DEF h, d
    <2> QED
        BY <2>1, ChainRead, Zenon
<1>6. /\ Chain(d, next, rest, Wrap(ownTail - next)) /\ Wrap(t - next) \in rest
      /\ rest \in SUBSET Position
    BY <1>2, <1>3, <1>5
<1> HIDE DEF next, rest, q
<1>7. head' = [head EXCEPT !["receive"] = next]
    BY <1>1, <1>4 DEF next
<1>8. /\ head'["send"] = head["send"] /\ head'["receive"] = next
       /\ head' \in [Ring -> Position \cup {Invalid}]
    BY <1>5, <1>7 DEF TypeOK, Ring
<1>9. Reading' <=> Reading
    BY <1>1 DEF Reading
<1>10. TypeOK'
    <2>1. given' \in [Ring -> Packet \cup {Nothing}]
        BY <1>1, <1>4 DEF TypeOK
    <2>2. held' \in [Ring -> Seq(Packet)]
        BY <1>1, <1>3, HeldType DEF Ring
    <2> QED
        BY <1>1, <1>8, <2>1, <2>2 DEF TypeOK
<1>11. PlaceInv'
    BY <1>1, <1>5, <1>8, <1>9 DEF PlaceInv
<1>12. SendInv'
    BY <1>1, <1>8, <1>9, SendKept
<1>13. ReceiveInv'
    BY <1>1, <1>6, <1>8 DEF ReceiveInv
<1>14. ReaderInv' /\ HaltedIsIdle' /\ NoFalseAlarm'
    BY <1>1, <1>9, ReaderKept DEF HaltedIsIdle, NoFalseAlarm
<1> QED
    BY <1>10, <1>11, <1>12, <1>13, <1>14

LEMMA DriverTellsCorrect ==
    ASSUME IInv, DriverSignals \/ DriverAlertable \/ DriverLooks \/ DriverWakes
    PROVE  IInv'
<1> USE DEF IInv
<1>1. UNCHANGED <<traffic, head, tail, data, ownTail, session, halted, broken, waits, ready, pc, local,
                  failed, closed, given, held>>
    BY DEF DriverSignals, DriverAlertable, DriverLooks, DriverWakes, clientVars
<1>2. Reading' <=> Reading
    BY <1>1 DEF Reading
<1>3. TypeOK'
    <2>1. event' \in [Ring -> BOOLEAN]
        BY DEF DriverSignals, DriverAlertable, DriverLooks, DriverWakes, TypeOK
    <2>2. alertable' \in BOOLEAN
        BY DEF DriverSignals, DriverAlertable, DriverLooks, DriverWakes, TypeOK
    <2>3. driver' \in {"awake", "written", "looking", "waiting"}
        BY DEF DriverSignals, DriverAlertable, DriverLooks, DriverWakes
    <2> QED
        BY <1>1, <2>1, <2>2, <2>3 DEF TypeOK
<1>4. PlaceInv' /\ SendInv' /\ ReceiveInv'
    <2>1. pc' = pc
        BY <1>1
    <2> QED
        BY <1>1, <1>2, <2>1, PlaceKept, SendKept, ReceiveKept
<1>5. ReaderInv' /\ HaltedIsIdle' /\ NoFalseAlarm'
    BY <1>1, <1>2, ReaderKept DEF HaltedIsIdle, NoFalseAlarm
<1> QED
    BY <1>3, <1>4, <1>5

LEMMA DriverClosesCorrect ==
    ASSUME IInv, DriverCloses
    PROVE  IInv'
<1> USE DEF IInv
<1>1. /\ ~closed /\ closed'
      /\ head' = [head EXCEPT !["receive"] = Invalid]
      /\ tail' = [tail EXCEPT !["send"] = Invalid]
      /\ event' = [event EXCEPT !["send"] = TRUE]
      /\ UNCHANGED <<traffic, data, ownTail, alertable, session, halted, broken, waits, ready, pc, local,
                     failed, driver, given, held>>
    BY DEF DriverCloses, clientVars
<1>2. /\ head'["send"] = head["send"] /\ head'["receive"] = Invalid
      /\ tail'["send"] = Invalid /\ tail'["receive"] = tail["receive"]
    BY <1>1 DEF TypeOK, Ring
<1>3. Reading' <=> Reading
    BY <1>1 DEF Reading
<1>4. TypeOK'
    <2>1. head' \in [Ring -> Position \cup {Invalid}] /\ tail' \in [Ring -> Position \cup {Invalid}]
        BY <1>1 DEF TypeOK
    <2>2. event' \in [Ring -> BOOLEAN]
        BY <1>1 DEF TypeOK
    <2>3. closed' \in BOOLEAN
        BY DEF DriverCloses
    <2> QED
        BY <1>1, <2>1, <2>2, <2>3 DEF TypeOK
<1>5. PlaceInv'
    BY <1>1, <1>2, <1>3 DEF PlaceInv
<1>6. SendInv'
    <2> SUFFICES ASSUME Reading PROVE SendInv'
        BY <1>1, <1>3 DEF SendInv
    <2> DEFINE h == head["send"]  d == data["send"]  end == Wrap(local.tail - h)
    <2>1. h \in Position
        BY DEF PlaceInv
    <2>2. PICK starts \in SUBSET Position :
             Chain(d, h, starts, Wrap(SendEnd - h)) /\ end \in starts
        BY DEF SendInv
    <2> DEFINE part == {x \in starts : x <= end}
    <2>3. Chain(d, h, part, end)
        <3> HIDE DEF h, d, end
        <3> QED
            BY <2>1, <2>2, ChainCut
    <2>4. part \in SUBSET Position
        OBVIOUS
    <2> HIDE DEF part
    <2>5. end \in part
        BY <2>3 DEF Chain
    <2> QED
        BY <1>1, <1>2, <1>3, <2>3, <2>4, <2>5 DEF SendInv, SendEnd
<1>7. ReceiveInv'
    BY <1>1 DEF ReceiveInv
<1>8. ReaderInv' /\ HaltedIsIdle' /\ NoFalseAlarm'
    BY <1>1, <1>3, ReaderKept DEF HaltedIsIdle, NoFalseAlarm
<1> QED
    BY <1>4, <1>5, <1>6, <1>7, <1>8

-----------------------------------------------------------------------------
(* The theorems *)

LEMMA Unmoved ==
    ASSUME IInv, UNCHANGED vars
    PROVE  IInv'
<1>1. UNCHANGED <<traffic, head, tail, data, ownTail, alertable, event, session, halted, broken, waits,
                  ready, pc, local, failed, driver, closed, given, held>>
    BY DEF vars, ringVars, clientVars
<1>2. Reading' <=> Reading
    BY <1>1 DEF Reading
<1>3. TypeOK'
    BY <1>1 DEF IInv, TypeOK
<1>4. PlaceInv' /\ SendInv' /\ ReceiveInv'
    <2>1. pc' = pc
        BY <1>1
    <2> QED
        BY <1>1, <1>2, <2>1, PlaceKept, SendKept, ReceiveKept DEF IInv
<1>5. ReaderInv' /\ HaltedIsIdle' /\ NoFalseAlarm'
    BY <1>1, <1>2, ReaderKept DEF IInv, HaltedIsIdle, NoFalseAlarm
<1> QED
    BY <1>3, <1>4, <1>5 DEF IInv

LEMMA Inductive == IInv /\ [Next]_vars => IInv'
<1> SUFFICES ASSUME IInv, [Next]_vars PROVE IInv'
    OBVIOUS
<1>1. CASE Read
    BY <1>1, ReadBeginsCorrect, ReadWaitsCorrect, ReadCopiesCorrect, ReadReleasesCorrect DEF Read
<1>2. CASE WaitFails \/ TunSend \/ TunSendFails \/ TunSent \/ StoreIsSeen
    BY <1>2, WaitFailsCorrect, TunSendCorrect, TunSendFailsCorrect, TunSentCorrect, StoreIsSeenCorrect
<1>3. CASE Stop \/ TunStart \/ EventCompletes
    BY <1>3, StopCorrect, TunStartCorrect, EventCompletesCorrect
<1>4. CASE DriverWrites \/ DriverReads \/ DriverCloses
    BY <1>4, DriverWritesCorrect, DriverReadsCorrect, DriverClosesCorrect
<1>5. CASE DriverSignals \/ DriverAlertable \/ DriverLooks \/ DriverWakes
    BY <1>5, DriverTellsCorrect
<1>6. CASE UNCHANGED vars
    BY <1>6, Unmoved
<1> QED
    BY <1>1, <1>2, <1>3, <1>4, <1>5, <1>6 DEF Next, DriverConsumes

LEMMA InvHolds == Safety => []IInv
BY Initial, Inductive, PTL DEF Safety

\* read() and tun_send() report a broken ring only when the driver has closed
\* it: packets that are in the ring, one over its end among them, one written
\* while read() copies another, or the last before an empty ring, never look
\* like one.
THEOREM RingCorrect == Safety => []NoFalseAlarm
<1>1. IInv => NoFalseAlarm
    BY DEF IInv
<1> QED
    BY <1>1, InvHolds, PTL

LEMMA Counted ==
    ASSUME NEW queue, NEW s
    PROVE  /\ None(queue, s) => Cardinality({i \in DOMAIN queue : queue[i] = s}) = 0
           /\ One(queue, s) => Cardinality({i \in DOMAIN queue : queue[i] = s}) = 1
<1> DEFINE of == {i \in DOMAIN queue : queue[i] = s}
<1>1. ASSUME None(queue, s) PROVE Cardinality(of) = 0
    <2>1. of = {}
        BY <1>1 DEF None
    <2> QED
        BY <2>1, FS_EmptySet
<1>2. ASSUME One(queue, s) PROVE Cardinality(of) = 1
    <2>1. PICK i : of = {i}
        BY <1>2 DEF One
    <2> QED
        BY <2>1, FS_Singleton
<1> QED
    BY <1>1, <1>2

\* A session whose tun is not stopped has exactly one read(): running, ready to
\* run, or waiting for the event; only one that tun_send() has stopped half-way
\* may have lost it.  And every variable has its type.
THEOREM ReaderCorrect == Safety => []OneReader
<1>1. ASSUME IInv PROVE OneReader
    <2> USE <1>1 DEF IInv
    <2> SUFFICES ASSUME ~halted
                 PROVE  LET readers == Pending(session) + (IF pc \in {"read", "copied"} THEN 1 ELSE 0) IN
                        readers = 1 \/ (readers = 0 /\ broken)
        BY DEF OneReader
    <2>1. CASE Reading /\ None(waits, session) /\ None(ready, session)
        BY <2>1, Counted DEF Pending, Reading
    <2>2. CASE ~Reading /\ One(waits, session) /\ None(ready, session)
        BY <2>2, Counted DEF Pending, Reading
    <2>3. CASE ~Reading /\ None(waits, session) /\ One(ready, session)
        BY <2>3, Counted DEF Pending, Reading
    <2>4. CASE ~Reading /\ None(waits, session) /\ None(ready, session) /\ broken
        BY <2>4, Counted DEF Pending, Reading
    <2> QED
        BY <2>1, <2>2, <2>3, <2>4 DEF ReaderInv
<1> QED
    BY <1>1, InvHolds, PTL

\* What read() has copied is a whole packet, not part of one or of two, however
\* far the driver has got meanwhile.
CopyInv == pc = "copied" => local.buf \in Packet

\* What comes out of either ring is a packet.
OnlyPackets == [][\A r \in Ring : given'[r] = given[r] \/ given'[r] \in Packet]_vars

LEMMA WholeIs ==
    ASSUME NEW d, NEW h, NEW p \in Packet, d[h \div Align] = <<p, 0>>, Stored(d, h, p)
    PROVE  Starts(d, h) /\ Whole(d, h) /\ d[h \div Align][1] = p
BY NothingIsNoPacket DEF Starts, Whole, Stored

LEMMA CopyKept == IInv /\ CopyInv /\ [Next]_vars => CopyInv'
<1> SUFFICES ASSUME IInv, CopyInv, [Next]_vars, pc' = "copied" PROVE local'.buf \in Packet
    BY DEF CopyInv
<1>1. CASE ReadCopies
    <2>1. Reading /\ local.head # local.tail /\ local \in Local
        BY <1>1 DEF ReadCopies, Reading, IInv, TypeOK
    <2>2. PICK p \in Packet :
             /\ data["send"][head["send"] \div Align] = <<p, 0>> /\ Stored(data["send"], head["send"], p)
             /\ local.head = head["send"]
        BY <2>1, ReadFinds
    <2>3. /\ Whole(data["send"], local.head)
          /\ data["send"][local.head \div Align][1] = p
        BY <2>2, WholeIs
    <2>4. local' = [local EXCEPT !.buf = IF Whole(data["send"], local.head)
                                         THEN data["send"][local.head \div Align][1] ELSE Nothing]
        BY <1>1 DEF ReadCopies
    <2> QED
        BY <2>1, <2>3, <2>4 DEF Local
<1>2. CASE ~ReadCopies
    <2>1. pc = "copied" /\ local' = local
        BY <1>2 DEF Next, Read, DriverConsumes, ReadBegins, ReadWaits, WaitFails, ReadReleases, TunSend,
                    TunSendFails, TunSent, StoreIsSeen, Stop, TunStart, EventCompletes, DriverWrites, DriverSignals,
                    DriverReads, DriverAlertable, DriverLooks, DriverWakes, DriverCloses,
                    clientVars, vars
    <2> QED
        BY <2>1 DEF CopyInv
<1> QED
    BY <1>1, <1>2

\* No packet comes out of a ring torn.
THEOREM PacketsWhole == Safety => OnlyPackets
<1>1. Init => CopyInv
    BY DEF Init, CopyInv
<1>2. ASSUME IInv, CopyInv, [Next]_vars, NEW r \in Ring
      PROVE  given'[r] = given[r] \/ given'[r] \in Packet
    <2>1. CASE ReadReleases
        BY <1>2, <2>1 DEF ReadReleases, CopyInv, IInv, TypeOK, Ring
    <2>2. CASE DriverReads
        <3> DEFINE h == head["receive"]  d == data["receive"]
        <3>1. PICK p \in Packet : d[h \div Align] = <<p, 0>> /\ Stored(d, h, p)
            BY <1>2, <2>2, DriverFinds DEF DriverReads
        <3>2. Starts(d, h) /\ Whole(d, h) /\ d[h \div Align][1] = p
            BY <3>1, WholeIs
        <3>3. given' = [given EXCEPT !["receive"] = p]
            BY <2>2, <3>2 DEF DriverReads
        <3> QED
            BY <1>2, <3>3 DEF IInv, TypeOK, Ring
    <2>3. CASE ~ReadReleases /\ ~DriverReads
        <3>1. given' = given
            BY <1>2, <2>3 DEF Next, Read, DriverConsumes, ReadBegins, ReadWaits, WaitFails, ReadCopies,
                    TunSend, TunSendFails, TunSent, StoreIsSeen, Stop, TunStart, EventCompletes, DriverWrites, DriverSignals,
                    DriverAlertable, DriverLooks, DriverWakes, DriverCloses, vars
        <3> QED
            BY <3>1
    <2> QED
        BY <2>1, <2>2, <2>3
<1>3. IInv /\ CopyInv /\ [Next]_vars => [\A r \in Ring : given'[r] = given[r] \/ given'[r] \in Packet]_vars
    BY <1>2
<1> QED
    BY <1>1, <1>3, CopyKept, InvHolds, PTL DEF Safety, OnlyPackets

-----------------------------------------------------------------------------
(* The packets that a ring has been given lie in it in their order *)

\* at[i] is the offset from h at which the i-th packet of queue begins, and the
\* last one, the end of them all.
Row(d, h, queue, at) ==
    /\ at \in [1 .. Len(queue) + 1 -> Position] /\ at[1] = 0
    /\ \A i, j \in 1 .. Len(queue) + 1 : i < j => at[i] < at[j]
    /\ \A i \in 1 .. Len(queue) :
          at[i + 1] = at[i] + Space(queue[i]) /\ Stored(d, Wrap(h + at[i]), queue[i])

LEMMA RowWrite ==
    ASSUME NEW d, NEW h \in Position, NEW t \in Position, NEW queue \in Seq(Packet),
           NEW p \in Packet, NEW at, Row(d, h, queue, at), at[Len(queue) + 1] = Wrap(t - h),
           Space(p) <= Free(h, t)
    PROVE  \E more :
              /\ Row(Written(d, p, t), h, Append(queue, p), more)
              /\ more[Len(Append(queue, p)) + 1] = Wrap(Wrap(t + Space(p)) - h)
              /\ \A i \in 1 .. Len(queue) + 1 : i \in 1 .. Len(Append(queue, p)) + 1 /\ more[i] = at[i]
<1> DEFINE n == Len(queue)  c == Wrap(t - h)  s == Space(p)  end == c + s
           d2 == Written(d, p, t)  q2 == Append(queue, p)
           more == [i \in 1 .. n + 2 |-> IF i = n + 2 THEN end ELSE at[i]]
<1>1. /\ n \in Nat /\ Len(q2) = n + 1 /\ q2[n + 1] = p
      /\ \A i \in 1 .. n : q2[i] = queue[i] /\ queue[i] \in Packet
    OBVIOUS
<1>2. t = Wrap(h + c) /\ end \in Position /\ Wrap(Wrap(t + s) - h) = end
    BY WriteEnds
<1>3. /\ at \in [1 .. n + 1 -> Position] /\ at[1] = 0 /\ at[n + 1] = c
      /\ \A i, j \in 1 .. n + 1 : i < j => at[i] < at[j]
      /\ \A i \in 1 .. n : at[i + 1] = at[i] + Space(queue[i]) /\ Stored(d, Wrap(h + at[i]), queue[i])
    BY DEF Row
<1>4. s \in Int /\ 0 < s /\ Stored(d2, t, p)
    BY SpaceIs, StoredWritten, Constants DEF Aligned
<1> HIDE DEF n, c, s, d2, q2
<1>5. \A i \in 1 .. n + 1 : at[i] \in Position /\ at[i] \in Int
    BY <1>3, PositionIs DEF Aligned
<1>6. c \in Int /\ \A i \in 1 .. n + 1 : at[i] <= c /\ at[i] < end
    <2>1. c \in Int
        BY <1>1, <1>3, <1>5
    <2>2. ASSUME NEW i \in 1 .. n + 1 PROVE at[i] <= c
        <3>1. CASE i = n + 1
            BY <1>3, <2>1, <3>1
        <3>2. CASE i < n + 1
            <4>1. n + 1 \in 1 .. n + 1
                BY <1>1
            <4> QED
                BY <1>3, <1>5, <2>1, <3>2, <4>1
        <3> QED
            BY <1>1, <3>1, <3>2
    <2> QED
        BY <1>4, <1>5, <2>1, <2>2
<1>7. /\ \A i \in 1 .. n + 2 : i \in 1 .. n + 1 \/ i = n + 2
      /\ \A i \in 1 .. n + 1 : i \in 1 .. n + 2 /\ i # n + 2
      /\ n + 2 \in 1 .. n + 2 /\ 1 \in 1 .. n + 1
    BY <1>1
<1>8. more[n + 2] = end /\ \A i \in 1 .. n + 1 : more[i] = at[i]
    BY <1>7
<1>9. more \in [1 .. n + 2 -> Position]
    BY <1>2, <1>5, <1>7
<1> HIDE DEF more, end
<1>10. more[1] = 0
    BY <1>3, <1>7, <1>8
<1>11. ASSUME NEW i \in 1 .. n + 2, NEW j \in 1 .. n + 2, i < j PROVE more[i] < more[j]
    <2>1. i \in 1 .. n + 1
        BY <1>1, <1>11
    <2>2. CASE j \in 1 .. n + 1
        BY <1>3, <1>8, <1>11, <2>1, <2>2
    <2>3. CASE j = n + 2
        BY <1>6, <1>8, <2>1, <2>3
    <2> QED
        BY <1>7, <2>2, <2>3
<1>12. ASSUME NEW i \in 1 .. n + 1
       PROVE  more[i + 1] = more[i] + Space(q2[i]) /\ Stored(d2, Wrap(h + more[i]), q2[i])
    <2>1. CASE i = n + 1
        <3>1. i + 1 = n + 2 /\ more[i] = c /\ q2[i] = p
            BY <1>1, <1>3, <1>8, <2>1
        <3> QED
            BY <1>2, <1>4, <1>8, <3>1 DEF end, s
    <2>2. CASE i \in 1 .. n
        <3>1. i + 1 \in 1 .. n + 1
            BY <1>1, <2>2
        <3>2. /\ at[i + 1] = at[i] + Space(queue[i]) /\ Stored(d, Wrap(h + at[i]), queue[i])
              /\ q2[i] = queue[i] /\ queue[i] \in Packet
            BY <1>1, <1>3, <2>2
        <3>3. at[i] + Space(queue[i]) <= c /\ at[i] \in Position
            BY <1>5, <1>6, <3>1, <3>2
        <3> DEFINE a == Wrap(h + at[i])
        <3>4. a \in Position /\ (a + Space(queue[i]) <= t \/ t + Space(p) <= a)
            BY <3>2, <3>3, WriteBeside DEF c
        <3>5. Stored(d2, a, queue[i])
            <4> HIDE DEF a
            <4>1. Stored(d, a, queue[i])
                BY <3>2 DEF a
            <4> QED
                BY <3>2, <3>4, <4>1, StoredKept DEF d2
        <3> QED
            BY <1>8, <3>1, <3>2, <3>5
    <2> QED
        BY <1>1, <2>1, <2>2
<1>13. (n + 1) + 1 = n + 2
    BY <1>1
<1>14. Row(d2, h, q2, more)
    BY <1>1, <1>9, <1>10, <1>11, <1>12, <1>13 DEF Row
<1>15. more[Len(q2) + 1] = Wrap(Wrap(t + s) - h)
    BY <1>1, <1>2, <1>8, <1>13
<1>16. \A i \in 1 .. n + 1 : i \in 1 .. Len(q2) + 1 /\ more[i] = at[i]
    BY <1>1, <1>7, <1>8, <1>13
<1> QED
    BY <1>14, <1>15, <1>16 DEF n, s, d2, q2

\* The first packet is at the head.
LEMMA RowFirst ==
    ASSUME NEW d, NEW h \in Position, NEW queue \in Seq(Packet), NEW at, Row(d, h, queue, at),
           NEW i \in 1 .. Len(queue) + 1, at[i] # 0
    PROVE  queue # <<>> /\ queue[1] \in Packet /\ d[h \div Align] = <<queue[1], 0>>
<1>1. i # 1 /\ Len(queue) \in Nat
    BY DEF Row
<1>2. queue # <<>> /\ 1 \in 1 .. Len(queue) /\ queue[1] \in Packet
    BY <1>1
<1>3. h \in Int /\ 0 <= h /\ h < Capacity /\ Capacity \in Nat \ {0} /\ h \div Align \in Int
    BY PositionIs, Constants, AlignedIs DEF Aligned
<1>4. Wrap(h) = h /\ h + 0 = h
    BY <1>3, WrapIs
<1>5. Stored(d, h, queue[1])
    BY <1>2, <1>4 DEF Row
<1>6. 0 \in 0 .. Space(queue[1]) \div Align - 1
    <2>1. Space(queue[1]) \div Align \in Nat \ {0}
        BY <1>2, PacketInMemory
    <2> QED
        BY <2>1
<1>7. d[h \div Align + 0] = <<queue[1], 0>>
    BY <1>5, <1>6 DEF Stored
<1>8. h \div Align + 0 = h \div Align
    BY <1>3
<1> QED
    BY <1>2, <1>7, <1>8

LEMMA RowRead ==
    ASSUME NEW d, NEW h \in Position, NEW queue \in Seq(Packet), queue # <<>>, NEW at,
           Row(d, h, queue, at)
    PROVE  LET next == Wrap(h + Space(queue[1])) IN
           \E less :
              /\ Row(d, next, Tail(queue), less)
              /\ Len(Tail(queue)) + 1 = Len(queue)
              /\ \A i \in 1 .. Len(queue) : \A t \in Position :
                    Wrap(t - h) = at[i + 1] => Wrap(t - next) = less[i]
<1> DEFINE n == Len(queue)  p == queue[1]  s == Space(p)  next == Wrap(h + s)  q2 == Tail(queue)
           less == [i \in 1 .. n |-> at[i + 1] - s]
<1>1. /\ n \in Nat \ {0} /\ Len(q2) = n - 1 /\ (n - 1) + 1 = n
      /\ \A i \in 1 .. n - 1 : q2[i] = queue[i + 1]
      /\ \A i \in 1 .. n : queue[i] \in Packet
    OBVIOUS
<1>2. /\ at \in [1 .. n + 1 -> Position] /\ at[1] = 0
      /\ \A i, j \in 1 .. n + 1 : i < j => at[i] < at[j]
      /\ \A i \in 1 .. n : at[i + 1] = at[i] + Space(queue[i]) /\ Stored(d, Wrap(h + at[i]), queue[i])
    BY DEF Row
<1> HIDE DEF n
<1>3. p \in Packet /\ 1 \in 1 .. n
    BY <1>1
<1> HIDE DEF p, q2
<1>4. Aligned(s) /\ s \in Int /\ 0 < s
    BY <1>3, SpaceIs, Constants DEF Aligned
<1>5. at[2] = s
    <2>1. at[1 + 1] = at[1] + s
        BY <1>2, <1>3 DEF p
    <2> HIDE DEF s
    <2> QED
        BY <1>2, <1>4, <2>1
<1>6. \A i \in 1 .. n : i + 1 \in 1 .. n + 1 /\ 2 \in 1 .. n + 1
    BY <1>1
<1>7. \A i \in 1 .. n + 1 : at[i] \in Int /\ at[i] < Capacity /\ Aligned(at[i])
    BY <1>2, PositionIs DEF Aligned
<1>8. ASSUME NEW i \in 1 .. n PROVE s <= at[i + 1]
    <2>1. CASE i = 1
        BY <1>4, <1>5, <2>1
    <2>2. CASE i # 1
        <3>1. 2 < i + 1
            BY <1>1, <2>2
        <3> QED
            BY <1>2, <1>4, <1>5, <1>6, <1>7, <3>1
    <2> QED
        BY <2>1, <2>2
<1>9. s \in Position
    BY <1>2, <1>3, <1>5, <1>6
<1>10. /\ \A x \in Int : 0 <= x /\ x + s < Capacity => Wrap(next + x) = Wrap(h + (x + s))
       /\ \A t \in Position : s <= Wrap(t - h) => Wrap(t - next) = Wrap(t - h) - s
    BY <1>3, <1>9, ReadShifts
<1> HIDE DEF s, next
<1>11. ASSUME NEW i \in 1 .. n
       PROVE  /\ less[i] = at[i + 1] - s /\ less[i] \in Position /\ 0 <= less[i]
              /\ less[i] \in Int /\ less[i] + s = at[i + 1] /\ less[i] + s < Capacity
    <2>1. less[i] = at[i + 1] - s
        OBVIOUS
    <2> HIDE DEF less
    <2>2. at[i + 1] \in Int /\ at[i + 1] < Capacity /\ Aligned(at[i + 1]) /\ Capacity \in Int
        BY <1>6, <1>7, Constants
    <2>3. Aligned(less[i])
        BY <1>4, <2>1, <2>2, AlignedMinus
    <2>4. /\ 0 <= less[i] /\ less[i] \in Int /\ less[i] + s = at[i + 1]
          /\ less[i] + s < Capacity /\ less[i] < Capacity
        BY <1>4, <1>8, <2>1, <2>2
    <2> QED
        BY <2>1, <2>3, <2>4, PositionIs
<1>12. less \in [1 .. n -> Position]
    <2>1. \A i \in 1 .. n : at[i + 1] - s \in Position
        <3> HIDE DEF less
        <3> QED
            BY <1>11
    <2> QED
        BY <2>1
<1> HIDE DEF less
<1>13. less[1] = 0
    BY <1>3, <1>4, <1>5, <1>11
<1>14. ASSUME NEW i \in 1 .. n, NEW j \in 1 .. n, i < j PROVE less[i] < less[j]
    <2>1. at[i + 1] < at[j + 1]
        BY <1>1, <1>2, <1>6, <1>14
    <2> QED
        BY <1>4, <1>6, <1>7, <1>11, <2>1
<1>15. ASSUME NEW i \in 1 .. n - 1
       PROVE  less[i + 1] = less[i] + Space(q2[i]) /\ Stored(d, Wrap(next + less[i]), q2[i])
    <2> DEFINE e == Space(queue[i + 1])
    <2>1. i \in 1 .. n /\ i + 1 \in 1 .. n
        BY <1>1
    <2>2. q2[i] = queue[i + 1] /\ e \in Int
        BY <1>1, <2>1, SpaceIs DEF Aligned
    <2>3. at[(i + 1) + 1] = at[i + 1] + e /\ Stored(d, Wrap(h + at[i + 1]), queue[i + 1])
        BY <1>2, <2>1
    <2> HIDE DEF e
    <2>4. less[i + 1] = less[i] + e
        BY <1>4, <1>6, <1>7, <1>11, <2>1, <2>2, <2>3
    <2>5. Wrap(next + less[i]) = Wrap(h + at[i + 1])
        BY <1>10, <1>11, <2>1
    <2> QED
        BY <2>2, <2>3, <2>4, <2>5 DEF e
<1>16. Row(d, next, q2, less)
    BY <1>1, <1>12, <1>13, <1>14, <1>15 DEF Row
<1>17. ASSUME NEW i \in 1 .. n, NEW t \in Position, Wrap(t - h) = at[i + 1]
       PROVE  Wrap(t - next) = less[i]
    BY <1>8, <1>10, <1>11, <1>17
<1> QED
    BY <1>1, <1>16, <1>17 DEF n, p, s, next, q2

\* While the driver has not closed the rings, or read() still looks at one.
SendRow ==
    ~closed \/ Reading =>
        \E at :
            /\ Row(data["send"], head["send"], held["send"], at)
            /\ ~closed => at[Len(held["send"]) + 1] = Wrap(tail["send"] - head["send"])
            /\ Reading => \E i \in 1 .. Len(held["send"]) + 1 : at[i] = Wrap(local.tail - head["send"])

ReceiveRow ==
    ~closed =>
        \E at :
            /\ Row(data["receive"], head["receive"], held["receive"], at)
            /\ at[Len(held["receive"]) + 1] = Wrap(ownTail - head["receive"])

CopiedFirst == pc = "copied" => held["send"] # <<>> /\ local.buf = Head(held["send"])

QueueInv == SendRow /\ ReceiveRow /\ CopiedFirst

LEMMA SendRowKept ==
    ASSUME SendRow, closed' = closed, data'["send"] = data["send"], held'["send"] = held["send"],
           head'["send"] = head["send"], tail'["send"] = tail["send"],
           Reading' => Reading /\ local'.tail = local.tail
    PROVE  SendRow'
<1>1. CASE closed /\ ~Reading'
    BY <1>1 DEF SendRow
<1>2. CASE ~closed \/ Reading'
    <2>1. PICK at :
             /\ Row(data["send"], head["send"], held["send"], at)
             /\ ~closed => at[Len(held["send"]) + 1] = Wrap(tail["send"] - head["send"])
             /\ Reading => \E i \in 1 .. Len(held["send"]) + 1 : at[i] = Wrap(local.tail - head["send"])
        BY <1>2 DEF SendRow
    <2> QED
        BY <2>1 DEF SendRow
<1> QED
    BY <1>1, <1>2

LEMMA ReceiveRowKept ==
    ASSUME ReceiveRow, closed' = closed, data'["receive"] = data["receive"],
           held'["receive"] = held["receive"], head'["receive"] = head["receive"], ownTail' = ownTail
    PROVE  ReceiveRow'
BY DEF ReceiveRow

LEMMA QueueInitial == Init => QueueInv
<1> SUFFICES ASSUME Init PROVE QueueInv
    OBVIOUS
<1> DEFINE at == [i \in 1 .. 1 |-> 0]
<1>1. /\ head["send"] = 0 /\ tail["send"] = 0 /\ head["receive"] = 0 /\ ownTail = 0
      /\ held["send"] = <<>> /\ held["receive"] = <<>> /\ pc = "idle" /\ ~Reading
    BY DEF Init, Ring, Reading
<1>2. Len(<<>>) + 1 = 1 /\ at[1] = 0 /\ 0 \in Position
    BY Constants, PositionIs
<1>3. ASSUME NEW d PROVE Row(d, 0, <<>>, at)
    BY <1>2 DEF Row
<1>4. Wrap(0 - 0) = 0
    BY <1>2, ChainEmpty
<1> HIDE DEF at
<1> QED
    BY <1>1, <1>2, <1>3, <1>4 DEF QueueInv, SendRow, ReceiveRow, CopiedFirst

LEMMA ReadBeginsQueues ==
    ASSUME IInv, QueueInv, ReadBegins
    PROVE  QueueInv'
<1>1. /\ pc = "idle" /\ UNCHANGED <<head, tail, data, ownTail, closed, held>>
      /\ pc' # "copied" /\ (Reading' => tail["send"] < Capacity /\ local'.tail = tail["send"])
    BY DEF ReadBegins, ringVars, Reading
<1>2. ReceiveRow' /\ CopiedFirst'
    BY <1>1, ReceiveRowKept DEF QueueInv, CopiedFirst
<1>3. SendRow'
    <2>1. CASE ~Reading'
        BY <1>1, <2>1, SendRowKept DEF QueueInv
    <2>2. CASE Reading'
        <3>1. ~closed
            BY <1>1, <2>2, OpenIs DEF IInv
        <3>2. PICK at :
                 /\ Row(data["send"], head["send"], held["send"], at)
                 /\ at[Len(held["send"]) + 1] = Wrap(tail["send"] - head["send"])
            BY <3>1 DEF QueueInv, SendRow
        <3>3. Len(held["send"]) + 1 \in 1 .. Len(held["send"]) + 1
            <4>1. held["send"] \in Seq(Packet)
                BY DEF IInv, TypeOK, Ring
            <4>2. Len(held["send"]) \in Nat
                BY <4>1
            <4> QED
                BY <4>2
        <3> QED
            BY <1>1, <2>2, <3>2, <3>3 DEF SendRow
    <2> QED
        BY <2>1, <2>2
<1> QED
    BY <1>2, <1>3 DEF QueueInv

\* The packet that read() finds is the first of those that the ring holds.
LEMMA ReadFindsFirst ==
    ASSUME IInv, SendRow, Reading, local.head # local.tail
    PROVE  LET h == head["send"]  d == data["send"]  queue == held["send"] IN
           /\ local.head = h /\ h \in Position /\ queue \in Seq(Packet) /\ queue # <<>>
           /\ queue[1] \in Packet /\ d[h \div Align] = <<queue[1], 0>> /\ Stored(d, h, queue[1])
           /\ \E at : \E i \in 1 .. Len(queue) :
                 /\ Row(d, h, queue, at) /\ at[i + 1] = Wrap(local.tail - h)
                 /\ ~closed => at[Len(queue) + 1] = Wrap(tail["send"] - h)
<1> DEFINE h == head["send"]  d == data["send"]  queue == held["send"]
<1>1. PICK p \in Packet :
         /\ h \in Position /\ local.head = h /\ Wrap(local.tail - h) # 0
         /\ d[h \div Align] = <<p, 0>> /\ Stored(d, h, p)
    BY ReadFinds
<1>2. PICK at :
         /\ Row(d, h, queue, at)
         /\ ~closed => at[Len(queue) + 1] = Wrap(tail["send"] - h)
         /\ \E i \in 1 .. Len(queue) + 1 : at[i] = Wrap(local.tail - h)
    BY DEF SendRow
<1>3. PICK j \in 1 .. Len(queue) + 1 : at[j] = Wrap(local.tail - h)
    BY <1>2
<1>4. queue \in Seq(Packet)
    BY DEF IInv, TypeOK, Ring
<1> HIDE DEF h, d, queue
<1>5. queue # <<>> /\ queue[1] \in Packet /\ d[h \div Align] = <<queue[1], 0>>
    BY <1>1, <1>2, <1>3, <1>4, RowFirst
<1>6. queue[1] = p
    BY <1>1, <1>5
<1>7. j - 1 \in 1 .. Len(queue) /\ (j - 1) + 1 = j
    <2>1. at[j] # 0 /\ at[1] = 0
        BY <1>1, <1>2, <1>3 DEF Row
    <2>2. j # 1 /\ Len(queue) \in Nat
        BY <1>4, <2>1
    <2> QED
        BY <2>2
<1>8. at[(j - 1) + 1] = Wrap(local.tail - h)
    BY <1>3, <1>7
<1> QED
    BY <1>1, <1>2, <1>4, <1>5, <1>6, <1>7, <1>8 DEF h, d, queue

LEMMA ReadCopiesQueues ==
    ASSUME IInv, QueueInv, ReadCopies
    PROVE  QueueInv'
<1> DEFINE d == data["send"]
<1>1. /\ pc = "read" /\ local.head # local.tail /\ Reading /\ local \in Local
      /\ UNCHANGED <<head, tail, data, ownTail, closed, held>>
    BY DEF ReadCopies, ringVars, Reading, IInv, TypeOK
<1>2. /\ local.head = head["send"] /\ held["send"] # <<>> /\ held["send"] \in Seq(Packet)
      /\ held["send"][1] \in Packet
      /\ d[local.head \div Align] = <<held["send"][1], 0>> /\ Stored(d, local.head, held["send"][1])
    BY <1>1, ReadFindsFirst DEF QueueInv
<1>3. Whole(d, local.head) /\ d[local.head \div Align][1] = held["send"][1]
    BY <1>2, WholeIs
<1>4. /\ Reading' => local'.tail = local.tail
      /\ pc' = "copied" => local'.buf = held["send"][1]
    BY <1>1, <1>3 DEF ReadCopies, Reading, Local
<1>5. SendRow' /\ ReceiveRow'
    BY <1>1, <1>4, SendRowKept, ReceiveRowKept DEF QueueInv
<1>6. CopiedFirst'
    BY <1>1, <1>2, <1>4 DEF CopiedFirst
<1> QED
    BY <1>5, <1>6 DEF QueueInv

LEMMA ReadReleasesQueues ==
    ASSUME IInv, QueueInv, ReadReleases
    PROVE  /\ QueueInv'
           /\ held["send"] # <<>> /\ held'["send"] = Tail(held["send"])
           /\ given'["send"] = Head(held["send"])
           /\ held'["receive"] = held["receive"] /\ given'["receive"] = given["receive"]
<1> DEFINE h == head["send"]  d == data["send"]  queue == held["send"]
<1>1. /\ pc = "copied" /\ Reading /\ local.head # local.tail /\ local.tail \in Position
      /\ UNCHANGED <<tail, data, ownTail, closed>> /\ pc' # "copied"
      /\ Reading' => local'.tail = local.tail
    BY DEF ReadReleases, Reading, IInv, PlaceInv, TypeOK, Local, Rest
<1>2. /\ local.head = h /\ h \in Position /\ queue \in Seq(Packet) /\ queue # <<>>
      /\ queue[1] \in Packet /\ d[h \div Align] = <<queue[1], 0>>
    BY <1>1, ReadFindsFirst DEF QueueInv
<1>3. PICK at : \E i \in 1 .. Len(queue) :
         /\ Row(d, h, queue, at) /\ at[i + 1] = Wrap(local.tail - h)
         /\ ~closed => at[Len(queue) + 1] = Wrap(tail["send"] - h)
    BY <1>1, ReadFindsFirst DEF QueueInv
<1>4. PICK i \in 1 .. Len(queue) : at[i + 1] = Wrap(local.tail - h)
    BY <1>3
<1> DEFINE next == Wrap(h + Space(queue[1]))
<1>5. PICK less :
         /\ Row(d, next, Tail(queue), less)
         /\ Len(Tail(queue)) + 1 = Len(queue)
         /\ \A j \in 1 .. Len(queue) : \A t \in Position :
               Wrap(t - h) = at[j + 1] => Wrap(t - next) = less[j]
    <2>1. Row(d, h, queue, at)
        BY <1>3
    <2> HIDE DEF h, d, queue
    <2> QED
        BY <1>2, <2>1, RowRead
<1>6. Len(queue) \in 1 .. Len(queue)
    BY <1>2
<1>7. /\ head' = [head EXCEPT !["send"] = next]
      /\ held' = [held EXCEPT !["send"] = Without(queue)]
      /\ given' = [given EXCEPT !["send"] = local.buf]
    <2>1. data["send"][local.head \div Align][1] = queue[1]
        BY <1>2
    <2>2. /\ head' = [head EXCEPT !["send"] = Wrap(local.head + Space(data["send"][local.head \div Align][1]))]
          /\ held' = [held EXCEPT !["send"] = Without(queue)]
          /\ given' = [given EXCEPT !["send"] = local.buf]
        BY DEF ReadReleases
    <2> HIDE DEF queue
    <2> QED
        BY <1>2, <2>1, <2>2
<1>8. local.buf = Head(queue)
    BY <1>1 DEF QueueInv, CopiedFirst
<1>9. Without(queue) = Tail(queue)
    BY <1>2 DEF Without
<1> HIDE DEF h, d, queue, next
<1>10. /\ head'["send"] = next /\ head'["receive"] = head["receive"]
       /\ held'["send"] = Tail(queue) /\ held'["receive"] = held["receive"]
       /\ given'["send"] = Head(queue) /\ given'["receive"] = given["receive"]
    BY <1>7, <1>8, <1>9 DEF IInv, TypeOK, Ring
<1>11. Wrap(local.tail - next) = less[i]
    BY <1>1, <1>4, <1>5
<1>12. ~closed => Wrap(tail["send"] - next) = less[Len(queue)]
    <2> SUFFICES ASSUME ~closed PROVE Wrap(tail["send"] - next) = less[Len(queue)]
        OBVIOUS
    <2>1. tail["send"] \in Position
        BY DEF IInv, PlaceInv
    <2> QED
        BY <1>3, <1>5, <1>6, <2>1
<1>13. SendRow'
    <2>1. Reading' => \E j \in 1 .. Len(Tail(queue)) + 1 : less[j] = Wrap(local'.tail - next)
        BY <1>1, <1>4, <1>5, <1>11
    <2>2. ~closed => less[Len(Tail(queue)) + 1] = Wrap(tail["send"] - next)
        BY <1>5, <1>12
    <2> QED
        BY <1>1, <1>5, <1>10, <2>1, <2>2 DEF SendRow, d
<1>14. ReceiveRow' /\ CopiedFirst'
    BY <1>1, <1>10, ReceiveRowKept DEF QueueInv, CopiedFirst
<1> QED
    BY <1>2, <1>10, <1>13, <1>14 DEF QueueInv, queue

LEMMA DriverReadsQueues ==
    ASSUME IInv, QueueInv, DriverReads
    PROVE  /\ QueueInv'
           /\ held["receive"] # <<>> /\ held'["receive"] = Tail(held["receive"])
           /\ given'["receive"] = Head(held["receive"])
           /\ held'["send"] = held["send"] /\ given'["send"] = given["send"]
<1> DEFINE h == head["receive"]  d == data["receive"]  queue == held["receive"]
           q == d[h \div Align][1]
<1>1. /\ ~closed /\ head["receive"] # tail["receive"]
      /\ UNCHANGED <<tail, data, ownTail, closed, pc, local>>
      /\ given' = [given EXCEPT !["receive"] = IF Starts(d, h) /\ Whole(d, h) THEN q ELSE Nothing]
      /\ head' = [head EXCEPT !["receive"] = Wrap(h + Space(q))]
      /\ held' = [held EXCEPT !["receive"] = Without(queue)]
    BY DEF DriverReads, clientVars
<1>2. PICK p \in Packet :
         Wrap(ownTail - h) # 0 /\ d[h \div Align] = <<p, 0>> /\ Stored(d, h, p)
    BY <1>1, DriverFinds
<1>3. PICK at : Row(d, h, queue, at) /\ at[Len(queue) + 1] = Wrap(ownTail - h)
    BY <1>1 DEF QueueInv, ReceiveRow
<1>4. h \in Position /\ ownTail \in Position /\ queue \in Seq(Packet)
    BY <1>1 DEF IInv, PlaceInv, TypeOK, Ring
<1>5. Starts(d, h) /\ Whole(d, h) /\ q = p
    BY <1>2, WholeIs
<1> HIDE DEF h, d, queue
<1>6. Len(queue) + 1 \in 1 .. Len(queue) + 1
    <2>1. Len(queue) \in Nat
        BY <1>4
    <2> QED
        BY <2>1
<1>7. queue # <<>> /\ queue[1] \in Packet /\ d[h \div Align] = <<queue[1], 0>>
    BY <1>2, <1>3, <1>4, <1>6, RowFirst
<1>8. q = queue[1] /\ Without(queue) = Tail(queue) /\ Head(queue) = queue[1]
    BY <1>4, <1>7 DEF Without
<1> DEFINE next == Wrap(h + Space(queue[1]))
<1>9. PICK less :
         /\ Row(d, next, Tail(queue), less)
         /\ Len(Tail(queue)) + 1 = Len(queue)
         /\ \A j \in 1 .. Len(queue) : \A t \in Position :
               Wrap(t - h) = at[j + 1] => Wrap(t - next) = less[j]
    BY <1>3, <1>4, <1>7, RowRead
<1>10. /\ given' = [given EXCEPT !["receive"] = Head(queue)]
       /\ head' = [head EXCEPT !["receive"] = next]
       /\ held' = [held EXCEPT !["receive"] = Tail(queue)]
    BY <1>1, <1>5, <1>8
<1> HIDE DEF next, q
<1>11. /\ head'["receive"] = next /\ head'["send"] = head["send"]
       /\ held'["receive"] = Tail(queue) /\ held'["send"] = held["send"]
       /\ given'["receive"] = Head(queue) /\ given'["send"] = given["send"]
    BY <1>10 DEF IInv, TypeOK, Ring
<1>12. ReceiveRow'
    <2>1. Len(queue) \in 1 .. Len(queue)
        BY <1>4, <1>7
    <2>2. less[Len(Tail(queue)) + 1] = Wrap(ownTail - next)
        BY <1>3, <1>4, <1>9, <2>1
    <2> QED
        BY <1>1, <1>9, <1>11, <2>2 DEF ReceiveRow, d
<1>13. SendRow' /\ CopiedFirst'
    <2>1. Reading' => Reading
        BY <1>1 DEF Reading
    <2> QED
        BY <1>1, <1>11, <2>1, SendRowKept DEF QueueInv, CopiedFirst
<1> QED
    BY <1>7, <1>11, <1>12, <1>13 DEF QueueInv, queue

LEMMA TunSendQueues ==
    ASSUME IInv, QueueInv, TunSend
    PROVE  /\ QueueInv'
           /\ \/ ~closed /\ \E p \in Packet : held'["receive"] = Append(held["receive"], p)
              \/ held'["receive"] = held["receive"]
           /\ held'["send"] = held["send"] /\ UNCHANGED <<given, closed>>
<1> DEFINE h == head["receive"]  d == data["receive"]  queue == held["receive"]
<1>1. /\ pc = "idle" /\ pc' # "copied" /\ ~Reading /\ ~Reading'
      /\ UNCHANGED <<head, tail, local, closed, given>>
    BY DEF TunSend, Reading
<1>2. CASE UNCHANGED <<data, ownTail, held>>
    BY <1>1, <1>2, SendRowKept, ReceiveRowKept DEF QueueInv, CopiedFirst
<1>3. ASSUME NEW p \in Packet, h <= Capacity, Space(p) <= Free(h, ownTail),
             data' = [data EXCEPT !["receive"] = Written(@, p, ownTail)],
             held' = [held EXCEPT !["receive"] = Append(@, p)],
             ownTail' = Wrap(ownTail + Space(p))
      PROVE  /\ QueueInv' /\ ~closed /\ held'["receive"] = Append(held["receive"], p)
             /\ held'["send"] = held["send"]
    <2>1. /\ ~closed /\ h \in Position /\ ownTail \in Position /\ queue \in Seq(Packet)
        BY <1>3, OpenIs DEF IInv, PlaceInv, TypeOK, Ring
    <2>2. /\ data'["receive"] = Written(d, p, ownTail) /\ data'["send"] = data["send"]
          /\ held'["receive"] = Append(queue, p) /\ held'["send"] = held["send"]
        BY <1>3 DEF IInv, TypeOK, Ring
    <2>3. PICK at : Row(d, h, queue, at) /\ at[Len(queue) + 1] = Wrap(ownTail - h)
        BY <2>1 DEF QueueInv, ReceiveRow
    <2>4. PICK more :
             /\ Row(Written(d, p, ownTail), h, Append(queue, p), more)
             /\ more[Len(Append(queue, p)) + 1] = Wrap(Wrap(ownTail + Space(p)) - h)
        <3> HIDE DEF h, d, queue
        <3> QED
            BY <1>3, <2>1, <2>3, RowWrite
    <2>5. ReceiveRow'
        BY <1>1, <1>3, <2>2, <2>4 DEF ReceiveRow
    <2>6. SendRow' /\ CopiedFirst'
        BY <1>1, <2>2, SendRowKept DEF QueueInv, CopiedFirst
    <2> QED
        BY <2>1, <2>2, <2>5, <2>6 DEF QueueInv
<1> HIDE DEF h, d, queue
<1> QED
    BY <1>1, <1>2, <1>3 DEF TunSend, h

LEMMA DriverWritesQueues ==
    ASSUME IInv, QueueInv, DriverWrites
    PROVE  /\ QueueInv' /\ ~closed
           /\ \E p \in Packet : held'["send"] = Append(held["send"], p)
           /\ held'["receive"] = held["receive"] /\ UNCHANGED <<given, closed>>
<1> DEFINE h == head["send"]  d == data["send"]  queue == held["send"]  t == tail["send"]
<1>1. /\ ~closed /\ UNCHANGED <<head, ownTail, pc, local, closed, given>>
    BY DEF DriverWrites, clientVars
<1>2. PICK p \in Packet :
         /\ Space(p) <= Free(h, t)
         /\ data' = [data EXCEPT !["send"] = Written(d, p, t)]
         /\ held' = [held EXCEPT !["send"] = Append(queue, p)]
         /\ tail' = [tail EXCEPT !["send"] = Wrap(t + Space(p))]
    BY DEF DriverWrites
<1>3. h \in Position /\ t \in Position /\ queue \in Seq(Packet)
    BY <1>1 DEF IInv, PlaceInv, TypeOK, Ring
<1>4. /\ data'["send"] = Written(d, p, t) /\ data'["receive"] = data["receive"]
      /\ held'["send"] = Append(queue, p) /\ held'["receive"] = held["receive"]
      /\ tail'["send"] = Wrap(t + Space(p))
    BY <1>2 DEF IInv, TypeOK, Ring
<1>5. PICK at :
         /\ Row(d, h, queue, at) /\ at[Len(queue) + 1] = Wrap(t - h)
         /\ Reading => \E i \in 1 .. Len(queue) + 1 : at[i] = Wrap(local.tail - h)
    BY <1>1 DEF QueueInv, SendRow
<1>6. PICK more :
         /\ Row(Written(d, p, t), h, Append(queue, p), more)
         /\ more[Len(Append(queue, p)) + 1] = Wrap(Wrap(t + Space(p)) - h)
         /\ \A i \in 1 .. Len(queue) + 1 : i \in 1 .. Len(Append(queue, p)) + 1 /\ more[i] = at[i]
    <2> HIDE DEF h, d, queue, t
    <2> QED
        BY <1>2, <1>3, <1>5, RowWrite
<1>7. Reading' <=> Reading
    BY <1>1 DEF Reading
<1>8. SendRow'
    <2>1. Reading => \E i \in 1 .. Len(Append(queue, p)) + 1 : more[i] = Wrap(local.tail - h)
        BY <1>5, <1>6
    <2> QED
        BY <1>1, <1>4, <1>6, <1>7, <2>1 DEF SendRow
<1>9. ReceiveRow'
    BY <1>1, <1>4, ReceiveRowKept DEF QueueInv
<1>10. CopiedFirst'
    <2>1. queue # <<>> => Append(queue, p) # <<>> /\ Head(Append(queue, p)) = Head(queue)
        BY <1>3
    <2> QED
        BY <1>1, <1>4, <2>1 DEF QueueInv, CopiedFirst
<1> QED
    BY <1>1, <1>4, <1>8, <1>9, <1>10 DEF QueueInv

LEMMA DriverClosesQueues ==
    ASSUME QueueInv, DriverCloses, TypeOK
    PROVE  QueueInv' /\ closed' = TRUE /\ UNCHANGED <<held, given>>
<1>1. /\ ~closed /\ closed' = TRUE /\ UNCHANGED <<data, ownTail, pc, local, held, given>>
      /\ head'["send"] = head["send"]
    BY DEF DriverCloses, clientVars, TypeOK, Ring
<1>2. Reading' <=> Reading
    BY <1>1 DEF Reading
<1>3. PICK at :
         /\ Row(data["send"], head["send"], held["send"], at)
         /\ Reading => \E i \in 1 .. Len(held["send"]) + 1 : at[i] = Wrap(local.tail - head["send"])
    BY <1>1 DEF QueueInv, SendRow
<1>4. SendRow'
    BY <1>1, <1>2, <1>3 DEF SendRow
<1>5. ReceiveRow' /\ CopiedFirst'
    BY <1>1 DEF QueueInv, ReceiveRow, CopiedFirst
<1> QED
    BY <1>1, <1>4, <1>5 DEF QueueInv

\* The other steps neither move a head nor write a packet.
LEMMA OtherStepsQueues ==
    ASSUME IInv, QueueInv, [Next]_vars, ~ReadBegins, ~ReadCopies, ~ReadReleases, ~TunSend,
           ~DriverWrites, ~DriverReads, ~DriverCloses
    PROVE  QueueInv' /\ UNCHANGED <<held, given, closed>>
<1>1. UNCHANGED <<head, data, ownTail, held, given, closed>> /\ tail'["send"] = tail["send"]
    BY DEF Next, Read, DriverConsumes, ReadWaits, WaitFails, TunSendFails, TunSent, Alerted, SetEvent, StoreIsSeen, Stop,
           TunStart, EventCompletes, DriverSignals, DriverAlertable, DriverLooks, DriverWakes,
           clientVars, ringVars, vars, IInv, TypeOK, Ring
<1>2. UNCHANGED <<pc, local>> \/ pc' = "idle"
    BY DEF Next, Read, DriverConsumes, ReadWaits, WaitFails, TunSendFails, TunSent, StoreIsSeen, Stop,
           TunStart, EventCompletes, DriverSignals, DriverAlertable, DriverLooks, DriverWakes,
           clientVars, ringVars, vars
<1>3. /\ Reading' => Reading /\ local'.tail = local.tail
      /\ pc' = "copied" => pc = "copied" /\ local' = local
    BY <1>2 DEF Reading
<1>4. SendRow' /\ ReceiveRow' /\ CopiedFirst'
    BY <1>1, <1>3, SendRowKept, ReceiveRowKept DEF QueueInv, CopiedFirst
<1> QED
    BY <1>1, <1>4 DEF QueueInv

LEMMA QueueStep ==
    ASSUME IInv, QueueInv, [Next]_vars
    PROVE  /\ QueueInv'
           /\ [Sending!Put \/ Sending!Get \/ Sending!Close]_Sending!vars
           /\ [Receiving!Put \/ Receiving!Get \/ Receiving!Close]_Receiving!vars
<1> USE DEF Sending!Put, Sending!Get, Sending!Close, Sending!vars,
            Receiving!Put, Receiving!Get, Receiving!Close, Receiving!vars
<1>1. CASE ReadBegins
    <2>1. UNCHANGED <<held, given, closed>>
        BY <1>1 DEF ReadBegins
    <2> QED
        BY <1>1, <2>1, ReadBeginsQueues
<1>2. CASE ReadCopies
    <2>1. UNCHANGED <<held, given, closed>>
        BY <1>2 DEF ReadCopies
    <2> QED
        BY <1>2, <2>1, ReadCopiesQueues
<1>3. CASE ReadReleases
    <2>1. closed' = closed
        BY <1>3 DEF ReadReleases
    <2> QED
        BY <1>3, <2>1, ReadReleasesQueues
<1>4. CASE TunSend
    BY <1>4, TunSendQueues
<1>5. CASE DriverWrites
    BY <1>5, DriverWritesQueues
<1>6. CASE DriverReads
    <2>1. closed' = closed
        BY <1>6 DEF DriverReads
    <2> QED
        BY <1>6, <2>1, DriverReadsQueues
<1>7. CASE DriverCloses
    BY <1>7, DriverClosesQueues DEF IInv
<1>8. CASE /\ ~ReadBegins /\ ~ReadCopies /\ ~ReadReleases /\ ~TunSend
           /\ ~DriverWrites /\ ~DriverReads /\ ~DriverCloses
    BY <1>8, OtherStepsQueues
<1> QED
    BY <1>1, <1>2, <1>3, <1>4, <1>5, <1>6, <1>7, <1>8

\* In both directions the packets that are written into a ring come out of it
\* whole, in their order and each of them once, however the threads interleave
\* and wherever in the ring they lie; and once the driver has closed the rings
\* nothing is put into them.
THEOREM QueuesCorrect == Safety => ImplementsQueues
<1>1. Init => QueueInv /\ Sending!Init /\ Receiving!Init
    BY QueueInitial DEF Init, Ring, Sending!Init, Receiving!Init
<1>2. /\ IInv /\ QueueInv /\ [Next]_vars
      => /\ QueueInv'
         /\ [Sending!Put \/ Sending!Get \/ Sending!Close]_Sending!vars
         /\ [Receiving!Put \/ Receiving!Get \/ Receiving!Close]_Receiving!vars
    BY QueueStep
<1> QED
    BY <1>1, <1>2, InvHolds, PTL DEF Safety, ImplementsQueues, Sending!Spec, Receiving!Spec

=============================================================================
