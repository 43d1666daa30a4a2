--------------------------- MODULE PacketIdProofs ---------------------------
(***************************************************************************)
(* Proofs about PacketId, for every window, expiry and width of the ids.   *)
(***************************************************************************)
EXTENDS PacketId, TLAPS

\* The width of the wire does not change an id that has not wrapped.
LEMMA WireIdentity == ASSUME NEW n \in 0 .. MaxId PROVE WireId(n) = n
  BY IdsAreNat DEF WireId

\* The slots of a window are distinct, wherever it begins.
LEMMA IndexIsSlot ==
  ASSUME NEW b \in Slot, NEW i \in -Window .. Window - 1
  PROVE  ReplayIndex(b, i) \in Slot
  BY WindowIsPositive DEF ReplayIndex, Slot

LEMMA IndexInjective ==
  ASSUME NEW b \in Slot, NEW i \in Slot, NEW j \in Slot, ReplayIndex(b, i) = ReplayIndex(b, j)
  PROVE  i = j
  BY WindowIsPositive DEF ReplayIndex, Slot

\* Seen from a base that has moved back by m, a slot is m further on.
LEMMA IndexMoves ==
  ASSUME NEW b \in Slot, NEW m \in Slot, NEW i \in Slot, i + m < Window
  PROVE  ReplayIndex(ReplayIndex(b, -m), i + m) = ReplayIndex(b, i)
  BY WindowIsPositive DEF ReplayIndex, Slot

-----------------------------------------------------------------------------
(* The invariant *)

\* The sender stops at the end of the ids.
SenderInv == id <= MaxId /\ (over <=> id = MaxId)

IInv == TypeOK /\ SenderInv /\ WindowIsExact

\* Packets that are sent have the id they were numbered with.
LEMMA SentIds ==
  ASSUME TypeOK, SenderInv, NEW n \in Sent
  PROVE  n \in 1 .. MaxId - 1 /\ WireId(n) = n
<1>1. n \in 1 .. MaxId - 1
  BY IdsAreNat DEF TypeOK, SenderInv, Sent
<1>2. WireId(n) = n
  BY <1>1, WireIdentity, IdsAreNat
<1> QED BY <1>1, <1>2

LEMMA InitInv == Init => IInv
<1> SUFFICES ASSUME Init PROVE IInv
  OBVIOUS
<1>1. TypeOK
  <2>1. history \in [Slot -> BOOLEAN]
    BY DEF Init
  <2>2. base \in Slot /\ extent \in 0 .. Window /\ now \in 0 .. MaxTime
    BY WindowIsPositive, TimeIsNat DEF Init, Slot
  <2> QED BY <2>1, <2>2 DEF Init, TypeOK, Verdict
<1>2. SenderInv
  BY IdsAreNat DEF Init, SenderInv
<1>3. WindowIsExact
  BY WindowIsPositive DEF Init, WindowIsExact
<1> QED BY <1>1, <1>2, <1>3 DEF IInv

\* A packet with a greater id within the window's length
LEMMA ForwardKeepsWindow ==
  ASSUME TypeOK, WindowIsExact, NEW n \in Nat \ {0}, NEW delta \in Nat \ {0},
         n = idHigh + delta, delta < Window \/ delta = 1,
         base' = ReplayIndex(base, -delta),
         history' = [j \in Slot |-> j = base' \/ (j \notin PassedOver(base', delta) /\ history[j])],
         extent' = Extend(delta), idHigh' = n, accepted' = accepted \cup {n},
         idFloor' = idFloor \/ idFloor' = idHigh
  PROVE  WindowIsExact' /\ base' \in Slot /\ extent' \in 0 .. Window /\ history' \in [Slot -> BOOLEAN]
<1>1. base \in Slot /\ extent \in 0 .. Window /\ idHigh \in Nat /\ idFloor \in Nat
  BY DEF TypeOK
<1>2. base' \in Slot
  BY <1>1, WindowIsPositive DEF ReplayIndex, Slot
<1>3. extent' \in 0 .. Window /\ extent' <= extent + delta
  BY <1>1, WindowIsPositive DEF Extend
<1>4. history' \in [Slot -> BOOLEAN]
  BY <1>2 DEF TypeOK
<1>5. extent' = IF idHigh' < Window THEN idHigh' ELSE Window
  BY <1>1, WindowIsPositive DEF Extend, WindowIsExact
<1>6. idFloor' <= idHigh' /\ \A m \in accepted' : m <= idHigh'
  BY <1>1 DEF WindowIsExact, TypeOK
<1>7. ASSUME NEW d \in 0 .. extent' - 1
      PROVE  history'[ReplayIndex(base', d)] <=> (idHigh' - d) \in accepted'
  <2> DEFINE slot == ReplayIndex(base', d)
  <2>1. d \in Slot /\ 0 \in Slot
    BY <1>3, WindowIsPositive DEF Slot
  <2>2. slot \in Slot /\ ReplayIndex(base', 0) = base'
    BY <2>1, <1>2, WindowIsPositive DEF ReplayIndex, Slot
  <2>3. slot = base' <=> d = 0
    BY <2>1, <2>2, <1>2, IndexInjective
  <2>4. slot \in PassedOver(base', delta) <=> d \in 1 .. delta - 1
    <3>1. CASE delta < Window
      <4>1. 1 .. delta - 1 \subseteq Slot
        BY <3>1, WindowIsPositive DEF Slot
      <4>2. \A i \in 1 .. delta - 1 : ReplayIndex(base', i) = slot => i = d
        BY <4>1, <2>1, <1>2, IndexInjective
      <4> QED BY <4>2 DEF PassedOver
    <3>2. CASE delta = 1
      BY <3>2 DEF PassedOver
    <3> QED BY <3>1, <3>2
  <2>5. CASE d = 0
    <3>1. history'[slot]
      BY <2>5, <2>3, <2>2
    <3>2. idHigh' - d = n
      BY <2>5
    <3> QED BY <3>1, <3>2
  <2>6. CASE d \in 1 .. delta - 1
    <3>0. slot # base' /\ slot \in PassedOver(base', delta)
      BY <2>6, <2>3, <2>4
    <3>1. ~history'[slot]
      BY <3>0, <2>2
    <3>2. idHigh' - d > idHigh /\ idHigh' - d # n
      BY <2>6, <1>1
    <3>3. (idHigh' - d) \notin accepted'
      BY <3>2, <1>1 DEF WindowIsExact, TypeOK
    <3> QED BY <3>1, <3>3
  <2>7. CASE d >= delta
    <3> DEFINE old == d - delta
    <3>1. old \in Slot /\ old \in 0 .. extent - 1 /\ delta \in Slot /\ old + delta = d /\ old + delta < Window
      BY <2>7, <2>1, <1>1, <1>3, WindowIsPositive DEF Slot
    <3>2. slot = ReplayIndex(base, old)
      BY <3>1, <1>1, IndexMoves
    <3>3. history'[slot] = history[slot]
      BY <2>7, <2>2, <2>3, <2>4 DEF TypeOK
    <3>4. history[slot] <=> (idHigh - old) \in accepted
      BY <3>1, <3>2 DEF WindowIsExact
    <3>5. idHigh' - d = idHigh - old /\ idHigh' - d # n
      BY <2>7, <1>1
    <3> QED BY <3>3, <3>4, <3>5
  <2> QED BY <2>1, <2>5, <2>6, <2>7 DEF Slot
<1> QED BY <1>2, <1>3, <1>4, <1>5, <1>6, <1>7 DEF WindowIsExact

\* A packet beyond the window
LEMMA LeapKeepsWindow ==
  ASSUME TypeOK, WindowIsExact, NEW n \in Sent, WireId(n) = n, n \in Nat, Leap(n),
         idFloor' = idFloor \/ idFloor' = idHigh
  PROVE  WindowIsExact' /\ base' \in Slot /\ extent' \in 0 .. Window /\ history' \in [Slot -> BOOLEAN]
<1>1. /\ idHigh' = n /\ n - idHigh >= Window /\ extent' = Window /\ base' = 0
      /\ history' = [j \in Slot |-> j = 0]
      /\ accepted' = accepted \cup {n}
  BY DEF Leap, Accept
<1>2. idHigh \in Nat /\ idFloor \in Nat /\ accepted \subseteq Nat /\ 0 \in Slot /\ n > idHigh
  BY <1>1, WindowIsPositive DEF TypeOK, Slot
<1>3. extent' = IF idHigh' < Window THEN idHigh' ELSE Window
  BY <1>1, <1>2, WindowIsPositive
<1>4. idFloor' <= idHigh' /\ \A m \in accepted' : m <= idHigh'
  BY <1>1, <1>2 DEF WindowIsExact
<1>5. ASSUME NEW d \in 0 .. extent' - 1
      PROVE  history'[ReplayIndex(base', d)] <=> (idHigh' - d) \in accepted'
  <2>1. ReplayIndex(base', d) = d /\ d \in Slot
    BY <1>1, WindowIsPositive DEF ReplayIndex, Slot
  <2>2. history'[d] <=> d = 0
    BY <1>1, <2>1
  <2>3. (idHigh' - d) \notin accepted
    BY <1>1, <1>2, WindowIsPositive DEF WindowIsExact
  <2>4. idHigh' - d = n <=> d = 0
    BY <1>1
  <2> QED BY <2>1, <2>2, <2>3, <2>4, <1>1
<1>6. history' \in [Slot -> BOOLEAN]
  BY <1>1
<1> QED BY <1>1, <1>2, <1>3, <1>4, <1>5, <1>6, WindowIsPositive DEF WindowIsExact

\* An older packet
LEMMA BacktrackKeepsWindow ==
  ASSUME TypeOK, WindowIsExact, NEW n \in Sent, WireId(n) = n, n \in Nat \ {0}, Backtrack(n, idFloor'),
         idFloor' = idFloor \/ idFloor' = idHigh
  PROVE  WindowIsExact' /\ base' \in Slot /\ extent' \in 0 .. Window /\ history' \in [Slot -> BOOLEAN]
<1> DEFINE delta == idHigh - n
           ri == ReplayIndex(base, delta)
<1>0. /\ base \in Slot /\ extent \in 0 .. Window /\ history \in [Slot -> BOOLEAN]
      /\ idHigh \in Nat /\ idFloor \in Nat /\ accepted \subseteq Nat
  BY DEF TypeOK
<1>1. idFloor' <= idHigh
  BY <1>0 DEF WindowIsExact
<1>2. CASE UNCHANGED <<base, extent, idHigh, history, accepted>>
  BY <1>2, <1>0, <1>1 DEF WindowIsExact
<1>3. CASE /\ delta < extent /\ delta >= 0
           /\ history' = [history EXCEPT ![ri] = TRUE]
           /\ accepted' = accepted \cup {n}
           /\ UNCHANGED <<base, extent, idHigh>>
  <2>1. delta \in Slot /\ ri \in Slot
    <3>1. delta \in Slot /\ delta \in -Window .. Window - 1
      BY <1>3, <1>0, WindowIsPositive DEF Slot
    <3> QED BY <3>1, <1>0, IndexIsSlot
  <2>2. ASSUME NEW d \in 0 .. extent - 1
        PROVE  history'[ReplayIndex(base, d)] <=> (idHigh - d) \in accepted'
    <3>1. d \in Slot /\ ReplayIndex(base, d) \in Slot
      <4>1. d \in Slot /\ d \in -Window .. Window - 1
        BY <1>0, WindowIsPositive DEF Slot
      <4> QED BY <4>1, <1>0, IndexIsSlot
    <3>2. ReplayIndex(base, d) = ri <=> d = delta
      BY <3>1, <2>1, <1>0, IndexInjective
    <3>3. idHigh - d = n <=> d = delta
      BY <1>0
    <3>4. CASE d = delta
      <4>1. history'[ri]
        BY <1>3, <2>1, <1>0
      <4> QED BY <4>1, <3>4, <3>2, <3>3, <1>3
    <3>5. CASE d # delta
      <4>1. history'[ReplayIndex(base, d)] = history[ReplayIndex(base, d)]
        BY <3>5, <3>2, <3>1, <1>3, <1>0
      <4>2. history[ReplayIndex(base, d)] <=> (idHigh - d) \in accepted
        BY DEF WindowIsExact
      <4> QED BY <4>1, <4>2, <3>5, <3>3, <1>3
    <3> QED BY <3>4, <3>5
  <2>3. \A m \in accepted' : m <= idHigh
    BY <1>3, <1>0 DEF WindowIsExact
  <2>4. history' \in [Slot -> BOOLEAN]
    BY <1>3, <1>0
  <2> QED BY <2>2, <2>3, <2>4, <1>0, <1>1, <1>3 DEF WindowIsExact
<1> QED BY <1>2, <1>3 DEF Backtrack, Reject, Accept

-----------------------------------------------------------------------------
(* Steps *)

\* What a packet does to the receiver
LEMMA TestAddKeepsInv ==
  ASSUME IInv, NEW n \in Sent, TestAdd(n)
  PROVE  IInv'
<1>1. TypeOK /\ SenderInv /\ WindowIsExact
  BY DEF IInv
<1>2. n \in 1 .. MaxId - 1 /\ WireId(n) = n
  BY <1>1, SentIds
<1>3. n \in Nat \ {0} /\ n # 0
  BY <1>2, IdsAreNat
<1>4. /\ idFloor' = idFloor \/ idFloor' = idHigh
      /\ expire' = now + Expire /\ asked' = n
      /\ UNCHANGED <<id, over, now>>
  BY DEF TestAdd
<1>5. /\ WindowIsExact' /\ base' \in Slot /\ extent' \in 0 .. Window /\ history' \in [Slot -> BOOLEAN]
      /\ idHigh' \in Nat /\ verdict' \in Verdict /\ accepted' \subseteq Nat \ {0}
  <2>1. idHigh \in Nat /\ accepted \subseteq Nat \ {0} /\ base \in Slot
    BY <1>1 DEF TypeOK
  <2>2. CASE InSequence(n)
    <3>1. n = idHigh + 1 /\ base' = ReplayIndex(base, -1) /\ extent' = Extend(1) /\ idHigh' = n
          /\ accepted' = accepted \cup {n} /\ verdict' = "SUCCESS"
      BY <2>2, <1>2 DEF InSequence, Accept
    <3>2. history' = [j \in Slot |-> j = base' \/ (j \notin PassedOver(base', 1) /\ history[j])]
      <4>1. history' = [history EXCEPT ![base'] = TRUE]
        BY <2>2 DEF InSequence
      <4>2. history \in [Slot -> BOOLEAN]
        BY <1>1 DEF TypeOK
      <4>3. PassedOver(base', 1) = {}
        BY DEF PassedOver
      <4> QED BY <4>1, <4>2, <4>3
    <3>3. WindowIsExact' /\ base' \in Slot /\ extent' \in 0 .. Window /\ history' \in [Slot -> BOOLEAN]
      BY <3>1, <3>2, <1>1, <1>3, <1>4, ForwardKeepsWindow
    <3> QED BY <3>1, <3>3, <2>1, <1>3 DEF Verdict
  <2>3. CASE Jump(n)
    <3> DEFINE delta == n - idHigh
    <3>1. n = idHigh + delta /\ delta \in Nat \ {0} /\ delta < Window
      BY <2>3, <1>2, <1>3, <2>1 DEF Jump
    <3>2. base' = ReplayIndex(base, -delta) /\ extent' = Extend(delta) /\ idHigh' = n
          /\ accepted' = accepted \cup {n} /\ verdict' = "SUCCESS"
          /\ history' = [j \in Slot |-> j = base' \/ (j \notin PassedOver(base', delta) /\ history[j])]
      BY <2>3, <1>2 DEF Jump, Accept
    <3>3. WindowIsExact' /\ base' \in Slot /\ extent' \in 0 .. Window /\ history' \in [Slot -> BOOLEAN]
      <4> HIDE DEF delta
      <4> QED BY <3>1, <3>2, <1>1, <1>3, <1>4, ForwardKeepsWindow
    <3> QED BY <3>2, <3>3, <2>1, <1>3 DEF Verdict
  <2>4. CASE Leap(n)
    <3>1. WindowIsExact' /\ base' \in Slot /\ extent' \in 0 .. Window /\ history' \in [Slot -> BOOLEAN]
      BY <2>4, <1>1, <1>2, <1>3, <1>4, LeapKeepsWindow
    <3> QED BY <3>1, <2>4, <2>1, <1>2, <1>3 DEF Leap, Accept, Verdict
  <2>5. CASE Backtrack(n, idFloor')
    <3>1. WindowIsExact' /\ base' \in Slot /\ extent' \in 0 .. Window /\ history' \in [Slot -> BOOLEAN]
      BY <2>5, <1>1, <1>2, <1>3, <1>4, BacktrackKeepsWindow
    <3>2. idHigh' = idHigh /\ verdict' \in Verdict /\ accepted' \in {accepted, accepted \cup {n}}
      BY <2>5 DEF Backtrack, Reject, Accept, Verdict
    <3> QED BY <3>1, <3>2, <2>1, <1>3
  <2> QED BY <2>2, <2>3, <2>4, <2>5, <1>2, <1>3 DEF TestAdd
<1>6. TypeOK'
  BY <1>1, <1>3, <1>4, <1>5, ExpireIsNat, TimeIsNat DEF TypeOK
<1>7. SenderInv'
  BY <1>1, <1>4 DEF SenderInv
<1> QED BY <1>5, <1>6, <1>7 DEF IInv

LEMMA NextInv == IInv /\ [Next]_vars => IInv'
<1> SUFFICES ASSUME IInv, [Next]_vars PROVE IInv'
  OBVIOUS
<1>0. TypeOK /\ SenderInv /\ WindowIsExact
  BY DEF IInv
<1>1. CASE Send
  <2>1. id' = id + 1 /\ over' = (id' = MaxId) /\ ~over /\ UNCHANGED <<now, recvVars>>
    BY <1>1 DEF Send, Exhausted
  <2>2. id' \in Nat /\ over' \in BOOLEAN
    BY <2>1, <1>0 DEF TypeOK
  <2>5. id' <= MaxId
    BY <2>1, <1>0, IdsAreNat DEF SenderInv, TypeOK
  <2>6. SenderInv'
    BY <2>1, <2>5 DEF SenderInv
  <2>3. TypeOK'
    BY <2>1, <2>2, <1>0 DEF TypeOK, recvVars
  <2>4. WindowIsExact'
    BY <2>1, <1>0 DEF WindowIsExact, recvVars
  <2> QED BY <2>6, <2>3, <2>4 DEF IInv
<1>2. CASE Arrive
  BY <1>2, TestAddKeepsInv DEF Arrive
<1>3. CASE Tick
  <2>1. TypeOK'
    BY <1>3, <1>0, TimeIsNat DEF Tick, TypeOK, recvVars
  <2>2. SenderInv' /\ WindowIsExact'
    BY <1>3, <1>0 DEF Tick, SenderInv, WindowIsExact, recvVars
  <2> QED BY <2>1, <2>2 DEF IInv
<1>4. CASE UNCHANGED vars
  BY <1>4, <1>0 DEF IInv, vars, recvVars, TypeOK, SenderInv, WindowIsExact
<1> QED BY <1>1, <1>2, <1>3, <1>4 DEF Next

\* The invariant holds throughout.
THEOREM InvCorrect == Spec => []IInv
<1>1. Init => IInv
  BY InitInv
<1>2. IInv /\ [Next]_vars => IInv'
  BY NextInv
<1> QED BY <1>1, <1>2, PTL DEF Spec

\* TypeOK is an invariant of Spec.
THEOREM TypeCorrect == Spec => []TypeOK
<1>1. IInv => TypeOK
  BY DEF IInv
<1> QED BY <1>1, InvCorrect, PTL

\* The bitmap says which of the last ids have been accepted, for a window of
\* any length.
THEOREM WindowCorrect == Spec => []WindowIsExact
<1>1. IInv => WindowIsExact
  BY DEF IInv
<1> QED BY <1>1, InvCorrect, PTL

\* No two packets have the same id on the wire, of whatever width that is.
THEOREM IdsCorrect == Spec => []IdsAreUnique
<1>1. IInv => IdsAreUnique
  <2> SUFFICES ASSUME IInv, NEW m \in Sent, NEW n \in Sent
               PROVE  WireId(n) # 0 /\ (WireId(m) = WireId(n) => m = n)
    BY DEF IdsAreUnique
  <2>1. WireId(m) = m /\ WireId(n) = n /\ n \in 1 .. MaxId - 1
    BY SentIds DEF IInv
  <2> QED BY <2>1
<1> QED BY <1>1, InvCorrect, PTL

-----------------------------------------------------------------------------
(* The promise *)

\* The verdict on a packet is that of the filter which remembers every id.
LEMMA VerdictIsFilters ==
  ASSUME IInv, NEW n \in Sent, TestAdd(n)
  PROVE  LET fits == /\ n \notin accepted
                     /\ n > idHigh \/ (n > idFloor' /\ idHigh - n < Window) IN
         /\ verdict' = "SUCCESS" <=> fits
         /\ accepted' = IF fits THEN accepted \cup {n} ELSE accepted
         /\ idHigh' = IF fits /\ n > idHigh THEN n ELSE idHigh
<1> DEFINE fits == n \notin accepted /\ (n > idHigh \/ (n > idFloor' /\ idHigh - n < Window))
<1>1. TypeOK /\ SenderInv /\ WindowIsExact
  BY DEF IInv
<1>2. WireId(n) = n /\ n \in Nat \ {0} /\ n # 0
  BY <1>1, SentIds, IdsAreNat
<1>3. idHigh \in Nat /\ idFloor' \in Nat /\ extent \in 0 .. Window /\ base \in Slot
  BY <1>1 DEF TypeOK, TestAdd
<1>4. CASE n > idHigh
  <2>1. n \notin accepted /\ fits
    BY <1>1, <1>3, <1>4, <1>2 DEF WindowIsExact
  <2>2. InSequence(n) \/ Jump(n) \/ Leap(n)
    BY <1>2, <1>3, <1>4 DEF TestAdd, Backtrack
  <2>3. verdict' = "SUCCESS" /\ accepted' = accepted \cup {n} /\ idHigh' = n
    BY <2>2, <1>2 DEF InSequence, Jump, Leap, Accept
  <2> QED BY <2>1, <2>3, <1>4
<1>5. CASE ~(n > idHigh)
  <2> DEFINE delta == idHigh - n
             ri == ReplayIndex(base, delta)
  <2>1. Backtrack(n, idFloor')
    BY <1>2, <1>3, <1>5 DEF TestAdd, InSequence, Jump, Leap
  <2>2. delta >= 0 /\ delta < idHigh
    BY <1>2, <1>3, <1>5
  <2>3. delta < extent <=> delta < Window
    BY <2>2, <1>1, <1>2, <1>3, WindowIsPositive DEF WindowIsExact
  <2>4. delta < extent => (history[ri] <=> n \in accepted)
    <3> SUFFICES ASSUME delta < extent PROVE history[ri] <=> n \in accepted
      OBVIOUS
    <3>1. delta \in 0 .. extent - 1 /\ idHigh - delta = n
      BY <2>2, <1>2, <1>3
    <3> QED BY <3>1, <1>1 DEF WindowIsExact
  <2>5. CASE delta < extent /\ n > idFloor' /\ ~history[ri]
    <3>1. verdict' = "SUCCESS" /\ accepted' = accepted \cup {n} /\ idHigh' = idHigh
      BY <2>5, <2>1, <1>2, <1>3 DEF Backtrack, Accept
    <3>2. fits
      BY <2>5, <2>4, <2>3
    <3> QED BY <3>1, <3>2, <1>5
  <2>6. CASE ~(delta < extent /\ n > idFloor' /\ ~history[ri])
    <3>1. verdict' # "SUCCESS" /\ UNCHANGED <<accepted, idHigh>>
      BY <2>6, <2>1, <1>2, <1>3 DEF Backtrack, Reject
    <3>2. ~fits
      BY <2>6, <2>3, <2>4, <1>5
    <3> QED BY <3>1, <3>2
  <2> QED BY <2>5, <2>6
<1> QED BY <1>4, <1>5, <1>3

\* The receiver implements ReplayFilter: it accepts a packet exactly when a
\* filter that remembers every id it has accepted would.
THEOREM ImplementsCorrect == Spec => ImplementsFilter
<1>1. Init => Filter!Init
  <2> SUFFICES ASSUME Init PROVE Filter!Init
    OBVIOUS
  <2>1. WireId(asked) = 0 /\ expire - Expire = -Expire
    BY WireIdentity, IdsAreNat, ExpireIsNat DEF Init
  <2>2. (verdict = "SUCCESS") = FALSE
    BY DEF Init
  <2> QED BY <2>1, <2>2 DEF Init, Filter!Init
<1>2. IInv /\ [Next]_vars => [Filter!Next]_Filter!vars
  <2> SUFFICES ASSUME IInv, [Next]_vars
               PROVE  Filter!Next \/ UNCHANGED Filter!vars
    OBVIOUS
  <2>1. CASE Arrive
    <3>1. PICK n \in Sent : TestAdd(n)
      BY <2>1 DEF Arrive
    <3>2. n \in 1 .. MaxId - 1 /\ WireId(n) = n
      BY SentIds DEF IInv
    <3>3. now \in 0 .. MaxTime /\ expire \in Nat
      BY DEF IInv, TypeOK
    <3>4. idFloor' = (IF now - (expire - Expire) >= Expire THEN idHigh ELSE idFloor)
      BY <3>1, <3>3, ExpireIsNat DEF TestAdd
    <3>5. expire' - Expire = now
      BY <3>1, <3>3, ExpireIsNat DEF TestAdd
    <3>6. WireId(asked)' = n
      BY <3>1, <3>2 DEF TestAdd, WireId
    <3> DEFINE fits == n \notin accepted /\ (n > idHigh \/ (n > idFloor' /\ idHigh - n < Window))
    <3>7. Filter!Acceptable(n, idFloor') <=> fits
      BY <3>2, IdsAreNat DEF Filter!Acceptable
    <3>8. /\ verdict' = "SUCCESS" <=> fits
          /\ accepted' = IF fits THEN accepted \cup {n} ELSE accepted
          /\ idHigh' = IF fits /\ n > idHigh THEN n ELSE idHigh
      BY <3>1, VerdictIsFilters
    <3>9. (verdict' = "SUCCESS") = Filter!Acceptable(n, idFloor')
      <4> HIDE DEF fits
      <4>1. Filter!Acceptable(n, idFloor') \in BOOLEAN
        BY DEF Filter!Acceptable
      <4>2. Filter!Acceptable(n, idFloor') <=> verdict' = "SUCCESS"
        BY <3>7, <3>8
      <4> HIDE DEF Filter!Acceptable
      <4> QED BY <4>1, <4>2
    <3>10. Filter!Test(n, now)
      <4> HIDE DEF fits
      <4>1. /\ accepted' = IF verdict' = "SUCCESS" THEN accepted \cup {n} ELSE accepted
            /\ idHigh' = IF verdict' = "SUCCESS" /\ n > idHigh THEN n ELSE idHigh
        BY <3>8
      <4> QED BY <3>4, <3>5, <3>6, <3>9, <4>1, Zenon DEF Filter!Test
    <3> QED BY <3>2, <3>3, <3>10, IdsAreNat DEF Filter!Next
  <2>2. CASE Send \/ Tick \/ UNCHANGED vars
    BY <2>2 DEF Send, Tick, vars, recvVars, Filter!vars, WireId
  <2> QED BY <2>1, <2>2 DEF Next
<1> QED BY <1>1, <1>2, InvCorrect, PTL DEF Spec, ImplementsFilter, Filter!Spec

\* No packet is accepted twice.
THEOREM OnceCorrect == Spec => AcceptedOnce
<1>1. IInv /\ [Next]_vars => [\A n \in Sent : TestAdd(n) /\ verdict' = "SUCCESS" => n \notin accepted]_vars
  <2> SUFFICES ASSUME IInv, NEW n \in Sent, TestAdd(n), verdict' = "SUCCESS"
               PROVE  n \notin accepted
    OBVIOUS
  <2> QED BY VerdictIsFilters
<1> QED BY <1>1, InvCorrect, PTL DEF Spec, AcceptedOnce
=============================================================================
