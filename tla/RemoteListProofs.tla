--------------------------- MODULE RemoteListProofs ---------------------------
(***************************************************************************)
(* Proofs about RemoteList for any profile, any addresses and any order of *)
(* the two resolvers: the types, and, if a name server always answers for  *)
(* a host or never does, that the index follows the session through the    *)
(* list as it shrinks and remote_list_error is not raised.                 *)
(***************************************************************************)
EXTENDS RemoteList, FiniteSetTheorems, TLAPS

-----------------------------------------------------------------------------
(* The least element of a set of numbers *)

LEMMA Least ==
    ASSUME NEW T \in SUBSET Nat, T # {}
    PROVE  \E m \in T : \A k \in T : m <= k
<1> DEFINE R == {ss \in Nat \X Nat : ss[1] < ss[2]}
<1>1. R = OpToRel(<, Nat)
    BY DEF OpToRel
<1>2. IsWellFoundedOn(R, Nat)
    BY <1>1, NatLessThanWellFounded
<1>3. PICK m \in T : \A y \in T : ~(<<y, m>> \in R)
    <2> HIDE DEF R
    <2> QED
        BY <1>2, WFMin
<1>4. ASSUME NEW k \in T, ~(m <= k)
      PROVE  FALSE
    <2>1. k < m /\ <<k, m>> \in Nat \X Nat /\ <<k, m>>[1] = k /\ <<k, m>>[2] = m
        BY <1>4
    <2>2. <<k, m>> \in R
        BY <2>1
    <2> QED
        BY <1>3, <2>2
<1> QED
    BY <1>4

LEMMA MinIs ==
    ASSUME NEW T \in SUBSET Nat, T # {}
    PROVE  Min(T) \in T /\ \A k \in T : Min(T) <= k
<1>1. \E m \in T : \A k \in T : m <= k
    BY Least
<1> QED
    BY <1>1 DEF Min

-----------------------------------------------------------------------------
(* The elements of a list that are in a set *)

LEMMA UptoIs ==
    ASSUME NEW s, NEW S, NEW i \in Nat
    PROVE  /\ IsFiniteSet({j \in 1 .. i : s[j] \in S})
           /\ Upto(s, S, i) \in Nat /\ Upto(s, S, i) <= i
<1> DEFINE U == {j \in 1 .. i : s[j] \in S}
<1>1. IsFiniteSet(1 .. i) /\ Cardinality(1 .. i) <= i
    BY FS_Interval
<1>2. U \in SUBSET (1 .. i)
    OBVIOUS
<1> HIDE DEF U
<1>3. IsFiniteSet(U) /\ Cardinality(U) <= Cardinality(1 .. i)
    BY <1>1, <1>2, FS_Subset
<1>4. Cardinality(U) \in Nat /\ Cardinality(1 .. i) \in Nat
    BY <1>1, <1>3, FS_CardinalityType
<1>5. Cardinality(U) \in Nat /\ Cardinality(U) <= i
    BY <1>1, <1>3, <1>4
<1> QED
    BY <1>3, <1>5 DEF U, Upto

LEMMA UptoZero == \A s, S : Upto(s, S, 0) = 0
<1> SUFFICES ASSUME NEW s, NEW S PROVE Upto(s, S, 0) = 0
    OBVIOUS
<1>1. Upto(s, S, 0) \in Nat /\ Upto(s, S, 0) <= 0
    BY UptoIs
<1> QED
    BY <1>1

LEMMA UptoNext ==
    ASSUME NEW s, NEW S, NEW i \in Nat
    PROVE  Upto(s, S, i + 1) = IF s[i + 1] \in S THEN Upto(s, S, i) + 1 ELSE Upto(s, S, i)
<1> DEFINE U == {j \in 1 .. i : s[j] \in S}  V == {j \in 1 .. i + 1 : s[j] \in S}
<1>1. IsFiniteSet(U)
    BY UptoIs
<1>2. 1 .. i + 1 = (1 .. i) \cup {i + 1} /\ i + 1 \notin 1 .. i
    OBVIOUS
<1>3. CASE s[i + 1] \in S
    <2>1. V = U \cup {i + 1} /\ i + 1 \notin U
        BY <1>2, <1>3
    <2> HIDE DEF U, V
    <2>2. Cardinality(V) = Cardinality(U) + 1
        BY <1>1, <2>1, FS_AddElement
    <2> QED
        BY <1>3, <2>2 DEF U, V, Upto
<1>4. CASE s[i + 1] \notin S
    <2>1. V = U
        BY <1>2, <1>4
    <2> QED
        BY <1>4, <2>1 DEF Upto
<1> QED
    BY <1>3, <1>4

LEMMA UptoGrows ==
    ASSUME NEW s, NEW S, NEW i \in Nat, NEW j \in Nat, i <= j
    PROVE  /\ Upto(s, S, i) <= Upto(s, S, j)
           /\ i < j /\ s[j] \in S => Upto(s, S, i) < Upto(s, S, j)
<1>1. ASSUME NEW k \in Nat, i <= k PROVE Upto(s, S, i) <= Upto(s, S, k)
    <2> DEFINE U == {n \in 1 .. i : s[n] \in S}  V == {n \in 1 .. k : s[n] \in S}
    <2>1. U \in SUBSET V
        BY <1>1
    <2>2. IsFiniteSet(V)
        BY UptoIs
    <2> HIDE DEF U, V
    <2>3. Cardinality(U) <= Cardinality(V)
        BY <2>1, <2>2, FS_Subset
    <2> QED
        BY <2>3 DEF U, V, Upto
<1>2. ASSUME i < j, s[j] \in S PROVE Upto(s, S, i) < Upto(s, S, j)
    <2>1. j - 1 \in Nat /\ i <= j - 1 /\ (j - 1) + 1 = j
        BY <1>2
    <2>2. Upto(s, S, i) <= Upto(s, S, j - 1)
        BY <1>1, <2>1
    <2>3. Upto(s, S, (j - 1) + 1) = Upto(s, S, j - 1) + 1
        BY <1>2, <2>1, UptoNext
    <2>4. Upto(s, S, i) \in Nat
        BY UptoIs
    <2>5. Upto(s, S, j - 1) \in Nat
        BY <2>1, UptoIs
    <2> QED
        BY <2>1, <2>2, <2>3, <2>4, <2>5
<1> QED
    BY <1>1, <1>2

LEMMA UptoFinds ==
    ASSUME NEW s, NEW S, NEW n \in Nat, NEW k \in 1 .. Upto(s, S, n)
    PROVE  \E i \in 1 .. n : s[i] \in S /\ Upto(s, S, i) = k
<1> DEFINE T == {i \in 0 .. n : k <= Upto(s, S, i)}
<1>1. Upto(s, S, n) \in Nat /\ k \in Nat /\ 1 <= k /\ k <= Upto(s, S, n)
    <2>1. Upto(s, S, n) \in Nat
        BY UptoIs
    <2> QED
        BY <2>1
<1>2. T \in SUBSET Nat /\ n \in T
    BY <1>1
<1>3. PICK m \in T : \A i \in T : m <= i
    <2> HIDE DEF T
    <2> QED
        BY <1>2, Least
<1>4. m \in 0 .. n /\ k <= Upto(s, S, m)
    BY <1>3
<1>5. m # 0
    BY <1>1, <1>4, UptoZero
<1>6. m - 1 \in Nat /\ m - 1 \in 0 .. n /\ (m - 1) + 1 = m /\ ~(m <= m - 1) /\ m \in 1 .. n
    BY <1>4, <1>5
<1>7. ~(k <= Upto(s, S, m - 1))
    BY <1>3, <1>6
<1>8. Upto(s, S, m) = IF s[m] \in S THEN Upto(s, S, m - 1) + 1 ELSE Upto(s, S, m - 1)
    <2>1. Upto(s, S, (m - 1) + 1) = IF s[(m - 1) + 1] \in S THEN Upto(s, S, m - 1) + 1 ELSE Upto(s, S, m - 1)
        BY <1>6, UptoNext
    <2> QED
        BY <1>6, <2>1
<1>9. Upto(s, S, m - 1) \in Int /\ Upto(s, S, m) \in Int
    <2>1. Upto(s, S, m - 1) \in Nat
        BY <1>6, UptoIs
    <2>2. m \in Nat
        BY <1>4
    <2>3. Upto(s, S, m) \in Nat
        BY <2>2, UptoIs
    <2> QED
        BY <2>1, <2>3
<1>10. s[m] \in S /\ Upto(s, S, m) = k
    BY <1>1, <1>4, <1>7, <1>8, <1>9
<1> QED
    BY <1>6, <1>10

\* l has the elements of s that are in S, each where Upto says.
Selects(l, T, s, S) ==
    /\ l \in Seq(T \cap S) /\ Len(l) = Upto(s, S, Len(s))
    /\ \A k \in 1 .. Len(l) : \E i \in 1 .. Len(s) : s[i] \in S /\ Upto(s, S, i) = k /\ l[k] = s[i]
    /\ \A i \in 1 .. Len(s) :
          s[i] \in S => Upto(s, S, i) \in 1 .. Len(l) /\ l[Upto(s, S, i)] = s[i]

LEMMA ThoseAre ==
    ASSUME NEW T, NEW s \in Seq(T), NEW S
    PROVE  Selects(Those(s, S), T, s, S)
<1> DEFINE n == Len(s)  m == Upto(s, S, n)
           At(k) == CHOOSE i \in 1 .. n : s[i] \in S /\ Upto(s, S, i) = k
           those == [k \in 1 .. m |-> s[At(k)]]
<1>1. n \in Nat /\ \A i \in 1 .. n : s[i] \in T
    OBVIOUS
<1> HIDE DEF n
<1>2. m \in Nat
    BY <1>1, UptoIs
<1> HIDE DEF m
<1>3. ASSUME NEW k \in 1 .. m
      PROVE  At(k) \in 1 .. n /\ s[At(k)] \in S /\ Upto(s, S, At(k)) = k
    <2>1. \E i \in 1 .. n : s[i] \in S /\ Upto(s, S, i) = k
        BY <1>1, UptoFinds DEF m
    <2> QED
        BY <2>1
<1>4. ASSUME NEW i \in 1 .. n, s[i] \in S
      PROVE  Upto(s, S, i) \in 1 .. m /\ At(Upto(s, S, i)) = i
    <2>1. Upto(s, S, i) \in Nat /\ Upto(s, S, i) <= m /\ i \in Nat
        <3>1. i \in Nat /\ i <= n
            BY <1>1
        <3> QED
            BY <1>1, <3>1, UptoIs, UptoGrows DEF m
    <2>2. Upto(s, S, 0) < Upto(s, S, i)
        BY <1>4, UptoGrows
    <2>3. Upto(s, S, i) \in 1 .. m
        BY <1>2, <2>1, <2>2, UptoZero
    <2> DEFINE j == At(Upto(s, S, i))
    <2>4. j \in 1 .. n /\ s[j] \in S /\ Upto(s, S, j) = Upto(s, S, i)
        BY <1>3, <2>3
    <2> HIDE DEF j
    <2>5. ~(i < j) /\ ~(j < i)
        BY <1>4, <2>1, <2>4, UptoGrows
    <2> QED
        BY <2>3, <2>4, <2>5 DEF j
<1> HIDE DEF At
<1>5. those \in Seq(T \cap S) /\ Len(those) = m
    <2>1. those \in [1 .. m -> T \cap S]
        BY <1>1, <1>3
    <2> HIDE DEF those
    <2>2. those \in Seq(T \cap S)
        BY <1>2, <2>1
    <2> QED
        BY <1>2, <2>1, <2>2
<1>6. \A k \in 1 .. m : those[k] = s[At(k)]
    OBVIOUS
<1> HIDE DEF those
<1>7. \A k \in 1 .. m : \E i \in 1 .. n : s[i] \in S /\ Upto(s, S, i) = k /\ those[k] = s[i]
    BY <1>3, <1>6
<1>8. \A i \in 1 .. n : s[i] \in S => Upto(s, S, i) \in 1 .. m /\ those[Upto(s, S, i)] = s[i]
    BY <1>4, <1>6
<1>9. those = Those(s, S)
    BY DEF those, At, m, n, Those
<1>10. Selects(those, T, s, S)
    BY <1>5, <1>7, <1>8 DEF n, m, Selects
<1> QED
    BY <1>9, <1>10

LEMMA ThoseInjective ==
    ASSUME NEW T, NEW s \in Seq(T), NEW S, IsInjective(s)
    PROVE  IsInjective(Those(s, S))
<1> DEFINE l == Those(s, S)
<1>0. Selects(l, T, s, S)
    BY ThoseAre
<1> HIDE DEF l
<1>1. l \in Seq(T \cap S) /\ \A k \in 1 .. Len(l) : \E i \in 1 .. Len(s) : Upto(s, S, i) = k /\ l[k] = s[i]
    BY <1>0 DEF Selects
<1>2. DOMAIN l = 1 .. Len(l) /\ DOMAIN s = 1 .. Len(s)
    BY <1>1
<1>3. ASSUME NEW j \in 1 .. Len(l), NEW k \in 1 .. Len(l), l[j] = l[k]
      PROVE  j = k
    <2>1. PICK i \in 1 .. Len(s) : Upto(s, S, i) = j /\ l[j] = s[i]
        BY <1>1
    <2>2. PICK h \in 1 .. Len(s) : Upto(s, S, h) = k /\ l[k] = s[h]
        BY <1>1
    <2>3. i = h
        BY <1>2, <1>3, <2>1, <2>2 DEF IsInjective
    <2> QED
        BY <2>1, <2>2, <2>3
<1> QED
    BY <1>2, <1>3 DEF IsInjective, l

LEMMA ThoseRange ==
    ASSUME NEW T, NEW s \in Seq(T), NEW S
    PROVE  Range(Those(s, S)) = Range(s) \cap S
<1> DEFINE l == Those(s, S)
<1>1. Selects(l, T, s, S)
    BY ThoseAre
<1> HIDE DEF l
<1>3. DOMAIN l = 1 .. Len(l) /\ DOMAIN s = 1 .. Len(s)
    BY <1>1 DEF Selects
<1>4. ASSUME NEW x \in Range(l) PROVE x \in Range(s) \cap S
    <2>1. PICK k \in 1 .. Len(l) : x = l[k]
        BY <1>3, <1>4 DEF Range
    <2>2. PICK i \in 1 .. Len(s) : s[i] \in S /\ l[k] = s[i]
        BY <1>1 DEF Selects
    <2> QED
        BY <1>3, <2>1, <2>2 DEF Range
<1>5. ASSUME NEW x \in Range(s) \cap S PROVE x \in Range(l)
    <2>1. PICK i \in 1 .. Len(s) : x = s[i]
        BY <1>3, <1>5 DEF Range
    <2>2. Upto(s, S, i) \in 1 .. Len(l) /\ l[Upto(s, S, i)] = x
        BY <1>1, <1>5, <2>1 DEF Selects
    <2> QED
        BY <1>3, <2>2 DEF Range
<1> QED
    BY <1>4, <1>5 DEF l

LEMMA RangeOfList ==
    ASSUME NEW T, NEW s \in Seq(T)
    PROVE  /\ Range(s) \subseteq T /\ (s = <<>> <=> Range(s) = {})
           /\ \A i \in 1 .. Len(s) : s[i] \in Range(s)
           /\ \A x \in Range(s) : \E i \in 1 .. Len(s) : x = s[i]
<1>1. DOMAIN s = 1 .. Len(s) /\ Len(s) \in Nat /\ \A i \in 1 .. Len(s) : s[i] \in T
    OBVIOUS
<1>2. /\ \A i \in 1 .. Len(s) : s[i] \in Range(s)
      /\ \A x \in Range(s) : \E i \in 1 .. Len(s) : x = s[i]
    BY <1>1 DEF Range
<1>3. Range(s) \subseteq T
    BY <1>1, <1>2
<1>4. CASE s = <<>>
    <2>1. 1 .. Len(s) = {}
        BY <1>4
    <2> QED
        BY <1>2, <1>3, <1>4, <2>1
<1>5. CASE s # <<>>
    <2>1. 1 \in 1 .. Len(s)
        BY <1>1, <1>5
    <2> QED
        BY <1>2, <1>3, <1>5, <2>1
<1> QED
    BY <1>4, <1>5

-----------------------------------------------------------------------------
(* Lists of addresses *)

LEMMA Addresses == Cardinality(Addr) \in Nat \ {0}
<1>1. Cardinality(Addr) \in Nat
    BY AddressesAreFinite, FS_CardinalityType
<1>2. Cardinality(Addr) # 0
    BY AddressesAreFinite, FS_EmptySet
<1> QED
    BY <1>1, <1>2

\* A list without repetitions is never longer than there are addresses.
LEMMA AddrListIs ==
    \A s : s \in AddrList <=> s \in Seq(Addr) /\ IsInjective(s)
<1> SUFFICES ASSUME NEW s PROVE s \in AddrList <=> s \in Seq(Addr) /\ IsInjective(s)
    OBVIOUS
<1>1. ASSUME s \in AddrList PROVE s \in Seq(Addr) /\ IsInjective(s)
    <2>1. PICK n \in 0 .. Cardinality(Addr) : s \in [1 .. n -> Addr] /\ IsInjective(s)
        BY <1>1 DEF AddrList
    <2>2. n \in Nat
        BY Addresses
    <2> QED
        BY <2>1, <2>2
<1>2. ASSUME s \in Seq(Addr), IsInjective(s) PROVE s \in AddrList
    <2> DEFINE n == Len(s)
    <2>1. n \in Nat /\ s \in [1 .. n -> Addr]
        BY <1>2
    <2> HIDE DEF n
    <2>2. Cardinality(1 .. n) <= Cardinality(Addr)
        <3>1. s \in Injection(1 .. n, Addr)
            BY <1>2, <2>1 DEF Injection
        <3> QED
            BY <3>1, AddressesAreFinite, FS_Injection
    <2>3. Cardinality(1 .. n) = n
        BY <2>1, FS_Interval
    <2>4. n \in 0 .. Cardinality(Addr)
        BY <2>1, <2>2, <2>3, Addresses
    <2> QED
        BY <1>2, <2>1, <2>4 DEF AddrList
<1> QED
    BY <1>1, <1>2

LEMMA AddrLength == \A s \in AddrList : Len(s) \in 0 .. Cardinality(Addr) /\ \A i \in 1 .. Len(s) : s[i] \in Addr
<1> SUFFICES ASSUME NEW s \in AddrList
             PROVE  Len(s) \in 0 .. Cardinality(Addr) /\ \A i \in 1 .. Len(s) : s[i] \in Addr
    OBVIOUS
<1>1. PICK n \in 0 .. Cardinality(Addr) : s \in [1 .. n -> Addr]
    BY DEF AddrList
<1>2. n \in Nat
    BY Addresses
<1>3. Len(s) = n /\ s \in Seq(Addr)
    BY <1>1, <1>2
<1> QED
    BY <1>1, <1>3

LEMMA AnswerIsList ==
    ASSUME NEW h \in Host, NEW r \in Answers[h] \ {Failed}
    PROVE  r \in Seq(Addr) /\ IsInjective(r)
BY AnswersAreLists

LEMMA EntryIs == Entry # {} /\ \A e \in Entry : HostOf[e] \in Host /\ Compatible[e] \subseteq Addr
<1>1. Range(Profile) # {}
    BY ProfileIsList, RangeOfList
<1> QED
    BY <1>1, EntriesHaveHosts DEF Entry

\* set_endpoint_range() leaves a list of the compatible addresses of the answer.
LEMMA EndpointRangeIs ==
    ASSUME NEW e \in Entry, addrs[e] \in AddrList \cup {NoList},
           NEW r \in Seq(Addr), IsInjective(r), NEW l \in EndpointRange(e, r)
    PROVE  l \in AddrList /\ (r # <<>> => Range(l) = Range(r) \cap Compatible[e])
<1>1. CASE r = <<>>
    <2>1. l = IF addrs[e] = NoList THEN <<>> ELSE addrs[e]
        BY <1>1 DEF EndpointRange
    <2>2. <<>> \in AddrList
        <3>1. <<>> \in Seq(Addr) /\ IsInjective(<<>>)
            BY DEF IsInjective
        <3> QED
            BY <3>1, AddrListIs
    <2> QED
        BY <1>1, <2>1, <2>2
<1>2. CASE r # <<>>
    <2> DEFINE fit == Those(r, Compatible[e])
    <2>1. fit \in Seq(Addr)
        <3>1. fit \in Seq(Addr \cap Compatible[e])
            BY ThoseAre DEF Selects
        <3> HIDE DEF fit
        <3>2. Addr \cap Compatible[e] \subseteq Addr
            OBVIOUS
        <3> QED
            BY <3>1, <3>2
    <2>2. IsInjective(fit)
        BY ThoseInjective
    <2>3. Range(fit) = Range(r) \cap Compatible[e]
        BY ThoseRange
    <2>4. l \in IF Random THEN SetToSeqs(Range(fit)) ELSE {fit}
        BY <1>2 DEF EndpointRange
    <2> HIDE DEF fit
    <2>5. CASE Random
        <3>1. l \in SetToSeqs(Range(fit))
            BY <2>4, <2>5
        <3>2. Range(fit) \subseteq Addr
            BY <2>1, RangeOfList
        <3>3. IsFiniteSet(Range(fit)) /\ Cardinality(Range(fit)) \in Nat
            BY <3>2, AddressesAreFinite, FS_Subset, FS_CardinalityType
        <3> DEFINE n == Cardinality(Range(fit))
        <3>4. l \in [1 .. n -> Range(fit)] /\ \A i, j \in 1 .. n : i # j => l[i] # l[j]
            BY <3>1 DEF SetToSeqs
        <3>5. n \in Nat
            BY <3>3
        <3>6. IsInjective(l)
            BY <3>4 DEF IsInjective
        <3>7. l \in Seq(Addr)
            <4>1. l \in [1 .. n -> Addr]
                BY <3>2, <3>4
            <4> HIDE DEF n
            <4> QED
                BY <3>5, <4>1
        <3>8. Range(l) = Range(fit)
            <4>1. Cardinality(1 .. n) = n /\ IsFiniteSet(1 .. n)
                BY <3>5, FS_Interval
            <4>2. l \in Injection(1 .. n, Range(fit))
                BY <3>4, <3>6 DEF Injection
            <4>3. l \in Surjection(1 .. n, Range(fit))
                BY <3>3, <4>1, <4>2, FS_Injection
            <4>4. \A x \in Range(fit) : \E i \in 1 .. n : l[i] = x
                BY <4>3 DEF Surjection
            <4>5. DOMAIN l = 1 .. n /\ \A i \in 1 .. n : l[i] \in Range(fit)
                BY <3>4
            <4> HIDE DEF n
            <4>6. \A x : x \in Range(l) <=> \E i \in 1 .. n : l[i] = x
                BY <4>5 DEF Range
            <4> QED
                BY <4>4, <4>5, <4>6
        <3> QED
            BY <2>3, <3>6, <3>7, <3>8, AddrListIs
    <2>6. CASE ~Random
        BY <2>1, <2>2, <2>3, <2>4, <2>6, AddrListIs
    <2> QED
        BY <2>5, <2>6
<1> QED
    BY <1>1, <1>2

-----------------------------------------------------------------------------
(* The types *)

Book == [Entry -> AddrList \cup {NoList}]
Ages == [Entry -> {"never", "fresh", "past"}]
Indices == [item : 1 .. Len(Profile), addr : 1 .. Cardinality(Addr)]
Sessions == [state : Phase, entry : Entry \cup {NoList}, endpoint : Addr \cup {NoList},
             advance : Advance, reached : BOOLEAN]

\* A list of entries is a part of the profile, and never empty.
Part(l) == l \in Seq(Entry) /\ l # <<>> /\ IsInjective(l) /\ Len(l) <= Len(Profile)
\* A session that lives has taken an entry.
Started(s) == s \in Sessions /\ (s.state \notin {"none", "thrown"} => s.entry \in Entry)

TypeInv ==
    /\ enableCache \in BOOLEAN
    /\ Part(list)
    /\ addrs \in Book
    /\ age \in Ages
    /\ index \in Indices
    /\ bulk \in 0 .. Len(list)
    /\ Started(session)

LEMMA PartIs ==
    ASSUME NEW l, Part(l)
    PROVE  /\ l \in Seq(Entry) /\ Len(l) \in Nat \ {0} /\ Len(l) <= Len(Profile)
           /\ \A i \in 1 .. Len(l) : l[i] \in Entry
           /\ \A i \in 1 .. Len(l), j \in 1 .. Len(l) : l[i] = l[j] => i = j
<1>1. l \in Seq(Entry) /\ l # <<>> /\ IsInjective(l) /\ Len(l) <= Len(Profile)
    BY DEF Part
<1>2. Len(l) \in Nat /\ Len(l) # 0 /\ DOMAIN l = 1 .. Len(l)
    BY <1>1
<1>3. \A i \in 1 .. Len(l) : l[i] \in Entry
    BY <1>1
<1>4. \A i \in 1 .. Len(l), j \in 1 .. Len(l) : l[i] = l[j] => i = j
    BY <1>1, <1>2 DEF IsInjective
<1> QED
    BY <1>1, <1>2, <1>3, <1>4

LEMMA ProfileIs == Len(Profile) \in Nat \ {0} /\ Part(Profile)
<1>1. Profile \in Seq(Entry) /\ Profile # <<>> /\ IsInjective(Profile)
    BY ProfileIsList DEF Entry
<1>2. Len(Profile) \in Nat /\ Len(Profile) # 0
    BY <1>1
<1> QED
    BY <1>1, <1>2 DEF Part

LEMMA IndexIs ==
    ASSUME NEW ix \in Indices
    PROVE  /\ ix.item \in Nat /\ 1 <= ix.item /\ ix.item <= Len(Profile)
           /\ ix.addr \in Nat /\ 1 <= ix.addr /\ ix.addr <= Cardinality(Addr)
           /\ ix = [item |-> ix.item, addr |-> ix.addr]
BY ProfileIs, Addresses DEF Indices

LEMMA IndexNew ==
    ASSUME NEW i \in Nat, 1 <= i, i <= Len(Profile), NEW a \in Nat, 1 <= a, a <= Cardinality(Addr)
    PROVE  [item |-> i, addr |-> a] \in Indices
BY ProfileIs, Addresses DEF Indices

\* A new session has its place in the types, and so has one that has thrown.
LEMMA NewSessionIs ==
    ASSUME NEW st \in Phase, NEW e \in Entry, NEW a \in Addr \cup {NoList}
    PROVE  Started(NewSession(st, e, a))
BY DEF Started, NewSession, Sessions, Advance

LEMMA ThrowIs ==
    ASSUME Started(session), Throw
    PROVE  Started(session') /\ session'.state = "thrown"
BY DEF Started, Throw, Sessions, Phase

LEMMA ContactIs ==
    ASSUME NEW taken \in Entry, NEW as \in Book, NEW e \in Entry,
           NEW i \in 1 .. Cardinality(Addr), Contact(taken, as, e, i)
    PROVE  \/ HasEndpoint(as, e, i) /\ \E a \in Addr : session' = NewSession("contacting", taken, a)
           \/ ~HasEndpoint(as, e, i) /\ Throw
<1>1. CASE HasEndpoint(as, e, i)
    <2> DEFINE s == as[e]
    <2>1. s \in AddrList
        BY <1>1 DEF HasEndpoint, Book
    <2>2. i <= Len(s)
        BY <1>1 DEF HasEndpoint
    <2> HIDE DEF s
    <2>3. Len(s) \in 0 .. Cardinality(Addr) /\ \A j \in 1 .. Len(s) : s[j] \in Addr
        BY <2>1, AddrLength
    <2>4. i \in 1 .. Len(s)
        BY <2>2, <2>3, Addresses
    <2>5. as[e][i] \in Addr
        BY <2>3, <2>4 DEF s
    <2> QED
        BY <1>1, <2>5 DEF Contact
<1>2. CASE ~HasEndpoint(as, e, i)
    BY <1>2 DEF Contact
<1> QED
    BY <1>1, <1>2

\* What transport_start() leaves: a session for the entry of the index, in
\* contact only if that has addresses.
StartOf(e, as, s) ==
    \/ as[e] # NoList /\ \E a \in Addr : s = NewSession("contacting", e, a)
    \/ s = NewSession("resolving", e, NoList)

LEMMA TransportStartIs ==
    ASSUME NEW l \in Seq(Entry), NEW as \in Book, NEW ix \in Indices, TransportStart(l, as, ix)
    PROVE  \/ ix.item > Len(l) /\ Throw
           \/ /\ ix.item <= Len(l) /\ l[ix.item] \in Entry
              /\ StartOf(l[ix.item], as, session')
<1>1. CASE ix.item > Len(l)
    BY <1>1 DEF TransportStart
<1>2. CASE ~(ix.item > Len(l))
    <2> DEFINE e == l[ix.item]
    <2>1. ix.item \in 1 .. Len(l) /\ ix.item <= Len(l)
        BY <1>2, IndexIs
    <2>2. e \in Entry
        BY <2>1
    <2>3. ix.addr \in 1 .. Cardinality(Addr)
        BY DEF Indices
    <2>4. IF HasEndpoint(as, e, ix.addr) THEN Contact(e, as, e, ix.addr)
          ELSE session' = NewSession("resolving", e, NoList)
        BY <1>2 DEF TransportStart
    <2> HIDE DEF e
    <2>5. CASE HasEndpoint(as, e, ix.addr)
        <3>1. \E a \in Addr : session' = NewSession("contacting", e, a)
            BY <2>2, <2>3, <2>4, <2>5, ContactIs
        <3>2. as[e] # NoList
            BY <2>5 DEF HasEndpoint
        <3>3. StartOf(e, as, session')
            BY <3>1, <3>2 DEF StartOf
        <3> QED
            BY <2>1, <2>2, <3>3 DEF e
    <2>6. CASE ~HasEndpoint(as, e, ix.addr)
        <3>1. StartOf(e, as, session')
            BY <2>4, <2>6 DEF StartOf
        <3> QED
            BY <2>1, <2>2, <3>1 DEF e
    <2> QED
        BY <2>5, <2>6
<1> QED
    BY <1>1, <1>2

LEMMA StartOfIs ==
    ASSUME NEW e \in Entry, NEW as, NEW s, StartOf(e, as, s)
    PROVE  Started(s) /\ s.entry = e /\ s.state \notin {"none", "thrown"}
<1>1. ASSUME NEW a \in Addr, s = NewSession("contacting", e, a)
      PROVE  Started(s) /\ s.entry = e /\ s.state = "contacting"
    BY <1>1, NewSessionIs DEF NewSession, Phase
<1>2. ASSUME s = NewSession("resolving", e, NoList)
      PROVE  Started(s) /\ s.entry = e /\ s.state = "resolving"
    BY <1>2, NewSessionIs DEF NewSession, Phase
<1> QED
    BY <1>1, <1>2 DEF StartOf

LEMMA TransportStartType ==
    ASSUME Started(session), NEW l \in Seq(Entry), NEW as \in Book, NEW ix \in Indices,
           TransportStart(l, as, ix)
    PROVE  Started(session')
BY TransportStartIs, ThrowIs, StartOfIs

\* An address is followed by another of the same entry, or else by an entry of
\* the list.
LEMMA IncrementIs ==
    ASSUME Part(list), index \in Indices, NEW as \in Book, NEW type
    PROVE  /\ Increment(as, type) \in Indices /\ Increment(as, type).item <= Len(list)
<1> DEFINE n == ItemAddrLength(as, index.item)
<1>1. /\ index.item \in Nat /\ 1 <= index.item /\ index.item <= Len(Profile)
      /\ index.addr \in Nat /\ 1 <= index.addr /\ index.addr <= Cardinality(Addr)
      /\ index = [item |-> index.item, addr |-> index.addr]
    BY IndexIs
<1>2. Len(list) \in Nat \ {0} /\ Len(list) <= Len(Profile) /\ \A i \in 1 .. Len(list) : list[i] \in Entry
    BY PartIs
<1>3. Len(Profile) \in Nat /\ Cardinality(Addr) \in Nat /\ 1 <= Cardinality(Addr)
    BY ProfileIs, Addresses
<1>4. CASE type = "addr" /\ index.addr < n
    <2>1. index.item <= Len(list) /\ as[list[index.item]] # NoList /\ n = Len(as[list[index.item]])
        <3>1. CASE index.item <= Len(list) /\ as[list[index.item]] # NoList
            BY <3>1 DEF ItemAddrLength
        <3>2. CASE ~(index.item <= Len(list) /\ as[list[index.item]] # NoList)
            <4>1. n = 0
                BY <3>2 DEF ItemAddrLength
            <4> HIDE DEF n
            <4> QED
                BY <1>1, <1>4, <4>1
        <3> QED
            BY <3>1, <3>2
    <2>2. list[index.item] \in Entry
        BY <1>1, <1>2, <2>1
    <2>3. as[list[index.item]] \in AddrList
        BY <2>1, <2>2 DEF Book
    <2>4. n \in 0 .. Cardinality(Addr)
        BY <2>1, <2>3, AddrLength
    <2>5. Increment(as, type) = [index EXCEPT !.addr = @ + 1]
        BY <1>4 DEF Increment
    <2> HIDE DEF n
    <2>6. index.addr + 1 \in Nat /\ 1 <= index.addr + 1 /\ index.addr + 1 <= Cardinality(Addr)
        BY <1>1, <1>3, <1>4, <2>4
    <2>7. Increment(as, type) = [item |-> index.item, addr |-> index.addr + 1]
        BY <1>1, <2>5
    <2>8. [item |-> index.item, addr |-> index.addr + 1] \in Indices
        BY <1>1, <2>6, IndexNew
    <2> QED
        BY <2>1, <2>7, <2>8
<1>5. CASE ~(type = "addr" /\ index.addr < n)
    <2> DEFINE j == IF index.item < Len(list) THEN index.item + 1 ELSE 1
    <2>1. Increment(as, type) = [item |-> j, addr |-> 1]
        BY <1>5 DEF Increment
    <2>2. j \in Nat /\ 1 <= j /\ j <= Len(list) /\ j <= Len(Profile)
        BY <1>1, <1>2, <1>3
    <2> HIDE DEF j
    <2>3. [item |-> j, addr |-> 1] \in Indices
        BY <1>3, <2>2, IndexNew
    <2> QED
        BY <2>1, <2>2, <2>3
<1> QED
    BY <1>4, <1>5

LEMMA ResetItemIs ==
    ASSUME Part(list), NEW T, NEW f \in [Entry -> T], NEW i \in Nat, 1 <= i, NEW null \in T
    PROVE  /\ ResetItem(f, i, null) \in [Entry -> T]
           /\ \A e \in Entry : ResetItem(f, i, null)[e] \in {f[e], null}
<1>1. CASE i <= Len(list)
    <2>1. i \in 1 .. Len(list)
        BY <1>1, PartIs
    <2>2. list[i] \in Entry
        BY <2>1, PartIs
    <2>3. ResetItem(f, i, null) = [f EXCEPT ![list[i]] = null]
        BY <1>1 DEF ResetItem
    <2> QED
        BY <2>2, <2>3
<1>2. CASE ~(i <= Len(list))
    BY <1>2 DEF ResetItem
<1> QED
    BY <1>1, <1>2

\* What new_client() does: it moves the index to an entry of the list, unless
\* the session stays on the entry it had, forgets addresses only without a
\* cache, and starts the transport.
Moves == ~session.reached /\ session.advance # "none"
NewClientIs(as, ages, ix, as2) ==
    /\ ix \in Indices /\ (IF Moves THEN ix.item <= Len(list) ELSE ix = index)
    /\ as2 \in Book
    /\ enableCache => as2 = as
    /\ \A e \in Entry : as2[e] \in {as[e], NoList}
    /\ index' = ix /\ addrs' = as2 /\ age' \in Ages
    /\ TransportStart(list, as2, ix)
    /\ UNCHANGED <<enableCache, list, bulk>>

LEMMA NewClientDoes ==
    ASSUME Part(list), index \in Indices, NEW as \in Book, NEW ages \in Ages, NewClient(as, ages)
    PROVE  \E ix, as2 : NewClientIs(as, ages, ix, as2)
<1> DEFINE ix == IF Moves THEN Increment(as, session.advance) ELSE index
           resets == ~enableCache /\ (session.reached \/ (Moves /\ ItemChanged(as, session.advance)))
           as2 == IF resets THEN ResetItem(as, ix.item, NoList) ELSE as
           ages2 == IF resets THEN ResetItem(ages, ix.item, "never") ELSE ages
<1>1. /\ index' = ix /\ addrs' = as2 /\ age' = ages2
      /\ TransportStart(list, as2, ix) /\ UNCHANGED <<enableCache, list, bulk>>
    BY DEF NewClient, Moves
<1>2. ix \in Indices /\ (IF Moves THEN ix.item <= Len(list) ELSE ix = index)
    BY IncrementIs
<1> HIDE DEF ix
<1>3. ix.item \in Nat /\ 1 <= ix.item
    BY <1>2, IndexIs
<1>4. /\ ResetItem(as, ix.item, NoList) \in Book
      /\ \A e \in Entry : ResetItem(as, ix.item, NoList)[e] \in {as[e], NoList}
    <2> DEFINE T == AddrList \cup {NoList}
    <2>1. as \in [Entry -> T] /\ NoList \in T /\ Book = [Entry -> T]
        BY DEF Book
    <2> HIDE DEF T
    <2> QED
        BY <1>3, <2>1, ResetItemIs
<1>5. ResetItem(ages, ix.item, "never") \in Ages
    BY <1>3, ResetItemIs DEF Ages
<1>6. as2 \in Book /\ (enableCache => as2 = as) /\ \A e \in Entry : as2[e] \in {as[e], NoList}
    BY <1>4
<1>7. ages2 \in Ages
    BY <1>5
<1> HIDE DEF as2, ages2
<1>8. NewClientIs(as, ages, ix, as2)
    BY <1>1, <1>2, <1>6, <1>7 DEF NewClientIs
<1> QED
    BY <1>8

LEMMA NewClientType ==
    ASSUME TypeInv, NEW as \in Book, NEW ages \in Ages, NewClient(as, ages)
    PROVE  TypeInv'
<1>1. Part(list) /\ index \in Indices /\ Started(session) /\ list \in Seq(Entry)
    BY DEF TypeInv, Part
<1>2. PICK ix, as2 : NewClientIs(as, ages, ix, as2)
    BY <1>1, NewClientDoes
<1>3. Started(session')
    BY <1>1, <1>2, TransportStartType DEF NewClientIs
<1> QED
    BY <1>2, <1>3 DEF TypeInv, NewClientIs

\* What resolve_next() leaves at the end of the list: a part of it, and the
\* index on the entry it was on if that has addresses.
PrunedTo(as, ix, left, there) ==
    /\ Part(left) /\ there \in Indices
    /\ IF ix.item <= Len(list) /\ Defined(as, list[ix.item])
       THEN there.item <= Len(left) /\ left[there.item] = list[ix.item]
       ELSE there = ix

LEMMA PruneIs ==
    ASSUME Part(list), NEW as \in Book, NEW ix \in Indices, \E e \in Range(list) : Defined(as, e)
    PROVE  PrunedTo(as, ix, Those(list, Kept(as)), PruneIndex(as, ix))
<1> DEFINE S == Kept(as)  left == Those(list, S)  there == PruneIndex(as, ix)
<1>1. /\ list \in Seq(Entry) /\ Len(list) \in Nat \ {0} /\ Len(list) <= Len(Profile)
      /\ \A i \in 1 .. Len(list) : list[i] \in Entry
      /\ IsInjective(list)
    BY PartIs DEF Part
<1>2. \A e \in Entry : e \in S <=> Defined(as, e)
    BY DEF Kept
<1> HIDE DEF S
<1>3. Selects(left, Entry, list, S)
    BY <1>1, ThoseAre
<1>4. IsInjective(left)
    BY <1>1, ThoseInjective
<1>5. Range(left) = Range(list) \cap S
    BY <1>1, ThoseRange
<1>6. Upto(list, S, Len(list)) \in Nat /\ Upto(list, S, Len(list)) <= Len(list)
    <2>1. Len(list) \in Nat
        BY <1>1
    <2> QED
        BY <2>1, UptoIs
<1> HIDE DEF left
<1>7. left \in Seq(Entry) /\ Len(left) \in Nat /\ Len(left) <= Len(list)
    <2>1. left \in Seq(Entry \cap S) /\ Len(left) = Upto(list, S, Len(list))
        BY <1>3 DEF Selects
    <2>2. Entry \cap S \subseteq Entry
        OBVIOUS
    <2> QED
        BY <1>6, <2>1, <2>2
<1>8. left # <<>>
    <2>1. PICK e \in Range(list) : Defined(as, e)
        OBVIOUS
    <2>2. e \in Entry
        BY <1>1, <2>1, RangeOfList
    <2>3. Range(left) # {}
        BY <1>2, <1>5, <2>1, <2>2
    <2> QED
        BY <1>7, <2>3, RangeOfList
<1>9. Part(left)
    BY <1>1, <1>4, <1>7, <1>8 DEF Part
<1>10. CASE ix.item <= Len(list) /\ Defined(as, list[ix.item])
    <2>1. there = [ix EXCEPT !.item = Upto(list, S, @)]
        BY <1>10 DEF PruneIndex, S
    <2>2. /\ ix.item \in Nat /\ 1 <= ix.item /\ ix.item <= Len(Profile)
          /\ ix.addr \in Nat /\ 1 <= ix.addr /\ ix.addr <= Cardinality(Addr)
          /\ ix = [item |-> ix.item, addr |-> ix.addr]
        BY IndexIs
    <2>3. ix.item \in 1 .. Len(list)
        BY <1>10, <2>2
    <2>4. list[ix.item] \in S
        BY <1>1, <1>2, <1>10, <2>3
    <2>5. Upto(list, S, ix.item) \in 1 .. Len(left) /\ left[Upto(list, S, ix.item)] = list[ix.item]
        BY <1>3, <2>3, <2>4 DEF Selects
    <2>6. there = [item |-> Upto(list, S, ix.item), addr |-> ix.addr]
        BY <2>1, <2>2
    <2>7. there \in Indices
        <3>1. /\ Upto(list, S, ix.item) \in Nat /\ 1 <= Upto(list, S, ix.item)
              /\ Upto(list, S, ix.item) <= Len(Profile)
            BY <1>1, <1>7, <2>5, ProfileIs
        <3> HIDE DEF there
        <3> QED
            BY <2>2, <2>6, <3>1, IndexNew
    <2>8. there.item = Upto(list, S, ix.item)
        BY <2>6
    <2>9. there.item <= Len(left) /\ left[there.item] = list[ix.item]
        BY <1>7, <2>5, <2>8
    <2> QED
        BY <1>9, <1>10, <2>7, <2>9 DEF PrunedTo, left, S
<1>11. CASE ~(ix.item <= Len(list) /\ Defined(as, list[ix.item]))
    <2>1. there = ix
        BY <1>11 DEF PruneIndex
    <2> HIDE DEF there
    <2> QED
        BY <1>9, <1>11, <2>1 DEF PrunedTo, left, S, there
<1> QED
    BY <1>10, <1>11

\* resolve_next() either asks for an entry, all before which have an address, or
\* it has come to the end of the list.
AsksFor(i, as, ix) ==
    /\ bulk' \in 1 .. Len(list) /\ \A j \in i .. Len(list) : j < bulk' => as[list[j]] # NoList
    /\ index' = ix /\ UNCHANGED <<list, session>>
EndsWith(i, as, ix, left, there) ==
    /\ bulk' = 0 /\ \A j \in i .. Len(list) : as[list[j]] # NoList
    /\ list' = left /\ index' = there /\ PrunedTo(as, ix, left, there)
    /\ IF session.state = "none" THEN TransportStart(left, as, there) ELSE UNCHANGED session

LEMMA ResolveNextDoes ==
    ASSUME Part(list), NEW as \in Book, NEW ages \in Ages, NEW ix \in Indices,
           NEW i \in Nat, 1 <= i, ResolveNext(i, as, ages, ix)
    PROVE  /\ addrs' = as /\ age' = ages
           /\ \/ AsksFor(i, as, ix)
              \/ \E left, there : EndsWith(i, as, ix, left, there)
<1> DEFINE due == {j \in i .. Len(list) : NeedResolve(as, ages, list[j])}
           cached == \E e \in Range(list) : Defined(as, e)
           left == IF cached THEN Those(list, Kept(as)) ELSE list
           there == IF cached THEN PruneIndex(as, ix) ELSE ix
<1>1. addrs' = as /\ age' = ages
    BY DEF ResolveNext
<1>2. \/ /\ due # {}
         /\ bulk' = Min(due)
         /\ index' = ix
         /\ UNCHANGED <<list, session>>
      \/ /\ due = {}
         /\ bulk' = 0
         /\ index' = there
         /\ list' = left
         /\ IF session.state = "none" THEN TransportStart(left, as, there) ELSE UNCHANGED session
    BY DEF ResolveNext
<1>3. Len(list) \in Nat /\ list \in Seq(Entry)
    BY PartIs
<1>4. \A j \in i .. Len(list) : j \notin due => as[list[j]] # NoList
    BY DEF NeedResolve
<1>5. due \in SUBSET (1 .. Len(list)) /\ due \in SUBSET Nat
    <2>1. \A j \in i .. Len(list) : j \in 1 .. Len(list) /\ j \in Nat
        BY <1>3
    <2>2. \A j \in due : j \in i .. Len(list)
        OBVIOUS
    <2> HIDE DEF due
    <2> QED
        BY <2>1, <2>2
<1> HIDE DEF due
<1>6. CASE due # {}
    <2>1. bulk' = Min(due) /\ index' = ix /\ UNCHANGED <<list, session>>
        BY <1>2, <1>6
    <2>2. Min(due) \in due /\ \A k \in due : Min(due) <= k
        BY <1>5, <1>6, MinIs
    <2>3. bulk' \in 1 .. Len(list) /\ bulk' \in Nat
        BY <1>3, <1>5, <2>1, <2>2
    <2>4. ASSUME NEW j \in i .. Len(list), j < bulk' PROVE as[list[j]] # NoList
        <3>1. j \notin due
            BY <2>1, <2>2, <2>3, <2>4
        <3> QED
            BY <1>4, <3>1
    <2> QED
        BY <1>1, <2>1, <2>3, <2>4 DEF AsksFor
<1>7. CASE due = {}
    <2>1. /\ bulk' = 0 /\ index' = there /\ list' = left
          /\ IF session.state = "none" THEN TransportStart(left, as, there) ELSE UNCHANGED session
        BY <1>2, <1>7
    <2>2. \A j \in i .. Len(list) : as[list[j]] # NoList
        BY <1>4, <1>7
    <2>3. PrunedTo(as, ix, left, there)
        <3>1. CASE cached
            BY <3>1, PruneIs
        <3>2. CASE ~cached
            <4>1. left = list /\ there = ix
                BY <3>2
            <4>2. ~(ix.item <= Len(list) /\ Defined(as, list[ix.item]))
                <5>1. ix.item \in Nat /\ 1 <= ix.item
                    BY IndexIs
                <5>2. ASSUME ix.item <= Len(list) PROVE list[ix.item] \in Range(list)
                    <6>1. ix.item \in 1 .. Len(list)
                        BY <1>3, <5>1, <5>2
                    <6> QED
                        BY <1>3, <6>1, RangeOfList
                <5> QED
                    BY <3>2, <5>2
            <4> HIDE DEF left, there
            <4> QED
                BY <4>1, <4>2 DEF PrunedTo
        <3> QED
            BY <3>1, <3>2
    <2> HIDE DEF left, there
    <2>4. EndsWith(i, as, ix, left, there)
        BY <2>1, <2>2, <2>3 DEF EndsWith
    <2> QED
        BY <1>1, <2>4
<1> QED
    BY <1>6, <1>7

LEMMA ResolveNextType ==
    ASSUME TypeInv, NEW as \in Book, NEW ages \in Ages, NEW ix \in Indices,
           NEW i \in Nat, 1 <= i, ResolveNext(i, as, ages, ix), UNCHANGED enableCache
    PROVE  TypeInv'
<1>1. Part(list) /\ Started(session) /\ enableCache \in BOOLEAN
    BY DEF TypeInv
<1>2. /\ addrs' = as /\ age' = ages
      /\ \/ AsksFor(i, as, ix)
         \/ \E left, there : EndsWith(i, as, ix, left, there)
    BY <1>1, ResolveNextDoes
<1>3. CASE AsksFor(i, as, ix)
    <2>1. /\ bulk' \in 1 .. Len(list) /\ index' = ix /\ UNCHANGED <<list, session>>
        BY <1>3 DEF AsksFor
    <2>2. bulk' \in 0 .. Len(list')
        <3>1. Len(list) \in Nat
            BY <1>1, PartIs
        <3> QED
            BY <2>1, <3>1
    <2> QED
        BY <1>1, <1>2, <2>1, <2>2 DEF TypeInv
<1>4. ASSUME NEW left, NEW there, EndsWith(i, as, ix, left, there) PROVE TypeInv'
    <2>1. /\ bulk' = 0 /\ list' = left /\ index' = there /\ Part(left) /\ there \in Indices
          /\ IF session.state = "none" THEN TransportStart(left, as, there) ELSE UNCHANGED session
        BY <1>4 DEF EndsWith, PrunedTo
    <2>2. Len(left) \in Nat /\ left \in Seq(Entry)
        BY <2>1, PartIs
    <2>3. Started(session')
        <3>1. CASE session.state = "none"
            BY <1>1, <2>1, <2>2, <3>1, TransportStartType
        <3>2. CASE session.state # "none"
            BY <1>1, <2>1, <3>2
        <3> QED
            BY <3>1, <3>2
    <2>4. bulk' \in 0 .. Len(list')
        BY <2>1, <2>2
    <2> QED
        BY <1>1, <1>2, <2>1, <2>3, <2>4 DEF TypeInv
<1> QED
    BY <1>2, <1>3, <1>4

\* What an answer leaves: those it is given to have a list of it.
GivenBy(r, host, as) ==
    \A e \in Entry : IF e \in Range(list) /\ Takes(e, host) THEN as[e] \in EndpointRange(e, r)
                     ELSE as[e] = addrs[e]
Answered(r, host, as, ages, ix) ==
    /\ as \in Book /\ ages \in Ages /\ ix \in Indices /\ ix.item = index.item
    /\ GivenBy(r, host, as)
    /\ ResolveNext(bulk + 1, as, ages, ix)

LEMMA AgeAfterIs ==
    ASSUME age \in Ages, NEW e \in Entry, NEW b
    PROVE  AgeAfter(e, b) \in {"never", "fresh", "past"}
BY DEF AgeAfter, Ages

LEMMA BulkResolvedDoes ==
    ASSUME TypeInv, BulkResolved
    PROVE  /\ UNCHANGED enableCache
           /\ bulk \in 1 .. Len(list) /\ bulk \in Nat /\ list[bulk] \in Entry
           /\ \/ index.item > Len(list) /\ Throw /\ UNCHANGED <<list, addrs, age, index, bulk>>
              \/ /\ index.item <= Len(list) /\ Failed \in Answers[HostOf[list[bulk]]]
                 /\ ResolveNext(bulk + 1, addrs, age, index)
              \/ /\ index.item <= Len(list)
                 /\ \E r \in Answers[HostOf[list[bulk]]] \ {Failed} : \E as, ages, ix :
                       Answered(r, HostOf[list[bulk]], as, ages, ix)
<1> DEFINE host == HostOf[list[bulk]]
           taking == {e \in Range(list) : Takes(e, host)}
           Lists(r) == {got \in [taking -> UNION {EndpointRange(e, r) : e \in taking}] :
                          \A e \in taking : got[e] \in EndpointRange(e, r)}
           ages == [e \in Entry |-> IF e \in taking THEN AgeAfter(e, Lifetime) ELSE age[e]]
           ix == IF list[index.item] \in taking THEN [index EXCEPT !.addr = 1] ELSE index
           Book2(got) == [e \in Entry |-> IF e \in taking THEN got[e] ELSE addrs[e]]
<1>1. Part(list) /\ addrs \in Book /\ age \in Ages /\ index \in Indices /\ bulk \in 0 .. Len(list)
    BY DEF TypeInv
<1>2. Len(list) \in Nat /\ list \in Seq(Entry) /\ \A i \in 1 .. Len(list) : list[i] \in Entry
    BY <1>1, PartIs
<1>3. bulk \in 1 .. Len(list) /\ bulk \in Nat
    BY <1>1, <1>2 DEF BulkResolved, Idle
<1>4. list[bulk] \in Entry
    BY <1>2, <1>3
<1>5. host \in Host
    BY <1>4, EntryIs
<1>6. UNCHANGED enableCache
    BY DEF BulkResolved
<1>7. ASSUME index.item <= Len(list),
             NEW r \in Answers[host] \ {Failed}, NEW got \in Lists(r),
             ResolveNext(bulk + 1, Book2(got), ages, ix)
      PROVE  Answered(r, host, Book2(got), ages, ix)
    <2>1. r \in Seq(Addr) /\ IsInjective(r)
        BY <1>5, AnswerIsList
    <2>2. \A e \in taking : got[e] \in EndpointRange(e, r) /\ e \in Entry
        <3>1. \A e \in taking : got[e] \in EndpointRange(e, r)
            OBVIOUS
        <3>2. \A e \in taking : e \in Entry
            BY <1>2, RangeOfList
        <3> QED
            BY <3>1, <3>2
    <2>3. \A e \in Entry : addrs[e] \in AddrList \cup {NoList}
        BY <1>1 DEF Book
    <2>4. \A e \in taking : got[e] \in AddrList
        BY <2>1, <2>2, <2>3, EndpointRangeIs
    <2>5. Book2(got) \in Book
        BY <2>3, <2>4 DEF Book
    <2>6. ages \in Ages
        <3>1. \A e \in Entry : AgeAfter(e, Lifetime) \in {"never", "fresh", "past"}
            BY <1>1, AgeAfterIs
        <3>2. \A e \in Entry : age[e] \in {"never", "fresh", "past"}
            BY <1>1 DEF Ages
        <3> HIDE DEF taking
        <3> QED
            BY <3>1, <3>2 DEF Ages
    <2>7. ix \in Indices /\ ix.item = index.item
        BY <1>1, Addresses DEF Indices
    <2>8. GivenBy(r, host, Book2(got))
        <3>1. \A e \in Entry : IF e \in taking THEN Book2(got)[e] \in EndpointRange(e, r)
                               ELSE Book2(got)[e] = addrs[e]
            <4> HIDE DEF taking
            <4> QED
                BY <2>2
        <3>2. \A e : e \in taking <=> e \in Range(list) /\ Takes(e, host)
            OBVIOUS
        <3> HIDE DEF taking, Book2, host
        <3> QED
            BY <3>1, <3>2 DEF GivenBy
    <2> QED
        BY <1>7, <2>5, <2>6, <2>7, <2>8 DEF Answered
<1>8. \/ index.item > Len(list) /\ Throw /\ UNCHANGED <<list, addrs, age, index, bulk>>
      \/ /\ index.item <= Len(list) /\ Failed \in Answers[host]
         /\ ResolveNext(AfterFailure(bulk), addrs, age, index)
      \/ /\ index.item <= Len(list)
         /\ \E r \in Answers[host] \ {Failed} : \E got \in Lists(r) :
               ResolveNext(bulk + 1, Book2(got), ages, ix)
    BY DEF BulkResolved
<1> HIDE DEF host, Lists, ages, ix, Book2
<1>9. ASSUME index.item <= Len(list), NEW r \in Answers[host] \ {Failed}, NEW got \in Lists(r),
             ResolveNext(bulk + 1, Book2(got), ages, ix)
      PROVE  \E as2, ages2, ix2 : Answered(r, host, as2, ages2, ix2)
    BY <1>7, <1>9
<1>10. \/ index.item > Len(list) /\ Throw /\ UNCHANGED <<list, addrs, age, index, bulk>>
       \/ /\ index.item <= Len(list) /\ Failed \in Answers[host]
          /\ ResolveNext(bulk + 1, addrs, age, index)
       \/ /\ index.item <= Len(list)
          /\ \E r \in Answers[host] \ {Failed} : \E as2, ages2, ix2 :
                Answered(r, host, as2, ages2, ix2)
    BY <1>8, <1>9 DEF AfterFailure
<1> QED
    BY <1>3, <1>4, <1>6, <1>10 DEF host

\* What the transport's own answer does with the entry of the index.
TakenIn(e, r, range) ==
    /\ range \in AddrList /\ range \in EndpointRange(e, r)
    /\ addrs' = [addrs EXCEPT ![e] = range]
    /\ age' \in Ages
    /\ index' = [index EXCEPT !.addr = 1]
    /\ Contact(session.entry, addrs', e, 1)

LEMMA TransportResolvedDoes ==
    ASSUME TypeInv, TransportResolved
    PROVE  /\ UNCHANGED <<enableCache, list, bulk>>
           /\ session.state = "resolving" /\ session.entry \in Entry
           /\ \/ /\ Failed \in Answers[HostOf[session.entry]]
                 /\ session' = [session EXCEPT !.state = "ended"]
                 /\ UNCHANGED <<addrs, age, index>>
              \/ /\ Answers[HostOf[session.entry]] # {Failed} /\ index.item > Len(list)
                 /\ Throw
                 /\ UNCHANGED <<addrs, age, index>>
              \/ /\ index.item <= Len(list) /\ list[index.item] \in Entry
                 /\ \E r \in Answers[HostOf[session.entry]] \ {Failed} : \E range :
                       TakenIn(list[index.item], r, range)
<1> DEFINE host == HostOf[session.entry]  e == list[index.item]
<1>1. Part(list) /\ addrs \in Book /\ age \in Ages /\ index \in Indices /\ Started(session)
    BY DEF TypeInv
<1>2. UNCHANGED <<enableCache, list, bulk>> /\ session.state = "resolving"
    BY DEF TransportResolved
<1>3. session.entry \in Entry
    BY <1>1, <1>2 DEF Started
<1>4. host \in Host
    BY <1>3, EntryIs
<1>5. ASSUME index.item <= Len(list), NEW r \in Answers[host] \ {Failed},
             NEW range \in EndpointRange(e, r),
             addrs' = [addrs EXCEPT ![e] = range],
             age' = [age EXCEPT ![e] = AgeAfter(e, enableCache /\ Lifetime)],
             index' = [index EXCEPT !.addr = 1],
             Contact(session.entry, addrs', e, 1)
      PROVE  e \in Entry /\ TakenIn(e, r, range)
    <2>1. e \in Entry
        <3>1. index.item \in Nat /\ 1 <= index.item
            BY <1>1, IndexIs
        <3>2. Len(list) \in Nat /\ \A i \in 1 .. Len(list) : list[i] \in Entry
            BY <1>1, PartIs
        <3> QED
            BY <1>5, <3>1, <3>2
    <2> HIDE DEF e
    <2>2. r \in Seq(Addr) /\ IsInjective(r)
        BY <1>4, AnswerIsList
    <2>3. addrs[e] \in AddrList \cup {NoList}
        BY <1>1, <2>1 DEF Book
    <2>4. range \in AddrList
        BY <1>5, <2>1, <2>2, <2>3, EndpointRangeIs
    <2>5. age' \in Ages
        <3>1. AgeAfter(e, enableCache /\ Lifetime) \in {"never", "fresh", "past"}
            BY <1>1, <2>1, AgeAfterIs
        <3> QED
            BY <1>1, <1>5, <2>1, <3>1 DEF Ages
    <2> QED
        BY <1>5, <2>1, <2>4, <2>5 DEF TakenIn
<1>6. \/ /\ Failed \in Answers[host]
         /\ session' = [session EXCEPT !.state = "ended"]
         /\ UNCHANGED <<addrs, age, index>>
      \/ /\ Answers[host] # {Failed} /\ index.item > Len(list)
         /\ Throw
         /\ UNCHANGED <<addrs, age, index>>
      \/ /\ index.item <= Len(list)
         /\ \E r \in Answers[host] \ {Failed} : \E range \in EndpointRange(e, r) :
               /\ addrs' = [addrs EXCEPT ![e] = range]
               /\ age' = [age EXCEPT ![e] = AgeAfter(e, enableCache /\ Lifetime)]
               /\ index' = [index EXCEPT !.addr = 1]
               /\ Contact(session.entry, addrs', e, 1)
    BY DEF TransportResolved
<1> HIDE DEF host, e
<1>7. \/ /\ Failed \in Answers[host]
         /\ session' = [session EXCEPT !.state = "ended"]
         /\ UNCHANGED <<addrs, age, index>>
      \/ /\ Answers[host] # {Failed} /\ index.item > Len(list)
         /\ Throw
         /\ UNCHANGED <<addrs, age, index>>
      \/ /\ index.item <= Len(list) /\ e \in Entry
         /\ \E r \in Answers[host] \ {Failed} : \E range : TakenIn(e, r, range)
    BY <1>5, <1>6
<1> QED
    BY <1>2, <1>3, <1>7 DEF host, e

-----------------------------------------------------------------------------
(* Type correctness *)

LEMMA TypeStart ==
    ASSUME TypeInv, Start PROVE TypeInv'
<1>1. /\ Part(list) /\ addrs \in Book /\ age \in Ages /\ index \in Indices /\ Started(session)
      /\ list \in Seq(Entry)
    BY DEF TypeInv, Part
<1>2. CASE ResolveNext(1, addrs, age, index)
    BY <1>1, <1>2, ResolveNextType DEF Start
<1>3. CASE TransportStart(list, addrs, index) /\ UNCHANGED <<list, addrs, age, index, bulk>>
    <2>1. Started(session')
        BY <1>1, <1>3, TransportStartType
    <2> QED
        BY <1>3, <2>1 DEF TypeInv, Start
<1> QED
    BY <1>2, <1>3 DEF Start

LEMMA TypeBulkResolved ==
    ASSUME TypeInv, BulkResolved PROVE TypeInv'
<1>1. addrs \in Book /\ age \in Ages /\ index \in Indices /\ Started(session)
    BY DEF TypeInv
<1>2. UNCHANGED enableCache /\ bulk + 1 \in Nat /\ 1 <= bulk + 1
    <2>1. UNCHANGED enableCache /\ bulk \in Nat
        BY BulkResolvedDoes
    <2> QED
        BY <2>1
<1>3. CASE Throw /\ UNCHANGED <<list, addrs, age, index, bulk>>
    <2>1. Started(session')
        BY <1>1, <1>3, ThrowIs
    <2> QED
        BY <1>2, <1>3, <2>1 DEF TypeInv
<1>4. CASE ResolveNext(bulk + 1, addrs, age, index)
    BY <1>1, <1>2, <1>4, ResolveNextType
<1>5. ASSUME NEW r, NEW as, NEW ages, NEW ix, Answered(r, HostOf[list[bulk]], as, ages, ix)
      PROVE  TypeInv'
    <2>1. as \in Book /\ ages \in Ages /\ ix \in Indices /\ ResolveNext(bulk + 1, as, ages, ix)
        BY <1>5 DEF Answered
    <2> QED
        BY <1>2, <2>1, ResolveNextType
<1> QED
    BY <1>3, <1>4, <1>5, BulkResolvedDoes

LEMMA TypeTransportResolved ==
    ASSUME TypeInv, TransportResolved PROVE TypeInv'
<1>1. addrs \in Book /\ age \in Ages /\ index \in Indices /\ Started(session)
    BY DEF TypeInv
<1>2. UNCHANGED <<enableCache, list, bulk>> /\ session.entry \in Entry
    BY TransportResolvedDoes
<1>3. CASE session' = [session EXCEPT !.state = "ended"] /\ UNCHANGED <<addrs, age, index>>
    <2>1. Started(session')
        BY <1>1, <1>2, <1>3 DEF Started, Sessions, Phase
    <2> QED
        BY <1>2, <1>3, <2>1 DEF TypeInv
<1>4. CASE Throw /\ UNCHANGED <<addrs, age, index>>
    <2>1. Started(session')
        BY <1>1, <1>4, ThrowIs
    <2> QED
        BY <1>2, <1>4, <2>1 DEF TypeInv
<1>5. ASSUME NEW e \in Entry, NEW r, NEW range, TakenIn(e, r, range) PROVE TypeInv'
    <2>1. addrs' \in Book /\ age' \in Ages
        BY <1>1, <1>5 DEF TakenIn, Book
    <2>2. index' \in Indices
        <3>1. index' = [index EXCEPT !.addr = 1]
            BY <1>5 DEF TakenIn
        <3> QED
            BY <1>1, <3>1, Addresses DEF Indices
    <2>3. Started(session')
        <3>1. 1 \in 1 .. Cardinality(Addr) /\ Contact(session.entry, addrs', e, 1)
            BY <1>5, Addresses DEF TakenIn
        <3>2. \/ \E a \in Addr : session' = NewSession("contacting", session.entry, a)
              \/ Throw
            BY <1>2, <2>1, <3>1, ContactIs
        <3>3. "contacting" \in Phase
            BY DEF Phase
        <3> QED
            BY <1>1, <1>2, <3>2, <3>3, NewSessionIs, ThrowIs
    <2> QED
        BY <1>2, <2>1, <2>2, <2>3 DEF TypeInv
<1> QED
    BY <1>3, <1>4, <1>5, TransportResolvedDoes

LEMMA TypeStep ==
    ASSUME TypeInv, Next PROVE TypeInv'
<1>1. /\ Part(list) /\ addrs \in Book /\ age \in Ages /\ index \in Indices /\ Started(session)
      /\ list \in Seq(Entry) /\ enableCache \in BOOLEAN
    BY DEF TypeInv, Part
<1>2. CASE Start
    BY <1>2, TypeStart
<1>3. CASE StartEarly
    <2>1. Started(session')
        BY <1>1, <1>3, TransportStartType DEF StartEarly
    <2> QED
        BY <1>3, <2>1 DEF TypeInv, StartEarly
<1>4. CASE BulkResolved
    BY <1>4, TypeBulkResolved
<1>5. CASE TransportResolved
    BY <1>5, TypeTransportResolved
<1>6. CASE Connected
    <2>1. Started(session')
        BY <1>1, <1>6 DEF Connected, Started, Sessions, Phase
    <2> QED
        BY <1>6, <2>1 DEF TypeInv, Connected
<1>7. CASE SessionEnds
    <2>1. Started(session')
        BY <1>1, <1>7 DEF SessionEnds, Started, Sessions, Phase
    <2> QED
        BY <1>7, <2>1 DEF TypeInv, SessionEnds
<1>8. CASE Restart
    BY <1>1, <1>8, NewClientType DEF Restart
<1>9. CASE Pause
    <2>1. Started(session')
        BY <1>1, <1>9 DEF Pause, Started, Sessions, Phase
    <2> QED
        BY <1>9, <2>1 DEF TypeInv, Pause
<1>10. CASE Resume
    <2>1. CASE NewClient(addrs, age)
        BY <1>1, <2>1, NewClientType
    <2>2. CASE NewClient(ResetItem(addrs, index.item, NoList), ResetItem(age, index.item, "never"))
        <3>1. index.item \in Nat /\ 1 <= index.item
            BY <1>1, IndexIs
        <3>2. ResetItem(addrs, index.item, NoList) \in Book
            BY <1>1, <3>1, ResetItemIs DEF Book
        <3>3. ResetItem(age, index.item, "never") \in Ages
            BY <1>1, <3>1, ResetItemIs DEF Ages
        <3> QED
            BY <2>2, <3>2, <3>3, NewClientType
    <2> QED
        BY <1>10, <2>1, <2>2 DEF Resume
<1>11. CASE Renegotiated
    <2>1. ResolveNext(1, addrs, age, index) /\ UNCHANGED enableCache
        BY <1>11 DEF Renegotiated
    <2> QED
        BY <1>1, <2>1, ResolveNextType
<1>12. CASE Decay
    <2>1. PICK e \in Range(list) : age' = [age EXCEPT ![e] = "past"]
        BY <1>12 DEF Decay
    <2>2. age' \in Ages
        BY <1>1, <2>1 DEF Ages
    <2> QED
        BY <1>12, <2>2 DEF TypeInv, Decay
<1> QED
    BY <1>2, <1>3, <1>4, <1>5, <1>6, <1>7, <1>8, <1>9, <1>10, <1>11, <1>12 DEF Next

LEMMA TypeInit == ASSUME Init PROVE TypeInv
<1>1. enableCache \in BOOLEAN
    BY OptionsAreBool DEF Init
<1>2. Part(list) /\ bulk \in 0 .. Len(list)
    BY ProfileIs DEF Init
<1>3. addrs \in Book /\ age \in Ages
    BY DEF Init, Book, Ages
<1>4. index \in Indices
    BY ProfileIs, Addresses DEF Init, Indices
<1>5. Started(session)
    BY DEF Init, NoSession, NewSession, Started, Sessions, Phase, Advance
<1> QED
    BY <1>1, <1>2, <1>3, <1>4, <1>5 DEF TypeInv

LEMMA TypeIs == ASSUME TypeInv PROVE TypeOK
BY DEF TypeInv, TypeOK, Part, Book, Ages, Indices, Started, Sessions

\* The parts of the state keep their types whatever the two resolvers and the
\* name servers do: the list stays a part of the profile without repetitions
\* and is never pruned to nothing, the index never goes beyond the profile and
\* the most addresses there can be, and a bulk resolution that is under way
\* asks for an entry of the list.
THEOREM TypeCorrect == Safety => []TypeOK
<1>1. TypeInv /\ [Next]_vars => TypeInv'
    <2>1. TypeInv /\ UNCHANGED vars => TypeInv'
        BY DEF TypeInv, vars
    <2> QED
        BY <2>1, TypeStep
<1> QED
    BY <1>1, TypeInit, TypeIs, PTL DEF Safety

-----------------------------------------------------------------------------
(* Sessions follow the index *)

\* Name servers that always answer for a host, with an address for each of its
\* entries, or never do.  Without it the code is wrong: see OwnAddresses.
Fails(e) == Answers[HostOf[e]] = {Failed}
NamesAreSteady ==
    \A e \in Entry :
        \/ Fails(e)
        \/ /\ Failed \notin Answers[HostOf[e]]
           /\ \A r \in Answers[HostOf[e]] : Range(r) \cap Compatible[e] # {}

\* An entry has some addresses, all its own, or none at all.
Own(e, l) == l # <<>> /\ Range(l) \subseteq AddressesOf(HostOf[e]) \cap Compatible[e]
AddrsInv == \A e \in Entry : addrs[e] # NoList => Own(e, addrs[e])

\* During a bulk resolution, which only a cache has, the entries before the one
\* it asks for have addresses or never will, and the index is in the list.
BulkInv ==
    bulk # 0 =>
        /\ enableCache
        /\ index.item <= Len(list)
        /\ \A j \in 1 .. Len(list) : j < bulk => addrs[list[j]] # NoList \/ Fails(list[j])

\* Fresh: no server has been contacted, so the next session moves the index on.
\* A session that is not fresh holds on to addresses of its entry, which the
\* list keeps; one that is may lose its entry, but then waits in vain.
On == index.item <= Len(list) /\ list[index.item] = session.entry
Held == addrs[session.entry] # NoList
Fresh ==
    /\ ~session.reached /\ session.advance = "addr"
    /\ session.state \in {"resolving", "ended", "paused"}
SessionInv ==
    /\ session.state # "thrown"
    /\ session.state = "none" => index.item = 1
    /\ session.state # "none" =>
          \/ On /\ (Held \/ Fresh)
          \/ Fails(session.entry) /\ Fresh

RemoteInv == AddrsInv /\ BulkInv /\ SessionInv

\* A session that has just started is on the entry of the index.
LEMMA StartKeeps ==
    ASSUME NEW e \in Entry, StartOf(e, addrs', session'),
           index'.item <= Len(list'), list'[index'.item] = e
    PROVE  SessionInv'
<1>1. session'.entry = e /\ session'.state \notin {"none", "thrown"}
    BY StartOfIs
<1>2. On'
    BY <1>1 DEF On
<1>3. ASSUME addrs'[e] # NoList PROVE SessionInv'
    <2>1. Held'
        BY <1>1, <1>3 DEF Held
    <2> QED
        BY <1>1, <1>2, <2>1 DEF SessionInv
<1>4. ASSUME session' = NewSession("resolving", e, NoList) PROVE SessionInv'
    <2>1. Fresh'
        BY <1>4 DEF Fresh, NewSession
    <2> QED
        BY <1>1, <1>2, <2>1 DEF SessionInv
<1> QED
    BY <1>3, <1>4 DEF StartOf

\* A step of a bulk resolution: the list may lose entries, but not the one of a
\* session that holds on to its addresses.
LEMMA ResolveNextKeeps ==
    ASSUME TypeInv, RemoteInv, NEW as \in Book, NEW ages \in Ages, NEW ix \in Indices,
           NEW i \in Nat, 1 <= i, ResolveNext(i, as, ages, ix),
           enableCache, UNCHANGED enableCache, ix.item = index.item, index.item <= Len(list),
           \A e \in Entry : as[e] # NoList => Own(e, as[e]),
           \A e \in Entry : addrs[e] # NoList => as[e] # NoList,
           \A j \in 1 .. Len(list) : j < i => as[list[j]] # NoList \/ Fails(list[j])
    PROVE  RemoteInv'
<1>1. /\ Part(list) /\ index \in Indices /\ Started(session)
      /\ BulkInv /\ SessionInv
    BY DEF TypeInv, RemoteInv
<1>2. Len(list) \in Nat \ {0} /\ \A j \in 1 .. Len(list) : list[j] \in Entry
    BY <1>1, PartIs
<1>3. ix.item \in 1 .. Len(list) /\ ix.item <= Len(list)
    <2>1. ix.item \in Nat /\ 1 <= ix.item
        BY IndexIs
    <2> QED
        BY <1>2, <2>1
<1>4. /\ addrs' = as /\ age' = ages
      /\ \/ AsksFor(i, as, ix)
         \/ \E left, there : EndsWith(i, as, ix, left, there)
    BY <1>1, ResolveNextDoes
<1>5. AddrsInv'
    BY <1>4 DEF AddrsInv
<1>6. session.state # "none" => session.entry \in Entry
    BY <1>1 DEF SessionInv, Started
<1>7. CASE AsksFor(i, as, ix)
    <2>1. /\ bulk' \in 1 .. Len(list) /\ index' = ix /\ list' = list /\ session' = session
          /\ \A j \in i .. Len(list) : j < bulk' => as[list[j]] # NoList
        BY <1>7 DEF AsksFor
    <2>2. BulkInv'
        <3>1. ASSUME NEW j \in 1 .. Len(list), j < bulk' PROVE as[list[j]] # NoList \/ Fails(list[j])
            <4>1. j < i \/ j \in i .. Len(list)
                BY <1>2
            <4> QED
                BY <2>1, <3>1, <4>1
        <3> QED
            BY <1>3, <1>4, <2>1, <3>1 DEF BulkInv, Fails
    <2>3. SessionInv'
        <3>1. On => On'
            BY <2>1 DEF On
        <3>2. session.state # "none" /\ Held => Held'
            BY <1>4, <1>6, <2>1 DEF Held
        <3>3. Fresh => Fresh'
            BY <2>1 DEF Fresh
        <3>4. index'.item = index.item
            BY <2>1
        <3>5. Fails(session.entry) => Fails(session'.entry)
            BY <2>1
        <3> QED
            BY <1>1, <2>1, <3>1, <3>2, <3>3, <3>4, <3>5 DEF SessionInv, Fails
    <2> QED
        BY <1>5, <2>2, <2>3 DEF RemoteInv
<1>8. ASSUME NEW left, NEW there, EndsWith(i, as, ix, left, there) PROVE RemoteInv'
    <2>1. /\ bulk' = 0 /\ list' = left /\ index' = there /\ PrunedTo(as, ix, left, there)
          /\ \A j \in i .. Len(list) : as[list[j]] # NoList
          /\ IF session.state = "none" THEN TransportStart(left, as, there) ELSE UNCHANGED session
        BY <1>8 DEF EndsWith
    <2>2. as[list[ix.item]] # NoList \/ Fails(list[ix.item])
        <3>1. ix.item < i \/ ix.item \in i .. Len(list)
            BY <1>2, <1>3
        <3> QED
            BY <1>3, <2>1, <3>1
    <2>3. list[ix.item] \in Entry
        BY <1>2, <1>3
    <2>4. Defined(as, list[ix.item]) <=> as[list[ix.item]] # NoList
        BY <2>3 DEF Defined, Own
    <2>5. /\ Part(left) /\ there \in Indices
          /\ as[list[ix.item]] # NoList => there.item <= Len(left) /\ left[there.item] = list[ix.item]
          /\ as[list[ix.item]] = NoList => there = ix
        BY <1>3, <2>1, <2>4 DEF PrunedTo
    <2>6. SessionInv'
        <3>1. CASE session.state = "none"
            <4>1. TransportStart(left, as, there) /\ left \in Seq(Entry) /\ Len(left) \in Nat \ {0}
                BY <2>1, <2>5, <3>1, PartIs
            <4>2. index.item = 1
                BY <1>1, <3>1 DEF SessionInv
            <4>3. there.item <= Len(left)
                <5>1. CASE as[list[ix.item]] # NoList
                    BY <2>5, <5>1
                <5>2. CASE as[list[ix.item]] = NoList
                    <6>1. there.item = 1
                        BY <2>5, <4>2, <5>2
                    <6> QED
                        BY <4>1, <6>1
                <5> QED
                    BY <5>1, <5>2
            <4>4. ~(there.item > Len(left))
                <5>1. there.item \in Nat
                    BY <2>5, IndexIs
                <5> QED
                    BY <4>1, <4>3, <5>1
            <4>5. left[there.item] \in Entry /\ StartOf(left[there.item], as, session')
                BY <2>5, <4>1, <4>4, TransportStartIs
            <4> QED
                BY <1>4, <2>1, <4>3, <4>5, StartKeeps
        <3>2. CASE session.state # "none"
            <4>1. session' = session /\ session.entry \in Entry
                BY <1>6, <2>1, <3>2
            <4>2. Fresh => Fresh'
                BY <4>1 DEF Fresh
            <4>3. Fails(session.entry) => Fails(session'.entry)
                BY <4>1
            <4>4. CASE Fails(session.entry) /\ Fresh
                BY <1>1, <3>2, <4>1, <4>2, <4>3, <4>4 DEF SessionInv, Fails
            <4>5. CASE On /\ (Held \/ Fresh)
                <5>1. list[ix.item] = session.entry
                    BY <4>5 DEF On
                <5>2. CASE as[session.entry] # NoList
                    <6>1. On'
                        BY <2>1, <2>5, <4>1, <5>1, <5>2 DEF On
                    <6>2. Held'
                        BY <1>4, <4>1, <5>2 DEF Held
                    <6> QED
                        BY <1>1, <3>2, <4>1, <6>1, <6>2 DEF SessionInv
                <5>3. CASE as[session.entry] = NoList
                    <6>1. ~Held
                        BY <4>1, <5>3 DEF Held
                    <6>2. Fails(session.entry) /\ Fresh
                        BY <2>2, <4>5, <5>1, <5>3, <6>1
                    <6> QED
                        BY <4>4, <6>2
                <5> QED
                    BY <5>2, <5>3
            <4> QED
                BY <1>1, <3>2, <4>4, <4>5 DEF SessionInv
        <3> QED
            BY <3>1, <3>2
    <2>7. BulkInv'
        BY <2>1 DEF BulkInv
    <2> QED
        BY <1>5, <2>6, <2>7 DEF RemoteInv
<1> QED
    BY <1>4, <1>7, <1>8

\* A new session starts on an entry of the list.
LEMMA NewClientKeeps ==
    ASSUME TypeInv, RemoteInv, NEW as \in Book, NEW ages \in Ages, NewClient(as, ages),
           session.state \notin {"none", "thrown"},
           enableCache => as = addrs,
           \A e \in Entry : as[e] # NoList => Own(e, as[e])
    PROVE  RemoteInv'
<1>1. /\ Part(list) /\ index \in Indices /\ Started(session)
      /\ AddrsInv /\ BulkInv /\ SessionInv
    BY DEF TypeInv, RemoteInv
<1>2. PICK ix, as2 : NewClientIs(as, ages, ix, as2)
    BY <1>1, NewClientDoes
<1>3. /\ ix \in Indices /\ (IF Moves THEN ix.item <= Len(list) ELSE ix = index)
      /\ as2 \in Book /\ (enableCache => as2 = as)
      /\ \A e \in Entry : as2[e] \in {as[e], NoList}
      /\ index' = ix /\ addrs' = as2
      /\ TransportStart(list, as2, ix)
      /\ UNCHANGED <<enableCache, list, bulk>>
    BY <1>2 DEF NewClientIs
<1>4. ix.item <= Len(list)
    <2>1. CASE ~Moves
        <3>1. ~Fresh
            BY <2>1 DEF Moves, Fresh
        <3>2. On
            BY <1>1, <3>1 DEF SessionInv
        <3> QED
            BY <1>3, <2>1, <3>2 DEF On
    <2> QED
        BY <1>3, <2>1
<1>5. list \in Seq(Entry) /\ Len(list) \in Nat /\ ix.item \in Nat
    BY <1>1, <1>3, PartIs, IndexIs
<1>6. ~(ix.item > Len(list))
    BY <1>4, <1>5
<1>7. list[ix.item] \in Entry /\ StartOf(list[ix.item], as2, session')
    BY <1>3, <1>5, <1>6, TransportStartIs
<1>8. SessionInv'
    BY <1>3, <1>4, <1>7, StartKeeps
<1>9. AddrsInv'
    BY <1>3 DEF AddrsInv
<1>10. BulkInv'
    BY <1>1, <1>3, <1>4 DEF BulkInv, Fails
<1> QED
    BY <1>8, <1>9, <1>10 DEF RemoteInv

\* The answer for its own host gives an entry addresses of its own.
LEMMA OwnAnswer ==
    ASSUME NamesAreSteady, NEW e \in Entry, addrs[e] \in AddrList \cup {NoList},
           NEW r \in Answers[HostOf[e]] \ {Failed}, NEW l \in EndpointRange(e, r)
    PROVE  Own(e, l) /\ l # NoList /\ l \in AddrList
<1>1. HostOf[e] \in Host
    BY EntryIs
<1>2. r \in Seq(Addr) /\ IsInjective(r)
    BY <1>1, AnswerIsList
<1>3. Range(r) \cap Compatible[e] # {}
    BY DEF NamesAreSteady, Fails
<1>4. r # <<>>
    BY <1>2, <1>3, RangeOfList
<1>5. l \in AddrList /\ Range(l) = Range(r) \cap Compatible[e]
    BY <1>2, <1>4, EndpointRangeIs
<1>6. l # <<>>
    BY <1>3, <1>5, AddrListIs, RangeOfList
<1>7. Range(r) \subseteq AddressesOf(HostOf[e])
    BY DEF AddressesOf
<1> QED
    BY <1>5, <1>6, <1>7, NoListIsNone DEF Own

LEMMA BulkResolvedKeeps ==
    ASSUME NamesAreSteady, TypeInv, RemoteInv, BulkResolved PROVE RemoteInv'
<1> DEFINE b == list[bulk]
<1>1. /\ Part(list) /\ addrs \in Book /\ age \in Ages /\ index \in Indices
      /\ AddrsInv /\ BulkInv /\ SessionInv
    BY DEF TypeInv, RemoteInv
<1>2. /\ UNCHANGED enableCache
      /\ bulk \in 1 .. Len(list) /\ bulk \in Nat /\ b \in Entry
    BY BulkResolvedDoes
<1>3. \/ index.item > Len(list) /\ Throw
      \/ /\ Failed \in Answers[HostOf[b]]
         /\ ResolveNext(bulk + 1, addrs, age, index)
      \/ \E r \in Answers[HostOf[b]] \ {Failed} : \E as, ages, ix :
            Answered(r, HostOf[b], as, ages, ix)
    BY BulkResolvedDoes
<1>4. Len(list) \in Nat /\ bulk # 0 /\ bulk + 1 \in Nat /\ 1 <= bulk + 1
      /\ \A j \in 1 .. Len(list) : j < bulk + 1 => j < bulk \/ j = bulk
    <2>1. Len(list) \in Nat
        BY <1>1, PartIs
    <2> QED
        BY <1>2, <2>1
<1>5. /\ enableCache /\ index.item <= Len(list)
      /\ \A j \in 1 .. Len(list) : j < bulk => addrs[list[j]] # NoList \/ Fails(list[j])
    BY <1>1, <1>4 DEF BulkInv
<1>6. CASE index.item > Len(list)
    <2>1. index.item \in Nat
        BY <1>1, IndexIs
    <2> QED
        BY <1>4, <1>5, <1>6, <2>1
<1>7. CASE Failed \in Answers[HostOf[b]] /\ ResolveNext(bulk + 1, addrs, age, index)
    <2>1. Fails(b)
        BY <1>2, <1>7 DEF NamesAreSteady, Fails
    <2>2. \A j \in 1 .. Len(list) : j < bulk + 1 => addrs[list[j]] # NoList \/ Fails(list[j])
        BY <1>4, <1>5, <2>1
    <2>3. \A e \in Entry : addrs[e] # NoList => Own(e, addrs[e])
        BY <1>1 DEF AddrsInv
    <2> QED
        BY <1>1, <1>2, <1>4, <1>5, <1>7, <2>2, <2>3, ResolveNextKeeps
<1>8. ASSUME NEW r \in Answers[HostOf[b]] \ {Failed}, NEW as, NEW ages, NEW ix,
             Answered(r, HostOf[b], as, ages, ix)
      PROVE  RemoteInv'
    <2>1. /\ as \in Book /\ ages \in Ages /\ ix \in Indices /\ ix.item = index.item
          /\ GivenBy(r, HostOf[b], as)
          /\ ResolveNext(bulk + 1, as, ages, ix)
        BY <1>8 DEF Answered
    <2>2. ASSUME NEW e \in Entry PROVE IF e \in Range(list) /\ Takes(e, HostOf[b])
                                       THEN Own(e, as[e]) /\ as[e] # NoList
                                       ELSE as[e] = addrs[e]
        <3>1. CASE e \in Range(list) /\ Takes(e, HostOf[b])
            <4>1. HostOf[e] = HostOf[b]
                BY <3>1 DEF Takes
            <4>2. as[e] \in EndpointRange(e, r)
                BY <2>1, <3>1 DEF GivenBy
            <4>3. addrs[e] \in AddrList \cup {NoList}
                BY <1>1 DEF Book
            <4>4. r \in Answers[HostOf[e]] \ {Failed}
                BY <4>1
            <4> QED
                BY <3>1, <4>2, <4>3, <4>4, OwnAnswer
        <3>2. CASE ~(e \in Range(list) /\ Takes(e, HostOf[b]))
            BY <2>1, <3>2 DEF GivenBy
        <3> QED
            BY <3>1, <3>2
    <2>3. \A e \in Entry : as[e] # NoList => Own(e, as[e])
        BY <1>1, <2>2 DEF AddrsInv
    <2>4. \A e \in Entry : addrs[e] # NoList => as[e] # NoList
        BY <2>2
    <2>5. as[b] # NoList
        <3>1. b \in Range(list)
            BY <1>1, <1>2, RangeOfList, PartIs
        <3>2. CASE NeedResolve(addrs, age, b)
            BY <1>2, <2>2, <3>1, <3>2 DEF Takes
        <3>3. CASE ~NeedResolve(addrs, age, b)
            BY <1>2, <2>4, <3>3 DEF NeedResolve
        <3> QED
            BY <3>2, <3>3
    <2>6. \A j \in 1 .. Len(list) : j < bulk + 1 => as[list[j]] # NoList \/ Fails(list[j])
        <3>1. \A j \in 1 .. Len(list) : list[j] \in Entry
            BY <1>1, PartIs
        <3> QED
            BY <1>4, <1>5, <2>4, <2>5, <3>1
    <2> HIDE DEF b
    <2> QED
        BY <1>2, <1>4, <1>5, <2>1, <2>3, <2>4, <2>6, ResolveNextKeeps
<1> QED
    BY <1>3, <1>6, <1>7, <1>8

LEMMA TransportResolvedKeeps ==
    ASSUME NamesAreSteady, TypeInv, RemoteInv, TransportResolved PROVE RemoteInv'
<1>1. /\ Part(list) /\ addrs \in Book /\ index \in Indices /\ Started(session)
      /\ AddrsInv /\ BulkInv /\ SessionInv
    BY DEF TypeInv, RemoteInv
<1>2. UNCHANGED <<enableCache, list, bulk>> /\ session.state = "resolving" /\ session.entry \in Entry
    BY TransportResolvedDoes
<1>3. CASE /\ session' = [session EXCEPT !.state = "ended"]
           /\ UNCHANGED <<addrs, age, index>>
    <2>1. /\ session'.state = "ended" /\ session'.entry = session.entry
          /\ session'.reached = session.reached /\ session'.advance = session.advance
        BY <1>1, <1>3 DEF Started, Sessions
    <2>2. On => On'
        BY <1>2, <1>3, <2>1 DEF On
    <2>3. Held => Held'
        BY <1>3, <2>1 DEF Held
    <2>4. Fresh => Fresh'
        BY <2>1 DEF Fresh
    <2>5. SessionInv'
        BY <1>1, <1>2, <2>1, <2>2, <2>3, <2>4 DEF SessionInv, Fails
    <2>6. AddrsInv' /\ BulkInv'
        BY <1>1, <1>2, <1>3 DEF AddrsInv, BulkInv, Fails
    <2> QED
        BY <2>5, <2>6 DEF RemoteInv
<1>4. CASE Answers[HostOf[session.entry]] # {Failed} /\ index.item > Len(list)
    <2>1. ~Fails(session.entry)
        BY <1>4 DEF Fails
    <2>2. index.item <= Len(list)
        BY <1>1, <1>2, <2>1 DEF SessionInv, On
    <2>3. index.item \in Nat /\ Len(list) \in Nat
        BY <1>1, IndexIs, PartIs
    <2> QED
        BY <1>4, <2>2, <2>3
<1>5. ASSUME index.item <= Len(list), NEW r \in Answers[HostOf[session.entry]] \ {Failed}, NEW range,
             TakenIn(list[index.item], r, range)
      PROVE  RemoteInv'
    <2>1. ~Fails(session.entry)
        BY DEF Fails
    <2>2. On
        BY <1>1, <1>2, <2>1 DEF SessionInv
    <2>3. list[index.item] = session.entry
        BY <2>2 DEF On
    <2> DEFINE e == session.entry
    <2>4. /\ range \in AddrList /\ range \in EndpointRange(e, r)
          /\ addrs' = [addrs EXCEPT ![e] = range]
          /\ index' = [index EXCEPT !.addr = 1]
          /\ Contact(e, addrs', e, 1)
        BY <1>5, <2>3 DEF TakenIn
    <2>5. addrs[e] \in AddrList \cup {NoList} /\ e \in Entry
        BY <1>1, <1>2 DEF Book
    <2>6. Own(e, range) /\ range # NoList
        BY <2>4, <2>5, OwnAnswer
    <2> HIDE DEF e
    <2>7. addrs'[e] = range /\ \A f \in Entry : f # e => addrs'[f] = addrs[f]
        BY <1>1, <2>4, <2>5 DEF Book
    <2>8. addrs' \in Book
        BY <1>1, <2>4 DEF Book
    <2>9. index'.item = index.item
        BY <1>1, <2>4 DEF Indices
    <2>10. HasEndpoint(addrs', e, 1)
        <3>1. Len(range) \in Nat /\ range # <<>> /\ range \in Seq(Addr)
            BY <2>4, <2>6, AddrListIs DEF Own
        <3>2. 1 <= Len(range)
            BY <3>1
        <3> QED
            BY <2>6, <2>7, <3>2 DEF HasEndpoint
    <2>11. \E a \in Addr : session' = NewSession("contacting", e, a)
        <3>1. 1 \in 1 .. Cardinality(Addr)
            BY Addresses
        <3> QED
            BY <2>4, <2>5, <2>8, <2>10, <3>1, ContactIs
    <2>12. StartOf(e, addrs', session')
        BY <2>6, <2>7, <2>11 DEF StartOf
    <2>13. SessionInv'
        <3>1. index'.item <= Len(list') /\ list'[index'.item] = e
            BY <1>2, <1>5, <2>3, <2>9 DEF e
        <3> QED
            BY <2>5, <2>12, <3>1, StartKeeps
    <2>14. AddrsInv'
        BY <1>1, <2>6, <2>7 DEF AddrsInv
    <2>15. BulkInv'
        <3>1. \A f \in Entry : addrs[f] # NoList => addrs'[f] # NoList
            BY <2>6, <2>7
        <3>2. \A j \in 1 .. Len(list) : list[j] \in Entry
            BY <1>1, PartIs
        <3> QED
            BY <1>1, <1>2, <2>9, <3>1, <3>2 DEF BulkInv, Fails
    <2> QED
        BY <2>13, <2>14, <2>15 DEF RemoteInv
<1> QED
    BY <1>3, <1>4, <1>5, TransportResolvedDoes

\* Steps of the session alone: a server that has answered has been contacted.
LEMMA SessionKeeps ==
    ASSUME TypeInv, RemoteInv, UNCHANGED <<enableCache, list, addrs, index, bulk>>,
           session'.entry = session.entry, session.state \notin {"none", "thrown"},
           session'.state \notin {"none", "thrown"}, Fresh => Fresh'
    PROVE  RemoteInv'
<1>1. AddrsInv /\ BulkInv /\ SessionInv
    BY DEF RemoteInv
<1>2. (On => On') /\ (Held => Held') /\ (Fails(session.entry) => Fails(session'.entry))
    BY DEF On, Held
<1>3. SessionInv'
    BY <1>1, <1>2 DEF SessionInv, Fails
<1>4. AddrsInv' /\ BulkInv'
    BY <1>1 DEF AddrsInv, BulkInv, Fails
<1> QED
    BY <1>3, <1>4 DEF RemoteInv

LEMMA RemoteStep ==
    ASSUME NamesAreSteady, TypeInv, RemoteInv, Next PROVE RemoteInv'
<1>1. /\ Part(list) /\ addrs \in Book /\ age \in Ages /\ index \in Indices /\ Started(session)
      /\ AddrsInv /\ BulkInv /\ SessionInv
    BY DEF TypeInv, RemoteInv
<1>2. \A e \in Entry : addrs[e] # NoList => Own(e, addrs[e])
    BY <1>1 DEF AddrsInv
<1>3. Len(list) \in Nat \ {0} /\ list \in Seq(Entry)
    BY <1>1, PartIs
<1>4. ASSUME session.state = "none", TransportStart(list, addrs, index),
             UNCHANGED <<enableCache, list, addrs, age, index, bulk>>
      PROVE  RemoteInv'
    <2>1. index.item = 1
        BY <1>1, <1>4 DEF SessionInv
    <2>2. index.item <= Len(list) /\ ~(index.item > Len(list))
        BY <1>3, <2>1
    <2>3. list[index.item] \in Entry /\ StartOf(list[index.item], addrs, session')
        BY <1>1, <1>3, <1>4, <2>2, TransportStartIs
    <2>4. SessionInv'
        BY <1>4, <2>2, <2>3, StartKeeps
    <2>5. AddrsInv' /\ BulkInv'
        BY <1>1, <1>4 DEF AddrsInv, BulkInv, Fails
    <2> QED
        BY <2>4, <2>5 DEF RemoteInv
<1>5. ASSUME ResolveNext(1, addrs, age, index), UNCHANGED enableCache, enableCache,
             index.item <= Len(list)
      PROVE  RemoteInv'
    <2>1. \A j \in 1 .. Len(list) : j < 1 => addrs[list[j]] # NoList \/ Fails(list[j])
        BY <1>3
    <2> QED
        BY <1>1, <1>2, <1>5, <2>1, ResolveNextKeeps
<1>6. CASE Start
    <2>1. CASE enableCache /\ ResolveNext(1, addrs, age, index)
        <3>1. index.item <= Len(list)
            <4>1. index.item = 1
                BY <1>1, <1>6 DEF SessionInv, Start
            <4> QED
                BY <1>3, <4>1
        <3>2. UNCHANGED enableCache
            BY <1>6 DEF Start
        <3> QED
            BY <1>5, <2>1, <3>1, <3>2
    <2>2. CASE TransportStart(list, addrs, index) /\ UNCHANGED <<list, addrs, age, index, bulk>>
        BY <1>4, <1>6, <2>2 DEF Start
    <2> QED
        BY <1>6, <2>1, <2>2 DEF Start
<1>7. CASE StartEarly
    BY <1>4, <1>7 DEF StartEarly
<1>8. CASE BulkResolved
    BY <1>8, BulkResolvedKeeps
<1>9. CASE TransportResolved
    BY <1>9, TransportResolvedKeeps
<1>10. CASE Connected
    <2>1. session.state = "contacting"
        BY <1>10 DEF Connected
    <2>2. session'.entry = session.entry /\ session'.state = "connected"
        BY <1>1, <1>10 DEF Connected, Started, Sessions
    <2>3. ~Fresh
        BY <2>1 DEF Fresh
    <2> QED
        BY <1>10, <2>1, <2>2, <2>3, SessionKeeps DEF Connected
<1>11. CASE SessionEnds
    <2>1. session.state \in {"contacting", "connected"}
        BY <1>11 DEF SessionEnds
    <2>2. session'.entry = session.entry /\ session'.state = "ended"
        BY <1>1, <1>11 DEF SessionEnds, Started, Sessions
    <2>3. ~Fresh
        BY <2>1 DEF Fresh
    <2> QED
        BY <1>11, <2>1, <2>2, <2>3, SessionKeeps DEF SessionEnds
<1>12. CASE Restart
    <2>1. NewClient(addrs, age) /\ session.state \notin {"none", "thrown"}
        BY <1>12 DEF Restart
    <2> QED
        BY <1>1, <1>2, <2>1, NewClientKeeps
<1>13. CASE Pause
    <2>1. session.state \notin {"none", "thrown"}
        BY <1>13 DEF Pause
    <2>2. /\ session'.entry = session.entry /\ session'.state = "paused"
          /\ session'.reached = session.reached /\ session'.advance = session.advance
        BY <1>1, <1>13 DEF Pause, Started, Sessions
    <2>3. Fresh => Fresh'
        BY <2>2 DEF Fresh
    <2> QED
        BY <1>13, <2>1, <2>2, <2>3, SessionKeeps DEF Pause
<1>14. CASE Resume
    <2>1. session.state \notin {"none", "thrown"}
        BY <1>14 DEF Resume
    <2>2. CASE NewClient(addrs, age)
        BY <1>1, <1>2, <2>1, <2>2, NewClientKeeps
    <2>3. CASE /\ ~enableCache
               /\ NewClient(ResetItem(addrs, index.item, NoList), ResetItem(age, index.item, "never"))
        <3> DEFINE as == ResetItem(addrs, index.item, NoList)
                   ages == ResetItem(age, index.item, "never")
        <3>1. index.item \in Nat /\ 1 <= index.item
            BY <1>1, IndexIs
        <3>2. as \in Book /\ \A e \in Entry : as[e] \in {addrs[e], NoList}
            <4> DEFINE T == AddrList \cup {NoList}
            <4>1. addrs \in [Entry -> T] /\ NoList \in T /\ Book = [Entry -> T]
                BY <1>1 DEF Book
            <4> HIDE DEF T
            <4> QED
                BY <1>1, <3>1, <4>1, ResetItemIs
        <3>3. ages \in Ages
            BY <1>1, <3>1, ResetItemIs DEF Ages
        <3>4. NewClient(as, ages) /\ ~enableCache
            BY <2>3
        <3> HIDE DEF as, ages
        <3>5. \A e \in Entry : as[e] # NoList => Own(e, as[e])
            BY <1>2, <3>2
        <3> QED
            BY <2>1, <3>2, <3>3, <3>4, <3>5, NewClientKeeps
    <2> QED
        BY <1>14, <2>2, <2>3 DEF Resume
<1>15. CASE Renegotiated
    <2>1. /\ session.state = "connected" /\ enableCache
          /\ ResolveNext(1, addrs, age, index) /\ UNCHANGED enableCache
        BY <1>15 DEF Renegotiated
    <2>2. index.item <= Len(list)
        BY <1>1, <2>1 DEF SessionInv, Fresh, On
    <2> QED
        BY <1>5, <2>1, <2>2
<1>16. CASE Decay
    <2>1. UNCHANGED <<enableCache, list, addrs, index, bulk, session>>
        BY <1>16 DEF Decay
    <2> QED
        BY <2>1 DEF RemoteInv, AddrsInv, BulkInv, SessionInv, On, Held, Fresh, Fails
<1> QED
    BY <1>6, <1>7, <1>8, <1>9, <1>10, <1>11, <1>12, <1>13, <1>14, <1>15, <1>16 DEF Next

LEMMA RemoteInit == ASSUME Init PROVE RemoteInv
<1>1. AddrsInv /\ BulkInv
    BY DEF Init, AddrsInv, BulkInv
<1>2. SessionInv
    BY DEF Init, SessionInv, NoSession, NewSession
<1> QED
    BY <1>1, <1>2 DEF RemoteInv

LEMMA RemoteAlways == NamesAreSteady /\ Safety => [](TypeInv /\ RemoteInv)
<1> SUFFICES ASSUME NamesAreSteady PROVE Safety => [](TypeInv /\ RemoteInv)
    OBVIOUS
<1>1. Init => TypeInv /\ RemoteInv
    BY TypeInit, RemoteInit
<1>2. TypeInv /\ RemoteInv /\ [Next]_vars => (TypeInv /\ RemoteInv)'
    <2>1. TypeInv /\ UNCHANGED vars => TypeInv'
        BY DEF TypeInv, vars
    <2>2. RemoteInv /\ UNCHANGED vars => RemoteInv'
        BY DEF vars, RemoteInv, AddrsInv, BulkInv, SessionInv, On, Held, Fresh, Fails
    <2> QED
        BY <2>1, <2>2, TypeStep, RemoteStep
<1> QED
    BY <1>1, <1>2, PTL DEF Safety

\* If names are steady, remote_list_error is never raised: the index never
\* leaves the list, whenever prune_uncached() shrinks it under a session, and an
\* address is only asked for where there is one.
THEOREM NoLogicErrorCorrect == NamesAreSteady /\ Safety => []NoLogicError
<1>1. TypeInv /\ RemoteInv => NoLogicError
    BY TypeIs DEF RemoteInv, SessionInv, NoLogicError
<1> QED
    BY <1>1, RemoteAlways, PTL

\* If names are steady, a session that is in contact with a server has the index
\* on the entry it was started for, however often the list has been resolved
\* again and pruned since: it holds on to the addresses of the entry, and what
\* has addresses is kept.
THEOREM IndexCorrect == NamesAreSteady /\ Safety => []IndexFollowsSession
<1>1. RemoteInv => IndexFollowsSession
    BY DEF RemoteInv, SessionInv, IndexFollowsSession, On, Fresh
<1> QED
    BY <1>1, RemoteAlways, PTL

\* If names are steady, an entry holds the addresses of its own host only: the
\* run that finds otherwise needs a name server that fails now and then.
THEOREM OwnCorrect == NamesAreSteady /\ Safety => []OwnAddresses
<1>1. RemoteInv => OwnAddresses
    BY DEF RemoteInv, AddrsInv, Own, OwnAddresses
<1> QED
    BY <1>1, RemoteAlways, PTL

=============================================================================
