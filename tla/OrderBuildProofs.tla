--------------------------- MODULE OrderBuildProofs --------------------------
(***************************************************************************)
(* Theorems about OrderBuild, for batches of any size, any prices and any  *)
(* settled part of them.                                                   *)
(***************************************************************************)
EXTENDS OrderBuild, Sums

-----------------------------------------------------------------------------
(* The texts and the pre-processors.                                       *)

Case == {"UP Pistol RFID", "UP Pistol BT", "UP Pistol BIO", "35s Compact (BT)", "35s Compact (BIO)"}

LEMMA Processors ==
  /\ DOMAIN PreProcessors = 1 .. 7
  /\ PreProcessors[1] = StandartRFIDLock /\ PreProcessors[2] = StandartRFIDLockV2
  /\ PreProcessors[3] = BluetoothLock /\ PreProcessors[4] = BiometricFingerprintLock
  /\ PreProcessors[5] = BluetoothSoloLock /\ PreProcessors[6] = BiometricFingerprintSoloLock
  /\ PreProcessors[7] = GeneralCombinedPreProcessor
  BY DEF PreProcessors

\* What each of them looks for, and what it writes.
LEMMA ProcessorLocks ==
  /\ StandartRFIDLock.lock = "COmpact RFID" /\ StandartRFIDLockV2.lock = "Compact RFID"
  /\ BluetoothLock.lock = "elite" /\ BiometricFingerprintLock.lock = "elite fingerprint"
  /\ BluetoothSoloLock.lock = "elite" /\ BiometricFingerprintSoloLock.lock = "elite fingerprint"
  /\ GeneralCombinedPreProcessor.lock = "-"
  /\ StandartRFIDLock.case = "UP Pistol RFID" /\ StandartRFIDLockV2.case = "UP Pistol RFID"
  /\ BluetoothLock.case = "UP Pistol BT" /\ BiometricFingerprintLock.case = "UP Pistol BIO"
  /\ BluetoothSoloLock.case = "35s Compact (BT)"
  /\ BiometricFingerprintSoloLock.case = "35s Compact (BIO)"
  /\ StandartRFIDLock.pair = TRUE /\ StandartRFIDLockV2.pair = TRUE
  /\ BluetoothLock.pair = TRUE /\ BiometricFingerprintLock.pair = TRUE
  /\ BluetoothSoloLock.pair = FALSE /\ BiometricFingerprintSoloLock.pair = FALSE
  /\ GeneralCombinedPreProcessor.pair = TRUE
  BY DEF StandartRFIDLock, StandartRFIDLockV2, BluetoothLock, BiometricFingerprintLock,
     BluetoothSoloLock, BiometricFingerprintSoloLock, GeneralCombinedPreProcessor

LEMMA TextIs ==
  Text = Lock \cup Addon \cup {"COmpact elite", "TT Patriot", "Patriot 35S", "TT Saver"} \cup Case
<1>1. 1 .. 6 = {1, 2, 3, 4, 5, 6}
  OBVIOUS
<1>2. /\ PreProcessors[1].case = "UP Pistol RFID" /\ PreProcessors[2].case = "UP Pistol RFID"
      /\ PreProcessors[3].case = "UP Pistol BT" /\ PreProcessors[4].case = "UP Pistol BIO"
      /\ PreProcessors[5].case = "35s Compact (BT)" /\ PreProcessors[6].case = "35s Compact (BIO)"
  BY Processors, ProcessorLocks
<1>3. PICK Of : Of = [k \in {1, 2, 3, 4, 5, 6} |-> PreProcessors[k].case]
  OBVIOUS
<1>4. /\ Of[1] = "UP Pistol RFID" /\ Of[2] = "UP Pistol RFID" /\ Of[3] = "UP Pistol BT"
      /\ Of[4] = "UP Pistol BIO" /\ Of[5] = "35s Compact (BT)" /\ Of[6] = "35s Compact (BIO)"
      /\ {PreProcessors[k].case : k \in {1, 2, 3, 4, 5, 6}} = {Of[k] : k \in {1, 2, 3, 4, 5, 6}}
  BY <1>2, <1>3
<1>5. {Of[k] : k \in {1, 2, 3, 4, 5, 6}} = Case
  BY <1>4 DEF Case
<1> QED
  BY <1>1, <1>4, <1>5 DEF Text, Shop

LEMMA LockLengths ==
  /\ Length["COmpact RFID"] = 29 /\ Length["Compact RFID"] = 29
  /\ Length["elite"] = 37 /\ Length["elite fingerprint"] = 49
<1>1. {"COmpact RFID", "Compact RFID", "elite", "elite fingerprint"} \subseteq Text
  BY TextIs DEF Lock
<1> QED
  BY <1>1 DEF Length

LEMMA ProcessorPoints ==
  /\ Points(PreProcessors[1]) = 29 /\ Points(PreProcessors[2]) = 29
  /\ Points(PreProcessors[3]) = 37 /\ Points(PreProcessors[4]) = 49
  /\ Points(PreProcessors[5]) = 37 /\ Points(PreProcessors[6]) = 49
  /\ Points(PreProcessors[7]) = 1
<1>1. \A k \in {1, 2, 3, 4, 5, 6} : PreProcessors[k] # GeneralCombinedPreProcessor
  <2>1. \A k \in {1, 2, 3, 4, 5, 6} : PreProcessors[k].lock # "-"
    BY Processors, ProcessorLocks
  <2> QED
    BY <2>1, ProcessorLocks
<1> QED
  BY <1>1, Processors, ProcessorLocks, LockLengths DEF Points

-----------------------------------------------------------------------------
(* The groups.                                                             *)

Group == Range(Groups)

LEMMA GroupFacts ==
  ASSUME NEW e \in Group
  PROVE  /\ e \in Seq(Txn) /\ DOMAIN e = 1 .. Len(e) /\ e[1] \in Txn /\ e[1] \in Members(e)
         /\ Members(e) \subseteq Txn
         /\ \/ Len(e) = 1 /\ Members(e) = {e[1]}
            \/ /\ Len(e) = 2 /\ Members(e) = {e[1], e[2]}
               /\ e[2] \in Txn /\ e[1] # e[2]
<1>1. PICK i \in DOMAIN Groups : e = Groups[i]
  BY DEF Group, Range
<1>2. e \in Seq(Txn) /\ Len(e) \in {1, 2} /\ IsInjective(e)
  BY <1>1, OrderBuildAssumption
<1>3. DOMAIN e = 1 .. Len(e) /\ \A k \in 1 .. Len(e) : e[k] \in Txn
  BY <1>2
<1>4. Members(e) = {e[k] : k \in 1 .. Len(e)}
  BY <1>3 DEF Members, Range
<1>5. CASE Len(e) = 1
  <2>1. 1 .. Len(e) = {1}
    BY <1>5
  <2> QED
    BY <1>2, <1>3, <1>4, <1>5, <2>1
<1>6. CASE Len(e) = 2
  <2>1. 1 .. Len(e) = {1, 2}
    BY <1>6
  <2>2. e[1] # e[2]
    BY <1>2, <1>3, <2>1 DEF IsInjective
  <2> QED
    BY <1>2, <1>3, <1>4, <1>6, <2>1, <2>2
<1> QED
  BY <1>2, <1>5, <1>6

LEMMA GroupsApart ==
  ASSUME NEW i \in Index, NEW j \in Index, NEW x \in Members(Groups[i]), x \in Members(Groups[j])
  PROVE  i = j
  BY OrderBuildAssumption DEF Index, Members

LEMMA OneGroup ==
  ASSUME NEW e \in Group, NEW f \in Group, NEW x \in Members(e), x \in Members(f)
  PROVE  e = f
<1>1. PICK i \in DOMAIN Groups : e = Groups[i]
  BY DEF Group, Range
<1>2. PICK j \in DOMAIN Groups : f = Groups[j]
  BY DEF Group, Range
<1> QED
  BY <1>1, <1>2, GroupsApart DEF Index

-----------------------------------------------------------------------------
(* filter keeps each settled group once.                                   *)

Kept(s, n) ==
    /\ s \in Seq(Group)
    /\ \A k \in 1 .. Len(s) : \E i \in 1 .. n : s[k] = Groups[i] /\ IsApproved(Groups[i])
    /\ \A i \in 1 .. n : IsApproved(Groups[i]) => \E k \in 1 .. Len(s) : s[k] = Groups[i]
    /\ \A k, l \in 1 .. Len(s) : s[k] = s[l] => k = l

Fold == FoldLeft(LAMBDA kept, entry : IF IsApproved(entry) THEN Append(kept, entry) ELSE kept,
                 <<>>, Groups)

LEMMA FilterTurn ==
  ASSUME NEW n \in 0 .. Len(Groups) - 1, NEW s, Kept(s, n)
  PROVE  Kept(IF IsApproved(Groups[n + 1]) THEN Append(s, Groups[n + 1]) ELSE s, n + 1)
<1>1. /\ Groups \in Seq(Seq(Txn)) /\ DOMAIN Groups = 1 .. Len(Groups) /\ Len(Groups) \in Nat
      /\ \A i \in 1 .. Len(Groups) : Groups[i] \in Group
  BY OrderBuildAssumption DEF Group, Range
<1>2. n + 1 \in 1 .. Len(Groups) /\ 1 .. n + 1 = (1 .. n) \cup {n + 1} /\ n \in Nat
  BY <1>1
<1>3. CASE ~IsApproved(Groups[n + 1])
  BY <1>2, <1>3 DEF Kept
<1>4. CASE IsApproved(Groups[n + 1])
  <2> DEFINE e == Groups[n + 1]
             t == Append(s, e)
  <2>1. e \in Group /\ s \in Seq(Group) /\ Len(s) \in Nat
    BY <1>1, <1>2 DEF Kept
  <2>2. /\ t \in Seq(Group) /\ Len(t) = Len(s) + 1 /\ t[Len(s) + 1] = e
        /\ \A k \in 1 .. Len(s) : t[k] = s[k]
    BY <2>1
  <2>3. 1 .. Len(t) = (1 .. Len(s)) \cup {Len(s) + 1}
    BY <2>1, <2>2
  <2>4. \A i \in 1 .. n : Groups[i] # e
    <3> SUFFICES ASSUME NEW i \in 1 .. n, Groups[i] = e PROVE FALSE
      OBVIOUS
    <3>1. e[1] \in Members(e)
      BY <2>1, GroupFacts
    <3>2. i \in Index /\ n + 1 \in Index /\ i # n + 1
      BY <1>1, <1>2 DEF Index
    <3> QED
      BY <3>1, <3>2, GroupsApart
  <2> HIDE DEF t
  <2>5. \A k \in 1 .. Len(s) : t[k] # e
    BY <2>2, <2>4 DEF Kept
  <2>6. \A k, l \in 1 .. Len(t) : t[k] = t[l] => k = l
    BY <2>2, <2>3, <2>5 DEF Kept
  <2>7. \A k \in 1 .. Len(t) : \E i \in 1 .. n + 1 : t[k] = Groups[i] /\ IsApproved(Groups[i])
    BY <2>2, <2>3, <1>2, <1>4 DEF Kept
  <2>8. \A i \in 1 .. n + 1 : IsApproved(Groups[i]) => \E k \in 1 .. Len(t) : t[k] = Groups[i]
    BY <2>2, <2>3, <1>2 DEF Kept
  <2> QED
    BY <2>2, <2>6, <2>7, <2>8, <1>4 DEF Kept, t
<1> QED
  BY <1>3, <1>4

LEMMA FilterKeeps == Kept(Fold, Len(Groups))
<1> DEFINE n == Len(Groups)
           A == Seq(Group)
           F == [p \in (1 .. n) \X A |->
                   IF IsApproved(Groups[p[1]]) THEN Append(p[2], Groups[p[1]]) ELSE p[2]]
<1>1. n \in Nat /\ DOMAIN Groups = 1 .. n /\ \A i \in 1 .. n : Groups[i] \in Group
  BY OrderBuildAssumption DEF Group, Range
<1> HIDE DEF n
<1>2. F \in [(1 .. n) \X A -> A] /\ <<>> \in A
  BY <1>1
<1>3. PICK g \in [SUBSET (1 .. n) -> A] : IsLoop(g, n, <<>>, F)
  <2> HIDE DEF F, A
  <2> QED
    BY <1>1, <1>2, LoopExists
<1>4. g = [s \in SUBSET DOMAIN Groups |->
             IF s = {} THEN <<>>
             ELSE IF IsApproved(Groups[Max(s)])
                  THEN Append(g[s \ {Max(s)}], Groups[Max(s)]) ELSE g[s \ {Max(s)}]]
  <2>1. ASSUME NEW s \in SUBSET (1 .. n), s # {}
        PROVE  F[<<Max(s), g[s \ {Max(s)}]>>]
                 = IF IsApproved(Groups[Max(s)])
                   THEN Append(g[s \ {Max(s)}], Groups[Max(s)]) ELSE g[s \ {Max(s)}]
    <3>1. IsFiniteSet(1 .. n) /\ s \in SUBSET Int
      BY <1>1, FS_Interval
    <3>2. Max(s) \in s
      BY <2>1, <3>1, FS_Subset, MaxIsIn
    <3>3. Max(s) \in 1 .. n /\ g[s \ {Max(s)}] \in A
      BY <3>2
    <3> HIDE DEF A
    <3> QED
      BY <3>3
  <2> HIDE DEF F
  <2> QED
    BY <2>1, <1>1, <1>3 DEF IsLoop
<1>5. PICK h : /\ h = [s \in SUBSET DOMAIN Groups |->
                         IF s = {} THEN <<>>
                         ELSE IF IsApproved(Groups[Max(s)])
                              THEN Append(h[s \ {Max(s)}], Groups[Max(s)]) ELSE h[s \ {Max(s)}]]
               /\ Fold = h[DOMAIN Groups]
  BY <1>4 DEF Fold, FoldLeft, MapThenFoldSet
<1> DEFINE T == {k \in Nat : k <= n => Kept(h[1 .. k], k)}
<1>6. 0 \in T
  <2>1. 1 .. 0 = {} /\ h[{}] = <<>>
    BY <1>5
  <2>2. <<>> \in Seq(Group) /\ Len(<<>>) = 0
    OBVIOUS
  <2>3. Kept(<<>>, 0)
    BY <2>1, <2>2 DEF Kept
  <2> QED
    BY <2>1, <2>3
<1>7. \A k \in Nat : k \in T => k + 1 \in T
  <2> TAKE k \in Nat
  <2> SUFFICES ASSUME k \in T, k + 1 <= n PROVE Kept(h[1 .. k + 1], k + 1)
    BY <1>1
  <2>1. Kept(h[1 .. k], k)
    BY <1>1
  <2> DEFINE I == 1 .. k + 1
  <2>2. I \in SUBSET DOMAIN Groups
    BY <1>1
  <2>3. Max(I) = k + 1 /\ I # {} /\ I \ {k + 1} = 1 .. k
    BY MaxOfInterval
  <2> HIDE DEF I
  <2>4. h[I] = IF IsApproved(Groups[k + 1]) THEN Append(h[1 .. k], Groups[k + 1]) ELSE h[1 .. k]
    BY <1>5, <2>2, <2>3
  <2>5. k \in 0 .. Len(Groups) - 1
    BY <1>1 DEF n
  <2> QED
    BY <2>1, <2>4, <2>5, FilterTurn DEF I
<1>8. n \in T
  <2> HIDE DEF T
  <2> QED
    BY <1>1, <1>6, <1>7, SetInduction
<1>9. Kept(h[1 .. n], n)
  BY <1>1, <1>8
<1> QED
  BY <1>1, <1>5, <1>9 DEF n

-----------------------------------------------------------------------------
(* Which pre-processor is chosen.                                          *)

Plain(x) == [text |-> x, addon |-> "-"]

LEMMA PlainIncludes == \A x, y : Includes(Plain(x), y) <=> Holds(x, y)
  BY DEF Plain, Includes

TextOf(d) == d.text

LEMMA PlainText == \A x : TextOf(Plain(x)) = x
  BY DEF TextOf, Plain

LEMMA AddonHoldsNoLock ==
  \A x \in Addon : \A y \in {"COmpact RFID", "Compact RFID", "elite", "elite fingerprint"} : ~Holds(x, y)
  BY DEF Addon, Holds

\* t is what it was bought as, and nothing was added to its price yet.
Fresh(t) == heap[t] = [description |-> Plain(bought[t]), amount |-> Price[t]]

Able(e) == {k \in DOMAIN PreProcessors : CanWork(PreProcessors[k], e)}

Beats(k, j) == \/ Points(PreProcessors[k]) > Points(PreProcessors[j])
               \/ Points(PreProcessors[k]) = Points(PreProcessors[j]) /\ k <= j

LEMMA BestOf ==
  ASSUME NEW S \in SUBSET (1 .. 7), S # {}
  PROVE  \E k \in S : \A j \in S : Beats(k, j)
<1>1. \A j \in S : j \in {1, 2, 3, 4, 5, 6, 7}
  OBVIOUS
<1>2. 4 \in S \/ 6 \in S \/ 3 \in S \/ 5 \in S \/ 1 \in S \/ 2 \in S \/ 7 \in S
  BY <1>1
<1>3. CASE 4 \in S
  <2>1. \A j \in {1, 2, 3, 4, 5, 6, 7} : Beats(4, j)
    BY ProcessorPoints DEF Beats
  <2> QED
    BY <1>1, <1>3, <2>1
<1>4. CASE 4 \notin S /\ 6 \in S
  <2>1. \A j \in {1, 2, 3, 5, 6, 7} : Beats(6, j)
    BY ProcessorPoints DEF Beats
  <2> QED
    BY <1>1, <1>4, <2>1
<1>5. CASE 4 \notin S /\ 6 \notin S /\ 3 \in S
  <2>1. \A j \in {1, 2, 3, 5, 7} : Beats(3, j)
    BY ProcessorPoints DEF Beats
  <2> QED
    BY <1>1, <1>5, <2>1
<1>6. CASE 4 \notin S /\ 6 \notin S /\ 3 \notin S /\ 5 \in S
  <2>1. \A j \in {1, 2, 5, 7} : Beats(5, j)
    BY ProcessorPoints DEF Beats
  <2> QED
    BY <1>1, <1>6, <2>1
<1>7. CASE S \subseteq {1, 2, 7} /\ 1 \in S
  <2>1. \A j \in {1, 2, 7} : Beats(1, j)
    BY ProcessorPoints DEF Beats
  <2> QED
    BY <1>7, <2>1
<1>8. CASE S \subseteq {2, 7} /\ 2 \in S
  <2>1. \A j \in {2, 7} : Beats(2, j)
    BY ProcessorPoints DEF Beats
  <2> QED
    BY <1>8, <2>1
<1>9. CASE S = {7}
  BY <1>9, ProcessorPoints DEF Beats
<1> QED
  BY <1>1, <1>2, <1>3, <1>4, <1>5, <1>6, <1>7, <1>8, <1>9

LEMMA ChosenIsBest ==
  ASSUME NEW e
  PROVE  IF Able(e) = {} THEN Chosen(e) = <<>>
         ELSE \E k \in Able(e) : Chosen(e) = <<PreProcessors[k]>> /\ \A j \in Able(e) : Beats(k, j)
<1>1. CASE Able(e) = {}
  BY <1>1 DEF Able, Chosen
<1>2. CASE Able(e) # {}
  <2>1. \E k \in Able(e) : \A j \in Able(e) : Beats(k, j)
    BY <1>2, BestOf, Processors DEF Able
  <2> DEFINE k == CHOOSE k \in Able(e) : \A j \in Able(e) : Beats(k, j)
  <2>2. k \in Able(e) /\ \A j \in Able(e) : Beats(k, j)
    BY <2>1
  <2>3. Chosen(e) = <<PreProcessors[k]>>
    BY <1>2 DEF Chosen, Able, Beats
  <2> QED
    BY <1>2, <2>2, <2>3
<1> QED
  BY <1>1, <1>2

\* The names of the locks that hold one another.
LEMMA LocksHold ==
  \A k, q \in {1, 2, 3, 4} :
     Holds(PreProcessors[q].lock, PreProcessors[k].lock) => k = q \/ (k = 2 /\ q \in {3, 4})
<1>1. /\ PreProcessors[1].lock = "COmpact RFID" /\ PreProcessors[2].lock = "Compact RFID"
      /\ PreProcessors[3].lock = "elite" /\ PreProcessors[4].lock = "elite fingerprint"
  BY Processors, ProcessorLocks
<1>2. \A y \in Lock : Holds("COmpact RFID", y) <=> y = "COmpact RFID"
  BY DEF Holds, Lock
<1>3. \A y \in Lock : Holds("Compact RFID", y) <=> y = "Compact RFID"
  BY DEF Holds, Lock
<1>4. \A y \in Lock : Holds("elite", y) <=> y \in {"elite", "Compact RFID"}
  BY DEF Holds, Lock
<1>5. \A y \in Lock : Holds("elite fingerprint", y) <=> y \in {"elite fingerprint", "Compact RFID"}
  BY DEF Holds, Lock
<1>10. \A k \in {1, 2, 3, 4} : PreProcessors[k].lock \in Lock
  BY <1>1 DEF Lock
<1> SUFFICES ASSUME NEW k \in {1, 2, 3, 4}, NEW q \in {1, 2, 3, 4},
                    Holds(PreProcessors[q].lock, PreProcessors[k].lock)
             PROVE  k = q \/ (k = 2 /\ q \in {3, 4})
  OBVIOUS
<1>6. CASE q = 1
  BY <1>1, <1>2, <1>6, <1>10
<1>7. CASE q = 2
  BY <1>1, <1>3, <1>7, <1>10
<1>8. CASE q = 3
  BY <1>1, <1>4, <1>8, <1>10
<1>9. CASE q = 4
  BY <1>1, <1>5, <1>9, <1>10
<1> QED
  BY <1>6, <1>7, <1>8, <1>9

\* Which entries a pre-processor looks at, by their length.
LEMMA PairIs ==
  ASSUME NEW e
  PROVE  /\ \A k \in {1, 2, 3, 4, 7} : (PreProcessors[k].pair = (Len(e) = 2)) <=> Len(e) = 2
         /\ \A k \in {5, 6} : (PreProcessors[k].pair = (Len(e) = 2)) <=> Len(e) # 2
<1>1. \A k \in {1, 2, 3, 4, 7} : PreProcessors[k].pair = TRUE
  BY Processors, ProcessorLocks
<1>2. \A k \in {5, 6} : PreProcessors[k].pair = FALSE
  BY Processors, ProcessorLocks
<1> QED
  BY <1>1, <1>2

LEMMA GeneralIsLast ==
  \A k \in {1, 2, 3, 4, 5, 6} : PreProcessors[k] # GeneralCombinedPreProcessor
  BY Processors, ProcessorLocks

\* For a pair of a fresh main transaction and a fresh add-on.
LEMMA PairChosen ==
  ASSUME NEW e \in Group, Len(e) = 2, Fresh(e[1]), Fresh(e[2]),
         bought[e[1]] \in Shop, bought[e[2]] \in Addon
  PROVE  \E k \in {1, 2, 3, 4, 7} :
           /\ Chosen(e) = <<PreProcessors[k]>>
           /\ k # 7 => Holds(bought[e[1]], PreProcessors[k].lock)
           /\ \A q \in {1, 2, 3, 4} : bought[e[1]] = PreProcessors[q].lock => k = q
<1>1. Members(e) = {e[1], e[2]}
  BY GroupFacts
<1>2. \A y : Includes(heap[e[1]].description, y) <=> Holds(bought[e[1]], y)
  BY PlainIncludes DEF Fresh
<1>3. \A y : Includes(heap[e[2]].description, y) <=> Holds(bought[e[2]], y)
  BY PlainIncludes DEF Fresh
<1>4. \A k \in {1, 2, 3, 4} : k \in Able(e) <=> Holds(bought[e[1]], PreProcessors[k].lock)
  <2> SUFFICES ASSUME NEW k \in {1, 2, 3, 4}
               PROVE  CanWork(PreProcessors[k], e) <=> Holds(bought[e[1]], PreProcessors[k].lock)
    BY Processors DEF Able
  <2>1. /\ PreProcessors[k].pair = TRUE
        /\ PreProcessors[k].lock \in {"COmpact RFID", "Compact RFID", "elite", "elite fingerprint"}
    BY Processors, ProcessorLocks
  <2>2. ~Includes(heap[e[2]].description, PreProcessors[k].lock)
    BY <2>1, <1>3, AddonHoldsNoLock
  <2> QED
    BY <1>1, <1>2, <2>1, <2>2, GeneralIsLast DEF CanWork
<1>5. 5 \notin Able(e) /\ 6 \notin Able(e) /\ 7 \in Able(e)
  <2>1. PreProcessors[7] = GeneralCombinedPreProcessor /\ {5, 6, 7} \subseteq DOMAIN PreProcessors
    BY Processors
  <2> QED
    BY <2>1, PairIs DEF Able, CanWork
<1>6. PICK k \in Able(e) : Chosen(e) = <<PreProcessors[k]>> /\ \A j \in Able(e) : Beats(k, j)
  BY <1>5, ChosenIsBest
<1>7. k \in {1, 2, 3, 4, 7}
  BY <1>5, Processors DEF Able
<1>8. ASSUME NEW q \in {1, 2, 3, 4}, bought[e[1]] = PreProcessors[q].lock PROVE k = q
  <2>1. q \in Able(e) /\ Beats(k, q)
    BY <1>4, <1>6, <1>8 DEF Holds
  <2>2. k # 7 => Holds(PreProcessors[q].lock, PreProcessors[k].lock)
    BY <1>4, <1>7, <1>8
  <2>3. k \in {7} \/ k = q \/ (k = 2 /\ q \in {3, 4})
    BY <2>2, <1>7, LocksHold
  <2>4. Points(PreProcessors[k]) >= Points(PreProcessors[q])
    <3>1. Points(PreProcessors[k]) \in Int /\ Points(PreProcessors[q]) \in Int
      BY <1>7, ProcessorPoints
    <3> QED
      BY <2>1, <3>1 DEF Beats
  <2> QED
    BY <2>3, <2>4, ProcessorPoints
<1> QED
  BY <1>4, <1>6, <1>7, <1>8

\* For a fresh single transaction.
LEMMA SingleChosen ==
  ASSUME NEW e \in Group, Len(e) = 1, Fresh(e[1])
  PROVE  \/ Chosen(e) = <<>> /\ bought[e[1]] \notin {"elite", "elite fingerprint"}
         \/ \E k \in {5, 6} : Chosen(e) = <<PreProcessors[k]>> /\ bought[e[1]] = PreProcessors[k].lock
<1>1. Members(e) = {e[1]}
  BY GroupFacts
<1>2. \A y : Includes(heap[e[1]].description, y) <=> Holds(bought[e[1]], y)
  BY PlainIncludes DEF Fresh
<1>3. \A k \in {5, 6} : k \in Able(e) <=> bought[e[1]] = PreProcessors[k].lock
  <2> SUFFICES ASSUME NEW k \in {5, 6}
               PROVE  CanWork(PreProcessors[k], e) <=> bought[e[1]] = PreProcessors[k].lock
    BY Processors DEF Able
  <2>1. PreProcessors[k].lock \in {"elite", "elite fingerprint"}
    BY Processors, ProcessorLocks
  <2>2. PreProcessors[k].pair = (Len(e) = 2)
    BY PairIs
  <2>3. Includes(heap[e[1]].description, PreProcessors[k].lock) <=> bought[e[1]] = PreProcessors[k].lock
    BY <1>2, <2>1 DEF Holds
  <2> QED
    BY <1>1, <2>2, <2>3, GeneralIsLast DEF CanWork
<1>4. \A k \in {1, 2, 3, 4, 7} : k \notin Able(e)
  BY Processors, ProcessorLocks DEF Able, CanWork
<1>5. \A k \in Able(e) : k \in {5, 6}
  BY <1>4, Processors DEF Able
<1>6. CASE Able(e) = {}
  BY <1>3, <1>6, ChosenIsBest, Processors, ProcessorLocks
<1>7. CASE Able(e) # {}
  BY <1>3, <1>5, <1>7, ChosenIsBest
<1> QED
  BY <1>6, <1>7

-----------------------------------------------------------------------------
(* The inductive invariant.                                                *)

Description == [text : Text, addon : Text \cup {"-"}]
Order == [group : SUBSET Txn, number : Txn, name : Text,
          product : Text \cup {NoProduct}, amount : Int]

TypeOK ==
    /\ settled \subseteq Txn /\ bought \in [Txn -> Shop] /\ table \in Tables
    /\ \A e \in Group : Len(e) = 2 => bought[e[2]] \in Addon
    /\ heap \in [Txn -> [description : Description, amount : Nat]]
    /\ approved \in Seq(Group) /\ pre \in Seq({<<t>> : t \in Txn})
    /\ Len(pre) <= Len(approved) /\ next \in 1 .. Len(pre) + 1
    /\ orders \in Seq(Order) /\ issued \subseteq Txn
    /\ pc \in {"filter", "pre", "transform", "done"}

\* What the program counter says of the variables.
PcRight ==
    /\ pc = "filter" => approved = <<>> /\ \A t \in Txn : Fresh(t)
    /\ pc # "filter" => Kept(approved, Len(Groups))
    /\ pc \in {"filter", "pre"} => next = 1 /\ orders = <<>> /\ issued = {}
    /\ pc \in {"transform", "done"} => Len(pre) = Len(approved)
    /\ pc = "done" => next = Len(pre) + 1

\* A group whose turn has not come is as it was fetched.
Waiting ==
    \A k \in 1 .. Len(approved) : k > Len(pre) => \A t \in Members(approved[k]) : Fresh(t)

\* A lock that a pre-processor of such a group knows became the case it writes; the two
\* that are known in pairs only stay what they are when they are alone.
RightText(m, e, d) ==
    /\ \A q \in 1 .. 6 :
          bought[m] = PreProcessors[q].lock /\ (Len(e) = 2 <=> q <= 4)
              => d = Plain(PreProcessors[q].case)
    /\ Len(e) # 2 /\ bought[m] \in {"COmpact RFID", "Compact RFID"} => d = Plain(bought[m])

\* One transaction stands for its group, with the amount of all of it.
Stands(m, e) ==
    /\ m \in Members(e) /\ heap[m].amount = SumOf(Price, Members(e))
    /\ RightText(m, e, heap[m].description)

Processed == \A k \in 1 .. Len(pre) : Stands(pre[k][1], approved[k])

\* What was made of the groups before the next one.
Made(o, k) ==
    /\ o.group = Members(approved[k]) /\ o.number = pre[k][1]
    /\ o.name = TextOf(heap[pre[k][1]].description)
    /\ o.product = MatchProduct(heap[pre[k][1]].description)
    /\ o.amount = SumOf(Price, o.group)

OrdersRight ==
    /\ \A j \in 1 .. Len(orders) : \E k \in 1 .. next - 1 : Made(orders[j], k)
    /\ \A i, j \in 1 .. Len(orders) : orders[i].group = orders[j].group => i = j
    /\ \A t \in issued : \E k \in 1 .. next - 1 : t \in Members(approved[k])
    /\ \A k \in 1 .. next - 1 :
         (\E j \in 1 .. Len(orders) : orders[j].group = Members(approved[k]))
           <=> ~(Members(approved[k]) \subseteq issued)

IInv == TypeOK /\ PcRight /\ Waiting /\ Processed /\ OrdersRight

\* What was made stays so: the products are read once.
LEMMA SameMade ==
  ASSUME UNCHANGED <<heap, approved, pre, table>>
  PROVE  \A x, k : Made(x, k)' <=> Made(x, k)
  BY DEF Made, MatchProduct, Matching

LEMMA SumsOfGroups ==
  ASSUME NEW e \in Group
  PROVE  /\ SumOf(Price, Members(e)) \in Nat /\ IsFiniteSet(Members(e))
         /\ Len(e) = 1 => SumOf(Price, Members(e)) = Price[e[1]]
         /\ Len(e) = 2 => SumOf(Price, Members(e)) = Price[e[1]] + Price[e[2]]
<1>1. /\ Price \in [Txn -> Nat] /\ e[1] \in Txn /\ Members(e) \subseteq Txn
      /\ \/ Len(e) = 1 /\ Members(e) = {e[1]}
         \/ Len(e) = 2 /\ Members(e) = {e[1], e[2]} /\ e[2] \in Txn /\ e[1] # e[2]
  BY GroupFacts, OrderBuildAssumption
<1>2. IsFiniteSet({e[1]}) /\ IsFiniteSet({e[1], e[2]})
  <2>1. IsFiniteSet({e[1]}) /\ {e[1], e[2]} = {e[1]} \cup {e[2]}
    BY FS_Singleton
  <2>2. IsFiniteSet({e[1]} \cup {e[2]})
    BY <2>1, FS_AddElement
  <2> QED
    BY <2>1, <2>2
<1>3. SumOf(Price, {e[1]}) = Price[e[1]]
  <2>1. SumOf(Price, {e[1]}) = SumOf(Price, {e[1]} \ {e[1]}) + Price[e[1]]
    BY <1>1, <1>2, SumRemove
  <2>2. {e[1]} \ {e[1]} = {}
    OBVIOUS
  <2> QED
    BY <2>1, <2>2, <1>1, SumEmpty
<1>4. CASE Len(e) = 1
  BY <1>1, <1>2, <1>3, <1>4
<1>5. CASE Len(e) = 2
  <2>0. e[2] \in Txn /\ e[1] # e[2]
    BY <1>1, <1>5
  <2>1. SumOf(Price, {e[1]} \cup {e[2]}) = SumOf(Price, {e[1]}) + Price[e[2]]
    BY <1>1, <1>2, <2>0, SumAdd
  <2>2. {e[1]} \cup {e[2]} = {e[1], e[2]}
    OBVIOUS
  <2>3. SumOf(Price, {e[1], e[2]}) = Price[e[1]] + Price[e[2]]
    BY <2>1, <2>2, <1>3
  <2>4. Price[e[1]] \in Nat /\ Price[e[2]] \in Nat /\ Members(e) = {e[1], e[2]}
    BY <2>0, <1>1, <1>5
  <2> QED
    BY <2>3, <2>4, <1>2, <1>5
<1> QED
  BY <1>1, <1>4, <1>5

LEMMA InitIInv == Init => IInv
<1> SUFFICES ASSUME Init PROVE IInv
  OBVIOUS
<1>1. Price \in [Txn -> Nat] /\ Shop \subseteq Text
  BY OrderBuildAssumption DEF Text
<1>2. \A t \in Txn : Fresh(t)
  BY DEF Init, Fresh, Plain
<1>3. TypeOK
  <2>1. heap \in [Txn -> [description : Description, amount : Nat]]
    BY <1>1 DEF Init, Description
  <2>2. \A e \in Group : Len(e) = 2 => bought[e[2]] \in Addon
    BY DEF Init, Group, Range, Index
  <2>3. approved \in Seq(Group) /\ Len(approved) = 0 /\ orders \in Seq(Order)
        /\ pre \in Seq({<<t>> : t \in Txn}) /\ Len(pre) = 0 /\ next = 1
    BY DEF Init
  <2> QED
    BY <2>1, <2>2, <2>3 DEF Init, TypeOK
<1>4. PcRight
  BY <1>2 DEF Init, PcRight
<1>5. Len(approved) = 0 /\ Len(pre) = 0 /\ Len(orders) = 0 /\ next = 1 /\ issued = {}
  BY DEF Init
<1>6. Waiting /\ Processed /\ OrdersRight
  BY <1>5 DEF Waiting, Processed, OrdersRight
<1> QED
  BY <1>3, <1>4, <1>6 DEF IInv

LEMMA FilterStep ==
  ASSUME IInv, Filter
  PROVE  IInv'
<1>1. /\ UNCHANGED <<bought, settled, table, heap, pre, next, orders, issued>> /\ pc = "filter" /\ pc' = "pre"
      /\ approved' = Fold
  BY DEF Filter, Fold
<1>2. /\ approved = <<>> /\ Len(pre) = 0 /\ next = 1 /\ orders = <<>> /\ issued = {}
      /\ \A t \in Txn : Fresh(t)
  <2>1. pre \in Seq({<<t>> : t \in Txn}) /\ Len(pre) <= Len(approved) /\ approved = <<>>
    BY <1>1 DEF IInv, TypeOK, PcRight
  <2> QED
    BY <2>1, <1>1 DEF IInv, PcRight
<1>3. Kept(Fold, Len(Groups)) /\ Fold \in Seq(Group)
  BY FilterKeeps DEF Kept
<1>4. TypeOK'
  BY <1>1, <1>2, <1>3 DEF IInv, TypeOK
<1>5. PcRight'
  <2>1. Kept(approved, Len(Groups))'
    BY <1>1, <1>3 DEF Kept, IsApproved
  <2> QED
    BY <2>1, <1>1, <1>2 DEF PcRight
<1>6. Waiting'
  <2>1. \A t \in Txn : Fresh(t)'
    BY <1>1, <1>2 DEF Fresh
  <2>2. \A k \in 1 .. Len(Fold) : Members(Fold[k]) \subseteq Txn
    BY <1>3, GroupFacts
  <2> QED
    BY <1>1, <2>1, <2>2 DEF Waiting
<1>7. Processed' /\ OrdersRight'
  <2>1. Len(pre') = 0 /\ Len(orders') = 0 /\ next' = 1 /\ issued' = {}
    BY <1>1, <1>2
  <2> QED
    BY <2>1 DEF Processed, OrdersRight
<1> QED
  BY <1>4, <1>5, <1>6, <1>7 DEF IInv

\* The group whose turn it is, as the invariant knows it.
LEMMA Turn ==
  ASSUME IInv, pc = "pre", IsLeft
  PROVE  /\ Len(pre) \in Nat /\ Len(pre) + 1 \in 1 .. Len(approved)
         /\ Entry \in Group /\ Fresh(Entry[1]) /\ bought[Entry[1]] \in Shop
         /\ Len(Entry) = 2 => Fresh(Entry[2]) /\ bought[Entry[2]] \in Addon
<1>1. Len(pre) \in Nat /\ Len(pre) + 1 \in 1 .. Len(approved) /\ approved \in Seq(Group)
  BY DEF IInv, TypeOK, IsLeft
<1>2. Entry \in Group /\ Entry = approved[Len(pre) + 1]
  BY <1>1 DEF Entry
<1>3. \A t \in Members(Entry) : Fresh(t)
  BY <1>1, <1>2 DEF IInv, Waiting
<1> QED
  BY <1>1, <1>2, <1>3, GroupFacts DEF IInv, TypeOK

\* A transaction m comes to stand for the next group.
LEMMA PreStep ==
  ASSUME IInv, IsLeft, NEW m \in Members(Entry), Preprocess(<<m>>),
         NEW d \in Description, RightText(m, Entry, d),
         heap' = [heap EXCEPT ![m] = [description |-> d, amount |-> SumOf(Price, Members(Entry))]]
  PROVE  IInv'
<1> DEFINE n == Len(pre) + 1
<1>1. /\ UNCHANGED <<bought, settled, table, approved, next, orders, issued, pc>> /\ pc = "pre"
      /\ pre' = Append(pre, <<m>>)
  BY DEF Preprocess
<1>2. /\ Len(pre) \in Nat /\ n \in 1 .. Len(approved) /\ Len(approved) \in Nat
      /\ Entry \in Group /\ approved[n] = Entry /\ approved \in Seq(Group)
      /\ \A k \in 1 .. Len(approved) : approved[k] \in Group
  BY <1>1, Turn DEF Entry, IInv, TypeOK
<1>3. /\ m \in Txn /\ SumOf(Price, Members(Entry)) \in Nat
      /\ heap \in [Txn -> [description : Description, amount : Nat]]
      /\ pre \in Seq({<<t>> : t \in Txn})
  BY <1>2, GroupFacts, SumsOfGroups DEF IInv, TypeOK
<1>4. /\ next = 1 /\ orders = <<>> /\ issued = {} /\ Kept(approved, Len(Groups))
  BY <1>1 DEF IInv, PcRight
<1>5. /\ pre' \in Seq({<<t>> : t \in Txn}) /\ Len(pre') = n /\ pre'[n] = <<m>>
      /\ \A k \in 1 .. Len(pre) : pre'[k] = pre[k] /\ pre[k][1] \in Txn
  BY <1>1, <1>2, <1>3
<1>6. ASSUME NEW k \in 1 .. Len(approved), k # n, NEW t \in Members(approved[k])
      PROVE  t \in Txn /\ heap'[t] = heap[t]
  <2>1. approved[k] # Entry
    BY <1>2, <1>4, <1>6 DEF Kept
  <2>2. t # m
    BY <1>2, <1>6, <2>1, OneGroup
  <2>3. t \in Txn
    BY <1>2, <1>6, GroupFacts
  <2> QED
    BY <1>3, <2>2, <2>3
<1>7. heap'[m] = [description |-> d, amount |-> SumOf(Price, Members(Entry))]
  BY <1>3
<1> HIDE DEF n
<1>8. TypeOK'
  <2>1. heap' \in [Txn -> [description : Description, amount : Nat]]
    BY <1>3
  <2>2. Len(pre') <= Len(approved') /\ next' \in 1 .. Len(pre') + 1
    BY <1>1, <1>2, <1>4, <1>5 DEF n
  <2> QED
    BY <1>1, <1>5, <2>1, <2>2 DEF IInv, TypeOK
<1>9. PcRight'
  <2>1. Kept(approved, Len(Groups))'
    BY <1>1, <1>4 DEF Kept, IsApproved
  <2> QED
    BY <2>1, <1>1, <1>4 DEF PcRight
<1>10. Waiting'
  <2> SUFFICES ASSUME NEW k \in 1 .. Len(approved), k > n, NEW t \in Members(approved[k])
               PROVE  Fresh(t)'
    BY <1>1, <1>5 DEF Waiting
  <2>1. Fresh(t)
    BY <1>2 DEF IInv, Waiting, n
  <2>2. heap'[t] = heap[t]
    BY <1>2, <1>6
  <2> QED
    BY <1>1, <2>1, <2>2 DEF Fresh
<1>11. Processed'
  <2> SUFFICES ASSUME NEW k \in 1 .. n PROVE Stands(pre[k][1], approved[k])'
    BY <1>5 DEF Processed
  <2>1. CASE k = n
    <3>1. pre'[k][1] = m /\ approved'[k] = Entry
      BY <2>1, <1>1, <1>2, <1>5
    <3>2. /\ pre'[k][1] \in Members(approved'[k])
          /\ heap'[pre'[k][1]].amount = SumOf(Price, Members(approved'[k]))
          /\ heap'[pre'[k][1]].description = d
      BY <3>1, <1>7
    <3>3. \A q \in 1 .. 6 :
             bought'[m] = PreProcessors[q].lock /\ (Len(Entry) = 2 <=> q <= 4)
               => d = Plain(PreProcessors[q].case)
      BY <1>1 DEF RightText
    <3>4. Len(Entry) # 2 /\ bought'[m] \in {"COmpact RFID", "Compact RFID"} => d = Plain(bought'[m])
      BY <1>1 DEF RightText
    <3> QED
      BY <3>1, <3>2, <3>3, <3>4 DEF Stands, RightText
  <2>2. CASE k # n
    <3>1. k \in 1 .. Len(pre) /\ k \in 1 .. Len(approved)
      BY <1>2, <2>2 DEF n
    <3>2. Stands(pre[k][1], approved[k]) /\ pre'[k] = pre[k] /\ approved' = approved
      BY <3>1, <1>1, <1>5 DEF IInv, Processed
    <3>3. heap'[pre[k][1]] = heap[pre[k][1]]
      BY <3>1, <3>2, <2>2, <1>6 DEF Stands
    <3> QED
      BY <1>1, <3>2, <3>3 DEF Stands, RightText
  <2> QED
    BY <2>1, <2>2
<1>12. OrdersRight'
  <2>1. Len(orders') = 0 /\ next' = 1 /\ issued' = {}
    BY <1>1, <1>4
  <2> QED
    BY <2>1 DEF OrdersRight
<1> QED
  BY <1>8, <1>9, <1>10, <1>11, <1>12 DEF IInv

LEMMA CasesAreTexts ==
  \A k \in 1 .. 6 : PreProcessors[k].case \in Text /\ Plain(PreProcessors[k].case) \in Description
  BY DEF Text, Plain, Description

\* The mutation of a pair: the prices of both are what the group was settled for.
LEMMA AbsorbAddsUp ==
  ASSUME IInv, NEW e \in Group, Len(e) = 2, Fresh(e[1]), Fresh(e[2]),
         NEW m, NEW other, {m, other} = {e[1], e[2]}, m # other, NEW d,
         heap' = Absorb(m, other, d)
  PROVE  heap' = [heap EXCEPT ![m] = [description |-> d, amount |-> SumOf(Price, Members(e))]]
<1>1. /\ SumOf(Price, Members(e)) = Price[e[1]] + Price[e[2]]
      /\ heap[e[1]].amount = Price[e[1]] /\ heap[e[2]].amount = Price[e[2]]
  BY SumsOfGroups DEF Fresh
<1>2. Price[e[1]] \in Nat /\ Price[e[2]] \in Nat
  BY GroupFacts, OrderBuildAssumption
<1>3. heap[m].amount + heap[other].amount = SumOf(Price, Members(e))
  <2>1. (m = e[1] /\ other = e[2]) \/ (m = e[2] /\ other = e[1])
    OBVIOUS
  <2> QED
    BY <1>1, <1>2, <2>1
<1> QED
  BY <1>3 DEF Absorb

LEMMA CombinedLockStep ==
  ASSUME IInv, CombinedLock
  PROVE  IInv'
<1>1. PICK p \in Range(Chosen(Entry)) :
        /\ p.pair /\ p # GeneralCombinedPreProcessor
        /\ LET HasLock(t) == Includes(heap[t].description, p.lock)
               main == First(Entry, HasLock) IN
           /\ Preprocess(<<main>>)
           /\ heap' = Absorb(main, Other(Entry, main), [heap[main].description EXCEPT !.text = p.case])
  BY DEF CombinedLock
<1> DEFINE e == Entry
           HasLock(t) == Includes(heap[t].description, p.lock)
           main == First(e, HasLock)
<1>2. IsLeft /\ pc = "pre"
  BY <1>1 DEF CombinedLock, Preprocess
<1>3. /\ e \in Group /\ Fresh(e[1]) /\ bought[e[1]] \in Shop
      /\ Len(e) = 2 => Fresh(e[2]) /\ bought[e[2]] \in Addon
  BY <1>2, Turn
<1>4. Len(e) = 2
  <2> SUFFICES ASSUME Len(e) = 1 PROVE FALSE
    BY <1>3, GroupFacts
  <2>1. CASE Chosen(e) = <<>>
    BY <1>1, <2>1 DEF Range
  <2>2. ASSUME NEW k \in {5, 6}, Chosen(e) = <<PreProcessors[k]>> PROVE FALSE
    <3>1. p = PreProcessors[k]
      BY <1>1, <2>2 DEF Range
    <3> QED
      BY <1>1, <3>1, Processors, ProcessorLocks
  <2> QED
    BY <1>3, <2>1, <2>2, SingleChosen
<1>5. PICK k \in {1, 2, 3, 4, 7} :
           /\ Chosen(e) = <<PreProcessors[k]>>
           /\ k # 7 => Holds(bought[e[1]], PreProcessors[k].lock)
           /\ \A q \in {1, 2, 3, 4} : bought[e[1]] = PreProcessors[q].lock => k = q
  BY <1>3, <1>4, PairChosen
<1>6. p = PreProcessors[k] /\ k \in {1, 2, 3, 4}
  <2>1. p = PreProcessors[k]
    BY <1>1, <1>5 DEF Range
  <2> QED
    BY <1>1, <2>1, Processors
<1>7. HasLock(e[1])
  BY <1>3, <1>5, <1>6, PlainIncludes DEF Fresh
<1>8. DOMAIN e = {1, 2} /\ Members(e) = {e[1], e[2]} /\ e[1] # e[2] /\ e[1] \in Txn
  BY <1>3, <1>4, GroupFacts
<1>9. main = e[1]
  <2> DEFINE i == CHOOSE i \in DOMAIN e : HasLock(e[i]) /\ \A j \in 1 .. i - 1 : ~HasLock(e[j])
  <2>1. HasLock(e[1]) /\ \A j \in 1 .. 1 - 1 : ~HasLock(e[j])
    BY <1>7
  <2>2. i \in {1, 2} /\ \A j \in 1 .. i - 1 : ~HasLock(e[j])
    BY <2>1, <1>8
  <2>3. i # 2
    BY <2>2, <1>7
  <2> QED
    BY <2>2, <2>3 DEF First
<1>10. Other(e, e[1]) = e[2]
  BY DEF Other
<1> DEFINE d == Plain(PreProcessors[k].case)
<1>11. [heap[e[1]].description EXCEPT !.text = p.case] = d
  BY <1>3, <1>6 DEF Fresh, Plain
<1>12. Preprocess(<<e[1]>>) /\ heap' = Absorb(e[1], e[2], d)
  BY <1>1, <1>9, <1>10, <1>11
<1>13. d \in Description
  BY <1>6, CasesAreTexts
<1>14. RightText(e[1], e, d)
  BY <1>4, <1>5 DEF RightText
<1> HIDE DEF d, main, HasLock
<1>15. PICK m, u : m = e[1] /\ u = e[2]
  OBVIOUS
<1>16. heap' = Absorb(m, u, d) /\ {m, u} = {e[1], e[2]} /\ m # u
  BY <1>8, <1>12, <1>15
<1>17. heap' = [heap EXCEPT ![m] = [description |-> d, amount |-> SumOf(Price, Members(e))]]
  BY <1>3, <1>4, <1>16, AbsorbAddsUp
<1> QED
  BY <1>2, <1>8, <1>12, <1>13, <1>14, <1>15, <1>17, PreStep

LEMMA CombinedStep ==
  ASSUME IInv, Combined
  PROVE  IInv'
<1> DEFINE e == Entry
           IsUpgrade(t) == IncludesAddon(heap[t].description)
           upgrade == First(e, IsUpgrade)
           main == Other(e, upgrade)
           desc == GenerateCombinedDescription(heap[main].description, heap[upgrade].description)
<1>1. /\ IsLeft /\ pc = "pre" /\ Chosen(e) = <<GeneralCombinedPreProcessor>>
      /\ Preprocess(<<main>>) /\ heap' = Absorb(main, upgrade, desc)
  BY DEF Combined, Preprocess
<1>2. /\ e \in Group /\ Fresh(e[1]) /\ bought[e[1]] \in Shop
      /\ Len(e) = 2 => Fresh(e[2]) /\ bought[e[2]] \in Addon
  BY <1>1, Turn
<1>3. \A p : Chosen(e) = <<p>> => p = GeneralCombinedPreProcessor
  BY <1>1
<1>4. Len(e) = 2
  <2> SUFFICES ASSUME Len(e) = 1 PROVE FALSE
    BY <1>2, GroupFacts
  <2>1. Chosen(e) # <<>>
    BY <1>1
  <2> QED
    BY <2>1, <1>2, <1>3, SingleChosen, GeneralIsLast
<1>5. \A q \in {1, 2, 3, 4} : bought[e[1]] # PreProcessors[q].lock
  BY <1>2, <1>3, <1>4, PairChosen, GeneralIsLast
<1>6. DOMAIN e = {1, 2} /\ Members(e) = {e[1], e[2]} /\ e[1] # e[2]
  BY <1>2, <1>4, GroupFacts
<1>7. IsUpgrade(e[2])
  <2>1. heap[e[2]].description = Plain(bought[e[2]])
    BY <1>2, <1>4 DEF Fresh
  <2>2. Includes(heap[e[2]].description, bought[e[2]])
    <3>1. \A x : Holds(x, x)
      BY DEF Holds
    <3>2. Includes(Plain(bought[e[2]]), bought[e[2]])
      BY <3>1, PlainIncludes
    <3> QED
      BY <2>1, <3>2
  <2> QED
    BY <2>2, <1>2, <1>4 DEF IncludesAddon
<1>8. upgrade \in {e[1], e[2]}
  <2> DEFINE i == CHOOSE i \in DOMAIN e : IsUpgrade(e[i]) /\ \A j \in 1 .. i - 1 : ~IsUpgrade(e[j])
  <2>1. CASE IsUpgrade(e[1])
    <3>1. IsUpgrade(e[1]) /\ \A j \in 1 .. 1 - 1 : ~IsUpgrade(e[j])
      BY <2>1
    <3> QED
      BY <3>1, <1>6 DEF First
  <2>2. CASE ~IsUpgrade(e[1])
    <3>1. IsUpgrade(e[2]) /\ \A j \in 1 .. 2 - 1 : ~IsUpgrade(e[j])
      BY <2>2, <1>7
    <3> QED
      BY <3>1, <1>6 DEF First
  <2> QED
    BY <2>1, <2>2
<1> HIDE DEF upgrade
<1>9. main \in {e[1], e[2]} /\ {main, upgrade} = {e[1], e[2]} /\ main # upgrade
  BY <1>6, <1>8 DEF Other
<1> HIDE DEF main
<1>10. PICK m : m = main
  OBVIOUS
<1>11. m \in Members(e) /\ Fresh(m) /\ Fresh(upgrade) /\ bought[upgrade] \in Shop
  BY <1>2, <1>4, <1>6, <1>8, <1>9, <1>10 DEF Shop
<1>12. PICK d : d = desc
  OBVIOUS
<1>13. d = [text |-> bought[m], addon |-> bought[upgrade]]
  BY <1>10, <1>11, <1>12 DEF GenerateCombinedDescription, Fresh, Plain
<1>14. d \in Description
  <2>1. bought[m] \in Shop
    BY <1>2, <1>4, <1>9, <1>10 DEF Shop
  <2> QED
    BY <2>1, <1>11, <1>13 DEF Description, Text
<1>15. RightText(m, e, d)
  <2>1. \A q \in {1, 2, 3, 4} : PreProcessors[q].lock \notin Addon
    BY Processors, ProcessorLocks DEF Addon
  <2>2. \A q \in {1, 2, 3, 4} : bought[m] # PreProcessors[q].lock
    BY <2>1, <1>2, <1>4, <1>5, <1>9, <1>10
  <2> QED
    BY <1>4, <2>2 DEF RightText
<1>16. Preprocess(<<m>>) /\ heap' = Absorb(m, upgrade, d)
  BY <1>1, <1>10, <1>12
<1>17. PICK u : u = upgrade
  OBVIOUS
<1> HIDE DEF desc
<1>18. heap' = [heap EXCEPT ![m] = [description |-> d, amount |-> SumOf(Price, Members(e))]]
  BY <1>2, <1>4, <1>9, <1>10, <1>16, <1>17, AbsorbAddsUp
<1> QED
  BY <1>1, <1>11, <1>14, <1>15, <1>16, <1>18, PreStep

\* A result that is the entry itself: it has one transaction.
LEMMA SoloLockStep ==
  ASSUME IInv, SoloLock
  PROVE  IInv'
<1> DEFINE e == Entry
<1>1. PICK p \in Range(Chosen(e)) :
        ~p.pair /\ Preprocess(e) /\ heap' = [heap EXCEPT ![e[1]].description.text = p.case]
  BY DEF SoloLock
<1>2. IsLeft /\ pc = "pre"
  BY <1>1 DEF SoloLock, Preprocess
<1>3. /\ e \in Group /\ Fresh(e[1]) /\ bought[e[1]] \in Shop
      /\ Len(e) = 2 => Fresh(e[2]) /\ bought[e[2]] \in Addon
  BY <1>2, Turn
<1>4. Len(e) = 1
  <2> SUFFICES ASSUME Len(e) = 2 PROVE FALSE
    BY <1>3, GroupFacts
  <2>1. PICK k \in {1, 2, 3, 4, 7} : Chosen(e) = <<PreProcessors[k]>>
    BY <1>3, PairChosen
  <2>2. p = PreProcessors[k]
    BY <1>1, <2>1 DEF Range
  <2> QED
    BY <1>1, <2>2, Processors, ProcessorLocks
<1>5. Chosen(e) # <<>>
  BY <1>1 DEF Range
<1>6. PICK k \in {5, 6} : Chosen(e) = <<PreProcessors[k]>> /\ bought[e[1]] = PreProcessors[k].lock
  BY <1>3, <1>4, <1>5, SingleChosen
<1>7. p = PreProcessors[k]
  BY <1>1, <1>6 DEF Range
<1>8. e \in Seq(Txn) /\ Members(e) = {e[1]} /\ e[1] \in Txn
  BY <1>3, <1>4, GroupFacts
<1>9. e = <<e[1]>>
  BY <1>4, <1>8
<1> DEFINE d == Plain(PreProcessors[k].case)
<1>10. heap[e[1]] = [description |-> Plain(bought[e[1]]), amount |-> SumOf(Price, Members(e))]
  BY <1>3, <1>4, SumsOfGroups DEF Fresh
<1>11. heap' = [heap EXCEPT ![e[1]] = [description |-> d, amount |-> SumOf(Price, Members(e))]]
  <2>1. [heap[e[1]] EXCEPT !.description.text = p.case]
           = [description |-> d, amount |-> SumOf(Price, Members(e))]
    BY <1>7, <1>10 DEF Plain
  <2>2. heap' = [heap EXCEPT ![e[1]] = [heap[e[1]] EXCEPT !.description.text = p.case]]
    BY <1>1
  <2> QED
    BY <2>1, <2>2
<1>12. d \in Description
  BY CasesAreTexts
<1>13. RightText(e[1], e, d)
  <2>1. \A q \in 1 .. 6 : q <= 4 \/ q \in {5, 6}
    OBVIOUS
  <2>2. PreProcessors[5].lock # PreProcessors[6].lock
    BY Processors, ProcessorLocks
  <2>3. PreProcessors[k].lock \notin {"COmpact RFID", "Compact RFID"}
    BY Processors, ProcessorLocks
  <2>4. \A q \in 1 .. 6 :
           bought[e[1]] = PreProcessors[q].lock /\ (Len(e) = 2 <=> q <= 4)
               => d = Plain(PreProcessors[q].case)
    BY <1>4, <1>6, <2>1, <2>2
  <2> QED
    BY <1>6, <2>3, <2>4 DEF RightText
<1>14. PICK m : m = e[1]
  OBVIOUS
<1>15. Preprocess(<<m>>)
  BY <1>1, <1>9, <1>14
<1> HIDE DEF d
<1> QED
  BY <1>2, <1>8, <1>11, <1>12, <1>13, <1>14, <1>15, PreStep

LEMMA UntouchedStep ==
  ASSUME IInv, Untouched
  PROVE  IInv'
<1> DEFINE e == Entry
<1>1. IsLeft /\ pc = "pre" /\ Chosen(e) = <<>> /\ Preprocess(e) /\ heap' = heap
  BY DEF Untouched, Preprocess
<1>none. \A p : Chosen(e) # <<p>>
  BY <1>1
<1>2. /\ e \in Group /\ Fresh(e[1]) /\ bought[e[1]] \in Shop
      /\ Len(e) = 2 => Fresh(e[2]) /\ bought[e[2]] \in Addon
  BY <1>1, Turn
<1>3. Len(e) = 1
  BY <1>2, <1>none, GroupFacts, PairChosen
<1>4. bought[e[1]] \notin {"elite", "elite fingerprint"}
  BY <1>none, <1>2, <1>3, SingleChosen
<1>5. e \in Seq(Txn) /\ Members(e) = {e[1]} /\ e[1] \in Txn
  BY <1>2, <1>3, GroupFacts
<1>6. e = <<e[1]>>
  BY <1>3, <1>5
<1>7. heap[e[1]] = [description |-> Plain(bought[e[1]]), amount |-> SumOf(Price, Members(e))]
  BY <1>2, <1>3, SumsOfGroups DEF Fresh
<1>8. PICK m, d : m = e[1] /\ d = Plain(bought[e[1]])
  OBVIOUS
<1>9. heap' = [heap EXCEPT ![m] = [description |-> d, amount |-> SumOf(Price, Members(e))]]
  BY <1>1, <1>5, <1>7, <1>8 DEF IInv, TypeOK
<1>10. d \in Description
  BY <1>2, <1>8 DEF Plain, Description, Text
<1>11. RightText(m, e, d)
  <2>1. \A q \in 1 .. 6 : q <= 4 \/ q \in {5, 6}
    OBVIOUS
  <2>2. \A q \in {5, 6} : PreProcessors[q].lock \in {"elite", "elite fingerprint"}
    BY Processors, ProcessorLocks
  <2>3. \A q \in {5, 6} : bought[m] # PreProcessors[q].lock
    BY <2>2, <1>4, <1>8
  <2>4. \A q \in 1 .. 6 : ~(bought[m] = PreProcessors[q].lock /\ (Len(e) = 2 <=> q <= 4))
    BY <1>3, <2>1, <2>3
  <2> QED
    BY <1>8, <2>4 DEF RightText
<1>12. Preprocess(<<m>>)
  BY <1>1, <1>6, <1>8
<1> QED
  BY <1>1, <1>5, <1>8, <1>9, <1>10, <1>11, <1>12, PreStep

LEMMA PreProcessedStep ==
  ASSUME IInv, PreProcessed
  PROVE  IInv'
<1>1. /\ UNCHANGED <<bought, settled, table, heap, approved, pre, next, orders, issued>>
      /\ pc = "pre" /\ pc' = "transform" /\ Len(pre) = Len(approved)
  BY DEF PreProcessed
<1>2. TypeOK'
  BY <1>1 DEF IInv, TypeOK
<1>3. PcRight'
  BY <1>1 DEF IInv, PcRight, Kept, IsApproved
<1>4. Waiting' /\ Processed' /\ OrdersRight'
  BY <1>1, SameMade DEF IInv, Waiting, Fresh, Processed, Stands, RightText, OrdersRight
<1> QED
  BY <1>2, <1>3, <1>4 DEF IInv

-----------------------------------------------------------------------------
(* The orders.                                                             *)

LEMMA Products ==
  ASSUME NEW d, table \in Tables
  PROVE  MatchProduct(d) \in Matching(d) \cup {NoProduct}
<1>1. CASE Matching(d) = {}
  BY <1>1 DEF MatchProduct
<1>2. CASE Matching(d) # {}
  <2> DEFINE M == Matching(d)
             L == {Length[x] : x \in M}
  <2>1. M \subseteq Text
    BY TablesAssumption DEF Matching
  <2>2. \A x \in Text : Length[x] \in {8, 10, 11, 12, 13, 14, 15, 27, 28, 29, 37, 49}
    BY DEF Length
  <2>3. L \subseteq {8, 10, 11, 12, 13, 14, 15, 27, 28, 29, 37, 49} /\ L # {}
    BY <1>2, <2>1, <2>2
  <2>4. L \subseteq 0 .. 49 /\ IsFiniteSet(0 .. 49)
    <3>1. {8, 10, 11, 12, 13, 14, 15, 27, 28, 29, 37, 49} \subseteq 0 .. 49
      OBVIOUS
    <3>2. IsFiniteSet(0 .. 49)
      <4>1. PICK a \in Int, b \in Int : a = 0 /\ b = 49
        OBVIOUS
      <4>2. IsFiniteSet(a .. b)
        BY FS_Interval
      <4> QED
        BY <4>1, <4>2
    <3> HIDE DEF L
    <3> QED
      BY <2>3, <3>1, <3>2
  <2> HIDE DEF M
  <2>5. IsFiniteSet(L) /\ L \in SUBSET Int
    <3>1. 0 .. 49 \subseteq Int
      OBVIOUS
    <3> HIDE DEF L
    <3>2. IsFiniteSet(L)
      BY <2>4, FS_Subset
    <3> QED
      BY <2>4, <3>1, <3>2
  <2>6. Max(L) \in L /\ \A y \in L : Max(L) >= y
    <3> HIDE DEF L
    <3> QED
      BY <2>3, <2>5, MaxIsIn
  <2>7. PICK x \in M : Length[x] = Max(L)
    BY <2>6
  <2>8. \A y \in M : Length[y] <= Length[x]
    <3>1. \A y \in M : Length[y] \in L
      OBVIOUS
    <3>2. L \subseteq Int
      BY <2>5
    <3> HIDE DEF L
    <3> QED
      BY <2>6, <2>7, <3>1, <3>2
  <2>9. (CHOOSE z \in M : \A y \in M : Length[y] <= Length[z]) \in M
    BY <2>8
  <2> QED
    BY <1>2, <2>1, <2>9 DEF MatchProduct, M
<1> QED
  BY <1>1, <1>2

\* Neither a case that a pre-processor writes nor a RFID lock holds the name of a lock of
\* another kind.
LEMMA CasesHold ==
  ASSUME NEW x \in Case \cup {"COmpact RFID", "Compact RFID"}, NEW y, Holds(x, y)
  PROVE  Model(y) \in {Model(x), "-"}
<1>1. y \in {x, "TT Patriot", "Patriot 35S"}
  BY DEF Holds, Case, Lock
<1>2. Model("TT Patriot") = "-" /\ Model("Patriot 35S") = "-"
  BY DEF Model
<1> QED
  BY <1>1, <1>2

\* What each pre-processor writes is a case of the kind of lock that it looks for.
LEMMA CaseOfLock ==
  \A q \in {1, 2, 3, 4, 5, 6} :
      PreProcessors[q].case \in Case /\ Model(PreProcessors[q].case) = Model(PreProcessors[q].lock)
<1>1. /\ Model("COmpact RFID") = "RFID" /\ Model("Compact RFID") = "RFID"
      /\ Model("UP Pistol RFID") = "RFID"
      /\ Model("elite") = "BT" /\ Model("UP Pistol BT") = "BT" /\ Model("35s Compact (BT)") = "BT"
      /\ Model("elite fingerprint") = "BIO" /\ Model("UP Pistol BIO") = "BIO"
      /\ Model("35s Compact (BIO)") = "BIO"
  BY DEF Model
<1> SUFFICES ASSUME NEW q \in {1, 2, 3, 4, 5, 6}
             PROVE  /\ PreProcessors[q].case \in Case
                    /\ Model(PreProcessors[q].case) = Model(PreProcessors[q].lock)
  OBVIOUS
<1>2. CASE q = 1
  BY <1>1, <1>2, Processors, ProcessorLocks DEF Case
<1>3. CASE q = 2
  BY <1>1, <1>3, Processors, ProcessorLocks DEF Case
<1>4. CASE q = 3
  BY <1>1, <1>4, Processors, ProcessorLocks DEF Case
<1>5. CASE q = 4
  BY <1>1, <1>5, Processors, ProcessorLocks DEF Case
<1>6. CASE q = 5
  BY <1>1, <1>6, Processors, ProcessorLocks DEF Case
<1>7. CASE q = 6
  BY <1>1, <1>7, Processors, ProcessorLocks DEF Case
<1> QED
  BY <1>2, <1>3, <1>4, <1>5, <1>6, <1>7

\* The item of the one transaction of a result.
LEMMA AmountOfOne ==
  ASSUME NEW t \in Txn, heap[t].amount \in Int
  PROVE  TransformedAmount(<<t>>) = heap[t].amount
<1> DEFINE r == <<t>>
           S == Members(r)
           f == [x \in S |-> heap[x].amount]
<1>1. S = {t}
  BY DEF Members, Range
<1>2. IsFiniteSet(S) /\ \A x \in S : f[x] \in Int
  BY <1>1, FS_Singleton
<1>3. PICK g : IsSum(g, S, f)
  <2> HIDE DEF f, S
  <2> QED
    BY <1>2, SumExists
<1> HIDE DEF r
<1>4. g = [s \in SUBSET S |-> IF s = {} THEN 0
                              ELSE g[s \ {CHOOSE x \in s : TRUE}] + heap[CHOOSE x \in s : TRUE].amount]
  BY <1>3 DEF IsSum
<1>5. PICK h : /\ h = [s \in SUBSET S |->
                         IF s = {} THEN 0
                         ELSE h[s \ {CHOOSE x \in s : TRUE}] + heap[CHOOSE x \in s : TRUE].amount]
               /\ TransformedAmount(r) = h[S]
  BY <1>4 DEF TransformedAmount, FoldSet, MapThenFoldSet
<1> HIDE DEF S
<1>6. h[{}] = 0 /\ (CHOOSE x \in S : TRUE) = t /\ S \ {t} = {} /\ S # {}
  BY <1>1, <1>5
<1>7. h[S] = h[{}] + heap[t].amount
  BY <1>5, <1>6
<1> QED
  BY <1>5, <1>6, <1>7 DEF r

\* Each approved group is told by any of its transactions.
LEMMA ApprovedApart ==
  ASSUME Kept(approved, Len(Groups)), NEW k \in 1 .. Len(approved), NEW l \in 1 .. Len(approved),
         NEW t \in Members(approved[k]), t \in Members(approved[l])
  PROVE  k = l
<1>1. approved[k] \in Group /\ approved[l] \in Group
  BY DEF Kept
<1> QED
  BY <1>1, OneGroup DEF Kept

LEMMA OriginalIs ==
  ASSUME Kept(approved, Len(Groups)), NEW k \in 1 .. Len(approved), NEW r,
         r[1] \in Members(approved[k])
  PROVE  Original(r) = Members(approved[k])
<1> DEFINE P(i) == /\ r[1] \in Members(approved[i])
                   /\ \A j \in 1 .. i - 1 : ~(r[1] \in Members(approved[j]))
<1>1. DOMAIN approved = 1 .. Len(approved) /\ Len(approved) \in Nat
  BY DEF Kept
<1>2. P(k)
  <2>1. \A j \in 1 .. k - 1 : j \in 1 .. Len(approved) /\ j # k
    BY <1>1
  <2> QED
    BY <2>1, ApprovedApart
<1>3. (CHOOSE i \in DOMAIN approved : P(i)) \in DOMAIN approved /\ P(CHOOSE i \in DOMAIN approved : P(i))
  BY <1>1, <1>2
<1>4. \A i \in DOMAIN approved : P(i) => i = k
  BY <1>1, ApprovedApart
<1>5. (CHOOSE i \in DOMAIN approved : P(i)) = k
  BY <1>3, <1>4
<1> QED
  BY <1>5 DEF Original, First

\* What is known when a result becomes an order or an issue.
LEMMA Result ==
  ASSUME IInv, pc = "transform", next <= Len(pre)
  PROVE  LET r == pre[next]  e == approved[next]  o == Transformed(r) IN
         /\ next \in 1 .. Len(approved) /\ Len(pre) = Len(approved) /\ e \in Group
         /\ Kept(approved, Len(Groups))
         /\ r[1] \in Txn /\ r[1] \in Members(e) /\ Members(e) \subseteq Txn
         /\ o \in Order /\ Made(o, next)
<1> DEFINE r == pre[next]
           e == approved[next]
           o == Transformed(r)
<1>1. /\ Kept(approved, Len(Groups)) /\ Len(pre) = Len(approved) /\ Len(approved) \in Nat
      /\ next \in 1 .. Len(approved) /\ r \in {<<t>> : t \in Txn} /\ e \in Group
  BY DEF IInv, TypeOK, PcRight
<1>2. PICK t \in Txn : r = <<t>>
  BY <1>1
<1>3. r[1] = t
  BY <1>2
<1>4. Stands(t, e)
  BY <1>1, <1>3 DEF IInv, Processed
<1>5. t \in Members(e) /\ Members(e) \subseteq Txn
  BY <1>1, <1>4, GroupFacts DEF Stands
<1>6. SumOf(Price, Members(e)) \in Nat
  BY <1>1, SumsOfGroups
<1>7. TransformedAmount(r) = SumOf(Price, Members(e))
  BY <1>2, <1>4, <1>6, AmountOfOne DEF Stands
<1>8. Original(r) = Members(e)
  BY <1>1, <1>3, <1>5, OriginalIs
<1>9. o = [group |-> Members(e), number |-> t, name |-> TextOf(heap[t].description),
           product |-> MatchProduct(heap[t].description),
           amount |-> SumOf(Price, Members(e))]
  BY <1>3, <1>7, <1>8 DEF Transformed, TextOf
<1>10. o \in Order
  <2>1. TextOf(heap[t].description) \in Text /\ table \in Tables
    BY DEF IInv, TypeOK, Description, TextOf
  <2>2. MatchProduct(heap[t].description) \in Text \cup {NoProduct}
    BY <2>1, Products, TablesAssumption DEF Matching
  <2> QED
    BY <1>5, <1>6, <1>9, <2>1, <2>2 DEF Order
<1>11. Made(o, next)
  BY <1>3, <1>9 DEF Made
<1> QED
  BY <1>1, <1>3, <1>5, <1>10, <1>11

LEMMA TransformStep ==
  ASSUME IInv, Transform
  PROVE  IInv'
<1>1. PICK o : o = Transformed(pre[next])
  OBVIOUS
<1>2. PICK n : n = next
  OBVIOUS
<1> DEFINE G(k) == Members(approved[k])
<1>3. /\ pc = "transform" /\ next <= Len(pre) /\ next' = next + 1
      /\ UNCHANGED <<bought, settled, table, heap, approved, pre, pc>>
      /\ IF o.product # NoProduct THEN orders' = Append(orders, o) /\ UNCHANGED issued
         ELSE issued' = issued \cup o.group /\ UNCHANGED orders
  BY <1>1 DEF Transform
<1>4. /\ n \in 1 .. Len(approved) /\ Len(pre) = Len(approved) /\ approved[n] \in Group
      /\ Kept(approved, Len(Groups)) /\ G(n) \subseteq Txn /\ G(n) # {}
      /\ o \in Order /\ Made(o, n)
  BY <1>1, <1>2, <1>3, Result
<1>5. Len(approved) \in Nat /\ next = n /\ n \in Nat /\ orders \in Seq(Order) /\ Len(orders) \in Nat
  BY <1>2, <1>4 DEF IInv, TypeOK
<1>6. 1 .. next' - 1 = (1 .. n - 1) \cup {n} /\ 1 .. n - 1 \subseteq 1 .. Len(approved)
  BY <1>3, <1>4, <1>5
<1>7. \A k \in 1 .. n - 1 : k # n /\ G(k) \cap G(n) = {} /\ G(k) # {}
  <2> SUFFICES ASSUME NEW k \in 1 .. n - 1 PROVE k # n /\ G(k) \cap G(n) = {} /\ G(k) # {}
    OBVIOUS
  <2>1. k # n /\ k \in 1 .. Len(approved) /\ approved[k] \in Group
    BY <1>4, <1>5, <1>6 DEF Kept
  <2>2. G(k) # {}
    BY <2>1, GroupFacts
  <2> QED
    BY <2>1, <2>2, <1>4, ApprovedApart
<1>8. o.group = G(n)
  BY <1>4 DEF Made
<1>9. /\ \A j \in 1 .. Len(orders) : \E k \in 1 .. n - 1 : Made(orders[j], k)
      /\ \A i, j \in 1 .. Len(orders) : orders[i].group = orders[j].group => i = j
      /\ \A t \in issued : \E k \in 1 .. n - 1 : t \in G(k)
      /\ \A k \in 1 .. n - 1 :
           (\E j \in 1 .. Len(orders) : orders[j].group = G(k)) <=> ~(G(k) \subseteq issued)
  BY <1>5 DEF IInv, OrdersRight
<1>10. \A j \in 1 .. Len(orders) : orders[j].group # G(n)
  BY <1>7, <1>9 DEF Made
<1>11. \A t \in issued : t \notin G(n)
  BY <1>7, <1>9
<1>12. TypeOK' /\ PcRight' /\ Waiting' /\ Processed'
  <2>1. next' \in 1 .. Len(pre') + 1 /\ issued' \subseteq Txn /\ orders' \in Seq(Order)
    <3>1. CASE o.product # NoProduct
      <4>1. Append(orders, o) \in Seq(Order)
        BY <1>4, <1>5
      <4>2. next' \in 1 .. Len(pre') + 1
        BY <1>3, <1>4, <1>5
      <4> QED
        BY <3>1, <4>1, <4>2, <1>3 DEF IInv, TypeOK
    <3>2. CASE o.product = NoProduct
      BY <3>2, <1>3, <1>4, <1>5, <1>8 DEF IInv, TypeOK
    <3> QED
      BY <3>1, <3>2
  <2>2. TypeOK'
    BY <2>1, <1>3 DEF IInv, TypeOK
  <2>3. PcRight'
    BY <1>3, <1>4 DEF IInv, PcRight, Kept, IsApproved
  <2>4. Waiting' /\ Processed'
    BY <1>3 DEF IInv, Waiting, Fresh, Processed, Stands, RightText
  <2> QED
    BY <2>2, <2>3, <2>4
<1>13. \A x, k : Made(x, k)' <=> Made(x, k)
  BY <1>3, SameMade
<1>14. approved' = approved
  BY <1>3
<1> HIDE DEF G
<1>15. ASSUME orders' = Append(orders, o), issued' = issued
       PROVE  OrdersRight'
  <2>1. /\ Len(orders') = Len(orders) + 1 /\ orders'[Len(orders) + 1] = o
        /\ \A j \in 1 .. Len(orders) : orders'[j] = orders[j]
    BY <1>4, <1>5, <1>15
  <2>2. 1 .. Len(orders') = (1 .. Len(orders)) \cup {Len(orders) + 1}
    BY <2>1, <1>5
  <2>3. \A j \in 1 .. Len(orders') : \E k \in 1 .. next' - 1 : Made(orders'[j], k)
    BY <2>1, <2>2, <1>4, <1>6, <1>9
  <2>4. \A i, j \in 1 .. Len(orders') : orders'[i].group = orders'[j].group => i = j
    BY <2>1, <2>2, <1>8, <1>9, <1>10
  <2>5. \A t \in issued' : \E k \in 1 .. next' - 1 : t \in G(k)
    BY <1>6, <1>9, <1>15
  <2>6. ASSUME NEW k \in 1 .. next' - 1
        PROVE  (\E j \in 1 .. Len(orders') : orders'[j].group = G(k)) <=> ~(G(k) \subseteq issued')
    <3>1. CASE k = n
      BY <3>1, <2>1, <2>2, <1>4, <1>8, <1>11, <1>15
    <3>2. CASE k # n
      <4>1. k \in 1 .. n - 1 /\ o.group # G(k)
        BY <3>2, <1>6, <1>7, <1>8
      <4> QED
        BY <4>1, <2>1, <2>2, <1>9, <1>15
    <3> QED
      BY <3>1, <3>2
  <2> QED
    BY <2>3, <2>4, <2>5, <2>6, <1>13, <1>14 DEF OrdersRight, G
<1>16. ASSUME orders' = orders, issued' = issued \cup G(n)
       PROVE  OrdersRight'
  <2>1. \A j \in 1 .. Len(orders') : \E k \in 1 .. next' - 1 : Made(orders'[j], k)
    BY <1>6, <1>9, <1>16
  <2>2. \A i, j \in 1 .. Len(orders') : orders'[i].group = orders'[j].group => i = j
    BY <1>9, <1>16
  <2>3. \A t \in issued' : \E k \in 1 .. next' - 1 : t \in G(k)
    BY <1>6, <1>9, <1>16
  <2>4. ASSUME NEW k \in 1 .. next' - 1
        PROVE  (\E j \in 1 .. Len(orders') : orders'[j].group = G(k)) <=> ~(G(k) \subseteq issued')
    <3>1. CASE k = n
      BY <3>1, <1>10, <1>16
    <3>2. CASE k # n
      <4>1. k \in 1 .. n - 1 /\ G(k) \cap G(n) = {}
        BY <3>2, <1>6, <1>7
      <4>2. G(k) \subseteq issued' <=> G(k) \subseteq issued
        BY <4>1, <1>16
      <4> QED
        BY <4>1, <4>2, <1>9, <1>16
    <3> QED
      BY <3>1, <3>2
  <2> QED
    BY <2>1, <2>2, <2>3, <2>4, <1>13, <1>14 DEF OrdersRight, G
<1>17. OrdersRight'
  BY <1>3, <1>8, <1>15, <1>16
<1> QED
  BY <1>12, <1>17 DEF IInv

LEMMA DoneStep ==
  ASSUME IInv, Done
  PROVE  IInv'
<1>1. /\ UNCHANGED <<bought, settled, table, heap, approved, pre, next, orders, issued>>
      /\ pc = "transform" /\ pc' = "done" /\ next > Len(pre)
  BY DEF Done
<1>2. TypeOK'
  BY <1>1 DEF IInv, TypeOK
<1>3. PcRight'
  <2>1. next = Len(pre) + 1
    BY <1>1 DEF IInv, TypeOK
  <2> QED
    BY <1>1, <2>1 DEF IInv, PcRight, Kept, IsApproved
<1>4. Waiting' /\ Processed' /\ OrdersRight'
  BY <1>1, SameMade DEF IInv, Waiting, Fresh, Processed, Stands, RightText, OrdersRight
<1> QED
  BY <1>2, <1>3, <1>4 DEF IInv

LEMMA NextIInv == IInv /\ [Next]_vars => IInv'
<1> SUFFICES ASSUME IInv, [Next]_vars PROVE IInv'
  OBVIOUS
<1>1. CASE UNCHANGED vars
  <2>1. UNCHANGED <<bought, settled, table, heap, approved, pre, next, orders, issued, pc>>
    BY <1>1 DEF vars
  <2>2. TypeOK'
    BY <2>1 DEF IInv, TypeOK
  <2>5. PcRight'
    <3>1. Kept(approved, Len(Groups))' <=> Kept(approved, Len(Groups))
      BY <2>1 DEF Kept, IsApproved
    <3>2. \A t : Fresh(t)' <=> Fresh(t)
      BY <2>1 DEF Fresh
    <3> QED
      BY <2>1, <3>1, <3>2 DEF IInv, PcRight
  <2>3. Waiting' /\ Processed'
    BY <2>1 DEF IInv, Waiting, Fresh, Processed, Stands, RightText
  <2>4. OrdersRight'
    BY <2>1, SameMade DEF IInv, OrdersRight
  <2> QED
    BY <2>2, <2>3, <2>4, <2>5 DEF IInv
<1> QED
  BY <1>1, FilterStep, CombinedLockStep, SoloLockStep, CombinedStep, UntouchedStep,
     PreProcessedStep, TransformStep, DoneStep DEF Next

LEMMA Invariance == Spec => []IInv
  BY InitIInv, NextIInv, PTL DEF Spec

-----------------------------------------------------------------------------
(* The theorems.                                                           *)

\* The amount of an order is what all of its group was settled for, each
\* transaction once, whichever pre-processor changed the main one in place.
THEOREM AmountsAddUp == Spec => []AmountIsSum
<1>1. IInv => AmountIsSum
  <2> SUFFICES ASSUME IInv, NEW o \in Range(orders)
               PROVE  o.amount = FoldSet(LAMBDA t, sum : sum + Price[t], 0, o.group)
    BY DEF AmountIsSum
  <2>1. orders \in Seq(Order)
    BY DEF IInv, TypeOK
  <2>2. PICK j \in 1 .. Len(orders) : o = orders[j]
    BY <2>1 DEF Range
  <2>3. o.amount = SumOf(Price, o.group)
    BY <2>2 DEF IInv, OrdersRight, Made
  <2> QED
    BY <2>3 DEF SumOf
<1> QED
  BY <1>1, Invariance, PTL

\* In the end a settled group of the batch is one order or one issue, whole, and
\* no other group is touched.
THEOREM EachGroupBecomesOne == Spec => []EachGroupOnce
<1>1. IInv => EachGroupOnce
  <2> SUFFICES ASSUME IInv, pc = "done", NEW i \in Index
               PROVE  LET g == Members(Groups[i])
                          made == {k \in DOMAIN orders : orders[k].group = g} IN
                      /\ g \subseteq settled => (Cardinality(made) = 1) # (g \subseteq issued)
                      /\ ~(g \subseteq settled) => made = {} /\ g \subseteq Skipped
    BY DEF EachGroupOnce
  <2> DEFINE g == Members(Groups[i])
             made == {k \in DOMAIN orders : orders[k].group = g}
  <2>1. /\ Kept(approved, Len(Groups)) /\ Len(approved) \in Nat
        /\ \A k \in 1 .. Len(approved) : k \in 1 .. next - 1
        /\ \A k \in 1 .. next - 1 : k \in 1 .. Len(approved)
        /\ DOMAIN orders = 1 .. Len(orders) /\ DOMAIN approved = 1 .. Len(approved)
        /\ i \in 1 .. Len(Groups) /\ Groups[i] \in Group /\ Index = 1 .. Len(Groups)
    <3>1. /\ Kept(approved, Len(Groups)) /\ approved \in Seq(Group) /\ orders \in Seq(Order)
          /\ next = Len(approved) + 1
      BY DEF IInv, TypeOK, PcRight
    <3>2. Groups \in Seq(Seq(Txn)) /\ DOMAIN Groups = 1 .. Len(Groups)
      BY OrderBuildAssumption
    <3>3. Groups[i] \in Group /\ Index = 1 .. Len(Groups)
      BY <3>2 DEF Group, Range, Index
    <3> QED
      BY <3>1, <3>2, <3>3
  <2>2. g \subseteq Txn /\ g # {}
    BY <2>1, GroupFacts
  <2>3. ASSUME g \subseteq settled
        PROVE  (Cardinality(made) = 1) # (g \subseteq issued)
    <3>1. PICK k \in 1 .. Len(approved) : approved[k] = Groups[i]
      BY <2>1, <2>3 DEF Kept, IsApproved
    <3>2. (\E j \in 1 .. Len(orders) : orders[j].group = g) <=> ~(g \subseteq issued)
      BY <2>1, <3>1 DEF IInv, OrdersRight
    <3>3. ASSUME NEW j \in 1 .. Len(orders), orders[j].group = g PROVE Cardinality(made) = 1
      <4>1. \A l \in 1 .. Len(orders) : orders[l].group = g => l = j
        BY <3>3 DEF IInv, OrdersRight
      <4>2. made = {j}
        BY <2>1, <3>3, <4>1
      <4> QED
        BY <4>2, FS_Singleton
    <3>4. ASSUME \A j \in 1 .. Len(orders) : orders[j].group # g PROVE Cardinality(made) = 0
      <4>1. made = {}
        BY <2>1, <3>4
      <4> QED
        BY <4>1, FS_EmptySet
    <3>5. CASE g \subseteq issued
      <4>1. Cardinality(made) = 0
        BY <3>2, <3>4, <3>5
      <4> QED
        BY <4>1, <3>5
    <3>6. CASE ~(g \subseteq issued)
      <4>1. Cardinality(made) = 1
        BY <3>2, <3>3, <3>6
      <4> HIDE DEF made
      <4> QED
        BY <4>1, <3>6
    <3> QED
      BY <3>5, <3>6
  <2>4. ASSUME ~(g \subseteq settled)
        PROVE  made = {} /\ g \subseteq Skipped
    <3>1. ASSUME NEW k \in 1 .. Len(approved), NEW t \in g, t \in Members(approved[k]) PROVE FALSE
      <4>1. PICK l \in 1 .. Len(Groups) : approved[k] = Groups[l] /\ IsApproved(Groups[l])
        BY <2>1 DEF Kept
      <4>2. l = i
        BY <2>1, <3>1, <4>1, GroupsApart
      <4> QED
        BY <2>4, <4>1, <4>2 DEF IsApproved
    <3>2. made = {}
      <4> SUFFICES ASSUME NEW j \in 1 .. Len(orders), orders[j].group = g PROVE FALSE
        BY <2>1
      <4>1. PICK k \in 1 .. next - 1 : Made(orders[j], k)
        BY DEF IInv, OrdersRight
      <4> QED
        BY <2>1, <2>2, <3>1, <4>1 DEF Made
    <3>3. g \subseteq Skipped
      <4> SUFFICES ASSUME NEW t \in g PROVE t \in Skipped
        OBVIOUS
      <4>1. t \notin issued
        BY <2>1, <3>1 DEF IInv, OrdersRight
      <4>2. \A e \in Range(approved) : t \notin Members(e)
        BY <2>1, <3>1 DEF Range
      <4> QED
        BY <2>2, <4>1, <4>2 DEF Skipped
    <3> QED
      BY <3>2, <3>3
  <2> QED
    BY <2>3, <2>4
<1> QED
  BY <1>1, Invariance, PTL

\* A lock is sold as what it is, in a pair or alone, although the names hold one another
\* and whatever the table of products holds.
THEOREM LocksAreSoldRight == Spec => []SoldIsBought
<1>1. IInv => SoldIsBought
  <2> SUFFICES ASSUME IInv, NEW o \in Range(orders), bought[o.number] \in Lock
               PROVE  /\ Model(o.name) = Model(bought[o.number])
                      /\ Model(o.product) \in {Model(bought[o.number]), "-"}
    BY DEF SoldIsBought
  <2>1. orders \in Seq(Order) /\ table \in Tables
    BY DEF IInv, TypeOK
  <2>2. PICK j \in 1 .. Len(orders) : o = orders[j]
    BY <2>1 DEF Range
  <2>3. PICK k \in 1 .. next - 1 : Made(o, k)
    BY <2>2 DEF IInv, OrdersRight
  <2> DEFINE e == approved[k]
             m == pre[k][1]
  <2>4. /\ o.number = m /\ o.name = TextOf(heap[m].description)
        /\ o.product = MatchProduct(heap[m].description)
    BY <2>3 DEF Made
  <2>5. RightText(m, e, heap[m].description)
    <3>1. k \in 1 .. Len(pre)
      BY DEF IInv, TypeOK
    <3> QED
      BY <3>1 DEF IInv, Processed, Stands
  <2>6. \E x \in Case \cup {"COmpact RFID", "Compact RFID"} :
            heap[m].description = Plain(x) /\ Model(x) = Model(bought[m])
    <3>1. /\ PreProcessors[1].lock = "COmpact RFID" /\ PreProcessors[2].lock = "Compact RFID"
          /\ PreProcessors[3].lock = "elite" /\ PreProcessors[4].lock = "elite fingerprint"
          /\ PreProcessors[5].lock = "elite" /\ PreProcessors[6].lock = "elite fingerprint"
      BY Processors, ProcessorLocks
    <3>2. ASSUME NEW q \in {1, 2, 3, 4, 5, 6}, bought[m] = PreProcessors[q].lock, Len(e) = 2 <=> q <= 4
          PROVE  /\ PreProcessors[q].case \in Case
                 /\ heap[m].description = Plain(PreProcessors[q].case)
                 /\ Model(PreProcessors[q].case) = Model(bought[m])
      <4>1. q \in 1 .. 6
        OBVIOUS
      <4> QED
        BY <2>5, <3>2, <4>1, CaseOfLock DEF RightText
    <3>3. CASE Len(e) = 2
      <4>1. \E q \in {1, 2, 3, 4} : bought[m] = PreProcessors[q].lock
        BY <2>4, <3>1 DEF Lock
      <4>2. PICK q \in {1, 2, 3, 4} : bought[m] = PreProcessors[q].lock
        BY <4>1
      <4>3. q \in {1, 2, 3, 4, 5, 6} /\ (Len(e) = 2 <=> q <= 4)
        BY <3>3
      <4> QED
        BY <3>2, <4>2, <4>3
    <3>4. CASE Len(e) # 2 /\ bought[m] \in {"elite", "elite fingerprint"}
      <4>1. \E q \in {5, 6} : bought[m] = PreProcessors[q].lock
        BY <3>1, <3>4
      <4>2. PICK q \in {5, 6} : bought[m] = PreProcessors[q].lock
        BY <4>1
      <4>3. q \in {1, 2, 3, 4, 5, 6} /\ ~(q <= 4)
        OBVIOUS
      <4> QED
        BY <3>2, <3>4, <4>2, <4>3
    <3>5. CASE Len(e) # 2 /\ bought[m] \in {"COmpact RFID", "Compact RFID"}
      BY <2>5, <3>5 DEF RightText
    <3> QED
      BY <2>4, <3>3, <3>4, <3>5 DEF Lock
  <2>7. PICK x \in Case \cup {"COmpact RFID", "Compact RFID"} :
            heap[m].description = Plain(x) /\ Model(x) = Model(bought[m])
    BY <2>6
  <2>8. o.name = x
    BY <2>4, <2>7, PlainText
  <2>9. o.product \in Matching(Plain(x)) \cup {NoProduct}
    BY <2>1, <2>4, <2>7, Products
  <2>10. Model(o.product) \in {Model(x), "-"}
    <3>1. CASE o.product \in Matching(Plain(x))
      BY <3>1, PlainIncludes, CasesHold DEF Matching
    <3>2. CASE o.product = NoProduct
      BY <3>2 DEF NoProduct, Model
    <3> QED
      BY <2>9, <3>1, <3>2
  <2> QED
    BY <2>4, <2>7, <2>8, <2>10
<1> QED
  BY <1>1, Invariance, PTL

=============================================================================
