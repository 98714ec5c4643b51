---------------------------- MODULE PairingProofs ----------------------------
(***************************************************************************)
(* Theorems about Pairing, for batches of any size, any customers and any  *)
(* numbers of invoices: the pairs it makes refine Grouping, and each rule  *)
(* leaves nothing undone and takes the closest add-on.                     *)
(***************************************************************************)
EXTENDS Pairing, Sums

-----------------------------------------------------------------------------
(* The inductive invariant.                                                *)

Entry == {<<t>> : t \in Txn} \cup {<<t, u>> : t \in Txn, u \in Txn}

TypeOK ==
    /\ trans \in [Txn -> Transaction]
    /\ list \in Seq(Entry)
    /\ position \in 1 .. Len(list) + 1
    /\ rule \in Rule

\* The walk has pairs behind it and single transactions before it.
SinglesAhead == \A i \in DOMAIN list : position <= i => Single(list[i])

\* The list stays sorted by the first transaction of an entry.
Ascending == \A i, j \in DOMAIN list : i < j => list[i][1] < list[j][1]

Has(i, t) == list[i][1] = t \/ (~Single(list[i]) /\ list[i][2] = t)

NothingLost == \A t \in Txn : \E i \in DOMAIN list : Has(i, t)

NothingDoubled ==
    \A i, j \in DOMAIN list : \A t \in Txn : Has(i, t) /\ Has(j, t) => i = j

\* By rule r, t may take u.
MayBy(r, t, u) == t < u /\ Accepts(r, trans[t].kind) /\ Candidate(r, t, u)

\* An entry the walk has left alone found nothing among those further right, and
\* nothing comes back there.
Settled ==
    \A i, j \in DOMAIN list : \A r \in Rule :
        /\ Single(list[i]) /\ Single(list[j])
        /\ (i < position \/ (i = position /\ rule = "hardwood" /\ r = "compact"))
        => ~MayBy(r, list[i][1], list[j][1])

\* No rule would have had c rather than u.
NotCloser(t, u, c) ==
    \A r \in Rule :
        t < c /\ Candidate(r, t, u) /\ Candidate(r, t, c) /\ Diff(t, c) # None =>
            Diff(t, u) # None /\ Diff(t, u) <= Diff(t, c)

\* ClosestTaken holds at every moment of the walk.
Closest ==
    \A i, j \in DOMAIN list :
        i # j /\ ~Single(list[i]) /\ (Single(list[j]) \/ list[j][1] > list[i][1]) =>
            NotCloser(list[i][1], list[i][2], Last(list[j]))

IInv ==
    /\ TypeOK /\ SinglesAhead /\ Ascending /\ NothingLost /\ NothingDoubled
    /\ PairsFit /\ Settled /\ Closest

-----------------------------------------------------------------------------
(* Facts about the list.                                                   *)

LEMMA EntryFacts ==
  ASSUME NEW e \in Entry
  PROVE  /\ Len(e) \in {1, 2} /\ DOMAIN e = 1 .. Len(e) /\ e[1] \in Txn
         /\ Single(e) => e = <<e[1]>> /\ Last(e) = e[1]
         /\ ~Single(e) => e = <<e[1], e[2]>> /\ e[2] \in Txn /\ Last(e) = e[2]
<1>1. CASE \E t \in Txn : e = <<t>>
  BY <1>1 DEF Single, Last
<1>2. CASE \E t, u \in Txn : e = <<t, u>>
  BY <1>2 DEF Single, Last
<1> QED
  BY <1>1, <1>2 DEF Entry

LEMMA AppendToOne ==
  ASSUME NEW S, NEW a \in S, NEW b \in S
  PROVE  Append(<<a>>, b) = <<a, b>>
<1>1. <<a>> \in Seq(S) /\ Len(<<a>>) = 1 /\ <<a, b>> \in Seq(S) /\ Len(<<a, b>>) = 2
  OBVIOUS
<1> DEFINE one == <<a>>
           two == <<a, b>>
<1>2. one[1] = a /\ two[1] = a /\ two[2] = b
  OBVIOUS
<1> HIDE DEF one
<1>3. /\ Append(one, b) \in Seq(S) /\ Len(Append(one, b)) = 2
      /\ Append(one, b)[1] = a /\ Append(one, b)[2] = b
  BY <1>1, <1>2 DEF one
<1> HIDE DEF two
<1>4. two \in Seq(S) /\ Len(two) = 2
  BY <1>1 DEF two
<1>5. Append(one, b) = two
  <2> DEFINE long == Append(one, b)
  <2>1. \A i \in 1 .. Len(long) : long[i] = two[i]
    BY <1>2, <1>3
  <2>2. long \in Seq(S) /\ Len(long) = Len(two)
    BY <1>3, <1>4
  <2> HIDE DEF long
  <2>3. long = two
    BY <2>1, <2>2, <1>4, SeqEqual
  <2> QED
    BY <2>3 DEF long
<1> QED
  BY <1>5 DEF one, two

LEMMA RemoveAtFacts ==
  ASSUME NEW S, NEW s \in Seq(S), NEW q \in 1 .. Len(s)
  PROVE  /\ RemoveAt(s, q) \in Seq(S) /\ Len(RemoveAt(s, q)) = Len(s) - 1
         /\ \A i \in 1 .. Len(s) - 1 : RemoveAt(s, q)[i] = IF i < q THEN s[i] ELSE s[i + 1]
<1> DEFINE a == SubSeq(s, 1, q - 1)
           b == SubSeq(s, q + 1, Len(s))
<1>1. a \in Seq(S) /\ Len(a) = q - 1 /\ \A i \in 1 .. q - 1 : a[i] = s[i]
  OBVIOUS
<1>2. b \in Seq(S) /\ Len(b) = Len(s) - q /\ \A i \in 1 .. Len(s) - q : b[i] = s[q + i]
  OBVIOUS
<1>3. RemoveAt(s, q) = a \o b
  BY DEF RemoveAt
<1> HIDE DEF a, b
<1>4. /\ a \o b \in Seq(S) /\ Len(a \o b) = Len(s) - 1
      /\ \A i \in 1 .. Len(s) - 1 : (a \o b)[i] = IF i <= Len(a) THEN a[i] ELSE b[i - Len(a)]
  <2>1. a \in Seq(S) /\ b \in Seq(S) /\ Len(a) + Len(b) = Len(s) - 1
    BY <1>1, <1>2
  <2> QED
    BY <2>1, ConcatProperties
<1>5. \A i \in 1 .. Len(s) - 1 : (a \o b)[i] = IF i < q THEN s[i] ELSE s[i + 1]
  BY <1>1, <1>2, <1>4
<1> QED
  BY <1>3, <1>4, <1>5

LEMMA DiffType ==
  ASSUME TypeOK, NEW t \in Txn, NEW u \in Txn
  PROVE  Diff(t, u) \in Nat \cup {None}
<1>1. \A v \in Txn : trans[v].invoice \in Int \cup {NoInvoice}
  BY PairingAssumption DEF TypeOK, Transaction
<1> QED
  BY <1>1 DEF Diff, None

-----------------------------------------------------------------------------
(* The loop of CombineRule.process.                                        *)

\* The single entries further right that a rule would put with t.
AddOns(r, i, n) ==
    {j \in i + 1 .. n : Single(list[j]) /\ Candidate(r, list[i][1], list[j][1])}

\* What the loop has found when it has looked at the entries up to n: the first
\* choice, or the closest one when there is a distance at all.
Found(r, i, n, found) ==
    LET t == list[i][1] IN
    /\ found \in [match : Txn \cup {None}, diff : Nat \cup {None}]
    /\ IF found.match = None THEN found.diff = None /\ AddOns(r, i, n) = {}
       ELSE \E j \in AddOns(r, i, n) : list[j][1] = found.match
    /\ found.diff # None => found.diff = Diff(t, found.match)
    /\ \A j \in AddOns(r, i, n) :
         Diff(t, list[j][1]) # None => found.diff # None /\ found.diff <= Diff(t, list[j][1])

LEMMA StepFinds ==
  ASSUME TypeOK, NEW r \in Rule, NEW i \in DOMAIN list, NEW n \in i .. Len(list) - 1,
         NEW found, Found(r, i, n, found)
  PROVE  Found(r, i, n + 1, Step(r, list[i][1], found, list[n + 1]))
<1> DEFINE t == list[i][1]
           e == list[n + 1]
           u == e[1]
           new == Step(r, t, found, e)
<1>1. DOMAIN list = 1 .. Len(list) /\ Len(list) \in Nat /\ \A j \in DOMAIN list : list[j] \in Entry
  BY DEF TypeOK
<1>2. t \in Txn /\ u \in Txn /\ e \in Entry
  BY <1>1, EntryFacts
<1>3. \A j \in i + 1 .. n + 1 : list[j][1] \in Txn /\ Diff(t, list[j][1]) \in Nat \cup {None}
  BY <1>1, <1>2, EntryFacts, DiffType
<1>4. Diff(t, u) \in Nat \cup {None}
  BY <1>2, DiffType
<1>5. i + 1 .. n + 1 = (i + 1 .. n) \cup {n + 1}
  BY <1>1
<1>6. CASE ~(Single(e) /\ Candidate(r, t, u))
  <2>1. AddOns(r, i, n + 1) = AddOns(r, i, n)
    BY <1>5, <1>6 DEF AddOns
  <2>2. new = found
    BY <1>6 DEF Step
  <2> HIDE DEF new
  <2> QED
    BY <2>1, <2>2 DEF Found, new
<1>7. CASE Single(e) /\ Candidate(r, t, u)
  <2>1. AddOns(r, i, n + 1) = AddOns(r, i, n) \cup {n + 1}
    BY <1>5, <1>7 DEF AddOns
  <2>2. \A j \in AddOns(r, i, n) : j \in i + 1 .. n + 1
    BY <1>5 DEF AddOns
  <2>3. CASE Diff(t, u) # None /\ (found.diff = None \/ Diff(t, u) < found.diff)
    <3>1. new = [match |-> u, diff |-> Diff(t, u)]
      BY <1>7, <2>3 DEF Step
    <3> HIDE DEF new
    <3>2. u # None
      BY <1>2 DEF Txn, None
    <3>3. \A j \in AddOns(r, i, n) :
            Diff(t, list[j][1]) # None => Diff(t, u) <= Diff(t, list[j][1])
      <4> TAKE j \in AddOns(r, i, n)
      <4> HAVE Diff(t, list[j][1]) # None
      <4>1. found.diff # None /\ found.diff <= Diff(t, list[j][1])
        BY DEF Found
      <4>2. Diff(t, u) \in Nat /\ Diff(t, list[j][1]) \in Nat /\ found.diff \in Nat
        BY <2>2, <2>3, <1>3, <1>4, <4>1 DEF Found
      <4> QED
        BY <4>1, <4>2, <2>3
    <3>4. Diff(t, u) \in Nat
      BY <2>3, <1>4
    <3> QED
      BY <3>1, <3>2, <3>3, <3>4, <2>1, <2>3, <1>2 DEF Found, new
  <2>4. CASE ~(Diff(t, u) # None /\ (found.diff = None \/ Diff(t, u) < found.diff))
    <3>1. new = [found EXCEPT !.match = IF @ = None THEN u ELSE @]
      BY <1>7, <2>4 DEF Step
    <3> HIDE DEF new
    <3>2. u # None
      BY <1>2 DEF Txn, None
    <3>3. CASE found.match = None
      <4>1. found.diff = None /\ AddOns(r, i, n) = {} /\ Diff(t, u) = None
        BY <3>3, <2>4 DEF Found
      <4>2. new.match = u /\ new.diff = None /\ new \in [match : Txn \cup {None}, diff : Nat \cup {None}]
        BY <3>1, <3>3, <4>1, <1>2 DEF Found
      <4> QED
        BY <3>2, <4>1, <4>2, <2>1 DEF Found, new
    <3>4. CASE found.match # None
      <4>1. new = found
        BY <3>1, <3>4 DEF Found
      <4>2. Diff(t, u) # None => found.diff # None /\ found.diff <= Diff(t, u)
        BY <2>4, <1>4 DEF Found
      <4> QED
        BY <3>4, <4>1, <4>2, <2>1 DEF Found, new
    <3> QED
      BY <3>3, <3>4
  <2> QED
    BY <2>3, <2>4
<1> QED
  BY <1>6, <1>7

Finding == [match : Txn \cup {None}, diff : Nat \cup {None}]
Nothing == [match |-> None, diff |-> None]

\* The sequence the loop runs over.
Rest(i) == SubSeq(list, i + 1, Len(list))

LEMMA RestFacts ==
  ASSUME TypeOK, NEW i \in DOMAIN list
  PROVE  /\ DOMAIN list = 1 .. Len(list) /\ Len(list) \in Nat /\ i \in Nat
         /\ \A j \in DOMAIN list : list[j] \in Entry
         /\ Len(list) - i \in Nat /\ DOMAIN Rest(i) = 1 .. Len(list) - i
         /\ \A k \in 1 .. Len(list) - i : i + k \in DOMAIN list /\ Rest(i)[k] = list[i + k]
<1>1. /\ DOMAIN list = 1 .. Len(list) /\ Len(list) \in Nat /\ i \in Nat
      /\ (\A j \in DOMAIN list : list[j] \in Entry) /\ Len(list) - i \in Nat
  BY DEF TypeOK
<1>2. /\ Rest(i) \in Seq(Entry) /\ Len(Rest(i)) = Len(list) - i
      /\ \A k \in 1 .. Len(list) - i : Rest(i)[k] = list[i + k]
  BY <1>1 DEF TypeOK, Rest
<1> QED
  BY <1>1, <1>2

LEMMA StepType ==
  ASSUME TypeOK, NEW r, NEW t \in Txn, NEW found \in Finding, NEW e \in Entry
  PROVE  Step(r, t, found, e) \in Finding
<1>1. e[1] \in Txn /\ Diff(t, e[1]) \in Nat \cup {None}
  BY EntryFacts, DiffType
<1> QED
  BY <1>1 DEF Step, Finding

LEMMA LoopSteps ==
  ASSUME TypeOK, NEW r \in Rule, NEW i \in DOMAIN list
  PROVE  \E h : /\ h = [s \in SUBSET DOMAIN Rest(i) |->
                           IF s = {} THEN Nothing
                           ELSE Step(r, list[i][1], h[s \ {Max(s)}], Rest(i)[Max(s)])]
                /\ Match(r, i) = h[DOMAIN Rest(i)].match
<1> DEFINE n == Len(list) - i
           t == list[i][1]
           F == [p \in (1 .. n) \X Finding |-> Step(r, t, p[2], Rest(i)[p[1]])]
<1>1. n \in Nat /\ DOMAIN Rest(i) = 1 .. n /\ t \in Txn /\ \A k \in 1 .. n : Rest(i)[k] \in Entry
  BY RestFacts, EntryFacts
<1> HIDE DEF n, t
<1>2. F \in [(1 .. n) \X Finding -> Finding] /\ Nothing \in Finding
  <2>1. \A p \in (1 .. n) \X Finding : Step(r, t, p[2], Rest(i)[p[1]]) \in Finding
    BY <1>1, StepType
  <2> QED
    BY <2>1 DEF Nothing, Finding
<1>3. PICK g \in [SUBSET (1 .. n) -> Finding] : IsLoop(g, n, Nothing, F)
  <2> HIDE DEF F
  <2> QED
    BY <1>1, <1>2, LoopExists
<1>4. g = [s \in SUBSET DOMAIN Rest(i) |->
             IF s = {} THEN Nothing ELSE Step(r, t, g[s \ {Max(s)}], Rest(i)[Max(s)])]
  <2>1. ASSUME NEW s \in SUBSET (1 .. n), s # {}
        PROVE  F[<<Max(s), g[s \ {Max(s)}]>>] = Step(r, t, g[s \ {Max(s)}], Rest(i)[Max(s)])
    <3>1. IsFiniteSet(1 .. n) /\ s \in SUBSET Int
      BY <1>1, FS_Interval
    <3>2. Max(s) \in s
      BY <2>1, <3>1, FS_Subset, MaxIsIn
    <3> QED
      BY <3>2
  <2> HIDE DEF F
  <2> QED
    BY <2>1, <1>1, <1>3 DEF IsLoop
<1> QED
  BY <1>4 DEF Match, FoldLeft, MapThenFoldSet, Rest, Nothing, t

LEMMA MatchFinds ==
  ASSUME TypeOK, NEW r \in Rule, NEW i \in DOMAIN list
  PROVE  \E found : Found(r, i, Len(list), found) /\ Match(r, i) = found.match
<1> DEFINE n == Len(list) - i
           D == DOMAIN Rest(i)
<1>1. /\ Len(list) \in Nat /\ i \in Nat /\ n \in Nat
      /\ D = 1 .. n /\ \A k \in 1 .. n : Rest(i)[k] = list[i + k]
  BY RestFacts
<1>3. PICK h : /\ h = [s \in SUBSET D |->
                         IF s = {} THEN Nothing
                         ELSE Step(r, list[i][1], h[s \ {Max(s)}], Rest(i)[Max(s)])]
               /\ Match(r, i) = h[D].match
  BY LoopSteps
<1> DEFINE T == {k \in Nat : k <= n => Found(r, i, i + k, h[1 .. k])}
<1> HIDE DEF n, D
<1>4. 0 \in T
  <2>1. h[{}] = Nothing
    BY <1>3
  <2>2. AddOns(r, i, i) = {}
    BY <1>1 DEF AddOns
  <2>3. Found(r, i, i, Nothing)
    BY <2>2 DEF Found, Nothing
  <2>4. 1 .. 0 = {} /\ i + 0 = i
    BY <1>1
  <2> QED
    BY <2>1, <2>3, <2>4
<1>5. \A k \in Nat : k \in T => k + 1 \in T
  <2> TAKE k \in Nat
  <2> SUFFICES ASSUME k \in T, k + 1 <= n PROVE Found(r, i, i + (k + 1), h[1 .. k + 1])
    BY <1>1
  <2>1. Found(r, i, i + k, h[1 .. k])
    BY <1>1
  <2> DEFINE I == 1 .. k + 1
  <2>2. I \in SUBSET D
    BY <1>1
  <2>3. Max(I) = k + 1 /\ I # {} /\ I \ {k + 1} = 1 .. k
    BY MaxOfInterval
  <2> HIDE DEF I
  <2>4. h[I] = Step(r, list[i][1], h[1 .. k], list[i + (k + 1)])
    <3>1. Rest(i)[k + 1] = list[i + (k + 1)]
      BY <1>1
    <3> QED
      BY <1>3, <2>2, <2>3, <3>1
  <2>5. i + k \in i .. Len(list) - 1 /\ i + (k + 1) = (i + k) + 1
    BY <1>1 DEF n
  <2> QED
    BY <2>1, <2>4, <2>5, StepFinds DEF I
<1>6. n \in T
  <2> HIDE DEF T
  <2> QED
    BY <1>1, <1>4, <1>5, SetInduction
<1>7. i + n = Len(list)
  BY RestFacts DEF n
<1>8. Found(r, i, i + n, h[1 .. n])
  BY <1>1, <1>6
<1> QED
  BY <1>1, <1>3, <1>7, <1>8

-----------------------------------------------------------------------------
(* A step that combines.                                                   *)

\* t at the walk's position p takes u from q; the entries after q move up.
Takes(p, q, t, u) ==
    /\ p \in DOMAIN list /\ q \in DOMAIN list /\ p < q /\ p = position
    /\ list[p] = <<t>> /\ list[q] = <<u>> /\ t \in Txn /\ u \in Txn
    /\ MayBy(rule, t, u)
    /\ \A j \in p + 1 .. Len(list) : Single(list[j]) => NotCloser(t, u, list[j][1])
    /\ list' \in Seq(Entry) /\ Len(list') = Len(list) - 1
    /\ \A i \in 1 .. Len(list) - 1 :
         list'[i] = IF i = p THEN <<t, u>> ELSE IF i < q THEN list[i] ELSE list[i + 1]

LEMMA CombineTakes ==
  ASSUME IInv, Combine
  PROVE  \E q \in DOMAIN list, t, u \in Txn : Takes(position, q, t, u)
<1> DEFINE p == position
           t == list[p][1]
           u == Match(rule, p)
<1>1. /\ TypeOK /\ DOMAIN list = 1 .. Len(list) /\ Len(list) \in Nat
      /\ (\A j \in DOMAIN list : list[j] \in Entry) /\ list \in Seq(Entry) /\ rule \in Rule
  BY DEF IInv, TypeOK
<1>2. /\ p \in DOMAIN list /\ Single(list[p]) /\ Accepts(rule, trans[t].kind)
      /\ u # None /\ list' = Combined(p, u)
  BY <1>1 DEF Combine, IInv, TypeOK
<1>3. t \in Txn /\ list[p] = <<t>>
  BY <1>1, <1>2, EntryFacts
<1>4. PICK found : Found(rule, p, Len(list), found) /\ u = found.match
  BY <1>1, <1>2, MatchFinds
<1> HIDE DEF u
<1>5. PICK k \in AddOns(rule, p, Len(list)) : list[k][1] = u
  BY <1>2, <1>4 DEF Found
<1>6. k \in DOMAIN list /\ p < k /\ Single(list[k]) /\ Candidate(rule, t, u)
  BY <1>1, <1>2, <1>5 DEF AddOns
<1>7. u \in Txn /\ list[k] = <<u>>
  BY <1>1, <1>5, <1>6, EntryFacts
<1> DEFINE q == CHOOSE j \in p + 1 .. Len(list) : list[j] = <<u>>
<1>8. q \in p + 1 .. Len(list) /\ list[q] = <<u>>
  <2>1. k \in p + 1 .. Len(list)
    BY <1>1, <1>2, <1>6
  <2> QED
    BY <2>1, <1>7
<1>9. list' = RemoveAt([list EXCEPT ![p] = Append(@, u)], q)
  BY <1>2 DEF Combined
<1> HIDE DEF q
<1> DEFINE mid == [list EXCEPT ![p] = Append(@, u)]
<1>10. /\ mid \in Seq(Entry) /\ Len(mid) = Len(list) /\ mid[p] = <<t, u>>
       /\ \A i \in DOMAIN list : i # p => mid[i] = list[i]
  <2>1. mid = [list EXCEPT ![p] = <<t, u>>]
    <3> HIDE DEF t
    <3>1. Append(<<t>>, u) = <<t, u>>
      BY <1>3, <1>7, AppendToOne
    <3> QED
      BY <3>1, <1>3
  <2>2. <<t, u>> \in Entry
    BY <1>3, <1>7 DEF Entry
  <2> HIDE DEF mid, t
  <2> QED
    BY <1>1, <1>2, <2>1, <2>2
<1> HIDE DEF mid
<1>11. q \in 1 .. Len(mid) /\ q \in DOMAIN list /\ p < q
  BY <1>1, <1>2, <1>8, <1>10
<1>12. /\ list' \in Seq(Entry) /\ Len(list') = Len(list) - 1
       /\ \A i \in 1 .. Len(list) - 1 :
            list'[i] = IF i = p THEN <<t, u>> ELSE IF i < q THEN list[i] ELSE list[i + 1]
  <2>1. /\ list' \in Seq(Entry) /\ Len(list') = Len(mid) - 1
        /\ \A i \in 1 .. Len(mid) - 1 : list'[i] = IF i < q THEN mid[i] ELSE mid[i + 1]
    BY <1>9, <1>10, <1>11, RemoveAtFacts DEF mid
  <2>2. ASSUME NEW i \in 1 .. Len(list) - 1
        PROVE  list'[i] = IF i = p THEN <<t, u>> ELSE IF i < q THEN list[i] ELSE list[i + 1]
    <3>1. i \in DOMAIN list /\ i + 1 \in DOMAIN list /\ (i = p => i < q) /\ (~(i < q) => i + 1 # p)
      BY <1>1, <1>2, <1>11
    <3>2. list'[i] = IF i < q THEN mid[i] ELSE mid[i + 1]
      BY <2>1, <1>10
    <3> QED
      BY <3>1, <3>2, <1>10
  <2> QED
    BY <2>1, <2>2, <1>10
<1>13. MayBy(rule, t, u)
  <2>1. list[p][1] < list[k][1]
    BY <1>2, <1>6 DEF IInv, Ascending
  <2> QED
    BY <2>1, <1>2, <1>5, <1>6 DEF MayBy
<1>14. ASSUME NEW j \in p + 1 .. Len(list), Single(list[j]) PROVE NotCloser(t, u, list[j][1])
  <2> SUFFICES ASSUME NEW r \in Rule, Candidate(r, t, u), Candidate(r, t, list[j][1]),
                      Diff(t, list[j][1]) # None
               PROVE  Diff(t, u) # None /\ Diff(t, u) <= Diff(t, list[j][1])
    BY DEF NotCloser
  <2>1. r = rule
    BY <1>1, <1>6 DEF Candidate, Matches, Rule
  <2>2. j \in AddOns(rule, p, Len(list))
    BY <2>1, <1>14 DEF AddOns
  <2>3. found.diff # None /\ found.diff <= Diff(t, list[j][1])
    BY <2>2, <1>4 DEF Found
  <2> QED
    BY <2>3, <1>4 DEF Found
<1> QED
  BY <1>1, <1>2, <1>3, <1>7, <1>8, <1>11, <1>12, <1>13, <1>14 DEF Takes

-----------------------------------------------------------------------------
(* The invariant is inductive.                                             *)

LEMMA InitIInv == Init => IInv
<1> SUFFICES ASSUME Init PROVE IInv
  OBVIOUS
<1>1. /\ list \in [1 .. Count -> Entry] /\ Count \in Nat
      /\ \A t \in 1 .. Count : list[t] = <<t>> /\ Single(list[t]) /\ list[t][1] = t
  BY PairingAssumption DEF Init, Entry, Txn, Single
<1>2. list \in Seq(Entry) /\ Len(list) = Count /\ DOMAIN list = 1 .. Count
  BY <1>1
<1>3. trans \in [Txn -> Transaction] /\ position = 1 /\ rule = "compact" /\ rule \in Rule
  BY DEF Init, Rule
<1>4. TypeOK /\ SinglesAhead
  BY <1>1, <1>2, <1>3 DEF TypeOK, SinglesAhead
<1>5. Ascending /\ NothingLost /\ NothingDoubled
  BY <1>1, <1>2 DEF Ascending, NothingLost, NothingDoubled, Has, Txn
<1>6. PairsFit /\ Closest
  BY <1>1, <1>2 DEF PairsFit, Closest
<1>7. Settled
  BY <1>2, <1>3 DEF Settled
<1> QED
  BY <1>4, <1>5, <1>6, <1>7 DEF IInv

LEMMA CombineStep ==
  ASSUME IInv, Combine
  PROVE  IInv'
<1> DEFINE p == position
<1>1. PICK q \in DOMAIN list, t \in Txn, u \in Txn : Takes(p, q, t, u)
  BY CombineTakes
<1>2. /\ trans' = trans /\ position' = p + 1 /\ rule' = "compact"
      /\ DOMAIN list = 1 .. Len(list) /\ Len(list) \in Nat /\ rule \in Rule
      /\ \A i \in DOMAIN list : list[i] \in Entry
  BY DEF Combine, Go, IInv, TypeOK
<1> DEFINE From(i) == IF i < q THEN i ELSE i + 1
<1>3. /\ DOMAIN list' = 1 .. Len(list) - 1 /\ Len(list') = Len(list) - 1 /\ list' \in Seq(Entry)
      /\ p \in DOMAIN list /\ p < q /\ list[p] = <<t>> /\ list[q] = <<u>> /\ MayBy(rule, t, u)
      /\ \A j \in p + 1 .. Len(list) : Single(list[j]) => NotCloser(t, u, list[j][1])
  BY <1>1 DEF Takes
<1>4. /\ p \in DOMAIN list' /\ list'[p] = <<t, u>> /\ ~Single(list'[p])
      /\ Single(list[p]) /\ list[p][1] = t /\ Single(list[q]) /\ list[q][1] = u
  <2>1. p \in DOMAIN list' /\ list'[p] = <<t, u>>
    BY <1>1, <1>2, <1>3 DEF Takes
  <2>2. Len(<<t>>) = 1 /\ Len(<<u>>) = 1 /\ Len(<<t, u>>) = 2 /\ <<t>>[1] = t /\ <<u>>[1] = u
    OBVIOUS
  <2> QED
    BY <2>1, <2>2, <1>3 DEF Single
<1>5. \A i \in DOMAIN list' :
        /\ From(i) \in DOMAIN list /\ From(i) # q /\ (i < p <=> From(i) < p) /\ (i > p <=> From(i) > p)
        /\ i # p => From(i) # p /\ list'[i] = list[From(i)]
  BY <1>1, <1>2, <1>3 DEF Takes
<1>6. \A i, j \in DOMAIN list' : /\ (i < j <=> From(i) < From(j))
                                 /\ (i = j <=> From(i) = From(j))
  BY <1>2, <1>3
<1>7. \A k \in DOMAIN list : k # q => \E i \in DOMAIN list' : From(i) = k
  <2> TAKE k \in DOMAIN list
  <2> HAVE k # q
  <2>1. CASE k < q
    BY <2>1, <1>2, <1>3
  <2>2. CASE k > q
    <3>1. k - 1 \in DOMAIN list' /\ From(k - 1) = k
      BY <2>2, <1>2, <1>3
    <3> QED
      BY <3>1
  <2> QED
    BY <2>1, <2>2, <1>2
<1>8. From(p) = p /\ p + 1 \in 1 .. Len(list') + 1 /\ p \in Nat
  BY <1>2, <1>3
<1> HIDE DEF From, p
<1>9. /\ \A i \in DOMAIN list' : list'[i][1] = list[From(i)][1]
      /\ \A i \in DOMAIN list' : i # p => (Single(list'[i]) <=> Single(list[From(i)]))
  BY <1>4, <1>5, <1>8
<1>10. TypeOK'
  BY <1>2, <1>3, <1>8 DEF IInv, TypeOK, Rule
<1>11. SinglesAhead'
  <2> SUFFICES ASSUME NEW i \in DOMAIN list', p + 1 <= i PROVE Single(list'[i])
    BY <1>2 DEF SinglesAhead
  <2>1. i > p /\ i # p
    BY <1>3, <1>8
  <2>2. From(i) > p /\ Single(list'[i]) <=> Single(list[From(i)])
    BY <2>1, <1>5, <1>9
  <2>3. position <= From(i)
    BY <2>2, <1>5, <1>2 DEF p, IInv, TypeOK
  <2> QED
    BY <2>1, <2>3, <1>5, <1>9 DEF IInv, SinglesAhead
<1>12. Ascending'
  BY <1>5, <1>6, <1>9 DEF IInv, Ascending
<1>13. \A i \in DOMAIN list', x \in Txn :
         Has(i, x)' <=> Has(From(i), x) \/ (i = p /\ x = u)
  <2> TAKE i \in DOMAIN list', x \in Txn
  <2>1. CASE i = p
    BY <2>1, <1>4, <1>8 DEF Has
  <2>2. CASE i # p
    BY <2>2, <1>5 DEF Has
  <2> QED
    BY <2>1, <2>2
<1>14. \A x \in Txn : Has(q, x) <=> x = u
  BY <1>4 DEF Has
<1>15. NothingLost'
  <2> SUFFICES ASSUME NEW x \in Txn PROVE \E i \in DOMAIN list' : Has(i, x)'
    BY DEF NothingLost
  <2>1. PICK k \in DOMAIN list : Has(k, x)
    BY DEF IInv, NothingLost
  <2> QED
    BY <2>1, <1>4, <1>7, <1>13, <1>14
<1>16. NothingDoubled'
  <2> SUFFICES ASSUME NEW i \in DOMAIN list', NEW j \in DOMAIN list', NEW x \in Txn,
                      Has(i, x)', Has(j, x)'
               PROVE  i = j
    BY DEF NothingDoubled
  <2>1. \A k, l \in DOMAIN list : Has(k, x) /\ Has(l, x) => k = l
    BY DEF IInv, NothingDoubled
  <2>2. CASE x = u
    <3>1. Has(q, x) /\ ~Has(From(i), x) /\ ~Has(From(j), x)
      BY <2>1, <2>2, <1>5, <1>14
    <3> QED
      BY <3>1, <1>13
  <2>3. CASE x # u
    BY <2>1, <2>3, <1>5, <1>6, <1>13
  <2> QED
    BY <2>2, <2>3
<1>17. PairsFit'
  <2> SUFFICES ASSUME NEW i \in DOMAIN list', ~Single(list'[i])
               PROVE  May(list'[i][1], list'[i][2])
    BY <1>2 DEF PairsFit, May, Candidate
  <2>1. CASE i = p
    BY <2>1, <1>2, <1>3, <1>4 DEF May, MayBy
  <2>2. CASE i # p
    BY <2>2, <1>5 DEF IInv, PairsFit
  <2> QED
    BY <2>1, <2>2
<1>18. Settled'
  <2> SUFFICES ASSUME NEW i \in DOMAIN list', NEW j \in DOMAIN list', NEW r \in Rule,
                      Single(list'[i]), Single(list'[j]), i < p + 1
               PROVE  ~MayBy(r, list'[i][1], list'[j][1])
    BY <1>2 DEF Settled, MayBy, Candidate
  <2>1. i # p /\ j # p /\ i < p
    <3>1. i # p /\ j # p
      BY <1>4
    <3>2. i \in Nat
      BY <1>2, <1>3
    <3> QED
      BY <3>1, <3>2, <1>8
  <2>2. From(i) < position /\ Single(list[From(i)]) /\ Single(list[From(j)])
    BY <2>1, <1>5, <1>9 DEF p
  <2> QED
    BY <2>2, <1>5, <1>9 DEF IInv, Settled
<1>19. Closest'
  <2> SUFFICES ASSUME NEW i \in DOMAIN list', NEW j \in DOMAIN list', i # j, ~Single(list'[i]),
                      Single(list'[j]) \/ list'[j][1] > list'[i][1]
               PROVE  NotCloser(list'[i][1], list'[i][2], Last(list'[j]))
    BY <1>2 DEF Closest, NotCloser, Candidate, Diff
  <2>1. CASE i = p
    <3>1. j # p /\ list'[j] = list[From(j)] /\ From(j) \in DOMAIN list
      BY <2>1, <1>5
    <3>2. CASE From(j) > p
      <4>1. Single(list[From(j)]) /\ Last(list'[j]) = list[From(j)][1]
        BY <3>1, <3>2, <1>2, EntryFacts DEF IInv, SinglesAhead, TypeOK, p
      <4>2. From(j) \in p + 1 .. Len(list)
        BY <3>1, <3>2, <1>2, <1>8
      <4> QED
        BY <2>1, <4>1, <4>2, <1>3, <1>4
    <3>3. CASE From(j) < p
      <4>1. list[From(j)][1] < t /\ list[From(j)][1] \in Txn
        BY <3>1, <3>3, <1>2, <1>3, <1>4, EntryFacts DEF IInv, Ascending
      <4>2. Single(list[From(j)]) /\ Last(list'[j]) = list[From(j)][1]
        <5>1. ~(list'[j][1] > list'[i][1])
          BY <2>1, <3>1, <4>1, <1>4 DEF Txn
        <5> QED
          BY <3>1, <5>1, <1>2, EntryFacts
      <4>3. ~(t < Last(list'[j]))
        BY <4>1, <4>2 DEF Txn
      <4> QED
        BY <2>1, <4>3, <1>4 DEF NotCloser
    <3> QED
      BY <3>1, <3>2, <3>3, <1>5, <1>2, <1>3 DEF p
  <2>2. CASE i # p
    <3>1. list'[i] = list[From(i)] /\ From(i) \in DOMAIN list /\ ~Single(list[From(i)])
      BY <2>2, <1>5
    <3>2. CASE j # p
      <4>1. list'[j] = list[From(j)] /\ From(j) \in DOMAIN list /\ From(i) # From(j)
        BY <3>2, <1>5, <1>6
      <4> QED
        BY <3>1, <4>1 DEF IInv, Closest
    <3>3. CASE j = p
      <4>1. Last(list'[j]) = u /\ Last(list[q]) = u
        BY <3>3, <1>3, <1>4 DEF Last
      <4>2. From(i) # q /\ Single(list[q]) /\ q \in DOMAIN list
        BY <1>4, <1>5
      <4> QED
        BY <3>1, <4>1, <4>2 DEF IInv, Closest
    <3> QED
      BY <3>2, <3>3
  <2> QED
    BY <2>1, <2>2
<1> QED
  BY <1>10, <1>11, <1>12, <1>15, <1>16, <1>17, <1>18, <1>19 DEF IInv

LEMMA PassStep ==
  ASSUME IInv, Pass
  PROVE  IInv'
<1>1. /\ UNCHANGED <<trans, list>> /\ position \in DOMAIN list
      /\ DOMAIN list = 1 .. Len(list) /\ Len(list) \in Nat /\ rule \in Rule
  BY DEF Pass, IInv, TypeOK
<1>2. \/ rule = "compact" /\ rule' = "hardwood" /\ position' = position
      \/ rule = "hardwood" /\ rule' = "compact" /\ position' = position + 1
  BY <1>1 DEF Pass, Go, Rule
<1>3. TypeOK' /\ SinglesAhead'
  BY <1>1, <1>2 DEF IInv, TypeOK, SinglesAhead, Rule
<1>4. Ascending' /\ NothingLost' /\ NothingDoubled' /\ PairsFit' /\ Closest'
  BY <1>1 DEF IInv, Ascending, NothingLost, NothingDoubled, Has, PairsFit, May, Candidate,
     Closest, NotCloser, Diff
<1>5. ASSUME NEW j \in DOMAIN list, Single(list[position]), Single(list[j])
      PROVE  ~MayBy(rule, list[position][1], list[j][1])
  <2> SUFFICES ASSUME MayBy(rule, list[position][1], list[j][1]) PROVE FALSE
    OBVIOUS
  <2>1. position < j
    <3>1. list[position][1] < list[j][1]
      BY DEF MayBy
    <3>2. list[position][1] \in Txn /\ list[j][1] \in Txn
      BY <1>1, EntryFacts DEF IInv, TypeOK
    <3>3. ~(j <= position)
      BY <3>1, <3>2, <1>1 DEF IInv, Ascending, Txn
    <3> QED
      BY <3>3, <1>1
  <2>2. j \in AddOns(rule, position, Len(list))
    BY <2>1, <1>1, <1>5 DEF AddOns, MayBy
  <2>3. Match(rule, position) = None
    BY <1>5 DEF Pass, MayBy
  <2>4. PICK found : Found(rule, position, Len(list), found) /\ Match(rule, position) = found.match
    BY <1>1, MatchFinds DEF IInv
  <2> QED
    BY <2>2, <2>3, <2>4 DEF Found
<1>6. Settled'
  <2> SUFFICES ASSUME NEW i \in DOMAIN list, NEW j \in DOMAIN list, NEW r \in Rule,
                      Single(list[i]), Single(list[j]),
                      i < position' \/ (i = position' /\ rule' = "hardwood" /\ r = "compact")
               PROVE  ~MayBy(r, list[i][1], list[j][1])
    BY <1>1 DEF Settled, MayBy, Candidate
  <2>1. CASE i < position \/ (i = position /\ rule = "hardwood" /\ r = "compact")
    BY <2>1 DEF IInv, Settled
  <2>2. CASE i = position /\ r = rule
    BY <2>2, <1>5
  <2>3. i < position \/ (i = position /\ (r = rule \/ (rule = "hardwood" /\ r = "compact")))
    BY <1>1, <1>2 DEF Rule
  <2> QED
    BY <2>1, <2>2, <2>3
<1> QED
  BY <1>3, <1>4, <1>6 DEF IInv

LEMMA NextIInv == IInv /\ [Next]_vars => IInv'
<1> SUFFICES ASSUME IInv, [Next]_vars PROVE IInv'
  OBVIOUS
<1>1. CASE UNCHANGED vars
  BY <1>1 DEF vars, IInv, TypeOK, SinglesAhead, Ascending, NothingLost, NothingDoubled, Has,
     PairsFit, May, MayBy, Candidate, Settled, Closest, NotCloser, Diff
<1> QED
  BY <1>1, CombineStep, PassStep DEF Next

LEMMA Invariance == Spec => []IInv
  BY InitIInv, NextIInv, PTL DEF Spec

-----------------------------------------------------------------------------
(* Theorems.                                                               *)

LEMMA InRange == TypeOK => DOMAIN list = 1 .. Len(list) /\ \A i \in DOMAIN list : list[i] \in Entry
  BY DEF TypeOK

\* No transaction of the batch is lost and none is kept twice, whatever is combined
\* (the splice and the push of combineTransactions).
THEOREM NoneLostOrDoubled == Spec => []EachOnce
<1>1. IInv => EachOnce
  <2> SUFFICES ASSUME IInv, NEW t \in Txn
               PROVE  \E i \in DOMAIN list : \E k \in DOMAIN list[i] :
                        /\ list[i][k] = t
                        /\ \A j \in DOMAIN list : \A l \in DOMAIN list[j] :
                              list[j][l] = t => i = j /\ k = l
    BY DEF EachOnce
  <2>1. \A j \in DOMAIN list : \A l \in DOMAIN list[j] :
          list[j][l] = t => Has(j, t) /\ (l = 1 \/ (l = 2 /\ ~Single(list[j])))
    <3> SUFFICES ASSUME NEW j \in DOMAIN list, NEW l \in DOMAIN list[j], list[j][l] = t
                 PROVE  Has(j, t) /\ (l = 1 \/ (l = 2 /\ ~Single(list[j])))
      OBVIOUS
    <3>1. list[j] \in Entry
      BY InRange DEF IInv
    <3>2. Len(list[j]) \in {1, 2} /\ DOMAIN list[j] = 1 .. Len(list[j])
      BY <3>1, EntryFacts
    <3>3. l = 1 \/ (l = 2 /\ Len(list[j]) = 2)
      BY <3>2
    <3> QED
      BY <3>3 DEF Has, Single
  <2>2. PICK i \in DOMAIN list : Has(i, t)
    BY DEF IInv, NothingLost
  <2>3. PICK k \in DOMAIN list[i] : list[i][k] = t
    <3>1. list[i] \in Entry
      BY InRange DEF IInv
    <3>2. Len(list[i]) \in {1, 2} /\ DOMAIN list[i] = 1 .. Len(list[i])
      BY <3>1, EntryFacts
    <3>3. 1 \in DOMAIN list[i] /\ (~Single(list[i]) => 2 \in DOMAIN list[i])
      BY <3>2 DEF Single
    <3> QED
      BY <2>2, <3>3 DEF Has
  <2>4. ASSUME NEW j \in DOMAIN list, NEW l \in DOMAIN list[j], list[j][l] = t
        PROVE  i = j /\ k = l
    <3>1. i = j
      BY <2>1, <2>2, <2>4 DEF IInv, NothingDoubled
    <3>2. ~Single(list[i]) => list[i][1] # list[i][2]
      <4> SUFFICES ASSUME ~Single(list[i]), list[i][1] = list[i][2] PROVE FALSE
        OBVIOUS
      <4>1. list[i][1] < list[i][2]
        BY DEF IInv, PairsFit, May
      <4>2. list[i][1] \in Nat
        BY InRange, EntryFacts DEF IInv, Txn
      <4> QED
        BY <4>1, <4>2
    <3> QED
      BY <3>1, <3>2, <2>1, <2>3, <2>4
  <2> QED
    BY <2>3, <2>4
<1> QED
  BY <1>1, Invariance, PTL

\* What the rules put together goes together (isAcceptable, matchToDescription).
THEOREM PairsAlwaysFit == Spec => []PairsFit
  BY Invariance, PTL DEF IInv

\* One walk is enough: no two of the single transactions that are left would have
\* been combined (combineTransactions does not start again after a splice).
THEOREM WalkIsComplete == Spec => []NothingLeft
<1>1. IInv => NothingLeft
  <2> SUFFICES ASSUME IInv, Over, NEW i \in DOMAIN list, NEW j \in DOMAIN list,
                      Single(list[i]), Single(list[j]), May(list[i][1], list[j][1])
               PROVE  FALSE
    BY DEF NothingLeft
  <2>1. PICK r \in Rule : MayBy(r, list[i][1], list[j][1])
    BY DEF May, MayBy
  <2>2. i < position
    BY InRange DEF IInv, TypeOK, Over
  <2> QED
    BY <2>1, <2>2 DEF IInv, Settled
<1> QED
  BY <1>1, Invariance, PTL

\* Going once through the list with the smallest distance so far finds the closest
\* invoice, whatever is taken later (CombineRule.process).
THEOREM ClosestIsTaken == Spec => []ClosestTaken
<1>1. IInv => ClosestTaken
  <2> SUFFICES ASSUME IInv, NEW i \in DOMAIN list, NEW j \in DOMAIN list, NEW r \in Rule,
                      ~Single(list[i]), j # i, Single(list[j]) \/ list[j][1] > list[i][1],
                      list[i][1] < Last(list[j]),
                      Candidate(r, list[i][1], list[i][2]),
                      Candidate(r, list[i][1], Last(list[j])),
                      Diff(list[i][1], Last(list[j])) # None
               PROVE  /\ Diff(list[i][1], list[i][2]) # None
                      /\ Diff(list[i][1], list[i][2]) <= Diff(list[i][1], Last(list[j]))
    BY DEF ClosestTaken
  <2>1. NotCloser(list[i][1], list[i][2], Last(list[j]))
    BY DEF IInv, Closest
  <2> QED
    BY <2>1 DEF NotCloser
<1> QED
  BY <1>1, Invariance, PTL

-----------------------------------------------------------------------------
(* Pairing implements Grouping.                                            *)

Members(i) == {x \in Txn : Has(i, x)}

LEMMA GroupsAre == IInv => Groups = {Members(i) : i \in DOMAIN list}
<1> SUFFICES ASSUME IInv, NEW i \in DOMAIN list
             PROVE  {list[i][k] : k \in DOMAIN list[i]} = Members(i)
  BY DEF Groups
<1>1. list[i] \in Entry
  BY InRange DEF IInv
<1>2. CASE Single(list[i])
  <2>1. DOMAIN list[i] = 1 .. 1 /\ list[i][1] \in Txn
    BY <1>1, <1>2, EntryFacts DEF Single
  <2> QED
    BY <2>1, <1>2 DEF Members, Has
<1>3. CASE ~Single(list[i])
  <2>1. DOMAIN list[i] = 1 .. 2 /\ list[i][1] \in Txn /\ list[i][2] \in Txn
    BY <1>1, <1>3, EntryFacts DEF Single
  <2>2. 1 .. 2 = {1, 2}
    OBVIOUS
  <2> QED
    BY <2>1, <2>2, <1>3 DEF Members, Has
<1> QED
  BY <1>2, <1>3

GroupsAreMembers == Groups = {Members(i) : i \in DOMAIN list}

\* A combining step merges the two groups; the others move up as they are.
LEMMA CombineMerges ==
  ASSUME IInv, GroupsAreMembers, GroupsAreMembers', Combine
  PROVE  \E t, u \in Txn : GroupingOf!Merge(t, u)
<1>0. PICK p : p = position
  OBVIOUS
<1>1. PICK q \in DOMAIN list, t \in Txn, u \in Txn : Takes(p, q, t, u)
  BY <1>0, CombineTakes
<1>2. /\ p \in DOMAIN list /\ p < q /\ list[p] = <<t>> /\ list[q] = <<u>> /\ MayBy(rule, t, u)
      /\ Len(list') = Len(list) - 1 /\ DOMAIN list' = 1 .. Len(list) - 1
      /\ DOMAIN list = 1 .. Len(list) /\ Len(list) \in Nat /\ rule \in Rule
      /\ \A i \in 1 .. Len(list) - 1 :
           list'[i] = IF i = p THEN <<t, u>> ELSE IF i < q THEN list[i] ELSE list[i + 1]
  <2>1. list' \in Seq(Entry) /\ Len(list') = Len(list) - 1
    BY <1>1 DEF Takes
  <2>2. DOMAIN list' = 1 .. Len(list) - 1
    BY <2>1
  <2>3. DOMAIN list = 1 .. Len(list) /\ Len(list) \in Nat /\ rule \in Rule
    BY DEF IInv, TypeOK
  <2> QED
    BY <2>1, <2>2, <2>3, <1>1 DEF Takes
<1>3. Single(<<t>>) /\ Single(<<u>>) /\ ~Single(<<t, u>>)
  BY DEF Single
<1>4. Members(p) = {t} /\ Members(q) = {u} /\ Members(p)' = {t, u}
  <2>1. list'[p] = <<t, u>>
    BY <1>2
  <2> QED
    BY <2>1, <1>2, <1>3 DEF Members, Has
<1>5. \A i \in DOMAIN list' : i # p =>
        \E k \in DOMAIN list : k # p /\ k # q /\ Members(i)' = Members(k)
  <2> SUFFICES ASSUME NEW i \in DOMAIN list', i # p
               PROVE  \E k \in DOMAIN list : k # p /\ k # q /\ Members(i)' = Members(k)
    OBVIOUS
  <2>1. CASE i < q
    BY <2>1, <1>2 DEF Members, Has
  <2>2. CASE ~(i < q)
    <3>1. i + 1 \in DOMAIN list /\ i + 1 # p /\ i + 1 # q /\ list'[i] = list[i + 1]
      BY <2>2, <1>2
    <3> QED
      BY <3>1 DEF Members, Has
  <2> QED
    BY <2>1, <2>2
<1>6. \A k \in DOMAIN list : k # p /\ k # q =>
        \E i \in DOMAIN list' : Members(i)' = Members(k)
  <2> SUFFICES ASSUME NEW k \in DOMAIN list, k # p, k # q
               PROVE  \E i \in DOMAIN list' : Members(i)' = Members(k)
    OBVIOUS
  <2>1. CASE k < q
    <3>1. k \in DOMAIN list' /\ list'[k] = list[k]
      BY <2>1, <1>2
    <3> QED
      BY <3>1 DEF Members, Has
  <2>2. CASE ~(k < q)
    <3>1. k - 1 \in DOMAIN list' /\ list'[k - 1] = list[k]
      BY <2>2, <1>2
    <3> QED
      BY <3>1 DEF Members, Has
  <2> QED
    BY <2>1, <2>2
<1>7. \A k \in DOMAIN list : k # p /\ k # q => Members(k) # {t} /\ Members(k) # {u}
  <2>1. \A k \in DOMAIN list : \A x \in Txn : Members(k) = {x} => Has(k, x)
    BY DEF Members
  <2>2. Has(p, t) /\ Has(q, u)
    BY <1>2 DEF Has
  <2> QED
    BY <2>1, <2>2, <1>2 DEF IInv, NothingDoubled
<1>8. Groups' = (Groups \ {{t}, {u}}) \cup {{t, u}}
  <2>1. \A g : g \in Groups' <=> \E i \in DOMAIN list' : g = Members(i)'
    BY DEF GroupsAreMembers
  <2>2. \A g : g \in Groups <=> \E i \in DOMAIN list : g = Members(i)
    BY DEF GroupsAreMembers
  <2>3. ASSUME NEW g \in Groups' PROVE g \in (Groups \ {{t}, {u}}) \cup {{t, u}}
    <3>1. PICK i \in DOMAIN list' : g = Members(i)'
      BY <2>1, <2>3
    <3>2. CASE i = p
      BY <3>1, <3>2, <1>4
    <3>3. CASE i # p
      BY <3>1, <3>3, <2>2, <1>5, <1>7
    <3> QED
      BY <3>2, <3>3
  <2>4. ASSUME NEW g \in (Groups \ {{t}, {u}}) \cup {{t, u}} PROVE g \in Groups'
    <3>1. CASE g = {t, u}
      <4>1. p \in DOMAIN list'
        BY <1>2
      <4> QED
        BY <3>1, <4>1, <2>1, <1>4
    <3>2. CASE g \in Groups /\ g # {t} /\ g # {u}
      <4>1. PICK k \in DOMAIN list : g = Members(k)
        BY <3>2, <2>2
      <4>2. k # p /\ k # q
        BY <3>2, <4>1, <1>4
      <4> QED
        BY <4>1, <4>2, <2>1, <1>6
    <3> QED
      BY <2>4, <3>1, <3>2
  <2> QED
    BY <2>3, <2>4
<1>9. {t} \in Groups /\ {u} \in Groups
  BY <1>2, <1>4 DEF GroupsAreMembers
<1>10. t # u /\ u \in Goes[t] /\ Goes' = Goes
  <2>1. t < u /\ May(t, u) /\ trans' = trans
    BY <1>2 DEF MayBy, May, Combine
  <2> QED
    BY <2>1 DEF Goes, May, Candidate, Txn
<1> QED
  BY <1>8, <1>9, <1>10 DEF GroupingOf!Merge

\* combineTransactions keeps the promise of Grouping: it starts with single
\* transactions, merges one pair at a time and does not touch a pair again.
THEOREM PairingRefinesGrouping == Spec => RefinesGrouping
<1>1. Init => GroupingOf!Init
  <2> SUFFICES ASSUME Init PROVE GroupingOf!Init
    OBVIOUS
  <2>1. list = [t \in Txn |-> <<t>>] /\ DOMAIN <<0>> = {1}
    BY DEF Init
  <2>2. \A t \in Txn : {list[t][k] : k \in DOMAIN list[t]} = {t}
    <3> TAKE t \in Txn
    <3>1. list[t] = <<t>> /\ DOMAIN <<t>> = 1 .. 1
      BY <2>1
    <3> QED
      BY <3>1
  <2>3. Groups = {{t} : t \in Txn}
    <3>1. DOMAIN list = Txn
      BY <2>1
    <3> QED
      BY <2>2, <3>1 DEF Groups
  <2> QED
    BY <2>3 DEF GroupingOf!Init, GroupingOf!Singles, Goes
<1>2. IInv /\ GroupsAreMembers /\ GroupsAreMembers' /\ [Next]_vars
        => [GroupingOf!Next]_<<Groups, Goes>>
  <2> SUFFICES ASSUME IInv, GroupsAreMembers, GroupsAreMembers', [Next]_vars
               PROVE  [GroupingOf!Next]_<<Groups, Goes>>
    OBVIOUS
  <2>1. CASE Combine
    BY <2>1, CombineMerges DEF GroupingOf!Next
  <2>2. CASE UNCHANGED <<trans, list>>
    BY <2>2 DEF Groups, Goes, May, Candidate
  <2> QED
    BY <2>1, <2>2 DEF Next, Pass, vars
<1>3. IInv => GroupsAreMembers
  BY GroupsAre DEF GroupsAreMembers
<1> QED
  BY <1>1, <1>2, <1>3, Invariance, PTL DEF Spec, RefinesGrouping, GroupingOf!Spec

\* Whoever keeps the promise of Grouping neither loses a transaction nor doubles one,
\* so the groups of the cron run are a partition of its batch: what CronRun assumes
\* of combineTransactions.
THEOREM GroupsPartition == Spec => []GroupingOf!Partition
<1>1. GroupingOf!Init => GroupingOf!Partition
  BY DEF GroupingOf!Init, GroupingOf!Singles, GroupingOf!Partition
<1>2. GroupingOf!Partition /\ [GroupingOf!Next]_<<Groups, Goes>> => GroupingOf!Partition'
  <2> SUFFICES ASSUME GroupingOf!Partition, NEW t \in Txn, NEW u \in Txn, GroupingOf!Merge(t, u)
               PROVE  GroupingOf!Partition'
    BY DEF GroupingOf!Next, GroupingOf!Partition
  <2>1. /\ {t} \in Groups /\ {u} \in Groups
        /\ Groups' = (Groups \ {{t}, {u}}) \cup {{t, u}}
    BY DEF GroupingOf!Merge
  <2>2. UNION Groups' = Txn
    <3>1. ASSUME NEW x \in Txn PROVE \E g \in Groups' : x \in g
      <4>1. PICK g \in Groups : x \in g
        BY DEF GroupingOf!Partition
      <4>2. CASE g \in {{t}, {u}}
        <5>1. x \in {t, u} /\ {t, u} \in Groups'
          BY <2>1, <4>1, <4>2
        <5> QED
          BY <5>1
      <4>3. CASE g \notin {{t}, {u}}
        <5>1. g \in Groups'
          BY <2>1, <4>3
        <5> QED
          BY <4>1, <5>1
      <4> QED
        BY <4>2, <4>3
    <3>2. ASSUME NEW g \in Groups' PROVE g \subseteq Txn
      BY <2>1 DEF GroupingOf!Partition
    <3> QED
      BY <3>1, <3>2
  <2>3. ASSUME NEW g \in Groups', NEW h \in Groups', g # h PROVE g \cap h = {}
    <3>1. \A k \in Groups : k \notin {{t}, {u}} => k \cap {t, u} = {}
      BY <2>1 DEF GroupingOf!Partition
    <3> QED
      BY <3>1, <2>1, <2>3 DEF GroupingOf!Partition
  <2> QED
    BY <2>2, <2>3 DEF GroupingOf!Partition
<1> QED
  BY <1>1, <1>2, PairingRefinesGrouping, PTL DEF RefinesGrouping, GroupingOf!Spec

=============================================================================
