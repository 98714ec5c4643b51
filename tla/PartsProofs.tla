----------------------------- MODULE PartsProofs -----------------------------
(***************************************************************************)
(* Theorems about what the workshop gets: the orders that an order of the  *)
(* shop is split into (Splitting), for any number of products, any numbers *)
(* of pieces, any prices and any of the products extra parts; and their    *)
(* labels (Labels), for any tables of groups and products and any names.   *)
(***************************************************************************)
EXTENDS Splitting, Labels, Sums

-----------------------------------------------------------------------------
(* Sums over the items of an order.                                        *)

\* A number of the products, 0 where there is none.
Unit(f) == [p \in Product |-> IF f[p] = NaN THEN 0 ELSE f[p]]

One(x) == [p \in Product |-> IF p = x THEN 1 ELSE 0]

\* What the products of an entry hold of u, with the quantities q.
Values(u, products, q) == [k \in 1 .. Len(products) |-> u[products[k]] * q[products[k]]]
Part(u, products, q) == SumOf(Values(u, products, q), 1 .. Len(products))

\* What all of them hold.
Weighted(u, q) == [p \in Product |-> u[p] * q[p]]
All(u, q) == SumOf(Weighted(u, q), Product)

LEMMA SumIsSumOf == ASSUME NEW f PROVE Sum(f) = SumOf(f, DOMAIN f)
  BY DEF Sum, SumOf

LEMMA NatTimes == ASSUME NEW a \in Nat, NEW b \in Nat PROVE a * b \in Nat
  OBVIOUS

LEMMA UnitIs ==
  ASSUME NEW f \in [Product -> Number]
  PROVE  /\ Unit(f) \in [Product -> Nat]
         /\ \A p \in Product : \A n \in Nat : Times(f[p], n) = Unit(f)[p] * n
<1>1. \A p \in Product : f[p] \in Nat \/ f[p] = NaN
  BY DEF Number
<1> QED
  BY <1>1 DEF Unit, Times, NaN

LEMMA ValuesType ==
  ASSUME NEW u \in [Product -> Nat], NEW q \in [Product -> Nat], NEW products \in Seq(Product)
  PROVE  /\ Len(products) \in Nat
         /\ \A k \in 1 .. Len(products) : Values(u, products, q)[k] \in Nat
         /\ Part(u, products, q) \in Nat
<1>1. Len(products) \in Nat /\ \A k \in 1 .. Len(products) : products[k] \in Product
  OBVIOUS
<1>2. \A k \in 1 .. Len(products) : Values(u, products, q)[k] \in Nat
  BY <1>1, NatTimes DEF Values
<1>3. IsFiniteSet(1 .. Len(products))
  BY <1>1, FS_Interval
<1> DEFINE D == 1 .. Len(products)
           v == Values(u, products, q)
<1> HIDE DEF D, v
<1>4. SumOf(v, D) \in Nat
  BY <1>2, <1>3, SumNat DEF D, v
<1> QED
  BY <1>1, <1>2, <1>4 DEF Part, D, v

\* getTaxAmount and the like, as sums over a set.
LEMMA TotalIs ==
  ASSUME NEW f \in [Product -> Number], NEW q \in [Product -> Nat], NEW products \in Seq(Product)
  PROVE  Total(f, GetOrderItems(products, q)) = Part(Unit(f), products, q)
<1> DEFINE items == GetOrderItems(products, q)
           n == Len(products)
           v == Values(Unit(f), products, q)
<1>1. /\ n \in Nat /\ DOMAIN items = 1 .. n /\ \A i \in 1 .. n : v[i] \in Nat
      /\ \A i \in 1 .. n : products[i] \in Product
  <2>1. n \in Nat /\ DOMAIN items = 1 .. n /\ \A i \in 1 .. n : products[i] \in Product
    BY DEF GetOrderItems
  <2>2. Unit(f) \in [Product -> Nat]
    BY UnitIs
  <2>3. \A i \in 1 .. n : v[i] \in Nat
    BY <2>2, ValuesType
  <2> QED
    BY <2>1, <2>3
<1>2. \A i \in 1 .. n : Times(f[items[i].product], items[i].quantity) = v[i]
  <2> TAKE i \in 1 .. n
  <2>1. items[i].product = products[i] /\ items[i].quantity = q[products[i]]
    BY <1>1 DEF GetOrderItems
  <2>2. q[products[i]] \in Nat
    BY <1>1
  <2> QED
    BY <1>1, <2>1, <2>2, UnitIs DEF Values
<1> HIDE DEF items, n, v
<1>3. \A i \in 1 .. n : v[i] \in Int
  BY <1>1
<1>4. PICK g : IsSumLoop(g, n, v)
  BY <1>1, <1>3, SumLoop
<1>5. \A s \in SUBSET (1 .. n) : s # {} => Max(s) \in 1 .. n
  <2> TAKE s \in SUBSET (1 .. n)
  <2> HAVE s # {}
  <2>1. IsFiniteSet(1 .. n) /\ s \in SUBSET Int
    BY <1>1, FS_Interval
  <2>2. Max(s) \in s
    BY <2>1, FS_Subset, MaxIsIn
  <2> QED
    BY <2>2
<1>6. g = [s \in SUBSET DOMAIN items |->
             IF s = {} THEN 0
             ELSE g[s \ {Max(s)}] + Times(f[items[Max(s)].product], items[Max(s)].quantity)]
  BY <1>1, <1>2, <1>4, <1>5 DEF IsSumLoop
<1>7. PICK h : /\ h = [s \in SUBSET DOMAIN items |->
                         IF s = {} THEN 0
                         ELSE h[s \ {Max(s)}] + Times(f[items[Max(s)].product], items[Max(s)].quantity)]
               /\ Total(f, items) = h[DOMAIN items]
  BY <1>6 DEF Total, FoldLeft, MapThenFoldSet
<1>8. IsSumLoop(h, n, v)
  BY <1>1, <1>2, <1>5, <1>7 DEF IsSumLoop
<1>9. h[1 .. n] = SumOf(v, 1 .. n)
  BY <1>1, <1>3, <1>8, SumLoop
<1> QED
  BY <1>1, <1>7, <1>9 DEF items, n, v, Part

LEMMA PiecesInIs ==
  ASSUME NEW x \in Product, NEW q \in [Product -> Nat], NEW products \in Seq(Product)
  PROVE  PiecesIn(GetOrderItems(products, q), x) = Part(One(x), products, q)
<1> DEFINE items == GetOrderItems(products, q)
           n == Len(products)
           v == Values(One(x), products, q)
           w == [k \in DOMAIN items |-> IF items[k].product = x THEN items[k].quantity ELSE 0]
<1>1. n \in Nat /\ DOMAIN items = 1 .. n /\ \A i \in 1 .. n : products[i] \in Product
  BY DEF GetOrderItems
<1>2. \A i \in 1 .. n : w[i] = v[i]
  <2> TAKE i \in 1 .. n
  <2>1. items[i].product = products[i] /\ items[i].quantity = q[products[i]]
    BY <1>1 DEF GetOrderItems
  <2>2. q[products[i]] \in Nat /\ One(x)[products[i]] = IF products[i] = x THEN 1 ELSE 0
    BY <1>1 DEF One
  <2>3. v[i] = One(x)[products[i]] * q[products[i]] /\ w[i] = IF products[i] = x THEN q[products[i]] ELSE 0
    BY <1>1, <2>1 DEF Values
  <2> HIDE DEF v, w
  <2> QED
    BY <2>2, <2>3
<1>3. w = v
  BY <1>1, <1>2 DEF Values
<1>4. DOMAIN w = 1 .. n /\ PiecesIn(items, x) = Sum(w)
  BY <1>1 DEF PiecesIn
<1>5. Part(One(x), products, q) = SumOf(v, 1 .. n)
  BY DEF Part
<1> HIDE DEF items, w, v, n
<1>6. PiecesIn(items, x) = SumOf(v, 1 .. n)
  BY <1>3, <1>4, SumIsSumOf
<1> QED
  BY <1>5, <1>6 DEF items

-----------------------------------------------------------------------------
(* The products of the order.                                              *)

LEMMA ListFacts ==
  /\ Len(List) \in Nat /\ List \in Seq(Product) /\ DOMAIN List = 1 .. Len(List)
  /\ \A i, j \in 1 .. Len(List) : List[i] = List[j] => i = j
  /\ Product = {List[i] : i \in 1 .. Len(List)} /\ IsFiniteSet(Product)
<1>1. /\ Len(List) \in Nat /\ List \in Seq(Product) /\ DOMAIN List = 1 .. Len(List)
      /\ \A i, j \in 1 .. Len(List) : List[i] = List[j] => i = j
  BY SplittingAssumption DEF IsInjective
<1>2. Product = {List[i] : i \in 1 .. Len(List)}
  BY <1>1, SplittingAssumption DEF Range
<1>3. IsFiniteSet({List[i] : i \in 1 .. Len(List)})
  <2> DEFINE D == 1 .. Len(List)
             T == {k \in Nat : k <= Len(List) => IsFiniteSet({List[i] : i \in 1 .. k})}
  <2>1. 0 \in T
    <3>1. {List[i] : i \in 1 .. 0} = {}
      OBVIOUS
    <3> QED
      BY <3>1, FS_EmptySet
  <2>2. \A k \in Nat : k \in T => k + 1 \in T
    <3> TAKE k \in Nat
    <3> HAVE k \in T
    <3>1. k + 1 <= Len(List) => k <= Len(List)
      BY <1>1
    <3>2. 1 .. k + 1 = (1 .. k) \cup {k + 1}
      OBVIOUS
    <3>3. {List[i] : i \in 1 .. k + 1} = {List[i] : i \in 1 .. k} \cup {List[k + 1]}
      BY <3>2
    <3>4. PICK U, x : U = {List[i] : i \in 1 .. k} /\ x = List[k + 1]
      OBVIOUS
    <3>5. IsFiniteSet(U) => IsFiniteSet(U \cup {x})
      BY FS_AddElement
    <3>6. k + 1 <= Len(List) => IsFiniteSet({List[i] : i \in 1 .. k + 1})
      <4> SUFFICES ASSUME k + 1 <= Len(List) PROVE IsFiniteSet({List[i] : i \in 1 .. k + 1})
        OBVIOUS
      <4>1. IsFiniteSet(U)
        BY <3>1, <3>4
      <4>2. {List[i] : i \in 1 .. k + 1} = U \cup {x}
        BY <3>3, <3>4
      <4> QED
        BY <4>1, <4>2, <3>5
    <3> QED
      BY <3>6
  <2> HIDE DEF T
  <2>3. \A k \in Nat : k \in T
    BY <2>1, <2>2, SetInduction
  <2> QED
    BY <2>3, <1>1 DEF T
<1> QED
  BY <1>1, <1>2, <1>3

LEMMA AllType ==
  ASSUME NEW u \in [Product -> Nat], NEW q \in [Product -> Nat], NEW S \in SUBSET Product
  PROVE  /\ IsFiniteSet(S) /\ \A p \in Product : Weighted(u, q)[p] \in Nat
         /\ SumOf(Weighted(u, q), S) \in Nat
<1>1. IsFiniteSet(S)
  BY ListFacts, FS_Subset
<1>2. \A p \in Product : Weighted(u, q)[p] \in Nat
  BY NatTimes DEF Weighted
<1> DEFINE w == Weighted(u, q)
<1> HIDE DEF w
<1>3. \A p \in S : w[p] \in Nat
  BY <1>2 DEF w
<1>4. SumOf(w, S) \in Nat
  BY <1>1, <1>3, SumNat
<1> QED
  BY <1>1, <1>2, <1>4 DEF w

\* The products as they stand in the list.
LEMMA ListIsAll ==
  ASSUME NEW u \in [Product -> Nat], NEW q \in [Product -> Nat]
  PROVE  Part(u, List, q) = All(u, q)
<1> DEFINE w == Weighted(u, q)
           v == Values(u, List, q)
           n == Len(List)
<1>1. \A i \in 1 .. n : v[i] = w[List[i]] /\ w[List[i]] \in Int
  BY ListFacts, NatTimes DEF Values, Weighted
<1> HIDE DEF w, v
<1>2. /\ n \in Nat /\ \A i, j \in 1 .. n : List[i] = List[j] => i = j
      /\ Product = Named(List, n)
  BY ListFacts DEF Named
<1>3. \A i \in 1 .. n : w[List[i]] \in Int
  BY <1>1
<1>4. \A i \in 1 .. n : v[i] = w[List[i]]
  BY <1>1
<1>5. SumOf(v, 1 .. n) = SumOf(w, Product)
  BY ONLY <1>2, <1>3, <1>4, SumAlong
<1> QED
  BY <1>5 DEF Part, All, w, v

LEMMA WholeIs ==
  ASSUME NEW f \in [Product -> Number], bought.quantity \in [Product -> Nat]
  PROVE  Whole(f) = All(Unit(f), bought.quantity)
<1>1. [p \in Product |-> Times(f[p], bought.quantity[p])] = Weighted(Unit(f), bought.quantity)
  BY UnitIs DEF Weighted
<1> DEFINE w == Weighted(Unit(f), bought.quantity)
<1>2. Whole(f) = Sum(w) /\ DOMAIN w = Product /\ All(Unit(f), bought.quantity) = SumOf(w, Product)
  BY <1>1 DEF Whole, All, Weighted
<1> HIDE DEF w
<1> QED
  BY <1>2, SumIsSumOf

-----------------------------------------------------------------------------
(* Splitting: what the loop has made of the first k products.              *)

Rest == Product \ bought.extra
Piece == {<<p>> : p \in Rest}
Pushed == [result : Seq(Piece), miscShipping : Seq(bought.extra)]

\* Of a sequence of pieces, what they hold of u.
PieceValues(u, result) == [i \in 1 .. Len(result) |-> u[result[i][1]]]
OfPieces(u, result) == SumOf(PieceValues(u, result), 1 .. Len(result))

Good(to, k) ==
    /\ to \in Pushed
    /\ \A i \in 1 .. k : List[i] \in bought.extra => \E j \in 1 .. Len(to.miscShipping) : to.miscShipping[j] = List[i]
    /\ \A u \in [Product -> Nat] :
          OfPieces(u, to.result) + Part(u, to.miscShipping, quantity)
            = SumOf(Weighted(u, quantity), Named(List, k))

\* What the loop works with.
Bought ==
    /\ bought \in [quantity : [Product -> Nat], extra : SUBSET Product]
    /\ quantity = bought.quantity

LEMMA OfPiecesType ==
  ASSUME Bought, NEW u \in [Product -> Nat], NEW result \in Seq(Piece)
  PROVE  /\ Len(result) \in Nat
         /\ \A i \in 1 .. Len(result) :
              /\ result[i] \in Piece /\ result[i][1] \in Rest
              /\ PieceValues(u, result)[i] = u[result[i][1]] /\ u[result[i][1]] \in Nat
         /\ OfPieces(u, result) \in Nat
<1> DEFINE D == 1 .. Len(result)
           v == PieceValues(u, result)
<1>1. Len(result) \in Nat /\ \A i \in D : result[i] \in Piece /\ result[i][1] \in Rest
  BY DEF Piece
<1>2. \A i \in D : v[i] = u[result[i][1]] /\ u[result[i][1]] \in Nat
  BY <1>1 DEF PieceValues, Rest
<1>3. IsFiniteSet(D)
  BY <1>1, FS_Interval
<1> HIDE DEF D, v
<1>4. SumOf(v, D) \in Nat
  BY <1>2, <1>3, SumNat
<1> QED
  BY <1>1, <1>2, <1>4 DEF OfPieces, D, v

\* The sums of the products that were seen.
LEMMA SeenTurn ==
  ASSUME NEW u \in [Product -> Nat], NEW q \in [Product -> Nat], NEW k \in 0 .. Len(List) - 1
  PROVE  /\ SumOf(Weighted(u, q), Named(List, k + 1))
              = SumOf(Weighted(u, q), Named(List, k)) + u[List[k + 1]] * q[List[k + 1]]
         /\ SumOf(Weighted(u, q), Named(List, k)) \in Nat
<1> DEFINE S == Named(List, k)
           x == List[k + 1]
           w == Weighted(u, q)
<1>1. k \in Nat /\ k + 1 \in 1 .. Len(List) /\ \A i \in 1 .. k : i \in 1 .. Len(List) /\ i # k + 1
  BY ListFacts
<1>2. x \in Product /\ S \in SUBSET Product /\ x \notin S
  BY <1>1, ListFacts DEF Named
<1>3. Named(List, k + 1) = S \cup {x}
  <2>1. 1 .. k + 1 = (1 .. k) \cup {k + 1}
    BY <1>1
  <2> QED
    BY <2>1 DEF Named
<1>4. w[x] = u[x] * q[x]
  BY <1>2 DEF Weighted
<1>5. IsFiniteSet(S) /\ SumOf(w, S) \in Nat /\ \A p \in Product : w[p] \in Int
  <2> HIDE DEF S
  <2>1. IsFiniteSet(S) /\ SumOf(w, S) \in Nat
    BY <1>2, AllType
  <2>2. \A p \in Product : w[p] \in Nat
    BY AllType
  <2> HIDE DEF w
  <2> QED
    BY <2>1, <2>2
<1> HIDE DEF S, x, w
<1>6. SumOf(w, S \cup {x}) = SumOf(w, S) + w[x]
  BY <1>2, <1>5, SumAdd
<1> QED
  BY <1>3, <1>4, <1>5, <1>6 DEF S, x, w

\* The pieces of a product that is no extra part.
LEMMA PiecesTurn ==
  ASSUME Bought, NEW result \in Seq(Piece), NEW p \in Rest
  PROVE  /\ result \o Pieces(p) \in Seq(Piece)
         /\ \A u \in [Product -> Nat] :
              OfPieces(u, result \o Pieces(p)) = OfPieces(u, result) + u[p] * quantity[p]
<1> DEFINE n == quantity[p]
           m == Len(result)
           more == result \o Pieces(p)
<1>1. n \in Nat /\ p \in Product /\ m \in Nat
  BY DEF Bought, Rest
<1>2. Pieces(p) \in Seq(Piece) /\ Len(Pieces(p)) = n /\ \A i \in 1 .. n : Pieces(p)[i] = <<p>>
  <2>1. Pieces(p) \in [1 .. n -> Piece] /\ \A i \in 1 .. n : Pieces(p)[i] = <<p>>
    BY DEF Pieces, Piece
  <2> HIDE DEF n
  <2>2. Pieces(p) \in Seq(Piece)
    BY <1>1, <2>1, SeqDef
  <2>3. 1 .. Len(Pieces(p)) = 1 .. n /\ Len(Pieces(p)) \in Nat
    BY <2>1, <2>2, LenProperties
  <2>4. Len(Pieces(p)) = n
    BY <1>1, <2>3
  <2> QED
    BY <2>1, <2>2, <2>4
<1>3. /\ more \in Seq(Piece) /\ Len(more) = m + n
      /\ \A i \in 1 .. m : more[i] = result[i]
      /\ \A i \in m + 1 .. m + n : more[i] = <<p>>
  <2> HIDE DEF n
  <2>1. more \in Seq(Piece) /\ Len(more) = m + n /\ \A i \in 1 .. m : more[i] = result[i]
    BY <1>1, <1>2
  <2>2. ASSUME NEW i \in m + 1 .. m + n PROVE more[i] = <<p>>
    <3>1. i - m \in 1 .. n /\ more[i] = Pieces(p)[i - m]
      BY <1>1, <1>2
    <3> QED
      BY <3>1, <1>2
  <2> QED
    BY <2>1, <2>2
<1> HIDE DEF more, m, n
<1>4. ASSUME NEW u \in [Product -> Nat]
      PROVE  OfPieces(u, more) = OfPieces(u, result) + u[p] * quantity[p]
  <2> DEFINE v == PieceValues(u, more)
             w == PieceValues(u, result)
             c == u[p]
  <2>1. /\ \A i \in 1 .. m : w[i] = u[result[i][1]] /\ w[i] \in Int
        /\ OfPieces(u, result) = SumOf(w, 1 .. m)
    BY OfPiecesType DEF OfPieces, m
  <2>2. /\ \A i \in 1 .. m + n : v[i] = u[more[i][1]]
        /\ OfPieces(u, more) = SumOf(v, 1 .. m + n)
    BY <1>3 DEF PieceValues, OfPieces
  <2>3. \A i \in 1 .. m : v[i] = w[i]
    BY <1>1, <1>3, <2>1, <2>2
  <2>4. \A i \in m + 1 .. m + n : v[i] = c
    BY <1>1, <1>3, <2>2
  <2>5. c \in Int
    BY <1>1
  <2> HIDE DEF v, w, c
  <2>6. SumOf(v, 1 .. m + n) = SumOf(v, 1 .. m) + n * c
    <3>1. \A i \in 1 .. m : v[i] \in Int
      BY <2>1, <2>3
    <3> QED
      BY <1>1, <3>1, <2>4, <2>5, SumCopies
  <2>7. SumOf(v, 1 .. m) = SumOf(w, 1 .. m)
    <3>1. IsFiniteSet(1 .. m)
      BY <1>1, FS_Interval
    <3> QED
      BY <3>1, <2>1, <2>3, SumAgrees
  <2>8. n * c = u[p] * quantity[p]
    BY <1>1, <2>5 DEF c, n
  <2> QED
    BY <2>1, <2>2, <2>6, <2>7, <2>8
<1> QED
  BY <1>3, <1>4 DEF more

\* An extra part goes to the others.
LEMMA PartTurn ==
  ASSUME Bought, NEW misc \in Seq(bought.extra), NEW p \in bought.extra, NEW u \in [Product -> Nat]
  PROVE  Part(u, Append(misc, p), quantity) = Part(u, misc, quantity) + u[p] * quantity[p]
<1> DEFINE m == Len(misc)
           more == Append(misc, p)
           v == Values(u, more, quantity)
           w == Values(u, misc, quantity)
<1>1. /\ more \in Seq(Product) /\ misc \in Seq(Product) /\ quantity \in [Product -> Nat]
      /\ m \in Nat /\ Len(more) = m + 1 /\ more[m + 1] = p /\ \A i \in 1 .. m : more[i] = misc[i]
  BY DEF Bought
<1> HIDE DEF more, m
<1>2. \A i \in 1 .. m + 1 : v[i] \in Int
  <2>1. \A i \in 1 .. Len(more) : v[i] \in Nat
    BY <1>1, ValuesType
  <2> HIDE DEF v
  <2> QED
    BY <1>1, <2>1
<1>3. v[m + 1] = u[p] * quantity[p]
  <2>1. m + 1 \in 1 .. Len(more)
    BY <1>1
  <2> QED
    BY <1>1, <2>1 DEF Values
<1>4. \A i \in 1 .. m : v[i] = w[i] /\ w[i] \in Int
  <2>1. \A i \in 1 .. m : i \in 1 .. Len(more) /\ i \in 1 .. Len(misc)
    BY <1>1 DEF m
  <2>2. \A i \in 1 .. m : v[i] = w[i]
    BY <1>1, <2>1 DEF Values
  <2>3. \A i \in 1 .. Len(misc) : w[i] \in Nat
    BY <1>1, ValuesType
  <2> HIDE DEF v, w
  <2> QED
    BY <2>1, <2>2, <2>3
<1> HIDE DEF v, w
<1>5. SumOf(v, 1 .. m + 1) = SumOf(v, 1 .. m) + v[m + 1]
  BY <1>1, <1>2, SumUp
<1>6. SumOf(v, 1 .. m) = SumOf(w, 1 .. m)
  <2>1. IsFiniteSet(1 .. m)
    BY <1>1, FS_Interval
  <2> QED
    BY <2>1, <1>4, SumAgrees
<1>7. Part(u, more, quantity) = SumOf(v, 1 .. m + 1) /\ Part(u, misc, quantity) = SumOf(w, 1 .. m)
  BY <1>1 DEF Part, v, w, m
<1> QED
  BY <1>3, <1>5, <1>6, <1>7 DEF more

LEMMA PushTurn ==
  ASSUME Bought, NEW k \in 0 .. Len(List) - 1, NEW to, Good(to, k)
  PROVE  Good(Push(to, List[k + 1]), k + 1)
<1> DEFINE p == List[k + 1]
           more == Push(to, p)
<1>1. p \in Product /\ 1 .. k + 1 = (1 .. k) \cup {k + 1} /\ k \in Nat
  BY ListFacts
<1>2. to \in Pushed /\ quantity \in [Product -> Nat] /\ bought.extra \subseteq Product
  BY DEF Good, Bought
<1>3. to.result \in Seq(Piece) /\ to.miscShipping \in Seq(bought.extra) /\ to.miscShipping \in Seq(Product)
  BY <1>2 DEF Pushed
<1>4. ASSUME NEW u \in [Product -> Nat]
      PROVE  /\ OfPieces(u, to.result) \in Nat /\ Part(u, to.miscShipping, quantity) \in Nat
             /\ u[p] * quantity[p] \in Nat
             /\ OfPieces(u, to.result) + Part(u, to.miscShipping, quantity) + u[p] * quantity[p]
                  = SumOf(Weighted(u, quantity), Named(List, k + 1))
  <2>1. OfPieces(u, to.result) \in Nat
    BY <1>3, OfPiecesType
  <2>2. Part(u, to.miscShipping, quantity) \in Nat
    BY <1>2, <1>3, ValuesType
  <2>3. u[p] * quantity[p] \in Nat
    BY <1>1, <1>2, NatTimes
  <2>4. SumOf(Weighted(u, quantity), Named(List, k + 1))
          = SumOf(Weighted(u, quantity), Named(List, k)) + u[p] * quantity[p]
    BY <1>2, SeenTurn
  <2> QED
    BY <2>1, <2>2, <2>3, <2>4 DEF Good
<1> HIDE DEF p
<1>5. CASE p \in bought.extra
  <2>1. more = [result |-> to.result, miscShipping |-> Append(to.miscShipping, p)]
    BY <1>2, <1>5 DEF Push, Pushed
  <2>2. more \in Pushed
    <3>1. Append(to.miscShipping, p) \in Seq(bought.extra)
      <4>1. PICK E, misc : E = bought.extra /\ misc = to.miscShipping
        OBVIOUS
      <4>2. misc \in Seq(E) /\ p \in E
        BY <4>1, <1>3, <1>5
      <4>3. Append(misc, p) \in Seq(E)
        BY <4>2
      <4> QED
        BY <4>1, <4>3
    <3> QED
      BY <1>3, <2>1, <3>1 DEF Pushed
  <2>3. ASSUME NEW i \in 1 .. k + 1, List[i] \in bought.extra
        PROVE  \E j \in 1 .. Len(more.miscShipping) : more.miscShipping[j] = List[i]
    <3>1. /\ Len(more.miscShipping) = Len(to.miscShipping) + 1 /\ Len(to.miscShipping) \in Nat
          /\ more.miscShipping[Len(to.miscShipping) + 1] = p
          /\ \A j \in 1 .. Len(to.miscShipping) : more.miscShipping[j] = to.miscShipping[j]
      BY <1>3, <2>1
    <3>2. CASE i = k + 1
      BY <3>1, <3>2 DEF p
    <3>3. CASE i \in 1 .. k
      <4>1. PICK j \in 1 .. Len(to.miscShipping) : to.miscShipping[j] = List[i]
        BY <2>3, <3>3 DEF Good
      <4> QED
        BY <3>1, <4>1
    <3> QED
      BY <1>1, <3>2, <3>3
  <2>4. ASSUME NEW u \in [Product -> Nat]
        PROVE  OfPieces(u, more.result) + Part(u, more.miscShipping, quantity)
                 = SumOf(Weighted(u, quantity), Named(List, k + 1))
    <3>1. Part(u, Append(to.miscShipping, p), quantity)
            = Part(u, to.miscShipping, quantity) + u[p] * quantity[p]
      BY <1>3, <1>5, PartTurn
    <3>2. more.result = to.result /\ more.miscShipping = Append(to.miscShipping, p)
      BY <2>1
    <3> HIDE DEF more
    <3> QED
      BY <3>1, <3>2, <1>4
  <2> QED
    BY <2>2, <2>3, <2>4 DEF Good, p
<1>6. CASE p \notin bought.extra
  <2>0. p \in Rest
    BY <1>1, <1>6 DEF Rest
  <2>1. more = [result |-> to.result \o Pieces(p), miscShipping |-> to.miscShipping]
    BY <1>2, <1>6 DEF Push, Pushed
  <2>2. more \in Pushed
    BY <1>3, <2>0, <2>1, PiecesTurn DEF Pushed
  <2>3. ASSUME NEW i \in 1 .. k + 1, List[i] \in bought.extra
        PROVE  \E j \in 1 .. Len(more.miscShipping) : more.miscShipping[j] = List[i]
    <3>1. i \in 1 .. k
      BY <1>1, <1>6, <2>3 DEF p
    <3> QED
      BY <3>1, <2>1, <2>3 DEF Good
  <2>4. ASSUME NEW u \in [Product -> Nat]
        PROVE  OfPieces(u, more.result) + Part(u, more.miscShipping, quantity)
                 = SumOf(Weighted(u, quantity), Named(List, k + 1))
    <3>1. OfPieces(u, to.result \o Pieces(p)) = OfPieces(u, to.result) + u[p] * quantity[p]
      BY <1>3, <2>0, PiecesTurn
    <3>2. more.result = to.result \o Pieces(p) /\ more.miscShipping = to.miscShipping
      BY <2>1
    <3> HIDE DEF more
    <3> QED
      BY <3>1, <3>2, <1>4
  <2> QED
    BY <2>2, <2>3, <2>4 DEF Good, p
<1> QED
  BY <1>5, <1>6 DEF p

Loop == FoldLeft(Push, [result |-> <<>>, miscShipping |-> <<>>], List)

LEMMA LoopGood == ASSUME Bought PROVE Good(Loop, Len(List))
<1> DEFINE n == Len(List)
           A == Pushed
           base == [result |-> <<>>, miscShipping |-> <<>>]
           F == [x \in (1 .. n) \X A |-> Push(x[2], List[x[1]])]
<1>1. n \in Nat /\ DOMAIN List = 1 .. n /\ \A i \in 1 .. n : List[i] \in Product
  BY ListFacts
<1>2. base \in A
  BY DEF Pushed
<1>3. ASSUME NEW to \in A, NEW p \in Product PROVE Push(to, p) \in A
  <2>1. to.result \in Seq(Piece) /\ to.miscShipping \in Seq(bought.extra)
    BY DEF Pushed
  <2>2. CASE p \in bought.extra
    <3>1. Append(to.miscShipping, p) \in Seq(bought.extra)
      <4>1. PICK E, misc : E = bought.extra /\ misc = to.miscShipping
        OBVIOUS
      <4>2. misc \in Seq(E) /\ p \in E
        BY <4>1, <2>1, <2>2
      <4>3. Append(misc, p) \in Seq(E)
        BY <4>2
      <4> QED
        BY <4>1, <4>3
    <3>2. Push(to, p) = [result |-> to.result, miscShipping |-> Append(to.miscShipping, p)]
      BY <2>2 DEF Push, Pushed
    <3> QED
      BY <2>1, <3>1, <3>2 DEF Pushed
  <2>3. CASE p \notin bought.extra
    <3>1. p \in Rest
      BY <2>3 DEF Rest
    <3>2. to.result \o Pieces(p) \in Seq(Piece)
      BY <2>1, <3>1, PiecesTurn
    <3>3. Push(to, p) = [result |-> to.result \o Pieces(p), miscShipping |-> to.miscShipping]
      BY <2>3 DEF Push, Pushed
    <3> QED
      BY <2>1, <3>2, <3>3 DEF Pushed
  <2> QED
    BY <2>2, <2>3
<1> HIDE DEF n, A, base
<1>4. F \in [(1 .. n) \X A -> A]
  BY <1>1, <1>3
<1>5. PICK g \in [SUBSET (1 .. n) -> A] : IsLoop(g, n, base, F)
  <2> HIDE DEF F
  <2> QED
    BY <1>1, <1>2, <1>4, LoopExists
<1>6. g = [s \in SUBSET DOMAIN List |->
             IF s = {} THEN base ELSE Push(g[s \ {Max(s)}], List[Max(s)])]
  <2>1. ASSUME NEW s \in SUBSET (1 .. n), s # {}
        PROVE  F[<<Max(s), g[s \ {Max(s)}]>>] = Push(g[s \ {Max(s)}], List[Max(s)])
    <3>1. IsFiniteSet(1 .. n) /\ s \in SUBSET Int
      BY <1>1, FS_Interval
    <3>2. Max(s) \in s
      BY <2>1, <3>1, FS_Subset, MaxIsIn
    <3>3. Max(s) \in 1 .. n /\ g[s \ {Max(s)}] \in A
      BY <3>2
    <3> QED
      BY <3>3
  <2> HIDE DEF F
  <2> QED
    BY <2>1, <1>1, <1>5 DEF IsLoop
<1>7. PICK h : /\ h = [s \in SUBSET DOMAIN List |->
                         IF s = {} THEN base ELSE Push(h[s \ {Max(s)}], List[Max(s)])]
               /\ Loop = h[DOMAIN List]
  BY <1>6 DEF Loop, FoldLeft, MapThenFoldSet, base
<1> DEFINE T == {k \in Nat : k <= n => Good(h[1 .. k], k)}
<1>8. 0 \in T
  <2>1. 1 .. 0 = {} /\ h[1 .. 0] = base
    BY <1>7
  <2>2. base \in Pushed /\ base.result = <<>> /\ base.miscShipping = <<>>
    BY <1>2 DEF base, A
  <2>3. ASSUME NEW u \in [Product -> Nat]
        PROVE  OfPieces(u, <<>>) + Part(u, <<>>, quantity) = SumOf(Weighted(u, quantity), Named(List, 0))
    <3>1. 1 .. Len(<<>>) = {} /\ Named(List, 0) = {}
      BY <2>1 DEF Named
    <3>2. OfPieces(u, <<>>) = 0 /\ Part(u, <<>>, quantity) = 0 /\ SumOf(Weighted(u, quantity), Named(List, 0)) = 0
      BY <3>1, SumEmpty DEF OfPieces, Part
    <3> QED
      BY <3>2
  <2>4. Good(base, 0)
    BY <2>1, <2>2, <2>3 DEF Good
  <2> QED
    BY <2>1, <2>4
<1>9. \A k \in Nat : k \in T => k + 1 \in T
  <2> TAKE k \in Nat
  <2> SUFFICES ASSUME k \in T, k + 1 <= n PROVE Good(h[1 .. k + 1], k + 1)
    BY <1>1
  <2>1. Good(h[1 .. k], k) /\ k \in 0 .. Len(List) - 1
    BY <1>1 DEF n
  <2> DEFINE I == 1 .. k + 1
  <2>2. I \in SUBSET DOMAIN List
    BY <1>1
  <2>3. Max(I) = k + 1 /\ I # {} /\ I \ {k + 1} = 1 .. k
    BY MaxOfInterval
  <2> HIDE DEF I
  <2>4. h[I] = Push(h[1 .. k], List[k + 1])
    BY <1>7, <2>2, <2>3
  <2> QED
    BY <2>1, <2>4, PushTurn DEF I
<1>10. n \in T
  <2> HIDE DEF T
  <2> QED
    BY <1>1, <1>8, <1>9, SetInduction
<1>11. Good(h[1 .. n], n)
  BY <1>1, <1>10
<1> QED
  BY <1>1, <1>7, <1>11 DEF n

-----------------------------------------------------------------------------
(* The entries of splitBGProducts.                                         *)

\* Each is one piece, or the last of them, and then all the extra parts; and
\* together they hold what was bought.
RightSplit(s, q) ==
    /\ s \in Seq(Seq(Product))
    /\ \A i \in 1 .. Len(s) :
          \/ \E p \in Rest : s[i] = <<p>>
          \/ i = Len(s) /\ Range(s[i]) = bought.extra /\ bought.extra # {}
    /\ \A u \in [Product -> Nat] :
          SumOf([i \in 1 .. Len(s) |-> Part(u, s[i], q)], 1 .. Len(s)) = All(u, bought.quantity)

LEMMA SetQuantitiesIs ==
  ASSUME Bought
  PROVE  /\ SetQuantities \in [Product -> Nat]
         /\ \A p \in Rest : SetQuantities[p] = 1
         /\ \A p \in bought.extra : SetQuantities[p] = quantity[p]
  BY DEF SetQuantities, Bought, Rest

LEMMA PartOfOne ==
  ASSUME NEW u \in [Product -> Nat], NEW q, NEW p \in Product, q[p] = 1
  PROVE  Part(u, <<p>>, q) = u[p]
<1> DEFINE v == Values(u, <<p>>, q)
<1>1. Len(<<p>>) = 1 /\ <<p>>[1] = p
  OBVIOUS
<1>2. q[p] = 1 /\ u[p] \in Nat
  OBVIOUS
<1>3. v[1] = u[p]
  BY <1>1, <1>2 DEF Values
<1> HIDE DEF v
<1>4. SumOf(v, 1 .. 1) = SumOf(v, 1 .. 0) + v[1]
  <2>1. PICK n \in Nat : n = 0 /\ n + 1 = 1
    OBVIOUS
  <2>2. \A i \in 1 .. n + 1 : v[i] \in Int
    BY <2>1, <1>2, <1>3
  <2>3. SumOf(v, 1 .. n + 1) = SumOf(v, 1 .. n) + v[n + 1]
    BY <2>2, SumUp
  <2> QED
    BY <2>1, <2>3
<1>5. 1 .. 0 = {}
  OBVIOUS
<1>6. SumOf(v, 1 .. 1) = u[p]
  BY <1>2, <1>3, <1>4, <1>5, SumEmpty
<1> QED
  BY <1>1, <1>6 DEF Part, v

LEMMA PartOfPiece ==
  ASSUME Bought, NEW p \in Rest, NEW u \in [Product -> Nat]
  PROVE  Part(u, <<p>>, SetQuantities) = u[p]
  BY SetQuantitiesIs, PartOfOne DEF Rest

LEMMA PartOfParts ==
  ASSUME Bought, NEW misc \in Seq(bought.extra), NEW u \in [Product -> Nat]
  PROVE  Part(u, misc, SetQuantities) = Part(u, misc, quantity)
<1>1. Values(u, misc, SetQuantities) = Values(u, misc, quantity)
  BY SetQuantitiesIs DEF Values
<1> QED
  BY <1>1 DEF Part

LEMMA SplitIsRight ==
  ASSUME Bought
  PROVE  RightSplit(SplitProductsIntoIndividuals, SetQuantities)
<1> DEFINE n == Len(List)
           r == Loop.result
           misc == Loop.miscShipping
           s == SplitProductsIntoIndividuals
           q == SetQuantities
           m == Len(r)
<1>1. Good(Loop, n)
  BY LoopGood
<1>2. r \in Seq(Piece) /\ misc \in Seq(bought.extra) /\ m \in Nat
  BY <1>1 DEF Good, Pushed
<1>3. s = IF misc = <<>> THEN r ELSE Append(r, misc)
  BY DEF SplitProductsIntoIndividuals, Loop
<1>4. \A u \in [Product -> Nat] : OfPieces(u, r) + Part(u, misc, q) = All(u, bought.quantity)
  <2> TAKE u \in [Product -> Nat]
  <2>1. OfPieces(u, r) + Part(u, misc, quantity) = SumOf(Weighted(u, quantity), Named(List, n))
    BY <1>1 DEF Good
  <2>2. Named(List, n) = Product
    BY ListFacts DEF Named
  <2>3. Part(u, misc, q) = Part(u, misc, quantity)
    BY <1>2, PartOfParts
  <2> QED
    BY <2>1, <2>2, <2>3 DEF All, Bought
<1>5. \A i \in 1 .. m : \E p \in Rest : r[i] = <<p>>
  BY <1>2 DEF Piece
<1>6. bought.extra \subseteq Product /\ Range(misc) = bought.extra
  <2>1. bought.extra \subseteq Product
    BY DEF Bought
  <2>2. \A p \in bought.extra : \E j \in 1 .. Len(misc) : misc[j] = p
    BY <1>1, <2>1, ListFacts DEF Good
  <2>3. DOMAIN misc = 1 .. Len(misc) /\ \A j \in 1 .. Len(misc) : misc[j] \in bought.extra
    BY <1>2
  <2> QED
    BY <2>1, <2>2, <2>3 DEF Range
<1>7. q \in [Product -> Nat] /\ r \in Seq(Seq(Product)) /\ misc \in Seq(Product)
  <2>1. Piece \subseteq Seq(Product)
    <3>1. \A p \in Product : <<p>> \in Seq(Product)
      OBVIOUS
    <3> QED
      BY <3>1 DEF Piece, Rest
  <2>2. r \in Seq(Seq(Product))
    <3>1. PICK P, S : P = Piece /\ S = Seq(Product)
      OBVIOUS
    <3>2. r \in Seq(P) /\ P \subseteq S
      BY <3>1, <2>1, <1>2
    <3>3. r \in Seq(S)
      BY <3>2
    <3> QED
      BY <3>1, <3>3
  <2> QED
    BY <2>2, <1>2, <1>6, SetQuantitiesIs
<1>8. ASSUME NEW u \in [Product -> Nat], NEW t, \A i \in 1 .. m : t[i] = r[i],
             NEW f, \A i \in 1 .. m : f[i] = Part(u, t[i], q)
      PROVE  SumOf(f, 1 .. m) = OfPieces(u, r) /\ \A i \in 1 .. m : f[i] \in Nat
  <2> DEFINE v == PieceValues(u, r)
  <2>1. ASSUME NEW i \in 1 .. m PROVE f[i] = v[i] /\ v[i] \in Nat
    <3>1. PICK p \in Rest : r[i] = <<p>>
      BY <1>5
    <3>2. Part(u, <<p>>, q) = u[p]
      BY PartOfPiece
    <3>3. v[i] = u[r[i][1]] /\ u[r[i][1]] \in Nat
      BY <1>2, OfPiecesType
    <3>4. r[i][1] = p
      BY <3>1
    <3> HIDE DEF v, q
    <3> QED
      BY <1>8, <3>1, <3>2, <3>3, <3>4
  <2> HIDE DEF v
  <2>2. IsFiniteSet(1 .. m)
    BY <1>2, FS_Interval
  <2>3. SumOf(f, 1 .. m) = SumOf(v, 1 .. m)
    BY <2>1, <2>2, SumAgrees
  <2> QED
    BY <2>1, <2>3 DEF OfPieces, v
<1> HIDE DEF n, s, q
<1>9. CASE misc = <<>>
  <2>1. s = r
    BY <1>3, <1>9
  <2>2. ASSUME NEW u \in [Product -> Nat]
        PROVE  SumOf([i \in 1 .. m |-> Part(u, r[i], q)], 1 .. m) = All(u, bought.quantity)
    <3> DEFINE f == [i \in 1 .. m |-> Part(u, r[i], q)]
    <3>1. SumOf(f, 1 .. m) = OfPieces(u, r)
      <4>1. \A i \in 1 .. m : f[i] = Part(u, r[i], q)
        OBVIOUS
      <4> HIDE DEF f
      <4> QED
        BY <4>1, <1>8
    <3>2. Part(u, misc, q) = 0
      <4>1. 1 .. Len(misc) = {}
        BY <1>9
      <4> QED
        BY <4>1, SumEmpty DEF Part
    <3>3. OfPieces(u, r) \in Nat
      BY <1>2, OfPiecesType
    <3> QED
      BY <3>1, <3>2, <3>3, <1>4
  <2> HIDE DEF r, misc
  <2> QED
    BY <2>1, <2>2, <1>5, <1>7 DEF RightSplit, s, q
<1>10. CASE misc # <<>>
  <2>1. /\ s = Append(r, misc) /\ s \in Seq(Seq(Product)) /\ Len(s) = m + 1 /\ s[m + 1] = misc
        /\ \A i \in 1 .. m : s[i] = r[i]
    BY <1>2, <1>3, <1>7, <1>10
  <2>2. 1 .. m + 1 = (1 .. m) \cup {m + 1}
    BY <1>2
  <2>3. bought.extra # {}
    <3>1. Len(misc) \in Nat /\ Len(misc) # 0
      BY <1>2, <1>10
    <3>2. misc[1] \in bought.extra
      BY <1>2, <3>1
    <3> QED
      BY <3>2
  <2> HIDE DEF m
  <2>4. ASSUME NEW u \in [Product -> Nat]
        PROVE  SumOf([i \in 1 .. m + 1 |-> Part(u, s[i], q)], 1 .. m + 1) = All(u, bought.quantity)
    <3> DEFINE f == [i \in 1 .. m + 1 |-> Part(u, s[i], q)]
    <3>1. /\ \A i \in 1 .. m : f[i] = Part(u, s[i], q)
          /\ f[m + 1] = Part(u, misc, q)
      BY <2>1, <2>2
    <3> HIDE DEF f
    <3>2. SumOf(f, 1 .. m) = OfPieces(u, r) /\ \A i \in 1 .. m : f[i] \in Nat
      BY <2>1, <3>1, <1>8
    <3>3. Part(u, misc, q) \in Nat
      BY <1>7, ValuesType
    <3>4. SumOf(f, 1 .. m + 1) = SumOf(f, 1 .. m) + f[m + 1]
      <4>1. \A i \in 1 .. m + 1 : f[i] \in Int
        BY <2>2, <3>1, <3>2, <3>3
      <4> QED
        BY <1>2, <4>1, SumUp
    <3>5. SumOf(f, 1 .. m + 1) = All(u, bought.quantity)
      BY <3>1, <3>2, <3>4, <1>4
    <3> QED
      BY <3>5 DEF f
  <2> HIDE DEF r, misc
  <2> QED
    BY <2>1, <2>2, <2>3, <2>4, <1>5, <1>6 DEF RightSplit, s, q
<1> QED
  BY <1>9, <1>10

-----------------------------------------------------------------------------
(* The inductive invariant.  Up to the split nothing has touched the       *)
(* quantities; from then on they, the entries and the amount stay as the   *)
(* split left them, and each order is what GenerateOrder makes of its      *)
(* entry with these.                                                       *)

BoughtIs ==
    bought \in [quantity : [Product -> 1 .. MaxQuantity], extra : SUBSET Product]

SetTo1 == [p \in Product |-> IF p \in bought.extra THEN bought.quantity[p] ELSE 1]

AmountOf(q) == All(Unit(Price), q) + All(Unit(Shipping), q) + All(Unit(Tax), q)

BeforeSplit ==
    quantity = bought.quantity /\ orders = <<>>

AfterSplit ==
    /\ quantity = SetTo1
    /\ RightSplit(split, quantity)
    /\ amountPaid = AmountOf(quantity)
    /\ orders \in Seq({GenerateOrder(i) : i \in Nat}) /\ Len(orders) <= Len(split)
    /\ \A i \in 1 .. Len(orders) : orders[i] = GenerateOrder(i)

SplitInv ==
    /\ BoughtIs
    /\ pc \in {"fetch", "details", "orders", "done", "failed"}
    /\ pc \in {"fetch", "details", "failed"} => BeforeSplit
    /\ pc \in {"orders", "done"} => AfterSplit
    /\ pc = "done" => Len(orders) = Len(split)

LEMMA BoughtType ==
  ASSUME BoughtIs
  PROVE  /\ bought.quantity \in [Product -> Nat] /\ bought.extra \subseteq Product
         /\ \A p \in Product : bought.quantity[p] >= 1
         /\ SetTo1 \in [Product -> Nat]
         /\ \A p \in Product : SetTo1[p] <= bought.quantity[p]
         /\ quantity = bought.quantity => Bought /\ SetQuantities = SetTo1
<1>1. bought.quantity \in [Product -> 1 .. MaxQuantity] /\ bought.extra \subseteq Product
  BY DEF BoughtIs
<1>2. \A p \in Product : bought.quantity[p] \in Nat /\ bought.quantity[p] >= 1
  <2>1. \A n \in 1 .. MaxQuantity : n \in Nat /\ n >= 1
    BY SplittingAssumption
  <2> QED
    BY <1>1, <2>1
<1>3. bought.quantity \in [Product -> Nat]
  BY <1>1, <1>2
<1>4. bought \in [quantity : [Product -> Nat], extra : SUBSET Product]
  BY <1>3 DEF BoughtIs
<1>5. \A p \in Product : SetTo1[p] \in Nat /\ SetTo1[p] <= bought.quantity[p]
  BY <1>2 DEF SetTo1
<1>6. SetTo1 \in [Product -> Nat]
  BY <1>5 DEF SetTo1
<1> QED
  BY <1>1, <1>2, <1>3, <1>4, <1>5, <1>6 DEF Bought, SetQuantities, SetTo1

LEMMA AmountIs ==
  ASSUME NEW q \in [Product -> Nat]
  PROVE  GetAmountPaidForItems(GetOrderItems(List, q)) = AmountOf(q)
<1>1. Price \in [Product -> Number] /\ Shipping \in [Product -> Number] /\ Tax \in [Product -> Number]
  BY SplittingAssumption
<1>2. List \in Seq(Product)
  BY ListFacts
<1>3. \A f \in [Product -> Number] : Total(f, GetOrderItems(List, q)) = All(Unit(f), q)
  BY <1>2, TotalIs, UnitIs, ListIsAll
<1> QED
  BY <1>1, <1>3 DEF GetAmountPaidForItems, AmountOf

LEMMA InitSplit == ASSUME Init PROVE SplitInv
  BY DEF Init, SplitInv, BoughtIs, BeforeSplit

\* The answers before the last one.
LEMMA StillBefore ==
  ASSUME SplitInv, pc \in {"fetch", "details"}, pc' \in {"fetch", "details", "failed"},
         UNCHANGED <<bought, quantity, orders>>
  PROVE  SplitInv'
<1>1. BoughtIs' /\ BeforeSplit'
  BY DEF SplitInv, BoughtIs, BeforeSplit
<1> QED
  BY <1>1 DEF SplitInv

LEMMA LastAnswer ==
  ASSUME SplitInv, DetailsAnswer, pc' # pc
  PROVE  SplitInv'
<1>1. /\ BoughtIs /\ quantity = bought.quantity /\ orders = <<>>
      /\ split' = SplitProductsIntoIndividuals /\ quantity' = SetQuantities
      /\ amountPaid' = GetAmountPaidForItems(GetOrderItems(List, quantity'))
      /\ pc' = "orders" /\ bought' = bought /\ orders' = orders
  BY DEF SplitInv, BeforeSplit, DetailsAnswer
<1>2. Bought /\ SetQuantities = SetTo1 /\ SetTo1 \in [Product -> Nat]
  BY <1>1, BoughtType
<1>3. quantity' = SetTo1 /\ SetTo1' = SetTo1
  BY <1>1, <1>2 DEF SetTo1
<1>4. RightSplit(split, quantity)'
  <2>1. RightSplit(SplitProductsIntoIndividuals, SetQuantities)
    BY <1>2, SplitIsRight
  <2>2. PICK s, q : s = SplitProductsIntoIndividuals /\ q = SetQuantities
    OBVIOUS
  <2>3. RightSplit(s, q) /\ split' = s /\ quantity' = q
    BY <1>1, <2>1, <2>2
  <2> QED
    BY <1>1, <2>3 DEF RightSplit, Rest
<1>5. amountPaid' = AmountOf(quantity')
  BY <1>1, <1>2, <1>3, AmountIs
<1>6. orders' \in Seq({GenerateOrder(i) : i \in Nat}') /\ Len(orders') = 0 /\ Len(split') \in Nat
  <2>1. \A S : <<>> \in Seq(S) /\ Len(<<>>) = 0
    OBVIOUS
  <2>2. split' \in Seq(Seq(Product))
    BY <1>4 DEF RightSplit
  <2> QED
    BY <1>1, <2>1, <2>2
<1>7. AfterSplit'
  BY <1>3, <1>4, <1>5, <1>6 DEF AfterSplit, AmountOf
<1> QED
  BY <1>1, <1>7 DEF SplitInv, BoughtIs

LEMMA NextOrder ==
  ASSUME SplitInv, GenerateOrders
  PROVE  SplitInv'
<1>1. AfterSplit /\ BoughtIs /\ Len(orders) < Len(split)
  BY DEF SplitInv, GenerateOrders
<1>2. UNCHANGED <<bought, quantity, pending, shipTo, amountPaid, split>>
  BY DEF GenerateOrders
<1> DEFINE G(i) == GenerateOrder(i)
           S == {G(i) : i \in Nat}
<1>3. \A i : G(i)' = G(i)
  BY <1>2 DEF GenerateOrder, HasExtraPart
<1>4. S' = S
  BY <1>3
<1>5. RightSplit(split, quantity)'
  BY <1>1, <1>2 DEF AfterSplit, RightSplit, Rest
<1>6. split \in Seq(Seq(Product)) /\ Len(split) \in Nat
  BY <1>1 DEF AfterSplit, RightSplit
<1>7. PICK n, one, os, T : n = Len(orders) /\ one = G(n + 1) /\ os = orders /\ T = S
  OBVIOUS
<1>8. os \in Seq(T) /\ n \in Nat /\ n = Len(os) /\ one \in T
  BY <1>1, <1>7 DEF AfterSplit
<1>9. Append(os, one) \in Seq(T) /\ Len(Append(os, one)) = n + 1
      /\ Append(os, one)[n + 1] = one /\ \A i \in 1 .. n : Append(os, one)[i] = os[i]
  BY <1>8
<1>10. orders' = Append(os, one)
  BY <1>7 DEF GenerateOrders
<1>11. \A i \in 1 .. n : os[i] = G(i)
  BY <1>1, <1>7 DEF AfterSplit
<1>12. \A i \in 1 .. n + 1 : orders'[i] = G(i)
  <2>1. \A i \in 1 .. n + 1 : i \in 1 .. n \/ i = n + 1
    BY <1>8
  <2> HIDE DEF G
  <2> QED
    BY <1>7, <1>9, <1>10, <1>11, <2>1
<1>13. /\ orders' \in Seq(S') /\ Len(orders') = n + 1 /\ n + 1 <= Len(split')
       /\ \A i \in 1 .. Len(orders') : orders'[i] = G(i)'
  <2>1. n + 1 <= Len(split)
    BY <1>1, <1>6, <1>7, <1>8
  <2> HIDE DEF G, S
  <2> QED
    BY <1>2, <1>3, <1>4, <1>7, <1>9, <1>10, <1>12, <2>1
<1>14. quantity' = SetTo1' /\ amountPaid' = AmountOf(quantity')
  BY <1>1, <1>2 DEF AfterSplit, SetTo1
<1>15. AfterSplit' /\ BoughtIs'
  BY <1>1, <1>2, <1>5, <1>13, <1>14 DEF AfterSplit, BoughtIs, AmountOf
<1>16. pc' \in {"orders", "done"} /\ (pc' = "done" => Len(orders') = Len(split'))
  BY <1>2 DEF GenerateOrders
<1> QED
  BY <1>15, <1>16 DEF SplitInv

\* What holds of the quantities, of the entries and of the orders in each state.
THEOREM SplitInvariant == Spec => []SplitInv
<1>1. Init => SplitInv
  BY InitSplit
<1>2. SplitInv /\ [Next]_vars => SplitInv'
  <2> SUFFICES ASSUME SplitInv, [Next]_vars PROVE SplitInv'
    OBVIOUS
  <2>1. CASE RequestFails
    BY <2>1, StillBefore DEF RequestFails
  <2>2. CASE AddressAnswer
    BY <2>2, StillBefore DEF AddressAnswer, NextRequests
  <2>3. CASE ProductsAnswer
    BY <2>3, StillBefore DEF ProductsAnswer, NextRequests
  <2>4. CASE DetailsAnswer
    <3>1. CASE pc' = pc
      BY <2>4, <3>1, StillBefore DEF DetailsAnswer
    <3>2. CASE pc' # pc
      BY <2>4, <3>2, LastAnswer
    <3> QED
      BY <3>1, <3>2
  <2>5. CASE GenerateOrders
    BY <2>5, NextOrder
  <2>6. CASE UNCHANGED vars
    <3>1. UNCHANGED <<bought, quantity, pending, shipTo, amountPaid, split, orders, pc>>
      BY <2>6 DEF vars
    <3>2. {GenerateOrder(i) : i \in Nat}' = {GenerateOrder(i) : i \in Nat} /\ \A i : GenerateOrder(i)' = GenerateOrder(i)
      BY <3>1 DEF GenerateOrder, HasExtraPart
    <3>3. RightSplit(split, quantity)' = RightSplit(split, quantity)
      BY <3>1 DEF RightSplit, Rest
    <3>4. AfterSplit => AfterSplit'
      BY <3>1, <3>2, <3>3 DEF AfterSplit, AmountOf, SetTo1
    <3> QED
      BY <3>1, <3>4 DEF SplitInv, BoughtIs, BeforeSplit
  <2> QED
    BY <2>1, <2>2, <2>3, <2>4, <2>5, <2>6 DEF Next
<1> QED
  BY <1>1, <1>2, PTL DEF Spec

-----------------------------------------------------------------------------
(* The properties.                                                         *)

\* The number of the pieces of one product, as a sum over all products.
LEMMA AllOfOne ==
  ASSUME NEW x \in Product, NEW q \in [Product -> Nat]
  PROVE  One(x) \in [Product -> Nat] /\ All(One(x), q) = q[x]
<1> DEFINE w == Weighted(One(x), q)
<1>1. One(x) \in [Product -> Nat]
  BY DEF One
<1>2. ASSUME NEW p \in Product PROVE w[p] = IF p = x THEN q[x] ELSE 0
  <2>1. w[p] = One(x)[p] * q[p] /\ One(x)[p] = (IF p = x THEN 1 ELSE 0) /\ q[p] \in Nat
    BY DEF Weighted, One
  <2> HIDE DEF w
  <2> QED
    BY <2>1
<1> HIDE DEF w
<1>3. IsFiniteSet(Product) /\ IsFiniteSet(Product \ {x})
  BY ListFacts, FS_Subset
<1>4. \A p \in Product : w[p] \in Int
  BY <1>2
<1>5. SumOf(w, Product) = SumOf(w, Product \ {x}) + w[x]
  BY <1>3, <1>4, SumRemove
<1>6. SumOf(w, Product \ {x}) = 0
  <2>1. \A p \in Product \ {x} : w[p] = 0
    BY <1>2
  <2> QED
    BY <1>3, <2>1, SumZero
<1>7. w[x] = q[x] /\ q[x] \in Nat
  BY <1>2
<1> QED
  BY <1>1, <1>5, <1>6, <1>7 DEF All, w

LEMMA OrderIs ==
  ASSUME NEW i
  PROVE  /\ GenerateOrder(i).items = GetOrderItems(split[i], quantity)
         /\ GenerateOrder(i).tax = Total(Tax, GetOrderItems(split[i], quantity))
         /\ GenerateOrder(i).shipping = Total(Shipping, GetOrderItems(split[i], quantity))
         /\ GenerateOrder(i).weight = Total(Weight, GetOrderItems(split[i], quantity))
         /\ GenerateOrder(i).amountPaid = amountPaid
         /\ GenerateOrder(i).field = IF HasExtraPart(split[i]) THEN "Misc Shipping" ELSE ""
  BY DEF GenerateOrder, GetTaxAmount, GetShippingAmount, GetWeight

\* Every piece that was bought is in one of the orders, once, and their tax,
\* shipping and weight add up to those of the whole order.
THEOREM OrdersAddUp == Spec => []PiecesAddUp
<1>1. SplitInv => PiecesAddUp
  <2> SUFFICES ASSUME SplitInv, pc = "done" PROVE PiecesAddUp
    BY DEF PiecesAddUp
  <2> DEFINE n == Len(split)
             q == quantity
             bq == bought.quantity
  <2>1. BoughtIs /\ AfterSplit /\ Len(orders) = n
    BY DEF SplitInv
  <2>2. bq \in [Product -> Nat] /\ q \in [Product -> Nat]
    BY <2>1, BoughtType DEF AfterSplit
  <2>3. RightSplit(split, q) /\ split \in Seq(Seq(Product)) /\ n \in Nat
    BY <2>1 DEF AfterSplit, RightSplit
  <2>4. DOMAIN orders = 1 .. n /\ \A i \in 1 .. n : split[i] \in Seq(Product)
    BY <2>1, <2>3 DEF AfterSplit
  <2>5. \A i \in 1 .. n : orders[i] = GenerateOrder(i)
    BY <2>1 DEF AfterSplit
  <2>6. ASSUME NEW u \in [Product -> Nat], NEW f, DOMAIN f = 1 .. n,
               \A i \in 1 .. n : f[i] = Part(u, split[i], q)
        PROVE  Sum(f) = All(u, bq)
    <3> DEFINE h == [i \in 1 .. n |-> Part(u, split[i], q)]
    <3>1. SumOf(h, 1 .. n) = All(u, bq)
      BY <2>3 DEF RightSplit
    <3>2. IsFiniteSet(1 .. n)
      BY <2>3, FS_Interval
    <3>3. ASSUME NEW i \in 1 .. n PROVE h[i] \in Int /\ f[i] = h[i]
      <4>1. Part(u, split[i], q) \in Nat
        BY <2>2, <2>4, ValuesType
      <4>2. h[i] = Part(u, split[i], q) /\ f[i] = Part(u, split[i], q)
        BY <2>6
      <4> HIDE DEF h
      <4> QED
        BY <4>1, <4>2
    <3> HIDE DEF h, n, q, bq
    <3>4. SumOf(f, 1 .. n) = SumOf(h, 1 .. n)
      BY <3>2, <3>3, SumAgrees
    <3> QED
      BY <2>6, <3>1, <3>4, SumIsSumOf
  <2>7. ASSUME NEW f \in [Product -> Number], NEW v, DOMAIN v = 1 .. n,
               \A i \in 1 .. n : v[i] = Total(f, GetOrderItems(split[i], q))
        PROVE  Sum(v) = Whole(f)
    <3>1. \A i \in 1 .. n : v[i] = Part(Unit(f), split[i], q)
      BY <2>2, <2>4, <2>7, TotalIs
    <3>2. Unit(f) \in [Product -> Nat]
      BY UnitIs
    <3>3. Sum(v) = All(Unit(f), bq)
      BY <2>6, <2>7, <3>1, <3>2
    <3> QED
      BY <2>2, <3>3, WholeIs
  <2>8. ASSUME NEW p \in Product
        PROVE  Sum([i \in DOMAIN orders |-> PiecesIn(orders[i].items, p)]) = bq[p]
    <3> DEFINE v == [i \in DOMAIN orders |-> PiecesIn(orders[i].items, p)]
    <3>1. ASSUME NEW i \in 1 .. n PROVE v[i] = Part(One(p), split[i], q)
      <4>1. v[i] = PiecesIn(orders[i].items, p) /\ orders[i].items = GetOrderItems(split[i], q)
        BY <2>4, <2>5, OrderIs
      <4>2. PiecesIn(GetOrderItems(split[i], q), p) = Part(One(p), split[i], q)
        BY <2>2, <2>4, PiecesInIs
      <4> HIDE DEF v
      <4> QED
        BY <4>1, <4>2
    <3>2. DOMAIN v = 1 .. n
      BY <2>4
    <3>3. One(p) \in [Product -> Nat] /\ All(One(p), bq) = bq[p]
      BY <2>2, AllOfOne
    <3> HIDE DEF v
    <3>4. Sum(v) = All(One(p), bq)
      BY <2>6, <3>1, <3>2, <3>3
    <3> QED
      BY <3>3, <3>4 DEF v
  <2>9. /\ Tax \in [Product -> Number] /\ Shipping \in [Product -> Number]
        /\ Weight \in [Product -> Number]
    BY SplittingAssumption
  <2>10. ASSUME NEW i \in 1 .. n
         PROVE  /\ orders[i].tax = Total(Tax, GetOrderItems(split[i], q))
                /\ orders[i].shipping = Total(Shipping, GetOrderItems(split[i], q))
                /\ orders[i].weight = Total(Weight, GetOrderItems(split[i], q))
    BY <2>5, OrderIs
  <2>11. Sum([i \in DOMAIN orders |-> orders[i].tax]) = Whole(Tax)
    <3> DEFINE v == [i \in DOMAIN orders |-> orders[i].tax]
    <3>1. DOMAIN v = 1 .. n /\ \A i \in 1 .. n : v[i] = Total(Tax, GetOrderItems(split[i], q))
      BY <2>4, <2>10
    <3> HIDE DEF v, n, q
    <3>2. Sum(v) = Whole(Tax)
      BY <2>7, <2>9, <3>1
    <3> QED
      BY <3>2 DEF v
  <2>12. Sum([i \in DOMAIN orders |-> orders[i].shipping]) = Whole(Shipping)
    <3> DEFINE v == [i \in DOMAIN orders |-> orders[i].shipping]
    <3>1. DOMAIN v = 1 .. n /\ \A i \in 1 .. n : v[i] = Total(Shipping, GetOrderItems(split[i], q))
      BY <2>4, <2>10
    <3> HIDE DEF v, n, q
    <3>2. Sum(v) = Whole(Shipping)
      BY <2>7, <2>9, <3>1
    <3> QED
      BY <3>2 DEF v
  <2>13. Sum([i \in DOMAIN orders |-> orders[i].weight]) = Whole(Weight)
    <3> DEFINE v == [i \in DOMAIN orders |-> orders[i].weight]
    <3>1. DOMAIN v = 1 .. n /\ \A i \in 1 .. n : v[i] = Total(Weight, GetOrderItems(split[i], q))
      BY <2>4, <2>10
    <3> HIDE DEF v, n, q
    <3>2. Sum(v) = Whole(Weight)
      BY <2>7, <2>9, <3>1
    <3> QED
      BY <3>2 DEF v
  <2> HIDE DEF n, q
  <2> QED
    BY <2>8, <2>11, <2>12, <2>13 DEF PiecesAddUp
<1> QED
  BY <1>1, SplitInvariant, PTL

LEMMA ItemsAre ==
  ASSUME NEW products \in Seq(Product), NEW q
  PROVE  /\ {one.product : one \in Range(GetOrderItems(products, q))} = Range(products)
         /\ Len(GetOrderItems(products, q)) = Len(products)
         /\ \A k \in 1 .. Len(products) : GetOrderItems(products, q)[k].quantity = q[products[k]]
<1> DEFINE items == GetOrderItems(products, q)
           n == Len(products)
           S == {[product |-> p, quantity |-> q[p]] : p \in Product}
<1>1. DOMAIN products = 1 .. n /\ n \in Nat /\ \A k \in 1 .. n : products[k] \in Product
  OBVIOUS
<1>2. /\ DOMAIN items = 1 .. n
      /\ \A k \in 1 .. n : items[k].product = products[k] /\ items[k].quantity = q[products[k]]
  BY <1>1 DEF GetOrderItems
<1>3. items \in [1 .. n -> S]
  BY <1>1 DEF GetOrderItems
<1> HIDE DEF items, S, n
<1>4. items \in Seq(S)
  BY <1>1, <1>3, SeqDef
<1>5. Len(items) = n
  BY <1>1, <1>2, <1>4, LenProperties
<1>6. {one.product : one \in Range(items)} = {products[k] : k \in 1 .. n}
  BY <1>2 DEF Range
<1>7. Range(products) = {products[k] : k \in 1 .. n}
  BY <1>1 DEF Range
<1> QED
  BY <1>2, <1>5, <1>6, <1>7 DEF items, n

\* Extra parts have an order of their own, the last, and what is in another order
\* is one piece of a product that is none.
THEOREM ExtraPartsTravelAlone == Spec => []PartsTravelAlone
<1>1. SplitInv => PartsTravelAlone
  <2> SUFFICES ASSUME SplitInv, NEW i \in DOMAIN orders
               PROVE  LET extra == {one.product : one \in Range(orders[i].items)} \cap bought.extra IN
                      IF orders[i].field = "Misc Shipping"
                      THEN i = Len(split) /\ extra = bought.extra
                              /\ {one.product : one \in Range(orders[i].items)} = extra
                      ELSE extra = {} /\ Len(orders[i].items) = 1 /\ orders[i].items[1].quantity = 1
    BY DEF PartsTravelAlone
  <2>1. BoughtIs /\ AfterSplit
    <3>1. \A S : orders = <<>> => DOMAIN orders = {}
      OBVIOUS
    <3> QED
      BY <3>1 DEF SplitInv, BeforeSplit
  <2>2. DOMAIN orders = 1 .. Len(orders) /\ Len(orders) \in Nat
    BY <2>1 DEF AfterSplit
  <2>3. split \in Seq(Seq(Product)) /\ Len(split) \in Nat /\ i \in 1 .. Len(split)
    BY <2>1, <2>2 DEF AfterSplit, RightSplit
  <2>4. PICK products, o, E : products = split[i] /\ o = orders[i] /\ E = bought.extra
    OBVIOUS
  <2>5. products \in Seq(Product)
    BY <2>3, <2>4
  <2>6. /\ o.items = GetOrderItems(products, quantity)
        /\ o.field = IF HasExtraPart(products) THEN "Misc Shipping" ELSE ""
    BY <2>1, <2>2, <2>4, OrderIs DEF AfterSplit
  <2>7. {one.product : one \in Range(o.items)} = Range(products)
    BY <2>5, <2>6, ItemsAre
  <2>8. HasExtraPart(products) <=> Range(products) \cap E # {}
    BY <2>4 DEF HasExtraPart
  <2>9. \/ \E p \in Rest : products = <<p>>
        \/ i = Len(split) /\ Range(products) = E /\ E # {}
    BY <2>1, <2>3, <2>4 DEF AfterSplit, RightSplit
  <2>10. CASE \E p \in Rest : products = <<p>>
    <3>1. PICK p \in Product : products = <<p>> /\ p \notin E
      BY <2>4, <2>10 DEF Rest
    <3>2. Range(products) = {p}
      BY <3>1 DEF Range
    <3>3. o.field = ""
      BY <2>6, <2>8, <3>1, <3>2
    <3>4. Len(o.items) = 1 /\ o.items[1].quantity = quantity[p]
      <4>1. Len(products) = 1 /\ products[1] = p
        BY <3>1
      <4>2. PICK n, k, items : n = 1 /\ k = 1 /\ items = GetOrderItems(products, quantity)
        OBVIOUS
      <4>3. Len(items) = Len(products) /\ \A j \in 1 .. Len(products) : items[j].quantity = quantity[products[j]]
        BY <2>5, <4>2, ItemsAre
      <4>4. k \in 1 .. Len(products)
        BY <4>1, <4>2
      <4>5. items[k].quantity = quantity[products[k]]
        BY <4>3, <4>4
      <4> QED
        BY <2>6, <4>1, <4>2, <4>3, <4>5
    <3>5. quantity[p] = 1
      BY <2>1, <2>4, <3>1 DEF AfterSplit, SetTo1
    <3> QED
      BY <2>4, <2>7, <3>1, <3>2, <3>3, <3>4, <3>5
  <2>11. CASE i = Len(split) /\ Range(products) = E /\ E # {}
    <3>1. o.field = "Misc Shipping"
      BY <2>6, <2>8, <2>11
    <3> QED
      BY <2>4, <2>7, <2>11, <3>1
  <2> QED
    BY <2>9, <2>10, <2>11
<1> QED
  BY <1>1, SplitInvariant, PTL

\* An order of the shop is sent in one part for every piece of its products, and one for
\* all of its extra parts: generateOrders numbers them from 1, and there is at least one.
THEOREM PartsAreNumbered == Spec => []PartsNumbered
<1>1. SplitInv => PartsNumbered
  <2> SUFFICES ASSUME SplitInv, pc = "done" PROVE PartsNumbered
    BY DEF PartsNumbered
  <2> DEFINE u == [p \in Product |-> IF p \in bought.extra THEN 0 ELSE 1]
             parts == [p \in Product |-> IF p \in bought.extra THEN 0 ELSE bought.quantity[p]]
  <2>1. PICK n, q, bq, E : n = Len(split) /\ q = quantity /\ bq = bought.quantity /\ E = bought.extra
    OBVIOUS
  <2>2. BoughtIs /\ AfterSplit /\ Len(orders) = n
    BY <2>1 DEF SplitInv
  <2>3. /\ bq \in [Product -> Nat] /\ q \in [Product -> Nat] /\ E \subseteq Product
        /\ \A p \in Product : bq[p] >= 1
        /\ \A p \in Rest : q[p] = 1
    BY <2>1, <2>2, BoughtType DEF AfterSplit, SetTo1, Rest
  <2>4. /\ n \in Nat /\ DOMAIN orders = 1 .. n /\ \A i \in 1 .. n : split[i] \in Seq(Product)
        /\ \A i \in 1 .. n : orders[i] = GenerateOrder(i)
        /\ \A i \in 1 .. n : (\E p \in Rest : split[i] = <<p>>) \/ (i = n /\ Range(split[i]) = E /\ E # {})
        /\ \A w \in [Product -> Nat] : SumOf([i \in 1 .. n |-> Part(w, split[i], q)], 1 .. n) = All(w, bq)
    BY <2>1, <2>2 DEF AfterSplit, RightSplit
  <2>5. \A w \in [Product -> Nat] : \A i \in 1 .. n : Part(w, split[i], q) \in Nat
    BY <2>3, <2>4, ValuesType
  \* Every product is in one of the entries.
  <2>6. ASSUME NEW x \in Product PROVE \E i \in 1 .. n : Part(One(x), split[i], q) # 0
    <3> SUFFICES ASSUME \A i \in 1 .. n : Part(One(x), split[i], q) = 0 PROVE FALSE
      OBVIOUS
    <3> DEFINE f == [i \in 1 .. n |-> Part(One(x), split[i], q)]
    <3>1. \A i \in 1 .. n : f[i] = 0
      OBVIOUS
    <3>2. One(x) \in [Product -> Nat] /\ All(One(x), bq) = bq[x] /\ bq[x] >= 1 /\ bq[x] \in Nat
      BY <2>3, AllOfOne
    <3>3. SumOf(f, 1 .. n) = bq[x]
      BY <2>4, <3>2
    <3>4. IsFiniteSet(1 .. n)
      BY <2>4, FS_Interval
    <3> HIDE DEF f
    <3>5. SumOf(f, 1 .. n) = 0
      BY <3>1, <3>4, SumZero
    <3> QED
      BY <3>2, <3>3, <3>5
  \* The last entry holds the extra parts when there are any, no other one does.
  <2>7. PICK k \in 0 .. n : /\ k = n - (IF E = {} THEN 0 ELSE 1)
                            /\ \A i \in 1 .. k : \E p \in Rest : split[i] = <<p>>
                            /\ \A i \in k + 1 .. n : Range(split[i]) = E
    <3>1. CASE E = {}
      <4>1. \A i \in 1 .. n : \E p \in Rest : split[i] = <<p>>
        BY <2>4, <3>1
      <4> QED
        BY <2>4, <3>1, <4>1
    <3>2. CASE E # {}
      <4>1. PICK x \in E : TRUE
        BY <3>2
      <4>2. PICK i \in 1 .. n : Part(One(x), split[i], q) # 0
        BY <2>3, <2>6, <4>1
      <4>3. ASSUME NEW p \in Rest, split[i] = <<p>> PROVE FALSE
        <5>1. One(x) \in [Product -> Nat] /\ One(x)[p] = 0
          BY <2>1, <4>1 DEF One, Rest
        <5>2. Part(One(x), <<p>>, q) = One(x)[p]
          BY <2>3, <5>1, PartOfOne DEF Rest
        <5> QED
          BY <4>2, <4>3, <5>1, <5>2
      <4>4. i = n /\ Range(split[n]) = E
        BY <2>4, <4>3
      <4>5. n \in 1 .. n /\ n - 1 \in 0 .. n /\ n - 1 = n - (IF E = {} THEN 0 ELSE 1)
        BY <2>4, <3>2, <4>4
      <4>6. \A j \in 1 .. n - 1 : \E p \in Rest : split[j] = <<p>>
        <5> SUFFICES ASSUME NEW j \in 1 .. n - 1 PROVE \E p \in Rest : split[j] = <<p>>
          OBVIOUS
        <5>1. j \in 1 .. n /\ j # n
          BY <2>4
        <5> QED
          BY <2>4, <5>1
      <4>7. \A j \in (n - 1) + 1 .. n : Range(split[j]) = E
        <5>1. \A j \in (n - 1) + 1 .. n : j = n
          BY <2>4
        <5> QED
          BY <4>4, <5>1
      <4> QED
        BY <4>5, <4>6, <4>7
    <3> QED
      BY <3>1, <3>2
  <2>8. u \in [Product -> Nat] /\ All(u, bq) = Sum(parts)
    <3>1. u \in [Product -> Nat]
      OBVIOUS
    <3>2. ASSUME NEW p \in Product PROVE Weighted(u, bq)[p] = parts[p]
      <4>1. bq[p] \in Nat /\ u[p] = (IF p \in E THEN 0 ELSE 1) /\ parts[p] = IF p \in E THEN 0 ELSE bq[p]
        BY <2>1, <2>3
      <4>2. Weighted(u, bq)[p] = u[p] * bq[p]
        BY DEF Weighted
      <4> HIDE DEF u, parts
      <4> QED
        BY <4>1, <4>2
    <3>3. Weighted(u, bq) = parts /\ DOMAIN parts = Product
      <4>1. DOMAIN parts = Product /\ parts = [p \in Product |-> parts[p]]
        OBVIOUS
      <4>2. Weighted(u, bq) = [p \in Product |-> Weighted(u, bq)[p]]
        BY DEF Weighted
      <4> HIDE DEF u, parts
      <4> QED
        BY <3>2, <4>1, <4>2
    <3> HIDE DEF u, parts
    <3> QED
      BY <3>1, <3>3, SumIsSumOf DEF All
  <2>9. ASSUME NEW i \in 1 .. k PROVE Part(u, split[i], q) = 1
    <3>1. PICK p \in Rest : split[i] = <<p>>
      BY <2>7
    <3>2. p \in Product /\ u[p] = 1 /\ q[p] = 1
      BY <2>3 DEF Rest
    <3>3. Part(u, <<p>>, q) = u[p]
      BY <2>8, <3>2, PartOfOne
    <3> HIDE DEF u
    <3> QED
      BY <3>1, <3>2, <3>3
  <2>10. ASSUME NEW i \in k + 1 .. n PROVE Part(u, split[i], q) = 0
    <3>1. PICK products : products = split[i]
      OBVIOUS
    <3>2. products \in Seq(Product) /\ Range(products) = E
      BY <2>4, <2>7, <3>1
    <3> DEFINE v == Values(u, products, q)
    <3>3. ASSUME NEW j \in 1 .. Len(products) PROVE v[j] = 0
      <4>1. products[j] \in E /\ q[products[j]] \in Nat
        BY <2>3, <3>2 DEF Range
      <4>2. u[products[j]] = 0
        BY <2>1, <2>3, <4>1
      <4>3. v[j] = u[products[j]] * q[products[j]]
        BY DEF Values
      <4> HIDE DEF u, v
      <4> QED
        BY <4>1, <4>2, <4>3
    <3>4. IsFiniteSet(1 .. Len(products))
      BY <3>2, FS_Interval
    <3> HIDE DEF v
    <3>5. SumOf(v, 1 .. Len(products)) = 0
      BY <3>3, <3>4, SumZero
    <3> QED
      BY <3>1, <3>5 DEF v, Part
  <2>11. Sum(parts) = k
    <3> DEFINE f == [i \in 1 .. n |-> Part(u, split[i], q)]
    <3>1. SumOf(f, 1 .. n) = Sum(parts)
      BY <2>4, <2>8
    <3>2. (\A i \in 1 .. k : f[i] = 1) /\ \A i \in k + 1 .. n : f[i] = 0
      <4>1. \A i \in 1 .. n : f[i] = Part(u, split[i], q)
        OBVIOUS
      <4>2. \A i \in 1 .. k : i \in 1 .. n
        BY <2>4
      <4>3. \A i \in k + 1 .. n : i \in 1 .. n
        BY <2>4
      <4> HIDE DEF f, u
      <4> QED
        BY <2>9, <2>10, <4>1, <4>2, <4>3
    <3>3. PICK none, one, rest : none = 0 /\ one = 1 /\ rest = n - k /\ none + k = k /\ k + rest = n
      BY <2>4
    <3> HIDE DEF f, parts, u
    <3>4. SumOf(f, 1 .. none + k) = SumOf(f, 1 .. none) + k * one
      <4>1. none \in Nat /\ k \in Nat /\ (\A i \in 1 .. none : f[i] \in Int)
            /\ one \in Int /\ \A i \in none + 1 .. none + k : f[i] = one
        BY <3>2, <3>3
      <4> QED
        BY <4>1, SumCopies
    <3>5. SumOf(f, 1 .. k + rest) = SumOf(f, 1 .. k) + rest * none
      <4>1. k \in Nat /\ rest \in Nat /\ (\A i \in 1 .. k : f[i] \in Int)
            /\ none \in Int /\ \A i \in k + 1 .. k + rest : f[i] = none
        BY <2>4, <3>2, <3>3
      <4> QED
        BY <4>1, SumCopies
    <3>6. SumOf(f, 1 .. none) = 0
      <4>1. 1 .. none = {}
        BY <3>3
      <4> QED
        BY <4>1, SumEmpty
    <3> QED
      BY <3>1, <3>3, <3>4, <3>5, <3>6
  <2>12. n # 0
    <3>1. PICK x \in Product : TRUE
      <4>1. List[1] \in Product
        BY SplittingAssumption
      <4> QED
        BY <4>1
    <3> QED
      BY <2>6
  <2>13. orders # <<>> /\ \A i \in DOMAIN orders : orders[i].index = i /\ orders[i].total = Len(orders)
    <3>1. \A i : GenerateOrder(i).index = i /\ GenerateOrder(i).total = Len(split)
      BY DEF GenerateOrder
    <3> QED
      BY <2>1, <2>2, <2>4, <2>12, <3>1
  <2> HIDE DEF u
  <2> QED
    BY <2>1, <2>2, <2>4, <2>7, <2>11, <2>13 DEF PartsNumbered
<1> QED
  BY <1>1, SplitInvariant, PTL

\* With the quantities set to 1, no number of the order is more than before, and one
\* is less if a product that is no extra part and counts was bought more than once.
LEMMA SetTo1IsLess ==
  ASSUME BoughtIs, NEW f \in [Product -> Number]
  PROVE  /\ All(Unit(f), SetTo1) \in Nat /\ All(Unit(f), bought.quantity) \in Nat
         /\ All(Unit(f), SetTo1) <= All(Unit(f), bought.quantity)
         /\ (\A p \in Rest : bought.quantity[p] > 1 => ~(f[p] > 0))
              => All(Unit(f), SetTo1) = All(Unit(f), bought.quantity)
         /\ (\E p \in Rest : bought.quantity[p] > 1 /\ f[p] > 0)
              => All(Unit(f), SetTo1) < All(Unit(f), bought.quantity)
<1> DEFINE u == Unit(f)
           bq == bought.quantity
           w == Weighted(u, SetTo1)
           x == Weighted(u, bq)
<1>1. u \in [Product -> Nat] /\ \A p \in Product : u[p] = IF f[p] = NaN THEN 0 ELSE f[p]
  BY UnitIs DEF Unit
<1>2. bq \in [Product -> Nat] /\ SetTo1 \in [Product -> Nat] /\ \A p \in Product : bq[p] >= 1
  BY BoughtType
<1>3. All(u, SetTo1) = SumOf(w, Product) /\ All(u, bq) = SumOf(x, Product)
  BY DEF All
<1>4. \A p \in Product : w[p] = u[p] * SetTo1[p] /\ x[p] = u[p] * bq[p]
  BY DEF Weighted
<1>5. IsFiniteSet(Product)
  BY ListFacts
<1>6. SumOf(w, Product) \in Nat /\ SumOf(x, Product) \in Nat
  BY <1>1, <1>2, AllType
<1>7. ASSUME NEW p \in Product
      PROVE  /\ w[p] \in Nat /\ x[p] \in Nat /\ w[p] <= x[p]
             /\ (p \in Rest => (bq[p] > 1 => ~(f[p] > 0))) => w[p] = x[p]
             /\ (p \in Rest /\ bq[p] > 1 /\ f[p] > 0) => w[p] < x[p]
  <2>1. PICK a, b, c, g : a = u[p] /\ b = bq[p] /\ c = SetTo1[p] /\ g = f[p]
    OBVIOUS
  <2>2. a \in Nat /\ b \in Nat /\ c \in Nat /\ b >= 1
    BY <1>1, <1>2, <2>1
  <2>3. w[p] = a * c /\ x[p] = a * b
    BY <1>4, <2>1
  <2>4. c = IF p \in Rest THEN 1 ELSE b
    BY <2>1 DEF SetTo1, Rest
  <2>5. (g \in Nat \/ g = NaN) /\ a = IF g = NaN THEN 0 ELSE g
    BY <1>1, <2>1 DEF Number
  <2>6. a * 1 = a /\ (a = 0 => a * b = 0)
    BY <2>2
  <2>7. a <= a * b /\ (a > 0 /\ b > 1 => a < a * b) /\ a * b \in Nat
    <3>1. PICK k \in Nat : b = k + 1
      <4>1. b - 1 \in Nat /\ b = (b - 1) + 1
        BY <2>2
      <4> QED
        BY <4>1
    <3>2. a * b = a * k + a /\ a * k \in Nat
      BY <2>2, <3>1
    <3>3. a > 0 /\ k > 0 => a * k > 0
      BY <2>2, <3>1
    <3> QED
      BY <2>2, <3>1, <3>2, <3>3
  <2>8. a > 0 <=> g > 0
    BY <2>5 DEF NaN
  <2>9. b > 1 \/ b = 1
    BY <2>2
  <2> HIDE DEF w, x, u, bq
  <2>10. w[p] \in Nat /\ x[p] \in Nat /\ w[p] <= x[p]
    BY <2>2, <2>3, <2>4, <2>6, <2>7
  <2>11. ASSUME p \in Rest, b > 1, g > 0 PROVE w[p] < x[p]
    BY <2>3, <2>4, <2>6, <2>7, <2>8, <2>11
  <2>12. ASSUME p \in Rest => (b > 1 => ~(g > 0)) PROVE w[p] = x[p]
    <3>1. CASE p \notin Rest
      BY <2>3, <2>4, <3>1
    <3>2. CASE p \in Rest /\ b = 1
      BY <2>3, <2>4, <3>2
    <3>3. CASE p \in Rest /\ b > 1
      <4>1. a = 0
        BY <2>2, <2>8, <2>12, <3>3
      <4> QED
        BY <2>3, <2>4, <2>6, <3>3, <4>1
    <3> QED
      BY <2>9, <3>1, <3>2, <3>3
  <2> QED
    BY <2>1, <2>10, <2>11, <2>12
<1> HIDE DEF w, x, u
<1>8. SumOf(w, Product) <= SumOf(x, Product)
  BY <1>5, <1>7, SumAtMost
<1>9. (\A p \in Rest : bq[p] > 1 => ~(f[p] > 0)) => SumOf(w, Product) = SumOf(x, Product)
  BY <1>5, <1>7, SumAgrees
<1>10. (\E p \in Rest : bq[p] > 1 /\ f[p] > 0) => SumOf(w, Product) < SumOf(x, Product)
  <2> SUFFICES ASSUME NEW p \in Rest, bq[p] > 1, f[p] > 0 PROVE SumOf(w, Product) < SumOf(x, Product)
    OBVIOUS
  <2>1. p \in Product
    BY DEF Rest
  <2>2. w[p] < x[p]
    BY <1>7, <2>1
  <2> QED
    BY <1>5, <1>7, <2>1, <2>2, SumLess
<1> QED
  BY <1>3, <1>6, <1>8, <1>9, <1>10 DEF u

LEMMA SomeIsLess ==
  ASSUME NEW a \in Int, NEW b \in Int, NEW c \in Int, NEW x \in Int, NEW y \in Int, NEW z \in Int,
         a <= x, b <= y, c <= z, a < x \/ b < y \/ c < z
  PROVE  a + b + c < x + y + z
  OBVIOUS

\* All orders show one amount; it is what was paid, or less if a product that is no
\* extra part, and not free, was bought more than once.
THEOREM AmountIsPaidOrLess == Spec => []AmountPaidIsWhole
<1>1. SplitInv => AmountPaidIsWhole
  <2> DEFINE bq == bought.quantity
             paid == Whole(Price) + Whole(Shipping) + Whole(Tax)
             many == {p \in Product \ bought.extra :
                        bq[p] > 1 /\ (Price[p] > 0 \/ Shipping[p] > 0 \/ Tax[p] > 0)}
  <2> SUFFICES ASSUME SplitInv, NEW i \in DOMAIN orders
               PROVE  /\ orders[i].amountPaid = orders[1].amountPaid
                      /\ many = {} => orders[i].amountPaid = paid
                      /\ many # {} => orders[i].amountPaid < paid
    BY DEF AmountPaidIsWhole
  <2>1. BoughtIs /\ AfterSplit
    <3>1. orders = <<>> => DOMAIN orders = {}
      OBVIOUS
    <3> QED
      BY <3>1 DEF SplitInv, BeforeSplit
  <2>2. DOMAIN orders = 1 .. Len(orders) /\ Len(orders) \in Nat
    BY <2>1 DEF AfterSplit
  <2>3. 1 \in 1 .. Len(orders) /\ i \in 1 .. Len(orders)
    BY <2>2
  <2>4. orders[i].amountPaid = amountPaid /\ orders[1].amountPaid = amountPaid
    BY <2>1, <2>3, OrderIs DEF AfterSplit
  <2>5. amountPaid = AmountOf(SetTo1)
    BY <2>1 DEF AfterSplit
  <2>6. Price \in [Product -> Number] /\ Shipping \in [Product -> Number] /\ Tax \in [Product -> Number]
    BY SplittingAssumption
  <2>7. \A f \in [Product -> Number] : Whole(f) = All(Unit(f), bq)
    <3>1. bq \in [Product -> Nat]
      BY <2>1, BoughtType
    <3> QED
      BY <3>1, WholeIs
  <2>8. PICK pp, ps, pt, ap, ash, atx :
          /\ pp = Whole(Price) /\ ps = Whole(Shipping) /\ pt = Whole(Tax)
          /\ ap = All(Unit(Price), SetTo1) /\ ash = All(Unit(Shipping), SetTo1) /\ atx = All(Unit(Tax), SetTo1)
    OBVIOUS
  <2>9. paid = pp + ps + pt /\ amountPaid = ap + ash + atx
    BY <2>5, <2>8 DEF AmountOf
  <2>10. /\ pp \in Nat /\ ap \in Nat /\ ap <= pp
         /\ (\A p \in Rest : bq[p] > 1 => ~(Price[p] > 0)) => ap = pp
         /\ (\E p \in Rest : bq[p] > 1 /\ Price[p] > 0) => ap < pp
    BY <2>1, <2>6, <2>7, <2>8, SetTo1IsLess
  <2>11. /\ ps \in Nat /\ ash \in Nat /\ ash <= ps
         /\ (\A p \in Rest : bq[p] > 1 => ~(Shipping[p] > 0)) => ash = ps
         /\ (\E p \in Rest : bq[p] > 1 /\ Shipping[p] > 0) => ash < ps
    BY <2>1, <2>6, <2>7, <2>8, SetTo1IsLess
  <2>12. /\ pt \in Nat /\ atx \in Nat /\ atx <= pt
         /\ (\A p \in Rest : bq[p] > 1 => ~(Tax[p] > 0)) => atx = pt
         /\ (\E p \in Rest : bq[p] > 1 /\ Tax[p] > 0) => atx < pt
    BY <2>1, <2>6, <2>7, <2>8, SetTo1IsLess
  <2>13. Rest = Product \ bought.extra
    BY DEF Rest
  <2> HIDE DEF paid
  <2>14. ASSUME many = {} PROVE amountPaid = paid
    <3>1. \A p \in Rest : bq[p] > 1 => ~(Price[p] > 0) /\ ~(Shipping[p] > 0) /\ ~(Tax[p] > 0)
      BY <2>13, <2>14
    <3>2. ap = pp /\ ash = ps /\ atx = pt
      BY <3>1, <2>10, <2>11, <2>12
    <3> QED
      BY <3>2, <2>9
  <2>15. ASSUME many # {} PROVE amountPaid < paid
    <3>1. PICK p \in Rest : bq[p] > 1 /\ (Price[p] > 0 \/ Shipping[p] > 0 \/ Tax[p] > 0)
      BY <2>13, <2>15
    <3>2. ap < pp \/ ash < ps \/ atx < pt
      BY <3>1, <2>10, <2>11, <2>12
    <3>3. ap + ash + atx < pp + ps + pt
      <4>1. ap \in Int /\ pp \in Int /\ ap <= pp
        BY <2>10
      <4>2. ash \in Int /\ ps \in Int /\ ash <= ps
        BY <2>11
      <4>3. atx \in Int /\ pt \in Int /\ atx <= pt
        BY <2>12
      <4> QED
        BY ONLY <3>2, <4>1, <4>2, <4>3, SomeIsLess
    <3> QED
      BY <3>3, <2>9
  <2> HIDE DEF many
  <2> QED
    BY <2>4, <2>14, <2>15
<1> QED
  BY <1>1, SplitInvariant, PTL

-----------------------------------------------------------------------------
(* The label: what either side has made of the order so far.               *)

NameOnly(name) == [NoLabel EXCEPT !.name = name]

InField(field, label) == [f \in Field |-> IF f = field THEN label ELSE NoLabel]

NoFields == [f \in Field |-> NoLabel]

OrderOf(fields, sku, note, service) ==
    [fields |-> fields, sku |-> sku, note |-> note, service |-> service]

CronFirst ==
    OrderOf(IF item.sku \in Watch THEN InField("customField1", NameOnly(WatchName(item.sku)))
            ELSE NoFields,
            <<item.sku>>, Blank, "UPS")

NoteOf(g) ==
    IF /\ g.name \in {"Pistol", "Compact", "Defender", "Frame", "Liberty", "Rifles"}
       /\ Color \in {Blank, "undefined"}
    THEN "Color Undefined" ELSE Blank

CronLabelled(g, suffix) ==
    OrderOf(InField(FieldOf(g), Label(g, CronSize(g), CronLock(g))),
            IF Blank \in {Color, item.sku} THEN <<item.sku>> ELSE <<item.sku>> \o suffix, NoteOf(g), "UPS")

BackendFields ==
    IF item.extra THEN InField("customField1", NameOnly("Misc Shipping"))
    ELSE IF item.sku \in {"SEALIONDIVEWATCH", "RAPTORWATCH"}
    THEN InField("customField1", NameOnly(WatchName(item.sku)))
    ELSE NoFields

BackendFirst == OrderOf(BackendFields, <<item.sku>>, Blank, IF item.extra THEN "USPS" ELSE "UPS")

BackendLabelled(g) ==
    OrderOf(InField(FieldOf(g), Label(g, BackendSize(g), BackendLock(g))),
            <<item.sku>>, Blank, "UPS")

\* Only an order without a field of its own is labelled by a group.
CronDone ==
    IF item.sku \in Watch \/ CronGroups = {} THEN order["cron"] = CronFirst
    ELSE \E g \in CronGroups, suffix \in ItemColors : order["cron"] = CronLabelled(g, suffix)

BackendOwn == item.extra \/ item.sku \in {"SEALIONDIVEWATCH", "RAPTORWATCH"}

BackendDone ==
    IF BackendOwn THEN order["backend"] = BackendFirst
    ELSE \E rows \in Reads :
           IF BackendGroups(rows) = {} THEN order["backend"] = BackendFirst
           ELSE \E g \in BackendGroups(rows) : order["backend"] = BackendLabelled(g)

IsOrders(o) == o = [s \in Side |-> o[s]]

LabelsInv ==
    /\ item \in Item /\ table \in Tables
    /\ IsOrders(order) /\ stage \in [Side -> {"extraCase", "post", "done"}]
    /\ stage["cron"] = "extraCase" => order["cron"] = NewOrder(item.sku)
    /\ stage["cron"] = "post" => order["cron"] = CronFirst
    /\ stage["cron"] = "done" => CronDone
    /\ stage["backend"] = "extraCase" => order["backend"] = NewOrder(item.sku)
    /\ stage["backend"] = "post" => order["backend"] = BackendFirst
    /\ stage["backend"] = "done" => BackendDone

\* The orders at first.
LEMMA InitLabels == ASSUME LabelsInit PROVE LabelsInv
  BY DEF LabelsInit, LabelsInv, IsOrders, Side

\* What a step leaves alone.
LEMMA SameItem ==
  ASSUME UNCHANGED <<item, table>>
  PROVE  /\ CronFirst' = CronFirst /\ BackendFirst' = BackendFirst /\ BackendOwn' = BackendOwn
         /\ CronGroups' = CronGroups /\ ItemColors' = ItemColors /\ Reads' = Reads /\ Color' = Color
         /\ \A rows : BackendGroups(rows)' = BackendGroups(rows)
         /\ \A g, suffix : CronLabelled(g, suffix)' = CronLabelled(g, suffix)
         /\ \A g : BackendLabelled(g)' = BackendLabelled(g)
<1>1. /\ CronFirst' = CronFirst /\ BackendFirst' = BackendFirst /\ BackendOwn' = BackendOwn
  BY DEF CronFirst, BackendFirst, BackendFields, BackendOwn
<1>2. Color' = Color
  BY DEF Color
<1>3. CronGroups' = CronGroups /\ \A rows : BackendGroups(rows)' = BackendGroups(rows)
  BY DEF CronGroups, BackendGroups, Matches
<1>4. ItemColors' = ItemColors /\ Reads' = Reads
  BY <1>2 DEF ItemColors, Reads
<1>5. \A g, suffix : CronLabelled(g, suffix)' = CronLabelled(g, suffix)
  BY <1>2 DEF CronLabelled, NoteOf, Label, CronSize, CronLock
<1>6. \A g : BackendLabelled(g)' = BackendLabelled(g)
  BY <1>2 DEF BackendLabelled, Label, BackendSize, BackendLock
<1> QED
  BY <1>1, <1>2, <1>3, <1>4, <1>5, <1>6

\* An order is a record of four parts.
LEMMA OrderParts ==
  ASSUME NEW fields, NEW sku, NEW note, NEW service
  PROVE  /\ OrderOf(fields, sku, note, service).fields = fields
         /\ OrderOf(fields, sku, note, service).sku = sku
         /\ OrderOf(fields, sku, note, service).note = note
         /\ OrderOf(fields, sku, note, service).service = service
  BY DEF OrderOf

\* The assignments of the code to one part of an order.
SetFields(o, fields) == [o EXCEPT !.fields = fields]
SetSku(o, sku) == [o EXCEPT !.sku = sku]
SetNote(o, note) == [o EXCEPT !.note = note]
SetService(o, service) == [o EXCEPT !.service = service]

\* Each of them leaves the other parts alone.
LEMMA OrderSets ==
  ASSUME NEW fields, NEW sku, NEW note, NEW service, NEW new
  PROVE  /\ SetFields(OrderOf(fields, sku, note, service), new) = OrderOf(new, sku, note, service)
         /\ SetSku(OrderOf(fields, sku, note, service), new) = OrderOf(fields, new, note, service)
         /\ SetNote(OrderOf(fields, sku, note, service), new) = OrderOf(fields, sku, new, service)
         /\ SetService(OrderOf(fields, sku, note, service), new) = OrderOf(fields, sku, note, new)
<1>1. SetFields(OrderOf(fields, sku, note, service), new) = OrderOf(new, sku, note, service)
  BY DEF OrderOf, SetFields
<1>2. SetSku(OrderOf(fields, sku, note, service), new) = OrderOf(fields, new, note, service)
  BY DEF OrderOf, SetSku
<1>3. SetNote(OrderOf(fields, sku, note, service), new) = OrderOf(fields, sku, new, service)
  BY DEF OrderOf, SetNote
<1>4. SetService(OrderOf(fields, sku, note, service), new) = OrderOf(fields, sku, note, new)
  BY DEF OrderOf, SetService
<1> QED
  BY <1>1, <1>2, <1>3, <1>4

\* The new order of either side.
LEMMA NewOrderIs ==
  ASSUME NEW sku
  PROVE  NewOrder(sku) = OrderOf(NoFields, <<sku>>, Blank, "UPS")
  BY DEF NewOrder, OrderOf, NoFields

\* The field of an order that has none.
LEMMA SetFieldIs ==
  ASSUME IsOrders(order), NEW side \in Side, NEW field \in Field, NEW label,
         order[side] = NewOrder(item.sku)
  PROVE  /\ IsOrders(SetField(side, field, label))
         /\ SetField(side, field, label)[side]
               = OrderOf(InField(field, label), <<item.sku>>, Blank, "UPS")
         /\ \A s \in Side \ {side} : SetField(side, field, label)[s] = order[s]
<1>1. PICK o, N : o = order[side] /\ N = OrderOf(InField(field, label), <<item.sku>>, Blank, "UPS")
  OBVIOUS
<1>2. o = OrderOf(NoFields, <<item.sku>>, Blank, "UPS")
  BY <1>1, NewOrderIs
<1>3. [NoFields EXCEPT ![field] = label] = InField(field, label)
  BY DEF InField, NoFields
<1>4. SetFields(o, [o.fields EXCEPT ![field] = label]) = N
  BY <1>1, <1>2, <1>3, OrderParts, OrderSets
<1>5. SetField(side, field, label)
        = [order EXCEPT ![side] = SetFields(o, [o.fields EXCEPT ![field] = label])]
  BY <1>1 DEF SetField, SetFields
<1>6. PICK O : O = order
  OBVIOUS
<1>7. SetField(side, field, label) = [O EXCEPT ![side] = N] /\ O = [s \in Side |-> O[s]]
  BY <1>4, <1>5, <1>6 DEF IsOrders
<1> QED
  BY <1>1, <1>6, <1>7 DEF IsOrders

\* extraCase of the script keeps the invariant.
LEMMA CronExtraCaseStep == ASSUME LabelsInv, CronExtraCase PROVE LabelsInv'
<1>1. /\ stage["cron"] = "extraCase" /\ stage' = [stage EXCEPT !["cron"] = "post"]
      /\ UNCHANGED <<item, table>> /\ order["cron"] = NewOrder(item.sku) /\ IsOrders(order)
      /\ stage \in [Side -> {"extraCase", "post", "done"}]
  BY DEF CronExtraCase, Go, LabelsInv
<1>2. "customField1" \in Field /\ "cron" \in Side /\ "backend" \in Side \ {"cron"}
  BY DEF Field, Side
<1>3. IsOrders(order') /\ order'["cron"] = CronFirst /\ order'["backend"] = order["backend"]
  <2>1. CASE item.sku \in Watch
    <3>1. order' = SetField("cron", "customField1", NameOnly(WatchName(item.sku)))
      BY <2>1 DEF CronExtraCase, NameOnly
    <3> QED
      BY <1>1, <1>2, <2>1, <3>1, SetFieldIs DEF CronFirst, NameOnly
  <2>2. CASE item.sku \notin Watch
    BY <1>1, <2>2, NewOrderIs DEF CronExtraCase, CronFirst
  <2> QED
    BY <2>1, <2>2
<1>4. /\ stage' \in [Side -> {"extraCase", "post", "done"}] /\ stage'["cron"] = "post"
      /\ stage'["backend"] = stage["backend"]
  BY <1>1 DEF Side
<1>5. BackendDone => BackendDone'
  BY <1>1, <1>3, SameItem DEF BackendDone
<1> QED
  BY <1>1, <1>3, <1>4, <1>5, SameItem DEF LabelsInv

\* extraCase of the hook keeps it, which may write the service as well.
LEMMA BackendExtraCaseStep == ASSUME LabelsInv, BackendExtraCase PROVE LabelsInv'
<1>1. /\ stage["backend"] = "extraCase" /\ stage' = [stage EXCEPT !["backend"] = "post"]
      /\ UNCHANGED <<item, table>> /\ order["backend"] = NewOrder(item.sku) /\ IsOrders(order)
      /\ stage \in [Side -> {"extraCase", "post", "done"}]
  BY DEF BackendExtraCase, Go, LabelsInv
<1>2. "customField1" \in Field /\ "backend" \in Side /\ "cron" \in Side \ {"backend"}
  BY DEF Field, Side
<1>3. IsOrders(order') /\ order'["backend"] = BackendFirst /\ order'["cron"] = order["cron"]
  <2>1. CASE item.extra
    <3>0. PICK label : label = NameOnly("Misc Shipping")
      OBVIOUS
    <3>1. PICK O : O = SetField("backend", "customField1", label)
      OBVIOUS
    <3>2. /\ IsOrders(O) /\ O["cron"] = order["cron"]
          /\ O["backend"] = OrderOf(InField("customField1", label), <<item.sku>>, Blank, "UPS")
      BY <1>1, <1>2, <3>1, SetFieldIs
    <3>3. order' = [O EXCEPT !["backend"] = SetService(O["backend"], "USPS")]
      BY <2>1, <3>0, <3>1 DEF BackendExtraCase, NameOnly, SetService
    <3>4. SetService(O["backend"], "USPS") = BackendFirst
      <4>1. SetService(O["backend"], "USPS")
              = OrderOf(InField("customField1", label), <<item.sku>>, Blank, "USPS")
        BY <3>2, OrderSets
      <4>2. BackendFields = InField("customField1", label)
        BY <2>1, <3>0 DEF BackendFields
      <4> QED
        BY <2>1, <4>1, <4>2 DEF BackendFirst
    <3> QED
      BY <1>2, <3>2, <3>3, <3>4 DEF IsOrders
  <2>2. CASE ~item.extra /\ item.sku \in {"SEALIONDIVEWATCH", "RAPTORWATCH"}
    <3>1. order' = SetField("backend", "customField1", NameOnly(WatchName(item.sku)))
      BY <2>2 DEF BackendExtraCase, NameOnly
    <3> QED
      BY <1>1, <1>2, <2>2, <3>1, SetFieldIs DEF BackendFirst, BackendFields
  <2>3. CASE ~item.extra /\ item.sku \notin {"SEALIONDIVEWATCH", "RAPTORWATCH"}
    BY <1>1, <2>3, NewOrderIs DEF BackendExtraCase, BackendFirst, BackendFields
  <2> QED
    BY <2>1, <2>2, <2>3
<1>4. /\ stage' \in [Side -> {"extraCase", "post", "done"}] /\ stage'["backend"] = "post"
      /\ stage'["cron"] = stage["cron"]
  BY <1>1 DEF Side
<1>5. CronDone => CronDone'
  BY <1>1, <1>3, SameItem DEF CronDone
<1> QED
  BY <1>1, <1>3, <1>4, <1>5, SameItem DEF LabelsInv

\* The names that are given before the groups are looked at.
LEMMA NamesGiven ==
  /\ "Misc Shipping" \notin {Blank, "Pistol", "Mantle"}
  /\ \A s \in Watch : WatchName(s) \notin {Blank, "Pistol", "Mantle"}
  BY Zenon DEF Blank, Watch, WatchName

\* Such a label holds nothing else.
LEMMA NameOnlyParts ==
  ASSUME NEW name
  PROVE  /\ NameOnly(name).name = name /\ NameOnly(name).size = Blank
         /\ NameOnly(name).color = Blank /\ NameOnly(name).lock = Blank
  BY DEF NameOnly, NoLabel

\* It is a label.
LEMMA NamedLabels ==
  /\ NameOnly("Misc Shipping") # NoLabel
  /\ \A s \in Watch : NameOnly(WatchName(s)) # NoLabel
<1>1. NoLabel.name = Blank
  BY DEF NoLabel
<1> QED
  BY <1>1, NamesGiven, NameOnlyParts

\* Whether an order has a field of its own.
LEMMA FirstFields ==
  ASSUME item \in Item
  PROVE  /\ (\E f \in Field : CronFirst.fields[f] # NoLabel) <=> item.sku \in Watch
         /\ BackendFirst.fields["customField1"] # NoLabel <=> BackendOwn
<1>1. PICK sku : sku = item.sku
  OBVIOUS
<1>2. "customField1" \in Field /\ \A f \in Field : NoFields[f] = NoLabel
  BY DEF Field, NoFields
<1>3. \A label : InField("customField1", label)["customField1"] = label
  BY <1>2 DEF InField
<1>5. NameOnly("Misc Shipping") # NoLabel /\ \A s \in Watch : NameOnly(WatchName(s)) # NoLabel
  BY NamedLabels
<1>6. (\E f \in Field : CronFirst.fields[f] # NoLabel) <=> item.sku \in Watch
  <2>1. CronFirst.fields = IF sku \in Watch THEN InField("customField1", NameOnly(WatchName(sku)))
                           ELSE NoFields
    BY <1>1, OrderParts DEF CronFirst
  <2> QED
    BY <1>1, <1>2, <1>3, <1>5, <2>1
<1>7. BackendFirst.fields["customField1"] # NoLabel <=> BackendOwn
  <2>1. BackendFirst.fields = BackendFields
    BY OrderParts DEF BackendFirst
  <2>2. {"SEALIONDIVEWATCH", "RAPTORWATCH"} \subseteq Watch
    BY DEF Watch
  <2> QED
    BY <1>1, <1>2, <1>3, <1>5, <2>1, <2>2 DEF BackendOwn, BackendFields
<1> QED
  BY <1>6, <1>7

\* Whatever the row says, the label goes into one of the three fields.
LEMMA FieldOfType == ASSUME NEW g PROVE FieldOf(g) \in Field
  BY DEF FieldOf, Field

\* postProcessOrders of the script keeps it: field, note and sku at once.
LEMMA CronPostProcessStep == ASSUME LabelsInv, CronPostProcess PROVE LabelsInv'
<1>1. /\ stage["cron"] = "post" /\ stage' = [stage EXCEPT !["cron"] = "done"]
      /\ UNCHANGED <<item, table>> /\ order["cron"] = CronFirst /\ IsOrders(order)
      /\ stage \in [Side -> {"extraCase", "post", "done"}] /\ item \in Item
  BY DEF CronPostProcess, Go, LabelsInv
<1>2. "cron" \in Side /\ "backend" \in Side \ {"cron"}
  BY DEF Side
<1>3. HasField("cron") <=> item.sku \in Watch
  BY <1>1, FirstFields DEF HasField
<1>4. IsOrders(order') /\ CronDone' /\ order'["backend"] = order["backend"]
  <2>1. CASE item.sku \in Watch \/ CronGroups = {}
    <3>1. order' = order
      BY <1>3, <2>1 DEF CronPostProcess
    <3> QED
      BY <1>1, <2>1, <3>1, SameItem DEF CronDone
  <2>2. CASE item.sku \notin Watch /\ CronGroups # {}
    <3>1. PICK g \in CronGroups, suffix \in ItemColors :
             order' = [SetField("cron", FieldOf(g), Label(g, CronSize(g), CronLock(g)))
                         EXCEPT !["cron"].note = InternalNote(g),
                                !["cron"].sku = IF Blank \in {Color, item.sku} THEN @ ELSE @ \o suffix]
      BY <1>3, <2>2 DEF CronPostProcess
    <3>2. PICK O, skus : /\ O = SetField("cron", FieldOf(g), Label(g, CronSize(g), CronLock(g)))
                         /\ skus = IF Blank \in {Color, item.sku} THEN <<item.sku>> ELSE <<item.sku>> \o suffix
      OBVIOUS
    <3>3. order["cron"] = NewOrder(item.sku)
      BY <1>1, <2>2, NewOrderIs DEF CronFirst
    <3>4. /\ IsOrders(O) /\ O["backend"] = order["backend"]
          /\ O["cron"] = OrderOf(InField(FieldOf(g), Label(g, CronSize(g), CronLock(g))),
                                 <<item.sku>>, Blank, "UPS")
      BY <1>1, <1>2, <3>2, <3>3, SetFieldIs, FieldOfType
    <3>5. InternalNote(g) = NoteOf(g)
      <4>1. order["cron"].note = Blank
        <5>1. order["cron"] = OrderOf(NoFields, <<item.sku>>, Blank, "UPS")
          BY <3>3, NewOrderIs
        <5> QED
          BY <5>1, OrderParts
      <4> QED
        BY <4>1 DEF InternalNote, NoteOf
    <3>6. O["cron"].sku = <<item.sku>>
      BY <3>4, OrderParts
    <3>7. PICK note : note = NoteOf(g)
      OBVIOUS
    <3>8. order' = [O EXCEPT !["cron"] = SetSku(SetNote(O["cron"], note), skus)]
      <4>1. PICK O2 : O2 = [O EXCEPT !["cron"] = SetNote(O["cron"], note)]
        OBVIOUS
      <4>2. O2["cron"] = SetNote(O["cron"], note) /\ O = [s \in Side |-> O[s]]
        BY <1>2, <3>4, <4>1 DEF IsOrders
      <4>3. O2["cron"].sku = <<item.sku>>
        BY <3>4, <4>2, OrderParts, OrderSets
      <4>4. order' = [O2 EXCEPT !["cron"].sku = IF Blank \in {Color, item.sku} THEN @ ELSE @ \o suffix]
        BY <3>1, <3>2, <3>5, <3>7, <4>1 DEF SetNote
      <4>5. order' = [O2 EXCEPT !["cron"] = SetSku(O2["cron"], skus)]
        BY <3>2, <4>3, <4>4 DEF SetSku
      <4> QED
        BY <1>2, <4>1, <4>2, <4>5
    <3>9. SetSku(SetNote(O["cron"], note), skus) = CronLabelled(g, suffix)
      <4>1. SetNote(O["cron"], note)
              = OrderOf(InField(FieldOf(g), Label(g, CronSize(g), CronLock(g))), <<item.sku>>, note, "UPS")
        BY <3>4, OrderSets
      <4> QED
        BY <3>2, <3>7, <4>1, OrderSets DEF CronLabelled
    <3>10. IsOrders(O) /\ order'["cron"] = CronLabelled(g, suffix) /\ order'["backend"] = O["backend"]
           /\ IsOrders(order')
      BY <1>2, <3>4, <3>8, <3>9 DEF IsOrders
    <3>13. IsOrders(order') /\ order'["backend"] = order["backend"]
      BY <3>4, <3>10
    <3>14. g \in CronGroups' /\ suffix \in ItemColors' /\ CronLabelled(g, suffix)' = CronLabelled(g, suffix)
      BY <1>1, SameItem
    <3>15. CronGroups' # {} /\ item' = item
      BY <1>1, <3>14
    <3>16. order'["cron"] = CronLabelled(g, suffix)'
      BY <3>10, <3>14
    <3>17. CronDone'
      BY <2>2, <3>14, <3>15, <3>16 DEF CronDone
    <3> QED
      BY <3>13, <3>17
  <2> QED
    BY <2>1, <2>2
<1>5. /\ stage' \in [Side -> {"extraCase", "post", "done"}] /\ stage'["cron"] = "done"
      /\ stage'["backend"] = stage["backend"]
  BY <1>1 DEF Side
<1>6. BackendDone => BackendDone'
  BY <1>1, <1>4, SameItem DEF BackendDone
<1> QED
  BY <1>1, <1>4, <1>5, <1>6, SameItem DEF LabelsInv

\* postProcessOrders of the hook keeps it.
LEMMA BackendPostProcessStep == ASSUME LabelsInv, BackendPostProcess PROVE LabelsInv'
<1>1. /\ stage["backend"] = "post" /\ stage' = [stage EXCEPT !["backend"] = "done"]
      /\ UNCHANGED <<item, table>> /\ order["backend"] = BackendFirst /\ IsOrders(order)
      /\ stage \in [Side -> {"extraCase", "post", "done"}] /\ item \in Item
  BY DEF BackendPostProcess, Go, LabelsInv
<1>2. "backend" \in Side /\ "cron" \in Side \ {"backend"}
  BY DEF Side
<1>3. order["backend"].fields["customField1"] # NoLabel <=> BackendOwn
  BY <1>1, FirstFields
<1>4. IsOrders(order') /\ BackendDone' /\ order'["cron"] = order["cron"]
  <2>1. PICK rows \in Reads :
           IF BackendOwn \/ BackendGroups(rows) = {}
           THEN UNCHANGED order
           ELSE \E g \in BackendGroups(rows) :
                  order' = SetField("backend", FieldOf(g), Label(g, BackendSize(g), BackendLock(g)))
    BY <1>3 DEF BackendPostProcess
  <2>2. CASE BackendOwn \/ BackendGroups(rows) = {}
    BY <1>1, <2>1, <2>2, SameItem DEF BackendDone
  <2>3. CASE ~BackendOwn /\ BackendGroups(rows) # {}
    <3>1. PICK g \in BackendGroups(rows) :
             order' = SetField("backend", FieldOf(g), Label(g, BackendSize(g), BackendLock(g)))
      BY <2>1, <2>3
    <3>2. PICK label : label = Label(g, BackendSize(g), BackendLock(g))
      OBVIOUS
    <3>3. order["backend"] = NewOrder(item.sku)
      BY <1>1, <2>3, NewOrderIs DEF BackendFirst, BackendFields, BackendOwn
    <3>4. /\ IsOrders(order') /\ order'["cron"] = order["cron"]
          /\ order'["backend"] = OrderOf(InField(FieldOf(g), label), <<item.sku>>, Blank, "UPS")
      BY <1>1, <1>2, <3>1, <3>2, <3>3, SetFieldIs, FieldOfType
    <3>5. order'["backend"] = BackendLabelled(g)
      BY <3>2, <3>4 DEF BackendLabelled
    <3> QED
      BY <1>1, <2>3, <3>4, <3>5, SameItem DEF BackendDone
  <2> QED
    BY <2>2, <2>3
<1>5. /\ stage' \in [Side -> {"extraCase", "post", "done"}] /\ stage'["backend"] = "done"
      /\ stage'["cron"] = stage["cron"]
  BY <1>1 DEF Side
<1>6. CronDone => CronDone'
  BY <1>1, <1>4, SameItem DEF CronDone
<1> QED
  BY <1>1, <1>4, <1>5, <1>6, SameItem DEF LabelsInv

\* What the order of either side is, at each stage: new, with the field that
\* extraCase gives, and at last labelled by a group if it had no such field.
THEOREM LabelsInvariant == LabelsSpec => []LabelsInv
<1>1. LabelsInit => LabelsInv
  BY InitLabels
<1>2. LabelsInv /\ [LabelsNext]_labelVars => LabelsInv'
  <2> SUFFICES ASSUME LabelsInv, [LabelsNext]_labelVars PROVE LabelsInv'
    OBVIOUS
  <2>1. CASE CronExtraCase
    BY <2>1, CronExtraCaseStep
  <2>2. CASE CronPostProcess
    BY <2>2, CronPostProcessStep
  <2>3. CASE BackendExtraCase
    BY <2>3, BackendExtraCaseStep
  <2>4. CASE BackendPostProcess
    BY <2>4, BackendPostProcessStep
  <2>5. CASE UNCHANGED labelVars
    BY <2>5, SameItem DEF labelVars, LabelsInv, CronDone, BackendDone, IsOrders
  <2> QED
    BY <2>1, <2>2, <2>3, <2>4, <2>5 DEF LabelsNext
<1> QED
  BY <1>1, <1>2, PTL DEF LabelsSpec


-----------------------------------------------------------------------------
(* What is on the order.                                                   *)

\* An order with one field filled.
LEMMA WrittenOne ==
  ASSUME NEW side, NEW field \in Field, NEW label, label # NoLabel,
         order[side].fields = InField(field, label)
  PROVE  Written(side) = {label} /\ Cardinality(Written(side)) = 1
<1>1. Written(side) = {label}
  BY DEF Written, InField
<1> QED
  BY <1>1, FS_Singleton

\* A field that was written first is still the only one, on either side.
LEMMA OwnIs ==
  ASSUME LabelsInv
  PROVE  OwnFieldStays
<1> SUFFICES ASSUME NEW s \in Side, stage[s] # "extraCase",
                    IF s = "cron" THEN item.sku \in Watch
                    ELSE item.extra \/ item.sku \in Watch \ TwoWatches
             PROVE  /\ order[s].fields["customField1"].name =
                          IF order[s].service = "USPS" THEN "Misc Shipping" ELSE WatchName(item.sku)
                    /\ Cardinality(Written(s)) = 1 /\ Len(order[s].sku) = 1
  BY DEF OwnFieldStays
<1>1. "customField1" \in Field
  BY DEF Field
<1>2. stage[s] \in {"post", "done"}
  BY DEF LabelsInv
<1>3. \A sku : Len(<<sku>>) = 1
  OBVIOUS
<1>4. CASE s = "cron"
  <2>1. order[s] = CronFirst /\ item.sku \in Watch
    BY <1>2, <1>4 DEF LabelsInv, CronDone
  <2>2. PICK label : label = NameOnly(WatchName(item.sku))
    OBVIOUS
  <2>3. /\ order[s].fields = InField("customField1", label) /\ order[s].sku = <<item.sku>>
        /\ order[s].service = "UPS"
    BY <2>1, <2>2, OrderParts DEF CronFirst
  <2>4. label # NoLabel /\ label.name = WatchName(item.sku)
    BY <2>1, <2>2, NamedLabels, NameOnlyParts
  <2>5. order[s].fields["customField1"] = label
    BY <1>1, <2>3 DEF InField
  <2> QED
    BY <1>1, <1>3, <2>3, <2>4, <2>5, WrittenOne
<1>5. CASE s = "backend"
  <2>1. BackendOwn /\ order[s] = BackendFirst
    BY <1>2, <1>5 DEF LabelsInv, BackendDone, BackendOwn, Watch, TwoWatches
  <2>2. PICK label : label = NameOnly(IF item.extra THEN "Misc Shipping" ELSE WatchName(item.sku))
    OBVIOUS
  <2>3. BackendFields = InField("customField1", label)
    BY <2>1, <2>2 DEF BackendOwn, BackendFields
  <2>4. /\ order[s].fields = InField("customField1", label) /\ order[s].sku = <<item.sku>>
        /\ order[s].service = IF item.extra THEN "USPS" ELSE "UPS"
    BY <2>1, <2>3, OrderParts DEF BackendFirst
  <2>5. /\ label # NoLabel
        /\ label.name = IF item.extra THEN "Misc Shipping" ELSE WatchName(item.sku)
    BY <2>1, <2>2, NamedLabels, NameOnlyParts DEF BackendOwn, Watch
  <2>6. order[s].fields["customField1"] = label
    BY <1>1, <2>4 DEF InField
  <2> QED
    BY <1>1, <1>3, <2>4, <2>5, <2>6, WrittenOne
<1> QED
  BY <1>4, <1>5 DEF Side

\* An order with none.
LEMMA NoFieldsWritten ==
  ASSUME NEW side, order[side].fields = NoFields
  PROVE  Written(side) = {}
  BY DEF Written, NoFields

\* The parts of the label that a group gives.
LEMMA LabelParts ==
  ASSUME NEW g, NEW size, NEW lock
  PROVE  /\ Label(g, size, lock).name = NameOf(g) /\ Label(g, size, lock).size = size
         /\ Label(g, size, lock).color = Color /\ Label(g, size, lock).lock = lock
  BY DEF Label

\* Beyond the names of OtherLock, the two tables of locks tell the same.
LEMMA LockTypesDiffer ==
  /\ DOMAIN CronLockTypes = 1 .. 13 /\ DOMAIN BackendLockTypes = 1 .. 13
  /\ \A i \in DOMAIN CronLockTypes :
        /\ BackendLockTypes[i].value = CronLockTypes[i].value
        /\ \A name : name \cap OtherLock = {} =>
               (BackendLockTypes[i].keys \cap name = {} <=> CronLockTypes[i].keys \cap name = {})
<1>1. PICK T, one : /\ T = CronLockTypes
                    /\ one = [keys |-> {"Family Secret Tactical Trap", "BT"}, value |-> "BT"]
  OBVIOUS
<1>2. DOMAIN T = 1 .. 13 /\ T[1] = one
  <2>1. DOMAIN CronLockTypes = 1 .. 13
    BY SMT DEF CronLockTypes
  <2>2. CronLockTypes[1] = [keys |-> {"Family Secret Tactical Trap", "BT"}, value |-> "BT"]
    BY SMT DEF CronLockTypes
  <2> QED
    BY <1>1, <2>1, <2>2
<1>3. T = [i \in 1 .. 13 |-> T[i]]
  <2>1. CronLockTypes = [i \in DOMAIN CronLockTypes |-> CronLockTypes[i]]
    <3>1. PICK a1, a2, a3, a4, a5, a6, a7, a8, a9, a10, a11, a12, a13 :
             CronLockTypes = <<a1, a2, a3, a4, a5, a6, a7, a8, a9, a10, a11, a12, a13>>
      BY Zenon DEF CronLockTypes
    <3>2. PICK U : U = <<a1, a2, a3, a4, a5, a6, a7, a8, a9, a10, a11, a12, a13>>
      OBVIOUS
    <3>3. U = [i \in DOMAIN U |-> U[i]]
      BY <3>2
    <3> QED
      BY <3>1, <3>2, <3>3
  <2> QED
    BY <1>1, <1>2, <2>1
<1>4. BackendLockTypes = [T EXCEPT ![1].keys = {"The Family Name", "BT"}]
  BY <1>1 DEF BackendLockTypes
<1>5. PICK B : B = BackendLockTypes
  OBVIOUS
<1>6. DOMAIN B = 1 .. 13 /\ \A i \in 1 .. 13 : i # 1 => B[i] = T[i]
  BY <1>2, <1>3, <1>4, <1>5
<1>7. B[1] = [T[1] EXCEPT !.keys = {"The Family Name", "BT"}]
  <2>1. 1 \in DOMAIN T
    BY <1>2
  <2> QED
    BY <1>3, <1>4, <1>5, <2>1
<1>8. /\ B[1].keys = {"The Family Name", "BT"} /\ B[1].value = "BT"
      /\ T[1].keys = {"Family Secret Tactical Trap", "BT"} /\ T[1].value = "BT"
  <2>1. PICK one1 : one1 = T[1]
    OBVIOUS
  <2>2. one1 = [keys |-> {"Family Secret Tactical Trap", "BT"}, value |-> "BT"]
    BY <1>1, <1>2, <2>1
  <2>3. /\ [one1 EXCEPT !.keys = {"The Family Name", "BT"}].keys = {"The Family Name", "BT"}
        /\ [one1 EXCEPT !.keys = {"The Family Name", "BT"}].value = "BT"
        /\ one1.keys = {"Family Secret Tactical Trap", "BT"} /\ one1.value = "BT"
    BY <2>2
  <2> QED
    BY <1>7, <2>1, <2>3
<1>9. \A name : name \cap OtherLock = {} =>
         (B[1].keys \cap name = {} <=> T[1].keys \cap name = {})
  BY <1>8 DEF OtherLock
<1> QED
  BY <1>1, <1>2, <1>5, <1>6, <1>8, <1>9

\* So both copies find the same lock.
LEMMA LocksAgree ==
  ASSUME NEW g, item.name \cap OtherLock = {}
  PROVE  CronLock(g) = BackendLock(g)
<1>1. "Elite" \notin item.name /\ "Bluetooth" \notin item.name
  BY DEF OtherLock
<1>2. {i \in DOMAIN CronLockTypes : CronLockTypes[i].keys \cap item.name # {}}
         = {i \in DOMAIN BackendLockTypes : BackendLockTypes[i].keys \cap item.name # {}}
  BY LockTypesDiffer
<1>3. FirstValue(CronLockTypes, item.name, "RFID") = FirstValue(BackendLockTypes, item.name, "RFID")
  <2>1. PICK hits : hits = {i \in DOMAIN CronLockTypes : CronLockTypes[i].keys \cap item.name # {}}
    OBVIOUS
  <2>2. CASE hits = {}
    BY <1>2, <2>1, <2>2 DEF FirstValue
  <2>3. CASE hits # {}
    <3>1. PICK first : first = CHOOSE i \in hits : \A j \in hits : i <= j
      OBVIOUS
    <3>2. /\ FirstValue(CronLockTypes, item.name, "RFID") = CronLockTypes[first].value
          /\ FirstValue(BackendLockTypes, item.name, "RFID") = BackendLockTypes[first].value
      BY <1>2, <2>1, <2>3, <3>1 DEF FirstValue
    <3>3. first \in hits
      <4>1. hits \subseteq Nat
        BY <2>1, LockTypesDiffer
      <4>2. \E i \in hits : \A j \in hits : i <= j
        BY <2>3, <4>1, LeastNumber
      <4> QED
        BY <3>1, <4>2
    <3> QED
      BY <2>1, <3>2, <3>3, LockTypesDiffer
  <2> QED
    BY <2>2, <2>3
<1> QED
  BY <1>1, <1>3 DEF CronLock, BackendLock

\* The backend reads all of a table that is not too long.
LEMMA ReadsAll ==
  ASSUME table \in Tables, Cardinality(table) <= Take, NEW rows \in Reads
  PROVE  rows = table
<1>1. IsFiniteSet(table) /\ Cardinality(table) \in Nat /\ Take \in Nat
  BY LabelsAssumption, FS_CardinalityType
<1>2. rows \subseteq table /\ Cardinality(rows) = Min({Take, Cardinality(table)})
  BY DEF Reads
<1>3. Min({Take, Cardinality(table)}) = Cardinality(table)
  <2>1. PICK a, b : a = Take /\ b = Cardinality(table) /\ a \in Nat /\ b \in Nat /\ b <= a
    BY <1>1
  <2>2. Min({a, b}) = b
    BY <2>1 DEF Min
  <2> QED
    BY <2>1, <2>2
<1> QED
  BY <1>1, <1>2, <1>3, FS_Subset

\* A group that no other one matches with is the only one for the backend, too.
LEMMA SameGroups ==
  ASSUME table \in Tables, Cardinality(CronGroups) <= 1
  PROVE  /\ CronGroups = {} => BackendGroups(table) = {}
         /\ \A g \in CronGroups : CronGroups = {g} /\ BackendGroups(table) = {g}
<1>1. IsFiniteSet(table) /\ \A g \in table : Rank[g.name] \in Int
  BY LabelsAssumption
<1>2. CronGroups \subseteq table
  BY DEF CronGroups, Longest
<1>3. IsFiniteSet(CronGroups)
  BY <1>1, <1>2, FS_Subset
<1>4. BackendGroups(table)
        = {g \in CronGroups : \A h \in CronGroups : Rank[g.name] <= Rank[h.name]}
  BY DEF BackendGroups, CronGroups
<1>5. ASSUME NEW g \in CronGroups
      PROVE  CronGroups = {g} /\ BackendGroups(table) = {g}
  <2>1. CronGroups = {g}
    <3>1. IsFiniteSet({g}) /\ Cardinality({g}) = 1
      BY FS_Singleton
    <3>2. Cardinality({g}) <= Cardinality(CronGroups) /\ Cardinality(CronGroups) \in Nat
      BY <1>3, FS_Subset, FS_CardinalityType
    <3> QED
      BY <1>3, <3>1, <3>2, FS_Subset
  <2>2. Rank[g.name] <= Rank[g.name]
    BY <1>1, <1>2
  <2> QED
    BY <1>4, <2>1, <2>2
<1> QED
  BY <1>4, <1>5

\* What CopiesAgree says of two labels.
AgreeOn(cron, backend) ==
    /\ cron.name = backend.name /\ cron.color = backend.color
    /\ item.name \cap OtherLock = {} => cron.lock = backend.lock
    /\ cron.size = Blank \/ backend.size = Blank

\* What the two sides have done with one item, field by field.
LEMMA AgreeIs ==
  ASSUME LabelsInv
  PROVE  CopiesAgree
<1> SUFFICES ASSUME stage["cron"] = "done", stage["backend"] = "done",
                    ~item.extra, item.sku \notin TwoWatches,
                    Cardinality(table) <= Take, Cardinality(CronGroups) <= 1,
                    NEW f \in Field
             PROVE  AgreeOn(order["cron"].fields[f], order["backend"].fields[f])
  BY DEF CopiesAgree, AgreeOn, Side
<1>1. CronDone /\ BackendDone /\ table \in Tables
  BY DEF LabelsInv
<1>2. NoLabel.name = Blank /\ NoLabel.size = Blank /\ NoLabel.color = Blank /\ NoLabel.lock = Blank
  BY DEF NoLabel
<1>3. AgreeOn(NoLabel, NoLabel)
  BY <1>2 DEF AgreeOn
<1>4. \A label : InField("customField1", label)[f] = IF f = "customField1" THEN label ELSE NoLabel
  BY DEF InField
<1>5. NoFields[f] = NoLabel
  BY DEF NoFields
<1>6. CASE item.sku \in Watch
  <2>1. order["cron"] = CronFirst /\ order["backend"] = BackendFirst
        /\ item.sku \in {"SEALIONDIVEWATCH", "RAPTORWATCH"}
    BY <1>1, <1>6 DEF CronDone, BackendDone, BackendOwn, Watch, TwoWatches
  <2>2. PICK label : label = NameOnly(WatchName(item.sku))
    OBVIOUS
  <2>3. order["cron"].fields = InField("customField1", label)
    BY <1>6, <2>1, <2>2, OrderParts DEF CronFirst
  <2>4. order["backend"].fields = BackendFields
    BY <2>1, OrderParts DEF BackendFirst
  <2>5. BackendFields = InField("customField1", label)
    BY <2>1, <2>2 DEF BackendFields
  <2>6. AgreeOn(label, label)
    BY <2>2, NameOnlyParts DEF AgreeOn
  <2> QED
    BY <1>3, <1>4, <2>3, <2>4, <2>5, <2>6
<1>7. CASE item.sku \notin Watch
  <2>1. ~BackendOwn /\ item.sku \notin {"SEALIONDIVEWATCH", "RAPTORWATCH"}
    BY <1>7 DEF BackendOwn, Watch
  <2>2. /\ BackendGroups(table) = {} => order["backend"] = BackendFirst
        /\ BackendGroups(table) # {} =>
              \E g \in BackendGroups(table) : order["backend"] = BackendLabelled(g)
    BY <1>1, <2>1, ReadsAll DEF BackendDone
  <2>3. CASE CronGroups = {}
    <3>1. order["cron"] = CronFirst /\ order["backend"] = BackendFirst
      BY <1>1, <2>2, <2>3, SameGroups DEF CronDone
    <3>2. order["cron"].fields = NoFields
      BY <1>7, <3>1, OrderParts DEF CronFirst
    <3>3. order["backend"].fields = BackendFields
      BY <3>1, OrderParts DEF BackendFirst
    <3>4. BackendFields = NoFields
      BY <2>1 DEF BackendFields
    <3> QED
      BY <1>3, <1>5, <3>2, <3>3, <3>4
  <2>4. CASE CronGroups # {}
    <3>1. PICK g \in CronGroups, suffix \in ItemColors : order["cron"] = CronLabelled(g, suffix)
      BY <1>1, <1>7, <2>4 DEF CronDone
    <3>2. order["backend"] = BackendLabelled(g)
      BY <1>1, <2>2, <3>1, SameGroups
    <3>3. PICK cron, backend : /\ cron = Label(g, CronSize(g), CronLock(g))
                               /\ backend = Label(g, BackendSize(g), BackendLock(g))
      OBVIOUS
    <3>4. order["cron"].fields = InField(FieldOf(g), cron)
      BY <3>1, <3>3, OrderParts DEF CronLabelled
    <3>5. order["backend"].fields = InField(FieldOf(g), backend)
      BY <3>2, <3>3, OrderParts DEF BackendLabelled
    <3>6. CronSize(g) = Blank \/ BackendSize(g) = Blank
      BY DEF CronSize, BackendSize
    <3>7. AgreeOn(cron, backend)
      BY <3>3, <3>6, LabelParts, LocksAgree DEF AgreeOn
    <3>8. /\ InField(FieldOf(g), cron)[f] = IF f = FieldOf(g) THEN cron ELSE NoLabel
          /\ InField(FieldOf(g), backend)[f] = IF f = FieldOf(g) THEN backend ELSE NoLabel
      BY DEF InField
    <3> QED
      BY <1>3, <3>4, <3>5, <3>7, <3>8
  <2> QED
    BY <2>3, <2>4
<1> QED
  BY <1>6, <1>7

\* The first key that a name holds has the value of the key that the name is of.
LEMMA FirstTells ==
  ASSUME NEW n \in Nat, NEW map, DOMAIN map = 1 .. n, InOrder(map), NEW default,
         NEW k \in DOMAIN Holds, k \in KeysOf(map)
  PROVE  \E i \in DOMAIN map :
             k \in map[i].keys /\ FirstValue(map, Holds[k], default) = map[i].value
<1>1. PICK i \in 1 .. n : k \in map[i].keys
  BY DEF KeysOf
<1>2. PICK hits : hits = {j \in DOMAIN map : map[j].keys \cap Holds[k] # {}}
  OBVIOUS
<1>3. k \in Holds[k]
  BY LabelsAssumption
<1>4. i \in hits /\ hits \subseteq Nat
  BY <1>1, <1>2, <1>3
<1>5. PICK first : first = CHOOSE j \in hits : \A h \in hits : j <= h
  OBVIOUS
<1>6. first \in hits /\ first <= i
  <2>1. \E j \in hits : \A h \in hits : j <= h
    BY <1>4, LeastNumber
  <2> QED
    BY <1>4, <1>5, <2>1
<1>7. FirstValue(map, Holds[k], default) = map[first].value
  BY <1>2, <1>4, <1>5 DEF FirstValue
<1>8. map[first].value = map[i].value
  <2>1. CASE first = i
    BY <2>1
  <2>2. CASE first < i
    BY <1>1, <1>2, <1>6, <2>2 DEF InOrder
  <2> QED
    BY <1>4, <1>6, <2>1, <2>2
<1> QED
  BY <1>1, <1>7, <1>8

\* A label on an order for UPS that is not for a watch is the one of a group.
LEMMA GroupLabels ==
  ASSUME LabelsInv, NEW s \in Side, order[s].service = "UPS", item.sku \notin Watch,
         NEW l \in Written(s)
  PROVE  \E g : l.color = Color /\ l.lock = IF s = "cron" THEN CronLock(g) ELSE BackendLock(g)
<1>1. order[s].fields # NoFields
  BY NoFieldsWritten
<1>2. order[s] # NewOrder(item.sku)
  <2>1. PICK new : new = OrderOf(NoFields, <<item.sku>>, Blank, "UPS")
    OBVIOUS
  <2>2. new.fields = NoFields /\ new = NewOrder(item.sku)
    BY <2>1, NewOrderIs, OrderParts
  <2> QED
    BY <1>1, <2>2
<1>3. ASSUME NEW g, NEW size, NEW lock, order[s].fields = InField(FieldOf(g), Label(g, size, lock))
      PROVE  l.color = Color /\ l.lock = lock
  <2>1. PICK label : label = Label(g, size, lock)
    OBVIOUS
  <2>2. l = label
    BY <1>3, <2>1, FieldOfType DEF Written, InField
  <2> QED
    BY <2>1, <2>2, LabelParts
<1>4. CASE s = "cron"
  <2>1. CronFirst.fields = NoFields
    BY OrderParts DEF CronFirst
  <2>2. PICK g \in CronGroups, suffix \in ItemColors : order[s] = CronLabelled(g, suffix)
    BY <1>1, <1>2, <1>4, <2>1 DEF LabelsInv, CronDone, Side
  <2>3. order[s].fields = InField(FieldOf(g), Label(g, CronSize(g), CronLock(g)))
    BY <2>2, OrderParts DEF CronLabelled
  <2> QED
    BY <1>3, <1>4, <2>3
<1>5. CASE s = "backend"
  <2>1. order[s] # BackendFirst
    <3>1. BackendFirst.fields = BackendFields
          /\ BackendFirst.service = IF item.extra THEN "USPS" ELSE "UPS"
      BY OrderParts DEF BackendFirst
    <3>2. CASE item.extra
      BY <3>1, <3>2
    <3>3. CASE ~item.extra
      BY <1>1, <3>1, <3>3 DEF BackendFields, Watch
    <3> QED
      BY <3>2, <3>3
  <2>2. PICK rows \in Reads : \E g \in BackendGroups(rows) : order[s] = BackendLabelled(g)
    BY <1>2, <1>5, <2>1 DEF LabelsInv, BackendDone, Side
  <2>4. PICK g \in BackendGroups(rows) : order[s] = BackendLabelled(g)
    BY <2>2
  <2>3. order[s].fields = InField(FieldOf(g), Label(g, BackendSize(g), BackendLock(g)))
    BY <2>4, OrderParts DEF BackendLabelled
  <2> QED
    BY <1>3, <1>5, <2>3
<1> QED
  BY <1>4, <1>5 DEF Side

\* A colour that is not given is the one of the name.
LEMMA BlankColor == ASSUME item.color = Blank PROVE Color = GetColorFromName(item.name)
<1>1. ConvertColorName(Blank) = Blank
  BY Zenon DEF ConvertColorName, Blank
<1> QED
  BY <1>1 DEF Color

\* A name that is all that a key holds gets what the table says of the key.
LEMMA KeysAre ==
  ASSUME LabelsInv, KeysInOrder
  PROVE  KeysTell
<1> DEFINE LockTypes(s) == IF s = "cron" THEN CronLockTypes ELSE BackendLockTypes
<1> SUFFICES ASSUME NEW s \in Side, NEW k \in DOMAIN Holds, NEW l \in Written(s),
                    item.name = Holds[k], order[s].service = "UPS", item.sku \notin Watch
             PROVE  /\ (k \in KeysOf(LockTypes(s)) /\ item.name \cap {"Elite", "Bluetooth"} = {}) =>
                          \E i \in DOMAIN LockTypes(s) :
                              k \in LockTypes(s)[i].keys /\ l.lock = LockTypes(s)[i].value
                    /\ (k \in KeysOf(SpecificColors) /\ item.color = Blank) =>
                          \E i \in DOMAIN SpecificColors :
                              k \in SpecificColors[i].keys /\ l.color = SpecificColors[i].value
  BY DEF KeysTell
<1>1. PICK g : l.color = Color /\ l.lock = IF s = "cron" THEN CronLock(g) ELSE BackendLock(g)
  BY GroupLabels
<1>2. ASSUME k \in KeysOf(LockTypes(s)), item.name \cap {"Elite", "Bluetooth"} = {}
      PROVE  \E i \in DOMAIN LockTypes(s) :
                 k \in LockTypes(s)[i].keys /\ l.lock = LockTypes(s)[i].value
  <2>1. l.lock = FirstValue(LockTypes(s), Holds[k], "RFID")
    BY <1>1, <1>2 DEF CronLock, BackendLock
  <2>2. 13 \in Nat /\ DOMAIN LockTypes(s) = 1 .. 13 /\ InOrder(LockTypes(s))
    BY LockTypesDiffer DEF KeysInOrder
  <2>3. PICK map, n : map = LockTypes(s) /\ n = 13
    OBVIOUS
  <2> HIDE DEF LockTypes
  <2>4. \E i \in DOMAIN map : k \in map[i].keys /\ FirstValue(map, Holds[k], "RFID") = map[i].value
    <3>1. n \in Nat /\ DOMAIN map = 1 .. n /\ InOrder(map) /\ k \in KeysOf(map)
      BY <1>2, <2>2, <2>3
    <3> QED
      BY <3>1, FirstTells
  <2> QED
    BY <2>1, <2>3, <2>4
<1>3. ASSUME k \in KeysOf(SpecificColors), item.color = Blank
      PROVE  \E i \in DOMAIN SpecificColors :
                 k \in SpecificColors[i].keys /\ l.color = SpecificColors[i].value
  <2>1. l.color = FirstValue(SpecificColors, Holds[k], Blank)
    BY <1>1, <1>3, BlankColor DEF GetColorFromName
  <2>2. 15 \in Nat /\ DOMAIN SpecificColors = 1 .. 15
    BY SMT DEF SpecificColors
  <2>3. PICK map, n : map = SpecificColors /\ n = 15
    OBVIOUS
  <2>4. \E i \in DOMAIN map : k \in map[i].keys /\ FirstValue(map, Holds[k], Blank) = map[i].value
    <3>1. n \in Nat /\ DOMAIN map = 1 .. n /\ InOrder(map) /\ k \in KeysOf(map)
      BY <1>3, <2>2, <2>3 DEF KeysInOrder
    <3> QED
      BY <3>1, FirstTells
  <2> QED
    BY <2>1, <2>3, <2>4
<1> QED
  BY <1>2, <1>3

\* For any tables of groups and products, a watch or an extra part keeps the label
\* that extraCase gives it and gets no second one: postProcessOrders passes over it.
THEOREM OwnLabelStays == LabelsSpec => []OwnFieldStays
<1>1. LabelsInv => OwnFieldStays
  BY OwnIs
<1> QED
  BY <1>1, LabelsInvariant, PTL

\* For any tables and names, the two copies of postProcessOrders give one item the same
\* field, group, colour and lock, apart from the names and skus that are excepted.
THEOREM SameLabels == LabelsSpec => []CopiesAgree
<1>1. LabelsInv => CopiesAgree
  BY AgreeIs
<1> QED
  BY <1>1, LabelsInvariant, PTL

\* For any tables and names, the lock and the colour of an item are those of the key that
\* its name is of: getLockTypeFromName and getColorFromName take the first key that they
\* find, and no key that holds another comes after it with another value.
THEOREM KeysTellAll == ASSUME KeysInOrder PROVE LabelsSpec => []KeysTell
<1>1. LabelsInv => KeysTell
  BY KeysAre
<1> QED
  BY <1>1, LabelsInvariant, PTL

=============================================================================
