-------------------------- MODULE StockLotsProofs --------------------------
(***************************************************************************)
(* What is written about rows that others write too.  StockLots: the stock *)
(* of a product is the sum of its lots, the lots are what its movements    *)
(* tell, and debts are purchases less payments, for every number of lots,  *)
(* purchases, sales, payments and transactions in flight.  Bootstrap: a    *)
(* boot fills the rows it finds, for every number of instances and rows.   *)
(***************************************************************************)
EXTENDS StockLots, Bootstrap, SumTheorems, NaturalsInduction, TLAPS

(***************************************************************************)
(* The rows of lots, and what the handlers make of them.                   *)
(***************************************************************************)
LotRows == [number : Nat, qty : Nat, exp : Nat, item : Nat]
Lots == [Slots -> LotRows]
Takes == [Slots -> Nat]
Refusals == [ok : {FALSE}, locks : SUBSET Slots]
Accepted == [ok : {TRUE}, lots : Lots, locks : SUBSET Slots, units : Int, take : Takes,
             short : Int]

Units(ls) == [i \in Slots |-> ls[i].qty]

\* What the rows in locks change by.
Gain(ls, out) == [i \in Slots |-> IF i \in out.locks THEN out.lots[i].qty - ls[i].qty ELSE 0]

\* The lots change by the units of the movements and those no lot gave.
Explained(ls, out) == SumFunctionOnSet(Gain(ls, out), Slots) = out.units + out.short

\* A set of naturals has a least member.
LEMMA MinIs ==
    ASSUME NEW S \in SUBSET Nat, S # {}
    PROVE  Min(S) \in S
<1>1. PICK x \in S : \A y \in S : ~(<<y, x>> \in OpToRel(<, Nat))
  BY NatLessThanWellFounded, WFMin
<1>2. \A y \in S : ~(y < x)
  BY <1>1 DEF OpToRel
<1>3. \A y \in S : x <= y
  BY <1>2
<1> QED
  BY <1>3 DEF Min

\* A finite set of naturals has a greatest one.
LEMMA MaxIs ==
    ASSUME NEW S \in SUBSET Nat, S # {}, IsFiniteSet(S)
    PROVE  Max(S) \in S
<1> DEFINE R == {p \in S \X S : p[1] < p[2]}
<1>1. \A x, y \in S : <<x, y>> \in R <=> x < y
  OBVIOUS
<1>2. StrictOrder(R, S)
  <2> HIDE DEF R
  <2> QED BY <1>1 DEF StrictOrder
<1>3. PICK m \in S : \A x \in S \ {m} : <<x, m>> \in R
  <2> HIDE DEF R
  <2> QED BY <1>2, LastExists
<1>4. \A x \in S : x <= m
  <2> TAKE x \in S
  <2>1. x = m \/ <<x, m>> \in R
    BY <1>3
  <2>2. x = m \/ x < m
    BY <1>1, <2>1
  <2> QED BY <2>2
<1> QED
  BY <1>4 DEF Max

\* What some lots hold is the sum of their units.
LEMMA HeldIs ==
    ASSUME NEW ls, NEW S \in SUBSET Slots
    PROVE  Held(ls, S) = SumFunctionOnSet(Units(ls), S)
<1>1. IsFiniteSet(S)
  BY RowAssumption, FS_Subset
<1> DEFINE f == [i \in S |-> ls[i].qty]
<1>2. \A i \in S : f[i] = Units(ls)[i]
  BY DEF Units
<1>3. SumFunctionOnSet(f, S) = SumFunctionOnSet(Units(ls), S)
  <2> HIDE DEF f
  <2> QED BY <1>1, <1>2, SumSame
<1>4. Held(ls, S) = SumFunctionOnSet(f, DOMAIN f)
  BY DEF Held, SumFunction
<1> QED
  BY <1>3, <1>4

LEMMA UnitsNat ==
    ASSUME NEW ls \in Lots
    PROVE  /\ \A i \in Slots : Units(ls)[i] \in Nat /\ Units(ls)[i] = ls[i].qty
           /\ \A S \in SUBSET Slots : Held(ls, S) \in Nat
<1>1. \A i \in Slots : Units(ls)[i] \in Nat /\ Units(ls)[i] = ls[i].qty
  BY DEF Units, Lots, LotRows
<1>2. ASSUME NEW S \in SUBSET Slots PROVE Held(ls, S) \in Nat
  <2>1. IsFiniteSet(S)
    BY RowAssumption, FS_Subset
  <2> QED BY <1>1, <2>1, HeldIs, SumNat
<1> QED
  BY <1>1, <1>2

\* The FEFO order of the lots.
FefoOrder(ls) == {p \in Slots \X Slots : Before(Rank(ls, p[1]), Rank(ls, p[2]))}

LEMMA BeforeCases ==
    ASSUME NEW a, NEW b, a[1] \in Int, a[2] \in Int, a[3] \in Int, a[4] \in Int,
           b[1] \in Int, b[2] \in Int, b[3] \in Int, b[4] \in Int
    PROVE  Before(a, b) <=> \/ a[1] < b[1]
                            \/ a[1] = b[1] /\ a[2] < b[2]
                            \/ a[1] = b[1] /\ a[2] = b[2] /\ a[3] < b[3]
                            \/ a[1] = b[1] /\ a[2] = b[2] /\ a[3] = b[3] /\ a[4] < b[4]
<1>1. ASSUME Before(a, b)
      PROVE  \/ a[1] < b[1]
             \/ a[1] = b[1] /\ a[2] < b[2]
             \/ a[1] = b[1] /\ a[2] = b[2] /\ a[3] < b[3]
             \/ a[1] = b[1] /\ a[2] = b[2] /\ a[3] = b[3] /\ a[4] < b[4]
  <2>1. PICK k \in 1 .. 4 : a[k] < b[k] /\ \A m \in 1 .. (k - 1) : a[m] = b[m]
    BY <1>1 DEF Before
  <2>2. k = 1 \/ k = 2 \/ k = 3 \/ k = 4
    OBVIOUS
  <2> QED BY <2>1, <2>2
<1>2. ASSUME a[1] < b[1] PROVE Before(a, b)
  BY <1>2 DEF Before
<1>3. ASSUME a[1] = b[1], a[2] < b[2] PROVE Before(a, b)
  BY <1>3 DEF Before
<1>4. ASSUME a[1] = b[1], a[2] = b[2], a[3] < b[3] PROVE Before(a, b)
  BY <1>4 DEF Before
<1>5. ASSUME a[1] = b[1], a[2] = b[2], a[3] = b[3], a[4] < b[4] PROVE Before(a, b)
  BY <1>5 DEF Before
<1> QED
  BY <1>1, <1>2, <1>3, <1>4, <1>5

LEMMA FefoIsOrder ==
    ASSUME NEW ls \in Lots
    PROVE  StrictOrder(FefoOrder(ls), Slots)
<1> DEFINE k(i) == Rank(ls, i)
<1>1. \A i \in Slots : /\ k(i)[1] \in Int /\ k(i)[2] \in Int /\ k(i)[3] \in Int
                       /\ k(i)[4] \in Int /\ k(i)[4] = i
  BY StockAssumption DEF Rank, Lots, LotRows
<1>2. \A i, j \in Slots : <<i, j>> \in FefoOrder(ls) <=> Before(k(i), k(j))
  BY DEF FefoOrder
<1> HIDE DEF k
<1>3. \A i, j \in Slots : <<i, j>> \in FefoOrder(ls) <=>
         \/ k(i)[1] < k(j)[1]
         \/ k(i)[1] = k(j)[1] /\ k(i)[2] < k(j)[2]
         \/ k(i)[1] = k(j)[1] /\ k(i)[2] = k(j)[2] /\ k(i)[3] < k(j)[3]
         \/ k(i)[1] = k(j)[1] /\ k(i)[2] = k(j)[2] /\ k(i)[3] = k(j)[3] /\ k(i)[4] < k(j)[4]
  BY <1>1, <1>2, BeforeCases
<1>4. \A i, j \in Slots : i # j => <<i, j>> \in FefoOrder(ls) \/ <<j, i>> \in FefoOrder(ls)
  BY <1>1, <1>3
<1>5. \A i, j \in Slots : ~(<<i, j>> \in FefoOrder(ls) /\ <<j, i>> \in FefoOrder(ls))
  <2> TAKE i, j \in Slots
  <2> SUFFICES ASSUME <<i, j>> \in FefoOrder(ls), <<j, i>> \in FefoOrder(ls) PROVE FALSE
    OBVIOUS
  <2> QED BY <1>1, <1>3
<1>6. \A h, i, j \in Slots : <<h, i>> \in FefoOrder(ls) /\ <<i, j>> \in FefoOrder(ls) =>
                             <<h, j>> \in FefoOrder(ls)
  <2> TAKE h, i, j \in Slots
  <2> HAVE <<h, i>> \in FefoOrder(ls) /\ <<i, j>> \in FefoOrder(ls)
  <2> QED BY <1>1, <1>3
<1> QED
  BY <1>4, <1>5, <1>6 DEF StrictOrder

\* Each lot gives at most what it has, and together they give what is asked for,
\* or all they have.
LEMMA SharesAddUp ==
    ASSUME NEW ls \in Lots, NEW S \in SUBSET Slots, NEW q \in Nat
    PROVE  /\ Shares(ls, S, q) \in Takes
           /\ \A i \in Slots : Shares(ls, S, q)[i] <= ls[i].qty
           /\ \A i \in Slots \ S : Shares(ls, S, q)[i] = 0
           /\ SumFunction(Shares(ls, S, q)) = Least(q, Held(ls, S))
<1> DEFINE f == Shares(ls, S, q)  R == FefoOrder(ls)  w == Units(ls)
<1>1. IsFiniteSet(S) /\ IsFiniteSet(Slots) /\ StrictOrder(R, S)
  BY RowAssumption, FS_Subset, FefoIsOrder DEF StrictOrder
<1>2. \A i \in Slots : w[i] \in Nat /\ w[i] = ls[i].qty
  BY UnitsNat
<1>3. \A i \in S : {j \in S : Before(Rank(ls, j), Rank(ls, i))} = Ahead(R, S, i)
  BY DEF Ahead, FefoOrder
<1>4. \A i \in S : /\ Ahead(R, S, i) \in SUBSET Slots
                   /\ Held(ls, Ahead(R, S, i)) = SumFunctionOnSet(w, Ahead(R, S, i))
                   /\ Held(ls, Ahead(R, S, i)) \in Nat
  <2> TAKE i \in S
  <2>1. Ahead(R, S, i) \in SUBSET Slots
    BY DEF Ahead
  <2> HIDE DEF R, w
  <2> QED BY <2>1, HeldIs, UnitsNat DEF w
<1>5. \A i \in S : f[i] = Portions(w, R, S, q)[i]
  <2> TAKE i \in S
  <2>1. f[i] = IF Held(ls, Ahead(R, S, i)) < q
               THEN Least(ls[i].qty, q - Held(ls, Ahead(R, S, i))) ELSE 0
    BY <1>3 DEF Shares
  <2>2. Portions(w, R, S, q)[i] = Portion(w, R, S, q, i)
    BY DEF Portions
  <2> HIDE DEF f, R, w
  <2> QED BY <1>2, <1>4, <2>1, <2>2 DEF Portion, Least, SmallerOf
<1>6. \A i \in Slots \ S : f[i] = 0
  BY DEF Shares
<1>7. \A i \in S : f[i] \in Nat /\ f[i] <= ls[i].qty
  <2> TAKE i \in S
  <2>1. f[i] = IF Held(ls, Ahead(R, S, i)) < q
               THEN Least(ls[i].qty, q - Held(ls, Ahead(R, S, i))) ELSE 0
    BY <1>3 DEF Shares
  <2> HIDE DEF f, R, w
  <2> QED BY <1>2, <1>4, <2>1 DEF Least
<1>8. f \in Takes /\ \A i \in Slots : f[i] <= ls[i].qty
  <2>1. \A i \in Slots : f[i] \in Nat /\ f[i] <= ls[i].qty
    <3> HIDE DEF f, w
    <3> QED BY <1>2, <1>6, <1>7
  <2>2. f = [i \in Slots |-> f[i]]
    BY DEF Shares
  <2> HIDE DEF f
  <2> QED BY <2>1, <2>2 DEF Takes
<1>9. SumFunction(f) = SumFunctionOnSet(f, Slots)
  BY DEF SumFunction, Shares
<1>10. SumFunctionOnSet(f, Slots) = SumFunctionOnSet(f, S)
  <2>1. \A i \in S : f[i] \in Int /\ f[i] = f[i]
    BY <1>7
  <2> HIDE DEF f
  <2> QED BY <1>1, <1>6, <2>1, SumWhere
<1>11. SumFunctionOnSet(f, S) = SumFunctionOnSet(Portions(w, R, S, q), S)
  <2> HIDE DEF f, R, w
  <2> QED BY <1>1, <1>5, SumSame
<1>12. SumFunctionOnSet(Portions(w, R, S, q), S) = Least(q, SumFunctionOnSet(w, S))
  <2> HIDE DEF R, w
  <2>1. SumFunctionOnSet(Portions(w, R, S, q), S) = SmallerOf(q, SumFunctionOnSet(w, S))
    BY <1>1, <1>2, FillInOrder
  <2> QED BY <2>1 DEF Least, SmallerOf
<1> QED
  BY <1>6, <1>8, <1>9, <1>10, <1>11, <1>12, HeldIs

Typed(out) == out \in Refusals \/ out \in Accepted
Fine(ls, out) == out \in Refusals \/ (out \in Accepted /\ Explained(ls, out))

\* The sum of what the lots change by, written as some other function.
LEMMA GainSum ==
    ASSUME NEW ls \in Lots, NEW out \in Accepted, NEW g,
           \A i \in Slots : g[i] \in Int /\ Gain(ls, out)[i] = g[i]
    PROVE  SumFunctionOnSet(Gain(ls, out), Slots) = SumFunctionOnSet(g, Slots)
<1> DEFINE f == Gain(ls, out)
<1>1. \A i \in Slots : f[i] = g[i]
  OBVIOUS
<1> HIDE DEF f
<1>2. SumFunctionOnSet(f, Slots) = SumFunctionOnSet(g, Slots)
  BY <1>1, RowAssumption, SumSame
<1> QED
  BY <1>2 DEF f

LEMMA SumNegated ==
    ASSUME NEW f, NEW g, \A i \in Slots : f[i] \in Int /\ g[i] = -f[i]
    PROVE  SumFunctionOnSet(g, Slots) = -SumFunctionOnSet(f, Slots)
<1> DEFINE k == [i \in Slots |-> 0]
<1>1. \A i \in Slots : f[i] \in Int /\ g[i] \in Int /\ k[i] = f[i] + g[i]
  OBVIOUS
<1>2. \A i \in Slots : k[i] = 0
  OBVIOUS
<1> HIDE DEF k
<1>3. SumFunctionOnSet(k, Slots) = SumFunctionOnSet(f, Slots) + SumFunctionOnSet(g, Slots)
  BY <1>1, RowAssumption, SumPlus
<1>4. SumFunctionOnSet(k, Slots) = 0
  BY <1>2, RowAssumption, SumZero
<1>5. SumFunctionOnSet(f, Slots) \in Int /\ SumFunctionOnSet(g, Slots) \in Int
  BY <1>1, RowAssumption, SumInt
<1> QED
  BY <1>3, <1>4, <1>5

\* Nothing taken, nothing changed.
LEMMA NoTakeIs == NoTake \in Takes
  BY DEF NoTake, Takes

\* Units taken from lots that have them.
LEMMA TakenFine ==
    ASSUME NEW ls \in Lots, NEW S \in SUBSET Slots, NEW take \in Takes, NEW units \in Int,
           NEW short \in Int,
           \A i \in Slots : take[i] <= ls[i].qty,
           \A i \in Slots \ S : take[i] = 0,
           units + short = -SumFunction(take)
    PROVE  Fine(ls, Outcome(ls, Taken(ls, take), S, units, take, short))
<1> DEFINE out == Outcome(ls, Taken(ls, take), S, units, take, short)
<1>1. Taken(ls, take) \in Lots
  <2>1. \A i \in Slots : [ls[i] EXCEPT !.qty = @ - take[i]] \in LotRows
    <3> TAKE i \in Slots
    <3>1. ls[i] \in LotRows /\ take[i] \in Nat /\ take[i] <= ls[i].qty
      BY DEF Lots, Takes
    <3>2. ls[i].qty - take[i] \in Nat
      BY <3>1 DEF LotRows
    <3> QED BY <3>1, <3>2 DEF LotRows
  <2> QED BY <2>1 DEF Taken, Lots
<1>2. out \in Accepted
  BY <1>1 DEF Outcome, Accepted
<1> DEFINE g == [i \in Slots |-> -take[i]]
<1>3. \A i \in Slots : g[i] \in Int /\ Gain(ls, out)[i] = g[i]
  <2> TAKE i \in Slots
  <2>1. take[i] \in Nat /\ ls[i].qty \in Nat /\ ls[i] \in LotRows
    BY DEF Takes, Lots, LotRows
  <2>2. Taken(ls, take)[i].qty = ls[i].qty - take[i]
    BY <2>1 DEF Taken, LotRows
  <2>3. out.lots = Taken(ls, take) /\ out.locks = S
    BY DEF Outcome
  <2>4. Gain(ls, out)[i] = IF i \in S THEN Taken(ls, take)[i].qty - ls[i].qty ELSE 0
    BY <2>3 DEF Gain
  <2> HIDE DEF out
  <2> QED BY <2>1, <2>2, <2>4
<1>4. SumFunctionOnSet(Gain(ls, out), Slots) = SumFunctionOnSet(g, Slots)
  <2> HIDE DEF out, g
  <2> QED BY <1>2, <1>3, GainSum
<1>5. SumFunctionOnSet(g, Slots) = -SumFunctionOnSet(take, Slots)
  <2>1. \A i \in Slots : take[i] \in Int /\ g[i] = -take[i]
    BY DEF Takes
  <2> HIDE DEF g
  <2> QED BY <2>1, SumNegated
<1>6. SumFunction(take) = SumFunctionOnSet(take, Slots)
  BY DEF SumFunction, Takes
<1>7. out.units = units /\ out.short = short
  BY DEF Outcome
<1> QED
  BY <1>2, <1>4, <1>5, <1>6, <1>7 DEF Fine, Explained

\* allocateFefo: exactly the units asked for, from lots in date.
LEMMA FefoFine ==
    ASSUME NEW ls \in Lots, NEW q \in Nat
    PROVE  Fine(ls, AllocateFefo(ls, q))
<1> DEFINE S == {i \in Stocked(ls) : Fresh(ls, i)}  take == Shares(ls, S, q)
<1>0. S \in SUBSET Slots
  BY DEF Stocked
<1>1. CASE Held(ls, S) < q
  <2>1. AllocateFefo(ls, q) = Rejected(S)
    BY <1>1 DEF AllocateFefo
  <2> QED BY <1>0, <2>1 DEF Rejected, Fine, Refusals
<1>2. CASE ~(Held(ls, S) < q)
  <2>1. AllocateFefo(ls, q) = Outcome(ls, Taken(ls, take), S, -q, take, 0)
    BY <1>2 DEF AllocateFefo
  <2> HIDE DEF S
  <2>2. /\ take \in Takes
        /\ \A i \in Slots : take[i] <= ls[i].qty
        /\ \A i \in Slots \ S : take[i] = 0
        /\ SumFunction(take) = Least(q, Held(ls, S))
    BY <1>0, SharesAddUp
  <2>3. SumFunction(take) = q
    BY <1>0, <1>2, <2>2, UnitsNat DEF Least
  <2> HIDE DEF take
  <2> QED BY <1>0, <2>1, <2>2, <2>3, TakenFine
<1> QED
  BY <1>1, <1>2

\* allocateOffline: what there is, and the rest told as short.
LEMMA OfflineFine ==
    ASSUME NEW ls \in Lots, NEW q \in Nat
    PROVE  Fine(ls, AllocateOffline(ls, q))
<1> DEFINE S == Stocked(ls)  take == Shares(ls, S, q)
<1>0. S \in SUBSET Slots
  BY DEF Stocked
<1>1. AllocateOffline(ls, q) = Outcome(ls, Taken(ls, take), S, -q, take, q - SumFunction(take))
  BY DEF AllocateOffline
<1> HIDE DEF S
<1>2. /\ take \in Takes
      /\ \A i \in Slots : take[i] <= ls[i].qty
      /\ \A i \in Slots \ S : take[i] = 0
      /\ SumFunction(take) = Least(q, Held(ls, S))
  BY <1>0, SharesAddUp
<1>3. SumFunction(take) \in Nat
  BY <1>0, <1>2, UnitsNat DEF Least
<1> HIDE DEF take
<1> QED
  BY <1>0, <1>1, <1>2, <1>3, TakenFine

\* One row is written.
LEMMA OneRowFine ==
    ASSUME NEW ls \in Lots, NEW i \in Slots, NEW row \in LotRows, NEW units \in Int,
           NEW short \in Int
    PROVE  LET out == Outcome(ls, [ls EXCEPT ![i] = row], {i}, units, NoTake, short)
           IN  /\ out \in Accepted
               /\ row.qty = ls[i].qty + units + short => Explained(ls, out)
<1> DEFINE out == Outcome(ls, [ls EXCEPT ![i] = row], {i}, units, NoTake, short)
<1>1. [ls EXCEPT ![i] = row] \in Lots
  BY DEF Lots
<1>2. out \in Accepted
  BY <1>1, NoTakeIs DEF Outcome, Accepted
<1>3. ASSUME row.qty = ls[i].qty + units + short PROVE Explained(ls, out)
  <2> DEFINE z == [j \in Slots |-> 0]  g == [j \in Slots |-> IF j = i THEN units + short ELSE 0]
  <2>1. \A j \in Slots : g[j] \in Int /\ Gain(ls, out)[j] = g[j]
    <3> TAKE j \in Slots
    <3>1. out.lots = [ls EXCEPT ![i] = row] /\ out.locks = {i}
      BY DEF Outcome
    <3>2. Gain(ls, out)[j] = IF j = i THEN out.lots[j].qty - ls[j].qty ELSE 0
      BY <3>1 DEF Gain
    <3>3. ls[i].qty \in Nat /\ out.lots[i] = row
      BY <3>1 DEF Lots, LotRows
    <3> HIDE DEF out
    <3> QED BY <1>3, <3>2, <3>3
  <2>2. SumFunctionOnSet(Gain(ls, out), Slots) = SumFunctionOnSet(g, Slots)
    <3> HIDE DEF out, g
    <3> QED BY <1>2, <2>1, GainSum
  <2>3. SumFunctionOnSet(z, Slots) = 0
    <3>1. \A j \in Slots : z[j] = 0
      OBVIOUS
    <3> HIDE DEF z
    <3> QED BY <3>1, RowAssumption, SumZero
  <2>4. SumFunctionOnSet(g, Slots) = SumFunctionOnSet(z, Slots) - z[i] + g[i]
    <3>1. /\ \A j \in Slots : z[j] \in Int /\ g[j] \in Int
          /\ \A j \in Slots \ {i} : g[j] = z[j]
      OBVIOUS
    <3> HIDE DEF z, g
    <3> QED BY <3>1, RowAssumption, SumChange
  <2>5. z[i] = 0 /\ g[i] = units + short
    OBVIOUS
  <2>6. out.units = units /\ out.short = short
    BY DEF Outcome
  <2> HIDE DEF z, g, out
  <2> QED BY <2>2, <2>3, <2>4, <2>5, <2>6 DEF Explained
<1> QED
  BY <1>2, <1>3

\* No row is written: no lot takes or gives the units.
LEMMA NoRowFine ==
    ASSUME NEW ls \in Lots, NEW units \in Int, NEW short \in Int, units + short = 0
    PROVE  LET out == Outcome(ls, ls, {}, units, NoTake, short)
           IN  out \in Accepted /\ Explained(ls, out)
<1> DEFINE out == Outcome(ls, ls, {}, units, NoTake, short)  f == Gain(ls, out)
<1>1. out \in Accepted
  BY NoTakeIs DEF Outcome, Accepted
<1>2. \A i \in Slots : f[i] = 0
  BY DEF Outcome, Gain
<1>3. SumFunctionOnSet(f, Slots) = 0
  <2> HIDE DEF f
  <2> QED BY <1>2, RowAssumption, SumZero
<1>4. out.units = units /\ out.short = short
  BY DEF Outcome
<1> HIDE DEF out
<1>5. Explained(ls, out)
  BY <1>3, <1>4 DEF Explained
<1> QED
  BY <1>1, <1>5 DEF out

\* Nothing at all is written.
LEMMA NothingFine ==
    ASSUME NEW ls \in Lots
    PROVE  LET out == Outcome(ls, ls, {}, 0, NoTake, 0)
           IN  out \in Accepted /\ Explained(ls, out)
<1>1. 0 \in Int /\ 0 + 0 = 0
  OBVIOUS
<1> QED
  BY <1>1, NoRowFine

\* receive: one lot gains the units, of the quantity it was read with.
LEMMA ReceiveFine ==
    ASSUME NEW before \in Lots, NEW ls \in Lots, NEW n \in Nat, NEW exp \in Nat, NEW q \in Nat,
           NEW item \in Nat
    PROVE  LET out == Receive(before, ls, n, exp, q, item)
           IN  /\ Typed(out) /\ (before = ls => Fine(ls, out))
               /\ out \in Accepted => out.units = q /\ out.short = 0
<1> DEFINE numbered == Numbered(before, n)
           free == {j \in Slots : ~Exists(ls, j)}
           i == IF numbered # {} THEN Min(numbered) ELSE Min(free)
           was == before[i]
           now == [number |-> n, qty |-> was.qty + q,
                   exp |-> IF was.exp = 0 THEN exp ELSE was.exp,
                   item |-> IF item # 0 THEN item ELSE was.item]
           out == Receive(before, ls, n, exp, q, item)
           no == \/ numbered # {} /\ was.exp # 0 /\ exp # 0 /\ was.exp # exp
                 \/ numbered = {} /\ (free = {} \/ Numbered(ls, n) # {})
<1> SUFFICES /\ Typed(out) /\ (before = ls => Fine(ls, out))
             /\ out \in Accepted => out.units = q /\ out.short = 0
  OBVIOUS
<1>1. out = IF no THEN Rejected({}) ELSE Outcome(ls, [ls EXCEPT ![i] = now], {i}, q, NoTake, 0)
  BY DEF Receive
<1>2. CASE no
  <2>1. out = Rejected({})
    <3> HIDE DEF out, no
    <3> QED BY <1>1, <1>2
  <2> HIDE DEF out
  <2>2. out \in Refusals /\ out \notin Accepted
    BY <2>1 DEF Rejected, Refusals, Accepted
  <2> QED BY <2>2 DEF Typed, Fine
<1>3. CASE ~no
  <2>1. i \in Slots
    <3>1. CASE numbered # {}
      <4>1. numbered \in SUBSET Nat
        BY StockAssumption DEF Numbered
      <4>2. Min(numbered) \in numbered
        <5> HIDE DEF numbered
        <5> QED BY <3>1, <4>1, MinIs
      <4> QED BY <3>1, <4>2 DEF Numbered
    <3>2. CASE numbered = {}
      <4>1. free \in SUBSET Nat /\ free # {}
        BY <1>3, <3>2, StockAssumption
      <4>2. Min(free) \in free
        <5> HIDE DEF free
        <5> QED BY <4>1, MinIs
      <4> QED BY <3>2, <4>2
    <3> QED BY <3>1, <3>2
  <2> HIDE DEF i, numbered, free
  <2>2. was \in LotRows
    BY <2>1 DEF Lots
  <2>3. now \in LotRows /\ now.qty = before[i].qty + q
    <3> HIDE DEF was
    <3>1. was.qty \in Nat /\ was.exp \in Nat /\ was.item \in Nat
      BY <2>2 DEF LotRows
    <3>2. was.qty + q \in Nat
      BY <3>1
    <3>3. now \in LotRows /\ now.qty = was.qty + q
      BY <3>1, <3>2 DEF LotRows
    <3> QED BY <3>3 DEF was
  <2>4. out = Outcome(ls, [ls EXCEPT ![i] = now], {i}, q, NoTake, 0)
    BY <1>1, <1>3
  <2>5. out.units = q /\ out.short = 0
    BY <2>4 DEF Outcome
  <2> HIDE DEF now, was
  <2> HIDE DEF out
  <2>6. out \in Accepted /\ (now.qty = ls[i].qty + q + 0 => Explained(ls, out))
    <3>1. q \in Int /\ 0 \in Int /\ now \in LotRows
      BY <2>3
    <3> QED BY <2>1, <2>4, <3>1, OneRowFine
  <2>7. before = ls => now.qty = ls[i].qty + q + 0
    BY <2>1, <2>3 DEF Lots, LotRows
  <2> QED BY <2>5, <2>6, <2>7 DEF Typed, Fine
<1> QED
  BY <1>2, <1>3

\* The lot a row names gains or loses units it has.
LEMMA OneLotFine ==
    ASSUME NEW ls \in Lots, NEW i \in Slots, NEW d \in Int
    PROVE  Fine(ls, OneLot(ls, ls, i, d))
<1>1. CASE ~Exists(ls, i) \/ (d < 0 /\ ls[i].qty < -d)
  BY <1>1 DEF OneLot, Rejected, Fine, Refusals
<1>2. CASE ~(~Exists(ls, i) \/ (d < 0 /\ ls[i].qty < -d))
  <2> DEFINE row == [ls[i] EXCEPT !.qty = @ + d]
  <2>1. ls[i] \in LotRows
    BY DEF Lots
  <2>2. ls[i].qty + d \in Nat
    BY <1>2, <2>1 DEF LotRows
  <2>3. row \in LotRows /\ row.qty = ls[i].qty + d + 0
    BY <2>1, <2>2 DEF LotRows
  <2>4. OneLot(ls, ls, i, d) = Outcome(ls, [ls EXCEPT ![i] = row], {i}, d, NoTake, 0)
    BY <1>2, <2>1 DEF OneLot, Lots
  <2> HIDE DEF row
  <2> QED BY <2>3, <2>4, OneRowFine DEF Fine
<1> QED
  BY <1>1, <1>2

\* adjust, with a lot or without.
LEMMA AdjustFine ==
    ASSUME NEW before \in Lots, NEW ls \in Lots, NEW i \in Slots \cup {0}, NEW d \in Int,
           i # 0 => before = ls
    PROVE  /\ Typed(Adjust(before, ls, i, d))
           /\ before = ls => Fine(ls, Adjust(before, ls, i, d))
<1>0. \A out : Fine(ls, out) => Typed(out)
  BY DEF Fine, Typed
<1>1. CASE d = 0
  <2>1. Adjust(before, ls, i, d) = Outcome(ls, ls, {}, 0, NoTake, 0)
    BY <1>1 DEF Adjust
  <2> QED BY <1>0, <2>1, NothingFine DEF Fine
<1>2. CASE d # 0 /\ i # 0
  <2>1. Adjust(before, ls, i, d) = OneLot(ls, ls, i, d) /\ i \in Slots
    BY <1>2 DEF Adjust
  <2> QED BY <1>0, <2>1, OneLotFine
<1>3. CASE d # 0 /\ i = 0 /\ d < 0
  <2>1. Adjust(before, ls, i, d) = AllocateFefo(ls, -d) /\ -d \in Nat
    BY <1>3 DEF Adjust
  <2> QED BY <1>0, <2>1, FefoFine
<1>4. CASE d # 0 /\ i = 0 /\ ~(d < 0)
  <2>1. Adjust(before, ls, i, d) = Receive(before, ls, Adjusted, 0, d, 0) /\ d \in Nat
    BY <1>4 DEF Adjust
  <2>2. Adjusted \in Nat
    BY StockAssumption
  <2> QED BY <2>1, <2>2, ReceiveFine
<1> QED
  BY <1>1, <1>2, <1>3, <1>4

LEMMA FineTyped == \A ls, out : Fine(ls, out) => Typed(out)
  BY DEF Fine, Typed

\* The annulment of a purchase takes its units from its lot, or from any.
LEMMA UnbuyFine ==
    ASSUME NEW ls \in Lots, NEW b, purchase[b].qty \in Nat
    PROVE  Fine(ls, UnbuyLots(ls, ls, b))
<1> DEFINE mine == {i \in Slots : ls[i].item = b /\ Exists(ls, i)}
           named == Numbered(ls, purchase[b].number)
           q == purchase[b].qty
           i == IF mine # {} THEN Min(mine) ELSE Min(named)
           no == product.stock < q /\ ~AllowNegative
<1>1. UnbuyLots(ls, ls, b) = IF no THEN Rejected({})
                             ELSE IF mine \cup named = {} THEN Adjust(ls, ls, 0, -q)
                             ELSE OneLot(ls, ls, i, -q)
  BY DEF UnbuyLots
<1>2. Fine(ls, Rejected({}))
  BY DEF Rejected, Fine, Refusals
<1>3. Fine(ls, Adjust(ls, ls, 0, -q))
  BY AdjustFine
<1>4. ASSUME mine \cup named # {} PROVE Fine(ls, OneLot(ls, ls, i, -q))
  <2>1. mine \in SUBSET Nat /\ named \in SUBSET Nat /\ mine \subseteq Slots /\ named \subseteq Slots
    BY StockAssumption DEF Numbered
  <2>2. i \in Slots
    <3> HIDE DEF mine, named
    <3> QED BY <1>4, <2>1, MinIs
  <2> HIDE DEF i
  <2> QED BY <2>2, OneLotFine
<1> HIDE DEF mine, named, i, no
<1> QED
  BY <1>1, <1>2, <1>3, <1>4

\* Units of a sale go back to the lots that gave them.
LEMMA RefillFine ==
    ASSUME NEW ls \in Lots, NEW s, sale[s].take \in Takes, NEW q \in Nat,
           NEW out \in Refill(ls, s, q)
    PROVE  Fine(ls, out)
<1> DEFINE take == sale[s].take
           locks == {i \in Slots : take[i] > 0}
           after(b) == [i \in Slots |-> [ls[i] EXCEPT !.qty = @ + b[i]]]
<1>1. PICK back \in [Slots -> 0 .. q] :
         /\ \A i \in Slots : back[i] <= take[i]
         /\ out = Outcome(ls, after(back), locks, q, NoTake, SumFunction(back) - q)
  BY DEF Refill
<1>2. \A i \in Slots : back[i] \in Nat /\ take[i] \in Nat /\ ls[i] \in LotRows /\ ls[i].qty \in Nat
  BY DEF Takes, Lots, LotRows
<1>3. \A i \in Slots : after(back)[i] \in LotRows /\ after(back)[i].qty = ls[i].qty + back[i]
  <2> TAKE i \in Slots
  <2>1. ls[i].qty + back[i] \in Nat
    BY <1>2
  <2>2. after(back)[i] = [ls[i] EXCEPT !.qty = @ + back[i]]
    OBVIOUS
  <2> HIDE DEF after
  <2> QED BY <1>2, <2>1, <2>2 DEF LotRows
<1>4. after(back) \in Lots
  BY <1>3 DEF Lots
<1>5. SumFunction(back) = SumFunctionOnSet(back, Slots)
  BY DEF SumFunction
<1>6. SumFunctionOnSet(back, Slots) \in Int
  BY <1>2, RowAssumption, SumInt
<1> HIDE DEF after
<1>7. out \in Accepted
  BY <1>1, <1>4, <1>5, <1>6, NoTakeIs DEF Outcome, Accepted
<1>8. \A i \in Slots : back[i] \in Int /\ Gain(ls, out)[i] = back[i]
  <2> TAKE i \in Slots
  <2>1. out.lots = after(back) /\ out.locks = locks
    BY <1>1 DEF Outcome
  <2>2. Gain(ls, out)[i] = IF i \in locks THEN after(back)[i].qty - ls[i].qty ELSE 0
    BY <2>1 DEF Gain
  <2> QED BY <1>1, <1>2, <1>3, <2>2
<1>9. SumFunctionOnSet(Gain(ls, out), Slots) = SumFunctionOnSet(back, Slots)
  BY <1>7, <1>8, GainSum
<1>10. out.units = q /\ out.short = SumFunction(back) - q
  BY <1>1 DEF Outcome
<1> QED
  BY <1>5, <1>6, <1>7, <1>9, <1>10 DEF Fine, Explained

\* A row of an imported catalogue.
LEMMA ImportFine ==
    ASSUME lot \in Lots, NEW before \in Lots, NEW op,
           op.qty \in Int, op.ref \in Nat, op.number \in Nat, op.exp \in Nat
    PROVE  /\ Typed(ImportLots(before, op))
           /\ before = lot => Fine(lot, ImportLots(before, op))
<1> DEFINE q == op.qty  r == Receive(before, lot, op.number, op.exp, op.ref, 0)
           out == ImportLots(before, op)
           a == q > 0 /\ op.number # 0
           b == q # 0 /\ (q < 0 \/ op.number = 0)
           c == q = 0 /\ op.number # 0 /\ Numbered(before, op.number) = {} /\ op.ref > 0
<1> SUFFICES Typed(out) /\ (before = lot => Fine(lot, out))
  OBVIOUS
<1>1. /\ a => out = Receive(before, lot, op.number, op.exp, q, 0)
      /\ b => out = Adjust(before, lot, 0, q)
      /\ c => out = IF r.ok THEN [r EXCEPT !.units = 0, !.short = op.ref] ELSE r
      /\ ~a /\ ~b /\ ~c => out = Outcome(lot, lot, {}, 0, NoTake, 0)
  BY DEF ImportLots
<1>2. CASE a
  <2> DEFINE n == op.number  e == op.exp  m == op.qty
  <2>1. m \in Nat /\ n \in Nat /\ e \in Nat /\ 0 \in Nat /\ out = Receive(before, lot, n, e, m, 0)
    BY <1>1, <1>2
  <2> HIDE DEF n, e, m, out
  <2> QED BY <2>1, ReceiveFine
<1>3. CASE b
  BY <1>1, <1>3, AdjustFine
<1>4. CASE c
  <2>1. op.ref \in Nat
    OBVIOUS
  <2>2. /\ Typed(r) /\ (before = lot => Fine(lot, r))
        /\ r \in Accepted => r.units = op.ref /\ r.short = 0
    BY <2>1, ReceiveFine
  <2>3. out = IF r.ok THEN [r EXCEPT !.units = 0, !.short = op.ref] ELSE r
    BY <1>1, <1>4
  <2> HIDE DEF r, out
  <2>4. CASE r \in Refusals
    <3>1. out = r
      BY <2>3, <2>4 DEF Refusals
    <3> QED BY <2>2, <3>1
  <2>5. CASE r \in Accepted
    <3>1. out = [r EXCEPT !.units = 0, !.short = op.ref]
      BY <2>3, <2>5 DEF Accepted
    <3>2. /\ out \in Accepted /\ out.units = 0 /\ out.short = op.ref
          /\ out.locks = r.locks /\ out.lots = r.lots
      <4> DEFINE n == op.ref
      <4>1. n \in Int /\ 0 \in Int /\ out = [r EXCEPT !.units = 0, !.short = n]
        BY <2>1, <3>1
      <4> HIDE DEF n, out, r
      <4>2. out \in Accepted
        BY <2>5, <4>1 DEF Accepted
      <4>3. /\ out \in Accepted /\ out.units = 0 /\ out.short = n
            /\ out.locks = r.locks /\ out.lots = r.lots
        BY <2>5, <4>1, <4>2 DEF Accepted
      <4> QED BY <4>3 DEF n
    <3>3. Gain(lot, out) = Gain(lot, r)
      BY <3>2 DEF Gain
    <3>4. r \notin Refusals
      BY <2>5 DEF Accepted, Refusals
    <3> QED BY <2>2, <2>5, <3>2, <3>3, <3>4 DEF Typed, Fine, Explained
  <2> QED BY <2>2, <2>4, <2>5 DEF Typed
<1>5. CASE ~a /\ ~b /\ ~c
  BY <1>1, <1>5, NothingFine, FineTyped DEF Fine
<1> QED
  BY <1>2, <1>3, <1>4, <1>5

-----------------------------------------------------------------------------
(***************************************************************************)
(* Types, and what a transaction in flight has in hand.                    *)
(***************************************************************************)
Kinds == {"buy", "unbuy", "sell", "offline", "refund", "adjust", "adjustStock", "count", "import"}
Selling3 == {"sell", "offline", "refund"}
Ops == [kind : Kinds, ref : Nat, slot : Slots \cup {0}, number : Nat, exp : Nat, qty : Int]
Jobs == [stage : {"read", "changed", "summed"}, op : Ops, seen : Lots, before : Int,
         tracks : BOOLEAN, locks : SUBSET Slots, out : Refusals \cup Accepted, sum : Int]
PurchaseRows == [status : {"NONE", "RECEIVED", "VOIDED"}, qty : Nat, number : Nat]
SaleRows == [status : {"NONE", "SOLD"}, qty : Nat, take : Takes, returned : Int]
DebtRows == [status : {"NONE", "PENDING", "PARTIALLY_PAID", "PAID", "CANCELLED"},
             original : Nat, balance : Int]
PaymentRows == [status : {"NONE", "ACTIVE", "VOIDED"}, of : Purchases \cup {0}, amount : Nat,
                shift : Shifts \cup {0}]

TypeOK ==
    /\ scenario \in Scenarios /\ today \in Nat
    /\ product \in [stock : Int, tracks : BOOLEAN]
    /\ lot \in Lots
    /\ purchase \in [Purchases -> PurchaseRows]
    /\ sale \in [Sales -> SaleRows]
    /\ payable \in [Purchases -> DebtRows] /\ payment \in [Payments -> PaymentRows]
    /\ drawer \in [Shifts -> Int] /\ shift \in Shifts \cup {0}
    /\ moved \in Int /\ aside \in Int /\ changes \in Int
    /\ work \in [Procs -> {Idle} \cup Jobs]

\* A request names rows there are and a quantity of units.
OpOK(op) ==
    /\ op.kind \in {"buy", "unbuy"} => op.ref \in Purchases
    /\ op.kind \in Selling3 => op.ref \in Sales
    /\ op.kind \in Selling3 \cup {"buy"} => op.qty \in Nat \ {0}
    /\ op.kind = "unbuy" => op.qty \in Nat
    /\ op.kind = "adjustStock" => op.slot = 0

Busy(p) == work[p] # Idle
Did(p) == work[p] # Idle /\ work[p].stage \in {"changed", "summed"}

\* Every outcome is typed, and explained where the lots are as they were read.
LEMMA OutcomesFine ==
    ASSUME TypeOK, NEW w \in Jobs, OpOK(w.op), LocksProduct(w.op.kind) => w.seen = lot,
           NEW out \in Outcomes(w)
    PROVE  /\ Typed(out)
           /\ ~w.tracks \/ w.seen = lot \/ w.op.kind \in Selling3 => Fine(lot, out)
           /\ ~w.tracks => out \in Refusals \/ out.locks = {}
<1> DEFINE op == w.op
<1>0. /\ lot \in Lots /\ product.stock \in Int /\ w.tracks \in BOOLEAN
      /\ w.seen \in Lots /\ op \in Ops
      /\ op.kind \in Kinds /\ op.ref \in Nat /\ op.slot \in Slots \cup {0} /\ op.number \in Nat
      /\ op.exp \in Nat /\ op.qty \in Int
  <2>1. /\ lot \in Lots /\ product.stock \in Int /\ w.tracks \in BOOLEAN
        /\ w.seen \in Lots /\ op \in Ops
    BY DEF TypeOK, Jobs
  <2> HIDE DEF op
  <2> QED BY <2>1 DEF Ops
<1> HIDE DEF op
<1>1. CASE ~w.tracks
  <2>1. PICK d : out = Rejected({}) \/ (out = Untracked(d) /\ d \in Int)
    <3>1. out \in {IF op.kind \in {"unbuy", "sell"} /\ product.stock < op.qty /\ ~AllowNegative
                   THEN Rejected({})
                   ELSE Untracked(IF op.kind \in {"sell", "offline", "unbuy"} THEN -op.qty
                                  ELSE op.qty)}
      BY <1>1 DEF Outcomes, op
    <3>2. -op.qty \in Int /\ op.qty \in Int
      BY <1>0
    <3> QED BY <3>1, <3>2
  <2>2. CASE out = Rejected({})
    BY <1>1, <2>2 DEF Rejected, Typed, Refusals, Fine
  <2>3. CASE out = Untracked(d) /\ d \in Int
    <3> DEFINE less == -d
    <3>0. less \in Int /\ d \in Int /\ d + less = 0 /\ out = Outcome(lot, lot, {}, d, NoTake, less)
      BY <2>3 DEF Untracked
    <3> HIDE DEF less
    <3>1. out \in Accepted /\ Explained(lot, out)
      BY <1>0, <3>0, NoRowFine
    <3>2. out.locks = {}
      BY <2>3 DEF Untracked, Outcome
    <3> QED BY <1>1, <3>1, <3>2 DEF Typed, Fine
  <2> QED BY <2>1, <2>2, <2>3
<1>2. CASE w.tracks
  <2>0. /\ op.kind = "buy" => out = Receive(w.seen, lot, op.number, op.exp, op.qty, op.ref)
        /\ op.kind = "unbuy" => out = UnbuyLots(w.seen, lot, op.ref)
        /\ op.kind = "sell" => out = AllocateFefo(lot, op.qty)
        /\ op.kind = "offline" => out = AllocateOffline(lot, op.qty)
        /\ op.kind = "refund" => out \in Refill(lot, op.ref, op.qty)
        /\ op.kind = "import" => out = ImportLots(w.seen, op)
        /\ op.kind \in {"adjust", "adjustStock", "count"} =>
             out = Adjust(w.seen, lot, op.slot, op.qty)
    BY <1>2 DEF Outcomes, op
  <2> USE DEF op
  <2>1. CASE op.kind = "buy"
    <3>1. op.qty \in Nat
      BY <2>1 DEF OpOK
    <3> DEFINE before == w.seen  n == op.number  e == op.exp  q == op.qty  b == op.ref
    <3>2. /\ before \in Lots /\ lot \in Lots /\ n \in Nat /\ e \in Nat /\ q \in Nat /\ b \in Nat
          /\ out = Receive(before, lot, n, e, q, b)
      BY <1>0, <2>0, <2>1, <3>1
    <3> HIDE DEF before, n, e, q, b
    <3>3. Typed(out) /\ (before = lot => Fine(lot, out))
      BY <3>2, ReceiveFine
    <3> QED BY <1>2, <2>1, <3>3 DEF Selling3, before
  <2>2. CASE op.kind = "unbuy"
    <3>1. w.seen = lot /\ purchase[op.ref].qty \in Nat
      BY <2>2 DEF OpOK, LocksProduct, TypeOK, PurchaseRows
    <3> QED BY <1>0, <1>2, <2>0, <2>2, <3>1, UnbuyFine, FineTyped
  <2>3. CASE op.kind \in Selling3
    <3>1. op.qty \in Nat /\ op.ref \in Sales
      BY <2>3 DEF OpOK
    <3>2. sale[op.ref].take \in Takes
      BY <3>1 DEF TypeOK, SaleRows
    <3>3. Fine(lot, out)
      <4> HIDE DEF op
      <4> QED BY <1>0, <2>0, <2>3, <3>1, <3>2, FefoFine, OfflineFine, RefillFine DEF Selling3
    <3> QED BY <1>2, <3>3, FineTyped
  <2>4. CASE op.kind = "import"
    BY <1>0, <1>2, <2>0, <2>4, ImportFine DEF Selling3
  <2>5. CASE op.kind \in {"adjust", "adjustStock", "count"}
    <3>1. op.slot # 0 => w.seen = lot
      BY <2>5 DEF OpOK, LocksProduct
    <3> QED BY <1>0, <1>2, <2>0, <2>5, <3>1, AdjustFine DEF Selling3
  <2> QED BY <1>0, <2>1, <2>2, <2>3, <2>4, <2>5 DEF Kinds, Selling3
<1> QED
  BY <1>0, <1>1, <1>2

-----------------------------------------------------------------------------
(***************************************************************************)
(* What holds in every scenario: types, one holder of the product's row,   *)
(* rows of lots locked by one transaction, lots still as they were read.   *)
(***************************************************************************)
Requests ==
    \A p \in Procs : Busy(p) =>
       LET w == work[p] kind == w.op.kind IN
       /\ OpOK(w.op) /\ kind \in scenario.kinds
       /\ w.stage = "read" => w.locks = {}
       /\ w.stage = "read" /\ (LocksProduct(kind) \/ kind \notin scenario.together) =>
             w.seen = lot
       /\ Did(p) => w.out \in Accepted /\ w.locks = w.out.locks
       /\ Did(p) /\ ~w.tracks => w.locks = {}
       /\ w.tracks => Tracks(w.op)

Apart ==
    \A p, q \in Procs : p # q /\ Busy(p) /\ Busy(q) =>
       /\ ~(LocksProduct(work[p].op.kind) /\ LocksProduct(work[q].op.kind))
       /\ work[p].op.kind \in scenario.together
       /\ work[p].locks \cap work[q].locks = {}

\* Without control of lots there are none, until it ends.
Bare == ~product.tracks /\ "untrack" \notin scenario.kinds => lot = [i \in Slots |-> NoLot]

Tracking == scenario.tracks /\ "untrack" \notin scenario.kinds => product.tracks

BaseInv == TypeOK /\ Requests /\ Apart /\ Bare /\ Tracking

\* What a request finds when it begins.
Starts(op) ==
    /\ op \in Ops /\ OpOK(op)
    /\ op.kind = "buy" => purchase[op.ref].status = "NONE"
    /\ op.kind = "unbuy" => purchase[op.ref].status = "RECEIVED" /\ ActivePayments(op.ref) = {}
    /\ op.kind = "import" /\ Alone => op.ref = product.stock + op.qty

Asks(p) == \/ Buy(p) \/ Unbuy(p) \/ Sell(p) \/ SellOffline(p) \/ Refund(p)
           \/ AdjustStock(p) \/ Count(p) \/ Import(p)

LEMMA OpIs ==
    ASSUME NEW kind \in Kinds, NEW ref \in Nat, NEW slot \in Slots \cup {0}, NEW number \in Nat,
           NEW exp \in Nat, NEW qty \in Int
    PROVE  LET op == Op(kind, ref, slot, number, exp, qty)
           IN  /\ op \in Ops /\ op.kind = kind /\ op.ref = ref /\ op.slot = slot
               /\ op.number = number /\ op.exp = exp /\ op.qty = qty
  BY DEF Op, Ops

LEMMA AutoNumberIs == ASSUME TypeOK PROVE AutoNumber \in Nat
<1>1. Max(Numbers) \in Numbers
  BY StockAssumption, RowAssumption, MaxIs
<1> DEFINE S == {n \in Numbers : Numbered(lot, n) = {}} \cup {Max(Numbers)}
<1>2. S \in SUBSET Nat /\ S # {}
  BY <1>1, StockAssumption
<1>3. Min(S) \in S
  <2> HIDE DEF S
  <2> QED BY <1>2, MinIs
<1> QED
  BY <1>2, <1>3 DEF AutoNumber

\* Each request begins by reading, with an operation on rows there are.
LEMMA AskStarts ==
    ASSUME TypeOK, NEW p \in Procs, Asks(p)
    PROVE  \E op : Begin(p, op) /\ Starts(op)
<1>0. /\ scenario \in Scenarios /\ scenario.units \subseteq Nat \ {0}
      /\ Purchases \subseteq Nat \ {0} /\ Sales \subseteq Nat \ {0} /\ Slots \subseteq Nat \ {0}
      /\ Numbers \subseteq Nat \ {0} /\ Expiries \subseteq Nat \ {0} /\ MaxUnits \in Nat
      /\ product.stock \in Int
  BY StockAssumption, ScenarioAssumption DEF TypeOK
<1>1. CASE Buy(p)
  <2>1. PICK b \in Purchases, n \in Numbers \cup {0}, e \in Expiries, q \in scenario.units :
           /\ purchase[b].status = "NONE"
           /\ Begin(p, Op("buy", b, 0, IF n = 0 THEN AutoNumber ELSE n, e, q))
    BY <1>1 DEF Buy
  <2> DEFINE m == IF n = 0 THEN AutoNumber ELSE n  op == Op("buy", b, 0, m, e, q)
  <2>2. m \in Nat
    BY <1>0, AutoNumberIs
  <2> HIDE DEF m
  <2>3. "buy" \in Kinds /\ b \in Nat /\ 0 \in Slots \cup {0} /\ e \in Nat /\ q \in Int
    BY <1>0 DEF Kinds
  <2>4. op \in Ops /\ op.kind = "buy" /\ op.ref = b /\ op.slot = 0 /\ op.qty = q
    <3> DEFINE kind == "buy"
    <3>1. kind \in Kinds /\ m \in Nat /\ b \in Nat /\ 0 \in Slots \cup {0} /\ e \in Nat /\ q \in Int
      BY <2>2, <2>3
    <3> HIDE DEF kind
    <3>2. /\ Op(kind, b, 0, m, e, q) \in Ops /\ Op(kind, b, 0, m, e, q).kind = kind
          /\ Op(kind, b, 0, m, e, q).ref = b /\ Op(kind, b, 0, m, e, q).slot = 0
          /\ Op(kind, b, 0, m, e, q).qty = q
      BY <3>1, OpIs
    <3> QED BY <3>2 DEF kind
  <2> HIDE DEF op
  <2>5. Starts(op)
    BY <1>0, <2>1, <2>4 DEF Starts, OpOK, Selling3
  <2> QED BY <2>1, <2>5 DEF op, m
<1>2. CASE Unbuy(p)
  <2>1. PICK b \in Purchases : /\ purchase[b].status = "RECEIVED" /\ ActivePayments(b) = {}
                               /\ Begin(p, Op("unbuy", b, 0, 0, 0, purchase[b].qty))
    BY <1>2 DEF Unbuy
  <2> DEFINE q == purchase[b].qty  op == Op("unbuy", b, 0, 0, 0, q)
  <2>2. q \in Nat
    BY DEF TypeOK, PurchaseRows
  <2> HIDE DEF q
  <2>3. "unbuy" \in Kinds /\ b \in Nat /\ 0 \in Slots \cup {0} /\ 0 \in Nat /\ q \in Int
    BY <1>0, <2>2 DEF Kinds
  <2>4. op \in Ops /\ op.kind = "unbuy" /\ op.ref = b /\ op.slot = 0 /\ op.qty = q
    BY <2>3, OpIs
  <2> HIDE DEF op
  <2>5. Starts(op)
    BY <1>0, <2>1, <2>2, <2>4 DEF Starts, OpOK, Selling3
  <2> QED BY <2>1, <2>5 DEF op, q
<1>3. CASE Sell(p) \/ SellOffline(p) \/ Refund(p)
  <2>1. PICK kind \in Selling3, s \in Sales, q \in scenario.units :
           Begin(p, Op(kind, s, 0, 0, 0, q))
    BY <1>3 DEF Sell, SellOffline, SaleOf, Refund, Selling3
  <2> DEFINE op == Op(kind, s, 0, 0, 0, q)
  <2>2. kind \in Kinds /\ s \in Nat /\ 0 \in Slots \cup {0} /\ 0 \in Nat /\ q \in Int
    BY <1>0 DEF Kinds, Selling3
  <2>3. op \in Ops /\ op.kind = kind /\ op.ref = s /\ op.slot = 0 /\ op.qty = q
    BY <2>2, OpIs
  <2> HIDE DEF op
  <2>4. Starts(op)
    BY <1>0, <2>1, <2>3 DEF Starts, OpOK, Selling3
  <2> QED BY <2>1, <2>4 DEF op
<1>4. CASE AdjustStock(p)
  <2>1. PICK i \in Slots \cup {0}, d \in {-1, 1}, kind \in {"adjust", "adjustStock"} :
           /\ i # 0 => kind = "adjust"
           /\ Begin(p, Op(kind, 0, i, 0, 0, d))
    BY <1>4 DEF AdjustStock
  <2> DEFINE op == Op(kind, 0, i, 0, 0, d)
  <2>2. kind \in Kinds /\ 0 \in Nat /\ d \in Int
    BY DEF Kinds
  <2>3. op \in Ops /\ op.kind = kind /\ op.ref = 0 /\ op.slot = i /\ op.qty = d
    BY <2>2, OpIs
  <2> HIDE DEF op
  <2>4. Starts(op)
    BY <1>0, <2>1, <2>3 DEF Starts, OpOK, Selling3
  <2> QED BY <2>1, <2>4 DEF op
<1>5. CASE Count(p)
  <2>1. PICK n \in 0 .. MaxUnits : Begin(p, Op("count", 0, 0, 0, 0, n - product.stock))
    BY <1>5 DEF Count
  <2> DEFINE d == n - product.stock  op == Op("count", 0, 0, 0, 0, d)
  <2>2. d \in Int
    BY <1>0
  <2> HIDE DEF d
  <2>3. "count" \in Kinds /\ 0 \in Nat /\ 0 \in Slots \cup {0}
    BY DEF Kinds
  <2>4. op \in Ops /\ op.kind = "count" /\ op.ref = 0 /\ op.slot = 0 /\ op.qty = d
    BY <2>2, <2>3, OpIs
  <2> HIDE DEF op
  <2>5. Starts(op)
    BY <2>2, <2>4 DEF Starts, OpOK, Selling3
  <2> QED BY <2>1, <2>5 DEF op, d
<1>6. CASE Import(p)
  <2>1. PICK n \in 0 .. MaxUnits, m \in Listed, l \in Numbers \cup {0}, e \in Expiries \cup {0} :
           Begin(p, Op("import", n, 0, l, e, n - m))
    BY <1>6 DEF Import
  <2> DEFINE d == n - m  op == Op("import", n, 0, l, e, d)
  <2>2. n \in Nat /\ m \in Int /\ d \in Int /\ (Alone => n = product.stock + d)
    BY <1>0 DEF Listed, Alone
  <2> HIDE DEF d
  <2>3. "import" \in Kinds /\ 0 \in Slots \cup {0} /\ l \in Nat /\ e \in Nat
    BY StockAssumption DEF Kinds
  <2>6. n \in Nat /\ d \in Int
    BY <2>2
  <2>4. op \in Ops /\ op.kind = "import" /\ op.ref = n /\ op.slot = 0 /\ op.qty = d
    <3> DEFINE k == "import"  z == 0
    <3>1. /\ k \in Kinds /\ n \in Nat /\ z \in Slots \cup {0} /\ l \in Nat /\ e \in Nat /\ d \in Int
          /\ op = Op(k, n, z, l, e, d)
      BY <2>3, <2>6
    <3> HIDE DEF k, z, op
    <3>2. op \in Ops /\ op.kind = k /\ op.ref = n /\ op.slot = z /\ op.qty = d
      BY <3>1, OpIs
    <3> QED BY <3>2 DEF k, z
  <2> HIDE DEF op
  <2>5. Starts(op)
    BY <2>2, <2>4 DEF Starts, OpOK, Selling3
  <2> QED BY <2>1, <2>5 DEF op, d
<1> QED
  BY <1>1, <1>2, <1>3, <1>4, <1>5, <1>6 DEF Asks

-----------------------------------------------------------------------------
(* Step by step. *)

\* A transaction in flight is a job, and an idle process is none.
LEMMA JobIs ==
    ASSUME TypeOK, NEW p \in Procs
    PROVE  /\ Busy(p) => work[p] \in Jobs
           /\ Idle.stage = "idle" /\ Idle \notin Jobs
<1>1. Idle.stage = "idle" /\ Idle \notin Jobs
  BY DEF Idle, Jobs
<1> QED
  BY <1>1 DEF TypeOK, Busy

\* Only p's transaction changes.
LEMMA WorkStep ==
    ASSUME TypeOK, NEW p \in Procs, NEW j \in {Idle} \cup Jobs, work' = [work EXCEPT ![p] = j]
    PROVE  /\ work' \in [Procs -> {Idle} \cup Jobs] /\ work'[p] = j
           /\ \A q \in Procs \ {p} : work'[q] = work[q]
  BY DEF TypeOK

LEMMA SeenIsLots ==
    ASSUME TypeOK, Requests, NEW p \in Procs, Did(p)
    PROVE  Seen(p) \in Lots /\ Total(Seen(p)) \in Int
<1>1. work[p].out.lots \in Lots /\ lot \in Lots
  BY DEF Requests, TypeOK, Did, Busy, Accepted
<1>2. Seen(p) \in Lots
  BY <1>1 DEF Seen, Lots
<1> QED
  BY <1>2, UnitsNat DEF Total

LEMMA BeginBase ==
    ASSUME BaseInv, NEW p \in Procs, NEW op, Begin(p, op), Starts(op)
    PROVE  BaseInv'
<1> DEFINE b == Tracks(op)
           j == [stage |-> "read", op |-> op, seen |-> lot, before |-> product.stock,
                 tracks |-> b, locks |-> {}, out |-> Rejected({}), sum |-> 0]
<1>0. b \in BOOLEAN
  BY DEF Tracks, BaseInv, TypeOK
<1> HIDE DEF b
<1>1. j \in Jobs
  BY <1>0 DEF BaseInv, TypeOK, Starts, Jobs, Rejected, Refusals
<1>2. /\ work' = [work EXCEPT ![p] = j]
      /\ ~Busy(p) /\ op.kind \in scenario.kinds /\ Overlaps(op.kind)
      /\ LocksProduct(op.kind) => ProductFree(p)
      /\ UNCHANGED <<scenario, today, product, lot, purchase, sale, payable, payment,
                     drawer, shift, moved, aside, changes>>
  BY DEF Begin, Busy, b
<1>3. j.stage = "read" /\ j.op = op /\ j.seen = lot /\ j.locks = {} /\ j.tracks = b
  OBVIOUS
<1> HIDE DEF j
<1>4. /\ work' \in [Procs -> {Idle} \cup Jobs] /\ work'[p] = j
      /\ \A q \in Procs \ {p} : work'[q] = work[q]
  BY <1>1, <1>2, WorkStep DEF BaseInv
<1>5. TypeOK'
  BY <1>2, <1>4 DEF BaseInv, TypeOK
<1>6. Requests'
  <2> SUFFICES ASSUME NEW q \in Procs, Busy(q)'
               PROVE  LET w == work'[q] kind == w.op.kind IN
                      /\ OpOK(w.op) /\ kind \in scenario.kinds
                      /\ w.stage = "read" => w.locks = {}
                      /\ w.stage = "read" /\ (LocksProduct(kind) \/ kind \notin scenario.together) =>
                            w.seen = lot
                      /\ Did(q)' => w.out \in Accepted /\ w.locks = w.out.locks
                      /\ Did(q)' /\ ~w.tracks => w.locks = {}
                      /\ w.tracks => Tracks(w.op)
    BY <1>2 DEF Requests, OpOK, LocksProduct, Tracks
  <2>1. CASE q = p
    BY <1>2, <1>3, <1>4, <2>1 DEF Starts, Did, b
  <2>2. CASE q # p
    BY <1>4, <2>2 DEF BaseInv, Requests, Did, Busy
  <2> QED BY <2>1, <2>2
<1>7. Apart'
  <2>1. \A q \in Procs \ {p} : Busy(q) =>
           /\ ~(LocksProduct(op.kind) /\ LocksProduct(work[q].op.kind))
           /\ op.kind \in scenario.together /\ work[q].op.kind \in scenario.together
    BY <1>2 DEF Overlaps, ProductFree, Busy
  <2> QED BY <1>2, <1>3, <1>4, <2>1 DEF BaseInv, Apart, Busy, LocksProduct
<1>8. Bare' /\ Tracking'
  BY <1>2 DEF BaseInv, Bare, Tracking, NoLot
<1> QED
  BY <1>5, <1>6, <1>7, <1>8 DEF BaseInv

LEMMA ChangeBase ==
    ASSUME BaseInv, NEW p \in Procs, Change(p)
    PROVE  BaseInv'
<1>1. Busy(p) /\ work[p].stage = "read" /\ work[p] \in Jobs
  BY JobIs DEF Change, Busy, BaseInv
<1>2. PICK out \in Outcomes(work[p]) :
         /\ out.locks \cap LockedByOthers(p) = {}
         /\ work' = [work EXCEPT ![p] =
                       IF out.ok THEN [@ EXCEPT !.stage = "changed", !.out = out, !.locks = out.locks]
                       ELSE Idle]
  BY DEF Change
<1>3. UNCHANGED <<scenario, today, product, lot, purchase, sale, payable, payment,
                  drawer, shift, moved, aside, changes>>
  BY DEF Change
<1> DEFINE w == work[p]
<1>4. OpOK(w.op) /\ (LocksProduct(w.op.kind) => w.seen = lot) /\ w.op.kind \in scenario.kinds
      /\ (w.tracks => Tracks(w.op))
  BY <1>1 DEF BaseInv, Requests
<1>5. Typed(out) /\ (~w.tracks => out \in Refusals \/ out.locks = {})
  BY <1>1, <1>2, <1>4, OutcomesFine DEF BaseInv
<1> DEFINE j == IF out.ok THEN [w EXCEPT !.stage = "changed", !.out = out, !.locks = out.locks]
                ELSE Idle
<1>6. /\ j \in {Idle} \cup Jobs
      /\ j # Idle => /\ j.stage = "changed" /\ j.out = out /\ j.locks = out.locks /\ j.op = w.op
                     /\ j.tracks = w.tracks /\ out \in Accepted /\ (~w.tracks => out.locks = {})
  <2> HIDE DEF w
  <2>1. w \in Jobs
    BY <1>1 DEF w
  <2>2. CASE out \in Refusals
    BY <2>2 DEF Refusals
  <2>3. CASE out \in Accepted
    <3>1. out.ok /\ out.locks \in SUBSET Slots /\ out \notin Refusals
      BY <2>3 DEF Accepted, Refusals
    <3>2. /\ j \in Jobs /\ j.stage = "changed" /\ j.out = out /\ j.locks = out.locks
          /\ j.op = w.op /\ j.tracks = w.tracks
      BY <2>1, <2>3, <3>1 DEF Jobs
    <3> HIDE DEF j
    <3> QED BY <1>5, <2>3, <3>1, <3>2
  <2> QED BY <1>5, <2>2, <2>3 DEF Typed
<1>7. work' = [work EXCEPT ![p] = j]
  BY <1>2 DEF BaseInv, TypeOK
<1> HIDE DEF j
<1>8. /\ work' \in [Procs -> {Idle} \cup Jobs] /\ work'[p] = j
      /\ \A q \in Procs \ {p} : work'[q] = work[q]
  BY <1>6, <1>7, WorkStep DEF BaseInv
<1>9. TypeOK'
  BY <1>3, <1>8 DEF BaseInv, TypeOK
<1>10. Requests'
  <2> SUFFICES ASSUME NEW q \in Procs, Busy(q)'
               PROVE  LET v == work'[q] kind == v.op.kind IN
                      /\ OpOK(v.op) /\ kind \in scenario.kinds
                      /\ v.stage = "read" => v.locks = {}
                      /\ v.stage = "read" /\ (LocksProduct(kind) \/ kind \notin scenario.together) =>
                            v.seen = lot
                      /\ Did(q)' => v.out \in Accepted /\ v.locks = v.out.locks
                      /\ Did(q)' /\ ~v.tracks => v.locks = {}
                      /\ v.tracks => Tracks(v.op)
    BY <1>3 DEF Requests, OpOK, LocksProduct, Tracks
  <2>1. CASE q = p
    <3>1. j # Idle
      BY <1>8, <2>1 DEF Busy
    <3> QED BY <1>4, <1>6, <1>8, <2>1, <3>1 DEF Did
  <2>2. CASE q # p
    BY <1>8, <2>2 DEF BaseInv, Requests, Did, Busy
  <2> QED BY <2>1, <2>2
<1>11. Apart'
  <2>1. \A q \in Procs \ {p} : Busy(q) => out.locks \cap work[q].locks = {}
    BY <1>2 DEF LockedByOthers, Busy
  <2> QED BY <1>1, <1>3, <1>6, <1>8, <2>1 DEF BaseInv, Apart, Busy, LocksProduct
<1>12. Bare' /\ Tracking'
  BY <1>3 DEF BaseInv, Bare, Tracking, NoLot
<1> QED
  BY <1>9, <1>10, <1>11, <1>12 DEF BaseInv

LEMMA AddUpBase ==
    ASSUME BaseInv, NEW p \in Procs, AddUp(p)
    PROVE  /\ BaseInv'
           /\ work'[p] = [work[p] EXCEPT !.stage = "summed", !.sum = Total(Seen(p))]
           /\ \A q \in Procs \ {p} : work'[q] = work[q]
<1>1. Busy(p) /\ Did(p) /\ work[p].stage = "changed" /\ work[p] \in Jobs
  BY JobIs DEF AddUp, Busy, BaseInv, Did
<1>2. UNCHANGED <<scenario, today, product, lot, purchase, sale, payable, payment,
                  drawer, shift, moved, aside, changes>>
  BY DEF AddUp
<1> DEFINE w == work[p]  n == Total(Seen(p))  j == [w EXCEPT !.stage = "summed", !.sum = n]
<1>3. work' = [work EXCEPT ![p] = j]
  BY DEF AddUp, BaseInv, TypeOK
<1>4. n \in Int
  BY <1>1, SeenIsLots DEF BaseInv
<1> HIDE DEF n
<1>5. /\ j \in Jobs /\ j.stage = "summed" /\ j.out = w.out /\ j.locks = w.locks /\ j.op = w.op
      /\ j.tracks = w.tracks /\ j # Idle
  <2> HIDE DEF w
  <2>1. w \in Jobs
    BY <1>1 DEF w
  <2>2. /\ j \in Jobs /\ j.stage = "summed" /\ j.out = w.out /\ j.locks = w.locks
        /\ j.op = w.op /\ j.tracks = w.tracks
    BY <1>4, <2>1 DEF Jobs
  <2> HIDE DEF j
  <2> QED BY <2>2, JobIs DEF BaseInv
<1> HIDE DEF j
<1>6. /\ work' \in [Procs -> {Idle} \cup Jobs] /\ work'[p] = j
      /\ \A q \in Procs \ {p} : work'[q] = work[q]
  BY <1>3, <1>5, WorkStep DEF BaseInv
<1>7. TypeOK'
  BY <1>2, <1>6 DEF BaseInv, TypeOK
<1>8. Requests'
  <2> SUFFICES ASSUME NEW q \in Procs, Busy(q)'
               PROVE  LET v == work'[q] kind == v.op.kind IN
                      /\ OpOK(v.op) /\ kind \in scenario.kinds
                      /\ v.stage = "read" => v.locks = {}
                      /\ v.stage = "read" /\ (LocksProduct(kind) \/ kind \notin scenario.together) =>
                            v.seen = lot
                      /\ Did(q)' => v.out \in Accepted /\ v.locks = v.out.locks
                      /\ Did(q)' /\ ~v.tracks => v.locks = {}
                      /\ v.tracks => Tracks(v.op)
    BY <1>2 DEF Requests, OpOK, LocksProduct, Tracks
  <2>1. CASE q = p
    BY <1>1, <1>5, <1>6, <2>1 DEF BaseInv, Requests
  <2>2. CASE q # p
    BY <1>6, <2>2 DEF BaseInv, Requests, Did, Busy
  <2> QED BY <2>1, <2>2
<1>9. Apart'
  BY <1>1, <1>2, <1>5, <1>6 DEF BaseInv, Apart, Busy, LocksProduct
<1>10. Bare' /\ Tracking'
  BY <1>2 DEF BaseInv, Bare, Tracking, NoLot
<1>11. work'[p] = [work[p] EXCEPT !.stage = "summed", !.sum = Total(Seen(p))]
  BY <1>6 DEF j, n
<1> QED
  BY <1>6, <1>7, <1>8, <1>9, <1>10, <1>11 DEF BaseInv

LEMMA RollBackBase ==
    ASSUME BaseInv, NEW p \in Procs, RollBack(p)
    PROVE  BaseInv'
<1>1. /\ work' = [work EXCEPT ![p] = Idle]
      /\ UNCHANGED <<scenario, today, product, lot, purchase, sale, payable, payment,
                     drawer, shift, moved, aside, changes>>
  BY DEF RollBack
<1>2. /\ work' \in [Procs -> {Idle} \cup Jobs] /\ work'[p] = Idle
      /\ \A q \in Procs \ {p} : work'[q] = work[q]
  BY <1>1, WorkStep DEF BaseInv
<1>3. ~Busy(p)'
  BY <1>2 DEF Busy, Idle
<1>4. TypeOK'
  BY <1>1, <1>2 DEF BaseInv, TypeOK
<1>5. Requests'
  BY <1>1, <1>2, <1>3 DEF BaseInv, Requests, Did, Busy, OpOK, LocksProduct, Tracks
<1>6. Apart'
  BY <1>1, <1>2, <1>3 DEF BaseInv, Apart, Busy, LocksProduct
<1>7. Bare' /\ Tracking'
  BY <1>1 DEF BaseInv, Bare, Tracking, NoLot
<1> QED
  BY <1>4, <1>5, <1>6, <1>7 DEF BaseInv

\* A payment is written in its row and taken from its drawer.
LEMMA PaidTypes ==
    ASSUME TypeOK, NEW y \in Payments, NEW b \in Purchases, NEW n \in Nat, NEW h \in {0, shift},
           Paid(y, b, n, h)
    PROVE  /\ payment' \in [Payments -> PaymentRows]
           /\ drawer' \in [Shifts -> Int]
<1>1. h \in Shifts \cup {0} /\ 0 \notin Shifts
  BY StockAssumption DEF TypeOK
<1>2. [status |-> "ACTIVE", of |-> b, amount |-> n, shift |-> h] \in PaymentRows
  BY <1>1 DEF PaymentRows
<1>3. payment \in [Payments -> PaymentRows] /\ drawer \in [Shifts -> Int]
  BY DEF TypeOK, PaymentRows
<1>4. payment' \in [Payments -> PaymentRows]
  BY <1>2, <1>3 DEF Paid
<1>5. drawer' \in [Shifts -> Int]
  <2>1. drawer' = IF h = 0 THEN drawer ELSE [drawer EXCEPT ![h] = drawer[h] + n]
    BY DEF Paid
  <2>2. h # 0 => drawer[h] + n \in Int
    BY <1>1, <1>3
  <2> QED BY <1>1, <1>3, <2>1, <2>2
<1> QED
  BY <1>4, <1>5

\* The debt a purchase leaves.
LEMMA CreditTypes ==
    ASSUME TypeOK, NEW b \in Purchases, NEW n \in Nat, Credit(b, n)
    PROVE  /\ payable' \in [Purchases -> DebtRows]
           /\ payment' \in [Payments -> PaymentRows]
           /\ drawer' \in [Shifts -> Int]
<1>1. payable \in [Purchases -> DebtRows]
  BY DEF TypeOK, DebtRows
<1>2. CASE NoCredit
  BY <1>2 DEF NoCredit, TypeOK, DebtRows, PaymentRows
<1>3. CASE payable' = [payable EXCEPT ![b] = Debt(n, 0)] /\ UNCHANGED <<payment, drawer>>
  <2>1. Debt(n, 0) \in DebtRows
    BY DEF Debt, DebtRows
  <2> QED BY <1>1, <1>3, <2>1 DEF TypeOK, PaymentRows
<1>4. CASE \E y \in Payments, h \in {0, shift} :
              /\ NextPayment(y) /\ n > 1
              /\ payable' = [payable EXCEPT ![b] = Debt(n, 1)]
              /\ Paid(y, b, 1, h)
  <2>1. Debt(n, 1) \in DebtRows
    BY DEF Debt, DebtRows
  <2>2. payable' \in [Purchases -> DebtRows]
    BY <1>1, <1>4, <2>1
  <2> QED BY <1>4, <2>2, PaidTypes
<1> QED
  BY <1>2, <1>3, <1>4 DEF Credit

\* What a commit writes of stock and lots.
LEMMA CommitIs ==
    ASSUME BaseInv, NEW p \in Procs, Commit(p)
    PROVE  /\ Busy(p) /\ Did(p) /\ work[p].stage = "summed" /\ work[p] \in Jobs
           /\ ProductFree(p) /\ lot' = Seen(p)
           /\ product' \in [stock : Int, tracks : BOOLEAN]
           /\ product'.tracks = Tracks(work[p].op) /\ product'.stock = StockAfter(work[p])
           /\ StockAfter(work[p]) \in Int
           /\ moved' = moved + work[p].out.units /\ aside' = aside + work[p].out.short
           /\ work[p].out \in Accepted /\ work[p].out.units \in Int /\ work[p].out.short \in Int
           /\ OpOK(work[p].op) /\ work[p].op \in Ops
           /\ UNCHANGED <<scenario, today, shift>>
           /\ work' \in [Procs -> {Idle} \cup Jobs] /\ work'[p] = Idle /\ ~Busy(p)'
           /\ \A q \in Procs \ {p} : work'[q] = work[q]
<1>1. /\ Busy(p) /\ work[p].stage = "summed" /\ ProductFree(p) /\ lot' = Seen(p)
      /\ product' = [stock |-> StockAfter(work[p]), tracks |-> Tracks(work[p].op)]
      /\ moved' = moved + work[p].out.units /\ aside' = aside + work[p].out.short
      /\ work' = [work EXCEPT ![p] = Idle]
      /\ UNCHANGED <<scenario, today, shift>>
  BY DEF Commit, Busy
<1>2. Did(p) /\ work[p] \in Jobs
  BY <1>1, JobIs DEF Did, Busy, BaseInv
<1>3. work[p].out \in Accepted /\ OpOK(work[p].op)
  BY <1>1, <1>2 DEF BaseInv, Requests
<1>4. /\ work[p].op \in Ops /\ work[p].op.ref \in Nat /\ work[p].sum \in Int /\ work[p].before \in Int
      /\ work[p].out.units \in Int /\ work[p].out.short \in Int
  BY <1>2, <1>3 DEF Jobs, Accepted, Ops
<1>5. product \in [stock : Int, tracks : BOOLEAN]
  BY DEF BaseInv, TypeOK
<1>6. StockAfter(work[p]) \in Int
  BY <1>4, <1>5 DEF StockAfter
<1> DEFINE n == StockAfter(work[p])  b == Tracks(work[p].op)
<1>7. /\ product' \in [stock : Int, tracks : BOOLEAN]
      /\ product'.tracks = b /\ product'.stock = n
  <2>1. product' = [stock |-> n, tracks |-> b] /\ n \in Int /\ b \in BOOLEAN
    BY <1>1, <1>5, <1>6 DEF Tracks
  <2> HIDE DEF n, b
  <2> QED BY <2>1
<1>8. /\ work' \in [Procs -> {Idle} \cup Jobs] /\ work'[p] = Idle
      /\ \A q \in Procs \ {p} : work'[q] = work[q]
  BY <1>1, WorkStep DEF BaseInv
<1>9. ~Busy(p)'
  BY <1>8 DEF Busy, Idle
<1> QED
  BY <1>1, <1>2, <1>3, <1>4, <1>6, <1>7, <1>8, <1>9

\* The other rows a commit writes.
LEMMA CommitTypes ==
    ASSUME BaseInv, NEW p \in Procs, Commit(p)
    PROVE  /\ purchase' \in [Purchases -> PurchaseRows]
           /\ sale' \in [Sales -> SaleRows]
           /\ payable' \in [Purchases -> DebtRows] /\ payment' \in [Payments -> PaymentRows]
           /\ drawer' \in [Shifts -> Int] /\ changes' \in Int
<1> DEFINE w == work[p]  op == w.op
<1>0. w \in Jobs /\ OpOK(op) /\ op \in Ops /\ w.out \in Accepted
  BY CommitIs
<1>1. op.qty \in Int /\ op.number \in Nat /\ w.out.take \in Takes
  BY <1>0 DEF Ops, Accepted
<1>2. /\ purchase \in [Purchases -> PurchaseRows]
      /\ sale \in [Sales -> SaleRows]
      /\ payable \in [Purchases -> DebtRows] /\ payment \in [Payments -> PaymentRows]
      /\ drawer \in [Shifts -> Int] /\ changes \in Int /\ TypeOK
  BY DEF BaseInv, TypeOK, DebtRows, PaymentRows
<1>3. \/ /\ op.kind = "buy"
         /\ purchase' = [purchase EXCEPT ![op.ref] = Bought(op.ref, op.qty, op.number)]
         /\ Credit(op.ref, UnitCost * op.qty)
         /\ UNCHANGED <<sale, changes>>
      \/ /\ op.kind = "unbuy"
         /\ purchase' = [purchase EXCEPT ![op.ref].status = "VOIDED"]
         /\ payable' = [payable EXCEPT ![op.ref].status =
                           IF @ = "NONE" THEN @ ELSE "CANCELLED"]
         /\ UNCHANGED <<sale, changes, payment, drawer>>
      \/ /\ op.kind \in {"sell", "offline"}
         /\ sale' = [sale EXCEPT ![op.ref] =
                       [status |-> "SOLD", qty |-> op.qty, take |-> w.out.take, returned |-> 0]]
         /\ NoCredit /\ UNCHANGED <<purchase, changes>>
      \/ /\ op.kind = "refund"
         /\ sale' = [sale EXCEPT ![op.ref].returned = @ + op.qty]
         /\ NoCredit /\ UNCHANGED <<purchase, changes>>
      \/ /\ op.kind \in {"adjust", "adjustStock", "count", "import"}
         /\ changes' = changes + 1
         /\ NoCredit /\ UNCHANGED <<purchase, sale>>
  BY DEF Commit
<1> HIDE DEF w, op
<1>4. CASE /\ op.kind = "buy"
           /\ purchase' = [purchase EXCEPT ![op.ref] = Bought(op.ref, op.qty, op.number)]
           /\ Credit(op.ref, UnitCost * op.qty)
           /\ UNCHANGED <<sale, changes>>
  <2>1. op.ref \in Purchases /\ op.qty \in Nat
    BY <1>0, <1>4 DEF OpOK
  <2>2. UnitCost * op.qty \in Nat
    BY <2>1, StockAssumption
  <2>3. Bought(op.ref, op.qty, op.number) \in PurchaseRows
    BY <1>1, <2>1 DEF Bought, PurchaseRows
  <2>4. purchase' \in [Purchases -> PurchaseRows]
    BY <1>2, <1>4, <2>1, <2>3
  <2> QED BY <1>2, <1>4, <2>1, <2>2, <2>4, CreditTypes
<1>5. CASE /\ op.kind = "unbuy"
           /\ purchase' = [purchase EXCEPT ![op.ref].status = "VOIDED"]
           /\ payable' = [payable EXCEPT ![op.ref].status =
                             IF @ = "NONE" THEN @ ELSE "CANCELLED"]
           /\ UNCHANGED <<sale, changes, payment, drawer>>
  <2>1. purchase' \in [Purchases -> PurchaseRows]
    <3>1. \A d \in PurchaseRows : [d EXCEPT !.status = "VOIDED"] \in PurchaseRows
      BY DEF PurchaseRows
    <3> QED BY <1>2, <1>5, <3>1
  <2> DEFINE st == IF payable[op.ref].status = "NONE" THEN "NONE" ELSE "CANCELLED"
  <2>2. op.ref \in Purchases /\ st \in {"NONE", "CANCELLED"}
    BY <1>0, <1>5 DEF OpOK
  <2>3. \A d \in DebtRows : [d EXCEPT !.status = st] \in DebtRows
    BY <2>2 DEF DebtRows
  <2>4. payable' = [payable EXCEPT ![op.ref] = [payable[op.ref] EXCEPT !.status = st]]
    BY <1>2, <1>5, <2>2
  <2> HIDE DEF st
  <2>5. payable' \in [Purchases -> DebtRows]
    BY <1>2, <2>2, <2>3, <2>4
  <2> QED BY <1>2, <1>5, <2>1, <2>5
<1>6. CASE /\ op.kind \in {"sell", "offline"}
           /\ sale' = [sale EXCEPT ![op.ref] =
                         [status |-> "SOLD", qty |-> op.qty, take |-> w.out.take, returned |-> 0]]
           /\ NoCredit /\ UNCHANGED <<purchase, changes>>
  <2>1. op.qty \in Nat
    BY <1>0, <1>6 DEF OpOK, Selling3
  <2>2. [status |-> "SOLD", qty |-> op.qty, take |-> w.out.take, returned |-> 0] \in SaleRows
    BY <1>1, <2>1 DEF SaleRows
  <2> QED BY <1>2, <1>6, <2>2 DEF NoCredit
<1>7. CASE /\ op.kind = "refund"
           /\ sale' = [sale EXCEPT ![op.ref].returned = @ + op.qty]
           /\ NoCredit /\ UNCHANGED <<purchase, changes>>
  <2>1. \A s \in Sales : sale[s].returned + op.qty \in Int
    BY <1>1, <1>2 DEF SaleRows
  <2>2. \A r \in SaleRows, n \in Int : [r EXCEPT !.returned = n] \in SaleRows
    BY DEF SaleRows
  <2>3. sale' = [sale EXCEPT ![op.ref] = [sale[op.ref] EXCEPT !.returned = sale[op.ref].returned + op.qty]]
    BY <1>7
  <2>4. sale' \in [Sales -> SaleRows]
    BY <1>2, <2>1, <2>2, <2>3
  <2> QED BY <1>2, <1>7, <2>4 DEF NoCredit
<1>8. CASE /\ op.kind \in {"adjust", "adjustStock", "count", "import"}
           /\ changes' = changes + 1
           /\ NoCredit /\ UNCHANGED <<purchase, sale>>
  BY <1>2, <1>8 DEF NoCredit
<1> QED
  BY <1>3, <1>4, <1>5, <1>6, <1>7, <1>8

LEMMA CommitBase ==
    ASSUME BaseInv, NEW p \in Procs, Commit(p)
    PROVE  BaseInv'
<1>1. lot' \in Lots
  BY CommitIs, SeenIsLots DEF BaseInv
<1>2. TypeOK'
  <2>1. product' \in [stock : Int, tracks : BOOLEAN]
    BY CommitIs
  <2>2. moved' \in Int /\ aside' \in Int
    BY CommitIs DEF BaseInv, TypeOK
  <2>3. scenario' \in Scenarios /\ today' \in Nat /\ shift' \in Shifts \cup {0}
    BY CommitIs DEF BaseInv, TypeOK
  <2>4. work' \in [Procs -> {Idle} \cup Jobs]
    BY CommitIs
  <2> QED BY <1>1, <2>1, <2>2, <2>3, <2>4, CommitTypes DEF TypeOK, DebtRows, PaymentRows
<1>3. Requests'
  <2> SUFFICES ASSUME NEW q \in Procs, Busy(q)'
               PROVE  LET v == work'[q] kind == v.op.kind IN
                      /\ OpOK(v.op) /\ kind \in scenario.kinds
                      /\ v.stage = "read" => v.locks = {}
                      /\ v.stage = "read" /\ (LocksProduct(kind) \/ kind \notin scenario.together) =>
                            v.seen = lot'
                      /\ Did(q)' => v.out \in Accepted /\ v.locks = v.out.locks
                      /\ Did(q)' /\ ~v.tracks => v.locks = {}
                      /\ v.tracks => \/ product'.tracks
                                     \/ v.op.kind = "import" /\ (v.op.number # 0 \/ v.op.exp # 0)
    BY CommitIs DEF Requests, OpOK, LocksProduct, Tracks
  <2>1. q # p /\ work'[q] = work[q] /\ Busy(q)
    BY CommitIs DEF Busy
  <2>2. ~LocksProduct(work[q].op.kind) /\ work[q].op.kind \in scenario.together
    BY <2>1, CommitIs DEF BaseInv, Apart, ProductFree, Busy
  <2>3. LET o == work[q].op IN
        work[q].tracks => product'.tracks \/ (o.kind = "import" /\ (o.number # 0 \/ o.exp # 0))
    BY <2>1, CommitIs DEF BaseInv, Requests, Tracks
  <2> QED BY <2>1, <2>2, <2>3 DEF BaseInv, Requests, Did
<1>4. Apart'
  <2>1. \A q \in Procs : Busy(q)' => q # p /\ work'[q] = work[q] /\ Busy(q)
    BY CommitIs DEF Busy
  <2>2. scenario' = scenario
    BY CommitIs
  <2> QED BY <2>1, <2>2 DEF BaseInv, Apart, LocksProduct
<1>5. Bare'
  <2> SUFFICES ASSUME ~Tracks(work[p].op), "untrack" \notin scenario.kinds
               PROVE  lot' = [i \in Slots |-> NoLot]
    BY CommitIs DEF Bare, NoLot
  <2>1. work[p].locks = {} /\ lot = [i \in Slots |-> NoLot]
    BY CommitIs DEF BaseInv, Requests, Bare, Tracks
  <2>2. lot' = [i \in Slots |-> lot[i]]
    BY <2>1, CommitIs DEF Seen
  <2> QED BY <2>1, <2>2
<1>6. Tracking'
  BY CommitIs DEF BaseInv, Tracking, Tracks
<1> QED
  BY <1>2, <1>3, <1>4, <1>5, <1>6 DEF BaseInv

Edits == EditStock \/ TrackLots \/ UntrackLots \/ EditLot \/ NextDay \/ OpenShift \/ CloseShift

\* An edit comes when nothing is in flight.
LEMMA EditsAlone ==
    ASSUME Edits
    PROVE  /\ Quiet /\ UNCHANGED <<scenario, purchase, sale, work>>
           /\ \A p \in Procs : ~Busy(p) /\ ~Busy(p)' /\ ~Did(p) /\ ~Did(p)'
<1>1. Quiet /\ UNCHANGED <<scenario, purchase, sale, work>>
  BY DEF Edits, EditStock, TrackLots, UntrackLots, EditLot, NextDay, OpenShift, CloseShift, Rest
<1>2. \A p \in Procs : ~Busy(p)
  BY <1>1 DEF Quiet, Busy
<1>3. \A p \in Procs : ~Busy(p)'
  BY <1>1, <1>2 DEF Busy, Idle
<1> QED
  BY <1>1, <1>2, <1>3 DEF Did, Busy

\* The lot INICIAL gains the stock, or no row is written.
LEMMA TrackRows ==
    ASSUME TypeOK, TrackLots
    PROVE  /\ lot' \in Lots /\ aside' \in Int /\ Min(Slots) \in Slots
           /\ product'.stock = product.stock /\ product'.tracks /\ ~product.tracks
           /\ "track" \in scenario.kinds /\ UNCHANGED moved
           /\ \/ /\ lot' = lot /\ aside' = aside
                 /\ product.stock <= 0 \/ \E i \in Slots : Exists(lot, i)
              \/ /\ product.stock > 0 /\ aside' = aside + product.stock
                 /\ lot'[Min(Slots)].qty = lot[Min(Slots)].qty + product.stock
                 /\ \A i \in Slots \ {Min(Slots)} : lot'[i] = lot[i]
<1> DEFINE m == Min(Slots)  n == product.stock
           begins == product.stock > 0 /\ \A i \in Slots : ~Exists(lot, i)
<1>1. /\ ~product.tracks /\ "track" \in scenario.kinds /\ UNCHANGED moved
      /\ product' = [product EXCEPT !.tracks = TRUE]
      /\ lot' = IF begins THEN [lot EXCEPT ![m].number = Initial, ![m].qty = @ + n] ELSE lot
      /\ aside' = IF begins THEN aside + n ELSE aside
  BY DEF TrackLots
<1>2. /\ lot \in [Slots -> LotRows] /\ n \in Int /\ aside \in Int
      /\ product \in [stock : Int, tracks : BOOLEAN] /\ m \in Slots /\ Initial \in Nat
  BY MinIs, StockAssumption, RowAssumption DEF TypeOK, Lots
<1>3. product'.stock = product.stock /\ product'.tracks
  BY <1>1, <1>2
<1>4. CASE begins
  <2>1. n \in Nat /\ n > 0
    BY <1>2, <1>4
  <2>2. lot' = [lot EXCEPT ![m] = [lot[m] EXCEPT !.number = Initial, !.qty = lot[m].qty + n]]
    BY <1>1, <1>2, <1>4
  <2> HIDE DEF m, n, begins
  <2>3. lot[m] \in LotRows /\ lot[m].qty + n \in Nat
    BY <1>2, <2>1 DEF LotRows
  <2> DEFINE row == [lot[m] EXCEPT !.number = Initial, !.qty = lot[m].qty + n]
  <2>4. row \in LotRows /\ row.qty = lot[m].qty + n
    BY <1>2, <2>3 DEF LotRows
  <2>5. lot' = [lot EXCEPT ![m] = row]
    BY <2>2
  <2> HIDE DEF row
  <2>6. lot' \in Lots /\ lot'[m].qty = lot[m].qty + n /\ \A i \in Slots \ {m} : lot'[i] = lot[i]
    BY <1>2, <2>4, <2>5 DEF Lots
  <2>7. aside' = aside + n
    BY <1>1, <1>4
  <2> QED BY <1>1, <1>2, <1>3, <2>1, <2>6, <2>7 DEF m, n
<1>5. CASE ~begins
  BY <1>1, <1>2, <1>3, <1>5 DEF Lots
<1> QED
  BY <1>4, <1>5

LEMMA EditTypes ==
    ASSUME BaseInv, Edits
    PROVE  TypeOK'
<1>0. UNCHANGED <<scenario, purchase, sale, work>> /\ TypeOK
  BY EditsAlone DEF BaseInv
<1>1. CASE EditStock
  <2>1. PICK n \in 0 .. MaxUnits :
           /\ product' = [product EXCEPT !.stock = n]
           /\ moved' = moved + n - product.stock
           /\ aside' = aside - (n - product.stock)
           /\ changes' = changes + 1
           /\ UNCHANGED <<today, lot, payable, payment, drawer, shift>>
    BY <1>1 DEF EditStock
  <2>2. n \in Int /\ product \in [stock : Int, tracks : BOOLEAN] /\ moved \in Int /\ aside \in Int
        /\ changes \in Int
    BY <1>0, StockAssumption DEF TypeOK
  <2>3. product' \in [stock : Int, tracks : BOOLEAN] /\ moved' \in Int /\ aside' \in Int /\ changes' \in Int
    BY <2>1, <2>2
  <2> QED BY <1>0, <2>1, <2>3 DEF TypeOK
<1>2. CASE TrackLots
  <2>1. product' \in [stock : Int, tracks : BOOLEAN]
    BY <1>0, <1>2 DEF TrackLots, TypeOK
  <2>2. lot' \in Lots /\ aside' \in Int
    BY <1>0, <1>2, TrackRows
  <2> QED BY <1>0, <1>2, <2>1, <2>2 DEF TrackLots, TypeOK
<1>7. CASE UntrackLots
  <2>1. product' \in [stock : Int, tracks : BOOLEAN]
    BY <1>0, <1>7 DEF UntrackLots, TypeOK
  <2> QED BY <1>0, <1>7, <2>1 DEF UntrackLots, TypeOK
<1>3. CASE EditLot
  <2>1. PICK i \in Slots, n \in Numbers, e \in Expiries \cup {0} :
           /\ lot' = [lot EXCEPT ![i].number = n, ![i].exp = e]
           /\ changes' = changes + 1
           /\ UNCHANGED <<today, product, payable, payment, drawer, shift, moved, aside>>
    BY <1>3 DEF EditLot
  <2>2. n \in Nat /\ e \in Nat
    BY StockAssumption
  <2>4. \A r \in LotRows : [r EXCEPT !.number = n, !.exp = e] \in LotRows
    BY <2>2 DEF LotRows
  <2>5. lot \in [Slots -> LotRows] /\ lot' = [lot EXCEPT ![i] = [lot[i] EXCEPT !.number = n, !.exp = e]]
    BY <1>0, <2>1 DEF TypeOK, Lots
  <2>3. lot' \in Lots
    BY <2>4, <2>5 DEF Lots
  <2> QED BY <1>0, <2>1, <2>3 DEF TypeOK
<1>4. CASE NextDay
  BY <1>0, <1>4 DEF NextDay, TypeOK
<1>5. CASE OpenShift
  BY <1>0, <1>5 DEF OpenShift, TypeOK
<1>6. CASE CloseShift
  BY <1>0, <1>6 DEF CloseShift, TypeOK
<1> QED
  BY <1>1, <1>2, <1>3, <1>4, <1>5, <1>6, <1>7 DEF Edits

LEMMA EditBase ==
    ASSUME BaseInv, Edits
    PROVE  BaseInv'
<1>1. TypeOK'
  BY EditTypes
<1>2. Requests' /\ Apart'
  BY EditsAlone DEF Requests, Apart
<1>3. Bare' /\ Tracking'
  <2>1. CASE EditStock
    <3>1. product'.tracks = product.tracks /\ lot' = lot /\ scenario' = scenario
      BY <2>1, EditsAlone DEF EditStock, BaseInv, TypeOK
    <3> QED BY <3>1 DEF BaseInv, Bare, Tracking, NoLot
  <2>2. CASE TrackLots
    <3>1. product'.tracks = TRUE /\ scenario' = scenario
      BY <2>2, EditsAlone DEF TrackLots, BaseInv, TypeOK
    <3> QED BY <3>1 DEF BaseInv, Bare, Tracking
  <2>3. CASE EditLot
    <3>1. product' = product /\ scenario' = scenario
      BY <2>3, EditsAlone DEF EditLot
    <3>2. product.tracks \/ "untrack" \in scenario.kinds
      BY <2>3 DEF EditLot, BaseInv, Bare, Exists, NoLot
    <3> QED BY <3>1, <3>2 DEF BaseInv, Bare, Tracking
  <2>4. CASE NextDay \/ OpenShift \/ CloseShift
    <3>1. product' = product /\ lot' = lot /\ scenario' = scenario
      BY <2>4, EditsAlone DEF NextDay, OpenShift, CloseShift
    <3> QED BY <3>1 DEF BaseInv, Bare, Tracking, NoLot
  <2>5. CASE UntrackLots
    <3>1. "untrack" \in scenario.kinds /\ scenario' = scenario
      BY <2>5, EditsAlone DEF UntrackLots
    <3> QED BY <3>1 DEF Bare, Tracking
  <2> QED BY <2>1, <2>2, <2>3, <2>4, <2>5 DEF Edits
<1> QED
  BY <1>1, <1>2, <1>3 DEF BaseInv

Pays == RegisterPayment \/ VoidPayment

LEMMA PayTypes ==
    ASSUME TypeOK, Pays
    PROVE  /\ TypeOK'
           /\ UNCHANGED <<scenario, today, product, lot, purchase, sale, shift, moved, aside,
                          changes, work>>
<1>0. UNCHANGED <<scenario, today, product, lot, purchase, sale, shift, moved, aside, changes, work>>
  BY DEF Pays, RegisterPayment, VoidPayment, Rest
<1>1. payable \in [Purchases -> DebtRows] /\ payment \in [Payments -> PaymentRows]
      /\ drawer \in [Shifts -> Int] /\ shift \in Shifts \cup {0}
  BY DEF TypeOK, DebtRows, PaymentRows
<1>2. /\ payable' \in [Purchases -> DebtRows] /\ payment' \in [Payments -> PaymentRows]
      /\ drawer' \in [Shifts -> Int]
  <2>1. CASE RegisterPayment
    <3>1. PICK y \in Payments, b \in Purchases, a \in scenario.units, h \in {0, shift} :
             /\ Payable /\ NextPayment(y)
             /\ payable[b].status \in {"PENDING", "PARTIALLY_PAID"} /\ a <= payable[b].balance
             /\ payable' = [payable EXCEPT ![b].balance = @ - a,
                              ![b].status = IF payable[b].balance = a THEN "PAID"
                                            ELSE "PARTIALLY_PAID"]
             /\ Paid(y, b, a, h)
             /\ UNCHANGED <<today, product, lot, shift, moved, aside, changes>> /\ Rest
      BY <2>1 DEF RegisterPayment
    <3>2. a \in Nat
      BY ScenarioAssumption DEF TypeOK
    <3>3. payable[b].balance - a \in Int
      BY <1>1, <3>2 DEF DebtRows
    <3>4. payable' \in [Purchases -> DebtRows]
      <4> DEFINE m == payable[b].balance - a
                 st == IF payable[b].balance = a THEN "PAID" ELSE "PARTIALLY_PAID"
      <4>1. payable' = [payable EXCEPT ![b] = [payable[b] EXCEPT !.balance = m, !.status = st]]
        BY <1>1, <3>1
      <4>2. m \in Int /\ st \in {"PAID", "PARTIALLY_PAID"}
        BY <3>3
      <4> HIDE DEF m, st
      <4>3. \A d \in DebtRows : [d EXCEPT !.balance = m, !.status = st] \in DebtRows
        BY <4>2 DEF DebtRows
      <4> QED BY <1>1, <4>1, <4>3
    <3> QED BY <3>1, <3>2, <3>4, PaidTypes
  <2>2. CASE VoidPayment
    <3>1. PICK y \in Payments :
             LET b == payment[y].of h == payment[y].shift
                 back == payable[b].balance + payment[y].amount IN
             /\ payment' = [payment EXCEPT ![y].status = "VOIDED"]
             /\ payable' = [payable EXCEPT ![b].balance = back,
                              ![b].status = IF back = payable[b].original THEN "PENDING"
                                            ELSE "PARTIALLY_PAID"]
             /\ drawer' = IF h # 0 /\ h = shift THEN [drawer EXCEPT ![h] = @ - payment[y].amount]
                          ELSE drawer
      BY <2>2 DEF VoidPayment
    <3> DEFINE b == payment[y].of  h == payment[y].shift  m == payment[y].amount
               back == payable[b].balance + m
               st == IF back = payable[b].original THEN "PENDING" ELSE "PARTIALLY_PAID"
    <3>2. payment[y] \in PaymentRows /\ m \in Nat /\ h \in Shifts \cup {0} /\ 0 \notin Shifts
      BY <1>1, StockAssumption DEF PaymentRows
    <3>3. payment' \in [Payments -> PaymentRows]
      BY <1>1, <3>1 DEF PaymentRows
    <3>4. payable' \in [Purchases -> DebtRows]
      <4>1. b \in Purchases => back \in Int
        BY <1>1, <3>2 DEF DebtRows
      <4>2. st \in {"NONE", "PENDING", "PARTIALLY_PAID", "PAID", "CANCELLED"}
        OBVIOUS
      <4>3. payable' = [payable EXCEPT ![b].balance = back, ![b].status = st]
        BY <3>1
      <4> HIDE DEF back, st, b
      <4> QED BY <1>1, <4>1, <4>2, <4>3 DEF DebtRows
    <3>5. drawer' \in [Shifts -> Int]
      <4>1. drawer' = IF h # 0 /\ h = shift THEN [drawer EXCEPT ![h] = drawer[h] - m] ELSE drawer
        BY <3>1
      <4>2. h # 0 => h \in Shifts /\ drawer[h] - m \in Int
        BY <1>1, <3>2
      <4> HIDE DEF h, m
      <4> QED BY <1>1, <4>1, <4>2
    <3> QED BY <3>3, <3>4, <3>5
  <2> QED BY <2>1, <2>2 DEF Pays
<1>3. TypeOK'
  BY <1>0, <1>2 DEF TypeOK, DebtRows, PaymentRows
<1> QED
  BY <1>0, <1>3

LEMMA PayBase ==
    ASSUME BaseInv, Pays
    PROVE  BaseInv'
<1>1. TypeOK' /\ UNCHANGED <<scenario, today, product, lot, purchase, sale, shift, moved, aside,
                             changes, work>>
  BY PayTypes DEF BaseInv
<1>2. Requests' /\ Apart'
  BY <1>1 DEF BaseInv, Requests, Apart, Busy, Did, OpOK, LocksProduct, Tracks
<1>3. Bare' /\ Tracking'
  BY <1>1 DEF BaseInv, Bare, Tracking, NoLot
<1> QED
  BY <1>1, <1>2, <1>3 DEF BaseInv

\* The disjuncts of Next, by what they are to the proofs.
LEMMA NextIs ==
    Next <=> \/ \E p \in Procs : Asks(p) \/ Change(p) \/ AddUp(p) \/ Commit(p) \/ RollBack(p)
             \/ Edits \/ Pays
  BY DEF Next, Asks, Edits, Pays

LEMMA BaseInit == Init => BaseInv
<1> SUFFICES ASSUME Init PROVE BaseInv
  OBVIOUS
<1>1. PICK n \in scenario.opening :
         /\ product = [stock |-> n, tracks |-> scenario.tracks]
         /\ moved = n /\ aside = IF scenario.tracks THEN 0 ELSE -n
         /\ lot = [i \in Slots |->
                     IF n > 0 /\ scenario.tracks /\ i = Min(Slots)
                     THEN [NoLot EXCEPT !.number = Initial, !.qty = n] ELSE NoLot]
  BY DEF Init
<1>2. n \in Nat /\ scenario \in Scenarios /\ scenario.tracks \in BOOLEAN /\ Initial \in Nat
  BY ScenarioAssumption, StockAssumption DEF Init
<1>3. NoLot \in LotRows /\ [NoLot EXCEPT !.number = Initial, !.qty = n] \in LotRows
  BY <1>2 DEF NoLot, LotRows
<1>4. lot \in Lots
  BY <1>1, <1>3 DEF Lots
<1>5. /\ product \in [stock : Int, tracks : BOOLEAN] /\ product.tracks = scenario.tracks
      /\ moved \in Int /\ aside \in Int
  BY <1>1, <1>2
<1>6. /\ purchase \in [Purchases -> PurchaseRows]
      /\ sale \in [Sales -> SaleRows]
      /\ payable \in [Purchases -> DebtRows] /\ payment \in [Payments -> PaymentRows]
      /\ drawer \in [Shifts -> Int] /\ shift \in Shifts \cup {0}
      /\ today \in Nat /\ changes \in Int
      /\ work \in [Procs -> {Idle} \cup Jobs]
  BY NoTakeIs DEF Init, NoBuy, NoSale, NoDebt, NoPayment, DebtRows, PaymentRows, PurchaseRows, SaleRows
<1>7. TypeOK
  BY <1>2, <1>4, <1>5, <1>6 DEF TypeOK, DebtRows, PaymentRows
<1>8. \A p \in Procs : ~Busy(p)
  BY DEF Init, Busy
<1>9. Requests /\ Apart
  BY <1>8 DEF Requests, Apart
<1>10. Bare
  BY <1>1, <1>5 DEF Bare
<1>11. Tracking
  BY <1>5 DEF Tracking
<1> QED
  BY <1>7, <1>9, <1>10, <1>11 DEF BaseInv

LEMMA BaseStutter == BaseInv /\ UNCHANGED vars => BaseInv'
<1> SUFFICES ASSUME BaseInv, UNCHANGED vars PROVE BaseInv'
  OBVIOUS
<1>1. TypeOK'
  BY DEF BaseInv, TypeOK, vars
<1>2. Requests' /\ Apart'
  BY DEF BaseInv, Requests, Apart, Busy, Did, OpOK, LocksProduct, Tracks, vars
<1>3. Bare' /\ Tracking'
  BY DEF BaseInv, Bare, Tracking, NoLot, vars
<1> QED
  BY <1>1, <1>2, <1>3 DEF BaseInv

LEMMA BaseStep == BaseInv /\ [Next]_vars => BaseInv'
<1>1. ASSUME BaseInv, NEW p \in Procs, Asks(p) PROVE BaseInv'
  BY <1>1, AskStarts, BeginBase DEF BaseInv
<1> QED
  BY <1>1, NextIs, ChangeBase, AddUpBase, CommitBase, RollBackBase, EditBase, PayBase, BaseStutter

\* Whatever overlaps: the types, one holder of the product's row, rows of lots locked by
\* one transaction each, and lots that are as a request read them while it locks the product.
THEOREM BaseHolds == Spec => []BaseInv
  BY BaseInit, BaseStep, PTL DEF Spec

-----------------------------------------------------------------------------
(***************************************************************************)
(* Debts, payments and drawers: what DebtsMatch rests on.                  *)
(***************************************************************************)
\* What some payments add up to.
Amt(pm, Y) == SumFunction([y \in Y |-> pm[y].amount])

LEMMA AmtIs ==
    ASSUME NEW pm \in [Payments -> PaymentRows], NEW Y \in SUBSET Payments
    PROVE  /\ Amt(pm, Y) \in Nat
           /\ \A y \in Payments \ Y : Amt(pm, Y \cup {y}) = pm[y].amount + Amt(pm, Y)
           /\ Y = {} => Amt(pm, Y) = 0
<1> DEFINE g == [y \in Payments |-> pm[y].amount]
<1>1. \A Z \in SUBSET Payments : IsFiniteSet(Z)
  BY RowAssumption, FS_Subset
<1>2. \A y \in Payments : g[y] \in Nat /\ g[y] = pm[y].amount
  BY DEF PaymentRows
<1>3. \A Z \in SUBSET Payments : Amt(pm, Z) = SumFunctionOnSet(g, Z)
  <2> TAKE Z \in SUBSET Payments
  <2> DEFINE f == [y \in Z |-> pm[y].amount]
  <2>1. \A y \in Z : f[y] = g[y]
    OBVIOUS
  <2>2. SumFunctionOnSet(f, Z) = SumFunctionOnSet(g, Z)
    <3> HIDE DEF f, g
    <3> QED BY <1>1, <2>1, SumSame
  <2>3. Amt(pm, Z) = SumFunctionOnSet(f, DOMAIN f)
    BY DEF Amt, SumFunction
  <2> QED BY <2>2, <2>3
<1> HIDE DEF g
<1>4. Amt(pm, Y) \in Nat
  <2>1. IsFiniteSet(Y) /\ \A y \in Y : g[y] \in Nat
    BY <1>1, <1>2
  <2> QED BY <1>3, <2>1, SumNat
<1>5. ASSUME NEW y \in Payments \ Y PROVE Amt(pm, Y \cup {y}) = pm[y].amount + Amt(pm, Y)
  <2>1. IsFiniteSet(Y) /\ y \notin Y /\ \A z \in Y \cup {y} : g[z] \in Int
    BY <1>1, <1>2
  <2>2. SumFunctionOnSet(g, Y \cup {y}) = g[y] + SumFunctionOnSet(g, Y)
    BY <2>1, SumAdd
  <2> QED BY <1>2, <1>3, <2>2
<1>6. Y = {} => Amt(pm, Y) = 0
  BY <1>3, SumEmpty
<1> QED
  BY <1>4, <1>5, <1>6

\* Another payment's row does not count.
LEMMA AmtSame ==
    ASSUME NEW pm, NEW new, NEW Y, \A z \in Y : new[z] = pm[z]
    PROVE  Amt(new, Y) = Amt(pm, Y)
<1>1. [z \in Y |-> new[z].amount] = [z \in Y |-> pm[z].amount]
  OBVIOUS
<1> QED
  BY <1>1 DEF Amt

\* A payment counts once more for its debt and its drawer, and for no other.
LEMMA PaidIn ==
    ASSUME TypeOK, NEW y \in Payments, NEW b \in Purchases, NEW n \in Nat, NEW h \in {0, shift},
           NextPayment(y), Paid(y, b, n, h)
    PROVE  /\ \A c \in Purchases :
                /\ ActivePayments(c)' = IF c = b THEN ActivePayments(c) \cup {y}
                                        ELSE ActivePayments(c)
                /\ Sum(ActivePayments(c))' = Sum(ActivePayments(c)) + (IF c = b THEN n ELSE 0)
           /\ \A k \in Shifts :
                Sum(Active(k))' = Sum(Active(k)) + (IF k = h THEN n ELSE 0)
           /\ payment'[y].status = "ACTIVE" /\ payment'[y].of = b /\ payment'[y].amount = n
           /\ payment'[y].shift = h
           /\ \A z \in Payments \ {y} : payment'[z] = payment[z]
<1>1. payment \in [Payments -> PaymentRows] /\ payment' \in [Payments -> PaymentRows]
      /\ payment[y].status = "NONE"
  BY PaidTypes DEF TypeOK, PaymentRows, NextPayment
<1>2. /\ payment'[y].status = "ACTIVE" /\ payment'[y].of = b /\ payment'[y].amount = n
      /\ payment'[y].shift = h
      /\ \A z \in Payments \ {y} : payment'[z] = payment[z]
  BY <1>1 DEF Paid
<1>3. ASSUME NEW Y \in SUBSET Payments, y \notin Y
      PROVE  /\ Amt(payment', Y) = Amt(payment, Y)
             /\ Amt(payment', Y \cup {y}) = Amt(payment, Y) + n
             /\ Amt(payment, Y) \in Nat
  <2>1. Amt(payment', Y) = Amt(payment, Y)
    BY <1>2, <1>3, AmtSame
  <2>2. Amt(payment', Y \cup {y}) = payment'[y].amount + Amt(payment', Y)
    BY <1>1, <1>3, AmtIs
  <2>3. Amt(payment, Y) \in Nat
    BY <1>1, AmtIs
  <2> QED BY <1>2, <2>1, <2>2, <2>3
<1>4. ASSUME NEW c \in Purchases
      PROVE  /\ ActivePayments(c)' = IF c = b THEN ActivePayments(c) \cup {y}
                                     ELSE ActivePayments(c)
             /\ Sum(ActivePayments(c))' = Sum(ActivePayments(c)) + (IF c = b THEN n ELSE 0)
  <2>1. y \notin ActivePayments(c) /\ ActivePayments(c) \in SUBSET Payments
    BY <1>1 DEF ActivePayments
  <2>2. ActivePayments(c)' = IF c = b THEN ActivePayments(c) \cup {y} ELSE ActivePayments(c)
    BY <1>1, <1>2 DEF ActivePayments
  <2>3. Sum(ActivePayments(c))' = Amt(payment', ActivePayments(c)')
        /\ Sum(ActivePayments(c)) = Amt(payment, ActivePayments(c))
    BY DEF Sum, Amt
  <2> QED BY <1>3, <2>1, <2>2, <2>3
<1>5. ASSUME NEW k \in Shifts
      PROVE  Sum(Active(k))' = Sum(Active(k)) + (IF k = h THEN n ELSE 0)
  <2>1. y \notin Active(k) /\ Active(k) \in SUBSET Payments
    BY <1>1 DEF Active
  <2>2. Active(k)' = IF k = h THEN Active(k) \cup {y} ELSE Active(k)
    BY <1>1, <1>2 DEF Active
  <2>3. Sum(Active(k))' = Amt(payment', Active(k)') /\ Sum(Active(k)) = Amt(payment, Active(k))
    BY DEF Sum, Amt
  <2> QED BY <1>3, <2>1, <2>2, <2>3
<1> QED
  BY <1>2, <1>4, <1>5

\* A payment annulled counts once less for its debt and its shift.
LEMMA PaidBack ==
    ASSUME TypeOK, NEW y \in Payments, payment[y].status = "ACTIVE",
           payment' = [payment EXCEPT ![y].status = "VOIDED"]
    PROVE  /\ \A c \in Purchases :
                /\ ActivePayments(c)' = ActivePayments(c) \ {y}
                /\ Sum(ActivePayments(c))' =
                     Sum(ActivePayments(c)) - (IF c = payment[y].of THEN payment[y].amount ELSE 0)
           /\ \A k \in Shifts :
                Sum(Active(k))' =
                  Sum(Active(k)) - (IF k = payment[y].shift THEN payment[y].amount ELSE 0)
           /\ payment'[y].status = "VOIDED" /\ payment'[y].shift = payment[y].shift
           /\ \A z \in Payments \ {y} : payment'[z] = payment[z]
<1>1. payment \in [Payments -> PaymentRows]
  BY DEF TypeOK, PaymentRows
<1>2. /\ payment'[y].status = "VOIDED" /\ payment'[y].of = payment[y].of
      /\ payment'[y].amount = payment[y].amount /\ payment'[y].shift = payment[y].shift
      /\ \A z \in Payments \ {y} : payment'[z] = payment[z]
  BY <1>1 DEF PaymentRows
<1>3. ASSUME NEW Y \in SUBSET Payments
      PROVE  /\ Amt(payment', Y \ {y}) = Amt(payment, Y) -
                   (IF y \in Y THEN payment[y].amount ELSE 0)
             /\ Amt(payment, Y) \in Nat
  <2> DEFINE Z == Y \ {y}  m == payment[y].amount
  <2>0. Z \in SUBSET Payments /\ y \in Payments \ Z /\ m \in Nat
        /\ (\A z \in Z : payment'[z] = payment[z])
        /\ (y \in Y => Z \cup {y} = Y) /\ (y \notin Y => Z = Y)
    BY <1>1, <1>2 DEF PaymentRows
  <2> HIDE DEF Z, m
  <2>1. Amt(payment', Z) = Amt(payment, Z)
    BY <2>0, AmtSame
  <2>2. Amt(payment, Y) \in Nat /\ Amt(payment, Z) \in Nat
        /\ Amt(payment, Z \cup {y}) = m + Amt(payment, Z)
    BY <1>1, <2>0, AmtIs DEF m
  <2>3. y \in Y => Amt(payment, Y) = m + Amt(payment, Z)
    BY <2>0, <2>2
  <2>4. Amt(payment', Z) = Amt(payment, Y) - (IF y \in Y THEN m ELSE 0)
    BY <2>0, <2>1, <2>2, <2>3
  <2> QED BY <2>2, <2>4 DEF Z, m
<1>4. ASSUME NEW c \in Purchases
      PROVE  /\ ActivePayments(c)' = ActivePayments(c) \ {y}
             /\ Sum(ActivePayments(c))' =
                  Sum(ActivePayments(c)) - (IF c = payment[y].of THEN payment[y].amount ELSE 0)
  <2>1. (y \in ActivePayments(c) <=> c = payment[y].of) /\ ActivePayments(c) \in SUBSET Payments
    BY DEF ActivePayments
  <2>2. ActivePayments(c)' = ActivePayments(c) \ {y}
    BY <1>1, <1>2 DEF ActivePayments
  <2>3. Sum(ActivePayments(c))' = Amt(payment', ActivePayments(c)')
        /\ Sum(ActivePayments(c)) = Amt(payment, ActivePayments(c))
    BY DEF Sum, Amt
  <2> QED BY <1>3, <2>1, <2>2, <2>3
<1>5. ASSUME NEW k \in Shifts
      PROVE  Sum(Active(k))' =
               Sum(Active(k)) - (IF k = payment[y].shift THEN payment[y].amount ELSE 0)
  <2>1. (y \in Active(k) <=> k = payment[y].shift) /\ Active(k) \in SUBSET Payments
    BY DEF Active
  <2>2. Active(k)' = Active(k) \ {y}
    BY <1>1, <1>2 DEF Active
  <2>3. Sum(Active(k))' = Amt(payment', Active(k)') /\ Sum(Active(k)) = Amt(payment, Active(k))
    BY DEF Sum, Amt
  <2> QED BY <1>3, <2>1, <2>2, <2>3
<1> QED
  BY <1>2, <1>4, <1>5

\* Each debt is what was owed less what was paid and stands; its status tells which
\* part that is; a purchase not yet made owes nothing, and one voided has nothing paid
\* while handlers do not overlap.
DebtIs(d, made, paid, sum, alone) ==
    /\ d.balance = d.original - sum /\ d.balance >= 0
    /\ d.status = "NONE" => paid = {}
    /\ d.status \notin {"NONE", "CANCELLED"} /\ d.original > 0 =>
         /\ (d.status = "PAID") <=> (d.balance = 0)
         /\ (d.status = "PENDING") <=> (d.balance = d.original)
    /\ made = "NONE" => d.status = "NONE"
    /\ alone /\ made = "VOIDED" => d.status \in {"NONE", "CANCELLED"} /\ paid = {}
Debts == \A b \in Purchases :
    DebtIs(payable[b], purchase[b].status, ActivePayments(b), Sum(ActivePayments(b)), Alone)

\* A purchase is made once, and voided with nothing paid.
Buying ==
    \A p \in Procs : Busy(p) =>
       LET op == work[p].op IN
       /\ op.kind = "buy" => purchase[op.ref].status = "NONE"
       /\ op.kind = "unbuy" /\ Alone => ActivePayments(op.ref) = {}

PaymentsOK ==
    \A y \in Payments :
       /\ payment[y].status = "ACTIVE" => payment[y].of \in Purchases /\ payment[y].amount > 0
       /\ payment[y].status = "NONE" => payment[y].shift = 0

\* The drawer of the open shift, and those of the shifts that paid nothing.
Drawers ==
    \A h \in Shifts : h = shift \/ (\A y \in Payments : payment[y].shift # h) =>
       drawer[h] = Sum(Active(h))

DebtInv == Debts /\ Buying /\ PaymentsOK /\ Drawers

LEMMA DebtInit == Init => DebtInv
<1> SUFFICES ASSUME Init PROVE DebtInv
  OBVIOUS
<1>1. payment \in [Payments -> PaymentRows] /\ \A y \in Payments : payment[y] = NoPayment
  <2>1. NoPayment \in PaymentRows
    BY DEF NoPayment, PaymentRows
  <2> QED BY <2>1 DEF Init
<1>2. \A b \in Purchases : ActivePayments(b) = {} /\ Sum(ActivePayments(b)) = 0
  <2> TAKE b \in Purchases
  <2>1. ActivePayments(b) = {}
    BY <1>1 DEF ActivePayments, NoPayment
  <2>2. Amt(payment, {}) = 0
    BY <1>1, AmtIs
  <2> QED BY <2>1, <2>2 DEF Sum, Amt
<1>3. \A h \in Shifts : Sum(Active(h)) = 0
  <2> TAKE h \in Shifts
  <2>1. Active(h) = {}
    BY <1>1 DEF Active, NoPayment
  <2>2. Amt(payment, {}) = 0
    BY <1>1, AmtIs
  <2> QED BY <2>1, <2>2 DEF Sum, Amt
<1>4. Debts
  BY <1>2 DEF Debts, DebtIs, Init, NoDebt, NoBuy
<1>5. Buying
  BY DEF Init, Buying, Busy
<1>6. PaymentsOK
  BY <1>1 DEF PaymentsOK, NoPayment
<1>7. Drawers
  BY <1>3 DEF Drawers, Init
<1> QED
  BY <1>4, <1>5, <1>6, <1>7 DEF DebtInv

\* The steps that leave debts and drawers alone.
LEMMA DebtSame ==
    ASSUME DebtInv, UNCHANGED <<scenario, payable, payment, drawer, purchase>>
    PROVE  /\ Debts' /\ PaymentsOK' /\ (shift' = shift => Drawers')
           /\ (\A p \in Procs : Busy(p)' => Busy(p) /\ work'[p].op = work[p].op) => Buying'
<1>1. /\ \A b \in Purchases : ActivePayments(b)' = ActivePayments(b)
                              /\ Sum(ActivePayments(b))' = Sum(ActivePayments(b))
      /\ \A h \in Shifts : Sum(Active(h))' = Sum(Active(h))
      /\ Alone' = Alone
  BY DEF ActivePayments, Active, Sum, Alone
<1>2. Debts'
  BY <1>1 DEF DebtInv, Debts
<1>3. PaymentsOK'
  BY DEF DebtInv, PaymentsOK
<1>4. shift' = shift => Drawers'
  BY <1>1 DEF DebtInv, Drawers
<1>5. (\A p \in Procs : Busy(p)' => Busy(p) /\ work'[p].op = work[p].op) => Buying'
  <2> SUFFICES ASSUME \A p \in Procs : Busy(p)' => Busy(p) /\ work'[p].op = work[p].op,
                      NEW p \in Procs, Busy(p)'
               PROVE  LET op == work'[p].op IN
                      /\ op.kind = "buy" => purchase'[op.ref].status = "NONE"
                      /\ op.kind = "unbuy" /\ Alone' =>
                           {y \in Payments : payment'[y].of = op.ref /\ payment'[y].status = "ACTIVE"} = {}
    BY DEF Buying, ActivePayments
  <2>1. Busy(p) /\ work'[p].op = work[p].op
    OBVIOUS
  <2> QED BY <1>1, <2>1 DEF DebtInv, Buying, ActivePayments
<1> QED
  BY <1>2, <1>3, <1>4, <1>5

\* What a step of a transaction keeps of the requests in flight.
LEMMA OpKept ==
    ASSUME BaseInv, NEW p \in Procs, Change(p) \/ AddUp(p) \/ RollBack(p)
    PROVE  /\ \A q \in Procs : Busy(q)' => Busy(q) /\ work'[q].op = work[q].op
           /\ \A q \in Procs \ {p} : work'[q] = work[q]
           /\ UNCHANGED <<scenario, today, product, lot, purchase, sale, payable, payment,
                          drawer, shift, moved, aside, changes>>
<1>1. UNCHANGED <<scenario, today, product, lot, purchase, sale, payable, payment,
                  drawer, shift, moved, aside, changes>> /\ Busy(p)
  BY DEF Change, AddUp, RollBack, Busy
<1>2. work \in [Procs -> {Idle} \cup Jobs] /\ work[p] \in Jobs
  BY <1>1, JobIs DEF BaseInv, TypeOK
<1>3. PICK j : work' = [work EXCEPT ![p] = j] /\ (j = Idle \/ j.op = work[p].op)
  <2>1. CASE Change(p)
    <3>1. PICK out \in Outcomes(work[p]) :
             work' = [work EXCEPT ![p] =
                       IF out.ok THEN [@ EXCEPT !.stage = "changed", !.out = out, !.locks = out.locks]
                       ELSE Idle]
      BY <2>1 DEF Change
    <3> DEFINE j == IF out.ok THEN [work[p] EXCEPT !.stage = "changed", !.out = out, !.locks = out.locks]
                    ELSE Idle
    <3>2. work' = [work EXCEPT ![p] = j]
      BY <1>2, <3>1
    <3>3. j = Idle \/ j.op = work[p].op
      BY <1>2 DEF Jobs
    <3> QED BY <3>2, <3>3
  <2>2. CASE AddUp(p)
    <3> DEFINE j == [work[p] EXCEPT !.stage = "summed", !.sum = Total(Seen(p))]
    <3>1. work' = [work EXCEPT ![p] = j]
      BY <1>2, <2>2 DEF AddUp
    <3>2. j.op = work[p].op
      BY <1>2 DEF Jobs
    <3> QED BY <3>1, <3>2
  <2>3. CASE RollBack(p)
    BY <2>3 DEF RollBack
  <2> QED BY <2>1, <2>2, <2>3
<1>4. work'[p] = j /\ \A q \in Procs \ {p} : work'[q] = work[q]
  BY <1>2, <1>3
<1> QED
  BY <1>1, <1>3, <1>4 DEF Busy

\* What a request has in hand when it begins.
LEMMA BeginIs ==
    ASSUME BaseInv, NEW p \in Procs, NEW op, Begin(p, op)
    PROVE  /\ work'[p].op = op /\ work'[p].stage = "read" /\ work'[p].before = product.stock
           /\ work'[p].tracks = Tracks(op)
           /\ \A q \in Procs \ {p} : work'[q] = work[q]
           /\ ~Busy(p) /\ Overlaps(op.kind) /\ op.kind \in scenario.kinds
           /\ UNCHANGED <<scenario, today, product, lot, purchase, sale, payable, payment,
                          drawer, shift, moved, aside, changes>>
<1> DEFINE b == Tracks(op)
           j == [stage |-> "read", op |-> op, seen |-> lot, before |-> product.stock,
                 tracks |-> b, locks |-> {}, out |-> Rejected({}), sum |-> 0]
<1>1. work' = [work EXCEPT ![p] = j] /\ work \in [Procs -> {Idle} \cup Jobs]
  BY DEF Begin, BaseInv, TypeOK
<1>2. j.stage = "read" /\ j.op = op /\ j.before = product.stock /\ j.tracks = b
  OBVIOUS
<1> HIDE DEF j, b
<1>3. work'[p] = j /\ \A q \in Procs \ {p} : work'[q] = work[q]
  BY <1>1
<1> QED
  BY <1>2, <1>3 DEF Begin, Busy, b

LEMMA DebtBegin ==
    ASSUME BaseInv, DebtInv, NEW p \in Procs, NEW op, Begin(p, op), Starts(op)
    PROVE  DebtInv'
<1>1. Debts' /\ PaymentsOK' /\ Drawers'
  BY BeginIs, DebtSame
<1>2. Buying'
  <2> SUFFICES ASSUME NEW q \in Procs, Busy(q)'
               PROVE  LET o == work'[q].op IN
                      /\ o.kind = "buy" => purchase'[o.ref].status = "NONE"
                      /\ o.kind = "unbuy" /\ Alone' =>
                           {y \in Payments : payment'[y].of = o.ref /\ payment'[y].status = "ACTIVE"} = {}
    BY DEF Buying, ActivePayments
  <2>1. CASE q = p
    BY <2>1, BeginIs DEF Starts, ActivePayments
  <2>2. CASE q # p
    <3>1. Busy(q) /\ work'[q] = work[q] /\ Alone' = Alone
      BY <2>2, BeginIs DEF Busy, Alone
    <3> QED BY <3>1, BeginIs DEF DebtInv, Buying, ActivePayments
  <2> QED BY <2>1, <2>2
<1> QED
  BY <1>1, <1>2 DEF DebtInv

LEMMA DebtEdit ==
    ASSUME DebtInv, Edits
    PROVE  DebtInv'
<1>1. UNCHANGED <<scenario, purchase, payable, payment, drawer>> /\ \A p \in Procs : ~Busy(p)'
  BY EditsAlone DEF Edits, EditStock, TrackLots, UntrackLots, EditLot, NextDay, OpenShift, CloseShift, Rest
<1>2. Debts' /\ PaymentsOK' /\ Buying' /\ (shift' = shift => Drawers')
  BY <1>1, DebtSame
<1>3. \A h \in Shifts : Sum(Active(h))' = Sum(Active(h))
  BY <1>1 DEF Active, Sum
<1>4. Drawers'
  <2>1. CASE OpenShift
    <3>1. PICK h \in Shifts : (\A y \in Payments : payment[y].shift < h) /\ shift' = h
      BY <2>1 DEF OpenShift
    <3>2. \A y \in Payments : payment[y].shift # h
      BY <3>1, StockAssumption
    <3> QED BY <1>1, <1>3, <3>1, <3>2 DEF DebtInv, Drawers
  <2>2. CASE CloseShift
    <3>1. shift' = 0 /\ 0 \notin Shifts
      BY <2>2, StockAssumption DEF CloseShift
    <3> QED BY <1>1, <1>3, <3>1 DEF DebtInv, Drawers
  <2>3. CASE EditStock \/ TrackLots \/ UntrackLots \/ EditLot \/ NextDay
    BY <1>2, <2>3 DEF EditStock, TrackLots, UntrackLots, EditLot, NextDay
  <2> QED BY <2>1, <2>2, <2>3 DEF Edits
<1> QED
  BY <1>2, <1>4 DEF DebtInv

\* A payment into the books keeps rows and drawers right.
LEMMA DrawerPaid ==
    ASSUME TypeOK, DebtInv, NEW y \in Payments, NEW b \in Purchases, NEW n \in Nat, n > 0,
           NEW h \in {0, shift}, NextPayment(y), Paid(y, b, n, h), shift' = shift
    PROVE  PaymentsOK' /\ Drawers'
<1>1. /\ payment'[y].status = "ACTIVE" /\ payment'[y].of = b /\ payment'[y].amount = n
      /\ payment'[y].shift = h
      /\ \A z \in Payments \ {y} : payment'[z] = payment[z]
      /\ \A k \in Shifts : Sum(Active(k))' = Sum(Active(k)) + (IF k = h THEN n ELSE 0)
  BY PaidIn
<1>2. PaymentsOK'
  BY <1>1 DEF DebtInv, PaymentsOK
<1>3. payment[y].shift = 0 /\ 0 \notin Shifts /\ drawer \in [Shifts -> Int]
  BY StockAssumption DEF DebtInv, PaymentsOK, NextPayment, TypeOK
<1>4. Drawers'
  <2> SUFFICES ASSUME NEW k \in Shifts,
                      k = shift \/ (\A z \in Payments : payment'[z].shift # k)
               PROVE  drawer'[k] = Sum(Active(k))'
    BY DEF Drawers
  <2>1. k = shift \/ (\A z \in Payments : payment[z].shift # k)
    BY <1>1, <1>3
  <2>2. drawer[k] = Sum(Active(k)) /\ drawer[k] \in Int
    BY <1>3, <2>1 DEF DebtInv, Drawers
  <2>3. drawer'[k] = drawer[k] + (IF k = h THEN n ELSE 0)
    BY <1>3, <2>2 DEF Paid
  <2> QED BY <1>1, <2>2, <2>3
<1> QED
  BY <1>2, <1>4

\* Payments are made and annulled alone, or where handlers overlap.
LEMMA PaysAlone ==
    ASSUME Payable, Alone
    PROVE  \A p \in Procs : ~Busy(p)
  BY DEF Payable, Alone, Quiet, Overlaps, Busy

LEMMA DebtPay ==
    ASSUME BaseInv, DebtInv, Pays
    PROVE  DebtInv'
<1>0. /\ TypeOK /\ payable \in [Purchases -> DebtRows]
      /\ UNCHANGED <<scenario, product, lot, purchase, shift, work>>
      /\ \A c \in Purchases : /\ ActivePayments(c) \in SUBSET Payments
                              /\ Sum(ActivePayments(c)) \in Nat
  <2>1. TypeOK /\ payable \in [Purchases -> DebtRows] /\ payment \in [Payments -> PaymentRows]
    BY DEF BaseInv, TypeOK, DebtRows, PaymentRows
  <2>2. \A c \in Purchases : ActivePayments(c) \in SUBSET Payments
    BY DEF ActivePayments
  <2>3. \A c \in Purchases : Sum(ActivePayments(c)) \in Nat
    BY <2>1, <2>2, AmtIs DEF Sum, Amt
  <2> QED BY <2>1, <2>2, <2>3, PayTypes
<1>1. Payable /\ Alone' = Alone
  BY <1>0 DEF Pays, RegisterPayment, VoidPayment, Alone
<1>2. Buying'
  <2> SUFFICES ASSUME NEW q \in Procs, Busy(q)'
               PROVE  LET o == work'[q].op IN
                      /\ o.kind = "buy" => purchase'[o.ref].status = "NONE"
                      /\ o.kind = "unbuy" /\ Alone' =>
                           {y \in Payments : payment'[y].of = o.ref /\ payment'[y].status = "ACTIVE"} = {}
    BY DEF Buying, ActivePayments
  <2>1. Busy(q) /\ ~Alone
    BY <1>0, <1>1, PaysAlone DEF Busy
  <2> QED BY <1>0, <1>1, <2>1 DEF DebtInv, Buying
<1>3. ASSUME RegisterPayment PROVE Debts' /\ PaymentsOK' /\ Drawers'
  <2>1. PICK y \in Payments, b \in Purchases, a \in scenario.units, h \in {0, shift} :
           /\ Payable /\ NextPayment(y)
           /\ payable[b].status \in {"PENDING", "PARTIALLY_PAID"} /\ a <= payable[b].balance
           /\ payable' = [payable EXCEPT ![b].balance = @ - a,
                            ![b].status = IF payable[b].balance = a THEN "PAID"
                                          ELSE "PARTIALLY_PAID"]
           /\ Paid(y, b, a, h)
           /\ UNCHANGED <<today, product, lot, shift, moved, aside, changes>> /\ Rest
    BY <1>3 DEF RegisterPayment
  <2>2. a \in Nat /\ a > 0
    BY ScenarioAssumption DEF BaseInv, TypeOK
  <2>3. PaymentsOK' /\ Drawers'
    BY <1>0, <2>1, <2>2, DrawerPaid
  <2>4. \A c \in Purchases :
           /\ c # b => ActivePayments(c)' = ActivePayments(c)
           /\ Sum(ActivePayments(c))' = Sum(ActivePayments(c)) + (IF c = b THEN a ELSE 0)
    BY <1>0, <2>1, <2>2, PaidIn
  <2> DEFINE st == IF payable[b].balance = a THEN "PAID" ELSE "PARTIALLY_PAID"
             m == payable[b].balance - a
  <2>5. /\ payable'[b].balance = m /\ payable'[b].status = st
        /\ payable'[b].original = payable[b].original
        /\ \A c \in Purchases \ {b} : payable'[c] = payable[c]
    <3>1. \A r \in DebtRows : LET new == [r EXCEPT !.balance = m, !.status = st] IN
             new.balance = m /\ new.status = st /\ new.original = r.original
      BY DEF DebtRows
    <3>2. payable' = [payable EXCEPT ![b] = [payable[b] EXCEPT !.balance = m, !.status = st]]
      BY <1>0, <2>1
    <3> HIDE DEF m, st
    <3> QED BY <1>0, <3>1, <3>2
  <2>6. /\ payable[b].original \in Nat /\ payable[b].balance \in Int
        /\ payable[b].balance = payable[b].original - Sum(ActivePayments(b))
        /\ purchase[b].status # "NONE"
        /\ ~(Alone /\ purchase[b].status = "VOIDED")
    BY <1>0, <2>1 DEF DebtInv, Debts, DebtIs, DebtRows
  <2>7. Debts'
    <3> SUFFICES ASSUME NEW c \in Purchases
                 PROVE  DebtIs(payable'[c], purchase[c].status,
                               ActivePayments(c)', Sum(ActivePayments(c))', Alone)
      BY <1>0, <1>1 DEF Debts
    <3>1. CASE c = b
      BY <1>0, <2>1, <2>2, <2>4, <2>5, <2>6, <3>1 DEF DebtIs
    <3>2. CASE c # b
      <4>1. Sum(ActivePayments(c))' = Sum(ActivePayments(c)) /\ payable'[c] = payable[c]
            /\ ActivePayments(c)' = ActivePayments(c)
        BY <1>0, <2>4, <2>5, <3>2
      <4> QED BY <4>1 DEF DebtInv, Debts
    <3> QED BY <3>1, <3>2
  <2> QED BY <2>3, <2>7
<1>4. ASSUME VoidPayment PROVE Debts' /\ PaymentsOK' /\ Drawers'
  <2>1. PICK y \in Payments :
           LET b == payment[y].of h == payment[y].shift
               back == payable[b].balance + payment[y].amount IN
           /\ Payable /\ payment[y].status = "ACTIVE"
           /\ payment' = [payment EXCEPT ![y].status = "VOIDED"]
           /\ payable' = [payable EXCEPT ![b].balance = back,
                            ![b].status = IF back = payable[b].original THEN "PENDING"
                                          ELSE "PARTIALLY_PAID"]
           /\ drawer' = IF h # 0 /\ h = shift THEN [drawer EXCEPT ![h] = @ - payment[y].amount]
                        ELSE drawer
           /\ UNCHANGED <<today, product, lot, shift, moved, aside, changes>> /\ Rest
    BY <1>4 DEF VoidPayment
  <2> DEFINE b == payment[y].of  h == payment[y].shift  a == payment[y].amount
             back == payable[b].balance + a
             st == IF back = payable[b].original THEN "PENDING" ELSE "PARTIALLY_PAID"
  <2>2. b \in Purchases /\ a \in Nat /\ a > 0 /\ h \in Shifts \cup {0} /\ 0 \notin Shifts
        /\ y \in ActivePayments(b)
    <3>1. payment[y] \in PaymentRows /\ 0 \notin Shifts
      BY StockAssumption DEF BaseInv, TypeOK
    <3>2. a \in Nat /\ h \in Shifts \cup {0}
      BY <3>1 DEF PaymentRows
    <3>3. b \in Purchases /\ a > 0 /\ y \in ActivePayments(b)
      BY <2>1 DEF DebtInv, PaymentsOK, ActivePayments
    <3> QED BY <3>1, <3>2, <3>3
  <2>3. /\ \A c \in Purchases :
             /\ ActivePayments(c)' = ActivePayments(c) \ {y}
             /\ Sum(ActivePayments(c))' = Sum(ActivePayments(c)) - (IF c = b THEN a ELSE 0)
        /\ \A k \in Shifts : Sum(Active(k))' = Sum(Active(k)) - (IF k = h THEN a ELSE 0)
        /\ payment'[y].status = "VOIDED" /\ payment'[y].shift = h
        /\ \A z \in Payments \ {y} : payment'[z] = payment[z]
    BY <1>0, <2>1, PaidBack
  <2>4. PaymentsOK'
    BY <2>3 DEF DebtInv, PaymentsOK
  <2>5. drawer' = IF h # 0 /\ h = shift THEN [drawer EXCEPT ![h] = drawer[h] - a] ELSE drawer
    BY <2>1
  <2>6. payable' = [payable EXCEPT ![b].balance = back, ![b].status = st]
    BY <2>1
  <2> HIDE DEF b, h, a
  <2>7. Drawers'
    <3> SUFFICES ASSUME NEW k \in Shifts,
                        k = shift \/ (\A z \in Payments : payment'[z].shift # k)
                 PROVE  drawer'[k] = Sum(Active(k))'
      BY <1>0 DEF Drawers
    <3>1. k = shift \/ (k # h /\ \A z \in Payments : payment[z].shift # k)
      BY <2>3 DEF h
    <3>2. drawer[k] = Sum(Active(k)) /\ drawer \in [Shifts -> Int]
      BY <3>1 DEF DebtInv, Drawers, BaseInv, TypeOK
    <3>3. drawer'[k] = drawer[k] - (IF k = h THEN a ELSE 0)
      BY <2>2, <2>5, <3>1, <3>2
    <3> QED BY <2>3, <3>2, <3>3
  <2>8. /\ payable'[b].balance = back /\ payable'[b].status = st
        /\ payable'[b].original = payable[b].original
        /\ \A c \in Purchases \ {b} : payable'[c] = payable[c]
    <3>1. \A r \in DebtRows : LET new == [r EXCEPT !.balance = back, !.status = st] IN
             new.balance = back /\ new.status = st /\ new.original = r.original
      BY DEF DebtRows
    <3>2. payable' = [payable EXCEPT ![b] = [payable[b] EXCEPT !.balance = back, !.status = st]]
      BY <1>0, <2>2, <2>6
    <3> HIDE DEF back, st
    <3> QED BY <1>0, <2>2, <3>1, <3>2
  <2>9. /\ payable[b].original \in Nat /\ payable[b].balance \in Int /\ payable[b].balance >= 0
        /\ payable[b].balance = payable[b].original - Sum(ActivePayments(b))
        /\ purchase[b].status # "NONE"
        /\ ~(Alone /\ purchase[b].status = "VOIDED")
    BY <1>0, <2>2 DEF DebtInv, Debts, DebtIs, DebtRows
  <2>10. Debts'
    <3> SUFFICES ASSUME NEW c \in Purchases
                 PROVE  DebtIs(payable'[c], purchase[c].status,
                               ActivePayments(c)', Sum(ActivePayments(c))', Alone)
      BY <1>0, <1>1 DEF Debts
    <3>1. CASE c = b
      BY <1>0, <2>2, <2>3, <2>8, <2>9, <3>1 DEF DebtIs
    <3>2. CASE c # b
      <4>1. Sum(ActivePayments(c))' = Sum(ActivePayments(c)) /\ payable'[c] = payable[c]
            /\ ActivePayments(c)' = ActivePayments(c) \ {y}
        BY <1>0, <2>3, <2>8, <3>2
      <4>2. y \notin ActivePayments(c)
        BY <3>2 DEF ActivePayments, b
      <4>3. ActivePayments(c)' = ActivePayments(c)
        BY <4>1, <4>2
      <4> QED BY <4>1, <4>3 DEF DebtInv, Debts
    <3> QED BY <3>1, <3>2
  <2> QED BY <2>4, <2>7, <2>10
<1> QED
  BY <1>2, <1>3, <1>4 DEF DebtInv, Pays

\* A purchase leaves the debt it makes, its annulment none.
LEMMA DebtCommit ==
    ASSUME BaseInv, DebtInv, NEW p \in Procs, Commit(p)
    PROVE  DebtInv'
<1> DEFINE op == work[p].op
<1>0. /\ TypeOK /\ payable \in [Purchases -> DebtRows] /\ OpOK(op) /\ op.qty \in Int
      /\ purchase \in [Purchases -> PurchaseRows]
      /\ UNCHANGED <<scenario, shift>> /\ Alone' = Alone /\ Busy(p)
  BY CommitIs DEF BaseInv, TypeOK, DebtRows, Alone, Ops
<1>1. Buying'
  <2> SUFFICES ASSUME NEW q \in Procs, Busy(q)'
               PROVE  LET o == work'[q].op IN
                      /\ o.kind = "buy" => purchase'[o.ref].status = "NONE"
                      /\ o.kind = "unbuy" /\ Alone' =>
                           {y \in Payments : payment'[y].of = o.ref /\ payment'[y].status = "ACTIVE"} = {}
    BY DEF Buying, ActivePayments
  <2>1. q # p /\ work'[q] = work[q] /\ Busy(q)
    BY CommitIs DEF Busy
  <2>2. ~LocksProduct(work'[q].op.kind)
    BY <2>1, CommitIs DEF ProductFree, Busy
  <2> QED BY <2>2 DEF LocksProduct
<1>2. \/ /\ op.kind = "buy"
         /\ purchase' = [purchase EXCEPT ![op.ref] = Bought(op.ref, op.qty, op.number)]
         /\ Credit(op.ref, UnitCost * op.qty)
      \/ /\ op.kind = "unbuy"
         /\ purchase' = [purchase EXCEPT ![op.ref].status = "VOIDED"]
         /\ payable' = [payable EXCEPT ![op.ref].status = IF @ = "NONE" THEN @ ELSE "CANCELLED"]
         /\ UNCHANGED <<payment, drawer>>
      \/ NoCredit /\ purchase' = purchase
  BY DEF Commit
<1>3. ASSUME UNCHANGED <<payment, drawer>> PROVE PaymentsOK' /\ Drawers'
  <2>1. \A k \in Shifts : Sum(Active(k))' = Sum(Active(k))
    BY <1>3 DEF Active, Sum
  <2> QED BY <1>0, <1>3, <2>1 DEF DebtInv, PaymentsOK, Drawers
<1>4. ASSUME payment' = payment
      PROVE  \A c \in Purchases : ActivePayments(c)' = ActivePayments(c)
                                  /\ Sum(ActivePayments(c))' = Sum(ActivePayments(c))
  BY <1>4 DEF ActivePayments, Sum
<1>5. CASE NoCredit /\ purchase' = purchase
  BY <1>0, <1>1, <1>5, DebtSame DEF NoCredit, DebtInv
<1>6. CASE /\ op.kind = "unbuy"
           /\ purchase' = [purchase EXCEPT ![op.ref].status = "VOIDED"]
           /\ payable' = [payable EXCEPT ![op.ref].status = IF @ = "NONE" THEN @ ELSE "CANCELLED"]
           /\ UNCHANGED <<payment, drawer>>
  <2> DEFINE b == op.ref  st == IF payable[b].status = "NONE" THEN "NONE" ELSE "CANCELLED"
  <2>1. b \in Purchases /\ (Alone => ActivePayments(b) = {})
    BY <1>0, <1>6 DEF OpOK, DebtInv, Buying
  <2>2. purchase' = [purchase EXCEPT ![b].status = "VOIDED"]
        /\ payable' = [payable EXCEPT ![b] = [payable[b] EXCEPT !.status = st]]
    BY <1>0, <1>6, <2>1
  <2>3. /\ (st = "NONE" <=> payable[b].status = "NONE")
        /\ st \in {"NONE", "CANCELLED"}
    OBVIOUS
  <2> HIDE DEF b, st
  <2>4. /\ payable'[b].balance = payable[b].balance /\ payable'[b].status = st
        /\ payable'[b].original = payable[b].original /\ purchase'[b].status = "VOIDED"
        /\ \A c \in Purchases \ {b} : payable'[c] = payable[c] /\ purchase'[c] = purchase[c]
    <3>1. \A r \in DebtRows : LET new == [r EXCEPT !.status = st] IN
             new.balance = r.balance /\ new.status = st /\ new.original = r.original
      BY DEF DebtRows
    <3> QED BY <1>0, <2>1, <2>2, <3>1
  <2>5. Debts'
    <3> SUFFICES ASSUME NEW c \in Purchases
                 PROVE  DebtIs(payable'[c], purchase'[c].status,
                               ActivePayments(c), Sum(ActivePayments(c)), Alone)
      <4>1. \A c \in Purchases : Sum(ActivePayments(c))' = Sum(ActivePayments(c))
                                /\ ActivePayments(c)' = ActivePayments(c)
        BY <1>4, <1>6
      <4> QED BY <1>0, <4>1 DEF Debts
    <3>1. CASE c = b
      <4>1. LET d == payable[b] IN
            /\ d.balance = d.original - Sum(ActivePayments(b)) /\ d.balance >= 0
            /\ d.status = "NONE" => ActivePayments(b) = {}
        BY <2>1 DEF DebtInv, Debts, DebtIs
      <4> QED BY <2>1, <2>3, <2>4, <3>1, <4>1 DEF DebtIs
    <3>2. CASE c # b
      BY <2>4, <3>2 DEF DebtInv, Debts
    <3> QED BY <3>1, <3>2
  <2> QED BY <1>1, <1>3, <1>6, <2>5 DEF DebtInv
<1>7. CASE /\ op.kind = "buy"
           /\ purchase' = [purchase EXCEPT ![op.ref] = Bought(op.ref, op.qty, op.number)]
           /\ Credit(op.ref, UnitCost * op.qty)
  <2> DEFINE b == op.ref  n == UnitCost * op.qty
  <2>1. b \in Purchases /\ n \in Nat
    <3>1. b \in Purchases /\ op.qty \in Nat /\ UnitCost \in Nat
      BY <1>0, <1>7, StockAssumption DEF OpOK
    <3> HIDE DEF op
    <3> QED BY <3>1
  <2>2. purchase[b].status = "NONE" /\ payable[b].status = "NONE" /\ ActivePayments(b) = {}
    BY <1>0, <1>7, <2>1 DEF DebtInv, Buying, Debts, DebtIs
  <2>3. /\ purchase'[b].status = "RECEIVED"
        /\ \A c \in Purchases \ {b} : purchase'[c] = purchase[c]
    BY <1>0, <1>7, <2>1 DEF Bought
  <2>4. Credit(b, n)
    BY <1>7
  <2> HIDE DEF b, n
  <2>5. Sum(ActivePayments(b)) = 0
    <3>1. Amt(payment, {}) = 0
      BY <1>0, AmtIs DEF TypeOK, PaymentRows
    <3> QED BY <2>2, <3>1 DEF Sum, Amt
  <2>6. CASE NoCredit
    <3>1. Debts'
      <4> SUFFICES ASSUME NEW c \in Purchases
                   PROVE  DebtIs(payable[c], purchase'[c].status,
                                 ActivePayments(c), Sum(ActivePayments(c)), Alone)
        BY <1>0, <1>4, <2>6 DEF Debts, NoCredit
      <4>1. CASE c = b
        BY <2>2, <2>3, <4>1 DEF DebtInv, Debts, DebtIs
      <4>2. CASE c # b
        BY <2>3, <4>2 DEF DebtInv, Debts
      <4> QED BY <4>1, <4>2
    <3> QED BY <1>1, <1>3, <2>6, <3>1 DEF DebtInv, NoCredit
  <2>7. CASE payable' = [payable EXCEPT ![b] = Debt(n, 0)] /\ UNCHANGED <<payment, drawer>>
    <3>1. /\ payable'[b].balance = n /\ payable'[b].original = n /\ payable'[b].status = "PENDING"
          /\ \A c \in Purchases \ {b} : payable'[c] = payable[c]
      BY <1>0, <2>1, <2>7 DEF Debt
    <3>2. Debts'
      <4> SUFFICES ASSUME NEW c \in Purchases
                   PROVE  DebtIs(payable'[c], purchase'[c].status,
                                 ActivePayments(c), Sum(ActivePayments(c)), Alone)
        BY <1>0, <1>4, <2>7 DEF Debts
      <4>1. CASE c = b
        BY <2>1, <2>2, <2>3, <2>5, <3>1, <4>1 DEF DebtIs
      <4>2. CASE c # b
        BY <2>3, <3>1, <4>2 DEF DebtInv, Debts
      <4> QED BY <4>1, <4>2
    <3> QED BY <1>1, <1>3, <2>7, <3>2 DEF DebtInv
  <2>8. CASE \E y \in Payments, h \in {0, shift} :
                /\ NextPayment(y) /\ n > 1
                /\ payable' = [payable EXCEPT ![b] = Debt(n, 1)]
                /\ Paid(y, b, 1, h)
    <3>1. PICK y \in Payments, h \in {0, shift} :
                /\ NextPayment(y) /\ n > 1
                /\ payable' = [payable EXCEPT ![b] = Debt(n, 1)]
                /\ Paid(y, b, 1, h)
      BY <2>8
    <3>2. PaymentsOK' /\ Drawers'
      BY <1>0, <2>1, <3>1, DrawerPaid
    <3>3. \A c \in Purchases :
             /\ c # b => ActivePayments(c)' = ActivePayments(c)
             /\ Sum(ActivePayments(c))' = Sum(ActivePayments(c)) + (IF c = b THEN 1 ELSE 0)
             /\ Sum(ActivePayments(c)) \in Nat
      <4>1. payment \in [Payments -> PaymentRows] /\ \A c \in Purchases : ActivePayments(c) \in SUBSET Payments
        BY <1>0 DEF TypeOK, PaymentRows, ActivePayments
      <4>2. \A c \in Purchases : Sum(ActivePayments(c)) \in Nat
        BY <4>1, AmtIs DEF Sum, Amt
      <4>3. 1 \in Nat /\ TypeOK /\ b \in Purchases
        BY <1>0, <2>1
      <4> QED BY <3>1, <4>2, <4>3, PaidIn
    <3>4. /\ payable'[b].balance = n - 1 /\ payable'[b].original = n
          /\ payable'[b].status = "PARTIALLY_PAID"
          /\ \A c \in Purchases \ {b} : payable'[c] = payable[c]
      BY <1>0, <2>1, <3>1 DEF Debt
    <3>5. Debts'
      <4> SUFFICES ASSUME NEW c \in Purchases
                   PROVE  DebtIs(payable'[c], purchase'[c].status,
                                 ActivePayments(c)', Sum(ActivePayments(c))', Alone)
        BY <1>0 DEF Debts
      <4>1. CASE c = b
        BY <2>1, <2>3, <2>5, <3>1, <3>3, <3>4, <4>1 DEF DebtIs
      <4>2. CASE c # b
        <5>1. Sum(ActivePayments(c))' = Sum(ActivePayments(c)) /\ ActivePayments(c)' = ActivePayments(c)
              /\ payable'[c] = payable[c] /\ purchase'[c] = purchase[c]
          BY <2>3, <3>3, <3>4, <4>2
        <5> QED BY <5>1 DEF DebtInv, Debts
      <4> QED BY <4>1, <4>2
    <3> QED BY <1>1, <3>2, <3>5 DEF DebtInv
  <2> QED BY <2>4, <2>6, <2>7, <2>8 DEF Credit
<1> QED
  BY <1>2, <1>5, <1>6, <1>7

LEMMA DebtStep == BaseInv /\ DebtInv /\ [Next]_vars => DebtInv'
<1>1. ASSUME BaseInv, DebtInv, NEW p \in Procs, Asks(p) PROVE DebtInv'
  BY <1>1, AskStarts, DebtBegin DEF BaseInv
<1>2. ASSUME BaseInv, DebtInv, NEW p \in Procs, Change(p) \/ AddUp(p) \/ RollBack(p) PROVE DebtInv'
  BY <1>2, OpKept, DebtSame DEF DebtInv
<1>3. ASSUME DebtInv, UNCHANGED vars PROVE DebtInv'
  BY <1>3, DebtSame DEF DebtInv, vars, Busy
<1> QED
  BY <1>1, <1>2, <1>3, NextIs, DebtCommit, DebtEdit, DebtPay

\* Whatever overlaps, a debt to a supplier is what the purchase cost less the payments that
\* stand, its status says so, and the open drawer misses exactly what they took.
THEOREM DebtsHold == Spec => []DebtsMatch
<1>1. BaseInv /\ DebtInv => DebtsMatch
  <2> SUFFICES ASSUME BaseInv, DebtInv PROVE DebtsMatch
    OBVIOUS
  <2>1. \A b \in Purchases : payable[b] \in DebtRows
    BY DEF BaseInv, TypeOK, DebtRows
  <2>2. shift # 0 => drawer[shift] = Sum(Active(shift))
    BY DEF BaseInv, TypeOK, DebtInv, Drawers
  <2>3. \A b \in Purchases : ActivePayments(b) = {} => Sum(ActivePayments(b)) = 0
    <3> TAKE b \in Purchases
    <3>1. Amt(payment, {}) = 0
      BY AmtIs DEF BaseInv, TypeOK, PaymentRows
    <3> QED BY <3>1 DEF Sum, Amt
  <2>4. \A b \in Purchases : payable[b].original \in Nat
    BY <2>1 DEF DebtRows
  <2> QED BY <2>2, <2>3, <2>4 DEF DebtInv, Debts, DebtIs, DebtsMatch
<1> QED
  BY <1>1, BaseInit, BaseStep, DebtInit, DebtStep, PTL DEF Spec

-----------------------------------------------------------------------------
(***************************************************************************)
(* What the lots hold, the movements tell and the product says.            *)
(***************************************************************************)

\* adjustStock writes the quantity of a lot it read without a lock.
Careful(sc) == "adjustStock" \notin sc.together

\* The lots hold what the movements tell, and each transaction changes its rows by what its
\* movements will tell.
LotsInv == /\ Total(lot) = moved + aside
           /\ \A p \in Procs : Did(p) => Explained(lot, work[p].out)

\* The same units, the same total.
LEMMA TotalSame ==
    ASSUME NEW a, NEW b, \A i \in Slots : a[i].qty = b[i].qty
    PROVE  Total(a) = Total(b)
<1>1. [i \in Slots |-> a[i].qty] = [i \in Slots |-> b[i].qty]
  OBVIOUS
<1> QED
  BY <1>1 DEF Total, Held

\* One lot, or none, holds the stock.
LEMMA TotalOne ==
    ASSUME NEW ls \in Lots, NEW i \in Slots, \A j \in Slots \ {i} : ls[j].qty = 0
    PROVE  Total(ls) = ls[i].qty
<1> DEFINE g == Units(ls)
<1>1. \A j \in Slots : g[j] \in Nat /\ g[j] = ls[j].qty
  BY UnitsNat
<1>2. Total(ls) = SumFunctionOnSet(g, Slots)
  BY HeldIs DEF Total
<1>3. IsFiniteSet(Slots) /\ IsFiniteSet(Slots \ {i})
  BY RowAssumption, FS_Subset
<1> HIDE DEF g
<1>4. SumFunctionOnSet(g, Slots) = g[i] + SumFunctionOnSet(g, Slots \ {i})
  BY <1>1, <1>3, SumRemove
<1>5. SumFunctionOnSet(g, Slots \ {i}) = 0
  BY <1>1, <1>3, SumZero
<1> QED
  BY <1>1, <1>2, <1>4, <1>5

\* What a transaction sees is the lots and what it changes them by.
LEMMA SeenAddsUp ==
    ASSUME TypeOK, Requests, NEW p \in Procs, Did(p), Explained(lot, work[p].out)
    PROVE  Total(Seen(p)) = Total(lot) + work[p].out.units + work[p].out.short
<1> DEFINE out == work[p].out  g == Units(lot)  h == Gain(lot, out)  k == Units(Seen(p))
<1>1. /\ out \in Accepted /\ work[p].locks = out.locks /\ lot \in Lots /\ Seen(p) \in Lots
      /\ out.lots \in Lots /\ out.units \in Int /\ out.short \in Int
  BY SeenIsLots DEF TypeOK, Requests, Did, Busy, Accepted
<1>2. \A i \in Slots : g[i] \in Int /\ h[i] \in Int /\ k[i] = g[i] + h[i]
  <2> SUFFICES ASSUME NEW i \in Slots PROVE g[i] \in Int /\ h[i] \in Int /\ k[i] = g[i] + h[i]
    OBVIOUS
  <2>1. g[i] = lot[i].qty /\ lot[i].qty \in Nat /\ k[i] = Seen(p)[i].qty /\ out.lots[i].qty \in Nat
    BY <1>1, UnitsNat
  <2>2. Seen(p)[i] = IF i \in out.locks THEN out.lots[i] ELSE lot[i]
    BY <1>1 DEF Seen
  <2>3. h[i] = IF i \in out.locks THEN out.lots[i].qty - lot[i].qty ELSE 0
    BY DEF Gain
  <2> QED BY <2>1, <2>2, <2>3
<1>3. Total(lot) = SumFunctionOnSet(g, Slots) /\ Total(Seen(p)) = SumFunctionOnSet(k, Slots)
  BY HeldIs DEF Total
<1>4. SumFunctionOnSet(h, Slots) = out.units + out.short
  BY DEF Explained
<1>5. Total(lot) \in Int
  BY <1>1, UnitsNat DEF Total
<1> HIDE DEF g, h, k
<1>6. SumFunctionOnSet(k, Slots) = SumFunctionOnSet(g, Slots) + SumFunctionOnSet(h, Slots)
  BY <1>2, RowAssumption, SumPlus
<1> QED
  BY <1>1, <1>3, <1>4, <1>5, <1>6

\* Rows another transaction holds do not count.
LEMMA GainKept ==
    ASSUME NEW a, NEW b, NEW out, \A i \in Slots : i \in out.locks => a[i] = b[i],
           Explained(a, out)
    PROVE  Explained(b, out)
<1>1. Gain(a, out) = Gain(b, out)
  BY DEF Gain
<1> QED
  BY <1>1 DEF Explained

LEMMA LotsInit == Init => LotsInv
<1> SUFFICES ASSUME Init PROVE LotsInv
  OBVIOUS
<1>1. PICK n \in scenario.opening :
         /\ moved = n
         /\ aside = IF scenario.tracks THEN 0 ELSE -n
         /\ lot = [i \in Slots |->
                     IF n > 0 /\ scenario.tracks /\ i = Min(Slots)
                     THEN [NoLot EXCEPT !.number = Initial, !.qty = n] ELSE NoLot]
  BY DEF Init
<1>2. n \in Nat /\ scenario.tracks \in BOOLEAN /\ \A p \in Procs : ~Did(p)
  BY ScenarioAssumption DEF Init, Did
<1>3. lot \in Lots /\ Min(Slots) \in Slots
  BY BaseInit, MinIs, StockAssumption, RowAssumption DEF BaseInv, TypeOK
<1> DEFINE m == IF scenario.tracks THEN n ELSE 0
<1>4. Total(lot) = m
  <2>1. [NoLot EXCEPT !.number = Initial, !.qty = n].qty = n /\ NoLot.qty = 0
    BY DEF NoLot
  <2>2. lot[Min(Slots)].qty = m /\ \A j \in Slots \ {Min(Slots)} : lot[j].qty = 0
    BY <1>1, <1>2, <1>3, <2>1
  <2> HIDE DEF m
  <2> QED BY <1>3, <2>2, TotalOne
<1>5. m = moved + aside
  BY <1>1, <1>2
<1> QED
  BY <1>2, <1>4, <1>5 DEF LotsInv

\* Steps that leave lots and movements alone, and what was done.
LEMMA LotsSame ==
    ASSUME LotsInv, UNCHANGED <<lot, moved, aside>>,
           \A q \in Procs : Did(q)' => Did(q) /\ work'[q].out = work[q].out
    PROVE  LotsInv'
<1>1. \A q \in Procs : Did(q)' => Explained(lot, work'[q].out)
  BY DEF LotsInv
<1> QED
  BY <1>1 DEF LotsInv, Explained, Gain, Total, Held

LEMMA LotsBegin ==
    ASSUME BaseInv, LotsInv, NEW p \in Procs, NEW op, Begin(p, op), Starts(op)
    PROVE  LotsInv'
<1>1. /\ work'[p].stage = "read" /\ \A q \in Procs \ {p} : work'[q] = work[q]
      /\ UNCHANGED <<lot, moved, aside>>
  BY BeginIs
<1>2. \A q \in Procs : Did(q)' => q # p /\ Did(q) /\ work'[q] = work[q]
  BY <1>1 DEF Did
<1> QED
  BY <1>1, <1>2, LotsSame

\* A change is an outcome of the handler, or a refusal that ends it.
LEMMA ChangeIs ==
    ASSUME BaseInv, NEW p \in Procs, Change(p)
    PROVE  /\ Busy(p) /\ work[p] \in Jobs /\ work[p].stage = "read"
           /\ OpOK(work[p].op) /\ work[p].op.kind \in scenario.kinds
           /\ LocksProduct(work[p].op.kind) => work[p].seen = lot
           /\ work[p].op.kind \notin scenario.together => work[p].seen = lot
           /\ \E out \in Outcomes(work[p]) :
                \/ ~Busy(p)'
                \/ /\ out \in Accepted /\ work'[p].out = out
                   /\ work'[p].op = work[p].op /\ work'[p].before = work[p].before
                   /\ work'[p].tracks = work[p].tracks /\ work'[p].stage = "changed"
<1>1. Busy(p) /\ work[p].stage = "read" /\ work[p] \in Jobs
  BY JobIs DEF Change, Busy, BaseInv
<1>2. /\ OpOK(work[p].op) /\ work[p].op.kind \in scenario.kinds
      /\ LocksProduct(work[p].op.kind) => work[p].seen = lot
      /\ work[p].op.kind \notin scenario.together => work[p].seen = lot
  BY <1>1 DEF BaseInv, Requests
<1>3. PICK out \in Outcomes(work[p]) :
         work' = [work EXCEPT ![p] =
                   IF out.ok THEN [@ EXCEPT !.stage = "changed", !.out = out, !.locks = out.locks]
                   ELSE Idle]
  BY DEF Change
<1>4. Typed(out)
  BY <1>1, <1>2, OutcomesFine DEF BaseInv
<1>5. work \in [Procs -> {Idle} \cup Jobs]
  BY DEF BaseInv, TypeOK
<1>6. CASE ~out.ok
  BY <1>1, <1>2, <1>3, <1>5, <1>6 DEF Busy, Idle
<1>7. CASE out.ok
  <2> DEFINE w == work[p]  j == [w EXCEPT !.stage = "changed", !.out = out, !.locks = out.locks]
  <2>1. out \in Accepted
    BY <1>4, <1>7 DEF Typed, Refusals
  <2>2. work'[p] = j
    BY <1>3, <1>5, <1>7
  <2>3. /\ j.out = out /\ j.op = w.op /\ j.before = w.before /\ j.tracks = w.tracks
        /\ j.stage = "changed"
    <3> HIDE DEF w
    <3>1. w \in Jobs
      BY <1>1 DEF w
    <3> QED BY <3>1 DEF Jobs
  <2> QED BY <1>1, <1>2, <2>1, <2>2, <2>3
<1> QED
  BY <1>6, <1>7

LEMMA LotsChange ==
    ASSUME BaseInv, LotsInv, Careful(scenario), NEW p \in Procs, Change(p)
    PROVE  LotsInv'
<1>0. /\ UNCHANGED <<lot, moved, aside>> /\ \A q \in Procs \ {p} : work'[q] = work[q]
  BY OpKept
<1>1. PICK out \in Outcomes(work[p]) :
         ~Busy(p)' \/ (out \in Accepted /\ work'[p].out = out)
  BY ChangeIs
<1>2. /\ work[p] \in Jobs /\ OpOK(work[p].op) /\ work[p].op.kind \in scenario.kinds
      /\ LocksProduct(work[p].op.kind) => work[p].seen = lot
      /\ work[p].op.kind \notin scenario.together => work[p].seen = lot
      /\ work[p].op.kind \in Kinds
  <2>1. work[p] \in Jobs /\ work[p].op \in Ops
    BY ChangeIs DEF Jobs
  <2>2. work[p].op.kind \in Kinds
    <3> DEFINE op == work[p].op
    <3>1. op \in Ops
      BY <2>1
    <3> HIDE DEF op
    <3>2. op.kind \in Kinds
      BY <3>1 DEF Ops
    <3> QED BY <3>2 DEF op
  <2> QED BY <2>1, <2>2, ChangeIs
<1>3. ASSUME NEW q \in Procs, Did(q)' PROVE Explained(lot, work'[q].out)
  <2>1. CASE q = p
    <3>1. work[p].seen = lot \/ work[p].op.kind \in Selling3
      BY <1>2 DEF Kinds, LocksProduct, Selling3, Careful
    <3>2. Fine(lot, out)
      BY <1>2, <3>1, OutcomesFine DEF BaseInv
    <3>3. out \in Accepted /\ work'[p].out = out
      BY <1>1, <1>3, <2>1 DEF Did, Busy
    <3>4. out \notin Refusals
      BY <3>3 DEF Accepted, Refusals
    <3> QED BY <2>1, <3>2, <3>3, <3>4 DEF Fine
  <2>2. CASE q # p
    <3>1. Did(q) /\ work'[q] = work[q]
      BY <1>0, <1>3, <2>2 DEF Did
    <3> QED BY <3>1 DEF LotsInv
  <2> QED BY <2>1, <2>2
<1> QED
  BY <1>0, <1>3 DEF LotsInv, Explained, Gain, Total, Held

\* The lots are added up: nothing else changes of the transaction.
LEMMA AddUpIs ==
    ASSUME BaseInv, NEW p \in Procs, AddUp(p)
    PROVE  /\ Did(p) /\ work[p] \in Jobs
           /\ work'[p].out = work[p].out /\ work'[p].op = work[p].op
           /\ work'[p].before = work[p].before /\ work'[p].locks = work[p].locks
           /\ work'[p].tracks = work[p].tracks
           /\ work'[p].stage = "summed" /\ work'[p].sum = Total(Seen(p))
           /\ \A q \in Procs \ {p} : work'[q] = work[q]
<1>1. Did(p) /\ work[p] \in Jobs
  BY JobIs DEF AddUp, Busy, BaseInv, Did
<1> DEFINE w == work[p]  n == Total(Seen(p))
<1>2. work'[p] = [w EXCEPT !.stage = "summed", !.sum = n] /\ \A q \in Procs \ {p} : work'[q] = work[q]
  BY AddUpBase
<1>3. w \in Jobs
  BY <1>1
<1> HIDE DEF w, n
<1>4. /\ work'[p].out = w.out /\ work'[p].op = w.op /\ work'[p].before = w.before
      /\ work'[p].tracks = w.tracks
      /\ work'[p].locks = w.locks /\ work'[p].stage = "summed" /\ work'[p].sum = n
  BY <1>2, <1>3 DEF Jobs
<1> QED
  BY <1>1, <1>2, <1>4 DEF w, n

LEMMA LotsCommit ==
    ASSUME BaseInv, LotsInv, NEW p \in Procs, Commit(p)
    PROVE  LotsInv'
<1> DEFINE w == work[p]
<1>1. /\ Did(p) /\ lot' = Seen(p) /\ ~Busy(p)'
      /\ moved' = moved + w.out.units /\ aside' = aside + w.out.short
      /\ w.out.units \in Int /\ w.out.short \in Int
      /\ \A q \in Procs \ {p} : work'[q] = work[q]
  BY CommitIs
<1>2. moved \in Int /\ aside \in Int /\ TypeOK /\ Requests
  BY DEF BaseInv, TypeOK
<1>3. \A q \in Procs : Busy(q)' => q # p /\ Busy(q) /\ work'[q] = work[q]
  BY <1>1 DEF Busy
<1>4. Total(lot') = moved' + aside'
  <2>1. Total(lot) = moved + aside /\ Explained(lot, w.out)
    BY <1>1 DEF LotsInv
  <2> QED BY <1>1, <1>2, <2>1, SeenAddsUp
<1>5. ASSUME NEW q \in Procs, Did(q)' PROVE Explained(lot', work'[q].out)
  <2>1. q # p /\ Busy(q) /\ Busy(p) /\ work'[q] = work[q] /\ Did(q)
    BY <1>1, <1>3, <1>5 DEF Did, Busy
  <2>2. work[q].locks \cap w.locks = {} /\ work[q].locks = work[q].out.locks
    BY <2>1 DEF BaseInv, Apart, Requests
  <2>3. \A i \in Slots : i \in work[q].out.locks => lot[i] = lot'[i]
    BY <1>1, <2>2 DEF Seen
  <2>4. Explained(lot, work[q].out)
    BY <2>1 DEF LotsInv
  <2> DEFINE out == work[q].out  new == lot'
  <2>5. (\A i \in Slots : i \in out.locks => lot[i] = new[i]) /\ Explained(lot, out)
    BY <2>3, <2>4
  <2> HIDE DEF out, new
  <2>6. Explained(new, out)
    BY <2>5, GainKept
  <2> QED BY <2>1, <2>6 DEF out, new
<1> QED
  BY <1>4, <1>5 DEF LotsInv, Explained, Gain, Total, Held

\* One lot gains units, and so does the sum.
LEMMA TotalGain ==
    ASSUME NEW a \in Lots, NEW b \in Lots, NEW i \in Slots, NEW n \in Int,
           b[i].qty = a[i].qty + n, \A j \in Slots \ {i} : b[j] = a[j]
    PROVE  Total(b) = Total(a) + n
<1> DEFINE f == Units(a)  g == Units(b)
<1>1. \A j \in Slots : f[j] \in Int /\ g[j] \in Int /\ f[j] = a[j].qty /\ g[j] = b[j].qty
  BY UnitsNat
<1>2. Total(a) = SumFunctionOnSet(f, Slots) /\ Total(b) = SumFunctionOnSet(g, Slots)
  BY HeldIs DEF Total
<1>3. g[i] = f[i] + n /\ \A j \in Slots \ {i} : g[j] = f[j]
  BY <1>1
<1>4. Total(a) \in Int
  BY UnitsNat DEF Total
<1> HIDE DEF f, g
<1>5. SumFunctionOnSet(g, Slots) = SumFunctionOnSet(f, Slots) - f[i] + g[i]
  BY <1>1, <1>3, RowAssumption, SumChange
<1> QED
  BY <1>1, <1>2, <1>3, <1>4, <1>5

\* Control of lots begins: the lot INICIAL gains the stock, which no movement tells.
LEMMA TrackIs ==
    ASSUME BaseInv, TrackLots
    PROVE  \E n \in Int :
              /\ Total(lot') = Total(lot) + n /\ aside' = aside + n
              /\ lot = [i \in Slots |-> NoLot] =>
                   (Total(lot) = 0 /\ (n = product.stock \/ (n = 0 /\ product.stock < 0)))
<1>0. TypeOK /\ lot \in Lots /\ product.stock \in Int /\ aside \in Int /\ Total(lot) \in Int
  BY UnitsNat DEF BaseInv, TypeOK, Total
<1>1. lot = [i \in Slots |-> NoLot] => Total(lot) = 0 /\ \A i \in Slots : ~Exists(lot, i)
  <2> SUFFICES ASSUME lot = [i \in Slots |-> NoLot]
               PROVE  Total(lot) = 0 /\ \A i \in Slots : ~Exists(lot, i)
    OBVIOUS
  <2>1. \A i \in Slots : lot[i].qty = 0 /\ ~Exists(lot, i)
    BY DEF NoLot, Exists
  <2>2. PICK i \in Slots : TRUE
    BY RowAssumption
  <2>3. Total(lot) = lot[i].qty
    BY <1>0, <2>1, TotalOne
  <2> QED BY <2>1, <2>3
<1>2. CASE lot' = lot /\ aside' = aside /\ (product.stock <= 0 \/ \E i \in Slots : Exists(lot, i))
  <2>1. Total(lot') = Total(lot) + 0 /\ aside' = aside + 0
    BY <1>0, <1>2
  <2>2. lot = [i \in Slots |-> NoLot] =>
          (Total(lot) = 0 /\ (0 = product.stock \/ (0 = 0 /\ product.stock < 0)))
    BY <1>0, <1>1, <1>2
  <2> QED BY <2>1, <2>2
<1>3. CASE /\ aside' = aside + product.stock
           /\ lot'[Min(Slots)].qty = lot[Min(Slots)].qty + product.stock
           /\ \A i \in Slots \ {Min(Slots)} : lot'[i] = lot[i]
  <2> DEFINE new == lot'  i == Min(Slots)  n == product.stock
  <2>1. /\ new \in Lots /\ lot \in Lots /\ i \in Slots /\ n \in Int
        /\ new[i].qty = lot[i].qty + n /\ \A j \in Slots \ {i} : new[j] = lot[j]
    BY <1>0, <1>3, TrackRows
  <2> HIDE DEF new, i, n
  <2>2. Total(new) = Total(lot) + n
    BY <2>1, TotalGain
  <2> USE DEF new, n
  <2> QED BY <1>0, <1>1, <1>3, <2>2
<1> QED
  BY <1>0, <1>2, <1>3, TrackRows

\* A lot keeps its units when its number and date change.
LEMMA RelabelIs ==
    ASSUME TypeOK, EditLot
    PROVE  Total(lot') = Total(lot) /\ UNCHANGED <<product, moved, aside>>
<1>1. PICK i \in Slots, n \in Numbers, e \in Expiries \cup {0} :
         /\ lot' = [lot EXCEPT ![i].number = n, ![i].exp = e]
         /\ changes' = changes + 1
         /\ UNCHANGED <<today, product, payable, payment, drawer, shift, moved, aside>>
  BY DEF EditLot
<1>2. \A r \in LotRows : [r EXCEPT !.number = n, !.exp = e].qty = r.qty
  BY DEF LotRows
<1>3. lot \in [Slots -> LotRows] /\ lot' = [lot EXCEPT ![i] = [lot[i] EXCEPT !.number = n, !.exp = e]]
  BY <1>1 DEF TypeOK, Lots
<1>4. \A j \in Slots : lot'[j].qty = lot[j].qty
  BY <1>2, <1>3
<1> DEFINE new == lot'
<1>5. \A j \in Slots : new[j].qty = lot[j].qty
  BY <1>4
<1> HIDE DEF new
<1>6. Total(new) = Total(lot)
  BY <1>5, TotalSame
<1> QED
  BY <1>1, <1>6 DEF new

LEMMA LotsEdit ==
    ASSUME BaseInv, LotsInv, Edits
    PROVE  LotsInv'
<1>1. \A p \in Procs : ~Did(p)'
  BY EditsAlone
<1>2. product.stock \in Int /\ moved \in Int /\ aside \in Int /\ TypeOK /\ Total(lot) = moved + aside
  BY DEF BaseInv, TypeOK, LotsInv
<1> SUFFICES Total(lot') = moved' + aside'
  BY <1>1 DEF LotsInv, Total, Held
<1>3. CASE EditStock
  <2>1. PICK n \in 0 .. MaxUnits :
           /\ moved' = moved + n - product.stock
           /\ aside' = aside - (n - product.stock)
           /\ lot' = lot
    BY <1>3 DEF EditStock
  <2>2. n \in Int
    OBVIOUS
  <2> QED BY <1>2, <2>1, <2>2
<1>4. CASE TrackLots
  <2>1. PICK n \in Int : Total(lot') = Total(lot) + n /\ aside' = aside + n
    BY <1>4, TrackIs
  <2>2. moved' = moved
    BY <1>4 DEF TrackLots
  <2> QED BY <1>2, <2>1, <2>2
<1>5. CASE EditLot
  BY <1>2, <1>5, RelabelIs
<1>6. CASE UntrackLots \/ NextDay \/ OpenShift \/ CloseShift
  BY <1>2, <1>6 DEF UntrackLots, NextDay, OpenShift, CloseShift
<1> QED
  BY <1>3, <1>4, <1>5, <1>6 DEF Edits

LEMMA LotsStep == BaseInv /\ LotsInv /\ Careful(scenario) /\ [Next]_vars => LotsInv'
<1>1. ASSUME BaseInv, LotsInv, NEW p \in Procs, Asks(p) PROVE LotsInv'
  BY <1>1, AskStarts, LotsBegin DEF BaseInv
<1>2. ASSUME BaseInv, LotsInv, NEW p \in Procs, AddUp(p) PROVE LotsInv'
  <2>1. \A q \in Procs : Did(q)' => Did(q) /\ work'[q].out = work[q].out
    BY <1>2, AddUpIs DEF Did
  <2> QED BY <1>2, <2>1, OpKept, LotsSame
<1>3. ASSUME BaseInv, LotsInv, NEW p \in Procs, RollBack(p) PROVE LotsInv'
  <2>1. ~Busy(p)'
    BY <1>3 DEF RollBack, Busy, BaseInv, TypeOK, Idle
  <2>2. \A q \in Procs : Did(q)' => Did(q) /\ work'[q] = work[q]
    BY <1>3, <2>1, OpKept DEF Did, Busy
  <2> QED BY <1>3, <2>2, OpKept, LotsSame
<1>4. ASSUME BaseInv, LotsInv, Pays PROVE LotsInv'
  <2>1. UNCHANGED <<scenario, product, lot, moved, aside, work>>
    BY <1>4, PayTypes DEF BaseInv
  <2> QED BY <1>4, <2>1, LotsSame DEF Did
<1>5. ASSUME LotsInv, UNCHANGED vars PROVE LotsInv'
  BY <1>5, LotsSame DEF Did, vars
<1> QED
  BY <1>1, <1>2, <1>3, <1>4, <1>5, NextIs, LotsChange, LotsCommit, LotsEdit

\* The scenario is chosen once.
LEMMA ScenarioKept == BaseInv /\ [Next]_vars => scenario' = scenario
<1>1. ASSUME BaseInv, NEW p \in Procs, Asks(p) PROVE scenario' = scenario
  BY <1>1, AskStarts, BeginIs DEF BaseInv
<1>2. UNCHANGED vars => scenario' = scenario
  BY DEF vars
<1> QED
  BY <1>1, <1>2, NextIs, OpKept, CommitIs, EditsAlone, PayTypes DEF BaseInv

-----------------------------------------------------------------------------
\* The product's stock is the sum of its lots but for a stock below zero without lots, and so
\* is the sum about to be written; what a transaction read of the product still holds.
SoundStock == \/ product.stock = Total(lot)
              \/ product.stock < 0 /\ Total(lot) = 0
InHand(p) ==
    LET w == work[p] IN
    /\ w.before = product.stock /\ w.tracks
    /\ w.op.kind = "import" => w.op.ref = w.before + w.op.qty
    /\ w.stage = "summed" => w.sum = Total(Seen(p))
StockInv == Alone /\ Unbroken /\ product.tracks =>
              SoundStock /\ \A p \in Procs : Busy(p) => InHand(p)

LEMMA StockInit == Init => StockInv
<1> SUFFICES ASSUME Init, product.tracks PROVE StockInv
  BY DEF StockInv
<1>1. BaseInv /\ LotsInv
  BY BaseInit, LotsInit
<1>2. PICK n \in scenario.opening :
         /\ product = [stock |-> n, tracks |-> scenario.tracks] /\ moved = n
         /\ aside = IF scenario.tracks THEN 0 ELSE -n
  BY DEF Init
<1>3. n \in Nat /\ product.stock = n /\ scenario.tracks
  BY <1>2, ScenarioAssumption DEF Init
<1>4. product.stock = Total(lot)
  BY <1>1, <1>2, <1>3 DEF LotsInv
<1>5. \A p \in Procs : ~Busy(p)
  BY DEF Init, Busy
<1> QED
  BY <1>4, <1>5 DEF StockInv, SoundStock

\* A step of one transaction that leaves product and lots alone.
LEMMA StockJob ==
    ASSUME BaseInv, StockInv, UNCHANGED <<scenario, product, lot>>, NEW p \in Procs,
           \A q \in Procs \ {p} : work'[q] = work[q],
           Alone /\ Unbroken /\ product.tracks /\ Busy(p)' => InHand(p)'
    PROVE  StockInv'
<1> SUFFICES ASSUME Alone, Unbroken, product.tracks
             PROVE  SoundStock' /\ \A q \in Procs : Busy(q)' => InHand(q)'
  BY DEF StockInv, Alone, Unbroken
<1>1. SoundStock' /\ SoundStock
  BY DEF StockInv, SoundStock, Total, Held
<1>2. ASSUME NEW q \in Procs, q # p, Busy(q)' PROVE InHand(q)'
  <2>1. Busy(q) /\ work'[q] = work[q]
    BY <1>2 DEF Busy
  <2>2. Seen(q)' = Seen(q)
    BY <2>1 DEF Seen
  <2>3. InHand(q)
    BY <2>1 DEF StockInv
  <2>4. Total(Seen(q))' = Total(Seen(q))
    BY <2>2 DEF Total, Held
  <2> QED BY <2>1, <2>3, <2>4 DEF InHand
<1> QED
  BY <1>1, <1>2

LEMMA StockBegin ==
    ASSUME BaseInv, StockInv, NEW p \in Procs, NEW op, Begin(p, op), Starts(op)
    PROVE  StockInv'
<1>1. /\ work'[p].op = op /\ work'[p].stage = "read" /\ work'[p].before = product.stock
      /\ work'[p].tracks = Tracks(op)
      /\ \A q \in Procs \ {p} : work'[q] = work[q]
      /\ UNCHANGED <<scenario, product, lot>>
  BY BeginIs
<1>2. Alone /\ Unbroken /\ product.tracks /\ Busy(p)' => InHand(p)'
  BY <1>1 DEF InHand, Tracks, Starts
<1> QED
  BY <1>1, <1>2, StockJob

LEMMA StockChange ==
    ASSUME BaseInv, StockInv, NEW p \in Procs, Change(p)
    PROVE  StockInv'
<1>1. /\ UNCHANGED <<scenario, product, lot>> /\ \A q \in Procs \ {p} : work'[q] = work[q]
  BY OpKept
<1>2. /\ Busy(p)
      /\ \/ ~Busy(p)'
         \/ /\ work'[p].op = work[p].op /\ work'[p].before = work[p].before
            /\ work'[p].tracks = work[p].tracks /\ work'[p].stage = "changed"
  BY ChangeIs
<1>3. Alone /\ Unbroken /\ product.tracks /\ Busy(p)' => InHand(p)'
  BY <1>1, <1>2 DEF StockInv, InHand
<1> QED
  BY <1>1, <1>3, StockJob

LEMMA StockAddUp ==
    ASSUME BaseInv, StockInv, NEW p \in Procs, AddUp(p)
    PROVE  StockInv'
<1>1. /\ UNCHANGED <<scenario, product, lot>> /\ \A q \in Procs \ {p} : work'[q] = work[q]
  BY OpKept
<1>2. /\ Busy(p) /\ work'[p].op = work[p].op /\ work'[p].before = work[p].before
      /\ work'[p].tracks = work[p].tracks /\ work'[p].sum = Total(Seen(p))
      /\ work'[p].locks = work[p].locks /\ work'[p].out = work[p].out
  BY AddUpIs DEF Did, Busy
<1>3. Seen(p)' = Seen(p)
  BY <1>1, <1>2 DEF Seen
<1>4. Total(Seen(p))' = Total(Seen(p))
  BY <1>3 DEF Total, Held
<1>5. Alone /\ Unbroken /\ product.tracks /\ Busy(p)' => InHand(p)'
  BY <1>1, <1>2, <1>4 DEF StockInv, InHand
<1> QED
  BY <1>1, <1>5, StockJob

\* A commit writes the sum of the lots, or a stock that no lot changed.
LEMMA StockCommit ==
    ASSUME BaseInv, StockInv, NEW p \in Procs, Commit(p)
    PROVE  StockInv'
<1> DEFINE w == work[p]
<1>1. /\ Busy(p) /\ Did(p) /\ w.stage = "summed" /\ lot' = Seen(p) /\ UNCHANGED scenario
      /\ product'.tracks = Tracks(w.op) /\ product'.stock = StockAfter(w) /\ ~Busy(p)'
      /\ \A q \in Procs \ {p} : work'[q] = work[q]
      /\ w \in Jobs /\ w.op \in Ops
  BY CommitIs
<1> SUFFICES ASSUME Alone, Unbroken, product'.tracks
             PROVE  SoundStock' /\ \A q \in Procs : ~Busy(q)'
  BY <1>1 DEF StockInv, Alone, Unbroken
<1>2. \A q \in Procs : ~Busy(q)'
  <2> SUFFICES ASSUME NEW q \in Procs \ {p}, Busy(q) PROVE FALSE
    BY <1>1 DEF Busy
  <2> QED BY <1>1 DEF BaseInv, Apart, Alone
<1>3. product.tracks
  <2>1. w.op.kind \in scenario.kinds
    BY <1>1 DEF BaseInv, Requests
  <2>2. CASE scenario.tracks
    BY <2>2 DEF BaseInv, Tracking, Unbroken
  <2>3. CASE "import" \notin scenario.kinds
    BY <1>1, <2>1, <2>3 DEF Tracks
  <2> QED BY <2>2, <2>3 DEF Unbroken
<1>4. SoundStock /\ InHand(p)
  BY <1>1, <1>3 DEF StockInv
<1>5. w.tracks /\ w.before = product.stock /\ w.sum = Total(Seen(p))
      /\ (w.op.kind = "import" => w.op.ref = w.before + w.op.qty)
  BY <1>1, <1>4 DEF InHand
<1>6. w.locks = w.out.locks /\ w.before \in Int /\ w.op.qty \in Int /\ product.stock \in Int
  <2>1. w.locks = w.out.locks /\ product.stock \in Int
    BY <1>1 DEF BaseInv, Requests, TypeOK
  <2> DEFINE op == w.op
  <2>2. w \in Jobs /\ op \in Ops
    BY <1>1
  <2> HIDE DEF w, op
  <2>3. w.before \in Int /\ op.qty \in Int
    BY <2>2 DEF Jobs, Ops
  <2> QED BY <2>1, <2>3 DEF op, w
<1>7. CASE Syncs(w)
  <2>1. product'.stock = Total(lot')
    BY <1>1, <1>5, <1>7 DEF StockAfter
  <2> QED BY <1>2, <2>1 DEF SoundStock, Total, Held
<1>8. CASE ~Syncs(w)
  <2>1. w.locks = {} /\ (w.op.kind = "refund" \/ w.op.qty = 0)
    BY <1>5, <1>6, <1>8 DEF Syncs
  <2>2. product'.stock = product.stock
    <3>1. CASE w.op.kind = "import"
      <4>1. StockAfter(w) = w.op.ref
        BY <1>8, <3>1 DEF StockAfter
      <4>2. w.op.ref = w.before + w.op.qty /\ w.op.qty = 0
        BY <1>5, <2>1, <3>1
      <4> QED BY <1>1, <1>5, <1>6, <4>1, <4>2
    <3>2. CASE w.op.kind # "import"
      <4>1. StockAfter(w) = product.stock
        BY <1>5, <1>8, <3>2 DEF StockAfter
      <4> QED BY <1>1, <4>1
    <3> QED BY <3>1, <3>2
  <2> DEFINE new == lot'
  <2>3. \A i \in Slots : new[i] = lot[i]
    BY <1>1, <2>1 DEF Seen
  <2> HIDE DEF new
  <2>4. Total(new) = Total(lot)
    BY <2>3, TotalSame
  <2>5. Total(lot)' = Total(lot)
    BY <2>4 DEF new, Total, Held
  <2> QED BY <1>2, <1>4, <2>2, <2>5 DEF SoundStock
<1> QED
  BY <1>7, <1>8

LEMMA StockEdit ==
    ASSUME BaseInv, StockInv, Edits
    PROVE  StockInv'
<1>1. UNCHANGED scenario /\ \A q \in Procs : ~Busy(q)'
  BY EditsAlone
<1> SUFFICES ASSUME Alone, Unbroken, product'.tracks
             PROVE  product'.stock = Total(lot') \/ (product'.stock < 0 /\ Total(lot') = 0)
  BY <1>1 DEF StockInv, SoundStock, Alone, Unbroken, Total, Held
<1>2. TypeOK
  BY DEF BaseInv
<1>3. CASE TrackLots
  <2>1. ~product.tracks /\ product'.stock = product.stock
    BY <1>2, <1>3, TrackRows
  <2>2. lot = [i \in Slots |-> NoLot]
    BY <2>1 DEF BaseInv, Bare, Unbroken
  <2>3. PICK n \in Int : /\ Total(lot') = Total(lot) + n /\ Total(lot) = 0
                         /\ n = product.stock \/ (n = 0 /\ product.stock < 0)
    BY <1>3, <2>2, TrackIs
  <2> QED BY <2>1, <2>3
<1>4. CASE EditLot
  BY <1>2, <1>4, RelabelIs DEF StockInv, SoundStock
<1>5. CASE NextDay \/ OpenShift \/ CloseShift
  <2>1. UNCHANGED <<product, lot>>
    BY <1>5 DEF NextDay, OpenShift, CloseShift
  <2> QED BY <2>1 DEF StockInv, SoundStock
<1>6. CASE EditStock \/ UntrackLots
  BY <1>6 DEF EditStock, UntrackLots, Unbroken
<1> QED
  BY <1>3, <1>4, <1>5, <1>6 DEF Edits

LEMMA StockStep == BaseInv /\ StockInv /\ [Next]_vars => StockInv'
<1>1. ASSUME BaseInv, StockInv, NEW p \in Procs, Asks(p) PROVE StockInv'
  BY <1>1, AskStarts, StockBegin DEF BaseInv
<1>2. ASSUME BaseInv, StockInv, NEW p \in Procs, RollBack(p) PROVE StockInv'
  <2>1. ~Busy(p)'
    BY <1>2 DEF RollBack, Busy, BaseInv, TypeOK, Idle
  <2> QED BY <1>2, <2>1, OpKept, StockJob
<1>3. ASSUME BaseInv, StockInv, UNCHANGED <<scenario, product, lot, work>> PROVE StockInv'
  <2>1. ASSUME NEW p \in Procs PROVE (Busy(p)' <=> Busy(p)) /\ (InHand(p)' <=> InHand(p))
    <3>1. Seen(p)' = Seen(p)
      BY <1>3 DEF Seen
    <3>2. Total(Seen(p))' = Total(Seen(p))
      BY <3>1 DEF Total, Held
    <3> QED BY <1>3, <3>2 DEF Busy, InHand
  <2> QED BY <1>3, <2>1 DEF StockInv, SoundStock, Alone, Unbroken, Total, Held
<1>4. ASSUME BaseInv, StockInv, Pays PROVE StockInv'
  BY <1>3, <1>4, PayTypes DEF BaseInv
<1>5. ASSUME BaseInv, StockInv, UNCHANGED vars PROVE StockInv'
  BY <1>3, <1>5 DEF vars
<1> QED
  BY <1>1, <1>2, <1>4, <1>5, NextIs, StockChange, StockAddUp, StockCommit, StockEdit

LotsFine == BaseInv /\ (Careful(scenario) => LotsInv) /\ StockInv

LEMMA LotsFineHolds == Spec => []LotsFine
<1>1. Init => LotsFine
  BY BaseInit, LotsInit, StockInit DEF LotsFine
<1>2. LotsFine /\ [Next]_vars => LotsFine'
  BY BaseStep, LotsStep, StockStep, ScenarioKept DEF LotsFine, Careful
<1> QED
  BY <1>1, <1>2, PTL DEF Spec

\* The lots hold exactly what the movements tell and none is below zero, whatever overlaps but
\* adjustments of the catalogue, and also when control of lots ends, begins again or is turned
\* on by an import: no purchase, sale, return or annulment is lost under another.
THEOREM LotsHold == Spec => [](Careful(scenario) => LotsExplained)
<1>1. LotsFine => (Careful(scenario) => LotsExplained)
  <2> SUFFICES ASSUME LotsFine, Careful(scenario) PROVE LotsExplained
    OBVIOUS
  <2>1. \A i \in Slots : lot[i].qty >= 0
    BY DEF LotsFine, BaseInv, TypeOK, Lots, LotRows
  <2> QED BY <2>1 DEF LotsFine, LotsInv, LotsExplained
<1> QED
  BY <1>1, LotsFineHolds, PTL

\* With one transaction at a time the product's stock is the sum of its lots, but where the
\* property names what breaks it: a typed stock, control of lots that ends, an import that
\* begins it, a stock below zero with which it began.
THEOREM StockHolds == Spec => []StockIsLotsAlone
<1>1. LotsFine => StockIsLotsAlone
  BY DEF LotsFine, StockInv, SoundStock, StockIsLotsAlone, StockIsLots
<1> QED
  BY <1>1, LotsFineHolds, PTL

(***************************************************************************)
(* The backfills of Bootstrap: a row that an instance found and that is    *)
(* not filled is among those its backfill has still to do.                 *)
(***************************************************************************)
Filled(i, f) == \A r \in old[i] : stage[f][r] >= Fill(f).done
FillOf(i) == Order[at[i]]
InFill(i) == pc[i] \in {"fill", "rows"}

BootTyped ==
    /\ setup \in Setups
    /\ pc \in [Instances -> {"down", "schema", "fill", "rows", "up"}]
    /\ ok \in [Instances -> BOOLEAN] /\ at = [i \in Instances |-> at[i]]
    /\ seen \in [Instances -> SUBSET Rows] /\ cur = [i \in Instances |-> cur[i]]
    /\ known \in SUBSET Rows /\ old \in [Instances -> SUBSET Rows]
    /\ stage \in [Topics -> [Rows -> Nat]]

\* Where each instance is, and the rows it has in hand.
InPlace ==
    \A i \in Instances :
        /\ InFill(i) => at[i] \in 1 .. Len(Order)
        /\ pc[i] # "down" => i \in setup.instances
        /\ old[i] \subseteq known /\ seen[i] \subseteq known
        /\ cur[i] # None => /\ pc[i] = "rows" /\ cur[i] \in seen[i]
                            /\ Fill(FillOf(i)).writes = 2

\* What the backfills before the one at hand have filled, and it has still to do.
FilledSoFar ==
    \A i \in Instances : ok[i] =>
        /\ InFill(i) =>
              \A k \in 1 .. Len(Order) : k < at[i] /\ Order[k] \in setup.topics =>
                  Filled(i, Order[k])
        /\ pc[i] = "rows" /\ FillOf(i) \in setup.topics =>
              \A r \in old[i] \ seen[i] : stage[FillOf(i)][r] >= Fill(FillOf(i)).done
        /\ pc[i] = "up" => \A f \in setup.topics \cap Fills : Filled(i, f)

\* One instance gives payments, to sales that have none.
PaidOnce ==
    /\ "payments" \in setup.topics => \A i, j \in setup.instances : i = j
    /\ \A r \in Rows : stage["payments"][r] <= 1
    /\ \A i \in Instances : pc[i] = "rows" /\ FillOf(i) = "payments" =>
           \A r \in seen[i] : stage["payments"][r] = 0

\* A backfill the scenario leaves out has nothing to do.
OnlyAsked ==
    \A i \in Instances : pc[i] = "rows" /\ seen[i] # {} => FillOf(i) \in setup.topics

FillInv == BootTyped /\ InPlace /\ FilledSoFar /\ PaidOnce /\ OnlyAsked

\* The backfills: how many writes each takes, and after which a row counts as done.
LEMMA FillFacts ==
    \A f \in Fills : /\ Fill(f).done \in 1 .. 2 /\ Fill(f).writes \in 1 .. 2
                     /\ Fill(f).done <= Fill(f).writes
                     /\ f = "payments" => Fill(f).writes = 1 /\ Fill(f).done = 1
<1> TAKE f \in Fills
<1>1. \/ f \in {"products", "slugs", "services", "professions", "sectors"}
      \/ f \in {"tax", "policies", "payments", "zones"}
  BY DEF Fills, Order
<1>2. /\ Fill("products") = FillProducts /\ Fill("slugs") = FillSlugs
      /\ Fill("services") = FillServices /\ Fill("professions") = FillProfessions
      /\ Fill("sectors") = FillSectors /\ Fill("tax") = FillTax
      /\ Fill("policies") = FillPolicies /\ Fill("payments") = FillPayments
      /\ Fill("zones") = FillZones
  BY DEF Fill
<1>3. /\ \A b \in {FillSlugs, FillSectors, FillTax, FillPolicies, FillPayments} :
            b.writes = 1 /\ b.done = 1
      /\ \A b \in {FillServices, FillProfessions, FillZones} : b.writes = 2 /\ b.done = 2
      /\ FillProducts.writes = 2 /\ FillProducts.done = 1
  BY DEF Backfill, FillProducts, FillSlugs, FillServices, FillProfessions, FillSectors,
         FillTax, FillPolicies, FillPayments, FillZones
<1> QED BY <1>1, <1>2, <1>3

\* The backfills, and what the schema rewrites, which is none of them.
LEMMA OrderFacts ==
    /\ Len(Order) = 9 /\ \A k \in 1 .. Len(Order) : Order[k] \in Fills
    /\ Fills \subseteq Topics /\ "payments" \in Fills
    /\ {"type", "membership", "dollars"} \cap Fills = {}
<1>1. Len(Order) = 9 /\ \A k \in 1 .. Len(Order) : Order[k] \in Fills
  BY DEF Order, Fills
<1>2. \A f \in Fills : f \in {"products", "slugs", "services", "professions", "sectors", "tax",
                              "policies", "payments", "zones"}
  BY <1>1 DEF Fills, Order
<1>3. "payments" \in Fills
  <2>1. Order[8] = "payments" /\ 8 \in 1 .. Len(Order)
    BY <1>1 DEF Order
  <2> QED BY <2>1 DEF Fills
<1> QED BY <1>1, <1>2, <1>3 DEF Topics

\* A step that takes no write of a row back keeps what is filled.
LEMMA StagesGrow ==
    ASSUME FillInv, stage' \in [Topics -> [Rows -> Nat]], setup' = setup,
           \A f \in Fills, r \in known : stage'[f][r] >= stage[f][r],
           NEW i \in Instances, old'[i] = old[i]
    PROVE  /\ \A f \in Fills : Filled(i, f) => Filled(i, f)'
           /\ \A f \in Fills, r \in old[i] :
                 stage[f][r] >= Fill(f).done => stage'[f][r] >= Fill(f).done
<1>1. ASSUME NEW f \in Fills, NEW r \in old[i], stage[f][r] >= Fill(f).done
      PROVE  stage'[f][r] >= Fill(f).done
  <2>1. r \in known /\ r \in Rows /\ f \in Topics
    BY <1>1, OrderFacts DEF FillInv, InPlace, BootTyped
  <2>2. stage[f][r] \in Nat /\ stage'[f][r] \in Nat /\ Fill(f).done \in Nat
    BY <2>1, FillFacts DEF FillInv, BootTyped
  <2> QED BY <1>1, <2>1, <2>2
<1> QED BY <1>1 DEF Filled

\* Before the first boot nothing is filled and nobody is at work.
LEMMA FillInit ==
    ASSUME BootInit,
           \A sc \in Setups : "payments" \in sc.topics => \A i, j \in sc.instances : i = j
    PROVE  FillInv
<1>1. BootTyped
  BY DEF BootInit, BootTyped
<1>2. InPlace
  BY DEF BootInit, InPlace, InFill
<1>3. FilledSoFar
  BY DEF BootInit, FilledSoFar, InFill
<1>4. PaidOnce
  BY OrderFacts DEF BootInit, PaidOnce
<1>5. OnlyAsked
  BY DEF BootInit, OnlyAsked
<1> QED BY <1>1, <1>2, <1>3, <1>4, <1>5 DEF FillInv

\* A step that leaves the rows alone and every instance but one.
LEMMA RowsKept ==
    ASSUME FillInv, NEW i \in Instances, UNCHANGED <<setup, known, stage>>, BootTyped',
           \A j \in Instances \ {i} : /\ pc'[j] = pc[j] /\ at'[j] = at[j] /\ ok'[j] = ok[j]
                                      /\ seen'[j] = seen[j] /\ cur'[j] = cur[j]
                                      /\ old'[j] = old[j],
           InFill(i)' => at'[i] \in 1 .. Len(Order),
           pc'[i] # "down" => i \in setup.instances,
           old'[i] \subseteq known /\ seen'[i] \subseteq known,
           cur'[i] # None => /\ pc'[i] = "rows" /\ cur'[i] \in seen'[i]
                             /\ Fill(Order[at'[i]]).writes = 2,
           ok'[i] =>
              /\ InFill(i)' => \A k \in 1 .. Len(Order) : k < at'[i] /\ Order[k] \in setup.topics =>
                                   Filled(i, Order[k])'
              /\ pc'[i] = "rows" /\ Order[at'[i]] \in setup.topics =>
                    \A r \in old'[i] \ seen'[i] :
                        stage[Order[at'[i]]][r] >= Fill(Order[at'[i]]).done
              /\ pc'[i] = "up" => \A f \in setup.topics \cap Fills : Filled(i, f)',
           pc'[i] = "rows" /\ Order[at'[i]] = "payments" =>
              \A r \in seen'[i] : stage["payments"][r] = 0,
           pc'[i] = "rows" /\ seen'[i] # {} => Order[at'[i]] \in setup.topics
    PROVE  FillInv'
<1>1. InPlace'
  BY DEF FillInv, InPlace, InFill, FillOf
<1>2. FilledSoFar'
  <2>1. ASSUME NEW j \in Instances, j # i, ok'[j]
        PROVE  /\ InFill(j)' => \A k \in 1 .. Len(Order) :
                                    k < at'[j] /\ Order[k] \in setup'.topics => Filled(j, Order[k])'
               /\ pc'[j] = "rows" /\ FillOf(j)' \in setup'.topics =>
                     \A r \in old'[j] \ seen'[j] : stage'[FillOf(j)'][r] >= Fill(FillOf(j)').done
               /\ pc'[j] = "up" => \A f \in setup'.topics \cap Fills : Filled(j, f)'
    BY <2>1 DEF FillInv, FilledSoFar, InFill, FillOf, Filled
  <2>2. ASSUME ok'[i]
        PROVE  /\ InFill(i)' => \A k \in 1 .. Len(Order) :
                                    k < at'[i] /\ Order[k] \in setup'.topics => Filled(i, Order[k])'
               /\ pc'[i] = "rows" /\ FillOf(i)' \in setup'.topics =>
                     \A r \in old'[i] \ seen'[i] : stage'[FillOf(i)'][r] >= Fill(FillOf(i)').done
               /\ pc'[i] = "up" => \A f \in setup'.topics \cap Fills : Filled(i, f)'
    BY <2>2 DEF FillOf
  <2> QED BY <2>1, <2>2 DEF FilledSoFar
<1>3. PaidOnce'
  BY DEF FillInv, PaidOnce, FillOf
<1>4. OnlyAsked'
  BY DEF FillInv, OnlyAsked, FillOf
<1> QED BY <1>1, <1>2, <1>3, <1>4 DEF FillInv

\* A boot, a statement refused, the end of the schema and a crash write no row.
LEMMA SchemaStepsFilled ==
    ASSUME FillInv, NEW i \in Instances,
           Boot(i) \/ RefusedStep(i) \/ StartFills(i) \/ Stop(i)
    PROVE  FillInv'
<1>1. CASE Boot(i)
  <2>1. BootTyped'
    BY <1>1 DEF Boot, FillInv, BootTyped
  <2>2. /\ pc'[i] = "schema" /\ old'[i] = known /\ seen' = seen /\ cur' = cur
        /\ pc[i] = "down" /\ i \in setup.instances /\ UNCHANGED <<setup, known, stage>>
        /\ \A j \in Instances \ {i} : /\ pc'[j] = pc[j] /\ at'[j] = at[j] /\ ok'[j] = ok[j]
                                      /\ old'[j] = old[j]
    BY <1>1 DEF Boot, FillInv, BootTyped
  <2>3. cur[i] = None /\ seen[i] \subseteq known
    BY <2>2 DEF FillInv, InPlace
  <2>4. /\ ~InFill(i)' /\ pc'[i] \notin {"down", "rows", "up"} /\ cur'[i] = None
        /\ old'[i] \subseteq known /\ seen'[i] \subseteq known
        /\ \A j \in Instances \ {i} : seen'[j] = seen[j] /\ cur'[j] = cur[j]
    BY <2>2, <2>3 DEF InFill
  <2> QED BY <2>1, <2>2, <2>4, RowsKept
<1>2. CASE RefusedStep(i)
  <2>1. BootTyped'
    BY <1>2 DEF RefusedStep, FillInv, BootTyped
  <2>2. /\ pc[i] = "schema" /\ pc' = pc /\ ok' = ok /\ seen' = seen /\ cur' = cur /\ old' = old
        /\ at' = [at EXCEPT ![i] = AfterFailure(at[i])]
        /\ UNCHANGED <<setup, known, stage>>
    BY <1>2 DEF RefusedStep
  <2> QED BY <2>1, <2>2, RowsKept DEF FillInv, BootTyped, InPlace, InFill
<1>3. CASE StartFills(i)
  <2>1. BootTyped'
    BY <1>3 DEF StartFills, FillInv, BootTyped
  <2>2. at'[i] = 1 /\ pc'[i] = "fill"
    BY <1>3 DEF StartFills, FillInv, BootTyped
  <2>3. 1 \in 1 .. Len(Order) /\ \A k \in 1 .. Len(Order) : ~(k < 1)
    BY OrderFacts
  <2>4. /\ pc[i] = "schema" /\ UNCHANGED <<setup, known, stage, ok, seen, cur, old>>
        /\ \A j \in Instances \ {i} : pc'[j] = pc[j] /\ at'[j] = at[j]
    BY <1>3 DEF StartFills, FillInv, BootTyped
  <2>5. /\ cur[i] = None /\ i \in setup.instances /\ old[i] \subseteq known
        /\ seen[i] \subseteq known
    BY <2>4 DEF FillInv, InPlace
  <2> QED BY <2>1, <2>2, <2>3, <2>4, <2>5, RowsKept
<1>4. CASE Stop(i)
  <2>1. BootTyped'
    BY <1>4 DEF Stop, FillInv, BootTyped
  <2>2. pc'[i] = "down" /\ seen'[i] = {} /\ cur'[i] = None
    BY <1>4 DEF Stop, FillInv, BootTyped
  <2> QED BY <1>4, <2>1, <2>2, RowsKept DEF Stop, FillInv, BootTyped, InPlace, InFill
<1> QED BY <1>1, <1>2, <1>3, <1>4

\* A backfill reads the rows it does not count as done.
LEMMA ReadFillFilled ==
    ASSUME FillInv, NEW i \in Instances, ReadFill(i)
    PROVE  FillInv'
<1> DEFINE f == FillOf(i)
<1>1. /\ pc[i] = "fill" /\ pc' = [pc EXCEPT ![i] = "rows"] /\ at' = at /\ ok' = ok /\ cur' = cur
      /\ old' = old /\ UNCHANGED <<setup, known, stage>>
      /\ seen' = [seen EXCEPT ![i] = IF f \in setup.topics THEN Unfilled(f) ELSE {}]
  BY DEF ReadFill, FillOf
<1>2. at[i] \in 1 .. Len(Order) /\ f \in Fills /\ i \in setup.instances /\ cur[i] = None
  BY <1>1, OrderFacts DEF FillInv, InPlace, InFill, FillOf
<1>3. Unfilled(f) \subseteq known /\ known \subseteq Rows
  BY DEF Unfilled, FillInv, BootTyped
<1>4. /\ seen'[i] = (IF f \in setup.topics THEN Unfilled(f) ELSE {}) /\ pc'[i] = "rows"
      /\ seen'[i] \subseteq known /\ Order[at'[i]] = f
  BY <1>1, <1>3 DEF FillInv, BootTyped, FillOf
<1>5. BootTyped'
  BY <1>1, <1>3, <1>4 DEF FillInv, BootTyped
<1>6. ASSUME NEW r \in old[i], f \in setup.topics, r \notin Unfilled(f)
      PROVE  stage[f][r] >= Fill(f).done
  <2>1. r \in known /\ r \in Rows /\ f \in Topics
    BY <1>2, OrderFacts DEF FillInv, InPlace, BootTyped
  <2>2. /\ stage \in [Topics -> [Rows -> Nat]]
        /\ Fill(f).done \in 1 .. 2
    BY <1>2, FillFacts DEF FillInv, BootTyped
  <2>3. stage[f][r] \in Nat
    BY <2>1, <2>2
  <2> QED BY <1>6, <2>1, <2>2, <2>3 DEF Unfilled
<1>7. f = "payments" => \A r \in seen'[i] : stage["payments"][r] = 0
  <2> SUFFICES ASSUME f = "payments", NEW r \in seen'[i] PROVE stage["payments"][r] = 0
    OBVIOUS
  <2>1. r \in known /\ r \in Rows /\ stage["payments"][r] < Fill("payments").done
    BY <1>3, <1>4 DEF Unfilled
  <2>2. Fill("payments").done = 1 /\ stage["payments"][r] \in Nat
    BY <2>1, FillFacts, OrderFacts DEF FillInv, BootTyped
  <2> QED BY <2>1, <2>2
<1>8. ok'[i] =>
          /\ InFill(i)' => \A k \in 1 .. Len(Order) : k < at'[i] /\ Order[k] \in setup.topics =>
                               Filled(i, Order[k])'
          /\ pc'[i] = "rows" /\ Order[at'[i]] \in setup.topics =>
                \A r \in old'[i] \ seen'[i] :
                    stage[Order[at'[i]]][r] >= Fill(Order[at'[i]]).done
          /\ pc'[i] = "up" => \A g \in setup.topics \cap Fills : Filled(i, g)'
  BY <1>1, <1>4, <1>6 DEF FillInv, FilledSoFar, InFill, Filled
<1> HIDE DEF f
<1> QED
  BY <1>1, <1>2, <1>4, <1>5, <1>7, <1>8, RowsKept DEF FillInv, InPlace

\* A row that a unique key refuses is logged.
LEMMA LoseRowFilled ==
    ASSUME FillInv, NEW i \in Instances, LoseRow(i)
    PROVE  FillInv'
<1>1. /\ pc[i] = "rows" /\ cur[i] = None /\ ok' = [ok EXCEPT ![i] = FALSE]
      /\ seen'[i] \subseteq seen[i] /\ \A j \in Instances \ {i} : seen'[j] = seen[j]
      /\ seen' \in [Instances -> SUBSET Rows]
      /\ pc' = pc /\ at' = at /\ cur' = cur /\ old' = old /\ UNCHANGED <<setup, known, stage>>
  BY DEF LoseRow, FillInv, BootTyped
<1>2. BootTyped' /\ ~ok'[i]
  BY <1>1 DEF FillInv, BootTyped
<1>3. /\ Order[at'[i]] = "payments" => \A r \in seen'[i] : stage["payments"][r] = 0
      /\ seen'[i] # {} => Order[at'[i]] \in setup.topics
  BY <1>1 DEF FillInv, PaidOnce, OnlyAsked, FillOf
<1> QED BY <1>1, <1>2, <1>3, RowsKept DEF FillInv, InPlace, InFill, BootTyped

\* A backfill that has nothing left to do has filled every row it found.
LEMMA EndFillFilled ==
    ASSUME FillInv, NEW i \in Instances, EndFill(i)
    PROVE  FillInv'
<1>1. /\ pc[i] = "rows" /\ seen[i] = {} /\ UNCHANGED <<setup, ok, seen, cur, known, old, stage>>
      /\ IF at[i] < Len(Order)
         THEN at' = [at EXCEPT ![i] = @ + 1] /\ pc' = [pc EXCEPT ![i] = "fill"]
         ELSE pc' = [pc EXCEPT ![i] = "up"] /\ at' = [at EXCEPT ![i] = 0]
  BY DEF EndFill
<1>2. at[i] \in 1 .. 9 /\ Len(Order) = 9 /\ i \in setup.instances /\ cur[i] = None
  BY <1>1, OrderFacts DEF FillInv, InPlace, InFill
<1>3. BootTyped'
  BY <1>1 DEF FillInv, BootTyped
<1>4. ASSUME ok[i], NEW k \in 1 .. Len(Order), k <= at[i], Order[k] \in setup.topics
      PROVE  Filled(i, Order[k])
  <2>1. CASE k = at[i]
    BY <1>1, <1>4, <2>1 DEF FillInv, FilledSoFar, Filled, FillOf
  <2>2. CASE k < at[i]
    BY <1>1, <1>4, <2>2 DEF FillInv, FilledSoFar, InFill
  <2> QED BY <1>2, <1>4, <2>1, <2>2
<1>5. \A g : Filled(i, g)' <=> Filled(i, g)
  BY <1>1 DEF Filled
<1>6. CASE at[i] < Len(Order)
  <2>1. at'[i] = at[i] + 1 /\ pc'[i] = "fill" /\ at'[i] \in 1 .. Len(Order)
    BY <1>1, <1>2, <1>6 DEF FillInv, BootTyped
  <2>2. ok[i] => \A k \in 1 .. Len(Order) : k < at'[i] /\ Order[k] \in setup.topics =>
                    Filled(i, Order[k])'
    BY <1>2, <1>4, <1>5, <2>1
  <2> QED BY <1>1, <1>2, <1>3, <1>6, <2>1, <2>2, RowsKept DEF FillInv, InPlace, InFill, BootTyped
<1>7. CASE ~(at[i] < Len(Order))
  <2>1. pc'[i] = "up" /\ at[i] = 9
    BY <1>1, <1>2, <1>7 DEF FillInv, BootTyped
  <2>2. ok[i] => \A g \in setup.topics \cap Fills : Filled(i, g)'
    BY <1>2, <1>4, <1>5, <2>1 DEF Fills
  <2> QED BY <1>1, <1>2, <1>3, <1>7, <2>1, <2>2, RowsKept DEF FillInv, InPlace, InFill, BootTyped
<1> QED BY <1>6, <1>7

\* A step that writes rows.
LEMMA RowsWritten ==
    ASSUME FillInv, BootTyped', UNCHANGED <<setup, pc, ok, old>>, known \subseteq known',
           \A j \in Instances : pc[j] # "schema" => at'[j] = at[j],
           \A f \in Fills, r \in known : stage'[f][r] >= stage[f][r],
           \A r \in Rows : stage'["payments"][r] <= 1,
           \A j \in Instances :
              /\ seen'[j] \subseteq seen[j]
              /\ cur'[j] # None => /\ pc[j] = "rows" /\ cur'[j] \in seen'[j]
                                   /\ Fill(FillOf(j)).writes = 2
              /\ pc[j] = "rows" => \A r \in seen[j] \ seen'[j] :
                                       stage'[FillOf(j)][r] >= Fill(FillOf(j)).done
              /\ pc[j] = "rows" /\ FillOf(j) = "payments" =>
                    \A r \in seen'[j] : stage'["payments"][r] = 0
    PROVE  FillInv'
<1>1. \A j \in Instances : InFill(j) => /\ InFill(j)' /\ FillOf(j)' = FillOf(j) /\ at'[j] = at[j]
                                        /\ FillOf(j) \in Fills /\ at[j] \in 1 .. Len(Order)
  BY OrderFacts DEF InFill, FillOf, FillInv, InPlace
<1>2. \A j \in Instances : pc[j] = "rows" => InFill(j)
  BY DEF InFill
<1>3. InPlace'
  <2> SUFFICES ASSUME NEW j \in Instances
               PROVE  /\ InFill(j)' => at'[j] \in 1 .. Len(Order)
                      /\ pc'[j] # "down" => j \in setup'.instances
                      /\ old'[j] \subseteq known' /\ seen'[j] \subseteq known'
                      /\ cur'[j] # None => /\ pc'[j] = "rows" /\ cur'[j] \in seen'[j]
                                           /\ Fill(FillOf(j)').writes = 2
    BY DEF InPlace
  <2>1. InFill(j)' <=> InFill(j)
    BY DEF InFill
  <2>2. /\ old[j] \subseteq known /\ seen[j] \subseteq known
        /\ pc[j] # "down" => j \in setup.instances
    BY DEF FillInv, InPlace
  <2> QED BY <1>1, <1>2, <2>1, <2>2
<1>4. ASSUME NEW i \in Instances
      PROVE  /\ \A f \in Fills : Filled(i, f) => Filled(i, f)'
             /\ \A f \in Fills, r \in old[i] :
                   stage[f][r] >= Fill(f).done => stage'[f][r] >= Fill(f).done
  <2>1. stage' \in [Topics -> [Rows -> Nat]] /\ old'[i] = old[i] /\ setup' = setup
    BY DEF BootTyped
  <2> QED BY <2>1, StagesGrow
<1>5. FilledSoFar'
  <2> SUFFICES ASSUME NEW i \in Instances, ok[i]
               PROVE  /\ InFill(i)' => \A k \in 1 .. Len(Order) :
                             k < at'[i] /\ Order[k] \in setup.topics => Filled(i, Order[k])'
                      /\ pc[i] = "rows" /\ FillOf(i)' \in setup.topics =>
                            \A r \in old[i] \ seen'[i] :
                                stage'[FillOf(i)'][r] >= Fill(FillOf(i)').done
                      /\ pc[i] = "up" => \A f \in setup.topics \cap Fills : Filled(i, f)'
    BY DEF FilledSoFar
  <2>1. InFill(i)' <=> InFill(i)
    BY DEF InFill
  <2>2. /\ InFill(i) => \A k \in 1 .. Len(Order) :
                            k < at[i] /\ Order[k] \in setup.topics => Filled(i, Order[k])
        /\ pc[i] = "rows" /\ FillOf(i) \in setup.topics =>
              \A r \in old[i] \ seen[i] : stage[FillOf(i)][r] >= Fill(FillOf(i)).done
        /\ pc[i] = "up" => \A f \in setup.topics \cap Fills : Filled(i, f)
    BY DEF FillInv, FilledSoFar
  <2>3. InFill(i)' => \A k \in 1 .. Len(Order) :
                          k < at'[i] /\ Order[k] \in setup.topics => Filled(i, Order[k])'
    BY <1>1, <1>4, <2>1, <2>2, OrderFacts
  <2>4. ASSUME pc[i] = "rows", FillOf(i)' \in setup.topics, NEW r \in old[i] \ seen'[i]
        PROVE  stage'[FillOf(i)'][r] >= Fill(FillOf(i)').done
    <3>1. FillOf(i)' = FillOf(i) /\ FillOf(i) \in Fills
      BY <1>1, <1>2, <2>4
    <3>2. CASE r \in seen[i]
      BY <2>4, <3>1, <3>2
    <3>3. CASE r \notin seen[i]
      BY <1>4, <2>2, <2>4, <3>1, <3>3
    <3> QED BY <3>2, <3>3
  <2> QED BY <1>4, <2>2, <2>3, <2>4
<1>6. PaidOnce'
  <2>1. "payments" \in setup'.topics => \A i, j \in setup'.instances : i = j
    BY DEF FillInv, PaidOnce
  <2>2. ASSUME NEW i \in Instances, pc'[i] = "rows", FillOf(i)' = "payments"
        PROVE  \A r \in seen'[i] : stage'["payments"][r] = 0
    BY <1>1, <1>2, <2>2
  <2> QED BY <2>1, <2>2 DEF PaidOnce
<1>7. OnlyAsked'
  BY <1>1, <1>2 DEF FillInv, OnlyAsked
<1> QED BY <1>3, <1>5, <1>6, <1>7 DEF FillInv

\* What the schema rewrites is no row of a backfill.
LEMMA CommitStepFilled ==
    ASSUME FillInv, NEW i \in Instances, CommitStep(i)
    PROVE  FillInv'
<1>1. /\ pc[i] = "schema" /\ UNCHANGED <<setup, pc, ok, seen, cur, known, old>>
      /\ at' = [at EXCEPT ![i] = After(at[i], applied')]
      /\ stage' = [t \in Topics |-> [r \in Rows |->
                      IF Rewritten(at[i], t, r) THEN 1 ELSE stage[t][r]]]
  BY DEF CommitStep
<1>2. \A f \in Fills, r \in Rows : stage'[f][r] = stage[f][r] /\ stage[f][r] \in Nat
  <2>1. \A p : Rewrites(p) \subseteq {"type", "membership", "dollars"}
    BY DEF Rewrites
  <2>2. \A p, f, r : f \in Fills => ~Rewritten(p, f, r)
    BY <2>1, OrderFacts DEF Rewritten
  <2> QED BY <1>1, <2>2, OrderFacts DEF FillInv, BootTyped
<1>3. BootTyped'
  <2>1. stage' \in [Topics -> [Rows -> Nat]]
    BY <1>1 DEF FillInv, BootTyped
  <2> QED BY <1>1, <2>1 DEF FillInv, BootTyped
<1>4. \A r \in Rows : stage'["payments"][r] = stage["payments"][r] /\ stage["payments"][r] <= 1
  BY <1>2, OrderFacts DEF FillInv, PaidOnce
<1>5. known \subseteq Rows /\ \A j \in Instances : seen[j] \subseteq Rows
  BY DEF FillInv, BootTyped
<1>6. \A j \in Instances :
         /\ cur[j] # None => pc[j] = "rows" /\ cur[j] \in seen[j] /\ Fill(FillOf(j)).writes = 2
         /\ pc[j] = "rows" /\ FillOf(j) = "payments" => \A r \in seen[j] : stage["payments"][r] = 0
         /\ pc[j] # "schema" => at'[j] = at[j]
  BY <1>1 DEF FillInv, InPlace, PaidOnce, BootTyped
<1>7. \A f \in Fills, r \in known : stage'[f][r] >= stage[f][r]
  BY <1>2, <1>5
<1> QED BY <1>1, <1>3, <1>4, <1>5, <1>6, <1>7, RowsWritten

\* The write that ends a row fills it.
LEMMA WriteRowFilled ==
    ASSUME FillInv, NEW i \in Instances, WriteRow(i)
    PROVE  FillInv'
<1> DEFINE f == FillOf(i)  w == IF cur[i] = None THEN 1 ELSE 2
<1>1. PICK r \in (IF cur[i] = None THEN seen[i] ELSE {cur[i]}) :
          /\ stage' = [stage EXCEPT ![f][r] = Written(f, @, w)]
          /\ IF w = Fill(f).writes
             THEN /\ cur' = [cur EXCEPT ![i] = None]
                  /\ seen' = [seen EXCEPT ![i] = @ \ {r}]
             ELSE cur' = [cur EXCEPT ![i] = r] /\ UNCHANGED seen
  BY DEF WriteRow, FillOf
<1>2. pc[i] = "rows" /\ UNCHANGED <<setup, pc, at, ok, known, old>>
  BY DEF WriteRow
<1>3. f \in Fills /\ f \in Topics /\ i \in setup.instances
  BY <1>2, OrderFacts DEF FillInv, InPlace, InFill, FillOf
<1>4. /\ Fill(f).done \in 1 .. 2 /\ Fill(f).writes \in 1 .. 2 /\ Fill(f).done <= Fill(f).writes
      /\ f = "payments" => Fill(f).writes = 1 /\ Fill(f).done = 1
  BY <1>3, FillFacts
<1>5. /\ w \in {1, 2} /\ (w = 2 => cur[i] # None /\ Fill(f).writes = 2) /\ r \in seen[i]
      /\ w <= Fill(f).writes
  <2>1. cur[i] # None => cur[i] \in seen[i] /\ Fill(f).writes = 2
    BY DEF FillInv, InPlace
  <2> QED BY <1>4, <2>1
<1>6. /\ stage \in [Topics -> [Rows -> Nat]] /\ r \in Rows /\ known \subseteq Rows
      /\ seen \in [Instances -> SUBSET Rows] /\ cur = [j \in Instances |-> cur[j]]
  BY <1>5 DEF FillInv, BootTyped
<1> HIDE DEF f, w
<1>7. /\ Written(f, stage[f][r], w) \in Nat /\ Written(f, stage[f][r], w) >= stage[f][r]
      /\ Written(f, stage[f][r], w) >= w
      /\ f = "payments" => Written(f, stage[f][r], w) = stage[f][r] + 1
  <2>1. stage[f][r] \in Nat
    BY <1>3, <1>6
  <2>2. f = "payments" => w = 1
    BY <1>4, <1>5
  <2> QED BY <1>5, <2>1, <2>2 DEF Written, Bigger
<1>8. /\ stage' \in [Topics -> [Rows -> Nat]] /\ stage'[f][r] = Written(f, stage[f][r], w)
      /\ \A g \in Topics, q \in Rows : ~(g = f /\ q = r) => stage'[g][q] = stage[g][q]
  BY <1>1, <1>3, <1>6, <1>7
<1>9. /\ seen'[i] \subseteq seen[i] /\ seen' \in [Instances -> SUBSET Rows]
      /\ \A j \in Instances \ {i} : seen'[j] = seen[j] /\ cur'[j] = cur[j]
      /\ cur' = [j \in Instances |-> cur'[j]]
      /\ cur'[i] # None => cur'[i] \in seen'[i] /\ Fill(f).writes = 2
      /\ w = Fill(f).writes => cur'[i] = None /\ seen'[i] = seen[i] \ {r}
      /\ w # Fill(f).writes => seen'[i] = seen[i]
  <2>1. CASE w = Fill(f).writes
    BY <1>1, <1>6, <2>1
  <2>2. CASE w # Fill(f).writes
    BY <1>1, <1>4, <1>5, <1>6, <2>2
  <2> QED BY <2>1, <2>2
<1>10. BootTyped'
  BY <1>2, <1>8, <1>9 DEF FillInv, BootTyped
<1>11. \A g \in Fills, q \in known : stage'[g][q] >= stage[g][q]
  <2> SUFFICES ASSUME NEW g \in Fills, NEW q \in known PROVE stage'[g][q] >= stage[g][q]
    OBVIOUS
  <2>1. g \in Topics /\ q \in Rows /\ stage[g][q] \in Nat
    BY <1>6, OrderFacts
  <2>2. CASE g = f /\ q = r
    BY <1>7, <1>8, <2>2
  <2>3. CASE ~(g = f /\ q = r)
    BY <1>8, <2>1, <2>3
  <2> QED BY <2>2, <2>3
<1>12. "payments" \in Topics /\ \A q \in Rows : stage["payments"][q] \in Nat
  BY <1>6, OrderFacts
<1>13. f = "payments" => /\ \A q \in seen[i] : stage["payments"][q] = 0
                         /\ w = Fill(f).writes
  BY <1>2, <1>4, <1>5 DEF FillInv, PaidOnce, f
<1>14. \A q \in Rows : stage'["payments"][q] <= 1
  <2> SUFFICES ASSUME NEW q \in Rows PROVE stage'["payments"][q] <= 1
    OBVIOUS
  <2>1. CASE f = "payments" /\ q = r
    BY <1>5, <1>7, <1>8, <1>13, <2>1
  <2>2. CASE ~(f = "payments" /\ q = r)
    BY <1>8, <1>12, <2>2 DEF FillInv, PaidOnce
  <2> QED BY <2>1, <2>2
<1>15. ASSUME NEW j \in Instances, pc[j] = "rows", FillOf(j) = "payments", NEW q \in seen'[j]
       PROVE  stage'["payments"][q] = 0
  <2>1. stage["payments"][q] = 0 /\ q \in seen[j] /\ q \in Rows
    BY <1>6, <1>9, <1>15 DEF FillInv, PaidOnce
  <2>2. CASE j = i
    BY <1>8, <1>9, <1>12, <1>13, <1>15, <2>1, <2>2 DEF f
  <2>3. CASE j # i
    <3>1. j \in setup.instances /\ (f = "payments" => "payments" \notin setup.topics)
      BY <1>3, <1>15, <2>3 DEF FillInv, InPlace, PaidOnce
    <3>2. f # "payments"
      BY <1>2, <1>5, <3>1 DEF FillInv, OnlyAsked, f
    <3> QED BY <1>8, <1>12, <2>1, <3>2
  <2> QED BY <2>2, <2>3
<1>16. ASSUME NEW j \in Instances
       PROVE  /\ seen'[j] \subseteq seen[j]
              /\ cur'[j] # None => /\ pc[j] = "rows" /\ cur'[j] \in seen'[j]
                                   /\ Fill(FillOf(j)).writes = 2
              /\ pc[j] = "rows" => \A q \in seen[j] \ seen'[j] :
                                       stage'[FillOf(j)][q] >= Fill(FillOf(j)).done
  <2>1. CASE j # i
    BY <1>9, <2>1 DEF FillInv, InPlace
  <2>2. CASE j = i
    <3>1. seen[i] \ seen'[i] # {} => seen[i] \ seen'[i] = {r} /\ w = Fill(f).writes
      BY <1>9
    <3>2. w = Fill(f).writes => stage'[f][r] >= Fill(f).done
      BY <1>4, <1>5, <1>7, <1>8
    <3> QED BY <1>2, <1>9, <2>2, <3>1, <3>2 DEF f
  <2> QED BY <2>1, <2>2
<1> QED BY <1>2, <1>10, <1>11, <1>14, <1>15, <1>16, RowsWritten

\* A row is registered with what it has at birth, and no boot has found it.
LEMMA RegisterFilled ==
    ASSUME FillInv, NEW r \in Rows, Register(r)
    PROVE  FillInv'
<1>1. /\ r \notin known /\ known' = known \cup {r}
      /\ stage' = [t \in Topics |-> [stage[t] EXCEPT ![r] = AtBirth(t)]]
      /\ UNCHANGED <<setup, pc, at, ok, seen, cur, old>>
  BY DEF Register
<1>2. \A t \in Topics : AtBirth(t) \in Nat
  BY FillFacts DEF AtBirth
<1>3. AtBirth("payments") = 1
  <2>1. Fill("payments").done = 1 /\ "payments" \in Fills
    BY FillFacts, OrderFacts
  <2> QED BY <2>1 DEF AtBirth
<1>4. /\ stage \in [Topics -> [Rows -> Nat]] /\ "payments" \in Topics /\ Fills \subseteq Topics
      /\ known \subseteq Rows /\ seen \in [Instances -> SUBSET Rows]
      /\ \A i \in Instances : seen[i] \subseteq known
  BY OrderFacts DEF FillInv, BootTyped, InPlace
<1>5. /\ stage' \in [Topics -> [Rows -> Nat]] /\ stage'["payments"][r] = 1
      /\ \A t \in Topics, q \in Rows : q # r => stage'[t][q] = stage[t][q]
  BY <1>1, <1>2, <1>3, <1>4
<1>6. BootTyped'
  BY <1>1, <1>5 DEF FillInv, BootTyped
<1>7. \A f \in Fills, q \in known : stage'[f][q] >= stage[f][q]
  <2> SUFFICES ASSUME NEW f \in Fills, NEW q \in known PROVE stage'[f][q] >= stage[f][q]
    OBVIOUS
  <2>1. q # r /\ f \in Topics /\ q \in Rows /\ stage[f][q] \in Nat
    BY <1>1, <1>4
  <2> QED BY <1>5, <2>1
<1>8. \A q \in Rows : stage'["payments"][q] <= 1
  BY <1>4, <1>5 DEF FillInv, PaidOnce
<1>9. \A j \in Instances : pc[j] = "rows" /\ FillOf(j) = "payments" =>
          \A q \in seen'[j] : stage'["payments"][q] = 0
  <2> SUFFICES ASSUME NEW j \in Instances, pc[j] = "rows", FillOf(j) = "payments",
                      NEW q \in seen[j]
               PROVE  stage'["payments"][q] = 0
    BY <1>1
  <2>1. q \in Rows /\ q # r
    BY <1>1, <1>4
  <2> QED BY <1>4, <1>5, <2>1 DEF FillInv, PaidOnce
<1>10. \A j \in Instances :
          cur[j] # None => pc[j] = "rows" /\ cur[j] \in seen[j] /\ Fill(FillOf(j)).writes = 2
  BY DEF FillInv, InPlace
<1> QED BY <1>1, <1>6, <1>7, <1>8, <1>9, <1>10, RowsWritten

\* A value set by hand takes no write back, and gives no payment.
LEMMA SetByHandFilled ==
    ASSUME FillInv, NEW t \in Topics, NEW r \in Rows, SetByHand(t, r)
    PROVE  FillInv'
<1>1. /\ t # "payments" /\ UNCHANGED <<setup, pc, at, ok, seen, cur, known, old>>
      /\ stage' = [stage EXCEPT ![t][r] = Bigger(@, ByHand(t))]
  BY DEF SetByHand, Settable
<1>2. ByHand(t) \in Nat
  BY FillFacts DEF ByHand
<1>3. /\ stage \in [Topics -> [Rows -> Nat]] /\ "payments" \in Topics /\ Fills \subseteq Topics
      /\ known \subseteq Rows /\ seen \in [Instances -> SUBSET Rows]
  BY OrderFacts DEF FillInv, BootTyped
<1>4. /\ Bigger(stage[t][r], ByHand(t)) \in Nat
      /\ Bigger(stage[t][r], ByHand(t)) >= stage[t][r]
  <2>1. stage[t][r] \in Nat
    BY <1>3
  <2> QED BY <1>2, <2>1 DEF Bigger
<1>5. /\ stage' \in [Topics -> [Rows -> Nat]]
      /\ stage'[t][r] = Bigger(stage[t][r], ByHand(t))
      /\ \A g \in Topics, q \in Rows : ~(g = t /\ q = r) => stage'[g][q] = stage[g][q]
  BY <1>1, <1>3, <1>4
<1>6. BootTyped'
  BY <1>1, <1>5 DEF FillInv, BootTyped
<1>7. \A f \in Fills, q \in known : stage'[f][q] >= stage[f][q]
  <2> SUFFICES ASSUME NEW f \in Fills, NEW q \in known PROVE stage'[f][q] >= stage[f][q]
    OBVIOUS
  <2>1. f \in Topics /\ q \in Rows /\ stage[f][q] \in Nat
    BY <1>3
  <2> QED BY <1>4, <1>5, <2>1
<1>8. \A q \in Rows : stage'["payments"][q] = stage["payments"][q]
  BY <1>1, <1>3, <1>5
<1>9. \A q \in Rows : stage'["payments"][q] <= 1
  BY <1>8 DEF FillInv, PaidOnce
<1>10. \A j \in Instances : seen[j] \subseteq Rows
  BY <1>3
<1>11. \A j \in Instances :
          /\ cur[j] # None => pc[j] = "rows" /\ cur[j] \in seen[j] /\ Fill(FillOf(j)).writes = 2
          /\ pc[j] = "rows" /\ FillOf(j) = "payments" =>
                \A q \in seen[j] : stage'["payments"][q] = 0
  BY <1>8, <1>10 DEF FillInv, InPlace, PaidOnce
<1> QED BY <1>1, <1>6, <1>7, <1>9, <1>11, RowsWritten

\* Every step keeps the rows filled.
LEMMA FillStep ==
    ASSUME FillInv, [BootNext]_bootVars
    PROVE  FillInv'
<1>1. CASE UNCHANGED bootVars
  BY <1>1 DEF bootVars, FillInv, BootTyped, InPlace, InFill, FilledSoFar, Filled, FillOf, PaidOnce,
              OnlyAsked
<1>2. CASE \E i \in Instances :
              \/ Boot(i) \/ CommitStep(i) \/ RefusedStep(i) \/ StartFills(i)
              \/ ReadFill(i) \/ WriteRow(i) \/ LoseRow(i) \/ EndFill(i) \/ Stop(i)
  BY <1>2, SchemaStepsFilled, CommitStepFilled, ReadFillFilled, WriteRowFilled, LoseRowFilled,
     EndFillFilled
<1>3. CASE \E r \in Rows : Register(r) \/ \E t \in Topics : SetByHand(t, r)
  BY <1>3, RegisterFilled, SetByHandFilled
<1> QED BY <1>1, <1>2, <1>3 DEF BootNext

\* An instance serves with every row filled that it found, however boots were cut and
\* whatever other instances and users write; and where one instance at a time gives
\* payments, no sale gets two.
THEOREM RowsFilled ==
    ASSUME \A sc \in Setups : "payments" \in sc.topics => \A i, j \in sc.instances : i = j
    PROVE  BootSpec => []BackfillComplete
<1>1. BootInit => FillInv
  BY FillInit
<1>2. FillInv /\ [BootNext]_bootVars => FillInv'
  BY FillStep
<1>3. FillInv => BackfillComplete
  BY DEF FillInv, FilledSoFar, PaidOnce, Filled, BackfillComplete
<1> QED BY <1>1, <1>2, <1>3, PTL DEF BootSpec
=============================================================================
