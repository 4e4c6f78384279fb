--------------------------- MODULE AdapterProofs ---------------------------
(***************************************************************************)
(* Proofs about the adapters behind the desks.                             *)
(*                                                                         *)
(* PaperBroker, for any request ids, prices, sizes, money and bounds:      *)
(* every method of the adapter is shown to keep the books, from those of   *)
(* one step of a walk over orders or positions to those of the walk and of *)
(* the call.                                                               *)
(*                                                                         *)
(* AccountSessions, for any accounts, desks, sub-accounts and bounds:      *)
(* every await of every operation is shown to keep each adapter that of    *)
(* one account, and a connect that is alone in step with its row.          *)
(***************************************************************************)
EXTENDS PaperBroker, AccountSessions, SumTheorems, SequenceTheorems, WellFoundedInduction

-----------------------------------------------------------------------------
(***************************************************************************)
(* PaperBroker                                                             *)
(***************************************************************************)
\* What the Maps of the adapter hold.
Order ==
  [req : RequestIds, type : {"MARKET", "LIMIT", "STOP", "STOP_LIMIT"}, dir : Directions,
   vol : Int, price : Int, sl : Int, tp : Int,
   status : {"PENDING", "FILLED", "REJECTED", "CANCELLED"}]

Position ==
  [dir : Directions, vol : Int, entry : Int, mark : Int, sl : Int, tp : Int, realized : Int,
   commission : Int, status : {"OPEN", "PARTIALLY_CLOSED", "CLOSED"}]

Trade == [dir : Directions, vol : Int]

Books == [balance : Int, orders : Seq(Order), positions : Seq(Position), trades : Seq(Trade)]

\* What a call may ask for.
Asked == [req : RequestIds, type : {"MARKET", "LIMIT", "STOP", "STOP_LIMIT"}, dir : Directions,
          vol : Int, sl : Int, tp : Int, trail : Int]

\* The constants are numbers.
LEMMA Numbers ==
  /\ Spread \in Int /\ Slippage \in Int /\ CommissionPerLot \in Int /\ StartingBalance \in Int
  /\ MinStop \in Int /\ ContractSize \in Int /\ Leverage \in Int
  /\ MinVolume \in Int /\ MaxVolume \in Int /\ MaxRestarts \in Int
  /\ Bids \subseteq Int /\ Stops \subseteq Int /\ Targets \subseteq Int /\ Triggers \subseteq Int
  /\ Trails \subseteq Int /\ Volumes \subseteq Int /\ DefaultBid \in Bids
  /\ Types \subseteq {"MARKET", "LIMIT", "STOP", "STOP_LIMIT"}
<1>1. \A x \in {Spread, Slippage, CommissionPerLot, StartingBalance} : x \in Int
  BY PaperAssumption
<1>2. \A x \in {MinStop, ContractSize, Leverage, MinVolume, MaxVolume} : x \in Int
  BY PaperAssumption
<1>3. \A x \in Bids \cup Stops \cup Targets \cup Triggers \cup Trails \cup Volumes : x \in Int
  BY PaperAssumption
<1> QED
  BY <1>1, <1>2, <1>3, PaperAssumption

\* A direction counts as 1 or as -1, and the other one as its opposite.
LEMMA SignOf ==
  ASSUME NEW d \in Directions
  PROVE  /\ Sign(d) \in {1, -1} /\ Opposite(d) \in Directions /\ Sign(Opposite(d)) = -Sign(d)
BY DEF Directions, Sign, Opposite

\* Prices and amounts are numbers.
LEMMA Amounts ==
  ASSUME NEW d \in Directions, NEW b \in Int, NEW x \in Int, NEW y \in Int, NEW v \in Int
  PROVE  /\ FillPrice(d, b) \in Int /\ MarkPrice(d, b) \in Int
         /\ CommissionOn(v) \in Int /\ Pnl(d, x, y, v) \in Int
<1>1. FillPrice(d, b) \in Int /\ MarkPrice(d, b) \in Int
  BY Numbers DEF FillPrice, MarkPrice
<1>2. \A m, n \in Int : m * n \in Int
  OBVIOUS
<1>3. CommissionOn(v) \in Int
  BY <1>2, Numbers, Zenon DEF CommissionOn
<1>4. y - x \in Int /\ Sign(d) \in Int
  BY SignOf
<1>5. Pnl(d, x, y, v) \in Int
  BY <1>2, <1>4, Numbers, Zenon DEF Pnl
<1> QED
  BY <1>1, <1>3, <1>5

\* The sum of a longer sequence of numbers.
LEMMA SumLonger ==
  ASSUME NEW n \in Nat, NEW f \in [1..n -> Int], NEW g \in [1..(n + 1) -> Int],
         \A i \in 1..n : g[i] = f[i]
  PROVE  SumFunction(g) = SumFunction(f) + g[n + 1]
<1> DEFINE S == 1..(n + 1)
<1>1. IsFiniteSet(S) /\ IsFiniteSet(1..n)
  BY FS_Interval
<1>2. S \ {n + 1} = 1..n /\ n + 1 \in S
  OBVIOUS
<1>3. SumFunctionOnSet(g, S) = g[n + 1] + SumFunctionOnSet(g, S \ {n + 1})
  BY <1>1, <1>2, SumTakeOut
<1>4. SumFunctionOnSet(g, 1..n) = SumFunctionOnSet(f, 1..n)
  BY <1>1, SumSame
<1>5. SumFunctionOnSet(f, 1..n) \in Int /\ g[n + 1] \in Int
  BY <1>1, SumType
<1>6. SumFunction(f) = SumFunctionOnSet(f, 1..n) /\ SumFunction(g) = SumFunctionOnSet(g, S)
  <2>1. DOMAIN f = 1..n /\ DOMAIN g = S
    OBVIOUS
  <2> QED
    BY <2>1 DEF SumFunction
<1>7. SumFunctionOnSet(g, S \ {n + 1}) = SumFunctionOnSet(f, 1..n)
  BY <1>2, <1>4, Zenon
<1> HIDE DEF S
<1> QED
  BY <1>3, <1>5, <1>6, <1>7

-----------------------------------------------------------------------------
(***************************************************************************)
(* What the books come to.                                                 *)
(***************************************************************************)
\* What one more entry adds to the net volume.
LEMMA NetLonger ==
  ASSUME NEW S, \A x \in S : x.dir \in Directions /\ x.vol \in Int,
         NEW s \in Seq(S), NEW e \in S
  PROVE  Net(Append(s, e)) = Net(s) + Sign(e.dir) * e.vol /\ Net(s) \in Int
<1> DEFINE t == Append(s, e)
           n == Len(s)
           f == [i \in DOMAIN s |-> Sign(s[i].dir) * s[i].vol]
           g == [i \in DOMAIN t |-> Sign(t[i].dir) * t[i].vol]
<1>1. /\ n \in Nat /\ DOMAIN s = 1..n /\ DOMAIN t = 1..(n + 1) /\ t[n + 1] = e
      /\ \A i \in 1..n : t[i] = s[i] /\ s[i] \in S
  OBVIOUS
<1>2. \A x \in S : Sign(x.dir) * x.vol \in Int
  <2>1. \A k \in {1, -1}, v \in Int : k * v \in Int
    OBVIOUS
  <2> QED
    BY <2>1, SignOf
<1>3. f \in [1..n -> Int] /\ g \in [1..(n + 1) -> Int]
  <2>1. \A i \in 1..(n + 1) : i = n + 1 \/ i \in 1..n
    BY <1>1
  <2>2. \A i \in 1..(n + 1) : t[i] \in S
    BY <1>1, <2>1
  <2> QED
    BY <1>1, <1>2, <2>2
<1>4. \A i \in 1..n : g[i] = f[i]
  BY <1>1
<1>5. SumFunction(g) = SumFunction(f) + g[n + 1]
  <2> HIDE DEF f, g
  <2> QED
    BY <1>1, <1>3, <1>4, SumLonger
<1>6. SumFunction(f) \in Int
  <2>1. IsFiniteSet(1..n)
    BY <1>1, FS_Interval
  <2> HIDE DEF f, n
  <2> QED
    BY <1>3, <2>1, SumInt, Zenon
<1>7. g[n + 1] = Sign(e.dir) * e.vol
  BY <1>1
<1> QED
  BY <1>5, <1>6, <1>7 DEF Net

\* What one other entry changes of the net volume.
LEMMA NetChanged ==
  ASSUME NEW S, \A x \in S : x.dir \in Directions /\ x.vol \in Int,
         NEW s \in Seq(S), NEW t \in Seq(S), Len(t) = Len(s), NEW i \in DOMAIN s,
         \A j \in DOMAIN s \ {i} : t[j] = s[j]
  PROVE  Net(t) = Net(s) - Sign(s[i].dir) * s[i].vol + Sign(t[i].dir) * t[i].vol
<1> DEFINE n == Len(s)
           f == [j \in DOMAIN s |-> Sign(s[j].dir) * s[j].vol]
           g == [j \in DOMAIN t |-> Sign(t[j].dir) * t[j].vol]
<1>1. /\ n \in Nat /\ DOMAIN s = 1..n /\ DOMAIN t = 1..n
      /\ \A j \in 1..n : t[j] \in S /\ s[j] \in S
  OBVIOUS
<1>2. \A x \in S : Sign(x.dir) * x.vol \in Int
  <2>1. \A k \in {1, -1}, v \in Int : k * v \in Int
    OBVIOUS
  <2> QED
    BY <2>1, SignOf
<1>3. f \in [1..n -> Int] /\ g \in [1..n -> Int] /\ \A j \in (1..n) \ {i} : g[j] = f[j]
  BY <1>1, <1>2
<1>4. SumFunction(g) = SumFunction(f) - f[i] + g[i]
  <2> PICK D : D = 1..n
    OBVIOUS
  <2>1. IsFiniteSet(D) /\ i \in D
    <3>1. IsFiniteSet(1..n) /\ i \in 1..n
      BY <1>1, FS_Interval
    <3> QED
      BY <3>1
  <2>2. f \in [D -> Int] /\ g \in [D -> Int] /\ \A j \in D \ {i} : g[j] = f[j]
    BY <1>3
  <2> HIDE DEF f, g, n
  <2> QED
    BY ONLY <2>1, <2>2, SumChange
<1> QED
  BY <1>1, <1>4 DEF Net

\* What one more position adds to the earnings.
LEMMA EarnedLonger ==
  ASSUME NEW s \in Seq(Position), NEW e \in Position
  PROVE  Earned(Append(s, e)) = Earned(s) + e.realized - e.commission /\ Earned(s) \in Int
<1> DEFINE t == Append(s, e)
           n == Len(s)
           f == [i \in DOMAIN s |-> s[i].realized - s[i].commission]
           g == [i \in DOMAIN t |-> t[i].realized - t[i].commission]
<1>1. /\ n \in Nat /\ DOMAIN s = 1..n /\ DOMAIN t = 1..(n + 1) /\ t[n + 1] = e
      /\ \A i \in 1..n : t[i] = s[i] /\ s[i] \in Position
  OBVIOUS
<1>2. \A x \in Position : x.realized \in Int /\ x.commission \in Int /\ x.realized - x.commission \in Int
  BY DEF Position
<1>3. f \in [1..n -> Int] /\ g \in [1..(n + 1) -> Int]
  <2>1. \A i \in 1..(n + 1) : i = n + 1 \/ i \in 1..n
    BY <1>1
  <2>2. \A i \in 1..(n + 1) : t[i] \in Position
    BY <1>1, <2>1
  <2> QED
    BY <1>1, <1>2, <2>2
<1>4. \A i \in 1..n : g[i] = f[i]
  BY <1>1
<1>5. SumFunction(g) = SumFunction(f) + g[n + 1]
  <2> HIDE DEF f, g
  <2> QED
    BY <1>1, <1>3, <1>4, SumLonger
<1>6. SumFunction(f) \in Int
  <2>1. IsFiniteSet(1..n)
    BY <1>1, FS_Interval
  <2> HIDE DEF f, n
  <2> QED
    BY <1>3, <2>1, SumInt, Zenon
<1>7. g[n + 1] = e.realized - e.commission
  BY <1>1
<1> QED
  BY <1>2, <1>5, <1>6, <1>7 DEF Earned

\* What one other position changes of the earnings.
LEMMA EarnedChanged ==
  ASSUME NEW s \in Seq(Position), NEW t \in Seq(Position), Len(t) = Len(s), NEW i \in DOMAIN s,
         \A j \in DOMAIN s \ {i} : t[j] = s[j]
  PROVE  Earned(t) = Earned(s) - (s[i].realized - s[i].commission) + (t[i].realized - t[i].commission)
<1> DEFINE n == Len(s)
           f == [j \in DOMAIN s |-> s[j].realized - s[j].commission]
           g == [j \in DOMAIN t |-> t[j].realized - t[j].commission]
<1>1. /\ n \in Nat /\ DOMAIN s = 1..n /\ DOMAIN t = 1..n
      /\ \A j \in 1..n : t[j] \in Position /\ s[j] \in Position
  OBVIOUS
<1>2. \A x \in Position : x.realized - x.commission \in Int
  BY DEF Position
<1>3. f \in [1..n -> Int] /\ g \in [1..n -> Int] /\ \A j \in (1..n) \ {i} : g[j] = f[j]
  BY <1>1, <1>2
<1>4. SumFunction(g) = SumFunction(f) - f[i] + g[i]
  <2> PICK D : D = 1..n
    OBVIOUS
  <2>1. IsFiniteSet(D) /\ i \in D
    <3>1. IsFiniteSet(1..n) /\ i \in 1..n
      BY <1>1, FS_Interval
    <3> QED
      BY <3>1
  <2>2. f \in [D -> Int] /\ g \in [D -> Int] /\ \A j \in D \ {i} : g[j] = f[j]
    BY <1>3
  <2> HIDE DEF f, g, n
  <2> QED
    BY ONLY <2>1, <2>2, SumChange
<1> QED
  BY <1>1, <1>4 DEF Earned

-----------------------------------------------------------------------------
(***************************************************************************)
(* What one call does to the books.                                        *)
(***************************************************************************)
Even(book) == Net(book.trades) = Net(book.positions)

\* The books stay books, and stay in order when they were.
Keeps(old, new) ==
  /\ new \in Books
  /\ Reconciles(old) => Reconciles(new)
  /\ Even(old) => Even(new)

\* q is p but for its mark.
SameButMark(p, q) ==
  /\ q.dir = p.dir /\ q.vol = p.vol /\ q.entry = p.entry /\ q.sl = p.sl /\ q.tp = p.tp
  /\ q.realized = p.realized /\ q.commission = p.commission /\ q.status = p.status

\* Marking the positions changes their marks alone.
LEMMA Marked ==
  ASSUME NEW ps \in Seq(Position), NEW b \in Int
  PROVE  /\ MarkAll(ps, b) \in Seq(Position) /\ DOMAIN MarkAll(ps, b) = DOMAIN ps
         /\ \A i \in DOMAIN ps : SameButMark(ps[i], MarkAll(ps, b)[i])
         /\ Net(MarkAll(ps, b)) = Net(ps) /\ Earned(MarkAll(ps, b)) = Earned(ps)
<1> DEFINE m == MarkAll(ps, b)
           n == Len(ps)
<1>1. n \in Nat /\ DOMAIN ps = 1..n /\ \A i \in 1..n : ps[i] \in Position
  OBVIOUS
<1>2. DOMAIN m = DOMAIN ps
  BY DEF MarkAll
<1>3. ASSUME NEW i \in 1..n PROVE m[i] \in Position /\ SameButMark(ps[i], m[i])
  <2>1. MarkPrice(ps[i].dir, b) \in Int
    BY <1>1, Amounts DEF Position
  <2>2. m[i] = IF IsOpen(ps[i]) THEN [ps[i] EXCEPT !.mark = MarkPrice(ps[i].dir, b)] ELSE ps[i]
    BY <1>1 DEF MarkAll
  <2> HIDE DEF m
  <2> QED
    BY <1>1, <2>1, <2>2 DEF Position, SameButMark
<1>4. m \in Seq(Position)
  <2>1. m \in [1..n -> Position]
    <3>1. m = [i \in 1..n |-> m[i]]
      BY <1>1 DEF MarkAll
    <3> HIDE DEF m
    <3> QED
      BY <1>3, <3>1
  <2> HIDE DEF m, n
  <2> QED
    BY <1>1, <2>1
<1> HIDE DEF m
<1>5. Net(m) = Net(ps)
  <2>1. [i \in DOMAIN m |-> Sign(m[i].dir) * m[i].vol] = [i \in DOMAIN ps |-> Sign(ps[i].dir) * ps[i].vol]
    BY <1>1, <1>2, <1>3 DEF SameButMark
  <2> QED
    BY <2>1 DEF Net
<1>6. Earned(m) = Earned(ps)
  <2>1. [i \in DOMAIN m |-> m[i].realized - m[i].commission]
          = [i \in DOMAIN ps |-> ps[i].realized - ps[i].commission]
    BY <1>1, <1>2, <1>3 DEF SameButMark
  <2> QED
    BY <2>1 DEF Earned
<1> QED
  BY <1>1, <1>2, <1>3, <1>4, <1>5, <1>6 DEF m

\* A market order that is short of margin changes marks alone; another is booked
\* with its position, its trade and its commission.
LEMMA Filled ==
  ASSUME NEW book \in Books, NEW q \in Asked, NEW b \in Int
  PROVE  LET new == FillMarketOrder(book, q, b)
         IN  /\ Keeps(book, new)
             /\ MarginShort(book, q, b) => new.orders = book.orders
             /\ ~MarginShort(book, q, b) =>
                  \E o \in Order : /\ new.orders = Append(book.orders, o)
                                   /\ o.req = q.req /\ o.type = q.type /\ o.status = "FILLED"
<1> DEFINE px == FillPrice(q.dir, b)
           fee == CommissionOn(q.vol)
           stop == StopOf(q, px)
           marked == MarkAll(book.positions, b)
           order == [req |-> q.req, type |-> q.type, dir |-> q.dir, vol |-> q.vol,
                     price |-> Absent, sl |-> Absent, tp |-> Absent, status |-> "FILLED"]
           pos == [dir |-> q.dir, vol |-> q.vol, entry |-> px, mark |-> px, sl |-> stop, tp |-> q.tp,
                   realized |-> 0, commission |-> fee, status |-> "OPEN"]
           trade == [dir |-> q.dir, vol |-> q.vol]
<1>1. /\ book.balance \in Int /\ book.orders \in Seq(Order) /\ book.positions \in Seq(Position)
      /\ book.trades \in Seq(Trade)
  BY DEF Books
<1>2. /\ q.req \in RequestIds /\ q.dir \in Directions /\ q.vol \in Int /\ q.sl \in Int /\ q.tp \in Int
      /\ q.trail \in Int /\ q.type \in {"MARKET", "LIMIT", "STOP", "STOP_LIMIT"}
  BY DEF Asked
<1>3. px \in Int /\ fee \in Int
  BY <1>2, Amounts
<1>4. stop \in Int
  BY <1>2, <1>3, SignOf DEF StopOf, Absent
<1>5. /\ marked \in Seq(Position) /\ Net(marked) = Net(book.positions)
      /\ Earned(marked) = Earned(book.positions)
  BY <1>1, Marked
<1> HIDE DEF px, fee, stop, marked
<1>6. order \in Order /\ pos \in Position /\ trade \in Trade
  BY <1>2, <1>3, <1>4 DEF Order, Position, Trade, Absent
<1>7. CASE MarginShort(book, q, b)
  <2>1. FillMarketOrder(book, q, b) = [book EXCEPT !.positions = marked]
    BY <1>7 DEF FillMarketOrder, marked
  <2> QED
    BY <1>1, <1>5, <1>7, <2>1 DEF Keeps, Books, Reconciles, Even
<1>8. CASE ~MarginShort(book, q, b)
  <2> DEFINE new == FillMarketOrder(book, q, b)
  <2>1. new = [balance |-> book.balance - fee, orders |-> Append(book.orders, order),
               positions |-> Append(marked, pos), trades |-> Append(book.trades, trade)]
    BY <1>8 DEF FillMarketOrder, marked, px, fee, stop
  <2> HIDE DEF new
  <2>2. /\ pos.dir = q.dir /\ pos.vol = q.vol /\ pos.realized = 0 /\ pos.commission = fee
        /\ trade.dir = q.dir /\ trade.vol = q.vol
        /\ order.req = q.req /\ order.type = q.type /\ order.status = "FILLED"
    OBVIOUS
  <2> HIDE DEF order, pos, trade
  <2>3. new \in Books
    BY <1>1, <1>3, <1>5, <1>6, <2>1 DEF Books
  <2>4. Earned(Append(marked, pos)) = Earned(marked) + pos.realized - pos.commission
        /\ Earned(marked) \in Int
    BY <1>5, <1>6, EarnedLonger
  <2>5. Net(Append(marked, pos)) = Net(marked) + Sign(q.dir) * q.vol /\ Net(marked) \in Int
    <3>1. \A x \in Position : x.dir \in Directions /\ x.vol \in Int
      BY DEF Position
    <3> QED
      BY <1>5, <1>6, <2>2, <3>1, NetLonger
  <2>6. Net(Append(book.trades, trade)) = Net(book.trades) + Sign(q.dir) * q.vol
    <3>1. \A x \in Trade : x.dir \in Directions /\ x.vol \in Int
      BY DEF Trade
    <3> QED
      BY <1>1, <1>6, <2>2, <3>1, NetLonger
  <2>7. Reconciles(book) => Reconciles(new)
    <3>1. new.balance = book.balance - fee /\ new.positions = Append(marked, pos)
      BY <2>1
    <3>2. StartingBalance * Leverage \in Int
      BY Numbers
    <3> QED
      BY <1>1, <1>3, <1>5, <2>2, <2>4, <3>1, <3>2 DEF Reconciles
  <2>8. Even(book) => Even(new)
    <3>1. new.trades = Append(book.trades, trade) /\ new.positions = Append(marked, pos)
      BY <2>1
    <3> QED
      BY <1>5, <2>5, <2>6, <3>1 DEF Even
  <2>9. new.orders = Append(book.orders, order)
    BY <2>1
  <2> QED
    BY <1>6, <1>8, <2>2, <2>3, <2>7, <2>8, <2>9 DEF Keeps, new
<1> QED
  BY <1>7, <1>8

\* A close books what the position earned and the opposite trade.
LEMMA Closed ==
  ASSUME NEW book \in Books, NEW i \in DOMAIN book.positions, NEW vol \in Int, NEW b \in Int
  PROVE  LET new == ExecuteClose(book, i, vol, b)
         IN  /\ Keeps(book, new) /\ new.orders = book.orders
             /\ DOMAIN new.positions = DOMAIN book.positions
             /\ \A j \in DOMAIN book.positions \ {i} : new.positions[j] = book.positions[j]
             /\ vol = book.positions[i].vol => ~IsOpen(new.positions[i])
<1> DEFINE p == book.positions[i]
           gain == Pnl(p.dir, p.entry, MarkPrice(p.dir, b), vol)
           fee == CommissionOn(vol)
           left == p.vol - vol
           end == IF left <= 0 THEN "CLOSED" ELSE "PARTIALLY_CLOSED"
           r == [p EXCEPT !.vol = left, !.realized = @ + gain, !.commission = @ + fee, !.status = end]
           ps == [book.positions EXCEPT ![i] = r]
           trade == [dir |-> Opposite(p.dir), vol |-> vol]
           new == ExecuteClose(book, i, vol, b)
<1>1. /\ book.balance \in Int /\ book.orders \in Seq(Order) /\ book.positions \in Seq(Position)
      /\ book.trades \in Seq(Trade)
  BY DEF Books
<1>2. p \in Position
  BY <1>1
<1>3. /\ p.dir \in Directions /\ p.vol \in Int /\ p.entry \in Int /\ p.realized \in Int
      /\ p.commission \in Int
  BY <1>2 DEF Position
<1>4. gain \in Int /\ fee \in Int /\ left \in Int /\ end \in {"CLOSED", "PARTIALLY_CLOSED"}
  <2>1. MarkPrice(p.dir, b) \in Int /\ fee \in Int
    BY <1>3, Amounts
  <2> HIDE DEF p
  <2>2. gain \in Int
    BY <1>3, <2>1, Amounts
  <2> HIDE DEF gain, fee
  <2> QED
    BY <1>3, <2>1, <2>2
<1>5. new = [book EXCEPT !.balance = @ + gain - fee, !.positions[i] = r, !.trades = Append(@, trade)]
  BY DEF ExecuteClose
<1>6. Opposite(p.dir) \in Directions /\ Sign(Opposite(p.dir)) = -Sign(p.dir) /\ Sign(p.dir) \in {1, -1}
  BY <1>3, SignOf
<1>7. trade \in Trade /\ trade.dir = Opposite(p.dir) /\ trade.vol = vol
  BY <1>6 DEF Trade
<1> HIDE DEF gain, fee, end, trade, new
<1>8. /\ r \in Position /\ r.dir = p.dir /\ r.vol = p.vol - vol /\ r.realized = p.realized + gain
      /\ r.commission = p.commission + fee /\ r.status = end
  <2> HIDE DEF p
  <2>1. p.realized + gain \in Int /\ p.commission + fee \in Int /\ p.vol - vol \in Int
    BY <1>3, <1>4
  <2> PICK a \in Int, c \in Int, v \in Int :
        a = p.realized + gain /\ c = p.commission + fee /\ v = p.vol - vol
    BY <2>1
  <2> PICK e \in {"CLOSED", "PARTIALLY_CLOSED"} : e = end
    BY <1>4
  <2>2. r = [p EXCEPT !.vol = v, !.realized = a, !.commission = c, !.status = e]
    OBVIOUS
  <2> HIDE DEF r
  <2>3. /\ r \in Position /\ r.dir = p.dir /\ r.vol = v /\ r.realized = a
        /\ r.commission = c /\ r.status = e
    BY <1>2, <2>2 DEF Position
  <2> QED
    BY <2>3
<1> HIDE DEF r, p
<1>9. /\ ps \in Seq(Position) /\ Len(ps) = Len(book.positions) /\ DOMAIN ps = DOMAIN book.positions
      /\ ps[i] = r /\ \A j \in DOMAIN book.positions \ {i} : ps[j] = book.positions[j]
  BY <1>1, <1>8
<1>10. /\ new.balance = book.balance + gain - fee /\ new.positions = ps /\ new.orders = book.orders
       /\ new.trades = Append(book.trades, trade) /\ new \in Books
  <2>1. book.balance + gain - fee \in Int
    BY <1>1, <1>4
  <2> PICK m \in Int : m = book.balance + gain - fee
    BY <2>1
  <2>4. Append(book.trades, trade) \in Seq(Trade)
    BY <1>1, <1>7
  <2> PICK ts \in Seq(Trade) : ts = Append(book.trades, trade)
    BY <2>4, Zenon
  <2>2. new = [book EXCEPT !.balance = m, !.positions = ps, !.trades = ts]
    BY <1>5
  <2> HIDE DEF ps
  <2>3. new.balance = m /\ new.positions = ps /\ new.orders = book.orders /\ new.trades = ts
        /\ new \in Books
    BY <1>9, <2>2 DEF Books
  <2> QED
    BY <2>3
<1> HIDE DEF ps
<1>11. Earned(ps) = Earned(book.positions) - (p.realized - p.commission) + (r.realized - r.commission)
  BY <1>1, <1>9, EarnedChanged DEF p
<1>12. Earned(book.positions) \in Int
  BY <1>1, <1>2, EarnedLonger
<1>13. Reconciles(book) => Reconciles(new)
  <2>1. StartingBalance * Leverage \in Int
    BY Numbers
  <2> QED
    BY <1>1, <1>3, <1>4, <1>8, <1>10, <1>11, <1>12, <2>1, SMTT(30) DEF Reconciles
<1>14. Net(ps) = Net(book.positions) - Sign(p.dir) * p.vol + Sign(r.dir) * r.vol
  <2>1. \A x \in Position : x.dir \in Directions /\ x.vol \in Int
    BY DEF Position
  <2> QED
    BY <1>1, <1>9, <2>1, NetChanged DEF p
<1>15. Net(book.positions) \in Int
  <2>1. \A x \in Position : x.dir \in Directions /\ x.vol \in Int
    BY DEF Position
  <2> QED
    BY <1>1, <1>2, <2>1, NetLonger
<1>16. Net(Append(book.trades, trade)) = Net(book.trades) + Sign(trade.dir) * trade.vol
  <2>1. \A x \in Trade : x.dir \in Directions /\ x.vol \in Int
    BY DEF Trade
  <2> QED
    BY <1>1, <1>7, <2>1, NetLonger
<1>17. Even(book) => Even(new)
  <2>1. CASE Sign(p.dir) = 1
    BY <1>3, <1>6, <1>7, <1>8, <1>10, <1>14, <1>15, <1>16, <2>1 DEF Even
  <2>2. CASE Sign(p.dir) = -1
    BY <1>3, <1>6, <1>7, <1>8, <1>10, <1>14, <1>15, <1>16, <2>2 DEF Even
  <2> QED
    BY <1>6, <2>1, <2>2
<1>18. vol = p.vol => ~IsOpen(new.positions[i])
  BY <1>3, <1>8, <1>9, <1>10 DEF IsOpen, end
<1> QED
  BY <1>9, <1>10, <1>13, <1>17, <1>18 DEF Keeps, new, p

-----------------------------------------------------------------------------
(***************************************************************************)
(* The walk over the pending orders.                                       *)
(***************************************************************************)
\* A request has one order of its own at most and one market order that came of
\* it, and it no longer waits when it has the market order.
Single(os) ==
  /\ \A i, j \in DOMAIN os :
       os[i].req = os[j].req /\ (os[i].type = "MARKET" <=> os[j].type = "MARKET") => i = j
  /\ \A i, j \in DOMAIN os :
       os[i].req = os[j].req /\ os[i].type = "MARKET" => os[j].status # "PENDING"

RequestsOf(os) == {os[i].req : i \in DOMAIN os}

\* There is a pending order on which the walk ends.
Stuck(os, b) ==
  \E i \in DOMAIN os :
    os[i].status = "PENDING" /\ Triggered(os[i], b) /\ FillThrows(AsMarket(os[i]), b)

\* The orders when order i is no longer pending, with the market order or without.
LEMMA SingleStays ==
  ASSUME NEW os \in Seq(Order), Single(os), NEW i \in DOMAIN os,
         os[i].status = "PENDING", os[i].type # "MARKET",
         NEW ts \in Seq(Order), DOMAIN os \subseteq DOMAIN ts,
         ts[i].req = os[i].req, ts[i].type = os[i].type, ts[i].status # "PENDING",
         \A j \in DOMAIN os \ {i} : ts[j] = os[j],
         \A j \in DOMAIN ts \ DOMAIN os :
           /\ ts[j].req = os[i].req /\ ts[j].type = "MARKET" /\ ts[j].status = "FILLED"
           /\ \A k \in DOMAIN ts \ DOMAIN os : j = k
  PROVE  Single(ts)
<1>1. \A j \in DOMAIN os : ts[j].req = os[j].req /\ ts[j].type = os[j].type
                           /\ (ts[j].status = "PENDING" => os[j].status = "PENDING" /\ j # i)
  OBVIOUS
<1>2. \A j \in DOMAIN os : os[j].req = os[i].req => j = i
  BY DEF Single
<1>3. ASSUME NEW j \in DOMAIN ts, NEW k \in DOMAIN ts, ts[j].req = ts[k].req,
             ts[j].type = "MARKET" <=> ts[k].type = "MARKET"
      PROVE  j = k
  <2>1. CASE j \in DOMAIN os /\ k \in DOMAIN os
    BY <1>1, <1>3, <2>1 DEF Single
  <2>2. CASE j \notin DOMAIN os /\ k \notin DOMAIN os
    BY <2>2
  <2>3. CASE j \in DOMAIN os /\ k \notin DOMAIN os
    BY <1>1, <1>2, <1>3, <2>3
  <2>4. CASE j \notin DOMAIN os /\ k \in DOMAIN os
    BY <1>1, <1>2, <1>3, <2>4
  <2> QED
    BY <2>1, <2>2, <2>3, <2>4
<1>4. ASSUME NEW j \in DOMAIN ts, NEW k \in DOMAIN ts, ts[j].req = ts[k].req, ts[j].type = "MARKET"
      PROVE  ts[k].status # "PENDING"
  <2>1. CASE k \notin DOMAIN os
    BY <2>1
  <2>2. CASE j \in DOMAIN os /\ k \in DOMAIN os
    BY <1>1, <1>4, <2>2 DEF Single
  <2>3. CASE j \notin DOMAIN os /\ k \in DOMAIN os
    BY <1>1, <1>2, <1>4, <2>3
  <2> QED
    BY <2>1, <2>2, <2>3
<1> QED
  BY <1>3, <1>4 DEF Single

Walks == [book : Books, threw : BOOLEAN]

\* What the walk has kept so far, from the books it started with.
Walked(book, acc, b) ==
  /\ acc \in Walks
  /\ Keeps(book, acc.book)
  /\ DOMAIN book.orders \subseteq DOMAIN acc.book.orders
  /\ RequestsOf(acc.book.orders) \subseteq RequestsOf(book.orders)
  /\ Single(book.orders) => Single(acc.book.orders)
  /\ acc.threw => Stuck(acc.book.orders, b)

\* One order of the walk.
LEMMA WalkedOn ==
  ASSUME NEW book \in Books, NEW acc, NEW b \in Int, Walked(book, acc, b), NEW i \in DOMAIN book.orders
  PROVE  Walked(book, FillPending(acc, i, b), b)
<1> DEFINE os == acc.book.orders
           o == os[i]
           q == AsMarket(o)
           new == FillPending(acc, i, b)
<1>1. /\ acc \in Walks /\ acc.book \in Books /\ os \in Seq(Order) /\ i \in DOMAIN os /\ o \in Order
      /\ acc.threw \in BOOLEAN
  <2>1. acc \in Walks /\ i \in DOMAIN os
    BY DEF Walked
  <2>2. acc.book \in Books /\ acc.threw \in BOOLEAN
    BY <2>1 DEF Walks
  <2>3. os \in Seq(Order)
    BY <2>2 DEF Books
  <2> QED
    BY <2>1, <2>2, <2>3
<1>2. q \in Asked /\ q.req = o.req /\ q.type = "MARKET"
  <2> HIDE DEF o
  <2> QED
    BY <1>1 DEF AsMarket, Asked, Order, Absent
<1> HIDE DEF q
<1>3. CASE acc.threw \/ ~Waiting(o) \/ ~Triggered(o, b)
  <2>1. new = acc
    BY <1>3 DEF FillPending
  <2> QED
    BY <2>1
<1>4. CASE ~acc.threw /\ Waiting(o) /\ Triggered(o, b) /\ FillThrows(q, b)
  <2>1. new = [acc EXCEPT !.threw = TRUE]
    BY <1>4 DEF FillPending, q
  <2> HIDE DEF new
  <2>2. new \in Walks /\ new.book = acc.book
    BY <1>1, <2>1 DEF Walks
  <2>3. Stuck(os, b)
    BY <1>1, <1>4 DEF Stuck, Waiting, q
  <2> QED
    BY <2>2, <2>3 DEF Walked, new
<1>5. CASE ~acc.threw /\ Waiting(o) /\ Triggered(o, b) /\ ~FillThrows(q, b)
  <2> DEFINE f == FillMarketOrder(acc.book, q, b)
             s == IF MarginShort(acc.book, q, b) THEN "REJECTED" ELSE "FILLED"
             ts == [f.orders EXCEPT ![i].status = s]
             nb == [f EXCEPT !.orders[i].status = s]
  <2>1. new = [acc EXCEPT !.book = nb]
    BY <1>5 DEF FillPending, q
  <2>2. /\ Keeps(acc.book, f) /\ f \in Books
        /\ s = "REJECTED" => f.orders = os
        /\ s = "FILLED" => \E n \in Order : /\ f.orders = Append(os, n)
                              /\ n.req = o.req /\ n.type = "MARKET" /\ n.status = "FILLED"
    <3>1. /\ Keeps(acc.book, f)
          /\ MarginShort(acc.book, q, b) => f.orders = os
          /\ ~MarginShort(acc.book, q, b) =>
               \E n \in Order : /\ f.orders = Append(os, n)
                                /\ n.req = q.req /\ n.type = q.type /\ n.status = "FILLED"
      BY <1>1, <1>2, Filled, Zenon
    <3>2. s = "REJECTED" => MarginShort(acc.book, q, b)
      OBVIOUS
    <3>3. s = "FILLED" => ~MarginShort(acc.book, q, b)
      OBVIOUS
    <3> HIDE DEF f, s, os, o
    <3> QED
      BY <1>2, <3>1, <3>2, <3>3 DEF Keeps
  <2>3. s \in {"FILLED", "REJECTED"}
    OBVIOUS
  <2> HIDE DEF f, s, new
  <2>4. /\ f.orders \in Seq(Order) /\ DOMAIN os \subseteq DOMAIN f.orders
        /\ \A j \in DOMAIN os : f.orders[j] = os[j]
        /\ \A j \in DOMAIN f.orders \ DOMAIN os :
             /\ f.orders[j].req = o.req /\ f.orders[j].type = "MARKET" /\ f.orders[j].status = "FILLED"
             /\ \A k \in DOMAIN f.orders \ DOMAIN os : j = k
    <3>1. CASE s = "REJECTED"
      BY <1>1, <2>2, <3>1
    <3>2. CASE s = "FILLED"
      <4>1. PICK n \in Order : f.orders = Append(os, n) /\ n.req = o.req /\ n.type = "MARKET"
                               /\ n.status = "FILLED"
        BY <2>2, <3>2
      <4> HIDE DEF os
      <4>2. DOMAIN os = 1..Len(os) /\ DOMAIN f.orders = 1..(Len(os) + 1) /\ Len(os) \in Nat
            /\ f.orders \in Seq(Order)
        BY <1>1, <4>1
      <4>3. \A j \in DOMAIN f.orders \ DOMAIN os : j = Len(os) + 1 /\ f.orders[j] = n
        BY <1>1, <4>1, <4>2
      <4>4. \A j \in DOMAIN os : f.orders[j] = os[j]
        BY <1>1, <4>1, <4>2
      <4> HIDE DEF o
      <4> QED
        BY <4>1, <4>2, <4>3, <4>4
    <3> QED
      BY <2>3, <3>1, <3>2
  <2>5. /\ ts \in Seq(Order) /\ DOMAIN ts = DOMAIN f.orders
        /\ \A j \in DOMAIN f.orders \ {i} : ts[j] = f.orders[j]
        /\ ts[i].req = o.req /\ ts[i].type = o.type /\ ts[i].status = s
    <3> DEFINE r == [o EXCEPT !.status = s]
    <3>1. i \in DOMAIN f.orders /\ f.orders[i] = o
      BY <1>1, <2>4
    <3>2. ts = [f.orders EXCEPT ![i] = r]
      BY <3>1
    <3> HIDE DEF o
    <3>3. r \in Order /\ r.req = o.req /\ r.type = o.type /\ r.status = s
      BY <1>1, <2>3 DEF Order
    <3> HIDE DEF r, ts, os
    <3> QED
      BY <2>4, <3>1, <3>2, <3>3
  <2>6. /\ nb \in Books /\ nb.orders = ts /\ nb.positions = f.positions /\ nb.trades = f.trades
        /\ nb.balance = f.balance
    <3>1. nb = [f EXCEPT !.orders = ts]
      BY <2>2 DEF Books
    <3> HIDE DEF nb, ts
    <3> QED
      BY <2>2, <2>5, <3>1 DEF Books
  <2> HIDE DEF nb, ts
  <2>7. Keeps(book, nb)
    <3>1. Keeps(book, acc.book)
      BY DEF Walked
    <3> QED
      BY <2>2, <2>6, <3>1 DEF Keeps, Reconciles, Even
  <2>8. RequestsOf(ts) \subseteq RequestsOf(os)
    <3>1. \A j \in DOMAIN ts : \E k \in DOMAIN os : ts[j].req = os[k].req
      BY <1>1, <2>4, <2>5
    <3> QED
      BY <3>1 DEF RequestsOf
  <2>9. Single(os) => Single(ts)
    <3>1. o.status = "PENDING" /\ o.type # "MARKET" /\ s # "PENDING"
      BY <1>5, <2>3 DEF Waiting, Triggered
    <3>2. \A j \in DOMAIN os \ {i} : ts[j] = os[j]
      BY <2>4, <2>5
    <3>3. \A j \in DOMAIN ts \ DOMAIN os : ts[j] = f.orders[j]
      BY <1>1, <2>4, <2>5
    <3> HIDE DEF os
    <3> QED
      BY <1>1, <2>4, <2>5, <3>1, <3>2, <3>3, SingleStays
  <2>10. new \in Walks /\ new.book = nb /\ ~new.threw
    BY <1>1, <1>5, <2>1, <2>6 DEF Walks
  <2>11. DOMAIN book.orders \subseteq DOMAIN ts
    BY <2>4, <2>5 DEF Walked
  <2>12. RequestsOf(os) \subseteq RequestsOf(book.orders) /\ (Single(book.orders) => Single(os))
    BY DEF Walked
  <2> QED
    BY <2>6, <2>7, <2>8, <2>9, <2>10, <2>11, <2>12 DEF Walked, new
<1> QED
  BY <1>1, <1>3, <1>4, <1>5

\* Of numbers up to a bound one is the smallest.
LEMMA SmallestNumber ==
  ASSUME NEW N \in Nat, NEW B \in SUBSET (0..N), B # {}
  PROVE  \E m \in B : \A k \in B : m <= k
<1> DEFINE D == 0..N
           C == {T \in SUBSET D : \E m \in B : T = 0..m}
<1>1. PICK T \in C : \A U \in C : U \subseteq T => U = T
  <2>1. IsFiniteSet(D)
    BY FS_Interval
  <2>2. C # {}
    <3>1. PICK n \in B : TRUE
      OBVIOUS
    <3>2. 0..n \in C
      OBVIOUS
    <3> QED
      BY <3>2
  <2>3. C \in SUBSET (SUBSET D)
    OBVIOUS
  <2> HIDE DEF C, D
  <2> QED
    BY <2>1, <2>2, <2>3, SmallestSet
<1>2. PICK m \in B : T = 0..m
  OBVIOUS
<1>3. ASSUME NEW k \in B, ~(m <= k) PROVE FALSE
  <2>1. 0..k \in C /\ 0..k \subseteq T /\ m \in T /\ m \notin 0..k
    BY <1>2, <1>3
  <2> QED
    BY <1>1, <2>1
<1> QED
  BY <1>3

\* a is the walk over the first n orders.
WalkTo(n, a, book, b) ==
  a = [k \in 0..n |-> IF k = 0 THEN [book |-> book, threw |-> FALSE] ELSE FillPending(a[k - 1], k, b)]

\* There is a walk over all of them.
LEMMA WalkExists ==
  ASSUME NEW book, NEW b, NEW N \in Nat
  PROVE  \E a : WalkTo(N, a, book, b)
<1> DEFINE B == {n \in 0..N : ~\E a : WalkTo(n, a, book, b)}
           x == [book |-> book, threw |-> FALSE]
<1> SUFFICES ASSUME B # {} PROVE FALSE
  OBVIOUS
<1>1. PICK m \in B : \A k \in B : m <= k
  BY SmallestNumber
<1>2. m # 0
  <2> SUFFICES ASSUME m = 0 PROVE FALSE
    OBVIOUS
  <2> DEFINE a == [k \in 0..m |-> x]
  <2>1. WalkTo(m, a, book, b)
    BY DEF WalkTo
  <2> QED
    BY <2>1
<1>3. PICK c : WalkTo(m - 1, c, book, b)
  BY <1>1, <1>2
<1> DEFINE a == [k \in 0..m |-> IF k = m THEN FillPending(c[m - 1], m, b) ELSE c[k]]
<1>4. ASSUME NEW k \in 0..m PROVE a[k] = IF k = 0 THEN x ELSE FillPending(a[k - 1], k, b)
  <2>1. k # 0 => k - 1 \in 0..(m - 1) /\ a[k - 1] = c[k - 1]
    OBVIOUS
  <2>2. k # m => k \in 0..(m - 1) /\ a[k] = c[k]
    OBVIOUS
  <2>3. \A j \in 0..(m - 1) : c[j] = IF j = 0 THEN x ELSE FillPending(c[j - 1], j, b)
    BY <1>3 DEF WalkTo
  <2>4. k = m => a[k] = FillPending(c[k - 1], k, b)
    OBVIOUS
  <2> HIDE DEF a, x
  <2> QED
    BY <1>2, <2>1, <2>2, <2>3, <2>4
<1>5. a = [k \in 0..m |-> a[k]]
  OBVIOUS
<1> HIDE DEF a
<1>6. WalkTo(m, a, book, b)
  BY <1>4, <1>5 DEF WalkTo
<1> QED
  BY <1>6

\* What is kept through the walk.
LEMMA PendingWalked ==
  ASSUME NEW book \in Books, NEW b \in Int
  PROVE  Walked(book, ProcessPendingOrders(book, b), b)
<1> DEFINE N == Len(book.orders)
           g == CHOOSE a : WalkTo(N, a, book, b)
           B == {n \in 0..N : ~Walked(book, g[n], b)}
<1>1. N \in Nat /\ DOMAIN book.orders = 1..N
  BY DEF Books
<1>2. ProcessPendingOrders(book, b) = g[N]
  BY DEF ProcessPendingOrders, WalkTo
<1> HIDE DEF N
<1>3. WalkTo(N, g, book, b)
  BY <1>1, WalkExists
<1> HIDE DEF g
<1>4. \A n \in 0..N : g[n] = IF n = 0 THEN [book |-> book, threw |-> FALSE] ELSE FillPending(g[n - 1], n, b)
  BY <1>3 DEF WalkTo
<1>5. ASSUME B # {} PROVE FALSE
  <2>1. PICK m \in B : \A k \in B : m <= k
    BY <1>1, <1>5, SmallestNumber
  <2>2. m # 0
    <3>1. 0 \in 0..N
      BY <1>1
    <3>2. g[0] = [book |-> book, threw |-> FALSE]
      BY <1>4, <3>1
    <3>3. g[0] \in Walks /\ g[0].book = book /\ g[0].threw = FALSE
      BY <3>2 DEF Walks
    <3>4. Walked(book, g[0], b)
      BY <3>3 DEF Walked, Keeps
    <3> QED
      BY <3>4
  <2>3. m \in 1..N /\ m - 1 \in 0..N /\ m - 1 \notin B
    BY <1>1, <2>1, <2>2
  <2>4. Walked(book, g[m - 1], b)
    BY <2>3
  <2>5. g[m] = FillPending(g[m - 1], m, b)
    BY <1>4, <2>2
  <2>6. Walked(book, g[m], b)
    BY <1>1, <2>3, <2>4, <2>5, WalkedOn
  <2> QED
    BY <2>6
<1> QED
  BY <1>1, <1>2, <1>5

-----------------------------------------------------------------------------
(***************************************************************************)
(* The walk over the stops and targets.                                    *)
(***************************************************************************)
Hit(p, b) == IsOpen(p) /\ (StopHit(p, b) \/ TargetHit(p, b))

\* What this walk keeps, and that none of the first n positions is open beyond
\* its stop or target.
Stopped(book, new, n, b) ==
  /\ Keeps(book, new)
  /\ new.orders = book.orders /\ DOMAIN new.positions = DOMAIN book.positions
  /\ \A j \in DOMAIN book.positions : j <= n => ~Hit(new.positions[j], b)

\* One position of the walk.
LEMMA StoppedOn ==
  ASSUME NEW book \in Books, NEW acc, NEW b \in Int, NEW i \in DOMAIN book.positions,
         Stopped(book, acc, i - 1, b)
  PROVE  Stopped(book, CloseIfHit(acc, i, b), i, b)
<1> DEFINE p == acc.positions[i]
           new == CloseIfHit(acc, i, b)
<1>1. acc \in Books /\ i \in DOMAIN acc.positions /\ DOMAIN acc.positions = DOMAIN book.positions
  BY DEF Stopped, Keeps
<1>2. \A j \in DOMAIN book.positions : j \in Int /\ (j <= i => j = i \/ j <= i - 1)
  BY DEF Books
<1>3. CASE ~Hit(p, b)
  <2>1. new = acc
    BY <1>3 DEF CloseIfHit, Hit
  <2> QED
    BY <1>2, <1>3, <2>1 DEF Stopped
<1>4. CASE Hit(p, b)
  <2> DEFINE c == ExecuteClose(acc, i, p.vol, b)
  <2>1. new = c
    BY <1>4 DEF CloseIfHit, Hit
  <2>2. p.vol \in Int
    <3>1. p \in Position
      BY <1>1 DEF Books
    <3> HIDE DEF p
    <3> QED
      BY <3>1 DEF Position
  <2>3. /\ Keeps(acc, c) /\ c.orders = acc.orders /\ DOMAIN c.positions = DOMAIN acc.positions
        /\ \A j \in DOMAIN acc.positions \ {i} : c.positions[j] = acc.positions[j]
        /\ ~IsOpen(c.positions[i])
    BY <1>1, <2>2, Closed, ZenonT(40)
  <2> HIDE DEF new, c
  <2>4. Keeps(book, c)
    BY <2>3 DEF Keeps, Stopped
  <2>5. ASSUME NEW j \in DOMAIN book.positions, j <= i PROVE ~Hit(c.positions[j], b)
    <3>1. CASE j = i
      BY <2>3, <3>1 DEF Hit
    <3>2. CASE j # i
      BY <1>1, <1>2, <2>3, <2>5, <3>2 DEF Stopped
    <3> QED
      BY <3>1, <3>2
  <2>6. c.orders = book.orders /\ DOMAIN c.positions = DOMAIN book.positions
    BY <2>3 DEF Stopped
  <2> QED
    BY <2>1, <2>4, <2>5, <2>6 DEF Stopped, new
<1> QED
  BY <1>3, <1>4

\* a is the walk over the first n positions.
StopsTo(n, a, book, b) ==
  a = [k \in 0..n |-> IF k = 0 THEN book ELSE CloseIfHit(a[k - 1], k, b)]

\* There is a walk over all of them.
LEMMA StopsExist ==
  ASSUME NEW book, NEW b, NEW N \in Nat
  PROVE  \E a : StopsTo(N, a, book, b)
<1> DEFINE B == {n \in 0..N : ~\E a : StopsTo(n, a, book, b)}
<1> SUFFICES ASSUME B # {} PROVE FALSE
  OBVIOUS
<1>1. PICK m \in B : \A k \in B : m <= k
  BY SmallestNumber
<1>2. m # 0
  <2> SUFFICES ASSUME m = 0 PROVE FALSE
    OBVIOUS
  <2> DEFINE a == [k \in 0..m |-> book]
  <2>1. StopsTo(m, a, book, b)
    BY DEF StopsTo
  <2> QED
    BY <2>1
<1>3. PICK c : StopsTo(m - 1, c, book, b)
  BY <1>1, <1>2
<1> DEFINE a == [k \in 0..m |-> IF k = m THEN CloseIfHit(c[m - 1], m, b) ELSE c[k]]
<1>4. ASSUME NEW k \in 0..m PROVE a[k] = IF k = 0 THEN book ELSE CloseIfHit(a[k - 1], k, b)
  <2>1. k # 0 => k - 1 \in 0..(m - 1) /\ a[k - 1] = c[k - 1]
    OBVIOUS
  <2>2. k # m => k \in 0..(m - 1) /\ a[k] = c[k]
    OBVIOUS
  <2>3. \A j \in 0..(m - 1) : c[j] = IF j = 0 THEN book ELSE CloseIfHit(c[j - 1], j, b)
    BY <1>3 DEF StopsTo
  <2>4. k = m => a[k] = CloseIfHit(c[k - 1], k, b)
    OBVIOUS
  <2> HIDE DEF a
  <2> QED
    BY <1>2, <2>1, <2>2, <2>3, <2>4
<1>5. a = [k \in 0..m |-> a[k]]
  OBVIOUS
<1> HIDE DEF a
<1>6. StopsTo(m, a, book, b)
  BY <1>4, <1>5 DEF StopsTo
<1> QED
  BY <1>6

\* After the walk no position is open beyond its stop or target.
LEMMA StopsWalked ==
  ASSUME NEW book \in Books, NEW b \in Int
  PROVE  Stopped(book, ProcessStopsAndTargets(book, b), Len(book.positions), b)
<1> DEFINE N == Len(book.positions)
           g == CHOOSE a : StopsTo(N, a, book, b)
           B == {n \in 0..N : ~Stopped(book, g[n], n, b)}
<1>1. N \in Nat /\ DOMAIN book.positions = 1..N
  BY DEF Books
<1>2. ProcessStopsAndTargets(book, b) = g[N]
  BY DEF ProcessStopsAndTargets, StopsTo
<1> HIDE DEF N
<1>3. StopsTo(N, g, book, b)
  BY <1>1, StopsExist
<1> HIDE DEF g
<1>4. \A n \in 0..N : g[n] = IF n = 0 THEN book ELSE CloseIfHit(g[n - 1], n, b)
  BY <1>3 DEF StopsTo
<1>5. ASSUME B # {} PROVE FALSE
  <2>1. PICK m \in B : \A k \in B : m <= k
    BY <1>1, <1>5, SmallestNumber
  <2>2. m # 0
    <3>1. 0 \in 0..N
      BY <1>1
    <3>2. g[0] = book
      BY <1>4, <3>1
    <3>3. Stopped(book, g[0], 0, b)
      BY <1>1, <3>2 DEF Stopped, Keeps
    <3> QED
      BY <3>3
  <2>3. m \in 1..N /\ m - 1 \in 0..N /\ m - 1 \notin B
    BY <1>1, <2>1, <2>2
  <2>4. Stopped(book, g[m - 1], m - 1, b)
    BY <2>3
  <2>5. g[m] = CloseIfHit(g[m - 1], m, b)
    BY <1>4, <2>2
  <2>6. Stopped(book, g[m], m, b)
    BY <1>1, <2>3, <2>4, <2>5, StoppedOn
  <2> QED
    BY <2>6
<1> QED
  BY <1>1, <1>2, <1>5 DEF N

-----------------------------------------------------------------------------
(***************************************************************************)
(* The invariant.                                                          *)
(***************************************************************************)
TypeInv ==
  /\ Book \in Books /\ saved \in Books
  /\ bid \in Bids
  /\ processed \in [RequestIds -> {"none", "FILLED", "REJECTED", "PENDING"}]
  /\ restarts \in Nat

\* A request that has an order has been answered in this process.
Answered ==
  restarts = 0 => Single(orders) /\ \A r \in RequestsOf(orders) : processed[r] # "none"

IInv == TypeInv /\ BalanceReconciles /\ TradesExplainExposure /\ Answered /\ StopsHonoured

\* The parts of the books.
LEMMA BookParts ==
  ASSUME TypeInv
  PROVE  /\ Book.balance = balance /\ balance \in Int /\ Book.orders = orders /\ orders \in Seq(Order)
         /\ Book.positions = positions /\ positions \in Seq(Position)
         /\ Book.trades = trades /\ trades \in Seq(Trade)
BY DEF TypeInv, Book, Books

\* The books after a call.
LEMMA BookSet ==
  ASSUME NEW book \in Books, SetBook(book)
  PROVE  Book' = book /\ orders' = book.orders /\ positions' = book.positions
BY DEF SetBook, Book, Books

\* The money after a call that keeps the books in order.
LEMMA MoneyKept ==
  ASSUME IInv, NEW book, Keeps(Book, book), SetBook(book), UNCHANGED <<saved, restarts>>
  PROVE  /\ Book' = book /\ book \in Books /\ orders' = book.orders /\ positions' = book.positions
         /\ BalanceReconciles' /\ TradesExplainExposure'
<1>1. book \in Books
  BY DEF Keeps
<1>2. Book' = book /\ orders' = book.orders /\ positions' = book.positions
  BY <1>1, BookSet
<1>3. Reconciles(book) /\ Reconciles(saved)
  BY DEF IInv, BalanceReconciles, Keeps
<1>4. restarts = 0 => Even(book)
  <2>1. restarts = 0 => Even(Book)
    BY DEF IInv, TradesExplainExposure, Even, Book
  <2> QED
    BY <2>1 DEF Keeps
<1>5. BalanceReconciles'
  <2>1. saved' = saved
    OBVIOUS
  <2> QED
    BY <1>2, <1>3, <2>1 DEF BalanceReconciles
<1>6. TradesExplainExposure'
  <2>1. trades' = book.trades /\ positions' = book.positions /\ restarts' = restarts
    BY DEF SetBook
  <2> QED
    BY <1>4, <2>1 DEF TradesExplainExposure, Even
<1> QED
  BY <1>1, <1>2, <1>5, <1>6

\* Books with the same entries come to the same.
LEMMA SameMoney ==
  ASSUME NEW ps, NEW qs, DOMAIN qs = DOMAIN ps,
         \A i \in DOMAIN ps : /\ qs[i].dir = ps[i].dir /\ qs[i].vol = ps[i].vol
                              /\ qs[i].realized = ps[i].realized /\ qs[i].commission = ps[i].commission
  PROVE  Net(qs) = Net(ps) /\ Earned(qs) = Earned(ps)
<1>1. [i \in DOMAIN qs |-> Sign(qs[i].dir) * qs[i].vol] = [i \in DOMAIN ps |-> Sign(ps[i].dir) * ps[i].vol]
  OBVIOUS
<1>2. [i \in DOMAIN qs |-> qs[i].realized - qs[i].commission]
        = [i \in DOMAIN ps |-> ps[i].realized - ps[i].commission]
  OBVIOUS
<1> QED
  BY <1>1, <1>2 DEF Net, Earned

\* One more order, of a request that had none.
LEMMA SingleLonger ==
  ASSUME NEW os \in Seq(Order), Single(os), NEW n \in Order, n.req \notin RequestsOf(os),
         n.type = "MARKET" => n.status # "PENDING"
  PROVE  Single(Append(os, n)) /\ RequestsOf(Append(os, n)) = RequestsOf(os) \cup {n.req}
<1> DEFINE ts == Append(os, n)
           m == Len(os)
<1>1. /\ m \in Nat /\ DOMAIN os = 1..m /\ DOMAIN ts = 1..(m + 1) /\ ts[m + 1] = n
      /\ \A j \in 1..m : ts[j] = os[j]
  OBVIOUS
<1>2. \A j \in DOMAIN ts : j = m + 1 \/ j \in 1..m
  BY <1>1
<1>3. \A j \in 1..m : os[j].req # n.req
  BY <1>1 DEF RequestsOf
<1> HIDE DEF ts, m
<1>4. Single(ts)
  <2>1. ASSUME NEW j \in DOMAIN ts, NEW k \in DOMAIN ts, ts[j].req = ts[k].req,
               ts[j].type = "MARKET" <=> ts[k].type = "MARKET"
        PROVE  j = k
    <3>1. CASE j \in 1..m /\ k \in 1..m
      BY <1>1, <2>1, <3>1 DEF Single
    <3>2. CASE j = m + 1 \/ k = m + 1
      BY <1>1, <1>2, <1>3, <2>1, <3>2
    <3> QED
      BY <1>2, <3>1, <3>2
  <2>2. ASSUME NEW j \in DOMAIN ts, NEW k \in DOMAIN ts, ts[j].req = ts[k].req, ts[j].type = "MARKET"
        PROVE  ts[k].status # "PENDING"
    <3>1. CASE j \in 1..m /\ k \in 1..m
      BY <1>1, <2>2, <3>1 DEF Single
    <3>2. CASE j = m + 1 \/ k = m + 1
      BY <1>1, <1>2, <1>3, <2>2, <3>2
    <3> QED
      BY <1>2, <3>1, <3>2
  <2> QED
    BY <2>1, <2>2 DEF Single
<1>5. RequestsOf(ts) = RequestsOf(os) \cup {n.req}
  <2>1. \A r : r \in RequestsOf(ts) <=> \E j \in 1..(m + 1) : ts[j].req = r
    BY <1>1 DEF RequestsOf
  <2>2. \A r : r \in RequestsOf(os) <=> \E j \in 1..m : os[j].req = r
    BY <1>1 DEF RequestsOf
  <2>3. 1..m \subseteq 1..(m + 1) /\ m + 1 \in 1..(m + 1)
    BY <1>1
  <2> QED
    BY <1>1, <1>2, <2>1, <2>2, <2>3
<1> QED
  BY <1>4, <1>5 DEF ts

\* Orders of the same requests, of which none waits again.
LEMMA SingleSame ==
  ASSUME NEW os, Single(os), NEW ts, DOMAIN ts = DOMAIN os,
         \A j \in DOMAIN os : /\ ts[j].req = os[j].req /\ ts[j].type = os[j].type
                              /\ ts[j].status = "PENDING" => os[j].status = "PENDING"
  PROVE  Single(ts)
BY DEF Single

\* An update of the marks alone leaves it true that stops are honoured.
LEMMA HonouredStill ==
  ASSUME StopsHonoured, UNCHANGED <<bid, orders, lastUpdate>>, DOMAIN positions' = DOMAIN positions,
         \A i \in DOMAIN positions : SameButMark(positions[i], positions'[i])
  PROVE  StopsHonoured'
<1>1. ASSUME lastUpdate' = "completed", NEW i \in DOMAIN positions', IsOpen(positions[i]')
      PROVE  ~StopReached(positions[i])' /\ ~TargetReached(positions[i])'
  <2>1. SameButMark(positions[i], positions'[i]) /\ IsOpen(positions[i]) /\ i \in DOMAIN positions
    BY <1>1 DEF SameButMark, IsOpen
  <2>2. ~StopReached(positions[i]) /\ ~TargetReached(positions[i])
    BY <1>1, <2>1 DEF StopsHonoured
  <2> QED
    BY <2>1, <2>2 DEF SameButMark, StopReached, TargetReached
<1>2. ASSUME lastUpdate' = "aborted"
      PROVE  \E i \in DOMAIN orders' : /\ orders'[i].status = "PENDING" /\ Triggered(orders'[i], bid')
                                       /\ FillThrows(AsMarket(orders'[i]), bid')
  BY <1>2 DEF StopsHonoured
<1> QED
  BY <1>1, <1>2 DEF StopsHonoured

-----------------------------------------------------------------------------
(***************************************************************************)
(* The calls, one by one.                                                  *)
(***************************************************************************)
\* A call that keeps the books in order and answers its request keeps the rest.
LEMMA CallKeeps ==
  ASSUME IInv, NEW book, Keeps(Book, book), SetBook(book), UNCHANGED <<bid, saved, restarts>>,
         lastUpdate' = "none",
         processed' \in [RequestIds -> {"none", "FILLED", "REJECTED", "PENDING"}], Answered'
  PROVE  IInv'
<1>1. Book' \in Books /\ BalanceReconciles' /\ TradesExplainExposure'
  BY MoneyKept
<1>2. TypeInv'
  BY <1>1 DEF IInv, TypeInv
<1>3. StopsHonoured'
  BY DEF StopsHonoured
<1> QED
  BY <1>1, <1>2, <1>3 DEF IInv

\* So does a call that leaves the orders alone.
LEMMA TradeKeeps ==
  ASSUME IInv, NEW book, Keeps(Book, book), SetBook(book), UNCHANGED <<bid, saved, restarts, processed>>,
         lastUpdate' = "none", book.orders = orders
  PROVE  IInv'
<1>1. orders' = orders
  BY DEF SetBook
<1>2. Answered'
  BY <1>1 DEF IInv, Answered
<1> QED
  BY <1>2, CallKeeps DEF IInv, TypeInv

\* What the calls ask for.
LEMMA RequestsAreAsked ==
  ASSUME NEW types, types \subseteq Types, NEW q \in Requests(types)
  PROVE  q \in Asked
<1>1. \A x \in Stops \cup {Absent} : x \in Int
  BY Numbers DEF Absent
<1>2. \A x \in Targets \cup {Absent} : x \in Int
  BY Numbers DEF Absent
<1>3. \A x \in Trails \cup {Absent} : x \in Int
  BY Numbers DEF Absent
<1>4. \A x \in Volumes : x \in Int
  BY Numbers
<1>5. \A x \in types : x \in {"MARKET", "LIMIT", "STOP", "STOP_LIMIT"}
  BY Numbers
<1> QED
  BY <1>1, <1>2, <1>3, <1>4, <1>5 DEF Requests, Asked

\* The requests of orders are requests.
LEMMA RequestsKnown == ASSUME NEW os \in Seq(Order) PROVE RequestsOf(os) \subseteq RequestIds
<1> SUFFICES ASSUME NEW i \in DOMAIN os PROVE os[i].req \in RequestIds
  BY DEF RequestsOf
<1>1. os[i] \in Order
  OBVIOUS
<1> QED
  BY <1>1 DEF Order

\* An order more, of a request that is answered by it.
LEMMA AnsweredMore ==
  ASSUME IInv, NEW q \in Asked, processed[q.req] = "none", NEW n \in Order, n.req = q.req,
         n.type = "MARKET" => n.status # "PENDING", orders' = Append(orders, n),
         UNCHANGED restarts, NEW answer, answer # "none", processed' = [processed EXCEPT ![q.req] = answer]
  PROVE  Answered'
<1> SUFFICES ASSUME restarts = 0
             PROVE  Single(orders') /\ \A r \in RequestsOf(orders') : processed'[r] # "none"
  BY DEF Answered
<1>1. orders \in Seq(Order)
  BY BookParts DEF IInv
<1>2. Single(orders) /\ \A r \in RequestsOf(orders) : processed[r] # "none"
  BY DEF IInv, Answered
<1>3. q.req \in RequestIds /\ DOMAIN processed = RequestIds
  BY DEF Asked, IInv, TypeInv
<1>4. Single(orders') /\ RequestsOf(orders') = RequestsOf(orders) \cup {q.req}
  BY <1>1, <1>2, SingleLonger
<1>5. \A r \in RequestsOf(orders) : r \in RequestIds
  BY <1>1, RequestsKnown
<1> QED
  BY <1>2, <1>3, <1>4, <1>5

\* A market order.
LEMMA PlaceMarketKeeps ==
  ASSUME IInv, NEW q \in Requests(Types \cap {"MARKET"}), PlaceMarketOrder(q)
  PROVE  IInv'
<1> DEFINE f == FillMarketOrder(Book, q, bid)
           answer == IF MarginShort(Book, q, bid) THEN "REJECTED" ELSE "FILLED"
<1>1. q \in Asked
  <2>1. Types \cap {"MARKET"} \subseteq Types
    OBVIOUS
  <2> QED
    BY <2>1, RequestsAreAsked
<1>2. Book \in Books /\ bid \in Int /\ Book.orders = orders
  BY Numbers, BookParts DEF IInv, TypeInv
<1>3. /\ Keeps(Book, f)
      /\ MarginShort(Book, q, bid) => f.orders = orders
      /\ ~MarginShort(Book, q, bid) =>
           \E o \in Order : f.orders = Append(orders, o) /\ o.req = q.req /\ o.status = "FILLED"
  <2>1. /\ Keeps(Book, f)
        /\ MarginShort(Book, q, bid) => f.orders = Book.orders
        /\ ~MarginShort(Book, q, bid) =>
             \E o \in Order : /\ f.orders = Append(Book.orders, o)
                              /\ o.req = q.req /\ o.type = q.type /\ o.status = "FILLED"
    BY <1>1, <1>2, Filled, Zenon
  <2> HIDE DEF f
  <2> QED
    BY <1>2, <2>1
<1>4. /\ SetBook(f) /\ processed[q.req] = "none" /\ lastUpdate' = "none"
      /\ UNCHANGED <<bid, saved, restarts>> /\ processed' = [processed EXCEPT ![q.req] = answer]
  BY DEF PlaceMarketOrder
<1>5. answer \in {"REJECTED", "FILLED"} /\ (answer = "FILLED" => ~MarginShort(Book, q, bid))
      /\ (answer = "REJECTED" => MarginShort(Book, q, bid))
  OBVIOUS
<1>6. orders' = f.orders
  BY <1>4 DEF SetBook
<1> HIDE DEF f, answer
<1>7. q.req \in RequestIds /\ processed \in [RequestIds -> {"none", "FILLED", "REJECTED", "PENDING"}]
  BY <1>1 DEF Asked, IInv, TypeInv
<1>8. processed' \in [RequestIds -> {"none", "FILLED", "REJECTED", "PENDING"}]
  BY <1>4, <1>5, <1>7
<1>9. Answered'
  <2>1. CASE answer = "REJECTED"
    <3>1. orders' = orders /\ restarts' = restarts
      BY <1>3, <1>4, <1>5, <1>6, <2>1
    <3>2. \A r \in RequestIds : processed[r] # "none" => processed'[r] # "none"
      BY <1>4, <1>7, <2>1
    <3>3. RequestsOf(orders) \subseteq RequestIds
      BY BookParts, RequestsKnown DEF IInv
    <3> QED
      BY <3>1, <3>2, <3>3 DEF IInv, Answered
  <2>2. CASE answer = "FILLED"
    <3>1. PICK o \in Order : f.orders = Append(orders, o) /\ o.req = q.req /\ o.status = "FILLED"
      BY <1>3, <1>5, <2>2
    <3> QED
      BY <1>1, <1>4, <1>6, <2>2, <3>1, AnsweredMore
  <2> QED
    BY <1>5, <2>1, <2>2
<1> QED
  BY <1>3, <1>4, <1>8, <1>9, CallKeeps

\* A pending order.
LEMMA PlacePendingKeeps ==
  ASSUME IInv, NEW q \in Requests(Types \ {"MARKET"}), NEW price \in Triggers, PlacePendingOrder(q, price)
  PROVE  IInv'
<1> DEFINE o == [req |-> q.req, type |-> q.type, dir |-> q.dir, vol |-> q.vol,
                 price |-> price, sl |-> q.sl, tp |-> q.tp, status |-> "PENDING"]
           f == [Book EXCEPT !.orders = Append(@, o)]
           answer == "PENDING"
<1>1. q \in Asked
  <2>1. Types \ {"MARKET"} \subseteq Types
    OBVIOUS
  <2> QED
    BY <2>1, RequestsAreAsked
<1>2. o \in Order /\ o.req = q.req /\ o.type = q.type
  <2>1. price \in Int
    BY Numbers
  <2> QED
    BY <1>1, <2>1 DEF Asked, Order
<1>3. q.type # "MARKET"
  BY DEF PlacePendingOrder
<1>4. /\ SetBook(f) /\ processed[q.req] = "none" /\ lastUpdate' = "none"
      /\ UNCHANGED <<bid, saved, restarts>> /\ processed' = [processed EXCEPT ![q.req] = answer]
  BY DEF PlacePendingOrder
<1> HIDE DEF o
<1>5. /\ f \in Books /\ f.orders = Append(orders, o) /\ f.positions = Book.positions
      /\ f.balance = Book.balance /\ f.trades = Book.trades
  <2>1. Book \in Books /\ Book.orders = orders /\ orders \in Seq(Order)
    BY BookParts DEF IInv, TypeInv
  <2>2. Append(orders, o) \in Seq(Order)
    BY <1>2, <2>1
  <2> PICK ts \in Seq(Order) : ts = Append(orders, o)
    BY <2>2, Zenon
  <2>3. f = [Book EXCEPT !.orders = ts]
    BY <2>1
  <2> HIDE DEF f
  <2> QED
    BY <2>1, <2>3 DEF Books
<1>6. orders' = f.orders
  BY <1>4 DEF SetBook
<1> HIDE DEF f, answer
<1>7. Keeps(Book, f)
  BY <1>5 DEF Keeps, Reconciles, Even
<1>8. processed' \in [RequestIds -> {"none", "FILLED", "REJECTED", "PENDING"}]
  BY <1>1, <1>4 DEF Asked, IInv, TypeInv, answer
<1>9. Answered'
  <2>1. answer # "none"
    BY DEF answer
  <2> QED
    BY <1>1, <1>2, <1>3, <1>4, <1>5, <1>6, <2>1, AnsweredMore
<1> QED
  BY <1>4, <1>7, <1>8, <1>9, CallKeeps

\* An order that is changed or cancelled.
LEMMA OrderKeeps ==
  ASSUME IInv, NEW i \in DOMAIN orders, NEW r \in Order, r.req = orders[i].req, r.type = orders[i].type,
         r.status = "PENDING" => orders[i].status = "PENDING",
         NEW book, book = [Book EXCEPT !.orders = [orders EXCEPT ![i] = r]], SetBook(book),
         UNCHANGED <<bid, saved, restarts, processed>>, lastUpdate' = "none"
  PROVE  IInv'
<1> DEFINE ts == [orders EXCEPT ![i] = r]
<1>1. orders \in Seq(Order) /\ Book \in Books
  BY BookParts DEF IInv, TypeInv
<1>2. /\ ts \in Seq(Order) /\ DOMAIN ts = DOMAIN orders
      /\ \A j \in DOMAIN orders : ts[j] = IF j = i THEN r ELSE orders[j]
  BY <1>1
<1> HIDE DEF ts
<1>3. /\ book \in Books /\ book.orders = ts /\ book.positions = Book.positions
      /\ book.balance = Book.balance /\ book.trades = Book.trades
  BY <1>1, <1>2 DEF Books, ts
<1>4. Keeps(Book, book)
  BY <1>3 DEF Keeps, Reconciles, Even
<1>5. orders' = ts
  BY <1>3 DEF SetBook
<1>6. RequestsOf(ts) = RequestsOf(orders)
  <2>1. \A j \in DOMAIN orders : ts[j].req = orders[j].req
    BY <1>2
  <2> QED
    BY <1>2, <2>1 DEF RequestsOf
<1>7. Single(orders) => Single(ts)
  BY <1>2, SingleSame
<1>8. Answered'
  BY <1>5, <1>6, <1>7 DEF IInv, Answered
<1> QED
  BY <1>4, <1>8, CallKeeps DEF IInv, TypeInv

\* A change of a pending order.
LEMMA ModifyOrderKeeps ==
  ASSUME IInv, NEW i, NEW price \in Triggers, NEW sl \in Stops \cup {Absent}, NEW vol \in Volumes,
         ModifyOrder(i, price, sl, vol)
  PROVE  IInv'
<1> DEFINE r == [orders[i] EXCEPT !.price = price, !.sl = sl, !.vol = vol]
           f == [Book EXCEPT !.orders[i].price = price, !.orders[i].sl = sl, !.orders[i].vol = vol]
<1>1. i \in DOMAIN orders /\ orders \in Seq(Order) /\ orders[i] \in Order
  <2>1. i \in DOMAIN orders /\ orders \in Seq(Order)
    BY BookParts DEF ModifyOrder, IInv
  <2> QED
    BY <2>1
<1>2. price \in Int /\ sl \in Int /\ vol \in Int
  BY Numbers DEF Absent
<1>3. r \in Order /\ r.req = orders[i].req /\ r.type = orders[i].type /\ r.status = orders[i].status
  BY <1>1, <1>2 DEF Order
<1>4. f = [Book EXCEPT !.orders = [orders EXCEPT ![i] = r]]
  BY <1>1 DEF Book, Order
<1>5. SetBook(f) /\ UNCHANGED <<bid, saved, restarts, processed>> /\ lastUpdate' = "none"
  BY DEF ModifyOrder
<1> HIDE DEF r, f
<1> QED
  BY <1>1, <1>3, <1>4, <1>5, OrderKeeps

\* A cancelled order.
LEMMA CancelOrderKeeps ==
  ASSUME IInv, NEW i, CancelOrder(i)
  PROVE  IInv'
<1> DEFINE r == [orders[i] EXCEPT !.status = "CANCELLED"]
           f == [Book EXCEPT !.orders[i].status = "CANCELLED"]
<1>1. i \in DOMAIN orders /\ orders \in Seq(Order) /\ orders[i] \in Order
  <2>1. i \in DOMAIN orders /\ orders \in Seq(Order)
    BY BookParts DEF CancelOrder, IInv
  <2> QED
    BY <2>1
<1>2. r \in Order /\ r.req = orders[i].req /\ r.type = orders[i].type /\ r.status = "CANCELLED"
  BY <1>1 DEF Order
<1>3. f = [Book EXCEPT !.orders = [orders EXCEPT ![i] = r]]
  BY <1>1 DEF Book
<1>4. SetBook(f) /\ UNCHANGED <<bid, saved, restarts, processed>> /\ lastUpdate' = "none"
  BY DEF CancelOrder
<1> HIDE DEF r, f
<1> QED
  BY <1>1, <1>2, <1>3, <1>4, OrderKeeps

\* A position with another stop and target.
LEMMA ModifyPositionKeeps ==
  ASSUME IInv, NEW i, NEW sl \in Stops \cup {Absent, Keep}, NEW trail \in Trails \cup {Absent},
         NEW tp \in Targets \cup {Absent}, ModifyPosition(i, sl, trail, tp)
  PROVE  IInv'
<1> DEFINE p == positions[i]
           stop == CASE trail # Absent -> p.mark - Sign(p.dir) * trail
                     [] sl = Keep -> p.sl
                     [] OTHER -> sl
           r == [p EXCEPT !.sl = stop, !.tp = tp]
           ps == [positions EXCEPT ![i] = r]
           f == [Book EXCEPT !.positions[i].sl = stop, !.positions[i].tp = tp]
<1>1. i \in DOMAIN positions /\ positions \in Seq(Position) /\ p \in Position
  <2>1. i \in DOMAIN positions /\ positions \in Seq(Position)
    BY BookParts DEF ModifyPosition, IInv
  <2> QED
    BY <2>1
<1>2. sl \in Int /\ trail \in Int /\ tp \in Int
  BY Numbers DEF Absent, Keep
<1>3. stop \in Int
  <2>1. p.mark \in Int /\ p.sl \in Int /\ p.dir \in Directions
    BY <1>1 DEF Position
  <2>2. p.mark - Sign(p.dir) * trail \in Int
    <3> HIDE DEF p
    <3> QED
      BY <1>2, <2>1, SignOf
  <2> HIDE DEF p
  <2> QED
    BY <1>2, <2>1, <2>2
<1>4. SetBook(f) /\ UNCHANGED <<bid, saved, restarts, processed>> /\ lastUpdate' = "none"
  BY DEF ModifyPosition
<1> HIDE DEF stop
<1>5. /\ r \in Position /\ r.dir = p.dir /\ r.vol = p.vol /\ r.realized = p.realized
      /\ r.commission = p.commission
  <2> HIDE DEF p
  <2> QED
    BY <1>1, <1>2, <1>3 DEF Position
<1>6. f = [Book EXCEPT !.positions = ps]
  BY <1>1 DEF Book, Position
<1> HIDE DEF r
<1>7. /\ ps \in Seq(Position) /\ DOMAIN ps = DOMAIN positions
      /\ \A j \in DOMAIN positions : ps[j] = IF j = i THEN r ELSE positions[j]
  <2> HIDE DEF p
  <2> QED
    BY <1>1, <1>5
<1> HIDE DEF ps
<1>8. Net(ps) = Net(positions) /\ Earned(ps) = Earned(positions)
  BY <1>5, <1>7, SameMoney
<1> HIDE DEF p, f
<1>9. /\ f \in Books /\ f.orders = orders /\ f.positions = ps /\ f.balance = Book.balance
      /\ f.trades = Book.trades /\ Book.positions = positions
  BY <1>6, <1>7, BookParts DEF IInv, TypeInv, Books
<1>10. Keeps(Book, f)
  BY <1>8, <1>9 DEF Keeps, Reconciles, Even
<1> QED
  BY <1>4, <1>9, <1>10, TradeKeeps

\* A close, of all or of a part.
LEMMA CloseKeeps ==
  ASSUME IInv, NEW i \in DOMAIN positions, NEW vol \in Int, SetBook(ExecuteClose(Book, i, vol, bid)),
         UNCHANGED <<bid, saved, restarts, processed>>, lastUpdate' = "none"
  PROVE  IInv'
<1> DEFINE f == ExecuteClose(Book, i, vol, bid)
<1>1. Book \in Books /\ i \in DOMAIN Book.positions /\ bid \in Int /\ Book.orders = orders
  BY Numbers, BookParts DEF IInv, TypeInv
<1>2. Keeps(Book, f) /\ f.orders = orders
  BY <1>1, Closed
<1>3. SetBook(f)
  OBVIOUS
<1> HIDE DEF f
<1> QED
  BY <1>2, <1>3, TradeKeeps

\* A position closed by hand.
LEMMA ClosePositionKeeps == ASSUME IInv, NEW i, ClosePosition(i) PROVE IInv'
<1>1. i \in DOMAIN positions /\ positions \in Seq(Position)
  BY BookParts DEF ClosePosition, IInv
<1>2. positions[i].vol \in Int
  <2>1. positions[i] \in Position
    BY <1>1
  <2> QED
    BY <2>1 DEF Position
<1> QED
  BY <1>1, <1>2, CloseKeeps DEF ClosePosition

\* A part of a position closed by hand.
LEMMA PartialCloseKeeps == ASSUME IInv, NEW i, NEW vol \in 1..MaxVolume, PartialClosePosition(i, vol) PROVE IInv'
  BY Numbers, CloseKeeps DEF PartialClosePosition

\* A price update.
LEMMA UpdateKeeps == ASSUME IInv, NEW b \in Bids, UpdateMarketPrices(b) PROVE IInv'
<1> DEFINE w == ProcessPendingOrders(Book, b)
           s == ProcessStopsAndTargets(w.book, b)
           m == MarkAll(s.positions, b)
           f == [s EXCEPT !.positions = MarkAll(@, b)]
<1>1. Book \in Books /\ b \in Int /\ Book.orders = orders
  BY Numbers, BookParts DEF IInv, TypeInv
<1>2. Walked(Book, w, b)
  BY <1>1, PendingWalked
<1>3. /\ bid' = b /\ UNCHANGED <<processed, saved, restarts>>
      /\ w.threw => SetBook(w.book) /\ lastUpdate' = "aborted"
      /\ ~w.threw => SetBook(f) /\ lastUpdate' = "completed"
  BY DEF UpdateMarketPrices
<1> HIDE DEF w
<1>4. w.book \in Books /\ w.threw \in BOOLEAN
  BY <1>2 DEF Walked, Walks
<1>5. Stopped(w.book, s, Len(w.book.positions), b)
  BY <1>1, <1>4, StopsWalked
<1> HIDE DEF s
<1>6. s \in Books /\ s.positions \in Seq(Position)
  BY <1>5 DEF Stopped, Keeps, Books
<1>7. /\ m \in Seq(Position) /\ DOMAIN m = DOMAIN s.positions
      /\ \A i \in DOMAIN s.positions : SameButMark(s.positions[i], m[i])
      /\ Net(m) = Net(s.positions) /\ Earned(m) = Earned(s.positions)
  BY <1>1, <1>6, Marked
<1>8. f = [s EXCEPT !.positions = m]
  OBVIOUS
<1> HIDE DEF m, f
<1>9. /\ f \in Books /\ f.orders = s.orders /\ f.positions = m /\ f.balance = s.balance
      /\ f.trades = s.trades
  BY <1>6, <1>7, <1>8 DEF Books
<1>10. Keeps(Book, w.book) /\ Keeps(Book, f) /\ f.orders = w.book.orders
  <2>1. Keeps(Book, w.book) /\ Keeps(w.book, s) /\ s.orders = w.book.orders
    BY <1>2, <1>5 DEF Walked, Stopped
  <2> QED
    BY <1>7, <1>9, <2>1 DEF Keeps, Reconciles, Even
<1>11. /\ Book' \in Books /\ BalanceReconciles' /\ TradesExplainExposure' /\ orders' = w.book.orders
  <2>1. CASE w.threw
    BY <1>3, <1>10, <2>1, MoneyKept
  <2>2. CASE ~w.threw
    BY <1>3, <1>10, <2>2, MoneyKept
  <2> QED
    BY <2>1, <2>2
<1>12. TypeInv'
  BY <1>3, <1>11 DEF IInv, TypeInv
<1>13. Answered'
  <2>1. /\ RequestsOf(orders') \subseteq RequestsOf(orders)
        /\ Single(orders) => Single(orders')
    BY <1>1, <1>2, <1>11 DEF Walked
  <2> QED
    BY <1>3, <2>1 DEF IInv, Answered
<1>14. ASSUME lastUpdate' = "completed", NEW i \in DOMAIN positions', IsOpen(positions[i]')
       PROVE  ~StopReached(positions[i])' /\ ~TargetReached(positions[i])'
  <2> DEFINE p == m[i]
  <2>1. ~w.threw
    BY <1>3, <1>4, <1>14
  <2>2. positions' = m
    BY <1>3, <1>9, <2>1 DEF SetBook
  <2>3. i \in DOMAIN s.positions /\ p \in Position /\ SameButMark(s.positions[i], p) /\ IsOpen(p)
    BY <1>7, <1>14, <2>2
  <2>4. ~Hit(s.positions[i], b)
    <3>1. i \in DOMAIN w.book.positions /\ i <= Len(w.book.positions)
      BY <1>4, <1>5, <2>3 DEF Stopped, Books
    <3> QED
      BY <1>5, <3>1 DEF Stopped
  <2>5. ~StopHit(p, b) /\ ~TargetHit(p, b)
    BY <2>3, <2>4 DEF Hit, StopHit, TargetHit, SameButMark, IsOpen
  <2>6. /\ p.dir \in {"BUY", "SELL"} /\ p.sl \in Int /\ p.tp \in Int /\ b + Spread \in Int
    BY <1>1, <2>3, Numbers DEF Position, Directions
  <2> HIDE DEF p
  <2>7. /\ ~(p.sl # Absent /\ IF p.dir = "BUY" THEN b <= p.sl ELSE b + Spread >= p.sl)
        /\ ~(p.tp # Absent /\ IF p.dir = "BUY" THEN b >= p.tp ELSE b + Spread <= p.tp)
    <3>1. CASE p.dir = "BUY"
      BY <1>1, <2>5, <2>6, <3>1 DEF StopHit, TargetHit, Sign, MarkPrice
    <3>2. CASE p.dir = "SELL"
      BY <1>1, <2>5, <2>6, <3>2 DEF StopHit, TargetHit, Sign, MarkPrice
    <3> QED
      BY <2>6, <3>1, <3>2
  <2> QED
    BY <1>3, <2>2, <2>7 DEF StopReached, TargetReached, p
<1>15. ASSUME lastUpdate' = "aborted"
       PROVE  \E i \in DOMAIN orders' : /\ orders'[i].status = "PENDING" /\ Triggered(orders'[i], bid')
                                        /\ FillThrows(AsMarket(orders'[i]), bid')
  <2>1. w.threw
    BY <1>3, <1>4, <1>15
  <2>2. Stuck(orders', b)
    BY <1>2, <1>11, <2>1 DEF Walked
  <2> QED
    BY <1>3, <2>2 DEF Stuck
<1>16. StopsHonoured'
  BY <1>14, <1>15 DEF StopsHonoured
<1> QED
  BY <1>11, <1>12, <1>13, <1>16 DEF IInv

\* The marks, on their own and for a snapshot.
LEMMA MarkKeeps ==
  ASSUME IInv, positions' = MarkAll(positions, bid),
         UNCHANGED <<bid, balance, orders, trades, processed, restarts, lastUpdate>>,
         saved' = saved \/ saved' = [Book EXCEPT !.positions = positions', !.trades = <<>>]
  PROVE  IInv'
<1>1. /\ balance \in Int /\ orders \in Seq(Order) /\ positions \in Seq(Position) /\ trades \in Seq(Trade)
      /\ bid \in Int
  BY Numbers, BookParts DEF IInv, TypeInv
<1>2. /\ positions' \in Seq(Position) /\ DOMAIN positions' = DOMAIN positions
      /\ \A i \in DOMAIN positions : SameButMark(positions[i], positions'[i])
      /\ Net(positions') = Net(positions) /\ Earned(positions') = Earned(positions)
  BY <1>1, Marked
<1>3. Book' \in Books /\ (Reconciles(Book))'
  <2>1. Book' \in Books
    BY <1>1, <1>2 DEF Book, Books
  <2>2. Reconciles(Book)
    BY DEF IInv, BalanceReconciles
  <2> QED
    BY <1>2, <2>1, <2>2 DEF Reconciles, Book
<1>4. saved' \in Books /\ Reconciles(saved')
  <2>1. CASE saved' = saved
    BY <2>1 DEF IInv, TypeInv, BalanceReconciles
  <2>2. CASE saved' = [Book EXCEPT !.positions = positions', !.trades = <<>>]
    <3>1. saved' = [balance |-> balance, orders |-> orders, positions |-> positions', trades |-> <<>>]
      BY <2>2 DEF Book
    <3>2. Reconciles(Book)
      BY DEF IInv, BalanceReconciles
    <3>3. saved' \in Books
      BY <1>1, <1>2, <3>1 DEF Books
    <3> QED
      BY <1>2, <3>1, <3>2, <3>3 DEF Reconciles, Book
  <2> QED
    BY <2>1, <2>2
<1>5. TypeInv' /\ BalanceReconciles'
  BY <1>3, <1>4 DEF IInv, TypeInv, BalanceReconciles
<1>6. TradesExplainExposure' /\ Answered'
  BY <1>2 DEF IInv, TradesExplainExposure, Answered
<1>7. StopsHonoured'
  BY <1>2, HonouredStill DEF IInv
<1> QED
  BY <1>5, <1>6, <1>7 DEF IInv

\* What the books of a new account come to.
LEMMA NewBookIsFine ==
  /\ NewBook \in Books /\ Reconciles(NewBook)
  /\ Net(<<>>) = 0 /\ Single(<<>>) /\ RequestsOf(<<>>) = {}
<1>1. StartingBalance * Leverage \in Int
  BY Numbers
<1>2. NewBook \in Books
  BY <1>1 DEF NewBook, Books
<1>3. \A f : DOMAIN f = {} => SumFunction(f) = 0
  BY SumNone DEF SumFunction
<1>4. Earned(<<>>) = 0 /\ Net(<<>>) = 0
  BY <1>3 DEF Earned, Net
<1>5. Single(<<>>) /\ RequestsOf(<<>>) = {}
  BY DEF Single, RequestsOf
<1> QED
  BY <1>1, <1>2, <1>4, <1>5 DEF Reconciles, NewBook

\* A new process.
LEMMA RestartKeeps == ASSUME IInv, Restart PROVE IInv'
<1> DEFINE f == [saved EXCEPT !.positions = MarkAll(@, DefaultBid), !.trades = <<>>]
           m == MarkAll(saved.positions, DefaultBid)
<1>1. saved \in Books /\ DefaultBid \in Int /\ restarts \in Nat /\ Reconciles(saved)
  BY Numbers DEF IInv, TypeInv, BalanceReconciles
<1>2. m \in Seq(Position) /\ Earned(m) = Earned(saved.positions)
  BY <1>1, Marked DEF Books
<1>3. f = [saved EXCEPT !.positions = m, !.trades = <<>>]
  OBVIOUS
<1>4. SetBook(f)
  BY DEF Restart
<1> HIDE DEF f, m
<1>5. f \in Books /\ f.positions = m /\ f.balance = saved.balance
  <2>2. <<>> \in Seq(Trade)
    OBVIOUS
  <2> PICK ts \in Seq(Trade) : ts = <<>>
    BY <2>2, Zenon
  <2>1. f = [saved EXCEPT !.positions = m, !.trades = ts]
    BY <1>3
  <2> QED
    BY <1>1, <1>2, <2>1 DEF Books
<1>6. Reconciles(f)
  BY <1>1, <1>2, <1>5 DEF Reconciles
<1>7. Book' = f
  BY <1>4, <1>5, BookSet
<1>8. saved' \in Books /\ Reconciles(saved')
  BY <1>1, NewBookIsFine DEF Restart
<1>9. restarts' \in Nat /\ restarts' # 0
  BY <1>1 DEF Restart
<1>10. TypeInv'
  BY <1>5, <1>7, <1>8, <1>9, Numbers DEF Restart, TypeInv
<1>11. BalanceReconciles' /\ TradesExplainExposure' /\ Answered'
  BY <1>6, <1>7, <1>8, <1>9 DEF BalanceReconciles, TradesExplainExposure, Answered
<1>12. StopsHonoured'
  BY DEF Restart, StopsHonoured
<1> QED
  BY <1>10, <1>11, <1>12 DEF IInv

\* The first process starts in order.
LEMMA InitIInv == Init => IInv
<1> SUFFICES ASSUME Init PROVE IInv
  OBVIOUS
<1>1. Book = NewBook /\ saved = NewBook
  BY DEF Init, Book, NewBook
<1>2. TypeInv
  BY <1>1, NewBookIsFine, Numbers DEF Init, TypeInv
<1>3. BalanceReconciles
  BY <1>1, NewBookIsFine DEF BalanceReconciles
<1>4. TradesExplainExposure /\ Answered
  BY NewBookIsFine DEF Init, TradesExplainExposure, Answered
<1>5. StopsHonoured
  BY DEF Init, StopsHonoured
<1> QED
  BY <1>2, <1>3, <1>4, <1>5 DEF IInv

\* Every step keeps the invariant.
LEMMA StepIInv == IInv /\ [Next]_vars => IInv'
<1> SUFFICES ASSUME IInv, [Next]_vars PROVE IInv'
  OBVIOUS
<1>1. ASSUME NEW q \in Requests(Types \cap {"MARKET"}), PlaceMarketOrder(q) PROVE IInv'
  BY <1>1, PlaceMarketKeeps
<1>2. ASSUME NEW q \in Requests(Types \ {"MARKET"}), NEW price \in Triggers, PlacePendingOrder(q, price)
      PROVE  IInv'
  BY <1>2, PlacePendingKeeps
<1>3. ASSUME NEW r \in RequestIds, ReplayRequest(r) PROVE IInv'
  BY <1>3 DEF ReplayRequest, IInv, TypeInv, Book, BalanceReconciles, TradesExplainExposure, Answered,
              StopsHonoured
<1>4. ASSUME NEW i \in 1..MaxOrders, NEW price \in Triggers, NEW sl \in Stops \cup {Absent},
             NEW vol \in Volumes, ModifyOrder(i, price, sl, vol)
      PROVE  IInv'
  BY <1>4, ModifyOrderKeeps
<1>5. ASSUME NEW i \in 1..MaxOrders, CancelOrder(i) PROVE IInv'
  BY <1>5, CancelOrderKeeps
<1>6. ASSUME NEW i \in 1..MaxPositions, NEW sl \in Stops \cup {Absent, Keep},
             NEW trail \in Trails \cup {Absent}, NEW tp \in Targets \cup {Absent},
             ModifyPosition(i, sl, trail, tp)
      PROVE  IInv'
  BY <1>6, ModifyPositionKeeps
<1>7. ASSUME NEW i \in 1..MaxPositions, ClosePosition(i) PROVE IInv'
  BY <1>7, ClosePositionKeeps
<1>8. ASSUME NEW i \in 1..MaxPositions, NEW vol \in 1..MaxVolume, PartialClosePosition(i, vol) PROVE IInv'
  BY <1>8, PartialCloseKeeps
<1>9. ASSUME NEW b \in Bids, UpdateMarketPrices(b) PROVE IInv'
  BY <1>9, UpdateKeeps
<1>10. ASSUME MarkToMarket PROVE IInv'
  BY <1>10, MarkKeeps DEF MarkToMarket
<1>11. ASSUME Persist PROVE IInv'
  BY <1>11, MarkKeeps DEF Persist
<1>12. ASSUME Disconnect \/ UNCHANGED vars PROVE IInv'
  <2>1. UNCHANGED <<bid, balance, orders, positions, trades, processed, saved, restarts, lastUpdate>>
    BY <1>12 DEF Disconnect, vars
  <2> QED
    BY <2>1 DEF IInv, TypeInv, Book, BalanceReconciles, TradesExplainExposure, Answered, StopsHonoured,
                StopReached, TargetReached
<1>13. ASSUME Restart PROVE IInv'
  BY <1>13, RestartKeeps
<1> QED
  BY <1>1, <1>2, <1>3, <1>4, <1>5, <1>6, <1>7, <1>8, <1>9, <1>10, <1>11, <1>12, <1>13 DEF Next

\* The books are always in order: whatever is called in whatever order, fills,
\* partial and full closes, stops, rejections and restarts make and lose no money
\* beside what the positions earned (balance of paper-adapter.ts).
THEOREM MoneyIsKept == Spec => []BalanceReconciles
<1>1. IInv => BalanceReconciles
  BY DEF IInv
<1> QED
  BY <1>1, InitIInv, StepIInv, PTL DEF Spec

\* The trade history of a process explains its exposure: no close is booked twice
\* or for more than was left (trades of paper-adapter.ts).
THEOREM TradesExplain == Spec => []TradesExplainExposure
<1>1. IInv => TradesExplainExposure
  BY DEF IInv
<1> QED
  BY <1>1, InitIInv, StepIInv, PTL DEF Spec

\* When a price update has returned no open position is beyond its stop or target,
\* unless a pending order that throws cut it short.
THEOREM StopsAreHonoured == Spec => []StopsHonoured
<1>1. IInv => StopsHonoured
  BY DEF IInv
<1> QED
  BY <1>1, InitIInv, StepIInv, PTL DEF Spec

\* A client request id is filled at most once in the life of a process
\* (processedRequestIds of paper-adapter.ts).
THEOREM FilledOnce == Spec => []OneFillPerRequest
<1>1. IInv => OneFillPerRequest
  <2> SUFFICES ASSUME IInv, restarts = 0, NEW r \in RequestIds
               PROVE  Cardinality({i \in DOMAIN orders : orders[i].type = "MARKET" /\ orders[i].req = r}) <= 1
    BY DEF OneFillPerRequest
  <2> DEFINE S == {i \in DOMAIN orders : orders[i].type = "MARKET" /\ orders[i].req = r}
  <2>1. \A i, j \in S : i = j
    BY DEF IInv, Answered, Single
  <2>2. ASSUME S = {} PROVE Cardinality(S) <= 1
    BY <2>2, FS_EmptySet
  <2>3. ASSUME S # {} PROVE Cardinality(S) <= 1
    <3>1. PICK i \in S : TRUE
      BY <2>3
    <3>2. S = {i}
      BY <2>1
    <3> HIDE DEF S
    <3>3. Cardinality(S) = 1
      BY <3>2, FS_Singleton, Zenon
    <3> QED
      BY <3>3
  <2> HIDE DEF S
  <2> QED
    BY <2>2, <2>3 DEF S
<1> QED
  BY <1>1, InitIInv, StepIInv, PTL DEF Spec

-----------------------------------------------------------------------------
(***************************************************************************)
(* The accounts and their adapters: the state                              *)
(***************************************************************************)
Pin == Pins \cup Subs \cup {None}
Row == [conn : {"DISCONNECTED", "CONNECTING", "CONNECTED", "ERROR"}, pin : Pin, archived : BOOLEAN]
Adapter == [pin : Pin, up : BOOLEAN, cred : Nat]
Kind == {"connect", "disconnect", "sync", "bind", "archive", "creds", "ready",
         "tick", "warm", "boot", None}
\* The awaits.
Names ==
  {"enter", "leave", "drop", "load", "pick", "opened", "get", "connecting", "adapter", "health",
   "alive", "state", "siblings", "richest", "connected", "persist", "persisted", "stash",
   "disconnected", "error", "synced", "bind", "bound", "archived", "forget", "store", "warmed",
   "end"}

Operation ==
  [kind : Kind, acct : Accounts \cup {None}, seen : Row \cup {None}, target : Subs \cup {None},
   todo : Seq(Names), mine : Handles \cup {None}, bound : Pin, cur : Pin, taken : SUBSET Pin,
   healthy : BOOLEAN, alone : BOOLEAN]

\* What is done with the adapter of the operation, and what gives it one.
Uses == {"leave", "pick", "opened", "health", "alive", "state", "siblings", "richest",
         "bind"}
Gives == {"adapter", "enter", "load"}

\* The list comes to an adapter before it works with one.
Due(t) == \A i \in 1..Len(t) : t[i] \in Uses => \E j \in 1..(i - 1) : t[j] \in Gives

\* An operation under way has its account and its row, and an adapter to work with.
Equipped(o) ==
  o.todo # <<>> => o.acct \in Accounts /\ o.seen \in Row /\ (o.mine \in Handles \/ Due(o.todo))

AccountsTypeOK ==
  /\ row \in [Accounts -> Row] /\ cred \in [Accounts -> Nat]
  /\ registry \in [Accounts -> Handles \cup {None}]
  /\ adapter \in [Handles -> Adapter]
  /\ refs \in [Accounts -> Pin]
  /\ op \in [Procs -> Operation]
  /\ booting \in SUBSET Accounts
  /\ asks \in Nat /\ faults \in Nat

\* An adapter belongs to one account: the registry has it there, or an operation
\* of that account.
Owner(h, a) == registry[a] = h \/ \E p \in Procs : op[p].acct = a /\ op[p].mine = h
OneOwner == \A h \in Handles : \A a, b \in Accounts : Owner(h, a) /\ Owner(h, b) => a = b

\* An operation that has been alone so far is the only one of its account.
Lonely ==
  \A p, q \in Procs :
    op[p].alone /\ ~Idle(p) /\ ~Idle(q) /\ op[p].acct = op[q].acct => p = q

\* What connect has still to do, from each of its steps on.
EndOn == <<"end">>
PersistOn == <<"persist">> \o EndOn
PersistedOn == <<"persisted">> \o EndOn
ConnectedOn == <<"connected">> \o PersistOn
RichestOn == <<"richest">> \o ConnectedOn
SiblingsOn == <<"siblings">> \o ConnectedOn
StateOn == <<"state">> \o SiblingsOn
HealthOn == <<"health">> \o StateOn
OpenedOn == <<"opened">> \o HealthOn
PickOn == <<"pick">> \o OpenedOn
LoadOn == <<"load">> \o HealthOn
DropOn == <<"drop">> \o LoadOn
LeaveOn == <<"leave">> \o DropOn
EnterOn == <<"enter">> \o HealthOn
ConnectingOn == <<"connecting">> \o EnterOn

\* And what comes before it when the credentials are new.
GetOn == <<"get">> \o ConnectingOn
DisconnectedOn == <<"disconnected">> \o GetOn
StoreOn == <<"store">> \o DisconnectedOn
ForgetOn == <<"forget">> \o StoreOn
ForgetDropOn == <<"drop">> \o ForgetOn
ForgetLeaveOn == <<"leave">> \o ForgetDropOn
ForgetPersistedOn == <<"persisted">> \o ForgetLeaveOn
StashOn == <<"stash">> \o ForgetOn

\* The registered adapter is the one the operation works with, and its
\* credentials are the stored ones if they are new.
Served(o) ==
  /\ o.mine \in Handles /\ registry[o.acct] = o.mine
  /\ o.kind = "creds" => adapter[o.mine].cred = cred[o.acct]

\* The adapter is on the sub-account pin, if there is one, or was found without.
Settled(o, pin) ==
  pin \in {None, adapter[o.mine].pin} \/ (o.bound = None /\ adapter[o.mine].pin = Best(Subs))

\* A connect that is alone, step by step.
ConnectAt(o) ==
  \/ /\ o.todo \in {StashOn, ForgetPersistedOn, ForgetLeaveOn, ForgetDropOn, ForgetOn}
     /\ o.kind = "creds"
  \/ o.todo \in {StoreOn, DisconnectedOn, GetOn} /\ o.kind = "creds" /\ registry[o.acct] = None
  \/ o.todo \in {ConnectingOn, EnterOn} /\ (o.kind = "creds" => registry[o.acct] = None)
  \/ o.todo \in {LeaveOn, DropOn} /\ o.kind = "connect"
  \/ o.todo = LoadOn
  \/ /\ o.todo \in {PickOn, OpenedOn} /\ o.mine \in Handles
     /\ adapter[o.mine].cred = cred[o.acct] /\ o.seen.pin \in {None, adapter[o.mine].pin}
  \/ /\ o.todo = HealthOn /\ Served(o)
     /\ o.seen.pin = None \/ adapter[o.mine].pin \in {None, o.seen.pin}
  \/ /\ o.todo = StateOn /\ Served(o)
     /\ o.seen.pin = None \/ adapter[o.mine].pin \in {None, o.seen.pin}
     /\ o.bound \in {None, adapter[o.mine].pin}
  \/ /\ o.todo \in {SiblingsOn, RichestOn, ConnectedOn} /\ Served(o)
     /\ o.bound \in {None, adapter[o.mine].pin} /\ Settled(o, o.seen.pin)
     /\ o.todo = RichestOn => o.seen.pin = None
  \/ /\ o.todo \in {PersistOn, PersistedOn, EndOn} /\ Served(o)
     /\ Settled(o, row[o.acct].pin)
  \/ o.todo = <<"error">>

Connects(o) == o.kind \in {"connect", "creds"} /\ o.alone /\ o.todo # <<>>

AccountsInv ==
  /\ AccountsTypeOK
  /\ \A p \in Procs : Equipped(op[p])
  /\ OneOwner
  /\ Lonely
  /\ \A p \in Procs : Connects(op[p]) => ConnectAt(op[p])
-----------------------------------------------------------------------------

(***************************************************************************)
(* Lists of steps                                                          *)
(***************************************************************************)
\* A step and what follows it.
LEMMA OneMore ==
  ASSUME NEW S, NEW x \in S, NEW s \in Seq(S)
  PROVE  /\ <<x>> \o s \in Seq(S) /\ <<x>> \o s # <<>>
         /\ Head(<<x>> \o s) = x /\ Tail(<<x>> \o s) = s
         /\ Len(<<x>> \o s) = Len(s) + 1 /\ (<<x>> \o s)[1] = x
         /\ \A i \in 1..Len(s) : (<<x>> \o s)[i + 1] = s[i]
<1> DEFINE t == <<x>> \o s
<1>1. <<x>> \in Seq(S) /\ Len(<<x>>) = 1 /\ <<x>>[1] = x
  OBVIOUS
<1>2. t \in Seq(S) /\ Len(t) = 1 + Len(s) /\ t[1] = x /\ \A i \in 1..Len(s) : t[i + 1] = s[i]
  BY <1>1
<1> HIDE DEF t
<1>3. t # <<>> /\ Head(t) = x
  BY <1>2
<1>4. Tail(t) \in Seq(S) /\ Len(Tail(t)) = Len(s) /\ \A i \in 1..Len(s) : Tail(t)[i] = s[i]
  BY <1>2, <1>3
<1>5. Tail(t) = s
  BY <1>4, SeqEqual
<1> QED
  BY <1>2, <1>3, <1>5 DEF t

\* The first of some steps, and what follows it.
LEMMA FirstOf ==
  ASSUME NEW S, NEW u \in Seq(S), u # <<>>, NEW s \in Seq(S)
  PROVE  /\ u = <<Head(u)>> \o Tail(u)
         /\ u \o s = <<Head(u)>> \o (Tail(u) \o s)
<1>1. Head(u) \in S /\ Tail(u) \in Seq(S) /\ Len(Tail(u)) + 1 = Len(u) /\ u[1] = Head(u)
      /\ \A i \in 1..Len(Tail(u)) : Tail(u)[i] = u[i + 1]
  BY HeadTailProperties
<1> DEFINE t == <<Head(u)>> \o Tail(u)
<1>2. /\ t \in Seq(S) /\ Len(t) = Len(Tail(u)) + 1 /\ t[1] = Head(u)
      /\ \A i \in 1..Len(Tail(u)) : t[i + 1] = Tail(u)[i]
  BY <1>1, OneMore
<1> HIDE DEF t
<1>3. \A i \in 1..Len(u) : i = 1 \/ (i - 1 \in 1..Len(Tail(u)) /\ i = (i - 1) + 1)
  BY <1>1
<1>4. \A i \in 1..Len(u) : u[i] = t[i]
  BY <1>1, <1>2, <1>3
<1>5. u = t
  BY <1>1, <1>2, <1>4, SeqEqual
<1>6. <<Head(u)>> \in Seq(S)
  BY <1>1
<1> QED
  BY <1>1, <1>5, <1>6, ConcatAssociative DEF t

\* Two steps, and three, before what follows.
LEMMA TwoMore ==
  ASSUME NEW S, NEW x \in S, NEW y \in S, NEW s \in Seq(S)
  PROVE  <<x, y>> \o s = <<x>> \o (<<y>> \o s)
<1>0. <<x, y>> \in Seq(S)
  OBVIOUS
<1>1. PICK u \in Seq(S) : u = <<x, y>>
  BY <1>0, Zenon
<1>2. u # <<>> /\ Head(u) = x /\ Tail(u) = <<y>>
  BY <1>1
<1>3. u \o s = <<Head(u)>> \o (Tail(u) \o s)
  BY ONLY <1>2, FirstOf, u \in Seq(S), s \in Seq(S)
<1> QED
  BY <1>1, <1>2, <1>3

\* Three elements put before a list, one after another.
LEMMA ThreeMore ==
  ASSUME NEW S, NEW x \in S, NEW y \in S, NEW z \in S, NEW s \in Seq(S)
  PROVE  <<x, y, z>> \o s = <<x>> \o (<<y>> \o (<<z>> \o s))
<1>0. <<x, y, z>> \in Seq(S)
  OBVIOUS
<1>1. PICK u \in Seq(S) : u = <<x, y, z>>
  BY <1>0, Zenon
<1>2. u # <<>> /\ Head(u) = x /\ Tail(u) = <<y, z>>
  BY <1>1
<1>3. u \o s = <<Head(u)>> \o (Tail(u) \o s)
  BY ONLY <1>2, FirstOf, u \in Seq(S), s \in Seq(S)
<1>4. <<y, z>> \o s = <<y>> \o (<<z>> \o s)
  BY TwoMore
<1> QED
  BY <1>1, <1>2, <1>3, <1>4

\* The steps of connect have names.
LEMMA Named ==
  /\ \A x \in {"connecting", "enter", "leave", "drop", "load", "pick", "opened", "health", "state",
               "siblings", "richest", "connected", "persist", "persisted", "end"} : x \in Names
  /\ \A x \in {"stash", "forget", "store", "disconnected", "get", "error"} : x \in Names
BY DEF Names

\* Where a list of connect continues.
LEMMA ConnectLists ==
  /\ {EndOn, PersistOn, PersistedOn, ConnectedOn, RichestOn, SiblingsOn, StateOn, HealthOn}
       \subseteq Seq(Names)
  /\ {OpenedOn, PickOn, LoadOn, DropOn, LeaveOn, EnterOn, ConnectingOn} \subseteq Seq(Names)
  /\ EndOn = <<"end">>
<1>1. EndOn \in Seq(Names) /\ EndOn = <<"end">>
  BY DEF EndOn, Names
<1>2. PersistOn \in Seq(Names) /\ PersistedOn \in Seq(Names)
  BY <1>1, OneMore, Named DEF PersistOn, PersistedOn
<1>3. ConnectedOn \in Seq(Names)
  BY <1>2, OneMore, Named DEF ConnectedOn
<1>4. RichestOn \in Seq(Names) /\ SiblingsOn \in Seq(Names)
  BY <1>3, OneMore, Named DEF RichestOn, SiblingsOn
<1>5. StateOn \in Seq(Names)
  BY <1>4, OneMore, Named DEF StateOn
<1>6. HealthOn \in Seq(Names)
  BY <1>5, OneMore, Named DEF HealthOn
<1>7. OpenedOn \in Seq(Names) /\ LoadOn \in Seq(Names) /\ EnterOn \in Seq(Names)
  BY <1>6, OneMore, Named DEF OpenedOn, LoadOn, EnterOn
<1>8. PickOn \in Seq(Names) /\ DropOn \in Seq(Names) /\ ConnectingOn \in Seq(Names)
  BY <1>7, OneMore, Named DEF PickOn, DropOn, ConnectingOn
<1>9. LeaveOn \in Seq(Names)
  BY <1>8, OneMore, Named DEF LeaveOn
<1> QED
  BY <1>1, <1>2, <1>3, <1>4, <1>5, <1>6, <1>7, <1>8, <1>9

\* The whole of it is what connect, and creds, begin with.
LEMMA CredsLists ==
  /\ {GetOn, DisconnectedOn, StoreOn, ForgetOn, ForgetDropOn, ForgetLeaveOn, ForgetPersistedOn,
      StashOn} \subseteq Seq(Names)
  /\ ConnectSteps = ConnectingOn
  /\ <<"stash", "forget", "store", "disconnected", "get">> \o ConnectSteps = StashOn
<1>1. GetOn \in Seq(Names)
  BY ConnectLists, OneMore, Named DEF GetOn
<1>2. DisconnectedOn \in Seq(Names)
  BY <1>1, OneMore, Named DEF DisconnectedOn
<1>3. StoreOn \in Seq(Names)
  BY <1>2, OneMore, Named DEF StoreOn
<1>4. ForgetOn \in Seq(Names)
  BY <1>3, OneMore, Named DEF ForgetOn
<1>5. ForgetDropOn \in Seq(Names) /\ StashOn \in Seq(Names)
  BY <1>4, OneMore, Named DEF ForgetDropOn, StashOn
<1>6. ForgetLeaveOn \in Seq(Names)
  BY <1>5, OneMore, Named DEF ForgetLeaveOn
<1>7. ForgetPersistedOn \in Seq(Names)
  BY <1>6, OneMore, Named DEF ForgetPersistedOn
<1>8. ConnectSteps = ConnectingOn
  <2>1. EndOn = <<"end">>
    BY DEF EndOn
  <2>2. PersistOn = <<"persist", "end">>
    <3> SUFFICES ASSUME NEW u, u = <<"persist", "end">> PROVE u = PersistOn
      OBVIOUS
    <3>1. u \in Seq(Names) /\ u # <<>> /\ Head(u) = "persist" /\ Tail(u) = <<"end">>
      BY Named
    <3>2. u = <<Head(u)>> \o Tail(u)
      BY ONLY <3>1, FirstOf
    <3> QED
      BY <2>1, <3>1, <3>2 DEF PersistOn
  <2>3. ConnectedOn = <<"connected", "persist", "end">>
    <3> SUFFICES ASSUME NEW u, u = <<"connected", "persist", "end">> PROVE u = ConnectedOn
      OBVIOUS
    <3>1. u \in Seq(Names) /\ u # <<>> /\ Head(u) = "connected" /\ Tail(u) = <<"persist", "end">>
      BY Named
    <3>2. u = <<Head(u)>> \o Tail(u)
      BY ONLY <3>1, FirstOf
    <3> QED
      BY <2>2, <3>1, <3>2 DEF ConnectedOn
  <2>4. SiblingsOn = <<"siblings", "connected", "persist", "end">>
    <3> SUFFICES ASSUME NEW u, u = <<"siblings", "connected", "persist", "end">>
        PROVE u = SiblingsOn
      OBVIOUS
    <3>1. u \in Seq(Names) /\ u # <<>> /\ Head(u) = "siblings" /\
         Tail(u) = <<"connected", "persist", "end">>
      BY Named
    <3>2. u = <<Head(u)>> \o Tail(u)
      BY ONLY <3>1, FirstOf
    <3> QED
      BY <2>3, <3>1, <3>2 DEF SiblingsOn
  <2>5. StateOn = <<"state", "siblings", "connected", "persist", "end">>
    <3> SUFFICES ASSUME NEW u, u = <<"state", "siblings", "connected", "persist", "end">>
        PROVE u = StateOn
      OBVIOUS
    <3>1. u \in Seq(Names) /\ u # <<>> /\ Head(u) = "state" /\
         Tail(u) = <<"siblings", "connected", "persist", "end">>
      BY Named
    <3>2. u = <<Head(u)>> \o Tail(u)
      BY ONLY <3>1, FirstOf
    <3> QED
      BY <2>4, <3>1, <3>2 DEF StateOn
  <2>6. HealthOn = <<"health", "state", "siblings", "connected", "persist", "end">>
    <3> SUFFICES ASSUME NEW u, u = <<"health", "state", "siblings", "connected", "persist", "end">>
        PROVE u = HealthOn
      OBVIOUS
    <3>1. u \in Seq(Names) /\ u # <<>> /\ Head(u) = "health" /\
         Tail(u) = <<"state", "siblings", "connected", "persist", "end">>
      BY Named
    <3>2. u = <<Head(u)>> \o Tail(u)
      BY ONLY <3>1, FirstOf
    <3> QED
      BY <2>5, <3>1, <3>2 DEF HealthOn
  <2>7. EnterOn = <<"enter", "health", "state", "siblings", "connected", "persist", "end">>
    <3> SUFFICES ASSUME NEW u, u = <<"enter", "health", "state", "siblings", "connected", "persist", "end">>
        PROVE u = EnterOn
      OBVIOUS
    <3>1. u \in Seq(Names) /\ u # <<>> /\ Head(u) = "enter" /\
         Tail(u) = <<"health", "state", "siblings", "connected", "persist", "end">>
      BY Named
    <3>2. u = <<Head(u)>> \o Tail(u)
      BY ONLY <3>1, FirstOf
    <3> QED
      BY <2>6, <3>1, <3>2 DEF EnterOn
  <2>8. ConnectingOn = <<"connecting", "enter", "health", "state", "siblings", "connected", "persist", "end">>
    <3> SUFFICES ASSUME NEW u, u = <<"connecting", "enter", "health", "state", "siblings", "connected", "persist", "end">>
        PROVE u = ConnectingOn
      OBVIOUS
    <3>1. u \in Seq(Names) /\ u # <<>> /\ Head(u) = "connecting" /\
         Tail(u) = <<"enter", "health", "state", "siblings", "connected", "persist", "end">>
      BY Named
    <3>2. u = <<Head(u)>> \o Tail(u)
      BY ONLY <3>1, FirstOf
    <3> QED
      BY <2>7, <3>1, <3>2 DEF ConnectingOn
  <2> QED
    BY <2>8 DEF ConnectSteps
<1>9. <<"get">> \o ConnectSteps = GetOn
  BY <1>8 DEF GetOn
<1>10. <<"disconnected", "get">> \o ConnectSteps = DisconnectedOn
  <2> SUFFICES ASSUME NEW u, u = <<"disconnected", "get">> PROVE u \o ConnectSteps = DisconnectedOn
    OBVIOUS
  <2>1. u \in Seq(Names) /\ u # <<>> /\ Head(u) = "disconnected" /\ Tail(u) = <<"get">>
    BY Named
  <2>2. ConnectSteps \in Seq(Names)
    BY <1>8, ConnectLists
  <2>3. u \o ConnectSteps = <<Head(u)>> \o (Tail(u) \o ConnectSteps)
    BY ONLY <2>1, <2>2, FirstOf
  <2> QED
    BY <1>9, <2>1, <2>3 DEF DisconnectedOn
<1>11. <<"store", "disconnected", "get">> \o ConnectSteps = StoreOn
  <2> SUFFICES ASSUME NEW u, u = <<"store", "disconnected", "get">> PROVE u \o ConnectSteps = StoreOn
    OBVIOUS
  <2>1. u \in Seq(Names) /\ u # <<>> /\ Head(u) = "store" /\ Tail(u) = <<"disconnected", "get">>
    BY Named
  <2>2. ConnectSteps \in Seq(Names)
    BY <1>8, ConnectLists
  <2>3. u \o ConnectSteps = <<Head(u)>> \o (Tail(u) \o ConnectSteps)
    BY ONLY <2>1, <2>2, FirstOf
  <2> QED
    BY <1>10, <2>1, <2>3 DEF StoreOn
<1>12. <<"forget", "store", "disconnected", "get">> \o ConnectSteps = ForgetOn
  <2> SUFFICES ASSUME NEW u, u = <<"forget", "store", "disconnected", "get">> PROVE u \o ConnectSteps = ForgetOn
    OBVIOUS
  <2>1. u \in Seq(Names) /\ u # <<>> /\ Head(u) = "forget" /\
       Tail(u) = <<"store", "disconnected", "get">>
    BY Named
  <2>2. ConnectSteps \in Seq(Names)
    BY <1>8, ConnectLists
  <2>3. u \o ConnectSteps = <<Head(u)>> \o (Tail(u) \o ConnectSteps)
    BY ONLY <2>1, <2>2, FirstOf
  <2> QED
    BY <1>11, <2>1, <2>3 DEF ForgetOn
<1>13. <<"stash", "forget", "store", "disconnected", "get">> \o ConnectSteps = StashOn
  <2> SUFFICES ASSUME NEW u, u = <<"stash", "forget", "store", "disconnected", "get">> PROVE u \o ConnectSteps = StashOn
    OBVIOUS
  <2>1. u \in Seq(Names) /\ u # <<>> /\ Head(u) = "stash" /\
       Tail(u) = <<"forget", "store", "disconnected", "get">>
    BY Named
  <2>2. ConnectSteps \in Seq(Names)
    BY <1>8, ConnectLists
  <2>3. u \o ConnectSteps = <<Head(u)>> \o (Tail(u) \o ConnectSteps)
    BY ONLY <2>1, <2>2, FirstOf
  <2> QED
    BY <1>12, <2>1, <2>3 DEF StashOn
<1> QED
  BY <1>1, <1>2, <1>3, <1>4, <1>5, <1>6, <1>7, <1>8, <1>13
-----------------------------------------------------------------------------

(***************************************************************************)
(* An operation comes to an adapter before it works with one               *)
(***************************************************************************)
\* A list that does goes on doing so without its first step, unless that gave the
\* adapter, and with a step before it that uses none or gives one.
LEMMA DueRest ==
  ASSUME NEW t \in Seq(Names), t # <<>>, Due(t)
  PROVE  Head(t) \notin Uses /\ (Head(t) \notin Gives => Due(Tail(t)))
<1>1. /\ Tail(t) \in Seq(Names) /\ Len(Tail(t)) + 1 = Len(t) /\ Len(Tail(t)) \in Nat
      /\ t[1] = Head(t) /\ \A i \in 1..Len(Tail(t)) : Tail(t)[i] = t[i + 1]
  BY HeadTailProperties, LenProperties
<1>2. Head(t) \notin Uses
  BY <1>1 DEF Due
<1>3. ASSUME Head(t) \notin Gives PROVE Due(Tail(t))
  <2> SUFFICES ASSUME NEW i \in 1..Len(Tail(t)), Tail(t)[i] \in Uses
               PROVE  \E j \in 1..(i - 1) : Tail(t)[j] \in Gives
    BY DEF Due
  <2>1. PICK j \in 1..i : t[j] \in Gives
    BY <1>1 DEF Due
  <2>2. j # 1 /\ j - 1 \in 1..(i - 1) /\ j - 1 \in 1..Len(Tail(t)) /\ (j - 1) + 1 = j
    BY <1>1, <1>3, <2>1
  <2>3. Tail(t)[j - 1] \in Gives
    BY <1>1, <2>1, <2>2
  <2> QED
    BY <2>2, <2>3
<1> QED
  BY <1>2, <1>3

\* A step in front of the rest: it brings an adapter, or needs none.
LEMMA DueMore ==
  ASSUME NEW x \in Names, NEW t \in Seq(Names), x \in Gives \/ (x \notin Uses /\ Due(t))
  PROVE  Due(<<x>> \o t)
<1> DEFINE u == <<x>> \o t
<1>1. /\ u \in Seq(Names) /\ Len(u) = Len(t) + 1 /\ Len(t) \in Nat /\ u[1] = x
      /\ \A i \in 1..Len(t) : u[i + 1] = t[i]
  BY OneMore, LenProperties
<1> HIDE DEF u
<1>2. Due(u)
  <2> SUFFICES ASSUME NEW i \in 1..Len(u), u[i] \in Uses
               PROVE  \E j \in 1..(i - 1) : u[j] \in Gives
    BY DEF Due
  <2>1. i # 1
    BY <1>1 DEF Uses, Gives
  <2>2. i - 1 \in 1..Len(t) /\ (i - 1) + 1 = i
    BY <1>1, <2>1
  <2>3. CASE x \in Gives
    BY <1>1, <2>2, <2>3
  <2>4. CASE x \notin Uses /\ Due(t)
    <3>1. t[i - 1] \in Uses
      BY <1>1, <2>2
    <3>2. PICK j \in 1..(i - 2) : t[j] \in Gives
      BY <2>2, <2>4, <3>1 DEF Due
    <3>3. j + 1 \in 1..(i - 1) /\ u[j + 1] \in Gives
      BY <1>1, <2>2, <3>2
    <3> QED
      BY <3>3
  <2> QED
    BY <2>3, <2>4
<1> QED
  BY <1>2 DEF u

-----------------------------------------------------------------------------
(***************************************************************************)
(* One step of one operation                                               *)
(***************************************************************************)
\* What the step leaves: the operation is over, or has t to do and is otherwise o.
Advanced(p, o, t) ==
  /\ op' \in [Procs -> Operation] /\ op' = [op EXCEPT ![p] = op'[p]]
  /\ \/ t = <<>> /\ op'[p] = Over
     \/ /\ t # <<>> /\ op'[p].todo = t
        /\ op'[p].kind = o.kind /\ op'[p].acct = o.acct /\ op'[p].alone = o.alone
        /\ op'[p].seen = o.seen /\ op'[p].mine = o.mine /\ op'[p].bound = o.bound
        /\ op'[p].target = o.target /\ op'[p].healthy = o.healthy

\* Another view of the same operation at the same step.
Alike(o, b) ==
  /\ o \in Operation /\ o.todo = b.todo /\ o.acct = b.acct /\ o.kind = b.kind
  /\ o.alone = b.alone /\ o.seen \in Row

\* The record of a process without an operation.
LEMMA OverTyped == Over \in Operation /\ Over.todo = <<>> /\ Over.mine = None /\ Over.acct = None
BY DEF Over, Operation, Kind, Pin

\* Going on with other steps before the rest.
LEMMA Goes ==
  ASSUME AccountsTypeOK, NEW p \in Procs, op[p].todo # <<>>, NEW o, Alike(o, op[p]),
         NEW s \in Seq(Names), On(p, o, s)
  PROVE  Advanced(p, o, s \o Tail(op[p].todo)) /\ s \o Tail(op[p].todo) \in Seq(Names)
<1>1. op \in [Procs -> Operation] /\ o \in Operation /\ o.todo \in Seq(Names)
  BY DEF AccountsTypeOK, Alike, Operation
<1>2. Tail(o.todo) \in Seq(Names)
  BY <1>1, HeadTailProperties DEF Alike
<1>3. PICK t \in Seq(Names) : t = s \o Tail(o.todo)
  BY <1>2, ConcatProperties, Zenon
<1>4. PICK u \in Operation : u = [o EXCEPT !.todo = t]
  <2>1. [o EXCEPT !.todo = t] \in Operation
    BY <1>1 DEF Operation
  <2> QED
    BY <2>1, Zenon
<1>5. op' = [op EXCEPT ![p] = IF t = <<>> THEN Over ELSE u]
  BY <1>3, <1>4 DEF On, Rest
<1>6. op' \in [Procs -> Operation] /\ op'[p] = (IF t = <<>> THEN Over ELSE u)
  BY <1>1, <1>5, OverTyped
<1>7. op' = [op EXCEPT ![p] = op'[p]]
  BY <1>5, <1>6
<1>8. /\ u.todo = t /\ u.kind = o.kind /\ u.acct = o.acct /\ u.alone = o.alone /\ u.seen = o.seen
      /\ u.mine = o.mine /\ u.bound = o.bound /\ u.target = o.target /\ u.healthy = o.healthy
  BY <1>1, <1>4 DEF Operation
<1> QED
  BY <1>3, <1>6, <1>7, <1>8 DEF Advanced, Alike

\* An exception: the handler writes the error, or it is over.
LEMMA Throws ==
  ASSUME AccountsTypeOK, NEW p \in Procs, op[p].todo # <<>>, Throw(p)
  PROVE  \E t \in {<<>>, <<"error">>} : Advanced(p, op[p], t)
<1>1. op \in [Procs -> Operation] /\ op[p] \in Operation
  BY DEF AccountsTypeOK
<1>2. PICK u \in Operation : u = [op[p] EXCEPT !.todo = <<"error">>]
  <2>1. <<"error">> \in Seq(Names)
    BY Named
  <2>2. [op[p] EXCEPT !.todo = <<"error">>] \in Operation
    BY <1>1, <2>1 DEF Operation
  <2> QED
    BY <2>2, Zenon
<1>3. op' = [op EXCEPT ![p] = IF op[p].kind \in Catches THEN u ELSE Over]
  BY <1>1, <1>2 DEF Throw
<1>4. /\ op' \in [Procs -> Operation] /\ op'[p] = (IF op[p].kind \in Catches THEN u ELSE Over)
      /\ op' = [op EXCEPT ![p] = op'[p]]
  BY <1>1, <1>3, OverTyped
<1>5. /\ u.todo = <<"error">> /\ u.kind = op[p].kind /\ u.acct = op[p].acct
      /\ u.alone = op[p].alone /\ u.seen = op[p].seen /\ u.mine = op[p].mine
      /\ u.bound = op[p].bound /\ u.target = op[p].target /\ u.healthy = op[p].healthy
  BY <1>1, <1>2 DEF Operation
<1> QED
  BY <1>4, <1>5 DEF Advanced

Used(h) == \E a \in Accounts : registry[a] = h \/ \E q \in Procs : op[q].mine = h

\* What is left of the adapters.
LEMMA Kept ==
  ASSUME NEW ads \in [Handles -> Adapter], KeepUsed(ads)
  PROVE  /\ adapter' \in [Handles -> Adapter]
         /\ \A h \in Handles : Used(h)' => adapter'[h] = ads[h]
BY DEF KeepUsed, Used, Blank, Adapter, Pin

\* A step of p touches only the row and the adapters of its account.
StepFrame(p) ==
  /\ AccountsTypeOK' /\ Equipped(op[p])'
  /\ op' = [op EXCEPT ![p] = op'[p]]
  /\ \/ op'[p].todo = <<>> /\ op'[p].mine = None
     \/ op'[p].acct = op[p].acct /\ op'[p].kind = op[p].kind /\ op'[p].alone = op[p].alone
  /\ \A b \in Accounts \ {op[p].acct} :
       row'[b] = row[b] /\ cred'[b] = cred[b] /\ registry'[b] = registry[b]
  /\ registry'[op[p].acct] \in {registry[op[p].acct], None, op[p].mine}
  /\ op'[p].mine \in {op[p].mine, registry[op[p].acct], None} \/ Unused(op'[p].mine)
  /\ \E m \in Handles \cup {None} :
       /\ m \in {op[p].mine, registry[op[p].acct], None} \/ Unused(m)
       /\ \A h \in Handles \ {m} : Used(h)' => adapter'[h] = adapter[h]

\* The parts of it: the operation,
OpPart(p) ==
  /\ op' \in [Procs -> Operation] /\ op' = [op EXCEPT ![p] = op'[p]] /\ Equipped(op[p])'
  /\ \/ op'[p].todo = <<>> /\ op'[p].mine = None
     \/ op'[p].acct = op[p].acct /\ op'[p].kind = op[p].kind /\ op'[p].alone = op[p].alone
  /\ op'[p].mine \in {op[p].mine, registry[op[p].acct], None} \/ Unused(op'[p].mine)

\* the adapters,
AdapterPart(p) ==
  /\ adapter' \in [Handles -> Adapter]
  /\ \E m \in Handles \cup {None} :
       /\ m \in {op[p].mine, registry[op[p].acct], None} \/ Unused(m)
       /\ \A h \in Handles \ {m} : Used(h)' => adapter'[h] = adapter[h]

\* and what is stored.
StorePart(p) ==
  /\ row' \in [Accounts -> Row] /\ cred' \in [Accounts -> Nat]
  /\ registry' \in [Accounts -> Handles \cup {None}] /\ refs' \in [Accounts -> Pin]
  /\ booting' = booting /\ asks' = asks /\ faults' \in {faults, faults + 1}
  /\ \A b \in Accounts \ {op[p].acct} :
       row'[b] = row[b] /\ cred'[b] = cred[b] /\ registry'[b] = registry[b]
  /\ registry'[op[p].acct] \in {registry[op[p].acct], None, op[p].mine}

\* The three parts of the frame make the frame.
LEMMA Parts ==
  ASSUME AccountsTypeOK, NEW p \in Procs, OpPart(p), AdapterPart(p), StorePart(p)
  PROVE  StepFrame(p)
<1>1. asks' \in Nat /\ faults' \in Nat /\ booting' \in SUBSET Accounts
  BY DEF AccountsTypeOK, StorePart
<1> QED
  BY <1>1 DEF StepFrame, OpPart, AdapterPart, StorePart, AccountsTypeOK

\* An operation that went on and keeps its account, its row and its adapter,
\* or has one that nobody uses.
LEMMA OpAdvanced ==
  ASSUME NEW p \in Procs, op[p].acct \in Accounts, op[p].seen \in Row,
         NEW o, NEW t, Advanced(p, o, t), o.acct = op[p].acct, o.kind = op[p].kind,
         o.alone = op[p].alone, o.seen \in Row, o.mine \in Handles \/ Due(t),
         o.mine \in {op[p].mine, registry[op[p].acct], None} \/ Unused(o.mine)
  PROVE  OpPart(p)
BY OverTyped DEF OpPart, Advanced, Equipped

\* The adapters with one of them changed.
LEMMA OneChanged ==
  ASSUME AccountsTypeOK, NEW p \in Procs, NEW m \in Handles \cup {None},
         m \in {op[p].mine, registry[op[p].acct], None} \/ Unused(m),
         NEW ads \in [Handles -> Adapter], KeepUsed(ads), \A h \in Handles \ {m} : ads[h] = adapter[h]
  PROVE  AdapterPart(p)
BY Kept DEF AdapterPart

\* The adapters when none that is used has changed.
LEMMA NoneChanged ==
  ASSUME AccountsTypeOK, NEW p \in Procs, KeepUsed(adapter)
  PROVE  AdapterPart(p)
BY OneChanged DEF AccountsTypeOK
-----------------------------------------------------------------------------

(***************************************************************************)
(* The steps, one by one                                                   *)
(***************************************************************************)
\* An operation under way, and the typed state it sees.
LEMMA UnderWay ==
  ASSUME AccountsTypeOK, NEW p \in Procs, Equipped(op[p]), op[p].todo # <<>>
  PROVE  /\ op[p] \in Operation /\ op[p].acct \in Accounts /\ op[p].seen \in Row
         /\ op[p].mine \in Handles \cup {None}
         /\ op[p].todo \in Seq(Names) /\ Tail(op[p].todo) \in Seq(Names)
         /\ Alike(op[p], op[p])
         /\ registry[op[p].acct] \in Handles \cup {None} /\ row[op[p].acct] \in Row
         /\ cred[op[p].acct] \in Nat
         /\ \/ op[p].mine \in Handles
            \/ /\ Head(op[p].todo) \notin Uses
               /\ Head(op[p].todo) \notin Gives => Due(Tail(op[p].todo))
<1>1. op[p] \in Operation
  BY DEF AccountsTypeOK
<1>2. op[p].todo \in Seq(Names) /\ op[p].mine \in Handles \cup {None}
  BY <1>1 DEF Operation
<1>3. op[p].acct \in Accounts /\ op[p].seen \in Row /\ (op[p].mine \in Handles \/ Due(op[p].todo))
  BY DEF Equipped
<1>4. Tail(op[p].todo) \in Seq(Names)
  BY <1>2, HeadTailProperties
<1>5. \/ op[p].mine \in Handles
      \/ /\ Head(op[p].todo) \notin Uses
         /\ Head(op[p].todo) \notin Gives => Due(Tail(op[p].todo))
  BY <1>2, <1>3, DueRest
<1>6. /\ registry[op[p].acct] \in Handles \cup {None} /\ row[op[p].acct] \in Row
      /\ cred[op[p].acct] \in Nat
  BY <1>3 DEF AccountsTypeOK
<1> QED
  BY <1>1, <1>2, <1>3, <1>4, <1>5, <1>6 DEF Alike

\* The operation goes on as o, steps first.
LEMMA GoesAs ==
  ASSUME AccountsTypeOK, NEW p \in Procs, Equipped(op[p]), op[p].todo # <<>>,
         NEW o, Alike(o, op[p]), NEW s \in Seq(Names), On(p, o, s),
         o.mine \in Handles \/ Due(s \o Tail(op[p].todo)),
         o.mine \in {op[p].mine, registry[op[p].acct], None} \/ Unused(o.mine)
  PROVE  OpPart(p) /\ Advanced(p, o, s \o Tail(op[p].todo))
<1>1. op[p].acct \in Accounts /\ op[p].seen \in Row
  BY UnderWay
<1>2. Advanced(p, o, s \o Tail(op[p].todo))
  BY Goes
<1>3. PICK t : t = s \o Tail(op[p].todo)
  OBVIOUS
<1>4. o.acct = op[p].acct /\ o.kind = op[p].kind /\ o.alone = op[p].alone /\ o.seen \in Row
  BY DEF Alike
<1>5. Advanced(p, o, t) /\ (o.mine \in Handles \/ Due(t))
  BY <1>2, <1>3
<1>6. OpPart(p)
  BY <1>1, <1>4, <1>5, OpAdvanced
<1> QED
  BY <1>2, <1>6

\* It goes on as it is,
LEMMA GoesOn ==
  ASSUME AccountsTypeOK, NEW p \in Procs, Equipped(op[p]), op[p].todo # <<>>,
         Then(p, <<>>), Head(op[p].todo) \notin Gives
  PROVE  OpPart(p) /\ Advanced(p, op[p], Tail(op[p].todo))
<1>1. Alike(op[p], op[p]) /\ Tail(op[p].todo) \in Seq(Names)
  BY UnderWay
<1>2. <<>> \o Tail(op[p].todo) = Tail(op[p].todo) /\ <<>> \in Seq(Names)
  BY <1>1, ConcatEmptySeq
<1>3. op[p].mine \in Handles \/ Due(Tail(op[p].todo))
  BY UnderWay
<1>4. On(p, op[p], <<>>)
  BY DEF Then
<1> QED
  BY <1>1, <1>2, <1>3, <1>4, GoesAs

\* or as one that has learnt something.
LEMMA GoesOnAs ==
  ASSUME AccountsTypeOK, NEW p \in Procs, Equipped(op[p]), op[p].todo # <<>>,
         NEW o, Alike(o, op[p]), On(p, o, <<>>), o.mine = op[p].mine,
         Head(op[p].todo) \notin Gives
  PROVE  OpPart(p) /\ Advanced(p, o, Tail(op[p].todo))
<1>1. Tail(op[p].todo) \in Seq(Names)
  BY UnderWay
<1>2. <<>> \o Tail(op[p].todo) = Tail(op[p].todo) /\ <<>> \in Seq(Names)
  BY <1>1, ConcatEmptySeq
<1>3. o.mine \in Handles \/ Due(Tail(op[p].todo))
  BY UnderWay
<1> QED
  BY <1>2, <1>3, GoesAs

\* The operation after an exception.
LEMMA ErrorPart ==
  ASSUME AccountsTypeOK, NEW p \in Procs, Equipped(op[p]), op[p].todo # <<>>, Throw(p)
  PROVE  OpPart(p) /\ \E t \in {<<>>, <<"error">>} : Advanced(p, op[p], t)
<1>1. PICK t \in {<<>>, <<"error">>} : Advanced(p, op[p], t)
  BY Throws
<1>2. op[p].acct \in Accounts /\ op[p].seen \in Row /\ op[p].mine \in Handles \cup {None}
  BY UnderWay
<1>3. Due(t)
  <2>1. Due(<<>>)
    BY DEF Due
  <2>2. Due(<<"error">>)
    BY DEF Due, Uses
  <2> QED
    BY <2>1, <2>2
<1>4. OpPart(p)
  BY <1>1, <1>2, <1>3, OpAdvanced
<1> QED
  BY <1>1, <1>4

\* What an await may change of what is stored: the row of its account.
LEMMA RowWritten ==
  ASSUME AccountsTypeOK, NEW p \in Procs, op[p].acct \in Accounts, Calm,
         row' \in [Accounts -> Row], \A b \in Accounts \ {op[p].acct} : row'[b] = row[b],
         asks' = asks, faults' \in {faults, faults + 1}
  PROVE  StorePart(p)
BY DEF AccountsTypeOK, StorePart, Calm

\* The rows and the credentials when neither was written.
LEMMA NothingStored ==
  ASSUME AccountsTypeOK, NEW p \in Procs, op[p].acct \in Accounts, Calm, row' = row,
         UNCHANGED counts \/ Fault
  PROVE  StorePart(p)
<1>1. asks' = asks /\ faults' \in {faults, faults + 1}
  BY DEF counts, Fault
<1> QED
  BY <1>1 DEF AccountsTypeOK, StorePart, Calm

\* An await that writes connectionStatus, and at most that.
LEMMA WriteFrame ==
  ASSUME AccountsTypeOK, NEW p \in Procs, Equipped(op[p]), op[p].todo # <<>>,
         Then(p, <<>>), Head(op[p].todo) \notin Gives, Calm, UNCHANGED counts, KeepUsed(adapter),
         row' \in [Accounts -> Row], \A b \in Accounts \ {op[p].acct} : row'[b] = row[b]
  PROVE  StepFrame(p) /\ Advanced(p, op[p], Tail(op[p].todo))
<1>1. op[p].acct \in Accounts
  BY UnderWay
<1>2. OpPart(p) /\ Advanced(p, op[p], Tail(op[p].todo))
  BY GoesOn
<1>3. AdapterPart(p)
  BY NoneChanged
<1>4. StorePart(p)
  <2>1. asks' = asks /\ faults' \in {faults, faults + 1}
    BY DEF counts
  <2> QED
    BY <1>1, <2>1, RowWritten
<1> QED
  BY <1>2, <1>3, <1>4, Parts

\* The best of some sub-accounts is one of them.
LEMMA BestOf ==
  ASSUME NEW S \in SUBSET Subs
  PROVE  Best(S) \in S \cup {None} /\ Best(S) \in Pin
<1> DEFINE Bad(n) == \E T \in SUBSET Subs : /\ Cardinality(T) = n /\ T # {}
                                            /\ \A s \in T : \E t \in T : ~(Money[s] >= Money[t])
           N == {n \in Nat : Bad(n)}
<1>1. N = {}
  <2> SUFFICES ASSUME N # {} PROVE FALSE
    OBVIOUS
  <2>1. PICK n \in N : \A m \in N : ~(m < n)
    <3> HIDE DEF N
    <3> DEFINE R == OpToRel(<, Nat)
    <3>1. N \in SUBSET Nat
      BY DEF N
    <3>2. PICK n \in N : \A m \in N : <<m, n>> \notin R
      <4> HIDE DEF R
      <4>1. IsWellFoundedOn(R, Nat)
        BY NatLessThanWellFounded DEF R
      <4> QED
        BY <3>1, <4>1, WFMin
    <3> QED
      BY <3>1, <3>2 DEF OpToRel
  <2>2. PICK T \in SUBSET Subs : /\ Cardinality(T) = n /\ T # {}
                                 /\ \A s \in T : \E t \in T : ~(Money[s] >= Money[t])
    BY <2>1
  <2>3. PICK x \in T : TRUE
    BY <2>2
  <2>4. IsFiniteSet(T) /\ IsFiniteSet(T \ {x}) /\ Cardinality(T \ {x}) = n - 1 /\ n - 1 \in Nat
    <3>1. IsFiniteSet(T)
      BY AccountsAssumption, FS_Subset
    <3> QED
      <4>1. IsFiniteSet(T \ {x}) /\ Cardinality(T \ {x}) = Cardinality(T) - 1
        BY <2>3, <3>1, FS_RemoveElement
      <4>2. Cardinality(T \ {x}) \in Nat
        BY <4>1, FS_CardinalityType
      <4> QED
        BY <2>2, <3>1, <4>1, <4>2
  <2>5. ~Bad(n - 1)
    <3>1. n - 1 \notin N
      BY <2>1, <2>4
    <3> QED
      BY <2>4, <3>1
  <2>6. \A s \in T : Money[s] \in Nat
    BY AccountsAssumption
  <2>7. T \ {x} # {}
    BY <2>2, <2>3, <2>6
  <2>8. PICK y \in T \ {x} : \A t \in T \ {x} : Money[y] >= Money[t]
    BY <2>4, <2>5, <2>7
  <2>9. CASE Money[y] >= Money[x]
    BY <2>2, <2>8, <2>9
  <2>10. CASE ~(Money[y] >= Money[x])
    <3>1. \A t \in T : Money[x] >= Money[t]
      BY <2>3, <2>6, <2>8, <2>10
    <3> QED
      BY <2>2, <2>3, <3>1
  <2> QED
    BY <2>9, <2>10
<1>2. CASE S = {}
  BY <1>2 DEF Best, Pin
<1>3. CASE S # {}
  <2>1. Cardinality(S) \in Nat
    BY AccountsAssumption, FS_Subset, FS_CardinalityType
  <2>2. ~Bad(Cardinality(S))
    BY <1>1, <2>1
  <2>3. \E s \in S : \A t \in S : Money[s] >= Money[t]
    BY <1>3, <2>2
  <2>4. Best(S) \in S
    BY <1>3, <2>3 DEF Best
  <2> QED
    BY <2>4 DEF Pin
<1> QED
  BY <1>2, <1>3

\* getAccountState of an adapter.
LEMMA StatedAdapter ==
  ASSUME AccountsTypeOK, NEW h \in Handles
  PROVE  /\ Stated(h) \in [Handles -> Adapter]
         /\ \A g \in Handles \ {h} : Stated(h)[g] = adapter[g]
         /\ Stated(h)[h].cred = adapter[h].cred
         /\ Stated(h)[h].pin = IF adapter[h].pin = None THEN Best(Subs) ELSE adapter[h].pin
<1>1. adapter \in [Handles -> Adapter] /\ adapter[h] \in Adapter
  BY DEF AccountsTypeOK
<1>2. Best(Subs) \in Pin
  BY BestOf
<1> QED
  BY <1>1, <1>2 DEF Stated, Adapter

\* The writes of connectionStatus: connect, disconnect, an error, sync, bind, an
\* archive and the tick.
LEMMA WriteConnectingFrame ==
  ASSUME AccountsTypeOK, NEW p \in Procs, Equipped(op[p]), WriteConnecting(p)
  PROVE  StepFrame(p) /\ Advanced(p, op[p], Tail(op[p].todo))
<1>1. op[p].todo # <<>> /\ Head(op[p].todo) \notin Gives
  BY DEF WriteConnecting, At, Gives
<1>2. /\ op[p].acct \in Accounts /\ op[p] \in Operation
      /\ row \in [Accounts -> Row] /\ row[op[p].acct] \in Row
  BY <1>1, UnderWay DEF AccountsTypeOK
<1>3. row' \in [Accounts -> Row] /\ \A b \in Accounts \ {op[p].acct} : row'[b] = row[b]
  BY <1>2, SMTT(30) DEF WriteConnecting, Write, Row
<1> QED
  BY <1>1, <1>3, WriteFrame, SMTT(30) DEF WriteConnecting

\* The second write of the state.
LEMMA PersistedFrame ==
  ASSUME AccountsTypeOK, NEW p \in Procs, Equipped(op[p]), Persisted(p)
  PROVE  StepFrame(p) /\ Advanced(p, op[p], Tail(op[p].todo))
<1>1. op[p].todo # <<>> /\ Head(op[p].todo) \notin Gives
  BY DEF Persisted, At, Gives
<1>2. /\ op[p].acct \in Accounts /\ op[p] \in Operation
      /\ row \in [Accounts -> Row] /\ row[op[p].acct] \in Row
  BY <1>1, UnderWay DEF AccountsTypeOK
<1>3. row' \in [Accounts -> Row] /\ \A b \in Accounts \ {op[p].acct} : row'[b] = row[b]
  BY <1>2, SMTT(30) DEF Persisted, Write, Row
<1> QED
  BY <1>1, <1>3, WriteFrame, SMTT(30) DEF Persisted

\* The row is written DISCONNECTED.
LEMMA WriteDisconnectedFrame ==
  ASSUME AccountsTypeOK, NEW p \in Procs, Equipped(op[p]), WriteDisconnected(p)
  PROVE  StepFrame(p) /\ Advanced(p, op[p], Tail(op[p].todo))
<1>1. op[p].todo # <<>> /\ Head(op[p].todo) \notin Gives
  BY DEF WriteDisconnected, At, Gives
<1>2. /\ op[p].acct \in Accounts /\ op[p] \in Operation
      /\ row \in [Accounts -> Row] /\ row[op[p].acct] \in Row
  BY <1>1, UnderWay DEF AccountsTypeOK
<1>3. row' \in [Accounts -> Row] /\ \A b \in Accounts \ {op[p].acct} : row'[b] = row[b]
  BY <1>2, SMTT(30) DEF WriteDisconnected, Write, Row
<1> QED
  BY <1>1, <1>3, WriteFrame, SMTT(30) DEF WriteDisconnected

\* The row is written ERROR.
LEMMA WriteErrorFrame ==
  ASSUME AccountsTypeOK, NEW p \in Procs, Equipped(op[p]), WriteError(p)
  PROVE  StepFrame(p) /\ Advanced(p, op[p], Tail(op[p].todo))
<1>1. op[p].todo # <<>> /\ Head(op[p].todo) \notin Gives
  BY DEF WriteError, At, Gives
<1>2. /\ op[p].acct \in Accounts /\ op[p] \in Operation
      /\ row \in [Accounts -> Row] /\ row[op[p].acct] \in Row
  BY <1>1, UnderWay DEF AccountsTypeOK
<1>3. row' \in [Accounts -> Row] /\ \A b \in Accounts \ {op[p].acct} : row'[b] = row[b]
  BY <1>2, SMTT(30) DEF WriteError, Write, Row
<1> QED
  BY <1>1, <1>3, WriteFrame, SMTT(30) DEF WriteError

\* The row at the end of a sync.
LEMMA SyncedFrame ==
  ASSUME AccountsTypeOK, NEW p \in Procs, Equipped(op[p]), Synced(p)
  PROVE  StepFrame(p) /\ Advanced(p, op[p], Tail(op[p].todo))
<1>1. op[p].todo # <<>> /\ Head(op[p].todo) \notin Gives
  BY DEF Synced, At, Gives
<1>2. /\ op[p].acct \in Accounts /\ op[p] \in Operation
      /\ row \in [Accounts -> Row] /\ row[op[p].acct] \in Row
  BY <1>1, UnderWay DEF AccountsTypeOK
<1>3. row' \in [Accounts -> Row] /\ \A b \in Accounts \ {op[p].acct} : row'[b] = row[b]
  BY <1>2, SMTT(30) DEF Synced, Row, Operation
<1> QED
  BY <1>1, <1>3, WriteFrame, SMTT(30) DEF Synced

\* The row with the sub-account a desk has bound.
LEMMA WriteBoundFrame ==
  ASSUME AccountsTypeOK, NEW p \in Procs, Equipped(op[p]), WriteBound(p)
  PROVE  StepFrame(p) /\ Advanced(p, op[p], Tail(op[p].todo))
<1>1. op[p].todo # <<>> /\ Head(op[p].todo) \notin Gives
  BY DEF WriteBound, At, Gives
<1>2. /\ op[p].acct \in Accounts /\ op[p] \in Operation
      /\ row \in [Accounts -> Row] /\ row[op[p].acct] \in Row
  BY <1>1, UnderWay DEF AccountsTypeOK
<1>3. row' \in [Accounts -> Row] /\ \A b \in Accounts \ {op[p].acct} : row'[b] = row[b]
  BY <1>2, ZenonT(30) DEF WriteBound, Row, Operation, Pin
<1> QED
  BY <1>1, <1>3, WriteFrame, ZenonT(30) DEF WriteBound

\* The row of an archived account.
LEMMA ArchiveFrame ==
  ASSUME AccountsTypeOK, NEW p \in Procs, Equipped(op[p]), Archive(p)
  PROVE  StepFrame(p) /\ Advanced(p, op[p], Tail(op[p].todo))
<1>1. op[p].todo # <<>> /\ Head(op[p].todo) \notin Gives
  BY DEF Archive, At, Gives
<1>2. /\ op[p].acct \in Accounts /\ op[p] \in Operation
      /\ row \in [Accounts -> Row] /\ row[op[p].acct] \in Row
  BY <1>1, UnderWay DEF AccountsTypeOK
<1>3. row' \in [Accounts -> Row] /\ \A b \in Accounts \ {op[p].acct} : row'[b] = row[b]
  BY <1>2, ZenonT(30) DEF Archive, Row
<1> QED
  BY <1>1, <1>3, WriteFrame, ZenonT(30) DEF Archive

\* The row after the first connect of a bot.
LEMMA WarmedFrame ==
  ASSUME AccountsTypeOK, NEW p \in Procs, Equipped(op[p]), Warmed(p)
  PROVE  StepFrame(p) /\ Advanced(p, op[p], Tail(op[p].todo))
<1>1. op[p].todo # <<>> /\ Head(op[p].todo) \notin Gives
  BY DEF Warmed, At, Gives
<1>2. /\ op[p].acct \in Accounts /\ op[p] \in Operation
      /\ row \in [Accounts -> Row] /\ row[op[p].acct] \in Row
  BY <1>1, UnderWay DEF AccountsTypeOK
<1>3. row' \in [Accounts -> Row] /\ \A b \in Accounts \ {op[p].acct} : row'[b] = row[b]
  BY <1>2, SMTT(30) DEF Warmed, Write, Row
<1> QED
  BY <1>1, <1>3, WriteFrame, SMTT(30) DEF Warmed

\* What connect writes in the end.
LEMMA WriteConnectedFrame ==
  ASSUME AccountsTypeOK, NEW p \in Procs, Equipped(op[p]), WriteConnected(p)
  PROVE  /\ StepFrame(p) /\ Advanced(p, op[p], Tail(op[p].todo))
         /\ row'[op[p].acct].pin =
              IF op[p].kind = "ready" THEN row[op[p].acct].pin ELSE Bound(op[p])
<1>1. op[p].todo # <<>> /\ Head(op[p].todo) \notin Gives
  BY DEF WriteConnected, At, Gives
<1>2. /\ op[p].acct \in Accounts /\ op[p] \in Operation
      /\ row \in [Accounts -> Row] /\ row[op[p].acct] \in Row /\ op[p].seen \in Row
  BY <1>1, UnderWay DEF AccountsTypeOK
<1>3. Bound(op[p]) \in Pin
  BY <1>2 DEF Operation, Row, Bound
<1>4. /\ row' \in [Accounts -> Row] /\ \A b \in Accounts \ {op[p].acct} : row'[b] = row[b]
      /\ row'[op[p].acct].pin =
           IF op[p].kind = "ready" THEN row[op[p].acct].pin ELSE Bound(op[p])
  BY <1>2, <1>3 DEF WriteConnected, Row
<1> QED
  BY <1>1, <1>4, WriteFrame DEF WriteConnected

\* The awaits that only learn something.
LEMMA GetFrame ==
  ASSUME AccountsTypeOK, NEW p \in Procs, Equipped(op[p]), Get(p)
  PROVE  /\ StepFrame(p)
         /\ op'[p] = Over \/ \E o : /\ Advanced(p, o, Tail(op[p].todo)) /\ Alike(o, op[p])
                                    /\ o.mine = op[p].mine /\ o.seen = row[op[p].acct]
<1>1. op[p].todo # <<>> /\ Head(op[p].todo) \notin Gives
  BY DEF Get, At, Gives
<1>2. /\ op[p].acct \in Accounts /\ op[p] \in Operation /\ row[op[p].acct] \in Row
      /\ op \in [Procs -> Operation]
  BY <1>1, UnderWay DEF AccountsTypeOK
<1>3. AdapterPart(p) /\ StorePart(p)
  BY <1>2, NoneChanged, NothingStored DEF Get
<1>4. CASE row[op[p].acct].archived
  <2>1. op' = [op EXCEPT ![p] = Over]
    BY <1>4 DEF Get
  <2>2. OpPart(p)
    BY <1>2, <2>1, OverTyped DEF OpPart, Equipped
  <2> QED
    BY <1>2, <1>3, <2>1, <2>2, Parts
<1>5. CASE ~row[op[p].acct].archived
  <2>1. [op[p] EXCEPT !.seen = row[op[p].acct]] \in Operation
    BY <1>2 DEF Operation
  <2>2. PICK o \in Operation : o = [op[p] EXCEPT !.seen = row[op[p].acct]]
    BY <2>1, Zenon
  <2>3. Alike(o, op[p]) /\ o.mine = op[p].mine /\ o.seen = row[op[p].acct]
    BY <1>2, <2>2 DEF Alike, Operation
  <2>4. On(p, o, <<>>)
    BY <1>5, <2>2 DEF Get
  <2>5. OpPart(p) /\ Advanced(p, o, Tail(op[p].todo))
    BY <1>1, <2>3, <2>4, GoesOnAs
  <2> QED
    BY <1>3, <2>3, <2>5, Parts
<1> QED
  BY <1>4, <1>5

\* A list that begins by getting an adapter.
LEMMA GivesFirst ==
  ASSUME NEW x \in {"adapter", "enter", "load"}, NEW t \in Seq(Names)
  PROVE  <<x>> \in Seq(Names) /\ Due(<<x>> \o t)
<1>1. x \in Names /\ x \in Gives
  BY DEF Names, Gives
<1> QED
  BY <1>1, DueMore

\* getAdapter takes the registered adapter, or throws.
LEMMA TakeAdapterFrame ==
  ASSUME AccountsTypeOK, NEW p \in Procs, Equipped(op[p]), TakeAdapter(p)
  PROVE  StepFrame(p)
<1> DEFINE h == registry[op[p].acct]
<1>1. op[p].todo # <<>>
  BY DEF TakeAdapter, At
<1>2. /\ op[p].acct \in Accounts /\ op[p] \in Operation /\ h \in Handles \cup {None}
      /\ Alike(op[p], op[p]) /\ Tail(op[p].todo) \in Seq(Names)
      /\ op[p].mine \in Handles \cup {None}
  BY <1>1, UnderWay
<1>3. AdapterPart(p) /\ StorePart(p)
  BY <1>2, NoneChanged, NothingStored DEF TakeAdapter
<1>4. CASE h = None
  <2>1. On(p, op[p], <<"enter">>)
    BY <1>4 DEF TakeAdapter, Then
  <2>2. <<"enter">> \in Seq(Names) /\ Due(<<"enter">> \o Tail(op[p].todo))
    BY <1>2, GivesFirst
  <2>3. OpPart(p)
    BY <1>1, <1>2, <2>1, <2>2, GoesAs
  <2> QED
    BY <1>3, <2>3, Parts
<1>5. CASE h # None
  <2>1. [op[p] EXCEPT !.mine = h] \in Operation
    BY <1>2 DEF Operation
  <2>2. PICK o \in Operation : o = [op[p] EXCEPT !.mine = h]
    BY <2>1, Zenon
  <2>3. Alike(o, op[p]) /\ o.mine = h
    BY <1>1, <1>2, <2>2 DEF Alike, Operation
  <2>4. On(p, o, <<>>) /\ <<>> \in Seq(Names)
    BY <1>5, <2>2, EmptySeq DEF TakeAdapter
  <2>5. OpPart(p)
    <3> HIDE DEF h
    <3>1. o.mine \in Handles
      BY <1>2, <1>5, <2>3
    <3>2. o.mine \in {op[p].mine, registry[op[p].acct], None}
      BY <2>3 DEF h
    <3> QED
      BY <1>1, <2>3, <2>4, <3>1, <3>2, GoesAs
  <2> QED
    BY <1>3, <2>5, Parts
<1> QED
  BY <1>4, <1>5

\* getHealth says what the adapter is bound to.
LEMMA HealthFrame ==
  ASSUME AccountsTypeOK, NEW p \in Procs, Equipped(op[p]), Health(p)
  PROVE  /\ StepFrame(p)
         /\ \E o : /\ Advanced(p, o, Tail(op[p].todo)) /\ Alike(o, op[p])
                   /\ o.mine = op[p].mine /\ o.seen = op[p].seen
                   /\ o.bound \in {None, adapter[op[p].mine].pin}
<1>1. op[p].todo # <<>> /\ Head(op[p].todo) \notin Gives /\ Head(op[p].todo) \in Uses
  BY DEF Health, At, Gives, Uses
<1>2. /\ op[p].acct \in Accounts /\ op[p] \in Operation /\ op[p].mine \in Handles
      /\ Alike(op[p], op[p])
  BY <1>1, UnderWay
<1>3. AdapterPart(p) /\ StorePart(p)
  BY <1>2, NoneChanged, NothingStored DEF Health
<1>4. adapter[op[p].mine] \in Adapter
  BY <1>2 DEF AccountsTypeOK
<1>5. PICK x \in {None, adapter[op[p].mine].pin}, b \in BOOLEAN :
        On(p, [op[p] EXCEPT !.bound = x, !.healthy = b], <<>>)
  BY <1>4 DEF Health, Adapter
<1>6. [op[p] EXCEPT !.bound = x, !.healthy = b] \in Operation
  BY <1>2, <1>4, <1>5 DEF Operation, Adapter, Pin
<1>7. PICK o \in Operation : o = [op[p] EXCEPT !.bound = x, !.healthy = b]
  BY <1>6, Zenon
<1>8. Alike(o, op[p]) /\ o.mine = op[p].mine /\ o.seen = op[p].seen /\ o.bound = x
  BY <1>2, <1>7 DEF Alike, Operation
<1>9. OpPart(p) /\ Advanced(p, o, Tail(op[p].todo))
  BY <1>1, <1>5, <1>7, <1>8, GoesOnAs
<1> QED
  BY <1>3, <1>8, <1>9, Parts

\* A sync reads the health first.
LEMMA AliveFrame ==
  ASSUME AccountsTypeOK, NEW p \in Procs, Equipped(op[p]), Alive(p)
  PROVE  StepFrame(p)
<1>1. op[p].todo # <<>> /\ Head(op[p].todo) \notin Gives
  BY DEF Alive, At, Gives
<1>2. op[p].acct \in Accounts
  BY <1>1, UnderWay
<1>3. AdapterPart(p) /\ StorePart(p)
  BY <1>2, NoneChanged, NothingStored DEF Alive
<1>4. OpPart(p)
  BY <1>1, GoesOn, ErrorPart DEF Alive
<1> QED
  BY <1>3, <1>4, Parts

\* Which sub-accounts the siblings have taken, for a row without one.
LEMMA SiblingsFrame ==
  ASSUME AccountsTypeOK, NEW p \in Procs, Equipped(op[p]), Siblings(p)
  PROVE  /\ StepFrame(p)
         /\ \/ /\ op[p].seen.pin # None
               /\ Advanced(p, op[p], Tail(op[p].todo))
            \/ /\ op[p].seen.pin = None
               /\ \E o : /\ Advanced(p, o, <<"richest">> \o Tail(op[p].todo)) /\ Alike(o, op[p])
                         /\ o.mine = op[p].mine /\ o.seen = op[p].seen /\ o.bound = op[p].bound
<1>1. op[p].todo # <<>> /\ Head(op[p].todo) \notin Gives /\ Head(op[p].todo) \in Uses
  BY DEF Siblings, At, Gives, Uses
<1>2. /\ op[p].acct \in Accounts /\ op[p] \in Operation /\ op[p].mine \in Handles
      /\ Alike(op[p], op[p])
  BY <1>1, UnderWay
<1>3. AdapterPart(p) /\ StorePart(p)
  BY <1>2, NoneChanged, NothingStored DEF Siblings
<1>4. CASE op[p].seen.pin # None
  <2>1. OpPart(p) /\ Advanced(p, op[p], Tail(op[p].todo))
    BY <1>1, <1>4, GoesOn DEF Siblings
  <2> QED
    BY <1>3, <1>4, <2>1, Parts
<1>5. CASE op[p].seen.pin = None
  <2>1. PICK others \in SUBSET Accounts :
          On(p, [op[p] EXCEPT !.taken = {row[b].pin : b \in others} \ {None}], <<"richest">>)
    BY <1>5 DEF Siblings
  <2>2. {row[b].pin : b \in others} \ {None} \in SUBSET Pin
    BY DEF AccountsTypeOK, Row
  <2>3. PICK tk \in SUBSET Pin : tk = {row[b].pin : b \in others} \ {None}
    BY <2>2, Zenon
  <2>4. [op[p] EXCEPT !.taken = tk] \in Operation
    BY <1>2 DEF Operation
  <2>5. PICK o \in Operation : o = [op[p] EXCEPT !.taken = tk]
    BY <2>4, Zenon
  <2>6. /\ Alike(o, op[p]) /\ o.mine = op[p].mine /\ o.seen = op[p].seen
        /\ o.bound = op[p].bound
    BY <1>2, <2>5 DEF Alike, Operation
  <2>7. On(p, o, <<"richest">>) /\ <<"richest">> \in Seq(Names)
    BY <2>1, <2>3, <2>5, Named
  <2>8. OpPart(p) /\ Advanced(p, o, <<"richest">> \o Tail(op[p].todo))
    BY <1>1, <1>2, <2>6, <2>7, GoesAs
  <2> QED
    BY <1>3, <1>5, <2>6, <2>8, Parts
<1> QED
  BY <1>4, <1>5

\* An operation ends.
LEMMA EndFrame ==
  ASSUME AccountsTypeOK, NEW p \in Procs, Equipped(op[p]), End(p)
  PROVE  StepFrame(p) /\ op'[p] = Over
<1>1. op[p].todo # <<>>
  BY DEF End, At
<1>2. op[p].acct \in Accounts /\ op \in [Procs -> Operation]
  BY <1>1, UnderWay DEF AccountsTypeOK
<1>3. AdapterPart(p) /\ StorePart(p)
  BY <1>2, NoneChanged, NothingStored DEF End
<1>4. OpPart(p) /\ op'[p] = Over
  BY <1>2, OverTyped DEF End, OpPart, Equipped
<1> QED
  BY <1>3, <1>4, Parts

\* The awaits that change an adapter.
LEMMA StateFrame ==
  ASSUME AccountsTypeOK, NEW p \in Procs, Equipped(op[p]), State(p)
  PROVE  /\ StepFrame(p)
         /\ \/ \E t \in {<<>>, <<"error">>} : Advanced(p, op[p], t)
            \/ /\ \A h \in Handles : Used(h)' => adapter'[h] = Stated(op[p].mine)[h]
               /\ \E o : /\ Advanced(p, o, Tail(op[p].todo)) /\ Alike(o, op[p])
                         /\ o.mine = op[p].mine /\ o.seen = op[p].seen /\ o.bound = op[p].bound
<1> DEFINE h == op[p].mine
<1>1. op[p].todo # <<>> /\ Head(op[p].todo) \notin Gives /\ Head(op[p].todo) \in Uses
  BY DEF State, At, Gives, Uses
<1>2. /\ op[p].acct \in Accounts /\ op[p] \in Operation /\ op[p].mine \in Handles
      /\ Alike(op[p], op[p])
  BY <1>1, UnderWay
<1>3. StorePart(p)
  BY <1>2, NothingStored DEF State
<1>4. CASE Throw(p) /\ KeepUsed(adapter)
  BY <1>1, <1>3, <1>4, ErrorPart, NoneChanged, Parts
<1>5. CASE /\ On(p, [op[p] EXCEPT !.cur = Stated(h)[h].pin], <<>>)
           /\ KeepUsed(Stated(h))
  <2>1. /\ Stated(h) \in [Handles -> Adapter]
        /\ \A g \in Handles \ {h} : Stated(h)[g] = adapter[g]
    BY <1>2, StatedAdapter
  <2>2. PICK x \in Pin : x = Stated(h)[h].pin
    BY <1>2, <2>1 DEF Adapter
  <2>3. [op[p] EXCEPT !.cur = x] \in Operation
    BY <1>2 DEF Operation
  <2>4. PICK o \in Operation : o = [op[p] EXCEPT !.cur = x]
    BY <2>3, Zenon
  <2>5. Alike(o, op[p]) /\ o.mine = h /\ o.seen = op[p].seen /\ o.bound = op[p].bound
    BY <1>2, <2>4 DEF Alike, Operation
  <2>6. On(p, o, <<>>)
    BY <1>5, <2>2, <2>4
  <2>7. OpPart(p) /\ Advanced(p, o, Tail(op[p].todo))
    BY <1>1, <2>5, <2>6, GoesOnAs
  <2>8. PICK ads \in [Handles -> Adapter] : ads = Stated(h)
    BY <2>1, Zenon
  <2>9. KeepUsed(ads) /\ \A g \in Handles \ {h} : ads[g] = adapter[g]
    BY <1>5, <2>1, <2>8
  <2>10. AdapterPart(p)
    BY <1>2, <2>9, OneChanged
  <2>11. \A g \in Handles : Used(g)' => adapter'[g] = Stated(h)[g]
    BY <2>8, <2>9, Kept
  <2> QED
    BY <1>3, <2>5, <2>7, <2>10, <2>11, Parts
<1> QED
  BY <1>4, <1>5 DEF State

\* The sub-account for a row without one, and its adapter there.
LEMMA RichestFrame ==
  ASSUME AccountsTypeOK, NEW p \in Procs, Equipped(op[p]), Richest(p)
  PROVE  /\ StepFrame(p)
         /\ \/ /\ Advanced(p, op[p], Tail(op[p].todo))
               /\ \A h \in Handles : Used(h)' => adapter'[h] = adapter[h]
            \/ /\ \A h \in Handles : Used(h)' => adapter'[h].cred = adapter[h].cred
               /\ \E o : /\ Advanced(p, o, Tail(op[p].todo)) /\ Alike(o, op[p])
                         /\ o.mine = op[p].mine /\ o.seen = op[p].seen
                         /\ \A h \in Handles :
                              h = op[p].mine /\ Used(h)' => adapter'[h].pin = o.bound
<1> DEFINE h == op[p].mine
<1>1. op[p].todo # <<>> /\ Head(op[p].todo) \notin Gives /\ Head(op[p].todo) \in Uses
  BY DEF Richest, At, Gives, Uses
<1>2. /\ op[p].acct \in Accounts /\ op[p] \in Operation /\ op[p].mine \in Handles
      /\ Alike(op[p], op[p]) /\ adapter \in [Handles -> Adapter]
  BY <1>1, UnderWay DEF AccountsTypeOK
<1>3. StorePart(p)
  BY <1>2, NothingStored DEF Richest
<1>4. CASE Then(p, <<>>) /\ KeepUsed(adapter)
  BY <1>1, <1>2, <1>3, <1>4, GoesOn, NoneChanged, Kept, Parts
<1>5. ASSUME NEW rich \in Pin, On(p, [op[p] EXCEPT !.bound = rich], <<>>),
             KeepUsed([adapter EXCEPT ![h].pin = rich])
      PROVE  /\ StepFrame(p)
             /\ \A g \in Handles : Used(g)' => adapter'[g].cred = adapter[g].cred
             /\ \E o : /\ Advanced(p, o, Tail(op[p].todo)) /\ Alike(o, op[p])
                       /\ o.mine = op[p].mine /\ o.seen = op[p].seen
                       /\ \A g \in Handles :
                            g = op[p].mine /\ Used(g)' => adapter'[g].pin = o.bound
  <2>1. [op[p] EXCEPT !.bound = rich] \in Operation
    BY <1>2 DEF Operation
  <2>2. PICK o \in Operation : o = [op[p] EXCEPT !.bound = rich]
    BY <2>1, Zenon
  <2>3. Alike(o, op[p]) /\ o.mine = h /\ o.seen = op[p].seen /\ o.bound = rich
    BY <1>2, <2>2 DEF Alike, Operation
  <2>4. OpPart(p) /\ Advanced(p, o, Tail(op[p].todo))
    BY <1>1, <1>5, <2>2, <2>3, GoesOnAs
  <2>5. [adapter EXCEPT ![h].pin = rich] \in [Handles -> Adapter]
    BY <1>2 DEF Adapter
  <2>6. PICK ads \in [Handles -> Adapter] : ads = [adapter EXCEPT ![h].pin = rich]
    BY <2>5, Zenon
  <2>7. /\ KeepUsed(ads) /\ \A g \in Handles \ {h} : ads[g] = adapter[g]
        /\ ads[h].pin = rich /\ ads[h].cred = adapter[h].cred
    BY <1>2, <1>5, <2>6 DEF Adapter
  <2>8. AdapterPart(p)
    BY <1>2, <2>7, OneChanged
  <2>9. \A g \in Handles : Used(g)' => adapter'[g] = ads[g]
    BY <2>7, Kept
  <2>10. StepFrame(p)
    BY <1>3, <2>4, <2>8, Parts
  <2>11. \A g \in Handles : ads[g].cred = adapter[g].cred
    BY <2>7
  <2>12. \A g \in Handles : g = op[p].mine /\ Used(g)' => adapter'[g].pin = o.bound
    BY <2>3, <2>7, <2>9
  <2>13. \A g \in Handles : Used(g)' => adapter'[g].cred = adapter[g].cred
    BY <2>9, <2>11
  <2> QED
    BY <2>3, <2>4, <2>10, <2>12, <2>13
<1>6. PICK rich \in Pin : rich = Best(Subs \ op[p].taken)
  BY BestOf
<1> QED
  BY <1>4, <1>5, <1>6 DEF Richest

\* persistState, where nothing is registered, where it is, and where that fails.
LEMMA PersistFrame ==
  ASSUME AccountsTypeOK, NEW p \in Procs, Equipped(op[p]), PersistState(p)
  PROVE  /\ StepFrame(p)
         /\ \/ \E t \in {<<>>, <<"error">>} : Advanced(p, op[p], t)
            \/ /\ registry[op[p].acct] = None /\ Advanced(p, op[p], Tail(op[p].todo))
            \/ /\ Advanced(p, op[p], <<"persisted">> \o Tail(op[p].todo))
               /\ registry[op[p].acct] \in Handles
               /\ \A h \in Handles :
                    Used(h)' => adapter'[h] = Stated(registry[op[p].acct])[h]
<1> DEFINE h == registry[op[p].acct]
<1>1. op[p].todo # <<>> /\ Head(op[p].todo) \notin Gives
  BY DEF PersistState, At, Gives
<1>2. /\ op[p].acct \in Accounts /\ op[p] \in Operation /\ h \in Handles \cup {None}
      /\ Alike(op[p], op[p]) /\ Tail(op[p].todo) \in Seq(Names)
      /\ op[p].mine \in Handles \cup {None} /\ (op[p].mine \in Handles \/ Due(Tail(op[p].todo)))
  BY <1>1, UnderWay
<1>3. StorePart(p)
  BY <1>2, NothingStored DEF PersistState
<1>4. CASE Throw(p) /\ KeepUsed(adapter)
  BY <1>1, <1>3, <1>4, ErrorPart, NoneChanged, Parts
<1>5. CASE h = None /\ Then(p, <<>>) /\ KeepUsed(adapter)
  BY <1>1, <1>3, <1>5, GoesOn, NoneChanged, Parts
<1>6. CASE h # None /\ Then(p, <<"persisted">>) /\ KeepUsed(Stated(h))
  <2>1. /\ Stated(h) \in [Handles -> Adapter]
        /\ \A g \in Handles \ {h} : Stated(h)[g] = adapter[g]
    BY <1>2, <1>6, StatedAdapter
  <2>2. PICK ads \in [Handles -> Adapter] : ads = Stated(h)
    BY <2>1, Zenon
  <2>3. KeepUsed(ads) /\ \A g \in Handles \ {h} : ads[g] = adapter[g]
    BY <1>6, <2>1, <2>2
  <2>4. AdapterPart(p)
    <3> HIDE DEF h
    <3>1. h \in Handles \cup {None} /\ h \in {op[p].mine, registry[op[p].acct], None}
      BY <1>2 DEF h
    <3> QED
      BY <2>3, <3>1, OneChanged
  <2>5. \A g \in Handles : Used(g)' => adapter'[g] = Stated(h)[g]
    BY <2>2, <2>3, Kept
  <2>6. op[p].mine \in Handles \/ Due(<<"persisted">> \o Tail(op[p].todo))
    <3>1. "persisted" \in Names /\ "persisted" \notin Uses
      BY DEF Names, Uses
    <3> QED
      BY <1>2, <3>1, DueMore
  <2>7. On(p, op[p], <<"persisted">>) /\ <<"persisted">> \in Seq(Names)
    BY <1>6, Named DEF Then
  <2>8. OpPart(p) /\ Advanced(p, op[p], <<"persisted">> \o Tail(op[p].todo))
    BY <1>1, <1>2, <2>6, <2>7, GoesAs
  <2> QED
    BY <1>2, <1>3, <1>6, <2>4, <2>5, <2>8, Parts
<1> QED
  BY <1>4, <1>5, <1>6 DEF PersistState

\* A bind puts the adapter on its target.
LEMMA BindAdapterFrame ==
  ASSUME AccountsTypeOK, NEW p \in Procs, Equipped(op[p]), BindAdapter(p)
  PROVE  StepFrame(p)
<1> DEFINE h == op[p].mine
<1>1. op[p].todo # <<>> /\ Head(op[p].todo) \notin Gives /\ Head(op[p].todo) \in Uses
  BY DEF BindAdapter, At, Gives, Uses
<1>2. /\ op[p].acct \in Accounts /\ op[p] \in Operation /\ op[p].mine \in Handles
      /\ adapter \in [Handles -> Adapter] /\ op[p].target \in Pin
  BY <1>1, UnderWay DEF AccountsTypeOK, Operation, Pin
<1>3. StorePart(p)
  BY <1>2, NothingStored DEF BindAdapter
<1>4. OpPart(p)
  BY <1>1, GoesOn DEF BindAdapter
<1>5. [adapter EXCEPT ![h].pin = op[p].target] \in [Handles -> Adapter]
  BY <1>2 DEF Adapter
<1>6. PICK ads \in [Handles -> Adapter] : ads = [adapter EXCEPT ![h].pin = op[p].target]
  BY <1>5, Zenon
<1>7. KeepUsed(ads) /\ \A g \in Handles \ {h} : ads[g] = adapter[g]
  BY <1>2, <1>6 DEF BindAdapter
<1>8. AdapterPart(p)
  BY <1>2, <1>7, OneChanged
<1> QED
  BY <1>3, <1>4, <1>8, Parts

\* disconnect
LEMMA LeaveFrame ==
  ASSUME AccountsTypeOK, NEW p \in Procs, Equipped(op[p]), Leave(p)
  PROVE  StepFrame(p) /\ Advanced(p, op[p], Tail(op[p].todo))
<1> DEFINE h == op[p].mine
<1>1. op[p].todo # <<>> /\ Head(op[p].todo) \notin Gives /\ Head(op[p].todo) \in Uses
  BY DEF Leave, At, Gives, Uses
<1>2. /\ op[p].acct \in Accounts /\ op[p] \in Operation /\ op[p].mine \in Handles
      /\ adapter \in [Handles -> Adapter]
  BY <1>1, UnderWay DEF AccountsTypeOK
<1>3. StorePart(p)
  <2>1. refs' \in [Accounts -> Pin]
    BY DEF Leave, AccountsTypeOK, Pin
  <2> QED
    BY <2>1 DEF Leave, StorePart, AccountsTypeOK, counts
<1>4. OpPart(p) /\ Advanced(p, op[p], Tail(op[p].todo))
  BY <1>1, GoesOn DEF Leave
<1>5. [adapter EXCEPT ![h].up = FALSE] \in [Handles -> Adapter]
  BY <1>2 DEF Adapter
<1>6. PICK ads \in [Handles -> Adapter] : ads = [adapter EXCEPT ![h].up = FALSE]
  BY <1>5, Zenon
<1>7. KeepUsed(ads) /\ \A g \in Handles \ {h} : ads[g] = adapter[g]
  BY <1>2, <1>6 DEF Leave
<1>8. AdapterPart(p)
  BY <1>2, <1>7, OneChanged
<1> QED
  BY <1>3, <1>4, <1>8, Parts

\* The registered adapter is dropped.
LEMMA DropFrame ==
  ASSUME AccountsTypeOK, NEW p \in Procs, Equipped(op[p]), Drop(p)
  PROVE  StepFrame(p) /\ Advanced(p, op[p], Tail(op[p].todo))
<1>1. op[p].todo # <<>> /\ Head(op[p].todo) \notin Gives
  BY DEF Drop, At, Gives
<1>2. op[p].acct \in Accounts
  BY <1>1, UnderWay
<1>3. StorePart(p)
  <2>1. registry' \in [Accounts -> Handles \cup {None}]
    BY DEF Drop, AccountsTypeOK
  <2> QED
    BY <1>2, <2>1 DEF Drop, StorePart, AccountsTypeOK, counts
<1> QED
  BY <1>1, <1>3, GoesOn, NoneChanged, Parts DEF Drop

\* The same when the credentials are replaced or the account is archived.
LEMMA ForgetAdapterFrame ==
  ASSUME AccountsTypeOK, NEW p \in Procs, Equipped(op[p]), ForgetAdapter(p)
  PROVE  StepFrame(p) /\ Advanced(p, op[p], Tail(op[p].todo)) /\ registry'[op[p].acct] = None
<1>1. op[p].todo # <<>> /\ Head(op[p].todo) \notin Gives
  BY DEF ForgetAdapter, At, Gives
<1>2. op[p].acct \in Accounts
  BY <1>1, UnderWay
<1>3. StorePart(p) /\ registry'[op[p].acct] = None
  <2>1. registry' \in [Accounts -> Handles \cup {None}] /\ registry'[op[p].acct] = None
    BY <1>2 DEF ForgetAdapter, AccountsTypeOK
  <2> QED
    BY <1>2, <2>1 DEF ForgetAdapter, StorePart, AccountsTypeOK, counts
<1> QED
  BY <1>1, <1>3, GoesOn, NoneChanged, Parts DEF ForgetAdapter

\* New credentials are stored.
LEMMA StoreFrame ==
  ASSUME AccountsTypeOK, NEW p \in Procs, Equipped(op[p]), Store(p)
  PROVE  StepFrame(p) /\ Advanced(p, op[p], Tail(op[p].todo))
<1>1. op[p].todo # <<>> /\ Head(op[p].todo) \notin Gives
  BY DEF Store, At, Gives
<1>2. op[p].acct \in Accounts
  BY <1>1, UnderWay
<1>3. StorePart(p)
  <2>1. cred' \in [Accounts -> Nat]
    <3>1. cred \in [Accounts -> Nat] /\ cred[op[p].acct] + 1 \in Nat
      BY <1>2 DEF AccountsTypeOK
    <3> QED
      BY <3>1 DEF Store
  <2> QED
    BY <1>2, <2>1 DEF Store, StorePart, AccountsTypeOK, counts
<1> QED
  BY <1>1, <1>3, GoesOn, NoneChanged, Parts DEF Store

\* The connection of a new adapter.
LEMMA LoadFrame ==
  ASSUME AccountsTypeOK, NEW p \in Procs, Equipped(op[p]), Load(p)
  PROVE  /\ StepFrame(p)
         /\ \E h \in Handles :
              /\ Unused(h) /\ adapter'[h].pin = op[p].seen.pin
              /\ adapter'[h].cred = cred[op[p].acct]
              /\ \E o : /\ Advanced(p, o, <<"pick", "opened">> \o Tail(op[p].todo))
                        /\ Alike(o, op[p]) /\ o.mine = h /\ o.seen = op[p].seen
<1>1. op[p].todo # <<>>
  BY DEF Load, At
<1>2. /\ op[p].acct \in Accounts /\ op[p] \in Operation /\ op[p].seen \in Row
      /\ Tail(op[p].todo) \in Seq(Names) /\ adapter \in [Handles -> Adapter]
  BY <1>1, UnderWay DEF AccountsTypeOK
<1>3. PICK h \in Handles :
        /\ Unused(h) /\ On(p, [op[p] EXCEPT !.mine = h], <<"pick", "opened">>)
        /\ KeepUsed([adapter EXCEPT ![h] =
             [pin |-> op[p].seen.pin, up |-> FALSE, cred |-> cred[op[p].acct]]])
  BY DEF Load
<1>4. StorePart(p)
  <2>1. op[p].seen.pin \in Pin
    BY <1>2 DEF Row
  <2>2. refs' \in [Accounts -> Pin]
    BY <2>1 DEF Load, AccountsTypeOK
  <2> QED
    BY <2>2 DEF Load, StorePart, AccountsTypeOK, counts
<1>5. [op[p] EXCEPT !.mine = h] \in Operation
  BY <1>2 DEF Operation
<1>6. PICK o \in Operation : o = [op[p] EXCEPT !.mine = h]
  BY <1>5, Zenon
<1>7. Alike(o, op[p]) /\ o.mine = h /\ o.seen = op[p].seen
  BY <1>2, <1>6 DEF Alike, Operation
<1>8. On(p, o, <<"pick", "opened">>) /\ <<"pick", "opened">> \in Seq(Names)
  BY <1>3, <1>6, Named
<1>9. OpPart(p) /\ Advanced(p, o, <<"pick", "opened">> \o Tail(op[p].todo))
  BY <1>1, <1>3, <1>7, <1>8, GoesAs
<1>10. PICK new \in Adapter :
         /\ new = [pin |-> op[p].seen.pin, up |-> FALSE, cred |-> cred[op[p].acct]]
         /\ new.pin = op[p].seen.pin /\ new.cred = cred[op[p].acct]
  <2>1. op[p].seen.pin \in Pin /\ cred[op[p].acct] \in Nat
    BY <1>2 DEF Row, AccountsTypeOK
  <2>2. [pin |-> op[p].seen.pin, up |-> FALSE, cred |-> cred[op[p].acct]] \in Adapter
    BY <2>1 DEF Adapter
  <2>3. PICK new \in Adapter :
          new = [pin |-> op[p].seen.pin, up |-> FALSE, cred |-> cred[op[p].acct]]
    BY <2>2, Zenon
  <2>4. new.pin = op[p].seen.pin /\ new.cred = cred[op[p].acct]
    BY <2>3
  <2> QED
    BY <2>3, <2>4
<1>11. PICK ads \in [Handles -> Adapter] : ads = [adapter EXCEPT ![h] = new]
  BY <1>2
<1>12. KeepUsed(ads) /\ (\A g \in Handles \ {h} : ads[g] = adapter[g]) /\ ads[h] = new
  BY <1>2, <1>3, <1>10, <1>11
<1>13. AdapterPart(p)
  BY <1>3, <1>12, OneChanged
<1>14. Used(h)'
  <2>1. op'[p].mine = h
    <3>1. <<"pick", "opened">> \o Tail(op[p].todo) # <<>>
      BY <1>2, <1>8, ConcatEqualIffEmpty
    <3> QED
      BY <1>7, <1>9, <3>1 DEF Advanced
  <2> QED
    BY <1>2, <2>1 DEF Used
<1>15. adapter'[h] = new
  BY <1>12, <1>14, Kept
<1> QED
  BY <1>3, <1>4, <1>7, <1>9, <1>10, <1>13, <1>15, Parts

\* The login picks a sub-account for its adapter, or throws.
LEMMA PickFrame ==
  ASSUME AccountsTypeOK, NEW p \in Procs, Equipped(op[p]), Pick(p)
  PROVE  /\ StepFrame(p)
         /\ \/ \E t \in {<<>>, <<"error">>} : Advanced(p, op[p], t)
            \/ /\ Advanced(p, op[p], Tail(op[p].todo))
               /\ \A h \in Handles :
                    h = op[p].mine /\ Used(h)' =>
                      /\ adapter'[h].cred = adapter[h].cred
                      /\ adapter[h].pin = None \/ adapter'[h].pin = adapter[h].pin
<1> DEFINE h == op[p].mine
           free == Best(Subs \ SiblingPins(op[p].acct))
<1>1. op[p].todo # <<>> /\ Head(op[p].todo) \notin Gives /\ Head(op[p].todo) \in Uses
  BY DEF Pick, At, Gives, Uses
<1>2. /\ op[p].acct \in Accounts /\ op[p] \in Operation /\ op[p].mine \in Handles
      /\ adapter \in [Handles -> Adapter] /\ adapter[op[p].mine] \in Adapter
  BY <1>1, UnderWay DEF AccountsTypeOK
<1>3. StorePart(p)
  BY DEF Pick, StorePart, AccountsTypeOK, counts, Fault
<1>4. CASE Throw(p) /\ KeepUsed(adapter)
  BY <1>1, <1>3, <1>4, ErrorPart, NoneChanged, Parts
<1>5. CASE Then(p, <<>>) /\ KeepUsed([adapter EXCEPT ![h].pin = IF @ = None THEN free ELSE @])
  <2>1. free \in Pin
    BY BestOf
  <2>2. PICK x \in Pin : x = IF adapter[h].pin = None THEN free ELSE adapter[h].pin
    BY <1>2, <2>1 DEF Adapter
  <2>3. KeepUsed([adapter EXCEPT ![h].pin = x])
    BY <1>5, <2>2
  <2>4. [adapter EXCEPT ![h].pin = x] \in [Handles -> Adapter]
    BY <1>2 DEF Adapter
  <2>5. PICK ads \in [Handles -> Adapter] : ads = [adapter EXCEPT ![h].pin = x]
    BY <2>4, Zenon
  <2>6. /\ KeepUsed(ads) /\ \A g \in Handles \ {h} : ads[g] = adapter[g]
        /\ ads[h].pin = x /\ ads[h].cred = adapter[h].cred
    BY <1>2, <2>3, <2>5 DEF Adapter
  <2>7. AdapterPart(p)
    BY <1>2, <2>6, OneChanged
  <2>8. \A g \in Handles : Used(g)' => adapter'[g] = ads[g]
    BY <2>6, Kept
  <2>10. ASSUME NEW g \in Handles, g = h, Used(g)'
         PROVE  /\ adapter'[g].cred = adapter[g].cred
                /\ adapter[g].pin = None \/ adapter'[g].pin = adapter[g].pin
    BY <2>2, <2>6, <2>8, <2>10
  <2>9. OpPart(p) /\ Advanced(p, op[p], Tail(op[p].todo))
    BY <1>1, <1>5, GoesOn
  <2> QED
    BY <1>3, <2>7, <2>9, <2>10, Parts
<1> QED
  BY <1>4, <1>5 DEF Pick

\* The connected adapter is registered.
LEMMA OpenedFrame ==
  ASSUME AccountsTypeOK, NEW p \in Procs, Equipped(op[p]), Opened(p)
  PROVE  /\ StepFrame(p) /\ Advanced(p, op[p], Tail(op[p].todo))
         /\ op[p].mine \in Handles /\ registry'[op[p].acct] = op[p].mine
         /\ adapter'[op[p].mine].pin = adapter[op[p].mine].pin
         /\ adapter'[op[p].mine].cred = adapter[op[p].mine].cred
<1>0. PICK h : h = op[p].mine
  OBVIOUS
<1>1. op[p].todo # <<>> /\ Head(op[p].todo) \notin Gives /\ Head(op[p].todo) \in Uses
  BY DEF Opened, At, Gives, Uses
<1>2. /\ op[p].acct \in Accounts /\ op[p] \in Operation /\ op[p].mine \in Handles
      /\ adapter \in [Handles -> Adapter] /\ adapter[op[p].mine] \in Adapter
  BY <1>1, UnderWay DEF AccountsTypeOK
<1>3. StorePart(p) /\ registry'[op[p].acct] = h
  <2>1. refs' \in [Accounts -> Pin]
    BY <1>2 DEF Opened, AccountsTypeOK, Adapter
  <2>2. registry' \in [Accounts -> Handles \cup {None}] /\ registry'[op[p].acct] = h
    BY <1>0, <1>2 DEF Opened, AccountsTypeOK
  <2> QED
    BY <1>0, <1>2, <2>1, <2>2 DEF Opened, StorePart, AccountsTypeOK, counts
<1>4. OpPart(p) /\ Advanced(p, op[p], Tail(op[p].todo))
  BY <1>1, GoesOn DEF Opened
<1>5. [adapter EXCEPT ![h].up = TRUE] \in [Handles -> Adapter]
  BY <1>0, <1>2 DEF Adapter
<1>6. PICK ads \in [Handles -> Adapter] : ads = [adapter EXCEPT ![h].up = TRUE]
  BY <1>5, Zenon
<1>7. /\ KeepUsed(ads) /\ \A g \in Handles \ {h} : ads[g] = adapter[g]
      /\ ads[h].pin = adapter[h].pin /\ ads[h].cred = adapter[h].cred
  BY <1>0, <1>2, <1>6 DEF Opened, Adapter
<1>8. AdapterPart(p)
  BY <1>0, <1>2, <1>7, OneChanged
<1>9. Used(h)'
  BY <1>0, <1>2, <1>3 DEF Used
<1>10. adapter'[h] = ads[h]
  <2>1. \A g \in Handles : Used(g)' => adapter'[g] = ads[g]
    BY <1>7, Kept
  <2> QED
    BY <1>0, <1>2, <1>9, <2>1
<1> QED
  BY <1>0, <1>2, <1>3, <1>4, <1>7, <1>8, <1>10, Parts

\* disconnect of the broker runtime: with nothing to disconnect, or on to it.
LEMMA StashFrame ==
  ASSUME AccountsTypeOK, NEW p \in Procs, Equipped(op[p]), Stash(p)
  PROVE  /\ StepFrame(p)
         /\ \/ Advanced(p, op[p], Tail(op[p].todo))
            \/ \E o, s : /\ Advanced(p, o, s \o Tail(op[p].todo)) /\ Alike(o, op[p])
                         /\ s \in {<<"persisted", "leave", "drop">>, <<"leave", "drop">>}
<1> DEFINE h == registry[op[p].acct]
<1>1. op[p].todo # <<>> /\ Head(op[p].todo) \notin Gives
  BY DEF Stash, At, Gives
<1>2. /\ op[p].acct \in Accounts /\ op[p] \in Operation /\ h \in Handles \cup {None}
      /\ op[p].seen \in Row
  BY <1>1, UnderWay
<1>3. StorePart(p)
  BY <1>2, NothingStored DEF Stash
<1>4. CASE h = None /\ Then(p, <<>>) /\ KeepUsed(adapter)
  BY <1>1, <1>3, <1>4, GoesOn, NoneChanged, Parts
<1>5. ASSUME h # None,
             NEW s \in {<<"persisted", "leave", "drop">>, <<"leave", "drop">>},
             On(p, [op[p] EXCEPT !.mine = h], s)
      PROVE  OpPart(p) /\ \E o : Advanced(p, o, s \o Tail(op[p].todo)) /\ Alike(o, op[p])
  <2>1. [op[p] EXCEPT !.mine = h] \in Operation
    BY <1>2 DEF Operation
  <2>2. PICK o \in Operation : o = [op[p] EXCEPT !.mine = h]
    BY <2>1, Zenon
  <2>3. Alike(o, op[p]) /\ o.mine = h
    BY <1>2, <2>2 DEF Alike, Operation
  <2>4. On(p, o, s)
    BY <1>5, <2>2
  <2>5. s \in Seq(Names)
    <3>1. <<"persisted", "leave", "drop">> \in Seq(Names) /\ <<"leave", "drop">> \in Seq(Names)
      BY Named
    <3> QED
      BY <1>5, <3>1
  <2>6. o.mine \in Handles /\ o.mine \in {op[p].mine, registry[op[p].acct], None}
    BY <1>2, <1>5, <2>3
  <2> HIDE DEF h
  <2> QED
    BY <1>1, <2>3, <2>4, <2>5, <2>6, GoesAs
<1>6. CASE /\ h # None
           /\ On(p, [op[p] EXCEPT !.mine = h], <<"persisted", "leave", "drop">>)
           /\ KeepUsed(Stated(h))
  <2>1. /\ Stated(h) \in [Handles -> Adapter]
        /\ \A g \in Handles \ {h} : Stated(h)[g] = adapter[g]
    BY <1>2, <1>6, StatedAdapter
  <2>2. PICK ads \in [Handles -> Adapter] : ads = Stated(h)
    BY <2>1, Zenon
  <2>3. KeepUsed(ads) /\ \A g \in Handles \ {h} : ads[g] = adapter[g]
    BY <1>6, <2>1, <2>2
  <2>4. AdapterPart(p)
    <3> HIDE DEF h
    <3>1. h \in Handles \cup {None} /\ h \in {op[p].mine, registry[op[p].acct], None}
      BY <1>2 DEF h
    <3> QED
      BY <2>3, <3>1, OneChanged
  <2> QED
    BY <1>3, <1>5, <1>6, <2>4, Parts
<1>7. CASE /\ h # None /\ KeepUsed(adapter)
           /\ On(p, [op[p] EXCEPT !.mine = h], <<"leave", "drop">>)
  BY <1>3, <1>5, <1>7, NoneChanged, Parts
<1> QED
  BY <1>4, <1>6, <1>7 DEF Stash

\* connectAccount of the broker runtime: a new adapter, the one there is, or a new
\* one in its place.
LEMMA EnterFrame ==
  ASSUME AccountsTypeOK, NEW p \in Procs, Equipped(op[p]), Enter(p)
  PROVE  /\ StepFrame(p)
         /\ \/ Advanced(p, op[p], <<"load">> \o Tail(op[p].todo))
            \/ /\ registry[op[p].acct] # None
               /\ \E o : /\ Alike(o, op[p]) /\ o.mine = registry[op[p].acct] /\ o.seen = op[p].seen
                         /\ \/ /\ Advanced(p, o, Tail(op[p].todo))
                               /\ InPlace(registry[op[p].acct], op[p].seen.pin)
                            \/ Advanced(p, o, <<"leave", "drop", "load">> \o Tail(op[p].todo))
         /\ \A h \in Handles : Used(h)' => adapter'[h] = adapter[h]
<1> DEFINE h == registry[op[p].acct]
<1>1. op[p].todo # <<>>
  BY DEF Enter, At
<1>2. /\ op[p].acct \in Accounts /\ op[p] \in Operation /\ h \in Handles \cup {None}
      /\ op[p].seen \in Row /\ Alike(op[p], op[p]) /\ Tail(op[p].todo) \in Seq(Names)
      /\ op[p].mine \in Handles \cup {None}
  BY <1>1, UnderWay
<1>3. StorePart(p)
  <2>1. asks' = asks /\ faults' \in {faults, faults + 1}
    BY DEF Enter, counts, Fault
  <2> QED
    BY <2>1 DEF Enter, StorePart, AccountsTypeOK
<1>4. AdapterPart(p)
  BY NoneChanged DEF Enter
<1>5. \A g \in Handles : Used(g)' => adapter'[g] = adapter[g]
  BY Kept DEF Enter, AccountsTypeOK
<1>6. CASE h = None /\ Then(p, <<"load">>)
  <2>1. On(p, op[p], <<"load">>)
    BY <1>6 DEF Then
  <2>2. <<"load">> \in Seq(Names) /\ Due(<<"load">> \o Tail(op[p].todo))
    BY <1>2, GivesFirst
  <2>3. OpPart(p) /\ Advanced(p, op[p], <<"load">> \o Tail(op[p].todo))
    BY <1>1, <1>2, <2>1, <2>2, GoesAs
  <2> QED
    BY <1>3, <1>4, <1>5, <2>3, Parts
<1>7. ASSUME h # None, NEW s \in {<<>>, <<"leave", "drop", "load">>},
             On(p, [op[p] EXCEPT !.mine = h], s)
      PROVE  OpPart(p) /\ \E o : /\ Advanced(p, o, s \o Tail(op[p].todo)) /\ Alike(o, op[p])
                                 /\ o.mine = h /\ o.seen = op[p].seen
  <2>1. [op[p] EXCEPT !.mine = h] \in Operation
    BY <1>2 DEF Operation
  <2>2. PICK o \in Operation : o = [op[p] EXCEPT !.mine = h]
    BY <2>1, Zenon
  <2>3. Alike(o, op[p]) /\ o.mine = h /\ o.seen = op[p].seen
    BY <1>2, <2>2 DEF Alike, Operation
  <2>4. On(p, o, s)
    BY <1>7, <2>2
  <2>5. s \in Seq(Names)
    <3>1. <<"leave", "drop", "load">> \in Seq(Names)
      BY Named
    <3> QED
      BY <1>7, <3>1, EmptySeq
  <2>6. o.mine \in Handles /\ o.mine \in {op[p].mine, registry[op[p].acct], None}
    BY <1>2, <1>7, <2>3
  <2> HIDE DEF h
  <2> QED
    BY <1>1, <2>3, <2>4, <2>5, <2>6, GoesAs
<1>8. CASE h # None /\ On(p, [op[p] EXCEPT !.mine = h], <<>>) /\ InPlace(h, op[p].seen.pin)
  <2>1. OpPart(p) /\ \E o : /\ Advanced(p, o, <<>> \o Tail(op[p].todo)) /\ Alike(o, op[p])
                            /\ o.mine = h /\ o.seen = op[p].seen
    BY <1>7, <1>8
  <2>2. <<>> \o Tail(op[p].todo) = Tail(op[p].todo)
    BY <1>2, ConcatEmptySeq
  <2> QED
    BY <1>3, <1>4, <1>5, <1>8, <2>1, <2>2, Parts
<1>9. CASE h # None /\ On(p, [op[p] EXCEPT !.mine = h], <<"leave", "drop", "load">>)
  <2>1. OpPart(p) /\ \E o : /\ Advanced(p, o, <<"leave", "drop", "load">> \o Tail(op[p].todo))
                            /\ Alike(o, op[p]) /\ o.mine = h /\ o.seen = op[p].seen
    BY <1>7, <1>9
  <2> QED
    BY <1>3, <1>4, <1>5, <1>9, <2>1, Parts
<1> QED
  BY <1>6, <1>8, <1>9 DEF Enter
-----------------------------------------------------------------------------

(***************************************************************************)
(* The other operations                                                    *)
(***************************************************************************)
\* A step gives its account no adapter that another account has.
LEMMA OwnersKept ==
  ASSUME AccountsTypeOK, OneOwner, NEW p \in Procs, op[p].acct \in Accounts, StepFrame(p)
  PROVE  OneOwner'
<1>1. ASSUME NEW h \in Handles, NEW a \in Accounts, Owner(h, a)'
      PROVE  Owner(h, a) \/ (Unused(h) /\ a = op[p].acct)
  <2>0. h # None
    BY AccountsAssumption
  <2>1. CASE registry'[a] = h
    BY <2>0, <2>1 DEF Owner, StepFrame
  <2>2. ASSUME NEW q \in Procs, op'[q].acct = a, op'[q].mine = h
        PROVE  Owner(h, a) \/ (Unused(h) /\ a = op[p].acct)
    <3>1. CASE q # p
      <4>1. op'[q] = op[q]
        BY <3>1 DEF StepFrame, AccountsTypeOK
      <4> QED
        BY <2>2, <4>1 DEF Owner
    <3>2. CASE q = p
      <4>1. op'[p].acct = op[p].acct
        BY <2>0, <2>2, <3>2 DEF StepFrame
      <4>2. op'[p].mine \in {op[p].mine, registry[op[p].acct], None} \/ Unused(op'[p].mine)
        BY DEF StepFrame
      <4> QED
        BY <2>0, <2>2, <3>2, <4>1, <4>2 DEF Owner
    <3> QED
      BY <3>1, <3>2
  <2> QED
    BY <1>1, <2>1, <2>2 DEF Owner
<1>2. \A h \in Handles : \A a \in Accounts : Unused(h) => ~Owner(h, a)
  BY DEF Unused, Owner
<1> QED
  BY <1>1, <1>2 DEF OneOwner

\* Operations do not come to be alone by a step.
LEMMA LonelyKept ==
  ASSUME AccountsTypeOK, Lonely, NEW p \in Procs, op[p].todo # <<>>, StepFrame(p)
  PROVE  Lonely'
<1>1. \A q \in Procs \ {p} : op'[q] = op[q]
  BY DEF StepFrame, AccountsTypeOK
<1>2. op'[p].todo # <<>> => op'[p].acct = op[p].acct /\ op'[p].alone = op[p].alone
  BY DEF StepFrame
<1> QED
  BY <1>1, <1>2 DEF Lonely, Idle

\* What a connect that waits relies on.
LEMMA ConnectKept ==
  ASSUME NEW q \in Procs, op'[q] = op[q], row'[op[q].acct] = row[op[q].acct],
         cred'[op[q].acct] = cred[op[q].acct], registry'[op[q].acct] = registry[op[q].acct],
         op[q].mine \in Handles => adapter'[op[q].mine] = adapter[op[q].mine],
         ConnectAt(op[q])
  PROVE  ConnectAt(op[q])'
<1> DEFINE o == op[q]
<1>1. op'[q] = o
  OBVIOUS
<1>2. Served(op[q]) => Served(op[q])'
  BY DEF Served
<1>3. \A pin \in {op[q].seen.pin, row[op[q].acct].pin} :
        op[q].mine \in Handles /\ Settled(op[q], pin) => Settled(op[q], pin)'
  BY DEF Settled, Best
<1> QED
  BY <1>2, <1>3 DEF ConnectAt, Served

\* The connects of other accounts.
LEMMA OthersKept ==
  ASSUME AccountsTypeOK, OneOwner, Lonely, \A q \in Procs : Equipped(op[q]),
         \A q \in Procs : Connects(op[q]) => ConnectAt(op[q]),
         NEW p \in Procs, op[p].todo # <<>>, StepFrame(p), NEW q \in Procs \ {p},
         Connects(op[q])'
  PROVE  ConnectAt(op[q])'
<1>1. op'[q] = op[q]
  BY DEF StepFrame, AccountsTypeOK
<1>2. Connects(op[q]) /\ ConnectAt(op[q])
  BY <1>1 DEF Connects
<1>3. op[q].acct \in Accounts /\ op[p].acct \in Accounts
  BY <1>2 DEF Equipped, Connects
<1>4. op[q].acct # op[p].acct
  BY <1>2 DEF Lonely, Idle, Connects
<1>5. /\ row'[op[q].acct] = row[op[q].acct] /\ cred'[op[q].acct] = cred[op[q].acct]
      /\ registry'[op[q].acct] = registry[op[q].acct]
  BY <1>3, <1>4 DEF StepFrame
<1>6. ASSUME op[q].mine \in Handles
      PROVE  adapter'[op[q].mine] = adapter[op[q].mine]
  <2>1. PICK m \in Handles \cup {None} :
          /\ m \in {op[p].mine, registry[op[p].acct], None} \/ Unused(m)
          /\ \A h \in Handles \ {m} : Used(h)' => adapter'[h] = adapter[h]
    BY DEF StepFrame
  <2>2. PICK h \in Handles : h = op[q].mine
    BY <1>6
  <2>3. h # None /\ ~Unused(h) /\ Owner(h, op[q].acct)
    BY <1>3, <2>2, AccountsAssumption DEF Unused, Owner
  <2>4. h # op[p].mine /\ h # registry[op[p].acct]
    BY <1>3, <1>4, <2>3 DEF OneOwner, Owner
  <2>5. Used(h)'
    BY <1>1, <1>3, <2>2 DEF Used
  <2> QED
    BY <2>1, <2>2, <2>3, <2>4, <2>5
<1> QED
  BY <1>1, <1>2, <1>5, <1>6, ConnectKept

\* The invariant after a step, if the connect that it belongs to goes on as it should.
LEMMA StepKeeps ==
  ASSUME AccountsInv, NEW p \in Procs, op[p].todo # <<>>, StepFrame(p),
         Connects(op[p])' => ConnectAt(op[p])'
  PROVE  AccountsInv'
<1>1. op[p].acct \in Accounts
  BY DEF AccountsInv, Equipped
<1>2. OneOwner' /\ Lonely'
  BY <1>1, OwnersKept, LonelyKept DEF AccountsInv
<1>3. ASSUME NEW q \in Procs PROVE Equipped(op[q])'
  <2>1. CASE q = p
    BY <2>1 DEF StepFrame
  <2>2. CASE q # p
    <3>1. op'[q] = op[q]
      BY <2>2 DEF StepFrame, AccountsInv, AccountsTypeOK
    <3> QED
      BY <3>1 DEF AccountsInv, Equipped
  <2> QED
    BY <2>1, <2>2
<1>4. ASSUME NEW q \in Procs, Connects(op[q])' PROVE ConnectAt(op[q])'
  BY <1>4, OthersKept DEF AccountsInv
<1> QED
  BY <1>2, <1>3, <1>4 DEF AccountsInv, StepFrame
-----------------------------------------------------------------------------

(***************************************************************************)
(* A connect, step by step                                                 *)
(***************************************************************************)
\* A list that is given as a step and what follows it.
LEMMA HeadOf ==
  ASSUME NEW S, NEW x \in S, NEW s \in Seq(S), NEW t, t = <<x>> \o s
  PROVE  Head(t) = x /\ Tail(t) = s
BY OneMore

\* The step each list begins with, and the list that follows.
LEMMA ConnectHeads ==
  /\ Head(EndOn) = "end" /\ Tail(EndOn) = <<>>
  /\ Head(PersistOn) = "persist" /\ Tail(PersistOn) = EndOn
  /\ Head(PersistedOn) = "persisted" /\ Tail(PersistedOn) = EndOn
  /\ Head(ConnectedOn) = "connected" /\ Tail(ConnectedOn) = PersistOn
  /\ Head(RichestOn) = "richest" /\ Tail(RichestOn) = ConnectedOn
  /\ Head(SiblingsOn) = "siblings" /\ Tail(SiblingsOn) = ConnectedOn
  /\ Head(StateOn) = "state" /\ Tail(StateOn) = SiblingsOn
  /\ Head(HealthOn) = "health" /\ Tail(HealthOn) = StateOn
  /\ Head(OpenedOn) = "opened" /\ Tail(OpenedOn) = HealthOn
  /\ Head(PickOn) = "pick" /\ Tail(PickOn) = OpenedOn
  /\ Head(LoadOn) = "load" /\ Tail(LoadOn) = HealthOn
  /\ Head(DropOn) = "drop" /\ Tail(DropOn) = LoadOn
  /\ Head(LeaveOn) = "leave" /\ Tail(LeaveOn) = DropOn
  /\ Head(EnterOn) = "enter" /\ Tail(EnterOn) = HealthOn
  /\ Head(ConnectingOn) = "connecting" /\ Tail(ConnectingOn) = EnterOn
  /\ Head(<<"error">>) = "error" /\ Tail(<<"error">>) = <<>>
<1>1. Head(EndOn) = "end" /\ Tail(EndOn) = <<>>
  BY DEF EndOn
<1>2. Head(<<"error">>) = "error" /\ Tail(<<"error">>) = <<>>
  OBVIOUS
<1>3. Head(PersistOn) = "persist" /\ Tail(PersistOn) = EndOn
  <2>1. PersistOn = <<"persist">> \o EndOn
    BY DEF PersistOn
  <2> QED
    BY ONLY <2>1, HeadOf, Named, ConnectLists
<1>4. Head(PersistedOn) = "persisted" /\ Tail(PersistedOn) = EndOn
  <2>1. PersistedOn = <<"persisted">> \o EndOn
    BY DEF PersistedOn
  <2> QED
    BY ONLY <2>1, HeadOf, Named, ConnectLists
<1>5. Head(ConnectedOn) = "connected" /\ Tail(ConnectedOn) = PersistOn
  <2>1. ConnectedOn = <<"connected">> \o PersistOn
    BY DEF ConnectedOn
  <2> QED
    BY ONLY <2>1, HeadOf, Named, ConnectLists
<1>6. Head(RichestOn) = "richest" /\ Tail(RichestOn) = ConnectedOn
  <2>1. RichestOn = <<"richest">> \o ConnectedOn
    BY DEF RichestOn
  <2> QED
    BY ONLY <2>1, HeadOf, Named, ConnectLists
<1>7. Head(SiblingsOn) = "siblings" /\ Tail(SiblingsOn) = ConnectedOn
  <2>1. SiblingsOn = <<"siblings">> \o ConnectedOn
    BY DEF SiblingsOn
  <2> QED
    BY ONLY <2>1, HeadOf, Named, ConnectLists
<1>8. Head(StateOn) = "state" /\ Tail(StateOn) = SiblingsOn
  <2>1. StateOn = <<"state">> \o SiblingsOn
    BY DEF StateOn
  <2> QED
    BY ONLY <2>1, HeadOf, Named, ConnectLists
<1>9. Head(HealthOn) = "health" /\ Tail(HealthOn) = StateOn
  <2>1. HealthOn = <<"health">> \o StateOn
    BY DEF HealthOn
  <2> QED
    BY ONLY <2>1, HeadOf, Named, ConnectLists
<1>10. Head(OpenedOn) = "opened" /\ Tail(OpenedOn) = HealthOn
  <2>1. OpenedOn = <<"opened">> \o HealthOn
    BY DEF OpenedOn
  <2> QED
    BY ONLY <2>1, HeadOf, Named, ConnectLists
<1>11. Head(PickOn) = "pick" /\ Tail(PickOn) = OpenedOn
  <2>1. PickOn = <<"pick">> \o OpenedOn
    BY DEF PickOn
  <2> QED
    BY ONLY <2>1, HeadOf, Named, ConnectLists
<1>12. Head(LoadOn) = "load" /\ Tail(LoadOn) = HealthOn
  <2>1. LoadOn = <<"load">> \o HealthOn
    BY DEF LoadOn
  <2> QED
    BY ONLY <2>1, HeadOf, Named, ConnectLists
<1>13. Head(DropOn) = "drop" /\ Tail(DropOn) = LoadOn
  <2>1. DropOn = <<"drop">> \o LoadOn
    BY DEF DropOn
  <2> QED
    BY ONLY <2>1, HeadOf, Named, ConnectLists
<1>14. Head(LeaveOn) = "leave" /\ Tail(LeaveOn) = DropOn
  <2>1. LeaveOn = <<"leave">> \o DropOn
    BY DEF LeaveOn
  <2> QED
    BY ONLY <2>1, HeadOf, Named, ConnectLists
<1>15. Head(EnterOn) = "enter" /\ Tail(EnterOn) = HealthOn
  <2>1. EnterOn = <<"enter">> \o HealthOn
    BY DEF EnterOn
  <2> QED
    BY ONLY <2>1, HeadOf, Named, ConnectLists
<1>16. Head(ConnectingOn) = "connecting" /\ Tail(ConnectingOn) = EnterOn
  <2>1. ConnectingOn = <<"connecting">> \o EnterOn
    BY DEF ConnectingOn
  <2> QED
    BY ONLY <2>1, HeadOf, Named, ConnectLists
<1> QED
  BY <1>1, <1>2, <1>3, <1>4, <1>5, <1>6, <1>7, <1>8, <1>9, <1>10, <1>11, <1>12, <1>13, <1>14,
     <1>15, <1>16

\* The same of new credentials.
LEMMA CredsHeads ==
  /\ Head(GetOn) = "get" /\ Tail(GetOn) = ConnectingOn
  /\ Head(DisconnectedOn) = "disconnected" /\ Tail(DisconnectedOn) = GetOn
  /\ Head(StoreOn) = "store" /\ Tail(StoreOn) = DisconnectedOn
  /\ Head(ForgetOn) = "forget" /\ Tail(ForgetOn) = StoreOn
  /\ Head(ForgetDropOn) = "drop" /\ Tail(ForgetDropOn) = ForgetOn
  /\ Head(ForgetLeaveOn) = "leave" /\ Tail(ForgetLeaveOn) = ForgetDropOn
  /\ Head(ForgetPersistedOn) = "persisted" /\ Tail(ForgetPersistedOn) = ForgetLeaveOn
  /\ Head(StashOn) = "stash" /\ Tail(StashOn) = ForgetOn
<1>1. Head(GetOn) = "get" /\ Tail(GetOn) = ConnectingOn
  <2>1. GetOn = <<"get">> \o ConnectingOn
    BY DEF GetOn
  <2> QED
    BY ONLY <2>1, HeadOf, Named, ConnectLists, CredsLists
<1>2. Head(DisconnectedOn) = "disconnected" /\ Tail(DisconnectedOn) = GetOn
  <2>1. DisconnectedOn = <<"disconnected">> \o GetOn
    BY DEF DisconnectedOn
  <2> QED
    BY ONLY <2>1, HeadOf, Named, ConnectLists, CredsLists
<1>3. Head(StoreOn) = "store" /\ Tail(StoreOn) = DisconnectedOn
  <2>1. StoreOn = <<"store">> \o DisconnectedOn
    BY DEF StoreOn
  <2> QED
    BY ONLY <2>1, HeadOf, Named, ConnectLists, CredsLists
<1>4. Head(ForgetOn) = "forget" /\ Tail(ForgetOn) = StoreOn
  <2>1. ForgetOn = <<"forget">> \o StoreOn
    BY DEF ForgetOn
  <2> QED
    BY ONLY <2>1, HeadOf, Named, ConnectLists, CredsLists
<1>5. Head(ForgetDropOn) = "drop" /\ Tail(ForgetDropOn) = ForgetOn
  <2>1. ForgetDropOn = <<"drop">> \o ForgetOn
    BY DEF ForgetDropOn
  <2> QED
    BY ONLY <2>1, HeadOf, Named, ConnectLists, CredsLists
<1>6. Head(ForgetLeaveOn) = "leave" /\ Tail(ForgetLeaveOn) = ForgetDropOn
  <2>1. ForgetLeaveOn = <<"leave">> \o ForgetDropOn
    BY DEF ForgetLeaveOn
  <2> QED
    BY ONLY <2>1, HeadOf, Named, ConnectLists, CredsLists
<1>7. Head(ForgetPersistedOn) = "persisted" /\ Tail(ForgetPersistedOn) = ForgetLeaveOn
  <2>1. ForgetPersistedOn = <<"persisted">> \o ForgetLeaveOn
    BY DEF ForgetPersistedOn
  <2> QED
    BY ONLY <2>1, HeadOf, Named, ConnectLists, CredsLists
<1>8. Head(StashOn) = "stash" /\ Tail(StashOn) = ForgetOn
  <2>1. StashOn = <<"stash">> \o ForgetOn
    BY DEF StashOn
  <2> QED
    BY ONLY <2>1, HeadOf, Named, ConnectLists, CredsLists
<1> QED
  BY <1>1, <1>2, <1>3, <1>4, <1>5, <1>6, <1>7, <1>8

\* The same with functions: the steps and the lists are told apart by them.
Apart(hd, tl) ==
  /\ \A t \in Seq(Names) : hd[t] = Head(t) /\ tl[t] = Tail(t)
  /\ hd[<<"error">>] = "error"
  /\ hd[EndOn] = "end" /\ tl[EndOn] = <<>>
  /\ hd[PersistOn] = "persist" /\ tl[PersistOn] = EndOn
  /\ hd[PersistedOn] = "persisted" /\ tl[PersistedOn] = EndOn
  /\ hd[ConnectedOn] = "connected" /\ tl[ConnectedOn] = PersistOn
  /\ hd[RichestOn] = "richest" /\ tl[RichestOn] = ConnectedOn
  /\ hd[SiblingsOn] = "siblings" /\ tl[SiblingsOn] = ConnectedOn
  /\ hd[StateOn] = "state" /\ tl[StateOn] = SiblingsOn
  /\ hd[HealthOn] = "health" /\ tl[HealthOn] = StateOn
  /\ hd[OpenedOn] = "opened" /\ tl[OpenedOn] = HealthOn
  /\ hd[PickOn] = "pick" /\ tl[PickOn] = OpenedOn
  /\ hd[LoadOn] = "load" /\ tl[LoadOn] = HealthOn
  /\ hd[DropOn] = "drop" /\ tl[DropOn] = LoadOn
  /\ hd[LeaveOn] = "leave" /\ tl[LeaveOn] = DropOn
  /\ hd[EnterOn] = "enter" /\ tl[EnterOn] = HealthOn
  /\ hd[ConnectingOn] = "connecting" /\ tl[ConnectingOn] = EnterOn
  /\ hd[GetOn] = "get" /\ tl[GetOn] = ConnectingOn
  /\ hd[DisconnectedOn] = "disconnected" /\ tl[DisconnectedOn] = GetOn
  /\ hd[StoreOn] = "store" /\ tl[StoreOn] = DisconnectedOn
  /\ hd[ForgetOn] = "forget" /\ tl[ForgetOn] = StoreOn
  /\ hd[ForgetDropOn] = "drop" /\ tl[ForgetDropOn] = ForgetOn
  /\ hd[ForgetLeaveOn] = "leave" /\ tl[ForgetLeaveOn] = ForgetDropOn
  /\ hd[ForgetPersistedOn] = "persisted" /\ tl[ForgetPersistedOn] = ForgetLeaveOn
  /\ hd[StashOn] = "stash" /\ tl[StashOn] = ForgetOn

\* There are such functions: the head and the rest of every list of steps.
LEMMA ListParts == \E hd, tl : Apart(hd, tl)
<1>1. PICK hd, tl : hd = [t \in Seq(Names) |-> Head(t)] /\ tl = [t \in Seq(Names) |-> Tail(t)]
  OBVIOUS
<1>2. \A t \in Seq(Names) : hd[t] = Head(t) /\ tl[t] = Tail(t)
  BY <1>1
<1>3. hd[EndOn] = "end" /\ tl[EndOn] = <<>>
  <2>1. EndOn \in Seq(Names)
    BY ONLY ConnectLists
  <2>2. Head(EndOn) = "end" /\ Tail(EndOn) = <<>>
    BY ONLY ConnectHeads, Zenon
  <2> QED
    BY ONLY <1>2, <2>1, <2>2, Zenon
<1>4. hd[PersistOn] = "persist" /\ tl[PersistOn] = EndOn
  <2>1. PersistOn \in Seq(Names)
    BY ONLY ConnectLists
  <2>2. Head(PersistOn) = "persist" /\ Tail(PersistOn) = EndOn
    BY ONLY ConnectHeads, Zenon
  <2> QED
    BY ONLY <1>2, <2>1, <2>2, Zenon
<1>5. hd[PersistedOn] = "persisted" /\ tl[PersistedOn] = EndOn
  <2>1. PersistedOn \in Seq(Names)
    BY ONLY ConnectLists
  <2>2. Head(PersistedOn) = "persisted" /\ Tail(PersistedOn) = EndOn
    BY ONLY ConnectHeads, Zenon
  <2> QED
    BY ONLY <1>2, <2>1, <2>2, Zenon
<1>6. hd[ConnectedOn] = "connected" /\ tl[ConnectedOn] = PersistOn
  <2>1. ConnectedOn \in Seq(Names)
    BY ONLY ConnectLists
  <2>2. Head(ConnectedOn) = "connected" /\ Tail(ConnectedOn) = PersistOn
    BY ONLY ConnectHeads, Zenon
  <2> QED
    BY ONLY <1>2, <2>1, <2>2, Zenon
<1>7. hd[RichestOn] = "richest" /\ tl[RichestOn] = ConnectedOn
  <2>1. RichestOn \in Seq(Names)
    BY ONLY ConnectLists
  <2>2. Head(RichestOn) = "richest" /\ Tail(RichestOn) = ConnectedOn
    BY ONLY ConnectHeads, Zenon
  <2> QED
    BY ONLY <1>2, <2>1, <2>2, Zenon
<1>8. hd[SiblingsOn] = "siblings" /\ tl[SiblingsOn] = ConnectedOn
  <2>1. SiblingsOn \in Seq(Names)
    BY ONLY ConnectLists
  <2>2. Head(SiblingsOn) = "siblings" /\ Tail(SiblingsOn) = ConnectedOn
    BY ONLY ConnectHeads, Zenon
  <2> QED
    BY ONLY <1>2, <2>1, <2>2, Zenon
<1>9. hd[StateOn] = "state" /\ tl[StateOn] = SiblingsOn
  <2>1. StateOn \in Seq(Names)
    BY ONLY ConnectLists
  <2>2. Head(StateOn) = "state" /\ Tail(StateOn) = SiblingsOn
    BY ONLY ConnectHeads, Zenon
  <2> QED
    BY ONLY <1>2, <2>1, <2>2, Zenon
<1>10. hd[HealthOn] = "health" /\ tl[HealthOn] = StateOn
  <2>1. HealthOn \in Seq(Names)
    BY ONLY ConnectLists
  <2>2. Head(HealthOn) = "health" /\ Tail(HealthOn) = StateOn
    BY ONLY ConnectHeads, Zenon
  <2> QED
    BY ONLY <1>2, <2>1, <2>2, Zenon
<1>11. hd[OpenedOn] = "opened" /\ tl[OpenedOn] = HealthOn
  <2>1. OpenedOn \in Seq(Names)
    BY ONLY ConnectLists
  <2>2. Head(OpenedOn) = "opened" /\ Tail(OpenedOn) = HealthOn
    BY ONLY ConnectHeads, Zenon
  <2> QED
    BY ONLY <1>2, <2>1, <2>2, Zenon
<1>12. hd[PickOn] = "pick" /\ tl[PickOn] = OpenedOn
  <2>1. PickOn \in Seq(Names)
    BY ONLY ConnectLists
  <2>2. Head(PickOn) = "pick" /\ Tail(PickOn) = OpenedOn
    BY ONLY ConnectHeads, Zenon
  <2> QED
    BY ONLY <1>2, <2>1, <2>2, Zenon
<1>13. hd[LoadOn] = "load" /\ tl[LoadOn] = HealthOn
  <2>1. LoadOn \in Seq(Names)
    BY ONLY ConnectLists
  <2>2. Head(LoadOn) = "load" /\ Tail(LoadOn) = HealthOn
    BY ONLY ConnectHeads, Zenon
  <2> QED
    BY ONLY <1>2, <2>1, <2>2, Zenon
<1>14. hd[DropOn] = "drop" /\ tl[DropOn] = LoadOn
  <2>1. DropOn \in Seq(Names)
    BY ONLY ConnectLists
  <2>2. Head(DropOn) = "drop" /\ Tail(DropOn) = LoadOn
    BY ONLY ConnectHeads, Zenon
  <2> QED
    BY ONLY <1>2, <2>1, <2>2, Zenon
<1>15. hd[LeaveOn] = "leave" /\ tl[LeaveOn] = DropOn
  <2>1. LeaveOn \in Seq(Names)
    BY ONLY ConnectLists
  <2>2. Head(LeaveOn) = "leave" /\ Tail(LeaveOn) = DropOn
    BY ONLY ConnectHeads, Zenon
  <2> QED
    BY ONLY <1>2, <2>1, <2>2, Zenon
<1>16. hd[EnterOn] = "enter" /\ tl[EnterOn] = HealthOn
  <2>1. EnterOn \in Seq(Names)
    BY ONLY ConnectLists
  <2>2. Head(EnterOn) = "enter" /\ Tail(EnterOn) = HealthOn
    BY ONLY ConnectHeads, Zenon
  <2> QED
    BY ONLY <1>2, <2>1, <2>2, Zenon
<1>17. hd[ConnectingOn] = "connecting" /\ tl[ConnectingOn] = EnterOn
  <2>1. ConnectingOn \in Seq(Names)
    BY ONLY ConnectLists
  <2>2. Head(ConnectingOn) = "connecting" /\ Tail(ConnectingOn) = EnterOn
    BY ONLY ConnectHeads, Zenon
  <2> QED
    BY ONLY <1>2, <2>1, <2>2, Zenon
<1>18. hd[GetOn] = "get" /\ tl[GetOn] = ConnectingOn
  <2>1. GetOn \in Seq(Names)
    BY ONLY CredsLists
  <2>2. Head(GetOn) = "get" /\ Tail(GetOn) = ConnectingOn
    BY ONLY CredsHeads, Zenon
  <2> QED
    BY ONLY <1>2, <2>1, <2>2, Zenon
<1>19. hd[DisconnectedOn] = "disconnected" /\ tl[DisconnectedOn] = GetOn
  <2>1. DisconnectedOn \in Seq(Names)
    BY ONLY CredsLists
  <2>2. Head(DisconnectedOn) = "disconnected" /\ Tail(DisconnectedOn) = GetOn
    BY ONLY CredsHeads, Zenon
  <2> QED
    BY ONLY <1>2, <2>1, <2>2, Zenon
<1>20. hd[StoreOn] = "store" /\ tl[StoreOn] = DisconnectedOn
  <2>1. StoreOn \in Seq(Names)
    BY ONLY CredsLists
  <2>2. Head(StoreOn) = "store" /\ Tail(StoreOn) = DisconnectedOn
    BY ONLY CredsHeads, Zenon
  <2> QED
    BY ONLY <1>2, <2>1, <2>2, Zenon
<1>21. hd[ForgetOn] = "forget" /\ tl[ForgetOn] = StoreOn
  <2>1. ForgetOn \in Seq(Names)
    BY ONLY CredsLists
  <2>2. Head(ForgetOn) = "forget" /\ Tail(ForgetOn) = StoreOn
    BY ONLY CredsHeads, Zenon
  <2> QED
    BY ONLY <1>2, <2>1, <2>2, Zenon
<1>22. hd[ForgetDropOn] = "drop" /\ tl[ForgetDropOn] = ForgetOn
  <2>1. ForgetDropOn \in Seq(Names)
    BY ONLY CredsLists
  <2>2. Head(ForgetDropOn) = "drop" /\ Tail(ForgetDropOn) = ForgetOn
    BY ONLY CredsHeads, Zenon
  <2> QED
    BY ONLY <1>2, <2>1, <2>2, Zenon
<1>23. hd[ForgetLeaveOn] = "leave" /\ tl[ForgetLeaveOn] = ForgetDropOn
  <2>1. ForgetLeaveOn \in Seq(Names)
    BY ONLY CredsLists
  <2>2. Head(ForgetLeaveOn) = "leave" /\ Tail(ForgetLeaveOn) = ForgetDropOn
    BY ONLY CredsHeads, Zenon
  <2> QED
    BY ONLY <1>2, <2>1, <2>2, Zenon
<1>24. hd[ForgetPersistedOn] = "persisted" /\ tl[ForgetPersistedOn] = ForgetLeaveOn
  <2>1. ForgetPersistedOn \in Seq(Names)
    BY ONLY CredsLists
  <2>2. Head(ForgetPersistedOn) = "persisted" /\ Tail(ForgetPersistedOn) = ForgetLeaveOn
    BY ONLY CredsHeads, Zenon
  <2> QED
    BY ONLY <1>2, <2>1, <2>2, Zenon
<1>25. hd[StashOn] = "stash" /\ tl[StashOn] = ForgetOn
  <2>1. StashOn \in Seq(Names)
    BY ONLY CredsLists
  <2>2. Head(StashOn) = "stash" /\ Tail(StashOn) = ForgetOn
    BY ONLY CredsHeads, Zenon
  <2> QED
    BY ONLY <1>2, <2>1, <2>2, Zenon
<1>26. hd[<<"error">>] = "error"
  <2>1. <<"error">> \in Seq(Names) /\ Head(<<"error">>) = "error"
    BY Named
  <2> QED
    BY ONLY <1>2, <2>1, Zenon
<1>27. Apart(hd, tl)
  BY ONLY <1>2, <1>26, <1>3, <1>4, <1>5, <1>6, <1>7, <1>8, <1>9, <1>10,
     <1>11, <1>12, <1>13, <1>14, <1>15, <1>16, <1>17, <1>18, <1>19, <1>20, <1>21, <1>22, <1>23,
        <1>24, <1>25, Zenon DEF Apart
<1> QED
  BY <1>27, Zenon

\* A connect at a step is at the list that begins with it.
LEMMA ConnectStands ==
  ASSUME NEW o, o.todo \in Seq(Names), ConnectAt(o)
  PROVE  LET x == Head(o.todo) IN
         /\ x = "connecting" => o.todo = ConnectingOn
         /\ x = "enter" => o.todo = EnterOn
         /\ x = "leave" => o.todo \in {LeaveOn, ForgetLeaveOn}
         /\ x = "drop" => o.todo \in {DropOn, ForgetDropOn}
         /\ x = "load" => o.todo = LoadOn
         /\ x = "pick" => o.todo = PickOn
         /\ x = "opened" => o.todo = OpenedOn
         /\ x = "health" => o.todo = HealthOn
         /\ x = "state" => o.todo = StateOn
         /\ x = "siblings" => o.todo = SiblingsOn
         /\ x = "richest" => o.todo = RichestOn
         /\ x = "connected" => o.todo = ConnectedOn
         /\ x = "persist" => o.todo = PersistOn
         /\ x = "persisted" => o.todo \in {PersistedOn, ForgetPersistedOn}
         /\ x = "stash" => o.todo = StashOn
         /\ x = "forget" => o.todo = ForgetOn
         /\ x = "store" => o.todo = StoreOn
         /\ x = "disconnected" => o.todo = DisconnectedOn
         /\ x = "get" => o.todo = GetOn
         /\ x = "error" => o.todo = <<"error">>
         /\ x = "end" => o.todo = EndOn
         /\ x \notin {"adapter", "alive", "synced", "bind", "bound", "archived", "warmed"}
         /\ o.todo \in {ForgetPersistedOn, ForgetLeaveOn, ForgetDropOn, ForgetOn} =>
              o.kind = "creds"
         /\ o.todo \in {StoreOn, DisconnectedOn, GetOn} =>
              o.kind = "creds" /\ registry[o.acct] = None
         /\ o.todo \in {ConnectingOn, EnterOn} => (o.kind = "creds" => registry[o.acct] = None)
         /\ o.todo = LeaveOn => o.kind = "connect"
         /\ o.todo \in {PickOn, OpenedOn} =>
              /\ o.mine \in Handles /\ adapter[o.mine].cred = cred[o.acct]
              /\ o.seen.pin \in {None, adapter[o.mine].pin}
         /\ o.todo \in {HealthOn, StateOn} =>
              /\ Served(o) /\ (o.seen.pin = None \/ adapter[o.mine].pin \in {None, o.seen.pin})
         /\ o.todo \in {StateOn, SiblingsOn, RichestOn, ConnectedOn} =>
              o.bound \in {None, adapter[o.mine].pin}
         /\ o.todo \in {SiblingsOn, RichestOn, ConnectedOn} =>
              /\ Served(o) /\ Settled(o, o.seen.pin) /\ (o.todo = RichestOn => o.seen.pin = None)
         /\ o.todo \in {PersistOn, PersistedOn, EndOn} => Served(o) /\ Settled(o, row[o.acct].pin)
<1>1. PICK hd, tl : Apart(hd, tl)
  BY ListParts
<1>2. PICK x : x = Head(o.todo) /\ hd[o.todo] = x
  BY <1>1 DEF Apart
<1>3. PICK e : e = <<"error">>
  OBVIOUS
<1>4. PICK s : s = <<>>
  OBVIOUS
<1> QED
  BY ONLY ConnectAt(o), <1>1, <1>2, <1>3, <1>4 DEF ConnectAt, Apart

\* What is known of a connect after its step.
LEMMA ConnectAdvanced ==
  ASSUME NEW p \in Procs, NEW o, NEW t, Advanced(p, o, t), Alike(o, op[p]), Connects(op[p])'
  PROVE  /\ op'[p].todo = t /\ op'[p].kind = op[p].kind /\ op'[p].acct = op[p].acct
         /\ op'[p].seen = o.seen /\ op'[p].mine = o.mine /\ op'[p].bound = o.bound
         /\ t # <<>> /\ op'[p].kind \in {"connect", "creds"}
BY OverTyped DEF Advanced, Alike, Connects

\* An exception ends it, or is written.
LEMMA ConnectThrows ==
  ASSUME NEW p \in Procs, NEW t \in {<<>>, <<"error">>}, Advanced(p, op[p], t), Connects(op[p])'
  PROVE  ConnectAt(op[p])'
BY OverTyped DEF Advanced, Connects, ConnectAt

\* A connect that goes on with the rest of its list.
LEMMA ConnectGoes ==
  ASSUME NEW p \in Procs, NEW o, Advanced(p, o, Tail(op[p].todo)), Alike(o, op[p]),
         Connects(op[p])', NEW t, op[p].todo = t, NEW u, Tail(t) = u
  PROVE  /\ op'[p].todo = u /\ op'[p].kind = op[p].kind /\ op'[p].acct = op[p].acct
         /\ op'[p].seen = o.seen /\ op'[p].mine = o.mine /\ op'[p].bound = o.bound
         /\ op'[p].kind \in {"connect", "creds"}
<1>1. Advanced(p, o, u)
  OBVIOUS
<1> QED
  BY ONLY <1>1, p \in Procs, Alike(o, op[p]), Connects(op[p])', ConnectAdvanced

\* The adapters of those who have one, where none has changed.
LEMMA AllKept ==
  ASSUME AccountsTypeOK, KeepUsed(adapter)
  PROVE  \A h \in Handles : Used(h)' => adapter'[h] = adapter[h]
BY Kept DEF AccountsTypeOK

\* The adapter of an operation that goes on is kept.
LEMMA MineUsed ==
  ASSUME NEW p \in Procs, op'[p].acct \in Accounts, NEW h, op'[p].mine = h
  PROVE  Used(h)'
BY DEF Used

\* The awaits that write the row, or nothing.
LEMMA ConnectingConnects ==
  ASSUME AccountsTypeOK, NEW p \in Procs, Equipped(op[p]), ConnectAt(op[p]), WriteConnecting(p)
  PROVE  StepFrame(p) /\ (Connects(op[p])' => ConnectAt(op[p])')
<1>1. StepFrame(p) /\ Advanced(p, op[p], Tail(op[p].todo))
  BY WriteConnectingFrame
<1>2. op[p].todo # <<>> /\ Head(op[p].todo) = "connecting" /\ registry' = registry
  BY DEF WriteConnecting, At, Calm
<1>3. Alike(op[p], op[p]) /\ op[p].todo \in Seq(Names)
  BY <1>2, UnderWay
<1>4. op[p].todo = ConnectingOn /\ (op[p].kind = "creds" => registry[op[p].acct] = None)
  BY <1>2, <1>3, ConnectStands
<1>5. Tail(ConnectingOn) = EnterOn
  BY ONLY ConnectHeads, Zenon
<1>6. ASSUME Connects(op[p])' PROVE ConnectAt(op[p])'
  <2>1. op'[p].todo = EnterOn /\ op'[p].kind = op[p].kind /\ op'[p].acct = op[p].acct
    BY ONLY p \in Procs, <1>1, <1>3, <1>4, <1>5, <1>6, ConnectGoes, SMTT(30)
  <2> QED
    BY <1>2, <1>4, <2>1 DEF ConnectAt
<1> QED
  BY <1>1, <1>6

\* connectAccount of the broker runtime.
LEMMA EnterConnects ==
  ASSUME AccountsTypeOK, NEW p \in Procs, Equipped(op[p]), ConnectAt(op[p]), Enter(p)
  PROVE  StepFrame(p) /\ (Connects(op[p])' => ConnectAt(op[p])')
<1>1. op[p].todo # <<>> /\ Head(op[p].todo) = "enter" /\ registry' = registry
  BY DEF Enter, At
<1>2. /\ Alike(op[p], op[p]) /\ op[p].todo \in Seq(Names) /\ op[p].acct \in Accounts
      /\ registry[op[p].acct] \in Handles \cup {None}
  BY <1>1, UnderWay
<1>3. op[p].todo = EnterOn /\ (op[p].kind = "creds" => registry[op[p].acct] = None)
  BY <1>1, <1>2, ConnectStands
<1>4. Tail(EnterOn) = HealthOn
  BY ONLY ConnectHeads, Zenon
<1>5. Tail(op[p].todo) = HealthOn
  BY ONLY <1>3, <1>4
<1>6. ASSUME Advanced(p, op[p], <<"load">> \o Tail(op[p].todo)), Connects(op[p])'
      PROVE  ConnectAt(op[p])'
  <2>1. <<"load">> \o Tail(op[p].todo) = LoadOn
    BY ONLY <1>5, Zenon DEF LoadOn
  <2>2. Advanced(p, op[p], LoadOn)
    BY ONLY <1>6, <2>1, Zenon
  <2>3. op'[p].todo = LoadOn
    BY ONLY p \in Procs, <1>2, <1>6, <2>2, ConnectAdvanced, SMTT(30)
  <2> QED
    BY <2>3 DEF ConnectAt
<1>7. ASSUME NEW o, registry[op[p].acct] # None, Alike(o, op[p]),
             o.mine = registry[op[p].acct], o.seen = op[p].seen,
             Advanced(p, o, Tail(op[p].todo)), InPlace(registry[op[p].acct], op[p].seen.pin),
             Connects(op[p])'
      PROVE  ConnectAt(op[p])'
  <2>1. PICK h \in Handles : h = registry[op[p].acct]
    BY <1>2, <1>7
  <2>2. /\ op'[p].todo = HealthOn /\ op'[p].kind = op[p].kind /\ op'[p].acct = op[p].acct
        /\ op'[p].mine = o.mine /\ op'[p].seen = o.seen /\ op'[p].kind \in {"connect", "creds"}
    BY ONLY p \in Procs, <1>3, <1>4, <1>7, ConnectGoes, SMTT(30)
  <2>3. Used(h)'
    BY <1>2, <1>7, <2>1, <2>2, MineUsed
  <2>4. adapter'[h] = adapter[h]
    BY <2>3, EnterFrame
  <2>5. op[p].seen.pin = None \/ adapter[h].pin \in {None, op[p].seen.pin}
    BY <1>7, <2>1 DEF InPlace
  <2> QED
    BY <1>1, <1>3, <1>7, <2>1, <2>2, <2>4, <2>5 DEF ConnectAt, Served
<1>8. ASSUME NEW o, registry[op[p].acct] # None, Alike(o, op[p]),
             Advanced(p, o, <<"leave", "drop", "load">> \o Tail(op[p].todo)), Connects(op[p])'
      PROVE  ConnectAt(op[p])'
  <2>1. HealthOn \in Seq(Names) /\ "leave" \in Names /\ "drop" \in Names /\ "load" \in Names
    BY Named, ConnectLists
  <2>2. <<"leave", "drop", "load">> \o HealthOn = <<"leave">> \o (<<"drop">> \o (<<"load">> \o HealthOn))
    BY ONLY <2>1, ThreeMore
  <2>3. <<"leave", "drop", "load">> \o Tail(op[p].todo) = LeaveOn
    BY ONLY <1>5, <2>2, Zenon DEF LeaveOn, DropOn, LoadOn
  <2>4. Advanced(p, o, LeaveOn)
    BY ONLY <1>8, <2>3, Zenon
  <2>5. op'[p].todo = LeaveOn /\ op'[p].kind = op[p].kind /\ op'[p].kind \in {"connect", "creds"}
    BY ONLY p \in Procs, <1>8, <2>4, ConnectAdvanced
  <2> QED
    BY <1>3, <1>8, <2>5 DEF ConnectAt
<1> QED
  BY ONLY AccountsTypeOK, p \in Procs, Equipped(op[p]), Enter(p), <1>6, <1>7, <1>8, EnterFrame

\* disconnect of the adapter, and its removal.
LEMMA LeaveConnects ==
  ASSUME AccountsTypeOK, NEW p \in Procs, Equipped(op[p]), ConnectAt(op[p]), Leave(p)
  PROVE  StepFrame(p) /\ (Connects(op[p])' => ConnectAt(op[p])')
<1>1. StepFrame(p) /\ Advanced(p, op[p], Tail(op[p].todo))
  BY LeaveFrame
<1>2. op[p].todo # <<>> /\ Head(op[p].todo) = "leave"
  BY DEF Leave, At
<1>3. Alike(op[p], op[p]) /\ op[p].todo \in Seq(Names)
  BY <1>2, UnderWay
<1>4. /\ op[p].todo \in {LeaveOn, ForgetLeaveOn}
      /\ op[p].todo = LeaveOn => op[p].kind = "connect"
      /\ op[p].todo = ForgetLeaveOn => op[p].kind = "creds"
  BY <1>2, <1>3, ConnectStands
<1>5. Tail(LeaveOn) = DropOn
  BY ONLY ConnectHeads, Zenon
<1>6. Tail(ForgetLeaveOn) = ForgetDropOn
  BY ONLY CredsHeads, Zenon
<1>7. ASSUME Connects(op[p])', op[p].todo = LeaveOn PROVE ConnectAt(op[p])'
  <2>1. op'[p].todo = DropOn /\ op'[p].kind = op[p].kind
    BY ONLY p \in Procs, <1>1, <1>3, <1>5, <1>7, ConnectGoes, SMTT(30)
  <2> QED
    BY <1>4, <1>7, <2>1 DEF ConnectAt
<1>8. ASSUME Connects(op[p])', op[p].todo = ForgetLeaveOn PROVE ConnectAt(op[p])'
  <2>1. op'[p].todo = ForgetDropOn /\ op'[p].kind = op[p].kind
    BY ONLY p \in Procs, <1>1, <1>3, <1>6, <1>8, ConnectGoes, SMTT(30)
  <2> QED
    BY <1>4, <1>8, <2>1 DEF ConnectAt
<1> QED
  BY ONLY <1>1, <1>4, <1>7, <1>8

\* The adapter is dropped: a new one is loaded.
LEMMA DropConnects ==
  ASSUME AccountsTypeOK, NEW p \in Procs, Equipped(op[p]), ConnectAt(op[p]), Drop(p)
  PROVE  StepFrame(p) /\ (Connects(op[p])' => ConnectAt(op[p])')
<1>1. StepFrame(p) /\ Advanced(p, op[p], Tail(op[p].todo))
  BY DropFrame
<1>2. op[p].todo # <<>> /\ Head(op[p].todo) = "drop"
  BY DEF Drop, At
<1>3. Alike(op[p], op[p]) /\ op[p].todo \in Seq(Names)
  BY <1>2, UnderWay
<1>4. op[p].todo \in {DropOn, ForgetDropOn} /\ (op[p].todo = ForgetDropOn => op[p].kind = "creds")
  BY <1>2, <1>3, ConnectStands
<1>5. Tail(DropOn) = LoadOn
  BY ONLY ConnectHeads, Zenon
<1>6. Tail(ForgetDropOn) = ForgetOn
  BY ONLY CredsHeads, Zenon
<1>7. ASSUME Connects(op[p])', op[p].todo = DropOn PROVE ConnectAt(op[p])'
  <2>1. op'[p].todo = LoadOn
    BY ONLY p \in Procs, <1>1, <1>3, <1>5, <1>7, ConnectGoes, SMTT(30)
  <2> QED
    BY <2>1 DEF ConnectAt
<1>8. ASSUME Connects(op[p])', op[p].todo = ForgetDropOn PROVE ConnectAt(op[p])'
  <2>1. op'[p].todo = ForgetOn /\ op'[p].kind = op[p].kind
    BY ONLY p \in Procs, <1>1, <1>3, <1>6, <1>8, ConnectGoes, SMTT(30)
  <2> QED
    BY <1>4, <1>8, <2>1 DEF ConnectAt
<1> QED
  BY ONLY <1>1, <1>4, <1>7, <1>8

\* A new adapter: with the pin of the row, on the sub-account it picked, registered.
LEMMA LoadConnects ==
  ASSUME AccountsTypeOK, NEW p \in Procs, Equipped(op[p]), ConnectAt(op[p]), Load(p)
  PROVE  StepFrame(p) /\ (Connects(op[p])' => ConnectAt(op[p])')
<1>1. op[p].todo # <<>> /\ Head(op[p].todo) = "load" /\ cred' = cred
  BY DEF Load, At
<1>2. Alike(op[p], op[p]) /\ op[p].todo \in Seq(Names)
  BY <1>1, UnderWay
<1>3. op[p].todo = LoadOn
  BY <1>1, <1>2, ConnectStands
<1>4. PICK h \in Handles :
        /\ Unused(h) /\ adapter'[h].pin = op[p].seen.pin
        /\ adapter'[h].cred = cred[op[p].acct]
        /\ \E o : /\ Advanced(p, o, <<"pick", "opened">> \o Tail(op[p].todo))
                  /\ Alike(o, op[p]) /\ o.mine = h /\ o.seen = op[p].seen
  BY LoadFrame, Zenon
<1>5. PICK o : /\ Advanced(p, o, <<"pick", "opened">> \o Tail(op[p].todo))
               /\ Alike(o, op[p]) /\ o.mine = h /\ o.seen = op[p].seen
  BY <1>4, Zenon
<1>6. ASSUME Connects(op[p])' PROVE ConnectAt(op[p])'
  <2>1. HealthOn \in Seq(Names) /\ "pick" \in Names /\ "opened" \in Names
    BY Named, ConnectLists
  <2>2. <<"pick", "opened">> \o HealthOn = <<"pick">> \o (<<"opened">> \o HealthOn)
    BY ONLY <2>1, TwoMore
  <2>3. Tail(LoadOn) = HealthOn
    BY ONLY ConnectHeads, Zenon
  <2>4. <<"pick", "opened">> \o Tail(op[p].todo) = PickOn
    BY ONLY <1>3, <2>2, <2>3, Zenon DEF PickOn, OpenedOn
  <2>5. Advanced(p, o, PickOn)
    BY ONLY <1>5, <2>4, Zenon
  <2>6. /\ op'[p].todo = PickOn /\ op'[p].acct = op[p].acct /\ op'[p].mine = o.mine
        /\ op'[p].seen = o.seen
    BY ONLY p \in Procs, <1>5, <1>6, <2>5, ConnectAdvanced
  <2> QED
    BY <1>1, <1>4, <1>5, <2>6 DEF ConnectAt
<1> QED
  BY <1>6, LoadFrame

\* The login is done: the adapter has the sub-account of the row, if it has one.
LEMMA PickConnects ==
  ASSUME AccountsTypeOK, NEW p \in Procs, Equipped(op[p]), ConnectAt(op[p]), Pick(p)
  PROVE  StepFrame(p) /\ (Connects(op[p])' => ConnectAt(op[p])')
<1>1. op[p].todo # <<>> /\ Head(op[p].todo) = "pick" /\ cred' = cred
  BY DEF Pick, At
<1>2. Alike(op[p], op[p]) /\ op[p].todo \in Seq(Names) /\ op[p].acct \in Accounts
  BY <1>1, UnderWay
<1>3. /\ op[p].todo = PickOn
      /\ op[p].mine \in Handles /\ adapter[op[p].mine].cred = cred[op[p].acct]
      /\ op[p].seen.pin \in {None, adapter[op[p].mine].pin}
  BY <1>1, <1>2, ConnectStands
<1>4. Tail(PickOn) = OpenedOn
  BY ONLY ConnectHeads, Zenon
<1>5. ASSUME Connects(op[p])', Advanced(p, op[p], Tail(op[p].todo)),
             \A h \in Handles :
               h = op[p].mine /\ Used(h)' =>
                 /\ adapter'[h].cred = adapter[h].cred
                 /\ adapter[h].pin = None \/ adapter'[h].pin = adapter[h].pin
      PROVE  ConnectAt(op[p])'
  <2>1. PICK h \in Handles : h = op[p].mine
    BY <1>3
  <2>2. /\ op'[p].todo = OpenedOn /\ op'[p].acct = op[p].acct /\ op'[p].mine = op[p].mine
        /\ op'[p].seen = op[p].seen
    BY ONLY p \in Procs, <1>2, <1>3, <1>4, <1>5, ConnectGoes, SMTT(30)
  <2>3. Used(h)'
    BY <1>2, <2>1, <2>2, MineUsed
  <2>4. /\ adapter'[h].cred = adapter[h].cred
        /\ adapter[h].pin = None \/ adapter'[h].pin = adapter[h].pin
    BY <1>5, <2>1, <2>3
  <2> QED
    BY <1>1, <1>3, <2>1, <2>2, <2>4 DEF ConnectAt
<1> QED
  BY <1>5, PickFrame, ConnectThrows

\* The adapter is registered.
LEMMA OpenedConnects ==
  ASSUME AccountsTypeOK, NEW p \in Procs, Equipped(op[p]), ConnectAt(op[p]), Opened(p)
  PROVE  StepFrame(p) /\ (Connects(op[p])' => ConnectAt(op[p])')
<1>1. op[p].todo # <<>> /\ Head(op[p].todo) = "opened" /\ cred' = cred
  BY DEF Opened, At
<1>2. Alike(op[p], op[p]) /\ op[p].todo \in Seq(Names) /\ op[p].acct \in Accounts
  BY <1>1, UnderWay
<1>3. /\ op[p].todo = OpenedOn
      /\ op[p].mine \in Handles /\ adapter[op[p].mine].cred = cred[op[p].acct]
      /\ op[p].seen.pin \in {None, adapter[op[p].mine].pin}
  BY <1>1, <1>2, ConnectStands
<1>4. Tail(OpenedOn) = HealthOn
  BY ONLY ConnectHeads, Zenon
<1>5. /\ StepFrame(p) /\ Advanced(p, op[p], Tail(op[p].todo))
      /\ registry'[op[p].acct] = op[p].mine
      /\ adapter'[op[p].mine].pin = adapter[op[p].mine].pin
      /\ adapter'[op[p].mine].cred = adapter[op[p].mine].cred
  BY OpenedFrame
<1>6. ASSUME Connects(op[p])' PROVE ConnectAt(op[p])'
  <2>1. /\ op'[p].todo = HealthOn /\ op'[p].acct = op[p].acct /\ op'[p].mine = op[p].mine
        /\ op'[p].seen = op[p].seen
    BY ONLY p \in Procs, <1>2, <1>3, <1>4, <1>5, <1>6, ConnectGoes, SMTT(30)
  <2> QED
    BY <1>1, <1>3, <1>5, <2>1 DEF ConnectAt, Served
<1> QED
  BY <1>5, <1>6

\* What connect learns from the adapter, and settles with it.
LEMMA HealthConnects ==
  ASSUME AccountsTypeOK, NEW p \in Procs, Equipped(op[p]), ConnectAt(op[p]), Health(p)
  PROVE  StepFrame(p) /\ (Connects(op[p])' => ConnectAt(op[p])')
<1>1. /\ op[p].todo # <<>> /\ Head(op[p].todo) = "health" /\ cred' = cred /\ registry' = registry
      /\ KeepUsed(adapter)
  BY DEF Health, At, Calm
<1>2. Alike(op[p], op[p]) /\ op[p].todo \in Seq(Names) /\ op[p].acct \in Accounts
  BY <1>1, UnderWay
<1>3. /\ op[p].todo = HealthOn /\ Served(op[p])
      /\ op[p].seen.pin = None \/ adapter[op[p].mine].pin \in {None, op[p].seen.pin}
  BY <1>1, <1>2, ConnectStands
<1>4. Tail(HealthOn) = StateOn
  BY ONLY ConnectHeads, Zenon
<1>5. PICK o : /\ Advanced(p, o, Tail(op[p].todo)) /\ Alike(o, op[p])
               /\ o.mine = op[p].mine /\ o.seen = op[p].seen
               /\ o.bound \in {None, adapter[op[p].mine].pin}
  BY HealthFrame, Zenon
<1>6. ASSUME Connects(op[p])' PROVE ConnectAt(op[p])'
  <2>1. PICK h \in Handles : h = op[p].mine
    BY <1>3 DEF Served
  <2>2. /\ op'[p].todo = StateOn /\ op'[p].acct = op[p].acct /\ op'[p].mine = o.mine
        /\ op'[p].seen = o.seen /\ op'[p].bound = o.bound /\ op'[p].kind = op[p].kind
    BY ONLY p \in Procs, <1>3, <1>4, <1>5, <1>6, ConnectGoes, SMTT(30)
  <2>3. Used(h)'
    BY <1>2, <1>5, <2>1, <2>2, MineUsed
  <2>4. adapter'[h] = adapter[h]
    BY <1>1, <2>3, AllKept
  <2> QED
    BY <1>1, <1>3, <1>5, <2>1, <2>2, <2>4 DEF ConnectAt, Served
<1> QED
  BY <1>6, HealthFrame

\* The state of the account is read.
LEMMA StateConnects ==
  ASSUME AccountsTypeOK, NEW p \in Procs, Equipped(op[p]), ConnectAt(op[p]), State(p)
  PROVE  StepFrame(p) /\ (Connects(op[p])' => ConnectAt(op[p])')
<1>1. op[p].todo # <<>> /\ Head(op[p].todo) = "state" /\ cred' = cred /\ registry' = registry
  BY DEF State, At, Calm
<1>2. Alike(op[p], op[p]) /\ op[p].todo \in Seq(Names) /\ op[p].acct \in Accounts
  BY <1>1, UnderWay
<1>3. /\ op[p].todo = StateOn /\ Served(op[p])
      /\ op[p].seen.pin = None \/ adapter[op[p].mine].pin \in {None, op[p].seen.pin}
      /\ op[p].bound \in {None, adapter[op[p].mine].pin}
  BY <1>1, <1>2, ConnectStands
<1>4. Tail(StateOn) = SiblingsOn
  BY ONLY ConnectHeads, Zenon
<1>5. ASSUME NEW o, Advanced(p, o, Tail(op[p].todo)), Alike(o, op[p]), o.mine = op[p].mine,
             o.seen = op[p].seen, o.bound = op[p].bound,
             \A h \in Handles : Used(h)' => adapter'[h] = Stated(op[p].mine)[h],
             Connects(op[p])'
      PROVE  ConnectAt(op[p])'
  <2>1. PICK h \in Handles : h = op[p].mine
    BY <1>3 DEF Served
  <2>2. /\ op'[p].todo = SiblingsOn /\ op'[p].acct = op[p].acct /\ op'[p].mine = o.mine
        /\ op'[p].seen = o.seen /\ op'[p].bound = o.bound /\ op'[p].kind = op[p].kind
    BY ONLY p \in Procs, <1>3, <1>4, <1>5, ConnectGoes, SMTT(30)
  <2>3. Used(h)'
    BY <1>2, <1>5, <2>1, <2>2, MineUsed
  <2>4. /\ adapter'[h].cred = adapter[h].cred
        /\ adapter'[h].pin = IF adapter[h].pin = None THEN Best(Subs) ELSE adapter[h].pin
    BY <1>5, <2>1, <2>3, StatedAdapter
  <2>5. op[p].bound \in {None, adapter'[h].pin}
    BY <1>3, <2>1, <2>4
  <2>6. \/ op[p].seen.pin \in {None, adapter'[h].pin}
        \/ op[p].bound = None /\ adapter'[h].pin = Best(Subs)
    BY <1>3, <2>1, <2>4
  <2>7. Served(op[p])'
    BY <1>1, <1>3, <1>5, <2>1, <2>2, <2>4 DEF Served
  <2>8. PICK best : best = Best(Subs)
    OBVIOUS
  <2>9. Settled(op[p], op[p].seen.pin)'
    BY <1>5, <2>1, <2>2, <2>6 DEF Settled, Best
  <2>10. op'[p].bound \in {None, adapter'[op'[p].mine].pin} /\ SiblingsOn # RichestOn
    <3>1. SiblingsOn # RichestOn
      BY ListParts DEF Apart
    <3> QED
      BY <1>5, <2>1, <2>2, <2>5, <3>1
  <2> QED
    BY <2>2, <2>7, <2>9, <2>10 DEF ConnectAt
<1> QED
  BY <1>5, StateFrame, ConnectThrows

\* The siblings are read: the row has its sub-account, or one is chosen.
LEMMA SiblingsConnects ==
  ASSUME AccountsTypeOK, NEW p \in Procs, Equipped(op[p]), ConnectAt(op[p]), Siblings(p)
  PROVE  StepFrame(p) /\ (Connects(op[p])' => ConnectAt(op[p])')
<1>1. /\ op[p].todo # <<>> /\ Head(op[p].todo) = "siblings" /\ cred' = cred /\ registry' = registry
      /\ KeepUsed(adapter)
  BY DEF Siblings, At, Calm
<1>2. Alike(op[p], op[p]) /\ op[p].todo \in Seq(Names) /\ op[p].acct \in Accounts
  BY <1>1, UnderWay
<1>3. /\ op[p].todo = SiblingsOn /\ Served(op[p]) /\ Settled(op[p], op[p].seen.pin)
      /\ op[p].bound \in {None, adapter[op[p].mine].pin}
  BY <1>1, <1>2, ConnectStands
<1>4. Tail(SiblingsOn) = ConnectedOn
  BY ONLY ConnectHeads, Zenon
<1>5. ASSUME Connects(op[p])', op'[p].mine = op[p].mine, op'[p].acct = op[p].acct,
             op'[p].seen = op[p].seen, op'[p].bound = op[p].bound, op'[p].kind = op[p].kind,
             op'[p].todo = ConnectedOn \/ (op'[p].todo = RichestOn /\ op[p].seen.pin = None)
      PROVE  ConnectAt(op[p])'
  <2>1. PICK h \in Handles : h = op[p].mine
    BY <1>3 DEF Served
  <2>2. Used(h)'
    BY <1>2, <1>5, <2>1, MineUsed
  <2>3. adapter'[h] = adapter[h]
    BY <1>1, <2>2, AllKept
  <2>4. Served(op[p])'
    BY <1>1, <1>3, <1>5, <2>1, <2>3 DEF Served
  <2>5. Settled(op[p], op[p].seen.pin)'
    BY <1>3, <1>5, <2>1, <2>3 DEF Settled, Best
  <2>6. ConnectedOn # RichestOn
    BY ListParts DEF Apart
  <2> QED
    BY <1>3, <1>5, <2>1, <2>3, <2>4, <2>5, <2>6 DEF ConnectAt
<1>6. CASE Advanced(p, op[p], Tail(op[p].todo))
  <2>1. ASSUME Connects(op[p])'
        PROVE  /\ op'[p].todo = ConnectedOn /\ op'[p].acct = op[p].acct
               /\ op'[p].mine = op[p].mine /\ op'[p].seen = op[p].seen
               /\ op'[p].bound = op[p].bound /\ op'[p].kind = op[p].kind
    BY ONLY p \in Procs, <1>2, <1>3, <1>4, <1>6, <2>1, ConnectGoes, SMTT(30)
  <2> QED
    BY <1>5, <2>1, SiblingsFrame
<1>7. ASSUME NEW o, Advanced(p, o, <<"richest">> \o Tail(op[p].todo)), Alike(o, op[p]),
             o.mine = op[p].mine, o.seen = op[p].seen, o.bound = op[p].bound,
             op[p].seen.pin = None, Connects(op[p])'
      PROVE  ConnectAt(op[p])'
  <2>1. <<"richest">> \o Tail(op[p].todo) = RichestOn
    BY ONLY <1>3, <1>4, Zenon DEF RichestOn
  <2>2. Advanced(p, o, RichestOn)
    BY ONLY <1>7, <2>1, Zenon
  <2>3. /\ op'[p].todo = RichestOn /\ op'[p].acct = op[p].acct
        /\ op'[p].mine = o.mine /\ op'[p].seen = o.seen
        /\ op'[p].bound = o.bound /\ op'[p].kind = op[p].kind
    BY ONLY p \in Procs, <1>7, <2>2, ConnectAdvanced
  <2> QED
    BY <1>5, <1>7, <2>3
<1> QED
  BY ONLY AccountsTypeOK, p \in Procs, Equipped(op[p]), Siblings(p), <1>6, <1>7, SiblingsFrame

\* The chosen sub-account is that of the adapter.
LEMMA RichestConnects ==
  ASSUME AccountsTypeOK, NEW p \in Procs, Equipped(op[p]), ConnectAt(op[p]), Richest(p)
  PROVE  StepFrame(p) /\ (Connects(op[p])' => ConnectAt(op[p])')
<1>1. op[p].todo # <<>> /\ Head(op[p].todo) = "richest" /\ cred' = cred /\ registry' = registry
  BY DEF Richest, At, Calm
<1>2. Alike(op[p], op[p]) /\ op[p].todo \in Seq(Names) /\ op[p].acct \in Accounts
  BY <1>1, UnderWay
<1>3. /\ op[p].todo = RichestOn /\ Served(op[p]) /\ op[p].seen.pin = None
      /\ op[p].bound \in {None, adapter[op[p].mine].pin}
  BY <1>1, <1>2, ConnectStands
<1>4. Tail(RichestOn) = ConnectedOn
  BY ONLY ConnectHeads, Zenon
<1>5. ASSUME NEW o, Advanced(p, o, Tail(op[p].todo)), Alike(o, op[p]),
             o.mine = op[p].mine, o.seen = op[p].seen, Connects(op[p])',
             \A h \in Handles : h = op[p].mine /\ Used(h)' =>
               /\ adapter'[h].cred = adapter[h].cred
               /\ \/ adapter'[h].pin = o.bound
                  \/ o.bound = op[p].bound /\ adapter'[h].pin = adapter[h].pin
      PROVE  ConnectAt(op[p])'
  <2>1. PICK h \in Handles : h = op[p].mine
    BY <1>3 DEF Served
  <2>2. /\ op'[p].todo = ConnectedOn /\ op'[p].acct = op[p].acct /\ op'[p].mine = o.mine
        /\ op'[p].seen = o.seen /\ op'[p].bound = o.bound /\ op'[p].kind = op[p].kind
    BY ONLY p \in Procs, <1>3, <1>4, <1>5, ConnectGoes, SMTT(30)
  <2>3. Used(h)'
    BY <1>2, <1>5, <2>1, <2>2, MineUsed
  <2>4. /\ adapter'[h].cred = adapter[h].cred
        /\ \/ adapter'[h].pin = o.bound
           \/ o.bound = op[p].bound /\ adapter'[h].pin = adapter[h].pin
    BY <1>5, <2>1, <2>3
  <2>5. Served(op[p])'
    BY <1>1, <1>3, <1>5, <2>1, <2>2, <2>4 DEF Served
  <2>6. Settled(op[p], op[p].seen.pin)'
    BY <1>3, <1>5, <2>2 DEF Settled
  <2> QED
    BY <1>3, <1>5, <2>1, <2>2, <2>4, <2>5, <2>6 DEF ConnectAt
<1>6. CASE /\ Advanced(p, op[p], Tail(op[p].todo))
           /\ \A h \in Handles : Used(h)' => adapter'[h] = adapter[h]
  <2>1. \A h \in Handles : h = op[p].mine /\ Used(h)' =>
          /\ adapter'[h].cred = adapter[h].cred
          /\ \/ adapter'[h].pin = op[p].bound
             \/ op[p].bound = op[p].bound /\ adapter'[h].pin = adapter[h].pin
    BY <1>6
  <2> QED
    BY ONLY AccountsTypeOK, p \in Procs, Equipped(op[p]), Richest(p), <1>2, <1>5, <1>6, <2>1,
            RichestFrame
<1>7. ASSUME \A h \in Handles : Used(h)' => adapter'[h].cred = adapter[h].cred,
             NEW o, Advanced(p, o, Tail(op[p].todo)), Alike(o, op[p]),
             o.mine = op[p].mine, o.seen = op[p].seen, Connects(op[p])',
             \A h \in Handles : h = op[p].mine /\ Used(h)' => adapter'[h].pin = o.bound
      PROVE  ConnectAt(op[p])'
  BY ONLY <1>5, <1>7
<1> QED
  BY ONLY AccountsTypeOK, p \in Procs, Equipped(op[p]), Richest(p), <1>6, <1>7, RichestFrame

\* What connect writes is where the adapter is.
LEMMA ConnectedConnects ==
  ASSUME AccountsTypeOK, NEW p \in Procs, Equipped(op[p]), ConnectAt(op[p]), Connects(op[p]),
         WriteConnected(p)
  PROVE  StepFrame(p) /\ (Connects(op[p])' => ConnectAt(op[p])')
<1>1. /\ op[p].todo # <<>> /\ Head(op[p].todo) = "connected" /\ cred' = cred
      /\ registry' = registry /\ KeepUsed(adapter)
  BY DEF WriteConnected, At, Calm
<1>2. Alike(op[p], op[p]) /\ op[p].todo \in Seq(Names) /\ op[p].acct \in Accounts
  BY <1>1, UnderWay
<1>3. /\ op[p].todo = ConnectedOn /\ Served(op[p]) /\ Settled(op[p], op[p].seen.pin)
      /\ op[p].bound \in {None, adapter[op[p].mine].pin}
  BY <1>1, <1>2, ConnectStands
<1>4. Tail(ConnectedOn) = PersistOn
  BY ONLY ConnectHeads, Zenon
<1>5. /\ StepFrame(p) /\ Advanced(p, op[p], Tail(op[p].todo))
      /\ row'[op[p].acct].pin = IF op[p].kind = "ready" THEN row[op[p].acct].pin ELSE Bound(op[p])
  BY WriteConnectedFrame
<1>6. row'[op[p].acct].pin = Bound(op[p])
  BY <1>5 DEF Connects
<1>7. ASSUME Connects(op[p])' PROVE ConnectAt(op[p])'
  <2>1. PICK h \in Handles : h = op[p].mine
    BY <1>3 DEF Served
  <2>2. /\ op'[p].todo = PersistOn /\ op'[p].acct = op[p].acct /\ op'[p].mine = op[p].mine
        /\ op'[p].bound = op[p].bound /\ op'[p].kind = op[p].kind
    BY ONLY p \in Procs, <1>2, <1>3, <1>4, <1>5, <1>7, ConnectGoes, SMTT(30)
  <2>3. Used(h)'
    BY <1>2, <2>1, <2>2, MineUsed
  <2>4. adapter'[h] = adapter[h]
    BY <1>1, <2>3, AllKept
  <2>5. Served(op[p])'
    BY <1>1, <1>3, <2>1, <2>2, <2>4 DEF Served
  <2>6. Settled(op[p], row[op[p].acct].pin)'
    BY <1>3, <1>6, <2>1, <2>2, <2>4 DEF Settled, Best, Bound
  <2> QED
    BY <2>2, <2>5, <2>6 DEF ConnectAt
<1> QED
  BY <1>5, <1>7

\* persistState, where the adapter may get its sub-account from getAccountState.
LEMMA PersistConnects ==
  ASSUME AccountsTypeOK, NEW p \in Procs, Equipped(op[p]), ConnectAt(op[p]), PersistState(p)
  PROVE  StepFrame(p) /\ (Connects(op[p])' => ConnectAt(op[p])')
<1>1. /\ op[p].todo # <<>> /\ Head(op[p].todo) = "persist" /\ cred' = cred
      /\ registry' = registry /\ row' = row
  BY DEF PersistState, At, Calm
<1>2. Alike(op[p], op[p]) /\ op[p].todo \in Seq(Names) /\ op[p].acct \in Accounts
  BY <1>1, UnderWay
<1>3. op[p].todo = PersistOn /\ Served(op[p]) /\ Settled(op[p], row[op[p].acct].pin)
  BY <1>1, <1>2, ConnectStands
<1>4. registry[op[p].acct] = op[p].mine /\ op[p].mine \in Handles /\ op[p].mine # None
  BY <1>3, AccountsAssumption DEF Served
<1>5. ASSUME Advanced(p, op[p], <<"persisted">> \o Tail(op[p].todo)), Connects(op[p])',
             \A h \in Handles : Used(h)' => adapter'[h] = Stated(registry[op[p].acct])[h]
      PROVE  ConnectAt(op[p])'
  <2>1. PICK h \in Handles : h = op[p].mine
    BY <1>4
  <2>2. Tail(PersistOn) = EndOn
    BY ONLY ConnectHeads, Zenon
  <2>3. <<"persisted">> \o Tail(op[p].todo) = PersistedOn
    BY ONLY <1>3, <2>2, Zenon DEF PersistedOn
  <2>4. Advanced(p, op[p], PersistedOn)
    BY ONLY <1>5, <2>3, Zenon
  <2>5. /\ op'[p].todo = PersistedOn /\ op'[p].acct = op[p].acct /\ op'[p].mine = op[p].mine
        /\ op'[p].bound = op[p].bound /\ op'[p].kind = op[p].kind
    BY ONLY p \in Procs, <1>2, <1>5, <2>4, ConnectAdvanced
  <2>6. Used(h)'
    BY <1>2, <2>1, <2>5, MineUsed
  <2>7. /\ adapter'[h].cred = adapter[h].cred
        /\ adapter'[h].pin = IF adapter[h].pin = None THEN Best(Subs) ELSE adapter[h].pin
    BY <1>4, <1>5, <2>1, <2>6, StatedAdapter
  <2>8. Served(op[p])'
    BY <1>1, <1>3, <2>1, <2>5, <2>7 DEF Served
  <2>9. Settled(op[p], row[op[p].acct].pin)'
    BY <1>1, <1>3, <2>1, <2>5, <2>7 DEF Settled, Best
  <2> QED
    BY <2>5, <2>8, <2>9 DEF ConnectAt
<1> QED
  BY <1>4, <1>5, PersistFrame, ConnectThrows

\* The write at the end of persistState, in connect and before new credentials.
LEMMA PersistedConnects ==
  ASSUME AccountsTypeOK, NEW p \in Procs, Equipped(op[p]), ConnectAt(op[p]), Persisted(p)
  PROVE  StepFrame(p) /\ (Connects(op[p])' => ConnectAt(op[p])')
<1>1. StepFrame(p) /\ Advanced(p, op[p], Tail(op[p].todo))
  BY PersistedFrame
<1>2. /\ op[p].todo # <<>> /\ Head(op[p].todo) = "persisted" /\ cred' = cred
      /\ registry' = registry /\ KeepUsed(adapter) /\ Write(op[p].acct, "CONNECTED")
  BY DEF Persisted, At, Calm
<1>3. Alike(op[p], op[p]) /\ op[p].todo \in Seq(Names) /\ op[p].acct \in Accounts
  BY <1>2, UnderWay
<1>4. /\ op[p].todo \in {PersistedOn, ForgetPersistedOn}
      /\ op[p].todo = ForgetPersistedOn => op[p].kind = "creds"
      /\ op[p].todo = PersistedOn => Served(op[p]) /\ Settled(op[p], row[op[p].acct].pin)
  BY <1>2, <1>3, ConnectStands
<1>5. Tail(PersistedOn) = EndOn
  BY ONLY ConnectHeads, Zenon
<1>6. Tail(ForgetPersistedOn) = ForgetLeaveOn
  BY ONLY CredsHeads, Zenon
<1>7. ASSUME Connects(op[p])', op[p].todo = ForgetPersistedOn PROVE ConnectAt(op[p])'
  <2>1. op'[p].todo = ForgetLeaveOn /\ op'[p].kind = op[p].kind
    BY ONLY p \in Procs, <1>1, <1>3, <1>6, <1>7, ConnectGoes, SMTT(30)
  <2> QED
    BY <1>4, <1>7, <2>1 DEF ConnectAt
<1>8. row'[op[p].acct].pin = row[op[p].acct].pin
  <2>1. row \in [Accounts -> Row] /\ row[op[p].acct] \in Row
    BY <1>3 DEF AccountsTypeOK
  <2> QED
    BY <1>2, <1>3, <2>1 DEF Write, Row
<1>9. ASSUME Connects(op[p])', op[p].todo = PersistedOn PROVE ConnectAt(op[p])'
  <2>1. PICK h \in Handles : h = op[p].mine
    BY <1>4, <1>9 DEF Served
  <2>2. /\ op'[p].todo = EndOn /\ op'[p].acct = op[p].acct /\ op'[p].mine = op[p].mine
        /\ op'[p].bound = op[p].bound /\ op'[p].kind = op[p].kind
    BY ONLY p \in Procs, <1>1, <1>3, <1>5, <1>9, ConnectGoes, SMTT(30)
  <2>3. Used(h)'
    BY <1>3, <2>1, <2>2, MineUsed
  <2>4. adapter'[h] = adapter[h]
    BY <1>2, <2>3, AllKept
  <2>5. Served(op[p])'
    BY <1>2, <1>4, <1>9, <2>1, <2>2, <2>4 DEF Served
  <2>6. Settled(op[p], row[op[p].acct].pin)'
    BY <1>4, <1>8, <1>9, <2>1, <2>2, <2>4 DEF Settled, Best
  <2> QED
    BY <2>2, <2>5, <2>6 DEF ConnectAt
<1> QED
  BY ONLY <1>1, <1>4, <1>7, <1>9

\* New credentials: the old adapter goes, they are stored, and connect begins.
LEMMA StashConnects ==
  ASSUME AccountsTypeOK, NEW p \in Procs, Equipped(op[p]), ConnectAt(op[p]), Stash(p)
  PROVE  StepFrame(p) /\ (Connects(op[p])' => ConnectAt(op[p])')
<1>1. op[p].todo # <<>> /\ Head(op[p].todo) = "stash"
  BY DEF Stash, At
<1>2. Alike(op[p], op[p]) /\ op[p].todo \in Seq(Names)
  BY <1>1, UnderWay
<1>3. op[p].todo = StashOn /\ op[p].kind = "creds"
  <2>1. op[p].todo = StashOn
    BY <1>1, <1>2, ConnectStands
  <2>2. PICK hd, tl : Apart(hd, tl)
    BY ListParts, Zenon
  <2>3. PICK e : e = <<"error">>
    OBVIOUS
  <2> QED
    BY <2>1, <2>2, <2>3 DEF ConnectAt, Apart
<1>4. Tail(StashOn) = ForgetOn
  BY ONLY CredsHeads, Zenon
<1>5. Tail(op[p].todo) = ForgetOn
  BY ONLY <1>3, <1>4
<1>6. CASE Advanced(p, op[p], Tail(op[p].todo))
  <2>1. ASSUME Connects(op[p])' PROVE ConnectAt(op[p])'
    <3>1. op'[p].todo = ForgetOn /\ op'[p].kind = op[p].kind
      BY ONLY p \in Procs, <1>2, <1>3, <1>4, <1>6, <2>1, ConnectGoes, SMTT(30)
    <3> QED
      BY <1>3, <3>1 DEF ConnectAt
  <2> QED
    BY <2>1, StashFrame
<1>7. ASSUME NEW o, NEW s \in {<<"persisted", "leave", "drop">>, <<"leave", "drop">>},
             Advanced(p, o, s \o Tail(op[p].todo)), Alike(o, op[p]), Connects(op[p])'
      PROVE  ConnectAt(op[p])'
  <2>1. /\ ForgetOn \in Seq(Names) /\ "persisted" \in Names /\ "leave" \in Names
        /\ "drop" \in Names
    BY Named, CredsLists
  <2>2. <<"leave", "drop">> \o ForgetOn = <<"leave">> \o (<<"drop">> \o ForgetOn)
    BY ONLY <2>1, TwoMore
  <2>3. <<"persisted", "leave", "drop">> \o ForgetOn =
          <<"persisted">> \o (<<"leave">> \o (<<"drop">> \o ForgetOn))
    BY ONLY <2>1, ThreeMore
  <2>4. <<"leave", "drop">> \o ForgetOn = ForgetLeaveOn
    BY ONLY <2>2, Zenon DEF ForgetLeaveOn, ForgetDropOn
  <2>5. <<"persisted", "leave", "drop">> \o ForgetOn = ForgetPersistedOn
    BY ONLY <2>3, Zenon DEF ForgetPersistedOn, ForgetLeaveOn, ForgetDropOn
  <2>6. s \o Tail(op[p].todo) \in {ForgetLeaveOn, ForgetPersistedOn}
    BY ONLY <1>5, <1>7, <2>4, <2>5, Zenon
  <2>7. PICK t \in {ForgetLeaveOn, ForgetPersistedOn} : t = s \o Tail(op[p].todo)
    BY ONLY <2>6, Zenon
  <2>8. Advanced(p, o, t)
    BY ONLY <1>7, <2>7, Zenon
  <2>9. op'[p].todo = t /\ op'[p].kind = op[p].kind
    BY ONLY p \in Procs, <1>7, <2>8, ConnectAdvanced
  <2> QED
    BY <1>3, <2>9 DEF ConnectAt
<1> QED
  BY ONLY AccountsTypeOK, p \in Procs, Equipped(op[p]), Stash(p), <1>6, <1>7, StashFrame

\* New credentials: the old adapter is out of the registry.
LEMMA ForgetConnects ==
  ASSUME AccountsTypeOK, NEW p \in Procs, Equipped(op[p]), ConnectAt(op[p]), ForgetAdapter(p)
  PROVE  StepFrame(p) /\ (Connects(op[p])' => ConnectAt(op[p])')
<1>1. /\ StepFrame(p) /\ Advanced(p, op[p], Tail(op[p].todo))
      /\ registry'[op[p].acct] = None
  BY ForgetAdapterFrame
<1>2. op[p].todo # <<>> /\ Head(op[p].todo) = "forget"
  BY DEF ForgetAdapter, At
<1>3. Alike(op[p], op[p]) /\ op[p].todo \in Seq(Names)
  BY <1>2, UnderWay
<1>4. op[p].todo = ForgetOn /\ op[p].kind = "creds"
  BY <1>2, <1>3, ConnectStands
<1>5. Tail(ForgetOn) = StoreOn
  BY ONLY CredsHeads, Zenon
<1>6. ASSUME Connects(op[p])' PROVE ConnectAt(op[p])'
  <2>1. Tail(op[p].todo) = StoreOn
    BY ONLY <1>4, <1>5
  <2>2. Advanced(p, op[p], StoreOn)
    BY ONLY <1>1, <2>1, Zenon
  <2>3. op'[p].todo = StoreOn /\ op'[p].kind = op[p].kind /\ op'[p].acct = op[p].acct
    BY ONLY p \in Procs, <1>3, <1>6, <2>2, ConnectAdvanced
  <2> QED
    BY <1>1, <1>4, <2>3 DEF ConnectAt
<1> QED
  BY <1>1, <1>6

\* New credentials: they are stored.
LEMMA StoreConnects ==
  ASSUME AccountsTypeOK, NEW p \in Procs, Equipped(op[p]), ConnectAt(op[p]), Store(p)
  PROVE  StepFrame(p) /\ (Connects(op[p])' => ConnectAt(op[p])')
<1>1. StepFrame(p) /\ Advanced(p, op[p], Tail(op[p].todo))
  BY StoreFrame
<1>2. op[p].todo # <<>> /\ Head(op[p].todo) = "store" /\ registry' = registry
  BY DEF Store, At
<1>3. Alike(op[p], op[p]) /\ op[p].todo \in Seq(Names)
  BY <1>2, UnderWay
<1>4. op[p].todo = StoreOn /\ op[p].kind = "creds" /\ registry[op[p].acct] = None
  BY <1>2, <1>3, ConnectStands
<1>5. Tail(StoreOn) = DisconnectedOn
  BY ONLY CredsHeads, Zenon
<1>6. ASSUME Connects(op[p])' PROVE ConnectAt(op[p])'
  <2>1. Tail(op[p].todo) = DisconnectedOn
    BY ONLY <1>4, <1>5
  <2>2. Advanced(p, op[p], DisconnectedOn)
    BY ONLY <1>1, <2>1, Zenon
  <2>3. op'[p].todo = DisconnectedOn /\ op'[p].kind = op[p].kind /\ op'[p].acct = op[p].acct
    BY ONLY p \in Procs, <1>3, <1>6, <2>2, ConnectAdvanced
  <2> QED
    BY <1>2, <1>4, <2>3 DEF ConnectAt
<1> QED
  BY <1>1, <1>6

\* New credentials: the row is DISCONNECTED.
LEMMA DisconnectedConnects ==
  ASSUME AccountsTypeOK, NEW p \in Procs, Equipped(op[p]), ConnectAt(op[p]), WriteDisconnected(p)
  PROVE  StepFrame(p) /\ (Connects(op[p])' => ConnectAt(op[p])')
<1>1. StepFrame(p) /\ Advanced(p, op[p], Tail(op[p].todo))
  BY WriteDisconnectedFrame
<1>2. op[p].todo # <<>> /\ Head(op[p].todo) = "disconnected" /\ registry' = registry
  BY DEF WriteDisconnected, At, Calm
<1>3. Alike(op[p], op[p]) /\ op[p].todo \in Seq(Names)
  BY <1>2, UnderWay
<1>4. op[p].todo = DisconnectedOn /\ op[p].kind = "creds" /\ registry[op[p].acct] = None
  BY <1>2, <1>3, ConnectStands
<1>5. Tail(DisconnectedOn) = GetOn
  BY ONLY CredsHeads, Zenon
<1>6. ASSUME Connects(op[p])' PROVE ConnectAt(op[p])'
  <2>1. Tail(op[p].todo) = GetOn
    BY ONLY <1>4, <1>5
  <2>2. Advanced(p, op[p], GetOn)
    BY ONLY <1>1, <2>1, Zenon
  <2>3. op'[p].todo = GetOn /\ op'[p].kind = op[p].kind /\ op'[p].acct = op[p].acct
    BY ONLY p \in Procs, <1>3, <1>6, <2>2, ConnectAdvanced
  <2> QED
    BY <1>2, <1>4, <2>3 DEF ConnectAt
<1> QED
  BY <1>1, <1>6

\* New credentials: the connect begins.
LEMMA GetConnects ==
  ASSUME AccountsTypeOK, NEW p \in Procs, Equipped(op[p]), ConnectAt(op[p]), Get(p)
  PROVE  StepFrame(p) /\ (Connects(op[p])' => ConnectAt(op[p])')
<1>1. op[p].todo # <<>> /\ Head(op[p].todo) = "get" /\ registry' = registry
  BY DEF Get, At, Calm
<1>2. op[p].todo \in Seq(Names)
  BY <1>1, UnderWay
<1>3. op[p].todo = GetOn /\ op[p].kind = "creds" /\ registry[op[p].acct] = None
  BY <1>1, <1>2, ConnectStands
<1>4. Tail(GetOn) = ConnectingOn
  BY ONLY CredsHeads, Zenon
<1>5. ASSUME NEW o, Advanced(p, o, Tail(op[p].todo)), Alike(o, op[p]), Connects(op[p])'
      PROVE  ConnectAt(op[p])'
  <2>1. Tail(op[p].todo) = ConnectingOn
    BY ONLY <1>3, <1>4
  <2>2. Advanced(p, o, ConnectingOn)
    BY ONLY <1>5, <2>1, Zenon
  <2>3. op'[p].todo = ConnectingOn /\ op'[p].kind = op[p].kind /\ op'[p].acct = op[p].acct
    BY ONLY p \in Procs, <1>5, <2>2, ConnectAdvanced
  <2> QED
    BY <1>1, <1>3, <2>3 DEF ConnectAt
<1>6. op'[p] = Over => ~Connects(op[p])'
  BY OverTyped DEF Connects
<1> QED
  BY ONLY AccountsTypeOK, p \in Procs, Equipped(op[p]), Get(p), <1>5, <1>6, GetFrame

\* Where it ends.
LEMMA ErrorConnects ==
  ASSUME AccountsTypeOK, NEW p \in Procs, Equipped(op[p]), ConnectAt(op[p]), WriteError(p)
  PROVE  StepFrame(p) /\ (Connects(op[p])' => ConnectAt(op[p])')
<1>1. StepFrame(p) /\ Advanced(p, op[p], Tail(op[p].todo))
  BY WriteErrorFrame
<1>2. op[p].todo # <<>> /\ Head(op[p].todo) = "error"
  BY DEF WriteError, At
<1>3. Alike(op[p], op[p]) /\ op[p].todo \in Seq(Names)
  BY <1>2, UnderWay
<1>4. op[p].todo = <<"error">>
  BY <1>2, <1>3, ConnectStands
<1>5. Tail(op[p].todo) = <<>>
  BY <1>4
<1>6. ~Connects(op[p])'
  <2>1. PICK t : t = Tail(op[p].todo) /\ t = <<>>
    BY <1>5
  <2>2. Advanced(p, op[p], t)
    BY ONLY <1>1, <2>1, Zenon
  <2> QED
    BY <2>1, <2>2, OverTyped DEF Advanced, Connects
<1> QED
  BY <1>1, <1>6

-----------------------------------------------------------------------------

(***************************************************************************)
(* Every step of an operation                                              *)
(***************************************************************************)
\* What is left to show of a step, if it is that of a connect that is alone.
LEMMA StepEnough ==
  ASSUME AccountsInv, NEW p \in Procs, op[p].todo # <<>>, StepFrame(p),
         Connects(op[p]) => (Connects(op[p])' => ConnectAt(op[p])')
  PROVE  AccountsInv'
<1>1. ~Connects(op[p]) => ~Connects(op[p])'
  BY DEF StepFrame, Connects
<1> QED
  BY <1>1, StepKeeps

\* The awaits that no connect has.
LEMMA NotOfConnect ==
  ASSUME AccountsTypeOK, NEW p \in Procs, Equipped(op[p]), op[p].todo # <<>>,
         Head(op[p].todo) \in {"adapter", "alive", "synced", "bind", "bound", "archived", "warmed"}
  PROVE  ~ConnectAt(op[p])
<1>1. op[p].todo \in Seq(Names)
  BY UnderWay
<1> QED
  BY <1>1, ConnectStands

\* Every step of an operation keeps the invariant.
LEMMA StepsKeep ==
  ASSUME AccountsInv, NEW p \in Procs, Step(p)
  PROVE  AccountsInv'
<1>1. /\ AccountsTypeOK /\ Equipped(op[p])
      /\ Connects(op[p]) => ConnectAt(op[p])
  BY DEF AccountsInv
<1>2. ASSUME Enter(p) PROVE AccountsInv'
  <2>1. op[p].todo # <<>>
    BY <1>2 DEF Enter, At
  <2>2. StepFrame(p)
    BY <1>1, <1>2, EnterFrame
  <2>3. Connects(op[p]) => (Connects(op[p])' => ConnectAt(op[p])')
    BY <1>1, <1>2, EnterConnects
  <2> QED
    BY <2>1, <2>2, <2>3, StepEnough
<1>3. ASSUME Leave(p) PROVE AccountsInv'
  <2>1. op[p].todo # <<>>
    BY <1>3 DEF Leave, At
  <2>2. StepFrame(p)
    BY <1>1, <1>3, LeaveFrame
  <2>3. Connects(op[p]) => (Connects(op[p])' => ConnectAt(op[p])')
    BY <1>1, <1>3, LeaveConnects
  <2> QED
    BY <2>1, <2>2, <2>3, StepEnough
<1>4. ASSUME Drop(p) PROVE AccountsInv'
  <2>1. op[p].todo # <<>>
    BY <1>4 DEF Drop, At
  <2>2. StepFrame(p)
    BY <1>1, <1>4, DropFrame
  <2>3. Connects(op[p]) => (Connects(op[p])' => ConnectAt(op[p])')
    BY <1>1, <1>4, DropConnects
  <2> QED
    BY <2>1, <2>2, <2>3, StepEnough
<1>5. ASSUME Load(p) PROVE AccountsInv'
  <2>1. op[p].todo # <<>>
    BY <1>5 DEF Load, At
  <2>2. StepFrame(p)
    BY <1>1, <1>5, LoadFrame
  <2>3. Connects(op[p]) => (Connects(op[p])' => ConnectAt(op[p])')
    BY <1>1, <1>5, LoadConnects
  <2> QED
    BY <2>1, <2>2, <2>3, StepEnough
<1>6. ASSUME Pick(p) PROVE AccountsInv'
  <2>1. op[p].todo # <<>>
    BY <1>6 DEF Pick, At
  <2>2. StepFrame(p)
    BY <1>1, <1>6, PickFrame
  <2>3. Connects(op[p]) => (Connects(op[p])' => ConnectAt(op[p])')
    BY <1>1, <1>6, PickConnects
  <2> QED
    BY <2>1, <2>2, <2>3, StepEnough
<1>7. ASSUME Opened(p) PROVE AccountsInv'
  <2>1. op[p].todo # <<>>
    BY <1>7 DEF Opened, At
  <2>2. StepFrame(p)
    BY <1>1, <1>7, OpenedFrame
  <2>3. Connects(op[p]) => (Connects(op[p])' => ConnectAt(op[p])')
    BY <1>1, <1>7, OpenedConnects
  <2> QED
    BY <2>1, <2>2, <2>3, StepEnough
<1>8. ASSUME Get(p) PROVE AccountsInv'
  <2>1. op[p].todo # <<>>
    BY <1>8 DEF Get, At
  <2>2. StepFrame(p)
    BY <1>1, <1>8, GetFrame
  <2>3. Connects(op[p]) => (Connects(op[p])' => ConnectAt(op[p])')
    BY <1>1, <1>8, GetConnects
  <2> QED
    BY <2>1, <2>2, <2>3, StepEnough
<1>9. ASSUME WriteConnecting(p) PROVE AccountsInv'
  <2>1. op[p].todo # <<>>
    BY <1>9 DEF WriteConnecting, At
  <2>2. StepFrame(p)
    BY <1>1, <1>9, WriteConnectingFrame
  <2>3. Connects(op[p]) => (Connects(op[p])' => ConnectAt(op[p])')
    BY <1>1, <1>9, ConnectingConnects
  <2> QED
    BY <2>1, <2>2, <2>3, StepEnough
<1>10. ASSUME TakeAdapter(p) PROVE AccountsInv'
  <2>1. op[p].todo # <<>> /\ Head(op[p].todo) = "adapter"
    BY <1>10 DEF TakeAdapter, At
  <2>2. StepFrame(p)
    BY <1>1, <1>10, TakeAdapterFrame
  <2>3. ~Connects(op[p])
    BY <1>1, <2>1, NotOfConnect
  <2> QED
    BY <2>1, <2>2, <2>3, StepEnough
<1>11. ASSUME Health(p) PROVE AccountsInv'
  <2>1. op[p].todo # <<>>
    BY <1>11 DEF Health, At
  <2>2. StepFrame(p)
    BY <1>1, <1>11, HealthFrame
  <2>3. Connects(op[p]) => (Connects(op[p])' => ConnectAt(op[p])')
    BY <1>1, <1>11, HealthConnects
  <2> QED
    BY <2>1, <2>2, <2>3, StepEnough
<1>12. ASSUME Alive(p) PROVE AccountsInv'
  <2>1. op[p].todo # <<>> /\ Head(op[p].todo) = "alive"
    BY <1>12 DEF Alive, At
  <2>2. StepFrame(p)
    BY <1>1, <1>12, AliveFrame
  <2>3. ~Connects(op[p])
    BY <1>1, <2>1, NotOfConnect
  <2> QED
    BY <2>1, <2>2, <2>3, StepEnough
<1>13. ASSUME State(p) PROVE AccountsInv'
  <2>1. op[p].todo # <<>>
    BY <1>13 DEF State, At
  <2>2. StepFrame(p)
    BY <1>1, <1>13, StateFrame
  <2>3. Connects(op[p]) => (Connects(op[p])' => ConnectAt(op[p])')
    BY <1>1, <1>13, StateConnects
  <2> QED
    BY <2>1, <2>2, <2>3, StepEnough
<1>14. ASSUME Siblings(p) PROVE AccountsInv'
  <2>1. op[p].todo # <<>>
    BY <1>14 DEF Siblings, At
  <2>2. StepFrame(p)
    BY <1>1, <1>14, SiblingsFrame
  <2>3. Connects(op[p]) => (Connects(op[p])' => ConnectAt(op[p])')
    BY <1>1, <1>14, SiblingsConnects
  <2> QED
    BY <2>1, <2>2, <2>3, StepEnough
<1>15. ASSUME Richest(p) PROVE AccountsInv'
  <2>1. op[p].todo # <<>>
    BY <1>15 DEF Richest, At
  <2>2. StepFrame(p)
    BY <1>1, <1>15, RichestFrame
  <2>3. Connects(op[p]) => (Connects(op[p])' => ConnectAt(op[p])')
    BY <1>1, <1>15, RichestConnects
  <2> QED
    BY <2>1, <2>2, <2>3, StepEnough
<1>16. ASSUME WriteConnected(p) PROVE AccountsInv'
  <2>1. op[p].todo # <<>>
    BY <1>16 DEF WriteConnected, At
  <2>2. StepFrame(p)
    BY <1>1, <1>16, WriteConnectedFrame
  <2>3. Connects(op[p]) => (Connects(op[p])' => ConnectAt(op[p])')
    BY <1>1, <1>16, ConnectedConnects
  <2> QED
    BY <2>1, <2>2, <2>3, StepEnough
<1>17. ASSUME PersistState(p) PROVE AccountsInv'
  <2>1. op[p].todo # <<>>
    BY <1>17 DEF PersistState, At
  <2>2. StepFrame(p)
    BY <1>1, <1>17, PersistFrame
  <2>3. Connects(op[p]) => (Connects(op[p])' => ConnectAt(op[p])')
    BY <1>1, <1>17, PersistConnects
  <2> QED
    BY <2>1, <2>2, <2>3, StepEnough
<1>18. ASSUME Persisted(p) PROVE AccountsInv'
  <2>1. op[p].todo # <<>>
    BY <1>18 DEF Persisted, At
  <2>2. StepFrame(p)
    BY <1>1, <1>18, PersistedFrame
  <2>3. Connects(op[p]) => (Connects(op[p])' => ConnectAt(op[p])')
    BY <1>1, <1>18, PersistedConnects
  <2> QED
    BY <2>1, <2>2, <2>3, StepEnough
<1>19. ASSUME Stash(p) PROVE AccountsInv'
  <2>1. op[p].todo # <<>>
    BY <1>19 DEF Stash, At
  <2>2. StepFrame(p)
    BY <1>1, <1>19, StashFrame
  <2>3. Connects(op[p]) => (Connects(op[p])' => ConnectAt(op[p])')
    BY <1>1, <1>19, StashConnects
  <2> QED
    BY <2>1, <2>2, <2>3, StepEnough
<1>20. ASSUME WriteDisconnected(p) PROVE AccountsInv'
  <2>1. op[p].todo # <<>>
    BY <1>20 DEF WriteDisconnected, At
  <2>2. StepFrame(p)
    BY <1>1, <1>20, WriteDisconnectedFrame
  <2>3. Connects(op[p]) => (Connects(op[p])' => ConnectAt(op[p])')
    BY <1>1, <1>20, DisconnectedConnects
  <2> QED
    BY <2>1, <2>2, <2>3, StepEnough
<1>21. ASSUME WriteError(p) PROVE AccountsInv'
  <2>1. op[p].todo # <<>>
    BY <1>21 DEF WriteError, At
  <2>2. StepFrame(p)
    BY <1>1, <1>21, WriteErrorFrame
  <2>3. Connects(op[p]) => (Connects(op[p])' => ConnectAt(op[p])')
    BY <1>1, <1>21, ErrorConnects
  <2> QED
    BY <2>1, <2>2, <2>3, StepEnough
<1>22. ASSUME Synced(p) PROVE AccountsInv'
  <2>1. op[p].todo # <<>> /\ Head(op[p].todo) = "synced"
    BY <1>22 DEF Synced, At
  <2>2. StepFrame(p)
    BY <1>1, <1>22, SyncedFrame
  <2>3. ~Connects(op[p])
    BY <1>1, <2>1, NotOfConnect
  <2> QED
    BY <2>1, <2>2, <2>3, StepEnough
<1>23. ASSUME BindAdapter(p) PROVE AccountsInv'
  <2>1. op[p].todo # <<>> /\ Head(op[p].todo) = "bind"
    BY <1>23 DEF BindAdapter, At
  <2>2. StepFrame(p)
    BY <1>1, <1>23, BindAdapterFrame
  <2>3. ~Connects(op[p])
    BY <1>1, <2>1, NotOfConnect
  <2> QED
    BY <2>1, <2>2, <2>3, StepEnough
<1>24. ASSUME WriteBound(p) PROVE AccountsInv'
  <2>1. op[p].todo # <<>> /\ Head(op[p].todo) = "bound"
    BY <1>24 DEF WriteBound, At
  <2>2. StepFrame(p)
    BY <1>1, <1>24, WriteBoundFrame
  <2>3. ~Connects(op[p])
    BY <1>1, <2>1, NotOfConnect
  <2> QED
    BY <2>1, <2>2, <2>3, StepEnough
<1>25. ASSUME Archive(p) PROVE AccountsInv'
  <2>1. op[p].todo # <<>> /\ Head(op[p].todo) = "archived"
    BY <1>25 DEF Archive, At
  <2>2. StepFrame(p)
    BY <1>1, <1>25, ArchiveFrame
  <2>3. ~Connects(op[p])
    BY <1>1, <2>1, NotOfConnect
  <2> QED
    BY <2>1, <2>2, <2>3, StepEnough
<1>26. ASSUME ForgetAdapter(p) PROVE AccountsInv'
  <2>1. op[p].todo # <<>>
    BY <1>26 DEF ForgetAdapter, At
  <2>2. StepFrame(p)
    BY <1>1, <1>26, ForgetAdapterFrame
  <2>3. Connects(op[p]) => (Connects(op[p])' => ConnectAt(op[p])')
    BY <1>1, <1>26, ForgetConnects
  <2> QED
    BY <2>1, <2>2, <2>3, StepEnough
<1>27. ASSUME Store(p) PROVE AccountsInv'
  <2>1. op[p].todo # <<>>
    BY <1>27 DEF Store, At
  <2>2. StepFrame(p)
    BY <1>1, <1>27, StoreFrame
  <2>3. Connects(op[p]) => (Connects(op[p])' => ConnectAt(op[p])')
    BY <1>1, <1>27, StoreConnects
  <2> QED
    BY <2>1, <2>2, <2>3, StepEnough
<1>28. ASSUME Warmed(p) PROVE AccountsInv'
  <2>1. op[p].todo # <<>> /\ Head(op[p].todo) = "warmed"
    BY <1>28 DEF Warmed, At
  <2>2. StepFrame(p)
    BY <1>1, <1>28, WarmedFrame
  <2>3. ~Connects(op[p])
    BY <1>1, <2>1, NotOfConnect
  <2> QED
    BY <2>1, <2>2, <2>3, StepEnough
<1>29. ASSUME End(p) PROVE AccountsInv'
  <2>1. op[p].todo # <<>> /\ StepFrame(p) /\ op'[p] = Over
    BY <1>1, <1>29, EndFrame DEF End, At
  <2>2. ~Connects(op[p])'
    BY <2>1, OverTyped DEF Connects
  <2> QED
    BY <2>1, <2>2, StepEnough
<1> QED
  BY <1>2, <1>3, <1>4, <1>5, <1>6, <1>7, <1>8, <1>9, <1>10, <1>11, <1>12, <1>13,
     <1>14, <1>15, <1>16, <1>17, <1>18, <1>19, <1>20, <1>21, <1>22, <1>23, <1>24, <1>25,
     <1>26, <1>27, <1>28, <1>29 DEF Step

-----------------------------------------------------------------------------

(***************************************************************************)
(* How an operation begins                                                 *)
(***************************************************************************)
\* An operation that begins is the only one of its account, or alone no more.
LEMMA BeginKeeps ==
  ASSUME AccountsInv, NEW p \in Procs, Idle(p), NEW kind \in Kind, NEW a \in Accounts,
         NEW target \in Subs \cup {None}, NEW steps \in Seq(Names), steps # <<>>, Due(steps),
         kind = "connect" => steps = ConnectingOn, kind = "creds" => steps = StashOn,
         Begin(p, kind, a, target, steps), UNCHANGED <<row, cred, broker>>,
         booting' \in SUBSET Accounts, asks' \in Nat, faults' \in Nat
  PROVE  AccountsInv'
<1>1. /\ op \in [Procs -> Operation] /\ row \in [Accounts -> Row] /\ row[a] \in Row
      /\ \A q \in Procs : op[q] \in Operation
  BY DEF AccountsInv, AccountsTypeOK
<1>2. UNCHANGED <<row, cred, registry, adapter, refs>>
  BY DEF broker
<1>3. PICK b \in BOOLEAN : b = (Others(a) = {})
  OBVIOUS
<1>4. [Over EXCEPT !.kind = kind, !.acct = a, !.seen = row[a], !.target = target,
                   !.todo = steps, !.alone = b] \in Operation
  BY <1>1, OverTyped DEF Operation
<1>5. PICK new \in Operation :
        new = [Over EXCEPT !.kind = kind, !.acct = a, !.seen = row[a], !.target = target,
                           !.todo = steps, !.alone = b]
  BY <1>4, Zenon
<1>6. /\ new.kind = kind /\ new.acct = a /\ new.seen = row[a] /\ new.todo = steps
      /\ new.alone = b /\ new.mine = None
  BY <1>5 DEF Over
<1>7. \A q \in Procs : [op[q] EXCEPT !.alone = FALSE] \in Operation
  BY <1>1 DEF Operation
<1>8. /\ op' \in [Procs -> Operation] /\ op'[p] = new
      /\ \A q \in Procs \ {p} :
           op'[q] = IF q \in Others(a) THEN [op[q] EXCEPT !.alone = FALSE] ELSE op[q]
  BY <1>1, <1>3, <1>5, <1>7 DEF Begin
<1>9. \A q \in Procs \ {p} :
        /\ op'[q].kind = op[q].kind /\ op'[q].acct = op[q].acct /\ op'[q].seen = op[q].seen
        /\ op'[q].todo = op[q].todo /\ op'[q].mine = op[q].mine
        /\ q \in Others(a) => ~op'[q].alone
        /\ q \notin Others(a) => op'[q] = op[q]
  BY <1>1, <1>8 DEF Operation
<1>10. AccountsTypeOK'
  BY <1>2, <1>8 DEF AccountsInv, AccountsTypeOK
<1>11. ASSUME NEW q \in Procs PROVE Equipped(op[q])'
  <2>1. CASE q = p
    BY <1>1, <1>6, <1>8, <2>1 DEF Equipped
  <2>2. CASE q # p
    BY <1>9, <2>2 DEF AccountsInv, Equipped
  <2> QED
    BY <2>1, <2>2
<1>12. OneOwner'
  <2>1. ASSUME NEW h \in Handles, NEW c \in Accounts, Owner(h, c)' PROVE Owner(h, c)
    <3>1. h # None
      BY AccountsAssumption
    <3> QED
      BY <1>2, <1>6, <1>8, <1>9, <2>1, <3>1 DEF Owner
  <2> QED
    BY <2>1 DEF AccountsInv, OneOwner
<1>13. Lonely'
  <2>1. ASSUME NEW q \in Procs \ {p}, op'[q].todo # <<>>, op'[q].acct = a
        PROVE  q \in Others(a) /\ ~op'[q].alone /\ ~b
    <3>1. q \in Others(a)
      BY <1>9, <2>1 DEF Others, Idle
    <3> QED
      BY <1>3, <1>9, <3>1
  <2>2. ASSUME NEW q \in Procs, NEW r \in Procs, op'[q].alone, op'[q].todo # <<>>,
               op'[r].todo # <<>>, op'[q].acct = op'[r].acct, q # r
        PROVE  FALSE
    <3>1. CASE q = p
      BY <1>6, <1>8, <2>1, <2>2, <3>1
    <3>2. CASE r = p
      BY <1>6, <1>8, <2>1, <2>2, <3>2
    <3>3. CASE q # p /\ r # p
      <4>1. op'[q] = op[q] /\ op'[r].acct = op[r].acct /\ op'[r].todo = op[r].todo
        BY <1>9, <2>2, <3>3
      <4> QED
        BY <2>2, <4>1 DEF AccountsInv, Lonely, Idle
    <3> QED
      BY <3>1, <3>2, <3>3
  <2> QED
    BY <2>2 DEF Lonely, Idle
<1>14. ASSUME NEW q \in Procs, Connects(op[q])' PROVE ConnectAt(op[q])'
  <2>1. CASE q = p
    <3>1. kind \in {"connect", "creds"} /\ op'[p].todo = steps /\ op'[p].kind = kind
      BY <1>6, <1>8, <1>14, <2>1 DEF Connects
    <3> QED
      BY <2>1, <3>1 DEF ConnectAt
  <2>2. CASE q # p
    <3>1. op'[q] = op[q]
      BY <1>9, <1>14, <2>2 DEF Connects
    <3>2. ConnectAt(op[q])
      BY <1>14, <3>1 DEF AccountsInv, Connects
    <3> QED
      BY <1>2, <3>1, <3>2, ConnectKept
  <2> QED
    BY <2>1, <2>2
<1> QED
  BY <1>10, <1>11, <1>12, <1>13, <1>14 DEF AccountsInv

\* A list without a step that needs an adapter.
LEMMA DueNone ==
  ASSUME NEW t \in Seq(Names), \A i \in 1..Len(t) : t[i] \notin Uses
  PROVE  Due(t)
BY DEF Due

\* What connect begins with, and new credentials.
LEMMA ConnectDue ==
  Due(ConnectingOn) /\ Due(StashOn) /\ ConnectingOn # <<>> /\ StashOn # <<>>
<1>1. /\ {"stash", "forget", "store", "disconnected", "get", "connecting"} \cap Uses = {}
      /\ {"stash", "forget", "store", "disconnected", "get", "connecting", "enter"} \subseteq Names
      /\ "enter" \in Gives
  BY DEF Uses, Gives, Names
<1>2. {EnterOn, ConnectingOn, GetOn, DisconnectedOn, StoreOn, ForgetOn, HealthOn} \subseteq Seq(Names)
  BY ConnectLists, CredsLists
<1>3. \A x \in Names, t \in Seq(Names) :
        x \in Gives \/ (x \notin Uses /\ Due(t)) => Due(<<x>> \o t)
  BY DueMore
<1>4. Due(EnterOn)
  BY <1>1, <1>2, <1>3 DEF EnterOn
<1>5. Due(ConnectingOn)
  BY <1>1, <1>2, <1>3, <1>4 DEF ConnectingOn
<1>6. Due(GetOn)
  BY <1>1, <1>2, <1>3, <1>5 DEF GetOn
<1>7. Due(DisconnectedOn)
  BY <1>1, <1>2, <1>3, <1>6 DEF DisconnectedOn
<1>8. Due(StoreOn)
  BY <1>1, <1>2, <1>3, <1>7 DEF StoreOn
<1>9. Due(ForgetOn)
  BY <1>1, <1>2, <1>3, <1>8 DEF ForgetOn
<1>10. Due(StashOn)
  BY <1>1, <1>2, <1>3, <1>9 DEF StashOn
<1>11. ConnectingOn # <<>>
  BY <1>1, <1>2, OneMore DEF ConnectingOn
<1>12. StashOn # <<>>
  BY <1>1, <1>2, OneMore DEF StashOn
<1> QED
  BY <1>5, <1>10, <1>11, <1>12

\* What every request begins with.
LEMMA StepsDue ==
  ASSUME NEW kind \in Asks, NEW a \in Accounts
  PROVE  /\ Steps(kind, a) \in Seq(Names) /\ Steps(kind, a) # <<>> /\ Due(Steps(kind, a))
         /\ kind = "connect" => Steps(kind, a) = ConnectingOn
         /\ kind = "creds" => Steps(kind, a) = StashOn
<1>1. kind \in {"connect", "disconnect", "sync", "bind", "archive", "creds", "ready"}
  BY AccountsAssumption
<1>2. CASE kind = "connect"
  <2>1. Steps(kind, a) = ConnectSteps
    BY <1>2 DEF Steps
  <2> QED
    BY <1>2, <2>1, CredsLists, ConnectLists, ConnectDue
<1>3. CASE kind = "creds"
  <2>1. Steps(kind, a) = <<"stash", "forget", "store", "disconnected", "get">> \o ConnectSteps
    BY <1>3 DEF Steps
  <2>2. Steps(kind, a) = StashOn
    BY ONLY <2>1, CredsLists, Zenon
  <2> QED
    BY <1>3, <2>2, CredsLists, ConnectDue
<1>4. CASE kind = "disconnect"
  <2>1. PICK t : t = <<"stash", "disconnected">>
    OBVIOUS
  <2>2. t \in Seq(Names) /\ t # <<>> /\ \A i \in 1..Len(t) : t[i] \notin Uses
    BY <2>1, Named DEF Uses
  <2>3. Steps(kind, a) = t
    BY <1>4, <2>1 DEF Steps
  <2> QED
    BY <1>4, <2>2, <2>3, DueNone
<1>5. CASE kind = "archive"
  <2>1. PICK t : t = <<"stash", "forget", "archived">>
    OBVIOUS
  <2>2. t \in Seq(Names) /\ t # <<>> /\ \A i \in 1..Len(t) : t[i] \notin Uses
    BY <2>1 DEF Uses, Names
  <2>3. Steps(kind, a) = t
    BY <1>5, <2>1 DEF Steps
  <2> QED
    BY <1>5, <2>2, <2>3, DueNone
<1>6. /\ SyncSteps \in Seq(Names) /\ SyncSteps # <<>> /\ Due(SyncSteps)
  <2>1. PICK t : t = <<"adapter", "state", "persist", "health", "synced">>
    OBVIOUS
  <2>2. t \in Seq(Names) /\ t # <<>> /\ t[1] \in Gives /\ t[1] \notin Uses /\ Len(t) = 5
    BY <2>1 DEF Names, Gives, Uses
  <2>3. Due(t)
    BY <2>2 DEF Due
  <2>4. SyncSteps = t
    BY <2>1 DEF SyncSteps
  <2> QED
    BY <2>2, <2>3, <2>4
<1>7. CASE kind = "sync"
  <2>1. Steps(kind, a) = SyncSteps
    BY <1>7 DEF Steps
  <2> QED
    BY <1>6, <1>7, <2>1
<1>8. CASE kind = "bind"
  <2>1. PICK u : u = <<"adapter", "bind", "bound", "get">>
    OBVIOUS
  <2>2. u \in Seq(Names) /\ u # <<>> /\ Head(u) = "adapter" /\ Tail(u) \in Seq(Names)
    BY <2>1 DEF Names
  <2>3. Steps(kind, a) = u \o SyncSteps
    BY <1>8, <2>1 DEF Steps
  <2>4. u \o SyncSteps = <<"adapter">> \o (Tail(u) \o SyncSteps)
    BY ONLY <1>6, <2>2, FirstOf
  <2>5. PICK t \in Seq(Names) : t = Tail(u) \o SyncSteps
    BY <1>6, <2>2, ConcatProperties, Zenon
  <2>6. Steps(kind, a) = <<"adapter">> \o t
    BY ONLY <2>3, <2>4, <2>5, Zenon
  <2>7. <<"adapter">> \o t \in Seq(Names) /\ <<"adapter">> \o t # <<>> /\ Due(<<"adapter">> \o t)
    <3>1. "adapter" \in Names
      BY DEF Names
    <3> QED
      BY <3>1, OneMore, GivesFirst
  <2> QED
    BY ONLY <1>8, <2>6, <2>7
<1>9. CASE kind = "ready"
  <2>1. PICK t : t = <<"connecting", "enter", "alive", "connected", "persist">>
    OBVIOUS
  <2>2. /\ t \in Seq(Names) /\ t # <<>> /\ t[1] \notin Uses /\ t[2] \notin Uses /\ t[2] \in Gives
        /\ Len(t) = 5
    BY <2>1 DEF Names, Gives, Uses
  <2>3. Due(t)
    BY <2>2 DEF Due
  <2>4. PICK e : e = <<"end">>
    OBVIOUS
  <2>5. e \in Seq(Names) /\ e # <<>> /\ \A i \in 1..Len(e) : e[i] \notin Uses
    BY <2>4, Named DEF Uses
  <2>6. Steps(kind, a) \in {t, e}
    BY <1>9, <2>1, <2>4 DEF Steps
  <2> QED
    BY <1>9, <2>2, <2>3, <2>5, <2>6, DueNone
<1> QED
  BY <1>1, <1>2, <1>3, <1>4, <1>5, <1>7, <1>8, <1>9

\* The two lists of a tick, and that of restoreAll.
LEMMA OwnLists ==
  ASSUME NEW t \in {<<"enter">>, <<"enter", "warmed">>, <<"enter", "persist">>}
  PROVE  t \in Seq(Names) /\ t # <<>> /\ Due(t)
<1>1. <<"enter">> \in Seq(Names) /\ Due(<<"enter">>)
  BY DEF Names, Gives, Due, Uses
<1>2. <<"enter", "warmed">> \in Seq(Names) /\ Due(<<"enter", "warmed">>)
  <2>1. PICK u : u = <<"enter", "warmed">>
    OBVIOUS
  <2>2. u \in Seq(Names) /\ u[1] \in Gives /\ u[1] \notin Uses /\ Len(u) = 2
    BY <2>1 DEF Names, Gives, Uses
  <2>3. Due(u)
    BY <2>2 DEF Due
  <2> QED
    BY <2>1, <2>2, <2>3
<1>3. <<"enter", "persist">> \in Seq(Names) /\ Due(<<"enter", "persist">>)
  <2>1. PICK u : u = <<"enter", "persist">>
    OBVIOUS
  <2>2. u \in Seq(Names) /\ u[1] \in Gives /\ u[1] \notin Uses /\ Len(u) = 2
    BY <2>1 DEF Names, Gives, Uses
  <2>3. Due(u)
    BY <2>2 DEF Due
  <2> QED
    BY <2>1, <2>2, <2>3
<1>4. <<"enter">> # <<>> /\ <<"enter", "warmed">> # <<>> /\ <<"enter", "persist">> # <<>>
  OBVIOUS
<1>5. CASE t = <<"enter">>
  BY ONLY <1>1, <1>4, <1>5, Zenon
<1>6. CASE t = <<"enter", "warmed">>
  BY ONLY <1>2, <1>4, <1>6, Zenon
<1>7. CASE t = <<"enter", "persist">>
  BY ONLY <1>3, <1>4, <1>7, Zenon
<1> QED
  BY <1>5, <1>6, <1>7, Zenon

\* The API without an operation under way.
LEMMA AtRest ==
  ASSUME row \in [Accounts -> Row], cred \in [Accounts -> Nat],
         registry = [a \in Accounts |-> None], adapter = [h \in Handles |-> Blank],
         refs = [a \in Accounts |-> None], op = [p \in Procs |-> Over],
         booting \in SUBSET Accounts, asks \in Nat, faults \in Nat
  PROVE  AccountsInv
<1>1. \A p \in Procs : op[p] = Over /\ op[p] \in Operation /\ op[p].todo = <<>> /\ op[p].mine = None
  BY OverTyped
<1>2. Blank \in Adapter /\ None \in Pin
  BY DEF Blank, Adapter, Pin
<1>3. AccountsTypeOK
  BY <1>1, <1>2, OverTyped DEF AccountsTypeOK
<1>4. OneOwner
  BY <1>1, AccountsAssumption DEF OneOwner, Owner
<1> QED
  BY <1>1, <1>3, <1>4 DEF AccountsInv, Equipped, Lonely, Idle, Connects

\* The invariant at the beginning.
LEMMA AccountsBegin == AccountsInit => AccountsInv
<1> SUFFICES ASSUME AccountsInit PROVE AccountsInv
  OBVIOUS
<1>1. row \in [Accounts -> Row]
  BY DEF AccountsInit, Row, Pin
<1>2. cred \in [Accounts -> Nat] /\ booting \in SUBSET Accounts /\ asks \in Nat /\ faults \in Nat
  BY DEF AccountsInit
<1> QED
  BY <1>1, <1>2, AtRest DEF AccountsInit

\* A restart leaves the rows and the credentials.
LEMMA CrashKeeps == ASSUME AccountsInv, Crash PROVE AccountsInv'
<1>1. row' \in [Accounts -> Row] /\ cred' \in [Accounts -> Nat]
  BY DEF AccountsInv, AccountsTypeOK, Crash
<1>2. booting' \in SUBSET Accounts /\ asks' \in Nat /\ faults' \in Nat
  BY DEF AccountsInv, AccountsTypeOK, Crash, Restored, Fault
<1>3. /\ registry' = [a \in Accounts |-> None] /\ adapter' = [h \in Handles |-> Blank]
      /\ refs' = [a \in Accounts |-> None] /\ op' = [p \in Procs |-> Over]
  BY DEF Crash
<1>4. \A p \in Procs : op'[p] = Over /\ op'[p] \in Operation /\ op'[p].todo = <<>> /\
     op'[p].mine = None
  BY <1>3, OverTyped
<1>5. Blank \in Adapter /\ None \in Pin
  BY DEF Blank, Adapter, Pin
<1>6. AccountsTypeOK'
  BY <1>1, <1>2, <1>3, <1>5, OverTyped DEF AccountsTypeOK
<1>7. OneOwner'
  BY <1>3, <1>4, AccountsAssumption DEF OneOwner, Owner
<1> QED
  BY <1>4, <1>6, <1>7 DEF AccountsInv, Equipped, Lonely, Idle, Connects

\* Every step keeps the invariant.
LEMMA AccountsKept == AccountsInv /\ [AccountsNext]_accountVars => AccountsInv'
<1> SUFFICES ASSUME AccountsInv, [AccountsNext]_accountVars PROVE AccountsInv'
  OBVIOUS
<1>0. booting \in SUBSET Accounts /\ asks \in Nat /\ faults \in Nat
  BY DEF AccountsInv, AccountsTypeOK
<1>1. ASSUME NEW p \in Procs, Step(p) PROVE AccountsInv'
  BY <1>1, StepsKeep
<1>2. ASSUME NEW d \in Desks, NEW kind \in Asks, NEW a \in Accounts, Request(d, kind, a)
      PROVE  AccountsInv'
  <2>1. PICK s \in Subs \cup {None} : Begin(d, kind, a, s, Steps(kind, a))
    BY <1>2 DEF Request
  <2>2. /\ d \in Procs /\ kind \in Kind /\ Idle(d) /\ UNCHANGED <<row, cred, broker>>
        /\ booting' \in SUBSET Accounts /\ asks' \in Nat /\ faults' \in Nat
    BY <1>0, <1>2, AccountsAssumption DEF Request, Procs, Kind
  <2>3. PICK steps : steps = Steps(kind, a)
    OBVIOUS
  <2>4. /\ steps \in Seq(Names) /\ steps # <<>> /\ Due(steps)
        /\ kind = "connect" => steps = ConnectingOn
        /\ kind = "creds" => steps = StashOn
    BY ONLY <1>2, <2>3, StepsDue
  <2>5. Begin(d, kind, a, s, steps)
    BY ONLY <2>1, <2>3, Zenon
  <2> QED
    BY <2>2, <2>4, <2>5, BeginKeeps
<1>3. ASSUME NEW a \in Accounts, NEW p \in {Tick, Boot}, NEW kind \in {"tick", "warm", "boot"},
             NEW t \in {<<"enter">>, <<"enter", "warmed">>, <<"enter", "persist">>},
             Idle(p), Begin(p, kind, a, None, t), UNCHANGED <<row, cred, broker, counts>>,
             booting' \in SUBSET Accounts
      PROVE  AccountsInv'
  <2>1. /\ p \in Procs /\ kind \in Kind /\ asks' \in Nat /\ faults' \in Nat
        /\ UNCHANGED <<row, cred, broker>>
    BY <1>0, <1>3 DEF Procs, Kind, counts
  <2>2. PICK steps : steps = t
    OBVIOUS
  <2>3. steps \in Seq(Names) /\ steps # <<>> /\ Due(steps) /\ Begin(p, kind, a, None, steps)
    BY <1>3, <2>2, OwnLists
  <2> QED
    BY <1>3, <2>1, <2>3, BeginKeeps
<1>4. ASSUME NEW a \in Watched, TickConnects(a) PROVE AccountsInv'
  <2>1. a \in Accounts /\ booting' \in SUBSET Accounts
    BY <1>0, <1>4, AccountsAssumption DEF TickConnects
  <2> QED
    BY <1>3, <1>4, <2>1 DEF TickConnects
<1>5. ASSUME NEW a \in Watched, Warm(a) PROVE AccountsInv'
  <2>1. a \in Accounts /\ booting' \in SUBSET Accounts
    BY <1>0, <1>5, AccountsAssumption DEF Warm
  <2> QED
    BY <1>3, <1>5, <2>1 DEF Warm
<1>6. ASSUME NEW a \in Accounts, Restore(a) PROVE AccountsInv'
  <2>1. booting' \in SUBSET Accounts
    BY <1>0, <1>6 DEF Restore
  <2> QED
    BY <1>3, <1>6, <2>1 DEF Restore, Boot
<1>7. ASSUME Crash PROVE AccountsInv'
  BY <1>7, CrashKeeps
<1>8. ASSUME UNCHANGED accountVars PROVE AccountsInv'
  <2>1. UNCHANGED <<row, cred, registry, adapter, refs, op, booting, asks, faults>>
    BY <1>8 DEF accountVars, broker, counts
  <2>2. AccountsTypeOK' /\ OneOwner' /\ Lonely' /\ \A p \in Procs : Equipped(op[p])'
    BY <2>1 DEF AccountsInv, AccountsTypeOK, OneOwner, Owner, Lonely, Idle, Equipped
  <2>3. ASSUME NEW q \in Procs, Connects(op[q])' PROVE ConnectAt(op[q])'
    <3>1. Connects(op[q])
      BY <2>1, <2>3 DEF Connects
    <3> QED
      BY <2>1, <3>1, ConnectKept DEF AccountsInv
  <2> QED
    BY <2>2, <2>3 DEF AccountsInv
<1> QED
  BY <1>1, <1>2, <1>4, <1>5, <1>6, <1>7, <1>8 DEF AccountsNext

\* The rows, the adapters and the operations under way have their types; an
\* operation comes to an adapter before it works with one.
THEOREM AccountsTyped ==
  AccountsSpec => [](AccountsTypeOK /\ \A p \in Procs : Equipped(op[p]))
<1>1. AccountsInv => AccountsTypeOK /\ \A p \in Procs : Equipped(op[p])
  BY DEF AccountsInv
<1> QED
  BY <1>1, AccountsBegin, AccountsKept, PTL DEF AccountsSpec

\* No adapter is ever that of two accounts, in the registry or in an operation
\* under way.
THEOREM AdaptersApart == AccountsSpec => []OneOwner
<1>1. AccountsInv => OneOwner
  BY DEF AccountsInv
<1> QED
  BY <1>1, AccountsBegin, AccountsKept, PTL DEF AccountsSpec

\* A connect that has its account for itself ends with the row and the adapter in
\* step, and one that follows new credentials with an adapter that uses them.
THEOREM ConnectsSettle == AccountsSpec => []ConnectSettles
<1>1. AccountsInv => ConnectSettles
  <2> SUFFICES ASSUME AccountsInv, NEW p \in Desks, At(p, "end"), op[p].alone,
                      op[p].kind \in {"connect", "creds"}
               PROVE  /\ registry[op[p].acct] # None
                      /\ \/ row[op[p].acct].pin \in {None, adapter[registry[op[p].acct]].pin}
                         \/ /\ op[p].bound = None
                            /\ adapter[registry[op[p].acct]].pin = Best(Subs)
                      /\ op[p].kind = "creds" =>
                           adapter[registry[op[p].acct]].cred = cred[op[p].acct]
    BY DEF ConnectSettles
  <2>1. p \in Procs /\ op[p].todo # <<>> /\ Head(op[p].todo) = "end"
    BY DEF Procs, At
  <2>2. ConnectAt(op[p]) /\ op[p].todo \in Seq(Names)
    BY <2>1 DEF AccountsInv, AccountsTypeOK, Operation, Connects
  <2>3. op[p].todo = EndOn /\ Served(op[p]) /\ Settled(op[p], row[op[p].acct].pin)
    BY <2>1, <2>2, ConnectStands
  <2> QED
    BY <2>3, AccountsAssumption DEF Served, Settled
<1> QED
  BY <1>1, AccountsBegin, AccountsKept, PTL DEF AccountsSpec
=============================================================================
