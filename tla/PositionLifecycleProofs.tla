---------------------- MODULE PositionLifecycleProofs ----------------------
(***************************************************************************)
(* Proofs about PositionLifecycle for any number of deals, rows and        *)
(* processes: the row of a live deal is not closed, and what closes earn   *)
(* is booked once.                                                         *)
(***************************************************************************)
EXTENDS PositionLifecycle, SumTheorems

\* The types of what the variables hold.
Row == [deal : Deals \cup {Nil}, status : {"none", "OPEN", "CLOSING", "CLOSED"},
        vol : Nat, pnl : Nat, sl : BOOLEAN]
Entry == [deal : Deals, vol : Nat, sl : BOOLEAN]
Op == [kind : Closing \cup Syncing \cup {"none"},
       at : {"idle", "assert", "mark", "call", "verify", "write", "credit",
             "read", "rows", "adopt"},
       id : Rows \cup {Nil}, mine : Row, ask : Nat, won : Nat, left : Nat,
       todo : SUBSET Rows, live : SUBSET Entry, adopt : SUBSET (Deals \cup {Nil})]

TypedDeals ==
  /\ vol \in [Deals -> Nat]
  /\ opened \in SUBSET Deals
  /\ stop \in [Deals -> BOOLEAN]
  /\ earned \in [Deals -> Nat]
  /\ filling \in SUBSET Deals
TypedBooks ==
  /\ pos \in [Rows -> Row]
  /\ today \in Nat
  /\ empties \in Nat
  /\ throws \in Nat /\ flakes \in Nat /\ crashes \in Nat
  /\ overlapped \in BOOLEAN
TypedOps == op \in [Procs -> Op]

\* Rows and volumes are of deals that were opened; a row not created is blank.
DealsKnown ==
  /\ \A d \in Deals : vol[d] > 0 => d \in opened
  /\ filling \subseteq opened
  /\ \A id \in Rows : IF pos[id].status = "none" THEN pos[id] = NoRow
                                                 ELSE pos[id].deal \in opened

\* A close, until it has written its result, is about the deal of its row, and it
\* comes to write that nothing is left only when the deal is gone.
CloseOK(o) == o.kind \in Closing =>
  /\ o.id \in Rows /\ o.at \in {"assert", "mark", "call", "verify", "write", "credit"}
  /\ o.at # "credit" => /\ pos[o.id].status # "none"
                        /\ o.mine.deal = pos[o.id].deal
  /\ o.at \in {"assert", "mark", "call", "verify"} => o.won = 0
  /\ o.at = "write" /\ o.left = 0 /\ flakes = 0 => vol[o.mine.deal] = 0

\* A pass has read its rows before the book: as long as no book was wrong, the
\* deal of a row still to visit was shown or is gone.
SyncOK(o) == o.kind \in Syncing =>
  /\ o.at \in {"read", "rows", "adopt"}
  /\ Shown(o.live) \subseteq opened
  /\ \A id \in o.todo :
       /\ pos[id].status # "none"
       /\ o.at # "read" /\ flakes = 0 => pos[id].deal \in Shown(o.live) \/ vol[pos[id].deal] = 0

OpOK(o) == (o.kind = "none" => o.at = "idle") /\ CloseOK(o) /\ SyncOK(o)
OpsOK == \A p \in Procs : OpOK(op[p])

\* No two closes are under way, and the profit the one has read is the row's.
Alone == ~overlapped => \A p, q \in Procs :
  op[p].kind \in Closing /\ op[q].kind \in Closing => p = q
Fresh == ~overlapped => \A p \in Procs :
  op[p].kind \in Closing /\ op[p].at # "credit" => op[p].mine.pnl = pos[op[p].id].pnl

LifeInv == TypedDeals /\ TypedBooks /\ TypedOps /\ DealsKnown /\ OpsOK
MoneyInv == LifeInv /\ Alone /\ Fresh /\ EarningsBooked

-----------------------------------------------------------------------------
(***************************************************************************)
(* What every step does to the state the operations rely on                *)
(***************************************************************************)
\* Deals once opened do not come back when they are gone, rows keep their deal,
\* and wrong books stay counted.
Onward ==
  /\ opened \subseteq opened'
  /\ flakes' = 0 => flakes = 0
  /\ \A d \in opened : vol[d] = 0 => vol'[d] = 0
  /\ \A id \in Rows : pos[id].status # "none" =>
       pos'[id].status # "none" /\ pos'[id].deal = pos[id].deal

\* An operation that has not moved stays in order.
LEMMA OpKept ==
  ASSUME NEW o \in Op, TypedDeals, TypedBooks, DealsKnown, Onward, OpOK(o)
  PROVE  OpOK(o)'
<1>1. CloseOK(o)'
  <2> SUFFICES ASSUME o.kind \in Closing PROVE CloseOK(o)'
    BY DEF CloseOK
  <2>1. CloseOK(o)
    BY DEF OpOK
  <2>2. o.at # "credit" => o.mine.deal \in opened
    BY <2>1 DEF CloseOK, DealsKnown
  <2> QED
    BY <2>1, <2>2 DEF CloseOK, Onward
<1>2. SyncOK(o)'
  <2> SUFFICES ASSUME o.kind \in Syncing PROVE SyncOK(o)'
    BY DEF SyncOK
  <2>1. SyncOK(o)
    BY DEF OpOK
  <2>2. \A id \in o.todo : id \in Rows /\ pos[id].deal \in opened
    BY <2>1 DEF SyncOK, DealsKnown, Op
  <2>3. Shown(o.live)' = Shown(o.live)
    BY DEF Shown
  <2> QED
    BY <2>1, <2>2, <2>3 DEF SyncOK, Onward
<1> QED
  BY <1>1, <1>2 DEF OpOK

\* What a step of process p comes to: it puts the operation of p in order, and
\* leaves those of the others alone.
Moves(p) ==
  /\ TypedDeals' /\ TypedBooks' /\ DealsKnown' /\ Onward
  /\ \E e \in Op : op' = [op EXCEPT ![p] = e] /\ OpOK(e)'

LEMMA MovesKeep ==
  ASSUME LifeInv, NEW p \in Procs, Moves(p)
  PROVE  LifeInv'
<1>1. PICK e \in Op : op' = [op EXCEPT ![p] = e] /\ OpOK(e)'
  BY DEF Moves
<1>2. TypedOps'
  BY <1>1 DEF LifeInv, TypedOps
<1>3. ASSUME NEW q \in Procs PROVE OpOK(op[q])'
  <2>1. CASE q = p
    <3>1. op'[q] = e
      BY <1>1, <2>1 DEF LifeInv, TypedOps
    <3> QED
      BY <1>1, <3>1 DEF OpOK, CloseOK, SyncOK, Shown
  <2>2. CASE q # p
    <3>1. op'[q] = op[q] /\ op[q] \in Op
      BY <1>1, <2>2 DEF LifeInv, TypedOps
    <3> PICK o \in Op : o = op[q]
      BY <3>1
    <3>2. OpOK(o)
      BY DEF LifeInv, OpsOK
    <3>3. OpOK(o)'
      BY <3>2, OpKept DEF LifeInv, Moves
    <3> QED
      BY <3>1, <3>3 DEF OpOK, CloseOK, SyncOK, Shown
  <2> QED
    BY <2>1, <2>2
<1> QED
  BY <1>2, <1>3 DEF LifeInv, Moves, OpsOK

-----------------------------------------------------------------------------
(***************************************************************************)
(* The steps of an operation                                               *)
(***************************************************************************)
\* An operation that is over is in order.
LEMMA IdleOK == Idle \in Op /\ OpOK(Idle)'
BY LifecycleAssumption DEF Idle, NoRow, Op, Row, OpOK, CloseOK, SyncOK, Closing, Syncing

\* Only the operation of p moves, and it stays in order.
LEMMA OpMoves ==
  ASSUME LifeInv, NEW p \in Procs,
         NEW e \in Op, op' = [op EXCEPT ![p] = e], OpOK(e)',
         UNCHANGED <<deals, pos, today, empties, filling>>,
         throws' \in Nat, flakes' \in Nat, crashes' \in Nat, overlapped' \in BOOLEAN,
         flakes' = 0 => flakes = 0
  PROVE  Moves(p)
<1>1. TypedDeals' /\ DealsKnown'
  BY DEF LifeInv, TypedDeals, DealsKnown, deals
<1>2. TypedBooks'
  BY DEF LifeInv, TypedBooks
<1>3. Onward
  BY DEF LifeInv, TypedDeals, Onward, deals
<1> QED
  BY <1>1, <1>2, <1>3 DEF Moves

\* A read of the book, or a call that throws, counts its faults.
LEMMA FaultsCounted ==
  /\ TypedBooks /\ UNCHANGED faults =>
       /\ throws' \in Nat /\ flakes' \in Nat /\ crashes' \in Nat /\ overlapped' \in BOOLEAN
       /\ flakes' = flakes
  /\ TypedBooks /\ Throws =>
       /\ throws' \in Nat /\ flakes' \in Nat /\ crashes' \in Nat /\ overlapped' \in BOOLEAN
       /\ flakes' = flakes /\ overlapped' = overlapped
  /\ \A live : TypedBooks /\ Reads(live) =>
       /\ throws' \in Nat /\ flakes' \in Nat /\ crashes' \in Nat /\ overlapped' \in BOOLEAN
       /\ flakes' = 0 => flakes = 0 /\ live = Book
       /\ overlapped' = overlapped /\ throws' = throws /\ crashes' = crashes
BY DEF TypedBooks, faults, Throws, Reads

\* The book shows deals that are open.
LEMMA BookShows ==
  ASSUME LifeInv
  PROVE  /\ Book \in SUBSET Entry /\ {} \in SUBSET Entry
         /\ Shown(Book) = OpenDeals /\ Shown({}) = {}
         /\ Shown(Book) \subseteq opened
<1>1. Book \in SUBSET Entry
  BY DEF Book, Entry, OpenDeals, LifeInv, TypedDeals
<1>2. Shown(Book) = OpenDeals
  <2>1. \A d \in OpenDeals : d \in Shown(Book)
    <3> TAKE d \in OpenDeals
    <3> DEFINE b == [deal |-> d, vol |-> vol[d], sl |-> stop[d]]
    <3>1. b \in Book /\ b.deal = d
      BY DEF Book
    <3> QED
      BY <3>1 DEF Shown
  <2>2. \A b \in Book : b.deal \in OpenDeals
    BY DEF Book
  <2> QED
    BY <2>1, <2>2 DEF Shown
<1>3. OpenDeals \subseteq opened
  BY DEF OpenDeals, LifeInv, DealsKnown
<1>4. Shown({}) = {}
  BY DEF Shown
<1> QED
  BY <1>1, <1>2, <1>3, <1>4

\* What a close knows of its row and deal until it has written its result.
LEMMA ClosesKnow ==
  ASSUME LifeInv, NEW p \in Procs, op[p].kind \in Closing, op[p].at # "credit"
  PROVE  /\ op[p].id \in Rows /\ pos[op[p].id] \in Row /\ pos[op[p].id].status # "none"
         /\ op[p].mine.deal = pos[op[p].id].deal /\ op[p].mine.deal \in opened
         /\ op[p].mine.deal \in Deals
BY DEF LifeInv, OpsOK, OpOK, CloseOK, DealsKnown, TypedDeals, TypedBooks

LEMMA BeginCloseMoves ==
  ASSUME LifeInv, NEW p \in Procs, NEW kind, NEW id \in Rows, NEW ask \in 1..Full,
         BeginClose(p, kind, id, ask)
  PROVE  Moves(p)
<1>5. ASSUME NEW x,
             x = [Idle EXCEPT !.kind = kind, !.at = "assert", !.id = id, !.mine = pos[id],
                              !.ask = ask]
      PROVE  x = [kind |-> kind, at |-> "assert", id |-> id, mine |-> pos[id], ask |-> ask,
                  won |-> 0, left |-> 0, todo |-> {}, live |-> {}, adopt |-> {}]
  BY <1>5 DEF Idle
<1>6. [Idle EXCEPT !.kind = kind, !.at = "assert", !.id = id, !.mine = pos[id], !.ask = ask]
        = [kind |-> kind, at |-> "assert", id |-> id, mine |-> pos[id], ask |-> ask,
           won |-> 0, left |-> 0, todo |-> {}, live |-> {}, adopt |-> {}]
  BY <1>5
<1> PICK e : e = [kind |-> kind, at |-> "assert", id |-> id, mine |-> pos[id], ask |-> ask,
                  won |-> 0, left |-> 0, todo |-> {}, live |-> {}, adopt |-> {}]
  OBVIOUS
<1>1. kind \in Closing /\ pos[id] \in Row /\ pos[id].status # "none"
  BY DEF BeginClose, LifeInv, TypedBooks
<1>2. op' = [op EXCEPT ![p] = e]
  BY <1>6 DEF BeginClose
<1>3. e \in Op
  <2>1. ask \in Nat
    BY LifecycleAssumption
  <2> QED
    BY <1>1, <2>1 DEF Op
<1>4. OpOK(e)'
  <2>1. kind \notin Syncing /\ kind # "none"
    BY <1>1 DEF Closing, Syncing
  <2>2. pos' = pos
    BY DEF BeginClose
  <2> QED
    BY <1>1, <2>1, <2>2 DEF OpOK, CloseOK, SyncOK
<1>7. overlapped' \in BOOLEAN
  BY DEF BeginClose, LifeInv, TypedBooks
<1> QED
  BY <1>2, <1>3, <1>4, <1>7, OpMoves DEF BeginClose, LifeInv, TypedBooks

\* A close that moves on to a step that relies on no more than the last.
LEMMA CloseGoes ==
  ASSUME LifeInv, NEW p \in Procs, op[p].kind \in Closing, op[p].at # "credit",
         op[p].won = 0, NEW there \in {"mark", "call", "verify"}, NEW e,
         e = [op[p] EXCEPT !.at = there],
         Onward
  PROVE  e \in Op /\ OpOK(e)'
<1>1. op[p] \in Op
  BY DEF LifeInv, TypedOps
<1>2. e \in Op
  BY <1>1 DEF Op
<1>3. OpOK(e)
  BY <1>1, ClosesKnow DEF OpOK, CloseOK, SyncOK, Closing, Syncing, Op
<1> QED
  BY <1>2, <1>3, OpKept DEF LifeInv

LEMMA AssertStopLossMoves ==
  ASSUME LifeInv, NEW p \in Procs, AssertStopLoss(p)
  PROVE  Moves(p)
<1>1. op[p].kind \in Closing /\ op[p].at = "assert"
  BY DEF AssertStopLoss, At
<1>2. op[p].won = 0
  BY <1>1 DEF LifeInv, OpsOK, OpOK, CloseOK
<1> PICK e : e = [op[p] EXCEPT !.at = "mark"]
  OBVIOUS
<1>3. op' = [op EXCEPT ![p] = e] \/ op' = [op EXCEPT ![p] = Idle]
  BY DEF AssertStopLoss, Goto, Finish, LifeInv, TypedOps
<1>4. /\ throws' \in Nat /\ flakes' \in Nat /\ crashes' \in Nat /\ overlapped' \in BOOLEAN
      /\ flakes' = 0 => flakes = 0
  BY FaultsCounted DEF AssertStopLoss, LifeInv
<1>5. UNCHANGED <<deals, pos, today, empties, filling>>
  BY DEF AssertStopLoss
<1>6. Onward
  BY <1>4, <1>5 DEF Onward, LifeInv, TypedDeals, deals
<1>7. e \in Op /\ OpOK(e)'
  BY <1>1, <1>2, <1>6, CloseGoes
<1> QED
  BY <1>3, <1>4, <1>5, <1>7, IdleOK, OpMoves

\* A row that is written keeps its deal, or takes one that was opened.
LEMMA RowMoves ==
  ASSUME LifeInv, NEW i \in Rows, NEW r \in Row, pos' = [pos EXCEPT ![i] = r],
         r.status # "none", r.deal \in opened, pos[i].status # "none" => r.deal = pos[i].deal,
         UNCHANGED <<deals, today, empties>>, filling' \in SUBSET filling,
         throws' \in Nat, flakes' \in Nat, crashes' \in Nat, overlapped' \in BOOLEAN,
         flakes' = 0 => flakes = 0
  PROVE  TypedDeals' /\ TypedBooks' /\ DealsKnown' /\ Onward
<1>1. TypedDeals'
  BY DEF LifeInv, TypedDeals, deals
<1>2. TypedBooks'
  BY DEF LifeInv, TypedBooks
<1>3. \A id \in Rows : pos'[id] = IF id = i THEN r ELSE pos[id]
  BY DEF LifeInv, TypedBooks
<1>4. DealsKnown'
  BY <1>3 DEF LifeInv, DealsKnown, deals
<1>5. Onward
  BY <1>3 DEF LifeInv, TypedDeals, Onward, deals
<1> QED
  BY <1>1, <1>2, <1>4, <1>5

LEMMA MarkClosingMoves ==
  ASSUME LifeInv, NEW p \in Procs, MarkClosing(p)
  PROVE  Moves(p)
<1>1. op[p].kind \in Closing /\ op[p].at = "mark"
  BY DEF MarkClosing, At
<1>2. op[p].won = 0
  BY <1>1 DEF LifeInv, OpsOK, OpOK, CloseOK
<1> PICK e : e = [op[p] EXCEPT !.at = "call"]
  OBVIOUS
<1>3. op' = [op EXCEPT ![p] = e]
  BY DEF MarkClosing, Goto, LifeInv, TypedOps
<1> PICK i \in Rows : i = op[p].id
  BY <1>1, ClosesKnow
<1>4. pos[i] \in Row /\ pos[i].status # "none" /\ pos[i].deal \in opened
  BY <1>1, ClosesKnow
<1> PICK r : r = [pos[i] EXCEPT !.status = "CLOSING"]
  OBVIOUS
<1>5. pos' = [pos EXCEPT ![i] = r]
  BY DEF MarkClosing, LifeInv, TypedBooks
<1>6. r \in Row /\ r.status # "none" /\ r.deal = pos[i].deal
  BY <1>4 DEF Row
<1>7. TypedDeals' /\ TypedBooks' /\ DealsKnown' /\ Onward
  BY <1>4, <1>5, <1>6, FaultsCounted, RowMoves DEF MarkClosing, LifeInv
<1>8. e \in Op /\ OpOK(e)'
  BY <1>1, <1>2, <1>7, CloseGoes
<1> QED
  BY <1>3, <1>7, <1>8 DEF Moves

LEMMA CallBrokerMoves ==
  ASSUME LifeInv, NEW p \in Procs, CallBroker(p)
  PROVE  Moves(p)
<1>1. op[p].kind \in Closing /\ op[p].at = "call"
  BY DEF CallBroker, At
<1>2. op[p].won = 0 /\ op[p] \in Op
  BY <1>1 DEF LifeInv, OpsOK, OpOK, CloseOK, TypedOps
<1> PICK d \in Deals : d = op[p].mine.deal
  BY <1>1, ClosesKnow
<1>3. d \in opened /\ vol[d] \in Nat
  BY <1>1, ClosesKnow DEF LifeInv, TypedDeals
<1> PICK n : n = Asked(p)
  OBVIOUS
<1>4. n \in Nat /\ n <= vol[d]
  BY <1>2, <1>3 DEF Asked, Op
<1>5. UNCHANGED <<opened, stop, pos, today, empties, filling>>
  BY DEF CallBroker
<1>6. ASSUME n > 0, vol' = [vol EXCEPT ![d] = @ - n], earned' = [earned EXCEPT ![d] = @ + n],
             throws' \in Nat, flakes' = flakes, crashes' \in Nat, overlapped' \in BOOLEAN
      PROVE  TypedDeals' /\ TypedBooks' /\ DealsKnown' /\ Onward
  <2>1. vol' = [vol EXCEPT ![d] = vol[d] - n] /\ vol[d] - n \in Nat
    BY <1>3, <1>4, <1>6
  <2>2. earned' = [earned EXCEPT ![d] = earned[d] + n] /\ earned[d] + n \in Nat
    BY <1>4, <1>6 DEF LifeInv, TypedDeals
  <2>3. TypedDeals'
    BY <1>5, <2>1, <2>2 DEF LifeInv, TypedDeals
  <2>4. TypedBooks'
    BY <1>5, <1>6 DEF LifeInv, TypedBooks
  <2>5. DealsKnown'
    BY <1>3, <1>5, <2>1 DEF LifeInv, TypedDeals, DealsKnown
  <2>6. Onward
    BY <1>4, <1>5, <1>6, <2>1 DEF LifeInv, TypedDeals, Onward
  <2> QED
    BY <2>3, <2>4, <2>5, <2>6
<1>7. CASE n > 0 /\ UNCHANGED faults /\ op' = [op EXCEPT ![p].at = "write", ![p].won = n,
                                                        ![p].left = vol[d] - n]
           /\ vol' = [vol EXCEPT ![d] = @ - n] /\ earned' = [earned EXCEPT ![d] = @ + n]
  <2> PICK f : f = [op[p] EXCEPT !.at = "write", !.won = n, !.left = vol[d] - n]
    OBVIOUS
  <2>1. op' = [op EXCEPT ![p] = f]
    BY <1>7 DEF LifeInv, TypedOps
  <2>2. TypedDeals' /\ TypedBooks' /\ DealsKnown' /\ Onward
    BY <1>6, <1>7, FaultsCounted DEF LifeInv
  <2>3. f \in Op
    <3>1. vol[d] - n \in Nat
      BY <1>3, <1>4
    <3> QED
      BY <1>2, <1>4, <3>1 DEF Op
  <2>4. f.kind = op[p].kind /\ f.id = op[p].id /\ f.mine = op[p].mine /\ f.at = "write"
        /\ f.left = vol[d] - n
    BY <1>2 DEF Op
  <2>5. pos' = pos /\ vol'[d] = vol[d] - n
    BY <1>5, <1>7 DEF LifeInv, TypedDeals
  <2>6. OpOK(f)'
    BY <1>1, <2>4, <2>5, ClosesKnow DEF OpOK, CloseOK, SyncOK, Closing, Syncing
  <2> QED
    BY <2>1, <2>2, <2>3, <2>6 DEF Moves
<1>8. CASE Goto(p, "verify")
  <2> PICK e : e = [op[p] EXCEPT !.at = "verify"]
    OBVIOUS
  <2>1. op' = [op EXCEPT ![p] = e]
    BY <1>8 DEF Goto, LifeInv, TypedOps
  <2>2. TypedDeals' /\ TypedBooks' /\ DealsKnown' /\ Onward
    <3>1. CASE n > 0 /\ vol' = [vol EXCEPT ![d] = @ - n] /\ earned' = [earned EXCEPT ![d] = @ + n]
                /\ Throws
      BY <1>6, <3>1, FaultsCounted DEF LifeInv
    <3>2. CASE UNCHANGED <<vol, earned>> /\ (UNCHANGED faults \/ Throws)
      <4>1. throws' \in Nat /\ flakes' = flakes /\ crashes' \in Nat /\ overlapped' \in BOOLEAN
        BY <3>2, FaultsCounted DEF LifeInv
      <4> QED
        BY <1>5, <3>2, <4>1 DEF LifeInv, TypedDeals, TypedBooks, DealsKnown, Onward
    <3>3. op'[p].at = "verify"
      BY <1>2, <2>1 DEF Op, LifeInv, TypedOps
    <3>4. op' # [op EXCEPT ![p].at = "write", ![p].won = n, ![p].left = vol[d] - n]
      <4> SUFFICES ASSUME op' = [op EXCEPT ![p].at = "write", ![p].won = n, ![p].left = vol[d] - n]
                   PROVE  FALSE
        OBVIOUS
      <4> PICK f : f = [op[p] EXCEPT !.at = "write", !.won = n, !.left = vol[d] - n]
        OBVIOUS
      <4>1. op' = [op EXCEPT ![p] = f]
        BY DEF LifeInv, TypedOps
      <4>2. f.at = "write"
        BY <1>2 DEF Op
      <4> QED
        BY <3>3, <4>1, <4>2 DEF LifeInv, TypedOps
    <3> QED
      BY <3>1, <3>2, <3>4 DEF CallBroker
  <2>3. e \in Op /\ OpOK(e)'
    BY <1>1, <1>2, <2>2, CloseGoes
  <2> QED
    BY <2>1, <2>2, <2>3 DEF Moves
<1> QED
  BY <1>7, <1>8 DEF CallBroker

LEMMA VerifyCloseMoves ==
  ASSUME LifeInv, NEW p \in Procs, VerifyClose(p)
  PROVE  Moves(p)
<1>1. op[p].kind \in Closing /\ op[p].at = "verify"
  BY DEF VerifyClose, At, Closing
<1>2. op[p].won = 0 /\ op[p] \in Op
  BY <1>1 DEF LifeInv, OpsOK, OpOK, CloseOK, TypedOps
<1> PICK d \in Deals : d = op[p].mine.deal
  BY <1>1, ClosesKnow
<1> PICK i \in Rows : i = op[p].id
  BY <1>1, ClosesKnow
<1>3. pos[i] \in Row /\ pos[i].status # "none" /\ pos[i].deal = d /\ d \in opened
  BY <1>1, ClosesKnow
<1>4. UNCHANGED <<deals, today, empties, filling>>
  BY DEF VerifyClose
<1>5. /\ throws' \in Nat /\ flakes' \in Nat /\ crashes' \in Nat /\ overlapped' \in BOOLEAN
      /\ flakes' = 0 => flakes = 0
  BY FaultsCounted DEF VerifyClose, LifeInv
<1>6. CASE pos' = [pos EXCEPT ![i].status = "OPEN"] /\ Finish(p)
  <2> PICK r : r = [pos[i] EXCEPT !.status = "OPEN"]
    OBVIOUS
  <2>1. pos' = [pos EXCEPT ![i] = r]
    BY <1>6 DEF LifeInv, TypedBooks
  <2>2. r \in Row /\ r.status # "none" /\ r.deal = pos[i].deal /\ r.deal \in opened
    BY <1>3 DEF Row
  <2>3. filling' \in SUBSET filling /\ UNCHANGED <<deals, today, empties>>
    BY <1>4
  <2>4. TypedDeals' /\ TypedBooks' /\ DealsKnown' /\ Onward
    BY ONLY LifeInv, i \in Rows, <1>5, <2>1, <2>2, <2>3, RowMoves
  <2> QED
    BY <1>6, <2>4, IdleOK DEF Moves, Finish
<1>7. CASE /\ Goto(p, "write") /\ UNCHANGED pos
           /\ \E live : Reads(live) /\ d \notin Shown(live)
  <2> PICK live : Reads(live) /\ d \notin Shown(live)
    BY <1>7
  <2> PICK e : e = [op[p] EXCEPT !.at = "write"]
    OBVIOUS
  <2>1. op' = [op EXCEPT ![p] = e]
    BY <1>7 DEF Goto, LifeInv, TypedOps
  <2>2. e \in Op
    BY <1>2 DEF Op
  <2>3. e.kind = op[p].kind /\ e.id = op[p].id /\ e.mine = op[p].mine /\ e.at = "write"
    BY <1>2 DEF Op
  <2>4. flakes' = 0 => vol[d] = 0
    BY FaultsCounted, BookShows DEF LifeInv, TypedDeals, OpenDeals
  <2>5. pos' = pos /\ vol' = vol
    BY <1>4, <1>7 DEF deals
  <2>6. OpOK(e)'
    BY <1>1, <2>3, <2>4, <2>5, ClosesKnow DEF OpOK, CloseOK, SyncOK, Closing, Syncing
  <2> QED
    BY <1>4, <1>5, <1>7, <2>1, <2>2, <2>6, OpMoves
<1> QED
  BY <1>6, <1>7 DEF VerifyClose

LEMMA VerifyPartialMoves ==
  ASSUME LifeInv, NEW p \in Procs, VerifyPartial(p)
  PROVE  Moves(p)
<1>1. op[p].kind \in Closing /\ op[p].at = "verify"
  BY DEF VerifyPartial, At, Closing
<1>2. op[p] \in Op
  BY DEF LifeInv, TypedOps
<1> PICK i \in Rows : i = op[p].id
  BY <1>1, ClosesKnow
<1>3. pos[i] \in Row /\ pos[i].status # "none" /\ pos[i].deal \in opened
  BY <1>1, ClosesKnow
<1>4. UNCHANGED <<deals, today, empties, filling>>
  BY DEF VerifyPartial
<1>5. /\ throws' \in Nat /\ flakes' \in Nat /\ crashes' \in Nat /\ overlapped' \in BOOLEAN
      /\ flakes' = 0 => flakes = 0
  BY FaultsCounted DEF VerifyPartial, LifeInv
<1>6. op' = [op EXCEPT ![p] = Idle]
  BY DEF VerifyPartial, Finish
<1>7. \E r \in Row : pos' = [pos EXCEPT ![i] = r] /\ r.status # "none" /\ r.deal = pos[i].deal
  <2>1. CASE pos' = [pos EXCEPT ![i].status = "OPEN"]
    <3> PICK r : r = [pos[i] EXCEPT !.status = "OPEN"]
      OBVIOUS
    <3>1. pos' = [pos EXCEPT ![i] = r]
      BY <2>1 DEF LifeInv, TypedBooks
    <3>2. r \in Row /\ r.status # "none" /\ r.deal = pos[i].deal
      BY <1>3 DEF Row
    <3> QED
      BY <3>1, <3>2
  <2>2. ASSUME NEW s \in {"OPEN", "CLOSED"}, NEW v \in Nat,
               pos' = [pos EXCEPT ![i].status = s, ![i].vol = v]
        PROVE  \E r \in Row : pos' = [pos EXCEPT ![i] = r] /\ r.status # "none"
                              /\ r.deal = pos[i].deal
    <3> PICK r : r = [pos[i] EXCEPT !.status = s, !.vol = v]
      OBVIOUS
    <3>1. pos' = [pos EXCEPT ![i] = r]
      BY <2>2 DEF LifeInv, TypedBooks
    <3>2. r \in Row /\ r.status # "none" /\ r.deal = pos[i].deal
      BY <1>3 DEF Row
    <3> QED
      BY <3>1, <3>2
  <2>3. op[p].mine.vol \in Nat
    BY <1>2 DEF Op, Row
  <2> QED
    BY <2>1, <2>2, <2>3 DEF VerifyPartial
<1> PICK r \in Row : pos' = [pos EXCEPT ![i] = r] /\ r.status # "none" /\ r.deal = pos[i].deal
  BY <1>7
<1>8. TypedDeals' /\ TypedBooks' /\ DealsKnown' /\ Onward
  BY <1>3, <1>4, <1>5, RowMoves
<1> QED
  BY <1>6, <1>8, IdleOK DEF Moves

\* What a result makes of the row.
Written(r, o) == [r EXCEPT !.status = IF o.left = 0 THEN "CLOSED" ELSE "OPEN",
                           !.vol = o.left, !.pnl = o.mine.pnl + o.won]

LEMMA WriteResultMoves ==
  ASSUME LifeInv, NEW p \in Procs, WriteResult(p)
  PROVE  /\ Moves(p)
         /\ pos' = [pos EXCEPT ![op[p].id] = Written(pos[op[p].id], op[p])]
         /\ Written(pos[op[p].id], op[p]) \in Row
<1>1. op[p].kind \in Closing /\ op[p].at = "write"
  BY DEF WriteResult, At
<1>2. op[p] \in Op
  BY DEF LifeInv, TypedOps
<1> PICK i \in Rows : i = op[p].id
  BY <1>1, ClosesKnow
<1>3. pos[i] \in Row /\ pos[i].status # "none" /\ pos[i].deal \in opened
  BY <1>1, ClosesKnow
<1> PICK r : r = Written(pos[i], op[p])
  OBVIOUS
<1>4. pos' = [pos EXCEPT ![i] = r]
  BY DEF WriteResult, LifeInv, TypedBooks, Written
<1>5. r \in Row /\ r.status # "none" /\ r.deal = pos[i].deal
  <2>1. op[p].left \in Nat /\ op[p].mine.pnl + op[p].won \in Nat
    BY <1>2 DEF Op, Row
  <2> QED
    BY <1>3, <2>1 DEF Row, Written
<1>6. TypedDeals' /\ TypedBooks' /\ DealsKnown' /\ Onward
  BY <1>3, <1>4, <1>5, FaultsCounted, RowMoves DEF WriteResult, LifeInv
<1> PICK e : e = [op[p] EXCEPT !.at = "credit", !.mine = NoRow, !.ask = 0, !.left = 0]
  OBVIOUS
<1>7. op' = [op EXCEPT ![p] = e]
  BY DEF WriteResult, LifeInv, TypedOps
<1>8. e \in Op
  BY <1>2 DEF Op, Row, NoRow
<1>9. OpOK(e)'
  BY <1>1, <1>2 DEF Op, OpOK, CloseOK, SyncOK, Closing, Syncing
<1> QED
  BY <1>4, <1>5, <1>6, <1>7, <1>8, <1>9 DEF Moves

LEMMA CreditAccountMoves ==
  ASSUME LifeInv, NEW p \in Procs, CreditAccount(p)
  PROVE  Moves(p)
<1>1. today' \in Nat
  BY DEF CreditAccount, LifeInv, TypedBooks, TypedOps, Op
<1>2. TypedDeals' /\ TypedBooks' /\ DealsKnown' /\ Onward
  BY <1>1 DEF CreditAccount, LifeInv, TypedDeals, TypedBooks, DealsKnown, Onward, deals, faults
<1> QED
  BY <1>2, IdleOK DEF CreditAccount, Finish, Moves

LEMMA BeginSyncMoves ==
  ASSUME LifeInv, NEW p \in Procs, NEW kind, BeginSync(p, kind)
  PROVE  Moves(p)
<1>1. kind \in Syncing
  BY DEF BeginSync
<1>2. ASSUME NEW x, x = [Idle EXCEPT !.kind = kind, !.at = "read", !.todo = ActiveRows]
      PROVE  x = [kind |-> kind, at |-> "read", id |-> Nil, mine |-> NoRow, ask |-> 0,
                  won |-> 0, left |-> 0, todo |-> ActiveRows, live |-> {}, adopt |-> {}]
  BY <1>2 DEF Idle
<1>3. [Idle EXCEPT !.kind = kind, !.at = "read", !.todo = ActiveRows]
        = [kind |-> kind, at |-> "read", id |-> Nil, mine |-> NoRow, ask |-> 0,
           won |-> 0, left |-> 0, todo |-> ActiveRows, live |-> {}, adopt |-> {}]
  BY <1>2
<1> PICK rows \in SUBSET Rows : rows = ActiveRows
  BY DEF ActiveRows
<1> PICK e : e = [kind |-> kind, at |-> "read", id |-> Nil, mine |-> NoRow, ask |-> 0,
                  won |-> 0, left |-> 0, todo |-> rows, live |-> {}, adopt |-> {}]
  OBVIOUS
<1>4. op' = [op EXCEPT ![p] = e]
  BY <1>3 DEF BeginSync
<1>5. e \in Op
  <2>1. NoRow \in Row
    BY DEF NoRow, Row
  <2> QED
    BY <1>1, <2>1 DEF Op
<1>6. UNCHANGED <<deals, pos, today, empties, filling, faults>>
  BY DEF BeginSync
<1>7. OpOK(e)'
  <2>1. kind \notin Closing /\ kind # "none"
    BY <1>1 DEF Closing, Syncing
  <2>2. \A id \in rows : pos'[id].status # "none"
    BY <1>6 DEF ActiveRows, ActiveStatus
  <2>3. Shown({})' = {}
    BY DEF Shown
  <2> QED
    BY <2>1, <2>2, <2>3 DEF OpOK, CloseOK, SyncOK
<1> QED
  BY <1>4, <1>5, <1>6, <1>7, OpMoves, FaultsCounted DEF LifeInv

\* A pass that goes on with the same book and no more rows stays in order.
LEMMA SyncGoes ==
  ASSUME LifeInv, NEW p \in Procs, op[p].kind \in Syncing, op[p].at # "read", NEW e \in Op,
         e.kind = op[p].kind, e.at \in {"rows", "adopt"}, e.live = op[p].live,
         e.todo \subseteq op[p].todo, Onward
  PROVE  OpOK(e)'
<1>1. op[p] \in Op /\ SyncOK(op[p])
  BY DEF LifeInv, TypedOps, OpsOK, OpOK
<1>2. SyncOK(e)
  BY <1>1 DEF SyncOK, Op
<1>3. OpOK(e)
  BY <1>1, <1>2 DEF OpOK, CloseOK, Closing, Syncing
<1> QED
  BY <1>3, OpKept DEF LifeInv

LEMMA ReadBookMoves ==
  ASSUME LifeInv, NEW p \in Procs, ReadBook(p)
  PROVE  Moves(p)
<1>1. op[p].kind \in Syncing /\ op[p].at = "read" /\ op[p] \in Op
  BY DEF ReadBook, At, LifeInv, TypedOps
<1>2. UNCHANGED <<deals, pos, today, filling>>
  BY DEF ReadBook
<1>3. /\ throws' \in Nat /\ flakes' \in Nat /\ crashes' \in Nat /\ overlapped' \in BOOLEAN
      /\ flakes' = 0 => flakes = 0
  BY FaultsCounted DEF ReadBook, LifeInv
<1>4. empties' \in Nat
  <2>1. EmptyLimit \in Nat /\ empties \in Nat
    BY LifecycleAssumption DEF LifeInv, TypedBooks
  <2> QED
    BY <2>1 DEF ReadBook
<1>5. TypedDeals' /\ TypedBooks' /\ DealsKnown' /\ Onward
  BY <1>2, <1>3, <1>4 DEF LifeInv, TypedDeals, TypedBooks, DealsKnown, Onward, deals
<1>6. CASE Finish(p)
  BY <1>5, <1>6, IdleOK DEF Moves, Finish
<1>7. ASSUME NEW live \in {Book, {}}, Reads(live),
             op' = [op EXCEPT ![p].at = "rows", ![p].live = live,
                              ![p].adopt = Shown(live) \ {pos[id].deal : id \in op[p].todo}]
      PROVE  Moves(p)
  <2> PICK new : new = Shown(live) \ {pos[id].deal : id \in op[p].todo}
    OBVIOUS
  <2>1. live \in SUBSET Entry /\ Shown(live) \subseteq opened
    BY BookShows
  <2>2. new \in SUBSET (Deals \cup {Nil})
    BY <2>1 DEF LifeInv, TypedDeals
  <2> PICK e : e = [op[p] EXCEPT !.at = "rows", !.live = live, !.adopt = new]
    OBVIOUS
  <2>3. op' = [op EXCEPT ![p] = e]
    BY <1>7 DEF LifeInv, TypedOps
  <2>4. e \in Op
    BY <1>1, <2>1, <2>2 DEF Op
  <2>5. e.kind = op[p].kind /\ e.at = "rows" /\ e.live = live /\ e.todo = op[p].todo
    BY <1>1 DEF Op
  <2>6. \A id \in op[p].todo : pos[id].status # "none" /\ pos[id].deal \in opened
    BY <1>1 DEF LifeInv, OpsOK, OpOK, SyncOK, DealsKnown, Op
  <2>7. flakes' = 0 => \A d \in opened : d \in Shown(live) \/ vol[d] = 0
    BY <1>7, FaultsCounted, BookShows DEF LifeInv, TypedDeals, OpenDeals
  <2>8. SyncOK(e)'
    BY <1>2, <2>1, <2>5, <2>6, <2>7 DEF SyncOK, deals, Shown
  <2>9. OpOK(e)'
    BY <1>1, <2>5, <2>8 DEF OpOK, CloseOK, Closing, Syncing
  <2> QED
    BY <1>5, <2>3, <2>4, <2>9 DEF Moves
<1> QED
  BY <1>6, <1>7 DEF ReadBook

LEMMA VisitRowMoves ==
  ASSUME LifeInv, NEW p \in Procs, NEW id \in Rows, VisitRow(p, id)
  PROVE  Moves(p)
<1>1. op[p].kind \in Syncing /\ op[p].at = "rows" /\ op[p] \in Op /\ id \in op[p].todo
  BY DEF VisitRow, At, LifeInv, TypedOps
<1>2. pos[id] \in Row /\ pos[id].status # "none" /\ pos[id].deal \in opened
  BY <1>1 DEF LifeInv, TypedBooks, OpsOK, OpOK, SyncOK, DealsKnown
<1>3. UNCHANGED <<deals, today, empties, filling, faults>>
  BY DEF VisitRow
<1>4. UNCHANGED pos \/
      \E r \in Row : pos' = [pos EXCEPT ![id] = r] /\ r.status # "none" /\ r.deal = pos[id].deal
  <2>1. ASSUME NEW b \in op[p].live, pos' = [pos EXCEPT ![id] = Refreshed(@, b)]
        PROVE  \E r \in Row : pos' = [pos EXCEPT ![id] = r] /\ r.status # "none"
                              /\ r.deal = pos[id].deal
    <3> PICK r : r = Refreshed(pos[id], b)
      OBVIOUS
    <3>1. b \in Entry
      BY <1>1 DEF Op
    <3>2. r \in Row /\ r.status # "none" /\ r.deal = pos[id].deal
      BY <1>2, <3>1 DEF Refreshed, Row, Entry
    <3> QED
      BY <2>1, <3>2
  <2>2. ASSUME pos' = [pos EXCEPT ![id].status = "CLOSED", ![id].vol = 0]
        PROVE  \E r \in Row : pos' = [pos EXCEPT ![id] = r] /\ r.status # "none"
                              /\ r.deal = pos[id].deal
    <3> PICK r : r = [pos[id] EXCEPT !.status = "CLOSED", !.vol = 0]
      OBVIOUS
    <3>1. pos' = [pos EXCEPT ![id] = r]
      BY <2>2 DEF LifeInv, TypedBooks
    <3>2. r \in Row /\ r.status # "none" /\ r.deal = pos[id].deal
      BY <1>2 DEF Row
    <3> QED
      BY <3>1, <3>2
  <2> QED
    BY <2>1, <2>2 DEF VisitRow
<1>5. TypedDeals' /\ TypedBooks' /\ DealsKnown' /\ Onward
  <2>1. CASE UNCHANGED pos
    BY <1>3, <2>1 DEF LifeInv, TypedDeals, TypedBooks, DealsKnown, Onward, deals, faults
  <2>2. ASSUME NEW r \in Row, pos' = [pos EXCEPT ![id] = r], r.status # "none",
               r.deal = pos[id].deal
        PROVE  TypedDeals' /\ TypedBooks' /\ DealsKnown' /\ Onward
    BY <1>2, <1>3, <2>2, FaultsCounted, RowMoves DEF LifeInv
  <2> QED
    BY <1>4, <2>1, <2>2
<1> PICK e : e = [op[p] EXCEPT !.todo = op[p].todo \ {id}]
  OBVIOUS
<1>6. op' = [op EXCEPT ![p] = e]
  BY DEF VisitRow, LifeInv, TypedOps
<1>7. e \in Op /\ e.kind = op[p].kind /\ e.at = "rows" /\ e.live = op[p].live
      /\ e.todo \subseteq op[p].todo
  BY <1>1 DEF Op
<1>8. OpOK(e)'
  BY <1>1, <1>5, <1>7, SyncGoes
<1> QED
  BY <1>5, <1>6, <1>7, <1>8 DEF Moves

LEMMA CheckAdoptMoves ==
  ASSUME LifeInv, NEW p \in Procs, NEW d \in Deals, CheckAdopt(p, d)
  PROVE  Moves(p)
<1>1. op[p].kind \in Syncing /\ op[p].at = "rows" /\ op[p] \in Op
  BY DEF CheckAdopt, At, Syncing, LifeInv, TypedOps
<1>2. UNCHANGED <<deals, pos, today, empties, filling, faults>>
  BY DEF CheckAdopt
<1>3. Onward
  BY <1>2 DEF LifeInv, TypedDeals, Onward, deals, faults
<1>4. \E e \in Op : /\ op' = [op EXCEPT ![p] = e]
                    /\ e.kind = op[p].kind /\ e.at \in {"rows", "adopt"}
                    /\ e.live = op[p].live /\ e.todo = op[p].todo
  <2>1. CASE op' = [op EXCEPT ![p].adopt = @ \ {d}]
    <3> PICK e : e = [op[p] EXCEPT !.adopt = op[p].adopt \ {d}]
      OBVIOUS
    <3>1. op' = [op EXCEPT ![p] = e]
      BY <2>1 DEF LifeInv, TypedOps
    <3>2. e \in Op /\ e.kind = op[p].kind /\ e.at = "rows" /\ e.live = op[p].live
          /\ e.todo = op[p].todo
      BY <1>1 DEF Op
    <3> QED
      BY <3>1, <3>2
  <2>2. CASE op' = [op EXCEPT ![p].at = "adopt", ![p].mine.deal = d]
    <3> PICK m : m = [op[p].mine EXCEPT !.deal = d]
      OBVIOUS
    <3>1. m \in Row
      BY <1>1 DEF Op, Row
    <3> PICK e : e = [op[p] EXCEPT !.at = "adopt", !.mine = m]
      OBVIOUS
    <3>2. op' = [op EXCEPT ![p] = e]
      BY <1>1, <2>2 DEF LifeInv, TypedOps, Op
    <3>3. e \in Op /\ e.kind = op[p].kind /\ e.at = "adopt" /\ e.live = op[p].live
          /\ e.todo = op[p].todo
      BY <1>1, <3>1 DEF Op
    <3> QED
      BY <3>2, <3>3
  <2> QED
    BY <2>1, <2>2 DEF CheckAdopt
<1> PICK e \in Op : /\ op' = [op EXCEPT ![p] = e]
                    /\ e.kind = op[p].kind /\ e.at \in {"rows", "adopt"}
                    /\ e.live = op[p].live /\ e.todo = op[p].todo
  BY <1>4
<1>5. OpOK(e)'
  BY <1>1, <1>3, SyncGoes
<1> QED
  BY <1>2, <1>5, OpMoves, FaultsCounted DEF LifeInv

\* A row that is created is a new one, about an open deal.
LEMMA NewRowMoves ==
  ASSUME LifeInv, NEW i \in Rows, FreeRow(i), NEW d \in opened, NEW v \in Nat, NEW sl \in BOOLEAN,
         pos' = [pos EXCEPT ![i] = NewRow(d, v, sl)],
         UNCHANGED <<deals, today, empties, faults>>, filling' \in SUBSET filling
  PROVE  TypedDeals' /\ TypedBooks' /\ DealsKnown' /\ Onward
<1> PICK r : r = NewRow(d, v, sl)
  OBVIOUS
<1>1. r \in Row /\ r.status # "none" /\ r.deal = d
  BY DEF NewRow, Row, LifeInv, TypedDeals
<1> QED
  BY <1>1, FaultsCounted, RowMoves DEF LifeInv, FreeRow

LEMMA AdoptMoves ==
  ASSUME LifeInv, NEW p \in Procs, NEW id \in Rows, Adopt(p, id)
  PROVE  Moves(p)
<1>1. op[p].kind \in Syncing /\ op[p].at = "adopt" /\ op[p] \in Op
  BY DEF Adopt, At, Syncing, LifeInv, TypedOps
<1>2. UNCHANGED <<deals, today, empties, filling, faults>>
  BY DEF Adopt
<1> PICK d : d = op[p].mine.deal
  OBVIOUS
<1>3. TypedDeals' /\ TypedBooks' /\ DealsKnown' /\ Onward
  <2>1. CASE UNCHANGED pos
    BY <1>2, <2>1 DEF LifeInv, TypedDeals, TypedBooks, DealsKnown, Onward, deals, faults
  <2>2. ASSUME FreeRow(id), NEW b \in op[p].live, b.deal = d,
               pos' = [pos EXCEPT ![id] = NewRow(d, b.vol, b.sl)]
        PROVE  TypedDeals' /\ TypedBooks' /\ DealsKnown' /\ Onward
    <3>1. b \in Entry
      BY <1>1 DEF Op
    <3>2. b.vol \in Nat /\ b.sl \in BOOLEAN
      BY <3>1 DEF Entry
    <3>3. d \in opened
      BY <1>1, <2>2 DEF LifeInv, OpsOK, OpOK, SyncOK, Shown
    <3>4. filling' \in SUBSET filling
      BY <1>2
    <3> QED
      BY <1>2, <2>2, <3>2, <3>3, <3>4, NewRowMoves
  <2> QED
    BY <2>1, <2>2 DEF Adopt
<1> PICK m : m = [op[p].mine EXCEPT !.deal = Nil]
  OBVIOUS
<1> PICK e : e = [op[p] EXCEPT !.at = "rows", !.mine = m, !.adopt = op[p].adopt \ {d}]
  OBVIOUS
<1>4. op' = [op EXCEPT ![p] = e]
  BY <1>1 DEF Adopt, LifeInv, TypedOps, Op
<1>5. m \in Row
  BY <1>1 DEF Op, Row
<1>6. e \in Op /\ e.kind = op[p].kind /\ e.at = "rows" /\ e.live = op[p].live
      /\ e.todo = op[p].todo
  BY <1>1, <1>5 DEF Op
<1>7. OpOK(e)'
  BY <1>1, <1>3, <1>6, SyncGoes
<1> QED
  BY <1>3, <1>4, <1>6, <1>7 DEF Moves

LEMMA EndSyncMoves ==
  ASSUME LifeInv, NEW p \in Procs, EndSync(p)
  PROVE  Moves(p)
BY IdleOK, OpMoves, FaultsCounted DEF EndSync, Finish, LifeInv

-----------------------------------------------------------------------------
(***************************************************************************)
(* The broker, placement and crashes                                       *)
(***************************************************************************)
\* Deals that are opened, closed or edited, and rows that are created, disturb no
\* operation.
LEMMA OpsStay ==
  ASSUME LifeInv, UNCHANGED op, TypedDeals', TypedBooks', DealsKnown', Onward
  PROVE  LifeInv'
<1>1. ASSUME NEW p \in Procs PROVE OpOK(op[p])'
  <2> PICK o \in Op : o = op[p]
    BY DEF LifeInv, TypedOps
  <2>1. OpOK(o)'
    BY OpKept DEF LifeInv, OpsOK
  <2> QED
    BY <2>1 DEF OpOK, CloseOK, SyncOK, Shown
<1>2. TypedOps'
  BY DEF LifeInv, TypedOps
<1> QED
  BY <1>1, <1>2 DEF LifeInv, OpsOK

LEMMA BrokerFillsKeeps ==
  ASSUME LifeInv, NEW d \in Deals, BrokerFills(d)
  PROVE  LifeInv'
<1>1. Full \in Nat
  BY LifecycleAssumption
<1>2. TypedDeals' /\ TypedBooks'
  BY <1>1 DEF BrokerFills, LifeInv, TypedDeals, TypedBooks, faults
<1>3. DealsKnown' /\ Onward
  BY DEF BrokerFills, LifeInv, TypedDeals, TypedBooks, DealsKnown, Onward, faults
<1> QED
  BY <1>2, <1>3, OpsStay DEF BrokerFills

LEMMA BrokerClosesKeeps ==
  ASSUME LifeInv, NEW d \in Deals, BrokerCloses(d)
  PROVE  LifeInv'
<1>1. TypedDeals' /\ TypedBooks'
  BY DEF BrokerCloses, LifeInv, TypedDeals, TypedBooks, faults
<1>2. DealsKnown' /\ Onward
  BY DEF BrokerCloses, LifeInv, TypedDeals, TypedBooks, DealsKnown, Onward, faults
<1> QED
  BY <1>1, <1>2, OpsStay DEF BrokerCloses

LEMMA EditStopKeeps ==
  ASSUME LifeInv, NEW d \in Deals, EditStop(d)
  PROVE  LifeInv'
<1>1. stop' \in [Deals -> BOOLEAN]
  BY DEF EditStop, LifeInv, TypedDeals
<1>2. TypedDeals' /\ TypedBooks' /\ DealsKnown' /\ Onward
  BY <1>1 DEF EditStop, LifeInv, TypedDeals, TypedBooks, DealsKnown, Onward, faults
<1> QED
  BY <1>2, OpsStay DEF EditStop

LEMMA CreatePositionKeeps ==
  ASSUME LifeInv, NEW d \in Deals, NEW id \in Rows, CreatePosition(d, id)
  PROVE  LifeInv'
<1>1. Full \in Nat /\ d \in opened
  BY LifecycleAssumption DEF CreatePosition, LifeInv, DealsKnown
<1>2. filling' \in SUBSET filling
  BY DEF CreatePosition
<1>3. TypedDeals' /\ TypedBooks' /\ DealsKnown' /\ Onward
  BY <1>1, <1>2, NewRowMoves DEF CreatePosition
<1> QED
  BY <1>3, OpsStay DEF CreatePosition

LEMMA CrashKeeps ==
  ASSUME LifeInv, Crash
  PROVE  LifeInv'
<1>1. TypedDeals' /\ TypedBooks' /\ DealsKnown'
  BY DEF Crash, LifeInv, TypedDeals, TypedBooks, DealsKnown, deals
<1>2. TypedOps' /\ OpsOK'
  <2>1. \A p \in Procs : op'[p] = Idle
    BY DEF Crash
  <2>2. TypedOps'
    BY IdleOK DEF Crash, TypedOps
  <2>3. ASSUME NEW p \in Procs PROVE OpOK(op[p])'
    BY <2>1 DEF OpOK, CloseOK, SyncOK, Idle, Closing, Syncing
  <2> QED
    BY <2>2, <2>3 DEF OpsOK
<1> QED
  BY <1>1, <1>2 DEF LifeInv

-----------------------------------------------------------------------------
LEMMA InitLife == Init => LifeInv
<1> SUFFICES ASSUME Init PROVE LifeInv
  OBVIOUS
<1>1. TypedDeals /\ TypedBooks
  BY LifecycleAssumption DEF Init, TypedDeals, TypedBooks, NoRow, Row
<1>2. DealsKnown
  BY DEF Init, DealsKnown, NoRow
<1>3. TypedOps
  BY IdleOK DEF Init, TypedOps, Idle, Op, Row
<1>4. OpsOK
  BY DEF Init, OpsOK, OpOK, CloseOK, SyncOK, Idle, Closing, Syncing
<1> QED
  BY <1>1, <1>2, <1>3, <1>4 DEF LifeInv

\* Each step of an operation that has begun.
LEMMA ContinueMoves ==
  ASSUME LifeInv, NEW p \in Procs, Continue(p)
  PROVE  Moves(p)
BY AssertStopLossMoves, MarkClosingMoves, CallBrokerMoves, VerifyCloseMoves, VerifyPartialMoves,
   WriteResultMoves, CreditAccountMoves, ReadBookMoves, EndSyncMoves, VisitRowMoves, AdoptMoves,
   CheckAdoptMoves DEF Continue

LEMMA StepLife == LifeInv /\ [Next]_vars => LifeInv'
<1> SUFFICES ASSUME LifeInv, [Next]_vars PROVE LifeInv'
  OBVIOUS
<1>1. ASSUME NEW p \in Procs, NEW kind \in Closing, NEW id \in Rows, NEW ask \in 1..Full,
             BeginClose(p, kind, id, ask)
      PROVE  LifeInv'
  BY <1>1, BeginCloseMoves, MovesKeep
<1>2. ASSUME NEW p \in Procs, NEW kind \in Syncing, BeginSync(p, kind) PROVE LifeInv'
  BY <1>2, BeginSyncMoves, MovesKeep
<1>3. ASSUME NEW p \in Procs, Continue(p) PROVE LifeInv'
  BY <1>3, ContinueMoves, MovesKeep
<1>4. ASSUME NEW d \in Deals, BrokerFills(d) \/ BrokerCloses(d) \/ EditStop(d) PROVE LifeInv'
  BY <1>4, BrokerFillsKeeps, BrokerClosesKeeps, EditStopKeeps
<1>5. ASSUME NEW d \in Deals, NEW id \in Rows, CreatePosition(d, id) PROVE LifeInv'
  BY <1>5, CreatePositionKeeps
<1>6. CASE Crash
  BY <1>6, CrashKeeps
<1>7. CASE UNCHANGED vars
  <2>1. TypedDeals' /\ TypedBooks' /\ DealsKnown' /\ Onward
    BY <1>7 DEF vars, LifeInv, TypedDeals, TypedBooks, DealsKnown, Onward
  <2> QED
    BY <1>7, <2>1, OpsStay DEF vars
<1> QED
  BY <1>1, <1>2, <1>3, <1>4, <1>5, <1>6, <1>7 DEF Next

\* The rows, the deals and what the operations know of them stay consistent, with
\* any number of closes, syncs and reconciliations at once.
THEOREM LifeInvariant == Spec => []LifeInv
BY InitLife, StepLife, PTL DEF Spec

-----------------------------------------------------------------------------
(***************************************************************************)
(* Rows of live deals                                                      *)
(***************************************************************************)
\* A step that writes one row takes it out of the active ones only when its deal
\* is gone.
LEMMA OneRowStays ==
  ASSUME LifeInv, NEW i \in Rows, NEW r, pos' = [pos EXCEPT ![i] = r],
         r.status = "CLOSED" => vol'[pos[i].deal] = 0
  PROVE  LiveRowsStay
<1>1. \A id \in Rows : pos'[id] = IF id = i THEN r ELSE pos[id]
  BY DEF LifeInv, TypedBooks
<1>2. \A id \in Rows : id \in ActiveRows => pos[id].status # "CLOSED"
  BY DEF ActiveRows, ActiveStatus
<1> QED
  BY <1>1, <1>2 DEF LiveRowsStay

\* Nor does a step that writes none.
LEMMA NoRowWritten == ASSUME UNCHANGED pos PROVE LiveRowsStay
BY DEF LiveRowsStay, ActiveRows, ActiveStatus

LEMMA StepRows == LifeInv /\ [Next]_vars => (flakes' = 0 => LiveRowsStay)
<1> SUFFICES ASSUME LifeInv, [Next]_vars, flakes' = 0 PROVE LiveRowsStay
  OBVIOUS
<1>1. ASSUME NEW p \in Procs, MarkClosing(p) PROVE LiveRowsStay
  <2> PICK i \in Rows : i = op[p].id
    BY <1>1, ClosesKnow DEF MarkClosing, At
  <2> PICK r : r = [pos[i] EXCEPT !.status = "CLOSING"]
    OBVIOUS
  <2>1. pos' = [pos EXCEPT ![i] = r]
    BY <1>1 DEF MarkClosing, LifeInv, TypedBooks
  <2>2. pos[i] \in Row
    BY DEF LifeInv, TypedBooks
  <2>3. r.status = "CLOSING"
    BY <2>2 DEF Row
  <2> QED
    BY <2>1, <2>3, OneRowStays
<1>2. ASSUME NEW p \in Procs, VerifyClose(p) \/ VerifyPartial(p) PROVE LiveRowsStay
  <2>1. op[p].kind \in Closing /\ op[p].at = "verify"
    BY <1>2 DEF VerifyClose, VerifyPartial, At, Closing
  <2> PICK i \in Rows : i = op[p].id
    BY <2>1, ClosesKnow
  <2> PICK d \in Deals : d = op[p].mine.deal
    BY <2>1, ClosesKnow
  <2>2. pos[i] \in Row /\ pos[i].deal = d /\ vol' = vol
    BY <1>2, <2>1, ClosesKnow DEF VerifyClose, VerifyPartial, deals
  <2>3. ASSUME pos' = [pos EXCEPT ![i].status = "OPEN"] PROVE LiveRowsStay
    <3> PICK r : r = [pos[i] EXCEPT !.status = "OPEN"]
      OBVIOUS
    <3>1. pos' = [pos EXCEPT ![i] = r]
      BY <2>3 DEF LifeInv, TypedBooks
    <3>2. r.status = "OPEN"
      BY <2>2 DEF Row
    <3> QED
      BY <3>1, <3>2, OneRowStays
  <2>4. ASSUME NEW live, Reads(live), NEW v,
               pos' = [pos EXCEPT ![i].status = IF d \in Shown(live) THEN "OPEN" ELSE "CLOSED",
                                  ![i].vol = v]
        PROVE  LiveRowsStay
    <3> PICK r : r = [pos[i] EXCEPT !.status = IF d \in Shown(live) THEN "OPEN" ELSE "CLOSED",
                                    !.vol = v]
      OBVIOUS
    <3>1. pos' = [pos EXCEPT ![i] = r]
      BY <2>4 DEF LifeInv, TypedBooks
    <3>2. r.status = IF d \in Shown(live) THEN "OPEN" ELSE "CLOSED"
      BY <2>2 DEF Row
    <3>3. d \notin Shown(live) => vol[d] = 0
      BY <2>4, FaultsCounted, BookShows DEF LifeInv, TypedDeals, OpenDeals
    <3>4. r.status = "CLOSED" => vol'[pos[i].deal] = 0
      BY <2>2, <3>2, <3>3
    <3> QED
      BY <3>1, <3>4, OneRowStays
  <2> QED
    BY <1>2, <2>3, <2>4, NoRowWritten DEF VerifyClose, VerifyPartial
<1>3. ASSUME NEW p \in Procs, WriteResult(p) PROVE LiveRowsStay
  <2>1. op[p].kind \in Closing /\ op[p].at = "write"
    BY <1>3 DEF WriteResult, At
  <2> PICK i \in Rows : i = op[p].id
    BY <2>1, ClosesKnow
  <2>2. pos[i] \in Row /\ pos[i].deal = op[p].mine.deal
    BY <2>1, ClosesKnow
  <2> PICK r : r = Written(pos[i], op[p])
    OBVIOUS
  <2>3. pos' = [pos EXCEPT ![i] = r]
    BY <1>3, WriteResultMoves
  <2>4. r.status = "CLOSED" => op[p].left = 0
    BY <2>2 DEF Written, Row
  <2>5. op[p].left = 0 => vol[op[p].mine.deal] = 0
    BY <1>3, <2>1 DEF LifeInv, OpsOK, OpOK, CloseOK, WriteResult, faults
  <2>6. vol' = vol
    BY <1>3 DEF WriteResult, deals
  <2> QED
    BY <2>2, <2>3, <2>4, <2>5, <2>6, OneRowStays
<1>4. ASSUME NEW p \in Procs, NEW id \in Rows, VisitRow(p, id) PROVE LiveRowsStay
  <2>1. op[p].kind \in Syncing /\ op[p].at = "rows" /\ op[p] \in Op /\ id \in op[p].todo
    BY <1>4 DEF VisitRow, At, LifeInv, TypedOps
  <2>2. pos[id] \in Row /\ flakes = 0 /\ vol' = vol
    BY <1>4 DEF LifeInv, TypedBooks, VisitRow, deals, faults
  <2>3. ASSUME NEW b \in op[p].live, pos' = [pos EXCEPT ![id] = Refreshed(@, b)]
        PROVE  LiveRowsStay
    <3> PICK r : r = Refreshed(pos[id], b)
      OBVIOUS
    <3>1. r.status = "OPEN"
      BY <2>2 DEF Refreshed, Row
    <3> QED
      BY <2>3, <3>1, OneRowStays
  <2>4. ASSUME pos[id].deal \notin Shown(op[p].live),
               pos' = [pos EXCEPT ![id].status = "CLOSED", ![id].vol = 0]
        PROVE  LiveRowsStay
    <3> PICK r : r = [pos[id] EXCEPT !.status = "CLOSED", !.vol = 0]
      OBVIOUS
    <3>1. pos' = [pos EXCEPT ![id] = r]
      BY <2>4 DEF LifeInv, TypedBooks
    <3>2. vol[pos[id].deal] = 0
      BY <2>1, <2>2, <2>4 DEF LifeInv, OpsOK, OpOK, SyncOK
    <3> QED
      BY <2>2, <3>1, <3>2, OneRowStays
  <2> QED
    BY <1>4, <2>3, <2>4, NoRowWritten DEF VisitRow
<1>5. ASSUME NEW id \in Rows, FreeRow(id), NEW d, NEW v, NEW sl,
             pos' = [pos EXCEPT ![id] = NewRow(d, v, sl)]
      PROVE  LiveRowsStay
  BY <1>5, OneRowStays DEF NewRow
<1>6. ASSUME NEW p \in Procs, NEW id \in Rows, Adopt(p, id) PROVE LiveRowsStay
  BY <1>5, <1>6, NoRowWritten DEF Adopt
<1>7. ASSUME NEW d \in Deals, NEW id \in Rows, CreatePosition(d, id) PROVE LiveRowsStay
  BY <1>5, <1>7 DEF CreatePosition
<1>8. ASSUME NEW p \in Procs, Continue(p) PROVE LiveRowsStay
  <2>1. CASE \/ AssertStopLoss(p) \/ CallBroker(p) \/ CreditAccount(p) \/ ReadBook(p)
             \/ EndSync(p) \/ \E d \in Deals : CheckAdopt(p, d)
    <3>1. UNCHANGED pos
      BY <2>1 DEF AssertStopLoss, CallBroker, CreditAccount, ReadBook, EndSync, CheckAdopt
    <3> QED
      BY <3>1, NoRowWritten
  <2> QED
    BY <1>1, <1>2, <1>3, <1>4, <1>6, <1>8, <2>1 DEF Continue
<1>9. CASE \/ \E p \in Procs, kind \in Closing, id \in Rows, ask \in 1..Full :
                BeginClose(p, kind, id, ask)
           \/ \E p \in Procs, kind \in Syncing : BeginSync(p, kind)
           \/ \E d \in Deals : BrokerFills(d) \/ BrokerCloses(d) \/ EditStop(d)
           \/ Crash
           \/ UNCHANGED vars
  <2>1. UNCHANGED pos
    BY <1>9 DEF BeginClose, BeginSync, BrokerFills, BrokerCloses, EditStop, Crash, vars
  <2> QED
    BY <2>1, NoRowWritten
<1> QED
  BY <1>7, <1>8, <1>9 DEF Next

\* As long as the broker shows its true book, no close, sync or reconciliation
\* closes the row of a deal that is still open there.
THEOREM LiveRowsAreKept == Spec => LiveRowNeverClosed
<1>1. LifeInv /\ [Next]_vars => [flakes' = 0 => LiveRowsStay]_vars
  BY StepRows
<1> QED
  BY <1>1, LifeInvariant, PTL DEF Spec, LiveRowNeverClosed

-----------------------------------------------------------------------------
(***************************************************************************)
(* What closes earn                                                        *)
(***************************************************************************)
\* The sums are of numbers.
LEMMA SumsTyped ==
  ASSUME LifeInv
  PROVE  /\ \A d \in Deals : Booked(d) \in [Rows -> Int] /\ Unwritten(d) \in [Procs -> Int]
         /\ Uncredited \in [Procs -> Int] /\ earned \in [Deals -> Int]
<1>1. \A id \in Rows : pos[id].pnl \in Int
  BY DEF LifeInv, TypedBooks, Row
<1>2. \A p \in Procs : op[p].won \in Int
  BY DEF LifeInv, TypedOps, Op
<1>3. earned \in [Deals -> Int]
  BY DEF LifeInv, TypedDeals
<1> QED
  BY <1>1, <1>2, <1>3 DEF Booked, Unwritten, Uncredited

LEMMA SumsStayTyped ==
  ASSUME LifeInv'
  PROVE  /\ \A d \in Deals : Booked(d)' \in [Rows -> Int] /\ Unwritten(d)' \in [Procs -> Int]
         /\ Uncredited' \in [Procs -> Int] /\ earned' \in [Deals -> Int]
<1>1. \A id \in Rows : pos'[id].pnl \in Int
  BY DEF LifeInv, TypedBooks, Row
<1>2. \A p \in Procs : op'[p].won \in Int
  BY DEF LifeInv, TypedOps, Op
<1>3. earned' \in [Deals -> Int]
  BY DEF LifeInv, TypedDeals
<1> QED
  BY <1>1, <1>2, <1>3 DEF Booked, Unwritten, Uncredited

\* A step that books nothing in a row, and one that neither brings a profit to
\* write or credit nor takes one away.
CalmRows ==
  \A id \in Rows : /\ pos'[id].pnl = pos[id].pnl
                   /\ pos'[id].deal = pos[id].deal \/ pos[id].pnl = 0
CalmOp(p) ==
  \/ op'[p] = op[p]
  \/ /\ op[p].at \notin {"write", "credit"}
     /\ op'[p].at \in {"write", "credit"} => op'[p].won = 0
CalmOps == \A p \in Procs : CalmOp(p)

LEMMA BookedSame == ASSUME CalmRows PROVE \A d \in Deals : Booked(d)' = Booked(d)
<1>1. \A d \in Deals, id \in Rows :
        (IF pos'[id].deal = d THEN pos'[id].pnl ELSE 0)
          = (IF pos[id].deal = d THEN pos[id].pnl ELSE 0)
  BY DEF CalmRows
<1> QED
  BY <1>1 DEF Booked

LEMMA UnwrittenSame ==
  ASSUME LifeInv, LifeInv', CalmOps
  PROVE  (\A d \in Deals : Unwritten(d)' = Unwritten(d)) /\ Uncredited' = Uncredited
<1>1. \A d \in Deals, p \in Procs :
        (IF At(p, Closing, "write")' /\ op'[p].mine.deal = d THEN op'[p].won ELSE 0)
          = (IF At(p, Closing, "write") /\ op[p].mine.deal = d THEN op[p].won ELSE 0)
  BY DEF CalmOps, CalmOp, At
<1>2. \A p \in Procs : (IF op'[p].at \in {"write", "credit"} THEN op'[p].won ELSE 0)
                         = (IF op[p].at \in {"write", "credit"} THEN op[p].won ELSE 0)
  BY DEF CalmOps, CalmOp
<1>3. \A d \in Deals : Unwritten(d)' = Unwritten(d)
  BY <1>1 DEF Unwritten
<1> QED
  BY <1>2, <1>3 DEF Uncredited

\* Faults are not forgotten.
FaultsStay == (throws' = 0 => throws = 0) /\ (crashes' = 0 => crashes = 0)
              /\ (~overlapped' => ~overlapped)

\* The books stay right in a step that books nothing.
LEMMA CalmBooks ==
  ASSUME LifeInv, LifeInv', EarningsBooked, CalmRows, CalmOps, FaultsStay,
         UNCHANGED <<earned, today>>
  PROVE  EarningsBooked'
<1>1. RowsBookEarnings'
  BY BookedSame, UnwrittenSame DEF EarningsBooked, RowsBookEarnings, FaultsStay
<1>2. AccountBooksEarnings'
  BY UnwrittenSame DEF EarningsBooked, AccountBooksEarnings, FaultsStay
<1> QED
  BY <1>1, <1>2 DEF EarningsBooked

\* At most one close is under way, and its profit fresh, after a step that begins
\* none and changes no profit.
CalmCloses ==
  \A p \in Procs :
    op'[p].kind \in Closing =>
      /\ op[p].kind \in Closing
      /\ op'[p].at # "credit" =>
           op[p].at # "credit" /\ op'[p].id = op[p].id /\ op'[p].mine = op[p].mine

LEMMA CalmAlone ==
  ASSUME LifeInv, Alone, Fresh, CalmCloses, CalmRows, FaultsStay
  PROVE  Alone' /\ Fresh'
<1>1. Alone'
  BY DEF Alone, CalmCloses, FaultsStay
<1>2. ASSUME ~overlapped', NEW p \in Procs, op'[p].kind \in Closing, op'[p].at # "credit"
      PROVE  op'[p].mine.pnl = pos'[op'[p].id].pnl
  <2>1. op[p].kind \in Closing /\ op[p].at # "credit" /\ op'[p].id = op[p].id
        /\ op'[p].mine = op[p].mine
    BY <1>2 DEF CalmCloses
  <2>2. op[p].id \in Rows
    BY <2>1, ClosesKnow
  <2>3. op[p].mine.pnl = pos[op[p].id].pnl
    BY <1>2, <2>1 DEF Fresh, FaultsStay
  <2> QED
    BY <2>1, <2>2, <2>3 DEF CalmRows
<1> QED
  BY <1>1, <1>2 DEF Fresh

\* What a calm step does to the whole.
LEMMA CalmKeeps ==
  ASSUME MoneyInv, LifeInv', CalmRows, CalmOps, CalmCloses, FaultsStay,
         UNCHANGED <<earned, today>>
  PROVE  MoneyInv'
BY CalmBooks, CalmAlone DEF MoneyInv

\* The operation of p moves on to a step with nothing won.
LEMMA OneOpCalm ==
  ASSUME LifeInv, NEW p \in Procs, NEW e, op' = [op EXCEPT ![p] = e],
         op[p].at \notin {"write", "credit"}, e.at \in {"write", "credit"} => e.won = 0,
         e.kind \in Closing =>
           op[p].kind \in Closing /\ e.id = op[p].id /\ e.mine = op[p].mine
  PROVE  CalmOps /\ CalmCloses
<1>1. \A q \in Procs : op'[q] = IF q = p THEN e ELSE op[q]
  BY DEF LifeInv, TypedOps
<1>2. CalmOps
  BY <1>1 DEF CalmOps, CalmOp
<1>3. CalmCloses
  BY <1>1 DEF CalmCloses
<1> QED
  BY <1>2, <1>3

\* One row is written, and keeps its profit and its deal or had neither.
LEMMA OneRowCalm ==
  ASSUME LifeInv, NEW i \in Rows, NEW r, pos' = [pos EXCEPT ![i] = r],
         r.pnl = pos[i].pnl, r.deal = pos[i].deal \/ pos[i].pnl = 0
  PROVE  CalmRows
BY DEF LifeInv, TypedBooks, CalmRows

LEMMA IdleCalm ==
  ASSUME LifeInv, NEW p \in Procs, op' = [op EXCEPT ![p] = Idle],
         op[p].at \notin {"write", "credit"}
  PROVE  CalmOps /\ CalmCloses
<1>1. Idle.kind \notin Closing /\ Idle.at = "idle"
  BY DEF Idle, Closing
<1> QED
  BY <1>1, OneOpCalm

\* Faults are counted, never taken back.
LEMMA FaultsOnly ==
  ASSUME LifeInv
  PROVE  /\ UNCHANGED faults => FaultsStay
         /\ Throws => FaultsStay /\ throws' # 0
         /\ \A live : Reads(live) => FaultsStay
BY DEF LifeInv, TypedBooks, faults, Throws, Reads, FaultsStay

LEMMA MarkClosingBooks ==
  ASSUME MoneyInv, LifeInv', NEW p \in Procs, MarkClosing(p)
  PROVE  MoneyInv'
<1>1. LifeInv /\ op[p] \in Op /\ op[p].kind \in Closing /\ op[p].at = "mark"
  BY DEF MoneyInv, MarkClosing, At, LifeInv, TypedOps
<1> PICK i \in Rows : i = op[p].id
  BY <1>1, ClosesKnow
<1> PICK r : r = [pos[i] EXCEPT !.status = "CLOSING"]
  OBVIOUS
<1>2. pos' = [pos EXCEPT ![i] = r]
  BY <1>1 DEF MarkClosing, LifeInv, TypedBooks
<1>3. pos[i] \in Row
  BY <1>1 DEF LifeInv, TypedBooks
<1>4. r.pnl = pos[i].pnl /\ r.deal = pos[i].deal
  BY <1>3 DEF Row
<1> PICK e : e = [op[p] EXCEPT !.at = "call"]
  OBVIOUS
<1>5. op' = [op EXCEPT ![p] = e]
  BY <1>1 DEF MarkClosing, Goto, LifeInv, TypedOps
<1>6. e.at = "call" /\ e.id = op[p].id /\ e.mine = op[p].mine
  BY <1>1 DEF Op
<1>7. CalmOps /\ CalmCloses
  BY <1>1, <1>5, <1>6, OneOpCalm
<1>8. CalmRows
  BY <1>1, <1>2, <1>4, OneRowCalm
<1> QED
  BY <1>1, <1>7, <1>8, FaultsOnly, CalmKeeps DEF MarkClosing, deals

LEMMA AssertStopLossBooks ==
  ASSUME MoneyInv, LifeInv', NEW p \in Procs, AssertStopLoss(p)
  PROVE  MoneyInv'
<1>1. LifeInv /\ op[p] \in Op /\ op[p].kind \in Closing /\ op[p].at = "assert"
  BY DEF MoneyInv, AssertStopLoss, At, LifeInv, TypedOps
<1> PICK e : e = [op[p] EXCEPT !.at = "mark"]
  OBVIOUS
<1>2. op' = [op EXCEPT ![p] = e] \/ op' = [op EXCEPT ![p] = Idle]
  BY <1>1 DEF AssertStopLoss, Goto, Finish, LifeInv, TypedOps
<1>3. e.at = "mark" /\ e.id = op[p].id /\ e.mine = op[p].mine
  BY <1>1 DEF Op
<1>4. CalmOps /\ CalmCloses
  BY <1>1, <1>2, <1>3, OneOpCalm, IdleCalm
<1>5. CalmRows /\ UNCHANGED <<earned, today>>
  BY DEF AssertStopLoss, CalmRows, deals
<1>6. FaultsStay
  BY <1>1, FaultsOnly DEF AssertStopLoss
<1> QED
  BY <1>4, <1>5, <1>6, CalmKeeps

LEMMA VerifyCloseBooks ==
  ASSUME MoneyInv, LifeInv', NEW p \in Procs, VerifyClose(p)
  PROVE  MoneyInv'
<1>1. LifeInv /\ op[p] \in Op /\ op[p].kind \in Closing /\ op[p].at = "verify"
  BY DEF MoneyInv, VerifyClose, At, Closing, LifeInv, TypedOps
<1>2. op[p].won = 0
  BY <1>1 DEF LifeInv, OpsOK, OpOK, CloseOK
<1> PICK i \in Rows : i = op[p].id
  BY <1>1, ClosesKnow
<1> PICK e : e = [op[p] EXCEPT !.at = "write"]
  OBVIOUS
<1>3. e.won = 0 /\ e.id = op[p].id /\ e.mine = op[p].mine
  BY <1>1, <1>2 DEF Op
<1> PICK r : r = [pos[i] EXCEPT !.status = "OPEN"]
  OBVIOUS
<1>4. pos[i] \in Row
  BY <1>1 DEF LifeInv, TypedBooks
<1>5. r.pnl = pos[i].pnl /\ r.deal = pos[i].deal
  BY <1>4 DEF Row
<1>6. op' = [op EXCEPT ![p] = e] \/ op' = [op EXCEPT ![p] = Idle]
  BY <1>1 DEF VerifyClose, Goto, Finish, LifeInv, TypedOps
<1>7. CalmOps /\ CalmCloses
  BY <1>1, <1>3, <1>6, OneOpCalm, IdleCalm
<1>8. pos' = pos \/ pos' = [pos EXCEPT ![i] = r]
  BY <1>1 DEF VerifyClose, LifeInv, TypedBooks
<1>9. CalmRows
  <2>1. CASE pos' = pos
    BY <2>1 DEF CalmRows
  <2>2. CASE pos' = [pos EXCEPT ![i] = r]
    BY <1>1, <1>5, <2>2, OneRowCalm
  <2> QED
    BY <1>8, <2>1, <2>2
<1>10. FaultsStay /\ UNCHANGED <<earned, today>>
  BY <1>1, FaultsOnly DEF VerifyClose, deals
<1> QED
  BY <1>7, <1>9, <1>10, CalmKeeps

LEMMA VerifyPartialBooks ==
  ASSUME MoneyInv, LifeInv', NEW p \in Procs, VerifyPartial(p)
  PROVE  MoneyInv'
<1>1. LifeInv /\ op[p] \in Op /\ op[p].kind \in Closing /\ op[p].at = "verify"
  BY DEF MoneyInv, VerifyPartial, At, Closing, LifeInv, TypedOps
<1> PICK i \in Rows : i = op[p].id
  BY <1>1, ClosesKnow
<1>2. pos[i] \in Row
  BY <1>1 DEF LifeInv, TypedBooks
<1>3. CalmOps /\ CalmCloses
  BY <1>1, IdleCalm DEF VerifyPartial, Finish
<1>4. CASE pos' = [pos EXCEPT ![i].status = "OPEN"]
  <2> PICK r : r = [pos[i] EXCEPT !.status = "OPEN"]
    OBVIOUS
  <2>1. pos' = [pos EXCEPT ![i] = r]
    BY <1>1, <1>4 DEF LifeInv, TypedBooks
  <2>2. r.pnl = pos[i].pnl /\ r.deal = pos[i].deal
    BY <1>2 DEF Row
  <2> QED
    BY <1>1, <2>1, <2>2, OneRowCalm, <1>3, FaultsOnly, CalmKeeps DEF VerifyPartial, deals
<1>5. ASSUME NEW s, NEW v, pos' = [pos EXCEPT ![i].status = s, ![i].vol = v]
      PROVE  MoneyInv'
  <2> PICK r : r = [pos[i] EXCEPT !.status = s, !.vol = v]
    OBVIOUS
  <2>1. pos' = [pos EXCEPT ![i] = r]
    BY <1>1, <1>5 DEF LifeInv, TypedBooks
  <2>2. r.pnl = pos[i].pnl /\ r.deal = pos[i].deal
    BY <1>2 DEF Row
  <2> QED
    BY <1>1, <2>1, <2>2, OneRowCalm, <1>3, FaultsOnly, CalmKeeps DEF VerifyPartial, deals
<1> QED
  BY <1>4, <1>5 DEF VerifyPartial

LEMMA SyncBooks ==
  ASSUME MoneyInv, LifeInv', NEW p \in Procs,
         \/ \E kind \in Syncing : BeginSync(p, kind)
         \/ ReadBook(p) \/ EndSync(p)
         \/ \E d \in Deals : CheckAdopt(p, d)
  PROVE  MoneyInv'
<1>1. LifeInv /\ op \in [Procs -> Op]
  BY DEF MoneyInv, LifeInv, TypedOps
<1>2. op[p].at \in {"idle", "read", "rows"}
  BY DEF BeginSync, ReadBook, EndSync, CheckAdopt, At
<1>3. \E e : op' = [op EXCEPT ![p] = e] /\ e.kind \notin Closing
             /\ e.at \notin {"write", "credit"}
  <2>1. ASSUME NEW kind \in Syncing, BeginSync(p, kind)
        PROVE  \E e : op' = [op EXCEPT ![p] = e] /\ e.kind \notin Closing
                      /\ e.at \notin {"write", "credit"}
    <3> PICK e : e = [Idle EXCEPT !.kind = kind, !.at = "read", !.todo = ActiveRows]
      OBVIOUS
    <3>1. e.kind = kind /\ e.at = "read"
      BY DEF Idle
    <3>2. kind \notin Closing
      BY DEF Closing, Syncing
    <3>3. op' = [op EXCEPT ![p] = e]
      BY <2>1 DEF BeginSync
    <3> QED
      BY <3>1, <3>2, <3>3
  <2>2. Idle.kind \notin Closing /\ Idle.at \notin {"write", "credit"}
    BY DEF Idle, Closing
  <2>3. ASSUME ReadBook(p)
        PROVE  \E e : op' = [op EXCEPT ![p] = e] /\ e.kind \notin Closing
                      /\ e.at \notin {"write", "credit"}
    <3>1. op[p].kind \notin Closing
      BY <2>3 DEF ReadBook, At, Closing, Syncing
    <3>2. ASSUME NEW live,
                 op' = [op EXCEPT ![p].at = "rows", ![p].live = live,
                          ![p].adopt = Shown(live) \ {pos[id].deal : id \in op[p].todo}]
          PROVE  \E e : op' = [op EXCEPT ![p] = e] /\ e.kind \notin Closing
                        /\ e.at \notin {"write", "credit"}
      <4> PICK new : new = Shown(live) \ {pos[id].deal : id \in op[p].todo}
        OBVIOUS
      <4> PICK e : e = [op[p] EXCEPT !.at = "rows", !.live = live, !.adopt = new]
        OBVIOUS
      <4>1. op' = [op EXCEPT ![p] = e]
        BY <1>1, <3>2
      <4>2. e.kind = op[p].kind /\ e.at = "rows"
        BY <1>1 DEF Op
      <4> QED
        BY <3>1, <4>1, <4>2
    <3> QED
      BY <2>2, <2>3, <3>2 DEF ReadBook, Finish
  <2>4. ASSUME NEW d \in Deals, CheckAdopt(p, d)
        PROVE  \E e : op' = [op EXCEPT ![p] = e] /\ e.kind \notin Closing
                      /\ e.at \notin {"write", "credit"}
    <3>1. op[p].kind \notin Closing /\ op[p].at = "rows" /\ op[p] \in Op
      BY <1>1, <2>4 DEF CheckAdopt, At, Closing
    <3>2. CASE op' = [op EXCEPT ![p].adopt = @ \ {d}]
      <4> PICK e : e = [op[p] EXCEPT !.adopt = op[p].adopt \ {d}]
        OBVIOUS
      <4>1. op' = [op EXCEPT ![p] = e]
        BY <1>1, <3>2
      <4>2. e.kind = op[p].kind /\ e.at = "rows"
        BY <3>1 DEF Op
      <4> QED
        BY <3>1, <4>1, <4>2
    <3>3. CASE op' = [op EXCEPT ![p].at = "adopt", ![p].mine.deal = d]
      <4> PICK m : m = [op[p].mine EXCEPT !.deal = d]
        OBVIOUS
      <4> PICK e : e = [op[p] EXCEPT !.at = "adopt", !.mine = m]
        OBVIOUS
      <4>1. op' = [op EXCEPT ![p] = e]
        BY <1>1, <3>1, <3>3 DEF Op
      <4>2. e.kind = op[p].kind /\ e.at = "adopt"
        BY <3>1 DEF Op
      <4> QED
        BY <3>1, <4>1, <4>2
    <3> QED
      BY <2>4, <3>2, <3>3 DEF CheckAdopt
  <2> QED
    BY <2>1, <2>2, <2>3, <2>4 DEF EndSync, Finish
<1>4. CalmOps /\ CalmCloses
  BY <1>1, <1>2, <1>3, OneOpCalm
<1>5. CalmRows /\ UNCHANGED <<earned, today>>
  BY DEF BeginSync, ReadBook, EndSync, CheckAdopt, CalmRows, deals
<1>6. FaultsStay
  BY <1>1, FaultsOnly DEF BeginSync, ReadBook, EndSync, CheckAdopt
<1> QED
  BY <1>4, <1>5, <1>6, CalmKeeps

LEMMA VisitRowBooks ==
  ASSUME MoneyInv, LifeInv', NEW p \in Procs, NEW id \in Rows, VisitRow(p, id)
  PROVE  MoneyInv'
<1>1. LifeInv /\ op[p] \in Op /\ op[p].kind \notin Closing /\ op[p].at = "rows"
  BY DEF MoneyInv, VisitRow, At, Closing, Syncing, LifeInv, TypedOps
<1>2. pos[id] \in Row
  BY <1>1 DEF LifeInv, TypedBooks
<1> PICK e : e = [op[p] EXCEPT !.todo = op[p].todo \ {id}]
  OBVIOUS
<1>3. op' = [op EXCEPT ![p] = e]
  BY <1>1 DEF VisitRow, LifeInv, TypedOps
<1>4. e.kind = op[p].kind /\ e.at = "rows"
  BY <1>1 DEF Op
<1>5. CalmOps /\ CalmCloses
  BY <1>1, <1>3, <1>4, OneOpCalm
<1>6. CalmRows
  <2>1. ASSUME NEW b, pos' = [pos EXCEPT ![id] = Refreshed(@, b)] PROVE CalmRows
    <3> PICK r : r = Refreshed(pos[id], b)
      OBVIOUS
    <3>1. r.pnl = pos[id].pnl /\ r.deal = pos[id].deal
      BY <1>2 DEF Refreshed, Row
    <3> QED
      BY <1>1, <2>1, <3>1, OneRowCalm
  <2>2. ASSUME pos' = [pos EXCEPT ![id].status = "CLOSED", ![id].vol = 0] PROVE CalmRows
    <3> PICK r : r = [pos[id] EXCEPT !.status = "CLOSED", !.vol = 0]
      OBVIOUS
    <3>1. pos' = [pos EXCEPT ![id] = r]
      BY <1>1, <2>2 DEF LifeInv, TypedBooks
    <3>2. r.pnl = pos[id].pnl /\ r.deal = pos[id].deal
      BY <1>2 DEF Row
    <3> QED
      BY <1>1, <3>1, <3>2, OneRowCalm
  <2>3. ASSUME pos' = pos PROVE CalmRows
    BY <2>3 DEF CalmRows
  <2> QED
    BY <2>1, <2>2, <2>3 DEF VisitRow
<1> QED
  BY <1>1, <1>5, <1>6, FaultsOnly, CalmKeeps DEF VisitRow, deals

\* A row that is created has booked nothing, like the blank it was.
LEMMA NewRowCalm ==
  ASSUME LifeInv, NEW i \in Rows, FreeRow(i), NEW d, NEW v, NEW sl,
         pos' = [pos EXCEPT ![i] = NewRow(d, v, sl)]
  PROVE  CalmRows
<1> PICK r : r = NewRow(d, v, sl)
  OBVIOUS
<1>1. r.pnl = 0 /\ pos[i] = NoRow
  BY DEF NewRow, FreeRow, LifeInv, DealsKnown
<1>2. pos[i].pnl = 0
  BY <1>1 DEF NoRow
<1> QED
  BY <1>1, <1>2, OneRowCalm

LEMMA AdoptBooks ==
  ASSUME MoneyInv, LifeInv', NEW p \in Procs, NEW id \in Rows, Adopt(p, id)
  PROVE  MoneyInv'
<1>1. LifeInv /\ op[p] \in Op /\ op[p].kind \notin Closing /\ op[p].at = "adopt"
  BY DEF MoneyInv, Adopt, At, Closing, LifeInv, TypedOps
<1> PICK m : m = [op[p].mine EXCEPT !.deal = Nil]
  OBVIOUS
<1> PICK new : new = op[p].adopt \ {op[p].mine.deal}
  OBVIOUS
<1> PICK e : e = [op[p] EXCEPT !.at = "rows", !.mine = m, !.adopt = new]
  OBVIOUS
<1>2. op' = [op EXCEPT ![p] = e]
  BY <1>1 DEF Adopt, LifeInv, TypedOps, Op
<1>3. e.kind = op[p].kind /\ e.at = "rows"
  BY <1>1 DEF Op
<1>4. CalmOps /\ CalmCloses
  BY <1>1, <1>2, <1>3, OneOpCalm
<1>5. CalmRows
  <2>1. ASSUME pos' = pos PROVE CalmRows
    BY <2>1 DEF CalmRows
  <2> QED
    BY <1>1, <2>1, NewRowCalm DEF Adopt
<1> QED
  BY <1>1, <1>4, <1>5, FaultsOnly, CalmKeeps DEF Adopt, deals

\* A close that begins has won nothing and reads the profit of its row; it is
\* alone, or counts as overlapping.
LEMMA BeginCloseBooks ==
  ASSUME MoneyInv, LifeInv', NEW p \in Procs, NEW kind, NEW id \in Rows, NEW ask,
         BeginClose(p, kind, id, ask)
  PROVE  MoneyInv'
<1>1. LifeInv /\ kind \in Closing /\ op[p].at = "idle"
  BY DEF MoneyInv, BeginClose
<1> PICK e : e = [Idle EXCEPT !.kind = kind, !.at = "assert", !.id = id,
                              !.mine = pos[id], !.ask = ask]
  OBVIOUS
<1>2. e.kind = kind /\ e.at = "assert" /\ e.id = id /\ e.mine = pos[id]
  BY DEF Idle
<1>3. op' = [op EXCEPT ![p] = e]
  BY DEF BeginClose
<1>4. \A q \in Procs : op'[q] = IF q = p THEN e ELSE op[q]
  BY <1>1, <1>3 DEF LifeInv, TypedOps
<1>5. UNCHANGED <<earned, pos, today>>
  BY DEF BeginClose, deals
<1>6. overlapped' = (overlapped \/ \E q \in Procs \ {p} : op[q].kind \in Closing)
  BY DEF BeginClose
<1>7. FaultsStay
  BY <1>6 DEF BeginClose, FaultsStay
<1>8. CalmRows /\ CalmOps
  BY <1>1, <1>2, <1>4, <1>5 DEF CalmRows, CalmOps, CalmOp
<1>9. Alone'
  BY <1>4, <1>6 DEF MoneyInv, Alone
<1>10. Fresh'
  <2> SUFFICES ASSUME ~overlapped', NEW q \in Procs, op'[q].kind \in Closing,
                      op'[q].at # "credit"
               PROVE  op'[q].mine.pnl = pos'[op'[q].id].pnl
    BY DEF Fresh
  <2>1. q = p
    BY <1>4, <1>6
  <2> QED
    BY <1>2, <1>4, <1>5, <2>1
<1>11. EarningsBooked'
  BY <1>1, <1>5, <1>7, <1>8, CalmBooks DEF MoneyInv
<1> QED
  BY <1>9, <1>10, <1>11 DEF MoneyInv

\* The broker's close earns what goes into the result.
LEMMA CallBrokerBooks ==
  ASSUME MoneyInv, LifeInv', NEW p \in Procs, CallBroker(p)
  PROVE  MoneyInv'
<1>1. LifeInv /\ op[p] \in Op /\ op[p].kind \in Closing /\ op[p].at = "call"
  BY DEF MoneyInv, CallBroker, At, LifeInv, TypedOps
<1> PICK d \in Deals : d = op[p].mine.deal
  BY <1>1, ClosesKnow
<1> PICK n : n = Asked(p)
  OBVIOUS
<1>2. n \in Nat
  <2>1. vol[d] \in Nat
    BY <1>1 DEF LifeInv, TypedDeals
  <2> QED
    BY <1>1, <2>1 DEF Asked, Op
<1>3. UNCHANGED <<pos, today>> /\ CalmRows
  BY DEF CallBroker, CalmRows
<1>4. CASE Goto(p, "verify")
  <2> PICK e : e = [op[p] EXCEPT !.at = "verify"]
    OBVIOUS
  <2>1. op' = [op EXCEPT ![p] = e]
    BY <1>1, <1>4 DEF Goto, LifeInv, TypedOps
  <2>2. e.at = "verify" /\ e.id = op[p].id /\ e.mine = op[p].mine
    BY <1>1 DEF Op
  <2>3. CalmOps /\ CalmCloses
    BY <1>1, <2>1, <2>2, OneOpCalm
  <2>4. CASE Throws
    <3>1. FaultsStay /\ throws' # 0
      BY <1>1, <2>4, FaultsOnly
    <3>2. Alone' /\ Fresh'
      BY <1>1, <1>3, <2>3, <3>1, CalmAlone DEF MoneyInv
    <3>3. EarningsBooked'
      BY <3>1 DEF EarningsBooked, RowsBookEarnings, AccountBooksEarnings
    <3> QED
      BY <3>2, <3>3 DEF MoneyInv
  <2>5. CASE ~Throws
    <3>1. op'[p].at = "verify"
      BY <1>1, <2>1, <2>2 DEF LifeInv, TypedOps
    <3>2. op' # [op EXCEPT ![p].at = "write", ![p].won = n, ![p].left = vol[d] - n]
      <4> SUFFICES ASSUME op' = [op EXCEPT ![p].at = "write", ![p].won = n,
                                           ![p].left = vol[d] - n]
                   PROVE  FALSE
        OBVIOUS
      <4> PICK f : f = [op[p] EXCEPT !.at = "write", !.won = n, !.left = vol[d] - n]
        OBVIOUS
      <4>1. op' = [op EXCEPT ![p] = f]
        BY <1>1 DEF LifeInv, TypedOps
      <4>2. f.at = "write"
        BY <1>1 DEF Op
      <4> QED
        BY <1>1, <3>1, <4>1, <4>2 DEF LifeInv, TypedOps
    <3>3. UNCHANGED <<vol, earned>> /\ UNCHANGED faults
      BY <2>5, <3>2 DEF CallBroker
    <3> QED
      BY <1>1, <1>3, <2>3, <3>3, FaultsOnly, CalmKeeps
  <2> QED
    BY <2>4, <2>5
<1>5. CASE /\ earned' = [earned EXCEPT ![d] = @ + n]
           /\ op' = [op EXCEPT ![p].at = "write", ![p].won = n, ![p].left = vol[d] - n]
           /\ UNCHANGED faults
  <2> PICK left : left = vol[d] - n
    OBVIOUS
  <2> PICK f : f = [op[p] EXCEPT !.at = "write", !.won = n, !.left = left]
    OBVIOUS
  <2>1. op' = [op EXCEPT ![p] = f]
    BY <1>1, <1>5 DEF LifeInv, TypedOps
  <2>2. f.kind = op[p].kind /\ f.at = "write" /\ f.won = n /\ f.id = op[p].id
        /\ f.mine = op[p].mine
    BY <1>1 DEF Op
  <2>3. \A q \in Procs : op'[q] = IF q = p THEN f ELSE op[q]
    BY <1>1, <2>1 DEF LifeInv, TypedOps
  <2>4. FaultsStay
    BY <1>1, <1>5, FaultsOnly
  <2>5. CalmCloses
    BY <1>1, <2>2, <2>3 DEF CalmCloses
  <2>6. Alone' /\ Fresh'
    BY <1>1, <1>3, <2>4, <2>5, CalmAlone DEF MoneyInv
  <2>7. earned[d] \in Int /\ earned'[d] = earned[d] + n
        /\ \A x \in Deals \ {d} : earned'[x] = earned[x]
    BY <1>1, <1>2, <1>5, SumsTyped
  <2>8. RowsBookEarnings'
    <3> SUFFICES ASSUME throws' = 0, crashes' = 0, ~overlapped', NEW x \in Deals
                 PROVE  earned'[x] = SumFunction(Booked(x)') + SumFunction(Unwritten(x)')
      BY DEF RowsBookEarnings
    <3>1. earned[x] = SumFunction(Booked(x)) + SumFunction(Unwritten(x))
      BY <2>4 DEF MoneyInv, EarningsBooked, RowsBookEarnings, FaultsStay
    <3>2. Booked(x)' = Booked(x)
      BY <1>3, BookedSame
    <3> PICK u : u = Unwritten(x)
      OBVIOUS
    <3> PICK v : v = Unwritten(x)'
      OBVIOUS
    <3>3. u \in [Procs -> Int] /\ v \in [Procs -> Int] /\ Booked(x) \in [Rows -> Int]
      BY <1>1, SumsTyped, SumsStayTyped
    <3>4. \A q \in Procs \ {p} : v[q] = u[q]
      BY <2>3 DEF Unwritten, At
    <3>5. u[p] = 0 /\ v[p] = IF x = d THEN n ELSE 0
      <4>1. op'[p] = f
        BY <2>3
      <4>2. u[p] = 0
        BY <1>1 DEF Unwritten, At
      <4>3. v[p] = IF x = d THEN n ELSE 0
        BY <1>1, <2>2, <4>1 DEF Unwritten, At
      <4> QED
        BY <4>2, <4>3
    <3>6. SumFunction(v) = SumFunction(u) - u[p] + v[p]
      BY <3>3, <3>4, SumChange, LifecycleAssumption
    <3>7. SumFunction(u) \in Int /\ SumFunction(Booked(x)) \in Int
      BY <3>3, SumInt, LifecycleAssumption
    <3> QED
      BY <1>2, <2>7, <3>1, <3>2, <3>5, <3>6, <3>7
  <2>9. AccountBooksEarnings'
    <3> SUFFICES ASSUME throws' = 0, crashes' = 0
                 PROVE  SumFunction(earned') = today' + SumFunction(Uncredited')
      BY DEF AccountBooksEarnings
    <3>1. SumFunction(earned) = today + SumFunction(Uncredited)
      BY <2>4 DEF MoneyInv, EarningsBooked, AccountBooksEarnings, FaultsStay
    <3> PICK u : u = Uncredited
      OBVIOUS
    <3> PICK v : v = Uncredited'
      OBVIOUS
    <3> PICK m : m = earned
      OBVIOUS
    <3> PICK k : k = earned'
      OBVIOUS
    <3>2. u \in [Procs -> Int] /\ v \in [Procs -> Int] /\ m \in [Deals -> Int]
          /\ k \in [Deals -> Int]
      BY <1>1, SumsTyped, SumsStayTyped
    <3>3. \A q \in Procs \ {p} : v[q] = u[q]
      BY <2>3 DEF Uncredited
    <3>4. u[p] = 0 /\ v[p] = n
      BY <1>1, <2>2, <2>3 DEF Uncredited
    <3>5. SumFunction(v) = SumFunction(u) - u[p] + v[p]
      BY <3>2, <3>3, SumChange, LifecycleAssumption
    <3>6. SumFunction(k) = SumFunction(m) - m[d] + k[d]
      BY <2>7, <3>2, SumChange, LifecycleAssumption
    <3>7. SumFunction(u) \in Int /\ SumFunction(m) \in Int /\ today \in Int /\ m[d] \in Int
      BY <1>1, <3>2, SumInt, LifecycleAssumption DEF LifeInv, TypedBooks
    <3> QED
      BY <1>2, <1>3, <2>7, <3>1, <3>4, <3>5, <3>6, <3>7
  <2> QED
    BY <2>6, <2>8, <2>9 DEF MoneyInv, EarningsBooked
<1> QED
  BY <1>4, <1>5 DEF CallBroker

\* The result goes into the row of the deal, and stays due to the account.
LEMMA WriteResultBooks ==
  ASSUME MoneyInv, LifeInv', NEW p \in Procs, WriteResult(p)
  PROVE  MoneyInv'
<1>1. LifeInv /\ op[p] \in Op /\ op[p].kind \in Closing /\ op[p].at = "write"
  BY DEF MoneyInv, WriteResult, At, LifeInv, TypedOps
<1> PICK d \in Deals : d = op[p].mine.deal
  BY <1>1, ClosesKnow
<1> PICK i \in Rows : i = op[p].id
  BY <1>1, ClosesKnow
<1>2. pos[i] \in Row /\ pos[i].deal = d
  BY <1>1, ClosesKnow
<1> PICK r \in Row : r = Written(pos[i], op[p])
  BY <1>1, WriteResultMoves
<1>3. pos' = [pos EXCEPT ![i] = r]
  BY <1>1, WriteResultMoves
<1>4. r.deal = d /\ r.pnl = op[p].mine.pnl + op[p].won
  BY <1>2 DEF Written, Row
<1>5. \A id \in Rows : pos'[id] = IF id = i THEN r ELSE pos[id]
  BY <1>1, <1>3 DEF LifeInv, TypedBooks
<1> PICK e : e = [op[p] EXCEPT !.at = "credit", !.mine = NoRow, !.ask = 0, !.left = 0]
  OBVIOUS
<1>6. op' = [op EXCEPT ![p] = e]
  BY <1>1 DEF WriteResult, LifeInv, TypedOps
<1>7. e.kind = op[p].kind /\ e.at = "credit" /\ e.won = op[p].won
  BY <1>1 DEF Op
<1>8. \A q \in Procs : op'[q] = IF q = p THEN e ELSE op[q]
  BY <1>1, <1>6 DEF LifeInv, TypedOps
<1>9. UNCHANGED <<earned, today>> /\ UNCHANGED faults
  BY DEF WriteResult, deals
<1>10. FaultsStay
  BY <1>1, <1>9, FaultsOnly
<1>11. Alone'
  BY <1>1, <1>7, <1>8, <1>10 DEF MoneyInv, Alone, FaultsStay
<1>12. Fresh'
  <2> SUFFICES ASSUME ~overlapped', NEW q \in Procs, op'[q].kind \in Closing,
                      op'[q].at # "credit"
               PROVE  FALSE
    BY DEF Fresh
  <2>1. q # p /\ op[q].kind \in Closing
    BY <1>7, <1>8
  <2> QED
    BY <1>1, <1>10, <2>1 DEF MoneyInv, Alone, FaultsStay
<1>13. RowsBookEarnings'
  <2> SUFFICES ASSUME throws' = 0, crashes' = 0, ~overlapped', NEW x \in Deals
               PROVE  earned'[x] = SumFunction(Booked(x)') + SumFunction(Unwritten(x)')
    BY DEF RowsBookEarnings
  <2>1. earned[x] = SumFunction(Booked(x)) + SumFunction(Unwritten(x))
    BY <1>10 DEF MoneyInv, EarningsBooked, RowsBookEarnings, FaultsStay
  <2>2. op[p].mine.pnl = pos[i].pnl
    BY <1>1, <1>10 DEF MoneyInv, Fresh, FaultsStay
  <2> PICK u : u = Unwritten(x)
    OBVIOUS
  <2> PICK v : v = Unwritten(x)'
    OBVIOUS
  <2> PICK b : b = Booked(x)
    OBVIOUS
  <2> PICK c : c = Booked(x)'
    OBVIOUS
  <2>3. u \in [Procs -> Int] /\ v \in [Procs -> Int] /\ b \in [Rows -> Int]
        /\ c \in [Rows -> Int]
    BY <1>1, SumsTyped, SumsStayTyped
  <2>4. \A q \in Procs \ {p} : v[q] = u[q]
    BY <1>8 DEF Unwritten, At
  <2>5. u[p] = (IF x = d THEN op[p].won ELSE 0) /\ v[p] = 0
    BY <1>1, <1>7, <1>8 DEF Unwritten, At
  <2>6. \A id \in Rows \ {i} : c[id] = b[id]
    BY <1>5 DEF Booked
  <2>7. b[i] = (IF x = d THEN pos[i].pnl ELSE 0) /\ c[i] = IF x = d THEN r.pnl ELSE 0
    BY <1>2, <1>4, <1>5 DEF Booked
  <2>8. SumFunction(v) = SumFunction(u) - u[p] + v[p]
    BY <2>3, <2>4, SumChange, LifecycleAssumption
  <2>9. SumFunction(c) = SumFunction(b) - b[i] + c[i]
    BY <2>3, <2>6, SumChange, LifecycleAssumption
  <2>10. SumFunction(u) \in Int /\ SumFunction(b) \in Int
    BY <2>3, SumInt, LifecycleAssumption
  <2>11. pos[i].pnl \in Int /\ op[p].won \in Int
    BY <1>1, <1>2 DEF Op, Row
  <2>12. c[i] - b[i] = u[p] - v[p]
    BY <1>4, <2>2, <2>5, <2>7, <2>11
  <2>13. u[p] \in Int /\ v[p] \in Int /\ b[i] \in Int /\ c[i] \in Int
    BY <2>3
  <2> QED
    BY <1>9, <2>1, <2>8, <2>9, <2>10, <2>12, <2>13
<1>14. Uncredited' = Uncredited
  <2>1. \A q \in Procs : (IF op'[q].at \in {"write", "credit"} THEN op'[q].won ELSE 0)
                           = (IF op[q].at \in {"write", "credit"} THEN op[q].won ELSE 0)
    BY <1>1, <1>7, <1>8
  <2> QED
    BY <2>1 DEF Uncredited
<1>15. AccountBooksEarnings'
  BY <1>9, <1>10, <1>14 DEF MoneyInv, EarningsBooked, AccountBooksEarnings, FaultsStay
<1> QED
  BY <1>11, <1>12, <1>13, <1>15 DEF MoneyInv, EarningsBooked

\* The account is credited with what was due to it.
LEMMA CreditAccountBooks ==
  ASSUME MoneyInv, LifeInv', NEW p \in Procs, CreditAccount(p)
  PROVE  MoneyInv'
<1>1. LifeInv /\ op[p] \in Op /\ op[p].kind \in Closing /\ op[p].at = "credit"
  BY DEF MoneyInv, CreditAccount, At, LifeInv, TypedOps
<1>2. UNCHANGED <<earned, pos>> /\ UNCHANGED faults /\ CalmRows
  BY DEF CreditAccount, deals, CalmRows
<1>3. FaultsStay
  BY <1>1, <1>2, FaultsOnly
<1>4. \A q \in Procs : op'[q] = IF q = p THEN Idle ELSE op[q]
  BY <1>1 DEF CreditAccount, Finish, LifeInv, TypedOps
<1>5. Idle.kind = "none" /\ Idle.at = "idle"
  BY DEF Idle
<1>6. CalmCloses
  BY <1>4, <1>5 DEF CalmCloses, Closing
<1>7. Alone' /\ Fresh'
  BY <1>1, <1>2, <1>3, <1>6, CalmAlone DEF MoneyInv
<1>8. RowsBookEarnings'
  <2>1. \A x \in Deals, q \in Procs :
          (IF At(q, Closing, "write")' /\ op'[q].mine.deal = x THEN op'[q].won ELSE 0)
            = (IF At(q, Closing, "write") /\ op[q].mine.deal = x THEN op[q].won ELSE 0)
    BY <1>1, <1>4, <1>5 DEF At
  <2>2. \A x \in Deals : Unwritten(x)' = Unwritten(x)
    BY <2>1 DEF Unwritten
  <2> QED
    BY <1>2, <1>3, <2>2, BookedSame DEF MoneyInv, EarningsBooked, RowsBookEarnings, FaultsStay
<1>9. AccountBooksEarnings'
  <2> SUFFICES ASSUME throws' = 0, crashes' = 0
               PROVE  SumFunction(earned') = today' + SumFunction(Uncredited')
    BY DEF AccountBooksEarnings
  <2>1. SumFunction(earned) = today + SumFunction(Uncredited)
    BY <1>3 DEF MoneyInv, EarningsBooked, AccountBooksEarnings, FaultsStay
  <2> PICK u : u = Uncredited
    OBVIOUS
  <2> PICK v : v = Uncredited'
    OBVIOUS
  <2>2. u \in [Procs -> Int] /\ v \in [Procs -> Int]
    BY <1>1, SumsTyped, SumsStayTyped
  <2>3. \A q \in Procs \ {p} : v[q] = u[q]
    BY <1>4 DEF Uncredited
  <2>4. u[p] = op[p].won /\ v[p] = 0
    BY <1>1, <1>4, <1>5 DEF Uncredited
  <2>5. SumFunction(v) = SumFunction(u) - u[p] + v[p]
    BY <2>2, <2>3, SumChange, LifecycleAssumption
  <2>6. SumFunction(u) \in Int /\ today \in Int /\ op[p].won \in Int
    BY <1>1, <2>2, SumInt, LifecycleAssumption DEF LifeInv, TypedBooks, Op
  <2>7. today' = today + op[p].won
    BY DEF CreditAccount
  <2> QED
    BY <1>2, <2>1, <2>4, <2>5, <2>6, <2>7
<1> QED
  BY <1>7, <1>8, <1>9 DEF MoneyInv, EarningsBooked

\* After a crash nothing is under way, and nothing is promised of the books.
LEMMA CrashBooks ==
  ASSUME MoneyInv, LifeInv', Crash
  PROVE  MoneyInv'
<1>1. \A p \in Procs : op'[p].kind = "none"
  BY DEF Crash, Idle
<1>2. Alone' /\ Fresh'
  BY <1>1 DEF Alone, Fresh, Closing
<1>3. crashes' # 0
  BY DEF Crash, MoneyInv, LifeInv, TypedBooks
<1>4. EarningsBooked'
  BY <1>3 DEF EarningsBooked, RowsBookEarnings, AccountBooksEarnings
<1> QED
  BY <1>2, <1>4 DEF MoneyInv

-----------------------------------------------------------------------------
LEMMA InitMoney == Init => MoneyInv
<1> SUFFICES ASSUME Init PROVE MoneyInv
  OBVIOUS
<1>1. LifeInv
  BY InitLife
<1>2. \A p \in Procs : op[p].kind = "none" /\ op[p].at = "idle" /\ op[p].won = 0
  BY DEF Init, Idle
<1>3. Alone /\ Fresh
  BY <1>2 DEF Alone, Fresh, Closing
<1>4. \A d \in Deals : SumFunction(Booked(d)) = 0
  <2> TAKE d \in Deals
  <2>1. \A id \in Rows : Booked(d)[id] = 0
    BY DEF Init, Booked, NoRow
  <2> QED
    BY <1>1, <2>1, SumsTyped, SumBlank, LifecycleAssumption
<1>5. \A d \in Deals : SumFunction(Unwritten(d)) = 0
  <2> TAKE d \in Deals
  <2>1. \A p \in Procs : Unwritten(d)[p] = 0
    BY <1>2 DEF Unwritten
  <2> QED
    BY <1>1, <2>1, SumsTyped, SumBlank, LifecycleAssumption
<1>6. SumFunction(Uncredited) = 0
  <2>1. \A p \in Procs : Uncredited[p] = 0
    BY <1>2 DEF Uncredited
  <2> QED
    BY <1>1, <2>1, SumsTyped, SumBlank, LifecycleAssumption
<1>7. SumFunction(earned) = 0
  <2>1. \A d \in Deals : earned[d] = 0
    BY DEF Init
  <2> QED
    BY <1>1, <2>1, SumsTyped, SumBlank, LifecycleAssumption
<1>8. RowsBookEarnings
  BY <1>4, <1>5 DEF Init, RowsBookEarnings
<1>9. AccountBooksEarnings
  BY <1>6, <1>7 DEF Init, AccountBooksEarnings
<1> QED
  BY <1>1, <1>3, <1>8, <1>9 DEF MoneyInv, EarningsBooked

LEMMA StepMoney == MoneyInv /\ [Next]_vars => MoneyInv'
<1> SUFFICES ASSUME MoneyInv, [Next]_vars PROVE MoneyInv'
  OBVIOUS
<1>1. LifeInv /\ LifeInv'
  BY StepLife DEF MoneyInv
<1>2. ASSUME NEW p \in Procs, NEW kind \in Closing, NEW id \in Rows, NEW ask \in 1..Full,
             BeginClose(p, kind, id, ask)
      PROVE  MoneyInv'
  BY <1>1, <1>2, BeginCloseBooks
<1>3. ASSUME NEW p \in Procs, NEW kind \in Syncing, BeginSync(p, kind) PROVE MoneyInv'
  BY <1>1, <1>3, SyncBooks
<1>4. ASSUME NEW p \in Procs, Continue(p) PROVE MoneyInv'
  BY <1>1, <1>4, AssertStopLossBooks, MarkClosingBooks, CallBrokerBooks, VerifyCloseBooks,
     VerifyPartialBooks, WriteResultBooks, CreditAccountBooks, SyncBooks, VisitRowBooks,
     AdoptBooks DEF Continue
<1>5. ASSUME UNCHANGED op, CalmRows, FaultsStay, UNCHANGED <<earned, today>> PROVE MoneyInv'
  <2>1. CalmOps /\ CalmCloses
    BY <1>5 DEF CalmOps, CalmOp, CalmCloses
  <2> QED
    BY <1>1, <1>5, <2>1, CalmKeeps
<1>6. ASSUME NEW d \in Deals, BrokerFills(d) \/ BrokerCloses(d) \/ EditStop(d) PROVE MoneyInv'
  <2>1. CalmRows /\ UNCHANGED op /\ UNCHANGED <<earned, today>> /\ UNCHANGED faults
    BY <1>6 DEF BrokerFills, BrokerCloses, EditStop, CalmRows
  <2> QED
    BY <1>1, <1>5, <2>1, FaultsOnly
<1>7. ASSUME NEW d \in Deals, NEW id \in Rows, CreatePosition(d, id) PROVE MoneyInv'
  <2>1. CalmRows
    BY <1>1, <1>7, NewRowCalm DEF CreatePosition
  <2>2. UNCHANGED op /\ UNCHANGED <<earned, today>> /\ UNCHANGED faults
    BY <1>7 DEF CreatePosition, deals
  <2> QED
    BY <1>1, <1>5, <2>1, <2>2, FaultsOnly
<1>8. CASE Crash
  BY <1>1, <1>8, CrashBooks
<1>9. CASE UNCHANGED vars
  <2>1. CalmRows /\ UNCHANGED op /\ UNCHANGED <<earned, today>> /\ UNCHANGED faults
    BY <1>9 DEF vars, CalmRows, faults
  <2> QED
    BY <1>1, <1>5, <2>1, FaultsOnly
<1> QED
  BY <1>2, <1>3, <1>4, <1>6, <1>7, <1>8, <1>9 DEF Next

\* With any number of closes, partial closes, syncs and fills, what the deals
\* earn is booked once in their rows and credited once to the account's day, as
\* long as no call is lost, nothing crashes and, for the rows, no closes overlap.
THEOREM EarningsAreBooked == Spec => []EarningsBooked
<1>1. MoneyInv => EarningsBooked
  BY DEF MoneyInv
<1> QED
  BY <1>1, InitMoney, StepMoney, PTL DEF Spec
=============================================================================
