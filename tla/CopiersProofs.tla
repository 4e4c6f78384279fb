--------------------------- MODULE CopiersProofs ---------------------------
(***************************************************************************)
(* Proofs about ScaleOut and Copiers for any plan of targets, any          *)
(* followers and handlers, any volumes of the master and of its copies,    *)
(* and any number of failures.                                             *)
(***************************************************************************)
EXTENDS Copiers, SumTheorems, TLAPS

\* What a copy of volume v has come to once one handler or more have been at it.
Halved(d, v) == d = v \/ d <= v \div 2

\* The master's volumes, which a copy's volume comes from.
Steps == {"idle", "look", "take", "mark", "call", "verify", "write", "publish", "note", "fail"}
Op == [at : Steps, whole : BOOLEAN, ask : Int, seen : Nat, left : Nat, idx : Int, price : Int]
MasterOK ==
  /\ deal \in Nat
  /\ row \in [status : {"OPEN", "CLOSING", "CLOSED"}, vol : Nat]
  /\ op \in [Procs -> Op]

Copy == [deal : Nat, status : {"none", "OPEN", "CLOSED"}, vol : Nat]
Opening == [at : {"event", "next", "error", "place", "create", "done"},
            todo : SUBSET Followers, f : Followers \cup {"none"}, vol : Nat]
Part == [at : {"idle", "next", "call", "write"}, todo : SUBSET Followers,
         f : Followers \cup {"none"}, ask : Nat, left : Nat]

Typed == copy \in [Followers -> Copy] /\ opening \in Opening /\ parts \in [Handlers -> Part]

\* Whatever volume of a copy is written down - in its row, by the execution that
\* makes it, by a handler that is about to close half of it or that has done so -
\* the broker has that volume, or half of it at most.  A copy that is still to be
\* made has no row, so that no handler knows it.
RowOK(r) == r.status = "OPEN" => Halved(r.deal, r.vol)

OpeningOK ==
  /\ \A f \in opening.todo : copy[f].status = "none"
  /\ opening.at \in {"place", "create"} =>
       /\ opening.f \in Followers \ opening.todo
       /\ copy[opening.f].status = "none"
  /\ opening.at = "create" => Halved(copy[opening.f].deal, CopyVolume(opening.f))

PartOK(o, c) ==
  /\ \A f \in o.todo : c[f].status # "none"
  /\ o.at \in {"call", "write"} => o.f \in Followers /\ c[o.f].status # "none"
  /\ o.at = "call" => o.ask = Half(o.ask + o.left) /\ Halved(c[o.f].deal, o.ask + o.left)
  /\ o.at = "write" => Halved(c[o.f].deal, o.left)

CopiesOK ==
  /\ Typed /\ OpeningOK
  /\ \A f \in Followers : RowOK(copy[f])
  /\ \A h \in Handlers : PartOK(parts[h], copy)

IInv == MasterOK /\ CopiesOK

\* What the copies that a handler may know come to: none goes, and what closes is
\* half or more.
Falls(c, d) ==
  \A f \in Followers :
    \/ c[f].status = "none"
    \/ /\ d[f].status # "none"
       /\ d[f].deal = c[f].deal \/ d[f].deal <= c[f].deal \div 2

-----------------------------------------------------------------------------
\* The slices of the plan are volumes.
LEMMA SlicesAreVolumes == Last \in Nat /\ \A i \in Targets : i \in Int /\ Slices[i] \in Int
<1> DEFINE n == IF Count < Size THEN Count ELSE Size
           base == Size \div n
<1>1. n \in Nat \ {0} /\ ~(Size < 2) /\ Size \in Nat
  BY ScaleOutAssumption
<1>2. base \in Int
  BY <1>1
<1>3. Slices = [i \in 1..n |-> IF i <= Size % n THEN base + 1 ELSE base]
  BY <1>1 DEF Slices, SliceVolumes
<1> HIDE DEF n, base
<1>4. Targets = 1..n
  BY <1>3 DEF Targets
<1>5. Slices \in Seq(Int)
  BY <1>1, <1>2, <1>3
<1> QED
  BY <1>1, <1>2, <1>3, <1>4, <1>5 DEF Last

\* A desk that begins a close.
LEMMA Begun ==
  \A i \in Op, whole \in BOOLEAN, ask \in Int :
    [i EXCEPT !.at = "take", !.whole = whole, !.ask = ask] \in Op
  BY DEF Op, Steps

\* A pass that goes on with the next level.
LEMMA Resumed ==
  \A i, o \in Op : [i EXCEPT !.at = "look", !.price = o.price] \in Op
  BY DEF Op, Steps

\* No step of the master's scale-out takes its volumes out of the naturals.
LEMMA MasterStep == MasterOK /\ ScaleNext => MasterOK'
<1> SUFFICES ASSUME MasterOK, ScaleNext PROVE MasterOK'
  OBVIOUS
<1>0. Idle \in Op
  BY DEF Idle, Op, Steps
<1> USE <1>0 DEF MasterOK, Procs, Steps, Op, At, Goto, Thrown, Fault, NoFault
<1>1. ASSUME NEW m \in Int, BeginPass(m) PROVE MasterOK'
  BY <1>1 DEF BeginPass, position
<1>2. CASE Look
  <2>1. CASE op' = [op EXCEPT !["pass"] = Idle]
    BY <1>2, <2>1 DEF Look, position
  <2>2. CASE op' # [op EXCEPT !["pass"] = Idle]
    <3> DEFINE whole(i) == IsLast(i) \/ row.vol <= 1 \/ Slices[i] >= row.vol
               ask(i) == IF whole(i) THEN 0 ELSE Slices[i]
    <3>1. PICK i \in Unfinished :
            op' = [op EXCEPT !["pass"] = IF i > @.price THEN Idle
                    ELSE [@ EXCEPT !.at = "take", !.idx = i, !.whole = whole(i), !.ask = ask(i)]]
      BY <1>2, <2>2 DEF Look
    <3>2. i \in Int /\ whole(i) \in BOOLEAN /\ ask(i) \in Int
      BY SlicesAreVolumes DEF Unfinished
    <3> HIDE DEF whole, ask
    <3> QED
      BY ZenonT(60), <1>2, <2>2, <3>1, <3>2 DEF Look, position
  <2> QED
    BY <2>1, <2>2
<1>3. CASE Note \/ Fail
  <2> DEFINE next == [Idle EXCEPT !.at = "look", !.price = op["pass"].price]
  <2>1. next \in Op
    BY Resumed
  <2>2. UNCHANGED <<deal, row>> /\ (\/ op' = [op EXCEPT !["pass"] = Idle]
                                   \/ op' = [op EXCEPT !["pass"] = next])
    BY <1>3, Zenon DEF Note, Fail
  <2> HIDE DEF next
  <2> QED
    BY <2>1, <2>2
<1>4. ASSUME NEW p \in Procs, Continue(p) PROVE MasterOK'
  <2>1. CASE Take(p)
    BY <1>4, <2>1 DEF Take, position
  <2>2. CASE MarkClosing(p)
    BY <1>4, <2>2 DEF MarkClosing
  <2>3. CASE CallBroker(p)
    <3>1. Asked(p) > 0 => deal - Asked(p) \in Nat
      BY <1>4 DEF Asked
    <3> QED
      BY <1>4, <2>3, <3>1 DEF CallBroker
  <2>4. CASE VerifyClose(p)
    BY <1>4, <2>4 DEF VerifyClose
  <2>5. CASE VerifyPartial(p)
    BY <1>4, <2>5 DEF VerifyPartial
  <2>6. CASE WriteResult(p)
    BY <1>4, <2>6 DEF WriteResult
  <2>7. CASE Publish(p)
    BY <1>4, <2>7 DEF Publish, position
  <2> QED
    BY <1>4, <2>1, <2>2, <2>3, <2>4, <2>5, <2>6, <2>7 DEF Continue
<1>5. CASE BeginDesk(TRUE, 0)
  <2>1. op' = [op EXCEPT !["desk"] = [Idle EXCEPT !.at = "take", !.whole = TRUE, !.ask = 0]]
        /\ UNCHANGED <<deal, row>>
    BY <1>5 DEF BeginDesk, position
  <2>2. [Idle EXCEPT !.at = "take", !.whole = TRUE, !.ask = 0] \in Op
    <3>1. TRUE \in BOOLEAN /\ 0 \in Int /\ Idle \in Op
      BY <1>0
    <3> QED
      BY <3>1, Begun, Zenon
  <2> QED
    BY <2>1, <2>2
<1>6. ASSUME NEW ask \in Int, BeginDesk(FALSE, ask) PROVE MasterOK'
  <2>1. op' = [op EXCEPT !["desk"] = [Idle EXCEPT !.at = "take", !.whole = FALSE, !.ask = ask]]
        /\ UNCHANGED <<deal, row>>
    BY <1>6 DEF BeginDesk, position
  <2> QED
    BY <2>1, Begun
<1>7. CASE NativeClose \/ Sync
  BY <1>7 DEF NativeClose, Sync
<1>8. 0..Last \subseteq Int /\ 1..(Size - 1) \subseteq Int
  BY ScaleOutAssumption, SlicesAreVolumes
<1> HIDE DEF MasterOK, Op, Steps, At, Goto, Thrown, Fault, NoFault
<1>9. "pass" \in Procs /\ "desk" \in Procs
  BY DEF Procs
<1>10. (\E m \in 0..Last : BeginPass(m)) => MasterOK'
  BY <1>1, <1>8
<1>11. (\E ask \in 1..(Size - 1) : BeginDesk(FALSE, ask)) => MasterOK'
  BY <1>6, <1>8
<1> QED
  BY <1>2, <1>3, <1>4, <1>5, <1>7, <1>9, <1>10, <1>11 DEF ScaleNext, Manage

-----------------------------------------------------------------------------
\* A copy that falls to half of itself or less is still within what anybody has
\* written down of it.
LEMMA HalvedAgain ==
  ASSUME NEW d \in Nat, NEW v \in Nat, NEW e \in Nat, Halved(d, v), e <= d \div 2
  PROVE  Halved(e, v)
<1>1. CASE d = v
  BY <1>1 DEF Halved
<1>2. CASE d <= v \div 2
  <2>1. d \div 2 <= d
    OBVIOUS
  <2> QED
    BY <1>2, <2>1 DEF Halved
<1> QED
  BY <1>1, <1>2 DEF Halved

\* A handler that goes by a volume of which the broker has half at most is refused;
\* one whose volume is the broker's leaves half of it.
LEMMA HalfIsClosed ==
  ASSUME NEW d \in Nat, NEW ask \in Nat, NEW left \in Nat,
         ask = Half(ask + left), Halved(d, ask + left),
         NEW n, n = (IF left = 0 THEN d ELSE IF ask < d THEN ask ELSE 0)
  PROVE  n = 0 \/ (n > 0 /\ d - n = d \div 2)
<1> DEFINE v == ask + left
<1>1. v \in Nat /\ 2 * ask \in v..(v + 1) /\ v \div 2 = left
  BY DEF Half
<1>2. CASE left = 0
  BY <1>1, <1>2 DEF Halved, Half
<1>3. CASE left # 0 /\ d = v
  BY <1>1, <1>3
<1>4. CASE left # 0 /\ d <= v \div 2
  BY <1>1, <1>4
<1> QED
  BY <1>2, <1>3, <1>4 DEF Halved

LEMMA HalfIsNat == \A v \in Nat : Half(v) \in Nat /\ v - Half(v) \in Nat
  BY DEF Half

LEMMA CopyVolumeIsNat ==
  ASSUME Typed, NEW f \in Followers PROVE CopyVolume(f) \in Nat
  BY CopiersAssumption DEF Typed, Opening, CopyVolume

\* A handler that stays where it is has nothing to fear from the steps of others.
LEMMA PartStays ==
  ASSUME NEW c \in [Followers -> Copy], NEW d \in [Followers -> Copy], NEW o \in Part,
         PartOK(o, c), Falls(c, d)
  PROVE  PartOK(o, d)
<1>1. ASSUME o.at \in {"call", "write"}, NEW v \in Nat, Halved(c[o.f].deal, v)
      PROVE  Halved(d[o.f].deal, v)
  <2>1. /\ o.f \in Followers /\ c[o.f].status # "none"
        /\ c[o.f].deal \in Nat /\ d[o.f].deal \in Nat
    BY <1>1 DEF PartOK, Copy
  <2>2. d[o.f].deal = c[o.f].deal \/ d[o.f].deal <= c[o.f].deal \div 2
    BY <2>1 DEF Falls
  <2> QED
    BY <1>1, <2>1, <2>2, HalvedAgain
<1>2. o.ask + o.left \in Nat /\ o.left \in Nat
  BY DEF Part
<1> QED
  BY <1>1, <1>2 DEF PartOK, Falls, Part

\* The steps of onMasterPositionOpened: the handlers stay where they are.
LEMMA OpenedKeeps == MasterOK /\ CopiesOK /\ OpenedStep => CopiesOK'
<1> SUFFICES ASSUME MasterOK, CopiesOK, OpenedStep PROVE CopiesOK'
  OBVIOUS
<1>1. ASSUME UNCHANGED copy, UNCHANGED parts, opening' \in Opening, OpeningOK' PROVE CopiesOK'
  BY <1>1 DEF CopiesOK, Typed
<1>2. CASE TakeOpened
  BY <1>1, <1>2 DEF TakeOpened, MasterOK, CopiesOK, Typed, Opening, OpeningOK
<1>3. ASSUME NEW f \in Followers, TakeFollower(f) PROVE CopiesOK'
  BY <1>1, <1>3 DEF TakeFollower, CopiesOK, Typed, Opening, OpeningOK
<1>4. CASE CopyError
  BY <1>1, <1>4 DEF CopyError, SkipFollower, CopiesOK, Typed, Opening, OpeningOK
<1>5. CASE EndOpened
  BY <1>1, <1>5 DEF EndOpened, CopiesOK, Typed, Opening, OpeningOK
<1>6. ASSUME copy' \in [Followers -> Copy], Falls(copy, copy'), UNCHANGED parts,
             opening' \in Opening, OpeningOK', \A f \in Followers : RowOK(copy'[f])
      PROVE  CopiesOK'
  BY <1>6, PartStays DEF CopiesOK, Typed
<1>7. CASE PlaceCopy
  <2>1. PICK f \in Followers, n \in Nat : /\ f = opening.f /\ n = CopyVolume(f)
                                         /\ f \notin opening.todo /\ copy[f].status = "none"
    BY <1>7, CopyVolumeIsNat DEF PlaceCopy, CopiesOK, OpeningOK
  <2>2. \/ copy' = copy /\ opening' = [opening EXCEPT !.at = "error"]
        \/ copy' = [copy EXCEPT ![f].deal = n] /\ opening' = [opening EXCEPT !.at = "error"]
        \/ copy' = [copy EXCEPT ![f].deal = n] /\ opening' = [opening EXCEPT !.at = "create"]
    BY <1>7, <2>1 DEF PlaceCopy
  <2>3. opening' \in Opening /\ opening'.f = f /\ opening'.vol = opening.vol
        /\ opening'.todo = opening.todo /\ opening'.at \in {"error", "create"}
    BY <2>1, <2>2 DEF CopiesOK, Typed, Opening
  <2>4. copy' \in [Followers -> Copy]
    BY <2>1, <2>2 DEF CopiesOK, Typed, Copy
  <2>5. \A x \in Followers : x # f => copy'[x] = copy[x]
    BY <2>1, <2>2 DEF CopiesOK, Typed
  <2>6. copy'[f].status = "none" /\ (opening'.at = "create" => copy'[f].deal = n)
    BY <2>1, <2>2 DEF CopiesOK, Typed, Copy, Opening
  <2>7. CopyVolume(opening.f)' = n
    BY <2>1, <2>3 DEF CopyVolume
  <2>8. Falls(copy, copy')
    BY <2>1, <2>5 DEF Falls
  <2>9. \A x \in Followers : RowOK(copy'[x])
    BY <2>5, <2>6 DEF CopiesOK, RowOK
  <2>10. OpeningOK'
    <3>1. \A x \in opening'.todo : copy'[x].status = "none"
      BY <2>1, <2>3, <2>5, <2>6 DEF CopiesOK, Typed, Opening, OpeningOK
    <3>2. opening'.at = "create" => Halved(copy'[opening'.f].deal, CopyVolume(opening.f)')
      BY <2>3, <2>6, <2>7 DEF Halved
    <3> QED
      BY <2>1, <2>3, <2>6, <3>1, <3>2 DEF OpeningOK
  <2> QED
    BY <1>6, <1>7, <2>3, <2>4, <2>8, <2>9, <2>10 DEF PlaceCopy
<1>8. CASE CreateCopy
  <2>1. PICK f \in Followers, n \in Nat :
           /\ f = opening.f /\ n = CopyVolume(f) /\ f \notin opening.todo
           /\ copy[f].status = "none" /\ Halved(copy[f].deal, n)
    BY <1>8, CopyVolumeIsNat DEF CreateCopy, CopiesOK, OpeningOK
  <2>2. opening' \in Opening /\ opening'.todo = opening.todo /\ opening'.at = "next"
    BY <1>8 DEF CreateCopy, CopiesOK, Typed, Opening
  <2>3. copy' \in [Followers -> Copy] /\ copy'[f].deal = copy[f].deal /\ copy'[f].vol = n
    BY <1>8, <2>1 DEF CreateCopy, CopiesOK, Typed, Copy
  <2>4. \A x \in Followers : x # f => copy'[x] = copy[x]
    BY <1>8, <2>1 DEF CreateCopy, CopiesOK, Typed
  <2>5. Falls(copy, copy')
    BY <2>1, <2>4 DEF Falls
  <2>6. \A x \in Followers : RowOK(copy'[x])
    BY <2>1, <2>3, <2>4 DEF CopiesOK, RowOK
  <2>7. OpeningOK'
    BY <2>1, <2>2, <2>4 DEF CopiesOK, Typed, Opening, OpeningOK
  <2> QED
    BY <1>6, <1>8, <2>2, <2>3, <2>5, <2>6, <2>7 DEF CreateCopy
<1> QED
  BY <1>2, <1>3, <1>4, <1>5, <1>7, <1>8 DEF OpenedStep

\* A step of handler h, which comes to o: the others stay where they are.
LEMMA HandlersApart ==
  ASSUME CopiesOK, NEW h \in Handlers, NEW o \in Part, parts' = [parts EXCEPT ![h] = o],
         copy' \in [Followers -> Copy], Falls(copy, copy'), PartOK(o, copy'),
         \A f \in Followers : RowOK(copy'[f]), UNCHANGED opening, OpeningOK'
  PROVE  CopiesOK'
<1>1. parts' \in [Handlers -> Part] /\ parts'[h] = o
      /\ \A q \in Handlers : q # h => parts'[q] = parts[q]
  BY DEF CopiesOK, Typed
<1>2. \A q \in Handlers : PartOK(parts'[q], copy')
  BY <1>1, PartStays DEF CopiesOK, Typed
<1> QED
  BY <1>1, <1>2 DEF CopiesOK, Typed

\* A copy that is known to a handler is not the one being made.
LEMMA KnownApart ==
  ASSUME CopiesOK, NEW f \in Followers, NEW r \in Copy, copy[f].status # "none",
         copy' = [copy EXCEPT ![f] = r], UNCHANGED opening
  PROVE  OpeningOK' /\ copy' \in [Followers -> Copy]
<1>1. copy' \in [Followers -> Copy] /\ \A x \in Followers : x # f => copy'[x] = copy[x]
  BY DEF CopiesOK, Typed
<1>2. f \notin opening.todo /\ (opening.at \in {"place", "create"} => opening.f # f)
  BY DEF CopiesOK, OpeningOK
<1>3. CopyVolume(opening.f)' = CopyVolume(opening.f)
  BY DEF CopyVolume
<1>4. opening.todo \subseteq Followers
  BY DEF CopiesOK, Typed, Opening
<1> QED
  BY <1>1, <1>2, <1>3, <1>4 DEF CopiesOK, OpeningOK

\* The steps of onMasterPartialClose.
LEMMA PartKeeps == ASSUME CopiesOK, NEW h \in Handlers, PartStep(h) \/ TakePart(h) PROVE CopiesOK'
<1> DEFINE skip == [NoPart EXCEPT !.at = "next", !.todo = parts[h].todo]
<1>1. NoPart \in Part /\ parts[h] \in Part /\ PartOK(parts[h], copy)
  BY DEF CopiesOK, Typed, NoPart, Part
<1>2. skip \in Part /\ skip.todo = parts[h].todo /\ skip.at = "next"
  BY <1>1 DEF Part
<1>3. CopyVolume(opening.f)' = CopyVolume(opening.f) \/ opening' # opening
  BY DEF CopyVolume
<1>4. UNCHANGED <<copy, opening>> => OpeningOK' /\ Falls(copy, copy')
  BY <1>3 DEF CopiesOK, OpeningOK, Falls
<1>5. CASE TakePart(h)
  <2> DEFINE o == [parts[h] EXCEPT !.at = "next", !.todo = {f \in Followers : copy[f].status # "none"}]
  <2>1. o \in Part /\ PartOK(o, copy) /\ parts' = [parts EXCEPT ![h] = o]
    BY <1>1, <1>5 DEF TakePart, Part, PartOK
  <2> QED
    BY <1>4, <1>5, <2>1, HandlersApart DEF TakePart, CopiesOK, Typed
<1>6. CASE EndPart(h)
  <2>1. PartOK(NoPart, copy)
    BY DEF NoPart, PartOK
  <2> QED
    BY <1>1, <1>4, <1>6, <2>1, HandlersApart DEF EndPart, CopiesOK, Typed
<1>7. ASSUME NEW f \in Followers, ReadCopy(h, f) PROVE CopiesOK'
  <2>1. copy[f] \in Copy /\ RowOK(copy[f]) /\ copy[f].status # "none" /\ parts[h].at = "next"
    BY <1>1, <1>7 DEF ReadCopy, CopiesOK, Typed, PartOK
  <2>2. PICK v \in Nat, half \in Nat :
           v = copy[f].vol /\ half = Half(v) /\ v - half \in Nat /\ half + (v - half) = v
    BY <2>1, HalfIsNat DEF Copy
  <2> DEFINE rest == parts[h].todo \ {f}
             asks == [at |-> "call", todo |-> rest, f |-> f, ask |-> half, left |-> v - half]
             passes == [parts[h] EXCEPT !.todo = rest]
  <2>3. asks \in Part /\ passes \in Part /\ passes.todo = rest /\ passes.at = "next"
    BY <1>1, <2>1, <2>2 DEF Part
  <2>4. /\ UNCHANGED <<copy, opening>>
        /\ copy[f].status = "OPEN" => parts' = [parts EXCEPT ![h] = asks]
        /\ copy[f].status # "OPEN" => parts' = [parts EXCEPT ![h] = passes]
    <3>1. UNCHANGED <<copy, opening>>
      BY <1>7 DEF ReadCopy
    <3>2. CASE copy[f].status = "OPEN"
      BY <1>7, <2>2, <3>1, <3>2 DEF ReadCopy
    <3>3. CASE copy[f].status # "OPEN"
      BY <1>7, <3>1, <3>3 DEF ReadCopy
    <3> QED
      BY <3>1, <3>2, <3>3
  <2>5. /\ copy[f].status = "OPEN" => PartOK(asks, copy)
        /\ PartOK(passes, copy)
    BY <1>1, <2>1, <2>2, <2>3 DEF PartOK, RowOK
  <2> HIDE DEF asks, passes
  <2> QED
    BY <1>4, <2>3, <2>4, <2>5, HandlersApart DEF CopiesOK, Typed
<1>8. CASE CloseHalf(h)
  <2>1. PICK f \in Followers : f = parts[h].f /\ copy[f] \in Copy /\ copy[f].status # "none"
    BY <1>1, <1>8 DEF CloseHalf, PartOK, CopiesOK, Typed
  <2> DEFINE d == copy[f].deal
             n == IF parts[h].left = 0 THEN d ELSE IF parts[h].ask < d THEN parts[h].ask ELSE 0
             r == [copy[f] EXCEPT !.deal = d - n]
             written == [parts[h] EXCEPT !.at = "write", !.left = d - n]
  <2>2. n = 0 \/ (n > 0 /\ d - n = d \div 2)
    <3>1. d \in Nat /\ parts[h].ask \in Nat /\ parts[h].left \in Nat
      BY <1>1, <2>1 DEF Part, Copy
    <3>2. parts[h].ask = Half(parts[h].ask + parts[h].left) /\ Halved(d, parts[h].ask + parts[h].left)
      BY <1>1, <1>8, <2>1 DEF CloseHalf, PartOK
    <3> QED
      BY <3>1, <3>2, HalfIsClosed
  <2>3. \/ copy' = copy /\ parts' = [parts EXCEPT ![h] = skip]
        \/ copy' = [copy EXCEPT ![f] = r] /\ parts' = [parts EXCEPT ![h] = skip]
        \/ n > 0 /\ copy' = [copy EXCEPT ![f] = r] /\ parts' = [parts EXCEPT ![h] = written]
    BY <1>8, <2>1 DEF CloseHalf, SkipPart
  <2>4. d \in Nat /\ d - n \in Nat /\ (d - n = d \/ d - n <= d \div 2)
    BY <2>1, <2>2 DEF Copy
  <2> HIDE DEF n
  <2>5. r \in Copy /\ RowOK(r) /\ written \in Part
    <3>1. Halved(d, copy[f].vol) => Halved(d - n, copy[f].vol)
      BY <2>1, <2>4, HalvedAgain DEF Copy
    <3> QED
      BY <1>1, <2>1, <2>4, <3>1 DEF Copy, Part, RowOK, CopiesOK
  <2>6. ASSUME copy' = [copy EXCEPT ![f] = r]
        PROVE  /\ OpeningOK' /\ copy' \in [Followers -> Copy] /\ Falls(copy, copy')
               /\ \A x \in Followers : RowOK(copy'[x])
               /\ PartOK(skip, copy') /\ PartOK(written, copy')
    <3>1. OpeningOK' /\ copy' \in [Followers -> Copy]
      BY <1>8, <2>1, <2>5, <2>6, KnownApart DEF CloseHalf
    <3>2. copy'[f] = r /\ (\A x \in Followers : x # f => copy'[x] = copy[x])
      BY <2>6 DEF CopiesOK, Typed
    <3>3. r.deal = d - n /\ r.status = copy[f].status
      BY <2>1 DEF Copy
    <3>4. Falls(copy, copy')
      BY ZenonT(60), <2>1, <2>4, <3>2, <3>3 DEF Falls
    <3>5. \A x \in Followers : RowOK(copy'[x])
      BY <2>5, <3>2 DEF CopiesOK
    <3>6. \A x \in parts[h].todo : x \in Followers /\ copy'[x].status # "none"
      BY <1>1, <2>1, <3>2, <3>3 DEF PartOK, Part
    <3>7. /\ written.todo = parts[h].todo /\ written.at = "write" /\ written.f = f
          /\ written.left = d - n
      BY <1>1, <2>1 DEF Part
    <3> HIDE DEF skip, written, r
    <3> QED
      BY <1>2, <2>1, <3>1, <3>2, <3>3, <3>4, <3>5, <3>6, <3>7 DEF PartOK, Halved
  <2>7. PartOK(skip, copy)
    BY <1>1, <1>2 DEF PartOK
  <2> HIDE DEF skip, written, r
  <2> QED
    BY <1>2, <1>4, <1>8, <2>3, <2>5, <2>6, <2>7, HandlersApart DEF CloseHalf, CopiesOK, Typed
<1>9. CASE WriteCopy(h)
  <2>1. PICK f \in Followers : f = parts[h].f /\ copy[f] \in Copy /\ copy[f].status # "none"
    BY <1>1, <1>9 DEF WriteCopy, PartOK, CopiesOK, Typed
  <2> DEFINE left == parts[h].left
             r == [copy[f] EXCEPT !.status = IF left = 0 THEN "CLOSED" ELSE "OPEN", !.vol = left]
  <2>2. copy' = [copy EXCEPT ![f] = r] /\ parts' = [parts EXCEPT ![h] = skip]
    BY <1>9, <2>1 DEF WriteCopy, SkipPart
  <2>3. r \in Copy /\ r.deal = copy[f].deal /\ r.status # "none" /\ r.vol = left
    BY <1>1, <2>1 DEF Copy, Part
  <2>4. RowOK(r)
    BY <1>1, <1>9, <2>1, <2>3 DEF RowOK, PartOK, WriteCopy
  <2> HIDE DEF r, left
  <2>5. OpeningOK' /\ copy' \in [Followers -> Copy]
    BY <1>9, <2>1, <2>2, <2>3, KnownApart DEF WriteCopy
  <2>6. copy'[f] = r /\ (\A x \in Followers : x # f => copy'[x] = copy[x])
    BY <2>2 DEF CopiesOK, Typed
  <2>7. Falls(copy, copy')
    BY <2>3, <2>6 DEF Falls
  <2>8. PartOK(skip, copy')
    BY <1>1, <1>2, <2>3, <2>6 DEF PartOK, Part
  <2>9. \A x \in Followers : RowOK(copy'[x])
    BY <2>4, <2>6 DEF CopiesOK
  <2> HIDE DEF skip
  <2> QED
    BY <1>2, <1>9, <2>2, <2>5, <2>7, <2>8, <2>9, HandlersApart DEF WriteCopy
<1> QED
  BY <1>5, <1>6, <1>7, <1>8, <1>9 DEF PartStep

\* The follower's own broker and the sync of its account.
LEMMA FollowerKeeps ==
  ASSUME CopiesOK, NEW f \in Followers, NativeCopyClose(f) \/ SyncCopy(f)
  PROVE  CopiesOK'
<1>1. PICK r \in Copy : /\ copy' = [copy EXCEPT ![f] = r]
                        /\ r.deal = copy[f].deal \/ r.deal = 0
                        /\ r.status = "none" <=> copy[f].status = "none"
                        /\ RowOK(r)
  <2>1. copy[f] \in Copy /\ RowOK(copy[f]) /\ copy \in [Followers -> Copy]
    BY DEF CopiesOK, Typed
  <2>2. CASE NativeCopyClose(f)
    <3> DEFINE r == [copy[f] EXCEPT !.deal = 0]
    <3>1. r \in Copy /\ r.deal = 0 /\ r.status = copy[f].status /\ r.vol = copy[f].vol
      BY <2>1 DEF Copy
    <3>2. copy' = [copy EXCEPT ![f] = r]
      BY <2>1, <2>2 DEF NativeCopyClose
    <3>3. RowOK(r)
      BY <2>1, <3>1 DEF RowOK, Halved, Copy
    <3> HIDE DEF r
    <3> QED
      BY <3>1, <3>2, <3>3
  <2>3. CASE SyncCopy(f)
    <3> DEFINE r == [copy[f] EXCEPT !.status = IF copy[f].deal > 0 THEN "OPEN" ELSE "CLOSED",
                                    !.vol = copy[f].deal]
    <3>1. r \in Copy /\ r.deal = copy[f].deal /\ r.vol = copy[f].deal /\ r.status # "none"
      BY <2>1 DEF Copy
    <3>2. copy' = [copy EXCEPT ![f] = r] /\ copy[f].status # "none"
      BY <2>1, <2>3 DEF SyncCopy
    <3>3. RowOK(r)
      BY <3>1 DEF RowOK, Halved
    <3> HIDE DEF r
    <3> QED
      BY <3>1, <3>2, <3>3
  <2> QED
    BY <2>2, <2>3
<1>2. UNCHANGED <<opening, parts>>
  BY DEF NativeCopyClose, SyncCopy
<1>3. /\ copy' \in [Followers -> Copy] /\ copy'[f] = r
      /\ \A x \in Followers : x # f => copy'[x] = copy[x]
  BY <1>1 DEF CopiesOK, Typed
<1>4. Falls(copy, copy')
  BY <1>1, <1>3 DEF Falls, CopiesOK, Typed, Copy
<1>5. \A x \in Followers : RowOK(copy'[x])
  BY <1>1, <1>3 DEF CopiesOK
<1>6. OpeningOK'
  <2>1. CopyVolume(opening.f)' = CopyVolume(opening.f)
    BY <1>2 DEF CopyVolume
  <2>2. \A x \in Followers : copy[x].status = "none" => copy'[x].status = "none"
    BY <1>1, <1>3
  <2>3. opening.todo \subseteq Followers
    BY DEF CopiesOK, Typed, Opening
  <2>4. ASSUME opening.at = "create"
        PROVE  Halved(copy'[opening.f].deal, CopyVolume(opening.f))
    <3>1. PICK x \in Followers : x = opening.f /\ Halved(copy[x].deal, CopyVolume(x))
      BY <2>4 DEF CopiesOK, OpeningOK
    <3>2. copy[x].deal \in Nat /\ copy'[x].deal \in Nat /\ CopyVolume(x) \in Nat
      BY <1>3, CopyVolumeIsNat DEF CopiesOK, Typed, Copy
    <3>3. copy'[x].deal = copy[x].deal \/ copy'[x].deal = 0
      BY <1>1, <1>3
    <3> QED
      BY <3>1, <3>2, <3>3 DEF Halved
  <2> QED
    BY <1>2, <2>1, <2>2, <2>3, <2>4 DEF CopiesOK, OpeningOK
<1>7. \A h \in Handlers : PartOK(parts[h], copy')
  BY <1>3, <1>4, PartStays DEF CopiesOK, Typed
<1> QED
  BY <1>2, <1>3, <1>5, <1>6, <1>7 DEF CopiesOK, Typed

\* The copier starts, and a copier step leaves the master as it is.
LEMMA Start == CopiersInit => IInv
<1> SUFFICES ASSUME CopiersInit PROVE IInv
  OBVIOUS
<1>1. Idle \in Op
  BY DEF Idle, Op, Steps
<1>2. MasterOK
  BY <1>1, ScaleOutAssumption DEF CopiersInit, Init, MasterOK
<1>3. NoCopy \in Copy /\ NoCopy.status = "none" /\ NoPart \in Part /\ PartOK(NoPart, copy)
  BY DEF NoCopy, Copy, NoPart, Part, PartOK
<1>4. /\ \A f \in Followers : copy[f] = NoCopy
      /\ copy \in [Followers -> Copy]
      /\ parts \in [Handlers -> Part] /\ \A h \in Handlers : parts[h] = NoPart
  BY <1>3 DEF CopiersInit
<1>5. opening \in Opening /\ opening.at \in {"event", "done"}
  BY DEF CopiersInit, Opening
<1>6. opening.todo \subseteq Followers
  BY <1>5 DEF Opening
<1> QED
  BY <1>2, <1>3, <1>4, <1>5, <1>6 DEF IInv, CopiesOK, Typed, OpeningOK, RowOK

LEMMA MasterStays == ASSUME MasterOK, UNCHANGED <<position, op>> PROVE MasterOK'
  BY DEF MasterOK, position

\* The executions die with the process.
LEMMA CrashKeeps == ASSUME IInv, CopiersCrash PROVE IInv'
<1>1. Idle \in Op
  BY DEF Idle, Op, Steps
<1>2. MasterOK'
  BY <1>1 DEF IInv, MasterOK, CopiersCrash, Crash, position
<1>3. opening' \in Opening /\ opening'.at = "done" /\ opening'.todo = {}
  BY DEF IInv, CopiesOK, Typed, Opening, CopiersCrash
<1>4. UNCHANGED copy /\ parts' = [h \in Handlers |-> NoPart]
  BY DEF CopiersCrash
<1>5. NoPart \in Part /\ PartOK(NoPart, copy)
  BY DEF NoPart, Part, PartOK
<1> QED
  BY <1>2, <1>3, <1>4, <1>5 DEF IInv, CopiesOK, Typed, OpeningOK

LEMMA StepKeeps == ASSUME IInv, [Next]_copierVars PROVE IInv'
<1>1. CASE UNCHANGED copierVars
  <2>1. UNCHANGED <<deal, row, op, copy, opening, parts>>
    BY <1>1 DEF copierVars, vars, position, copies
  <2>2. CopyVolume(opening.f)' = CopyVolume(opening.f)
    BY <2>1 DEF CopyVolume
  <2> QED
    BY <2>1, <2>2 DEF IInv, MasterOK, CopiesOK, Typed, OpeningOK
<1>2. ASSUME UNCHANGED copies PROVE CopiesOK'
  <2>1. UNCHANGED <<copy, opening, parts>>
    BY <1>2 DEF copies
  <2>2. CopyVolume(opening.f)' = CopyVolume(opening.f)
    BY <2>1 DEF CopyVolume
  <2> QED
    BY <2>1, <2>2 DEF IInv, CopiesOK, Typed, OpeningOK
<1>3. UNCHANGED vars => UNCHANGED <<position, op>>
  BY DEF vars
<1>4. CASE ScaleNext /\ UNCHANGED copies
  BY <1>2, <1>4, MasterStep DEF IInv
<1>5. ASSUME NEW r \in BOOLEAN, SetRunning(r) PROVE IInv'
  <2>1. UNCHANGED <<position, op, copy, opening, parts>>
    BY <1>3, <1>5 DEF SetRunning
  <2>2. CopyVolume(opening.f)' = CopyVolume(opening.f)
    BY <2>1 DEF CopyVolume
  <2> QED
    BY <2>1, <2>2, MasterStays DEF IInv, CopiesOK, Typed, OpeningOK
<1>6. CASE OpenedStep
  <2>1. UNCHANGED vars
    BY <1>6 DEF OpenedStep, TakeOpened, TakeFollower, CopyError, PlaceCopy, CreateCopy, EndOpened
  <2> QED
    BY <1>3, <1>6, <2>1, OpenedKeeps, MasterStays DEF IInv
<1>7. ASSUME NEW h \in Handlers, PartStep(h) \/ TakePart(h) PROVE IInv'
  <2>1. UNCHANGED <<position, op>>
    BY <1>3, <1>7 DEF PartStep, TakePart, ReadCopy, CloseHalf, WriteCopy, EndPart
  <2> QED
    BY <1>7, <2>1, PartKeeps, MasterStays DEF IInv
<1>8. ASSUME NEW f \in Followers, NativeCopyClose(f) \/ SyncCopy(f) PROVE IInv'
  <2>1. UNCHANGED <<position, op>>
    BY <1>3, <1>8 DEF NativeCopyClose, SyncCopy
  <2> QED
    BY <1>8, <2>1, FollowerKeeps, MasterStays DEF IInv
<1>9. CASE CopiersCrash
  BY <1>9, CrashKeeps
<1> QED
  BY <1>1, <1>4, <1>5, <1>6, <1>7, <1>8, <1>9 DEF Next

-----------------------------------------------------------------------------
\* A step that takes handler h out of its call is its own CloseHalf, or the crash.
LEMMA OneHalf ==
  ASSUME IInv, Next, NEW h \in Handlers, parts[h].at = "call", parts'[h].at # "call"
  PROVE  copy'[parts[h].f].deal >= copy[parts[h].f].deal \div 2
<1>1. PICK f \in Followers : /\ f = parts[h].f /\ copy[f] \in Copy /\ PartOK(parts[h], copy)
                             /\ parts[h] \in Part /\ copy \in [Followers -> Copy]
  BY DEF IInv, CopiesOK, Typed, PartOK
<1>2. copy[f].deal \in Nat /\ copy[f].deal >= copy[f].deal \div 2
  BY <1>1 DEF Copy
<1>3. UNCHANGED copy => copy'[f].deal >= copy[f].deal \div 2
  BY <1>2
<1>4. CASE CloseHalf(h)
  <2> DEFINE d == copy[f].deal
             n == IF parts[h].left = 0 THEN d ELSE IF parts[h].ask < d THEN parts[h].ask ELSE 0
             r == [copy[f] EXCEPT !.deal = d - n]
  <2>1. n = 0 \/ (n > 0 /\ d - n = d \div 2)
    <3>1. d \in Nat /\ parts[h].ask \in Nat /\ parts[h].left \in Nat
      BY <1>1, <1>2 DEF Part
    <3>2. parts[h].ask = Half(parts[h].ask + parts[h].left) /\ Halved(d, parts[h].ask + parts[h].left)
      BY <1>1, <1>4 DEF CloseHalf, PartOK
    <3>3. n = IF parts[h].left = 0 THEN d ELSE IF parts[h].ask < d THEN parts[h].ask ELSE 0
      OBVIOUS
    <3> HIDE DEF d, n
    <3> QED
      BY ZenonT(60), <3>1, <3>2, <3>3, HalfIsClosed
  <2>2. UNCHANGED copy \/ copy' = [copy EXCEPT ![f] = r]
    BY <1>1, <1>4 DEF CloseHalf
  <2>3. r.deal = d - n
    BY <1>1 DEF Copy
  <2>4. CASE copy' = [copy EXCEPT ![f] = r]
    <3>1. copy'[f].deal = d - n
      BY <1>1, <2>3, <2>4
    <3> QED
      BY <1>1, <1>2, <2>1, <3>1
  <2> QED
    BY <1>1, <1>3, <2>2, <2>4
<1>5. ASSUME UNCHANGED parts PROVE FALSE
  BY <1>5
<1>6. ASSUME NEW q \in Handlers, PartStep(q) \/ TakePart(q) PROVE q = h
  <2>1. q # h => parts'[h] = parts[h]
    BY <1>6 DEF PartStep, TakePart, ReadCopy, CloseHalf, SkipPart, WriteCopy, EndPart,
                IInv, CopiesOK, Typed
  <2> QED
    BY <2>1
<1>7. PartStep(h) => CloseHalf(h)
  BY DEF PartStep, ReadCopy, WriteCopy, EndPart
<1>8. ~TakePart(h) \/ UNCHANGED copy
  BY DEF TakePart
<1>9. CopiersCrash => UNCHANGED copy
  BY DEF CopiersCrash
<1>10. (\E q \in {x \in Handlers : parts[x].at = "idle"} : TakePart(q)) => UNCHANGED copy
  BY DEF TakePart
<1>11. (\E q \in Handlers : PartStep(q)) => CloseHalf(h)
  BY <1>6, <1>7
<1>12. (ScaleNext /\ UNCHANGED copies) \/ (\E r \in BOOLEAN : SetRunning(r)) \/ OpenedStep
       \/ (\E x \in Followers : NativeCopyClose(x) \/ SyncCopy(x)) => UNCHANGED parts
  BY DEF copies, SetRunning, OpenedStep, TakeOpened, TakeFollower, CopyError, PlaceCopy, CreateCopy,
         EndOpened, NativeCopyClose, SyncCopy
<1> QED
  BY <1>1, <1>3, <1>4, <1>5, <1>9, <1>10, <1>11, <1>12 DEF Next

\* The volumes that are written down are true or too high by half at least: for
\* the rows, the execution that copies the master and the handlers that close.
THEOREM CopiesWithinRecords == Spec => []CopiesOK
<1>1. CopiersInit => IInv
  BY Start
<1>2. IInv /\ [Next]_copierVars => IInv'
  BY StepKeeps
<1>3. IInv => CopiesOK
  BY DEF IInv
<1> QED
  BY <1>1, <1>2, <1>3, PTL DEF Spec

\* However many slices of the master close at a time, no handler takes more than
\* half of what a copy has by then (416-452).
THEOREM HalfAtMost == Spec => AtMostHalf
<1> DEFINE Kept(h) == LET f == parts[h].f IN
             parts[h].at = "call" /\ parts'[h].at # "call" =>
               copy'[f].deal >= copy[f].deal \div 2
           A == \A h \in Handlers : Kept(h)
<1>1. IInv /\ [Next]_copierVars => [A]_copierVars
  <2> SUFFICES ASSUME IInv, Next PROVE A
    OBVIOUS
  <2> QED
    BY OneHalf
<1>2. Spec => []IInv
  <2>1. CopiersInit => IInv
    BY Start
  <2>2. IInv /\ [Next]_copierVars => IInv'
    BY StepKeeps
  <2> QED
    BY <2>1, <2>2, PTL DEF Spec
<1> QED
  BY <1>1, <1>2, PTL DEF Spec, AtMostHalf
-----------------------------------------------------------------------------
(***************************************************************************)
(* The plan of the slices, and the pass that closes them.                  *)
(***************************************************************************)
\* The levels are taken from the first on ...
Order == \A i, j \in Targets : i < j /\ level[j] = "EXECUTED" => level[i] = "EXECUTED"

\* ... so that a pass that is about to close a slice, or has done so, is at the
\* first level that is not executed, which the price has reached.
InHand(o) ==
  o.at \notin {"idle", "look"} =>
    /\ o.idx \in Targets /\ o.idx <= o.price
    /\ level[o.idx] # "EXECUTED"
    /\ \A j \in Targets : j < o.idx => level[j] = "EXECUTED"
    /\ o.ask = IF o.whole THEN 0 ELSE Slices[o.idx]

\* While only the pass closes and it records what it closes, what it has read is
\* true as long as the deal is open, and it means to close everything only at the
\* last target.
InPlan(o) ==
  /\ ender # "early"
  /\ o.at # "write" => row.vol = deal \/ deal = 0
  /\ deal > 0 /\ o.at = "write" => deal = o.left
  /\ deal > 0 /\ o.at \in {"mark", "call", "verify"} /\ ~o.whole => o.seen = deal
  /\ deal > 0 /\ o.at \in {"write", "publish", "note"} => ~o.whole
  /\ deal > 0 /\ o.at \notin {"idle", "look"} /\ o.whole => o.idx = Last

Levels == [Targets -> {"PENDING", "FAILED", "EXECUTED"}]

PlanInv ==
  /\ level \in Levels
  /\ deal > 0 <=> ender = "none"
  /\ ~desks => op["desk"].at = "idle"
  /\ Order /\ InHand(op["pass"])
  /\ ~lost /\ ~desks => InPlan(op["pass"]) /\ SlicesOnce

\* The slices of the first k targets.
SumTo(k) == SumFunctionOnSet(Slices, 1..k)

\* Every target has a slice, and the slices before the last target leave some of
\* the position.
LEMMA PlanOfSlices ==
  /\ Last \in Nat /\ Last > 1 /\ Targets = 1..Last /\ IsFiniteSet(Targets)
  /\ \A i \in Targets : Slices[i] \in Nat /\ Slices[i] > 0
  /\ \A i \in Targets : i < Last => SumTo(i) < Size
<1> DEFINE n == IF Count < Size THEN Count ELSE Size
           base == Size \div n
           rest == Size % n
<1>1. n \in Nat /\ n > 1 /\ n <= Size /\ ~(Size < 2) /\ Size \in Nat
  BY ScaleOutAssumption
<1>2. base \in Nat /\ rest \in Nat /\ rest < n /\ Size = n * base + rest
  <2>1. n \in 2..10
    BY ScaleOutAssumption
  <2> HIDE DEF n
  <2>2. CASE n = 2 \/ n = 3 \/ n = 4
    BY <1>1, <2>2
  <2>3. CASE n = 5 \/ n = 6 \/ n = 7
    BY <1>1, <2>3
  <2>4. CASE n = 8 \/ n = 9 \/ n = 10
    BY <1>1, <2>4
  <2> QED
    BY <2>1, <2>2, <2>3, <2>4
<1>3. base > 0
  <2> SUFFICES ASSUME base = 0 PROVE FALSE
    BY <1>2
  <2>1. n * base = 0
    BY <1>1
  <2> QED
    BY <1>1, <1>2, <2>1
<1>4. Slices = [i \in 1..n |-> IF i <= rest THEN base + 1 ELSE base]
  BY <1>1 DEF Slices, SliceVolumes
<1> HIDE DEF n, base, rest
<1>5. Targets = 1..n
  BY <1>4 DEF Targets
<1>6. Slices \in Seq(Int)
  BY <1>1, <1>2, <1>4
<1>7. Last = n
  BY <1>1, <1>4, <1>5, <1>6 DEF Last
<1>8. IsFiniteSet(1..n)
  BY <1>1, FS_Interval
<1> DEFINE Upto(k) == k * base + (IF k <= rest THEN k ELSE rest)
           B == {T \in SUBSET (1..n) : \E k \in 0..n : T = 1..k /\ SumTo(k) # Upto(k)}
<1>9. B = {}
  <2> SUFFICES ASSUME B # {} PROVE FALSE
    OBVIOUS
  <2>1. PICK T \in B : \A U \in B : U \subseteq T => U = T
    <3> DEFINE N == 1..n
    <3>1. B \in SUBSET (SUBSET N) /\ IsFiniteSet(N)
      BY <1>8
    <3> HIDE DEF B, N
    <3> QED
      BY <3>1, SmallestSet
  <2>2. PICK k \in 0..n : T = 1..k /\ SumTo(k) # Upto(k)
    BY <2>1
  <2>3. k # 0
    <3> SUFFICES ASSUME k = 0 PROVE FALSE
      OBVIOUS
    <3>1. 1..k = {}
      OBVIOUS
    <3>2. Upto(k) = 0
      BY <1>2
    <3> QED
      BY <2>2, <3>1, <3>2, SumNone DEF SumTo
  <2>4. 1..(k - 1) \notin B
    <3>1. 1..(k - 1) \subseteq 1..k /\ 1..(k - 1) # 1..k
      BY <1>1, <2>3
    <3> QED
      BY <2>1, <2>2, <3>1
  <2>5. SumTo(k - 1) = Upto(k - 1)
    <3>1. k - 1 \in 0..n /\ 1..(k - 1) \in SUBSET (1..n)
      BY <1>1, <2>3
    <3> QED
      BY <2>4, <3>1
  <2>6. SumTo(k) = Slices[k] + SumTo(k - 1)
    <3> DEFINE K == 1..k
    <3>1. k \in K /\ K \ {k} = 1..(k - 1)
      BY <1>1, <2>3
    <3>2. IsFiniteSet(K)
      BY <1>1, FS_Interval
    <3>3. \A i \in K : Slices[i] \in Int
      BY <1>1, <1>2, <1>4
    <3> HIDE DEF K
    <3>4. SumFunctionOnSet(Slices, K) = Slices[k] + SumFunctionOnSet(Slices, K \ {k})
      BY <3>1, <3>2, <3>3, SumTakeOut
    <3> QED
      BY <3>1, <3>4 DEF SumTo, K
  <2>7. k * base = (k - 1) * base + base
    BY <1>1, <1>2
  <2>8. Upto(k) = Slices[k] + Upto(k - 1)
    <3>1. Slices[k] = IF k <= rest THEN base + 1 ELSE base
      BY <1>1, <1>4, <2>3
    <3>2. k * base \in Int /\ (k - 1) * base \in Int
      BY <1>1, <1>2
    <3> QED
      BY <1>1, <1>2, <2>3, <2>7, <3>1, <3>2
  <2> QED
    BY <2>2, <2>5, <2>6, <2>8
<1>10. ASSUME NEW i \in 1..n, i < n PROVE SumTo(i) < Size
  <2>1. SumTo(i) = Upto(i)
    <3>1. i \in 0..n /\ 1..i \in SUBSET (1..n)
      BY <1>1
    <3> QED
      BY <1>9, <3>1
  <2>2. n * base = i * base + (n - i) * base
    BY <1>1, <1>2
  <2>3. (n - i) * base >= n - i
    BY <1>1, <1>2, <1>3, <1>10
  <2>4. n * base \in Int /\ i * base \in Int /\ (n - i) * base \in Int
    BY <1>1, <1>2
  <2> QED
    BY <1>1, <1>2, <1>10, <2>1, <2>2, <2>3, <2>4
<1>11. \A i \in 1..n : Slices[i] \in Nat /\ Slices[i] > 0
  BY <1>2, <1>3, <1>4
<1> QED
  BY <1>1, <1>5, <1>7, <1>8, <1>10, <1>11

\* The levels before the first one that is open are those that are executed.
LEMMA FirstLevel ==
  ASSUME level \in Levels, Order, NEW i \in Targets, level[i] # "EXECUTED",
         \A j \in Targets : j < i => level[j] = "EXECUTED"
  PROVE  /\ LevelsExecuted = 1..(i - 1)
         /\ SumFunctionOnSet(Slices, LevelsExecuted) \in Int
         /\ SumTo(i) = Slices[i] + SumFunctionOnSet(Slices, LevelsExecuted)
<1>1. Last \in Nat /\ Targets = 1..Last /\ \A j \in Targets : Slices[j] \in Nat
  BY PlanOfSlices
<1>2. LevelsExecuted = 1..(i - 1)
  <2>1. \A j \in Targets : j \in LevelsExecuted <=> j < i
    BY <1>1 DEF LevelsExecuted, Order
  <2> QED
    BY <1>1, <2>1 DEF LevelsExecuted
<1> DEFINE K == 1..i
<1>3. i \in K /\ K \ {i} = 1..(i - 1)
  BY <1>1
<1>4. IsFiniteSet(K) /\ IsFiniteSet(1..(i - 1))
  BY <1>1, FS_Interval
<1>5. \A j \in K : Slices[j] \in Int
  BY <1>1
<1>6. SumFunctionOnSet(Slices, 1..(i - 1)) \in Int
  BY <1>3, <1>4, <1>5, SumType
<1> HIDE DEF K
<1>7. SumFunctionOnSet(Slices, K) = Slices[i] + SumFunctionOnSet(Slices, K \ {i})
  BY <1>3, <1>4, <1>5, SumTakeOut
<1> QED
  BY <1>2, <1>3, <1>6, <1>7 DEF SumTo, K

\* The sum over the executed levels is a volume.
LEMMA SumIsInt == SumFunctionOnSet(Slices, LevelsExecuted) \in Int
<1>1. IsFiniteSet(LevelsExecuted)
  BY PlanOfSlices, FS_Subset DEF LevelsExecuted
<1>2. \A j \in LevelsExecuted : Slices[j] \in Int
  BY PlanOfSlices DEF LevelsExecuted
<1> QED
  BY <1>1, <1>2, SumType

\* The fields of an operation that goes on to there.
LEMMA Going ==
  ASSUME MasterOK, NEW p \in Procs, NEW there \in Steps, op' = [op EXCEPT ![p].at = there]
  PROVE  /\ op'[p].at = there
         /\ op'[p].whole = op[p].whole /\ op'[p].ask = op[p].ask /\ op'[p].seen = op[p].seen
         /\ op'[p].left = op[p].left /\ op'[p].idx = op[p].idx /\ op'[p].price = op[p].price
         /\ \A q \in Procs : q # p => op'[q] = op[q]
  BY DEF MasterOK, Op

\* A step of the pass that closes nothing and writes no level.
LEMMA PassGoesOn ==
  ASSUME MasterOK, PlanInv, UNCHANGED <<deal, level, ender, desks>>, lost => lost',
         op'["desk"] = op["desk"], InHand(op'["pass"]),
         ~lost' /\ ~desks /\ InPlan(op["pass"]) => InPlan(op["pass"])',
         ~lost' /\ ender = "none" =>
           /\ op["pass"].at \in {"write", "publish", "note"} <=> op'["pass"].at \in {"write", "publish", "note"}
           /\ op["pass"].at \in {"write", "publish", "note"} => op'["pass"].ask = op["pass"].ask
  PROVE  PlanInv'
<1>1. LevelsExecuted' = LevelsExecuted
  BY DEF LevelsExecuted
<1>2. SlicesOnce /\ ~lost /\ ~desks /\ ~lost' => SlicesOnce'
  BY <1>1 DEF SlicesOnce
<1>3. Order' /\ InHand(op["pass"])'
  BY DEF PlanInv, Order, InHand
<1> QED
  BY <1>2, <1>3 DEF PlanInv

LEMMA BeginPassKeeps ==
  ASSUME MasterOK, PlanInv, NEW mark, BeginPass(mark) PROVE PlanInv'
<1>1. op["pass"].at = "idle" /\ op'["pass"].at = "look" /\ op'["desk"] = op["desk"]
  BY DEF BeginPass, At, MasterOK, Op, Procs
<1>2. UNCHANGED <<deal, level, row, ender, desks, lost>>
  BY DEF BeginPass, position, history
<1>3. InPlan(op["pass"]) => InPlan(op["pass"])'
  BY <1>1, <1>2 DEF InPlan
<1> QED
  BY <1>1, <1>2, <1>3, PassGoesOn DEF InHand

LEMMA LookKeeps == ASSUME MasterOK, PlanInv, Look PROVE PlanInv'
<1>1. op["pass"].at = "look" /\ UNCHANGED <<deal, level, row, ender, desks, lost>>
  BY DEF Look, At, position, history
<1>2. CASE op' = [op EXCEPT !["pass"] = Idle]
  <2>1. op'["pass"].at = "idle" /\ op'["desk"] = op["desk"]
    BY <1>2 DEF MasterOK, Procs, Idle
  <2>2. InPlan(op["pass"]) => InPlan(op["pass"])'
    BY <1>1, <2>1 DEF InPlan
  <2> QED
    BY <1>1, <2>1, <2>2, PassGoesOn DEF InHand
<1>3. CASE op' # [op EXCEPT !["pass"] = Idle]
  <2> DEFINE whole(i) == IsLast(i) \/ row.vol <= 1 \/ Slices[i] >= row.vol
             ask(i) == IF whole(i) THEN 0 ELSE Slices[i]
  <2>1. PICK i \in Unfinished :
          /\ \A j \in Unfinished : i <= j
          /\ op' = [op EXCEPT !["pass"] = IF i > @.price THEN Idle
                     ELSE [@ EXCEPT !.at = "take", !.idx = i, !.whole = whole(i), !.ask = ask(i)]]
    BY <1>3 DEF Look
  <2>2. i <= op["pass"].price
    <3>1. Last \in Nat /\ Targets = 1..Last
      BY PlanOfSlices
    <3>2. op["pass"].price \in Int /\ i \in Int
      BY <3>1 DEF MasterOK, Procs, Op, Unfinished
    <3>3. i > op["pass"].price => op' = [op EXCEPT !["pass"] = Idle]
      BY <2>1
    <3> QED
      BY <1>3, <3>2, <3>3
  <2>3. whole(i) \in BOOLEAN
    OBVIOUS
  <2> DEFINE o == [op["pass"] EXCEPT !.at = "take", !.idx = i, !.whole = whole(i), !.ask = ask(i)]
  <2>4. op' = [op EXCEPT !["pass"] = o]
    <3>1. op' = [op EXCEPT !["pass"] = IF i > op["pass"].price THEN Idle ELSE o]
      BY <2>1, Zenon
    <3>2. ~(i > op["pass"].price)
      BY <2>2, PlanOfSlices DEF MasterOK, Procs, Op, Unfinished
    <3> QED
      BY <3>1, <3>2, Zenon
  <2>5. o.at = "take" /\ o.idx = i /\ o.whole = whole(i) /\ o.ask = ask(i) /\ o.price = op["pass"].price
    BY DEF MasterOK, Procs, Op
  <2> HIDE DEF o
  <2>6. op'["pass"] = o /\ op'["desk"] = op["desk"]
    BY <2>4 DEF MasterOK, Procs
  <2>7. level[i] # "EXECUTED" /\ \A j \in Targets : j < i => level[j] = "EXECUTED"
    BY <2>1, PlanOfSlices DEF Unfinished, PlanInv, Levels
  <2>8. i \in Targets
    BY <2>1 DEF Unfinished
  <2>9. InHand(o)
    BY <2>2, <2>5, <2>7, <2>8 DEF InHand
  <2>10. ASSUME ~lost, ~desks, deal > 0, i # Last PROVE ~whole(i)
    <3>1. Last \in Nat /\ Last > 1 /\ Targets = 1..Last /\ Slices[i] \in Nat /\ Slices[i] > 0 /\ SumTo(i) < Size
      BY <2>8, <2>10, PlanOfSlices
    <3>2. row.vol = deal /\ deal \in Nat /\ ender = "none"
      BY <1>1, <2>10 DEF PlanInv, InPlan, MasterOK
    <3>8. Size - deal = SumFunctionOnSet(Slices, LevelsExecuted)
      BY <1>1, <2>10, <3>2, SumIsInt DEF PlanInv, SlicesOnce
    <3>3. SumFunctionOnSet(Slices, LevelsExecuted) \in Int
          /\ SumTo(i) = Slices[i] + SumFunctionOnSet(Slices, LevelsExecuted)
      BY <2>7, <2>8, FirstLevel DEF PlanInv
    <3>4. Slices[i] < deal
      BY <3>1, <3>2, <3>3, <3>8, ScaleOutAssumption
    <3>5. level[Last] # "EXECUTED"
      BY <2>7, <2>8, <2>10, <3>1 DEF PlanInv, Order
    <3>6. Last \in Unfinished /\ Last > i
      BY <2>8, <2>10, <3>1, <3>5 DEF PlanInv, Levels, Unfinished
    <3>7. ~IsLast(i)
      BY <2>10, <3>6 DEF IsLast
    <3> QED
      BY <3>1, <3>2, <3>4, <3>7
  <2> HIDE DEF whole, ask
  <2>11. ~lost /\ ~desks /\ InPlan(op["pass"]) => InPlan(op["pass"])'
    BY <1>1, <2>5, <2>6, <2>10 DEF InPlan
  <2> QED
    BY <1>1, <2>5, <2>6, <2>9, <2>11, PassGoesOn
<1> QED
  BY <1>2, <1>3

\* The level of the slice in hand is written.
LEMMA NoteKeeps == ASSUME MasterOK, PlanInv, Note PROVE PlanInv'
<1> DEFINE o == op["pass"]
           i == o.idx
<1>1. o.at = "note" /\ UNCHANGED <<deal, row, ender, desks, lost>>
  BY DEF Note, At, history
<1>2. /\ i \in Targets /\ level[i] # "EXECUTED" /\ \A j \in Targets : j < i => level[j] = "EXECUTED"
      /\ o.ask = IF o.whole THEN 0 ELSE Slices[i]
  BY <1>1 DEF PlanInv, InHand
<1>3. level' = [level EXCEPT ![i] = "EXECUTED"] /\ level \in Levels
  BY DEF Note, Executed, PlanInv
<1> HIDE DEF i
<1>4. level' \in Levels /\ Order'
  <2>1. Targets = 1..Last /\ Last \in Nat
    BY PlanOfSlices
  <2> QED
    BY <1>2, <1>3, <2>1 DEF PlanInv, Order, Levels
<1>5. op'["desk"] = op["desk"] /\ op'["pass"].at \in {"idle", "look"}
  <2> DEFINE next == [Idle EXCEPT !.at = "look", !.price = op["pass"].price]
  <2>1. next.at = "look"
    BY DEF Idle
  <2>2. op' = [op EXCEPT !["pass"] = Idle] \/ op' = [op EXCEPT !["pass"] = next]
    BY Zenon DEF Note
  <2>3. Idle.at = "idle"
    BY DEF Idle
  <2> HIDE DEF next
  <2> QED
    BY <2>1, <2>2, <2>3 DEF MasterOK, Procs
<1>6. InPlan(o) => InPlan(op["pass"])'
  BY <1>1, <1>5 DEF InPlan
<1>7. ASSUME ~lost, ~desks PROVE SlicesOnce'
  <2> SUFFICES ASSUME ender = "none"
               PROVE  Size - deal = SumFunctionOnSet(Slices, LevelsExecuted')
    BY <1>1, <1>5, ScaleOutAssumption DEF SlicesOnce, MasterOK
  <2>1. ~o.whole /\ Size - deal = SumFunctionOnSet(Slices, LevelsExecuted) + o.ask
    BY <1>1, <1>7 DEF PlanInv, InPlan, SlicesOnce, MasterOK
  <2>2. LevelsExecuted' = 1..i
    <3>1. LevelsExecuted = 1..(i - 1)
      BY <1>2, FirstLevel DEF PlanInv
    <3>2. LevelsExecuted' = LevelsExecuted \cup {i}
      BY <1>2, <1>3 DEF LevelsExecuted, Levels
    <3>3. Targets = 1..Last /\ Last \in Nat
      BY PlanOfSlices
    <3> QED
      BY <1>2, <3>1, <3>2, <3>3
  <2>3. SumTo(i) = Slices[i] + SumFunctionOnSet(Slices, LevelsExecuted)
    BY <1>2, FirstLevel DEF PlanInv
  <2>4. Slices[i] \in Int /\ o.ask = Slices[i]
    BY <1>2, <2>1, PlanOfSlices
  <2> QED
    BY <2>1, <2>2, <2>3, <2>4, SumIsInt DEF SumTo
<1> QED
  BY <1>1, <1>4, <1>5, <1>6, <1>7 DEF PlanInv, InHand

LEMMA FailKeeps == ASSUME MasterOK, PlanInv, Fail PROVE PlanInv'
<1> DEFINE o == op["pass"]
           i == o.idx
<1>1. o.at = "fail" /\ UNCHANGED <<deal, row, ender, desks, lost>>
  BY DEF Fail, At, history
<1>2. i \in Targets /\ level[i] # "EXECUTED"
  BY <1>1 DEF PlanInv, InHand
<1>3. level' = [level EXCEPT ![i] = "FAILED"] /\ level \in Levels
  BY DEF Fail, PlanInv
<1> HIDE DEF i
<1>4. level' \in Levels /\ Order' /\ LevelsExecuted' = LevelsExecuted
  BY <1>2, <1>3 DEF PlanInv, Order, Levels, LevelsExecuted
<1>5. op'["desk"] = op["desk"] /\ op'["pass"].at = "idle"
  BY DEF Fail, MasterOK, Procs, Idle
<1>6. InPlan(o) => InPlan(op["pass"])'
  BY <1>1, <1>5 DEF InPlan
<1>7. SlicesOnce => SlicesOnce'
  BY <1>1, <1>4, <1>5 DEF SlicesOnce
<1> QED
  BY <1>1, <1>4, <1>5, <1>6, <1>7 DEF PlanInv, InHand

\* An error goes up to the pass.
LEMMA PassThrown ==
  ASSUME MasterOK, Thrown("pass")
  PROVE  op' = [op EXCEPT !["pass"].at = "fail"]
  BY DEF Thrown, Goto

LEMMA TakeKeeps == ASSUME MasterOK, PlanInv, Take("pass") PROVE PlanInv'
<1> DEFINE o == op["pass"]
           n == op'["pass"]
<1>1. o.at = "take" /\ UNCHANGED <<deal, level, row, ender, desks, lost>>
  BY DEF Take, At, position, history
<1>2. CASE op' = [op EXCEPT !["pass"].at = "fail"]
  <2>1. /\ n.at = "fail" /\ n.whole = o.whole /\ n.ask = o.ask /\ n.idx = o.idx
        /\ n.price = o.price /\ op'["desk"] = op["desk"]
    BY <1>2, Going DEF Procs, Steps
  <2> HIDE DEF n
  <2>2. InHand(n)
    BY <1>1, <2>1 DEF PlanInv, InHand
  <2>3. InPlan(o) => InPlan(op["pass"])'
    BY <1>1, <2>1 DEF InPlan, n
  <2> QED
    BY <1>1, <2>1, <2>2, <2>3, PassGoesOn DEF n
<1>3. CASE op' = [op EXCEPT !["pass"].at = "mark", !["pass"].seen = IF o.whole THEN 0 ELSE row.vol]
  <2>1. /\ n.at = "mark" /\ n.whole = o.whole /\ n.ask = o.ask /\ n.idx = o.idx
        /\ n.price = o.price /\ op'["desk"] = op["desk"]
        /\ n.seen = IF o.whole THEN 0 ELSE row.vol
    BY <1>3 DEF MasterOK, Procs, Op
  <2> HIDE DEF n
  <2>2. InHand(n)
    BY <1>1, <2>1 DEF PlanInv, InHand
  <2>3. InPlan(o) => InPlan(op["pass"])'
    BY <1>1, <2>1 DEF InPlan, n, MasterOK
  <2> QED
    BY <1>1, <2>1, <2>2, <2>3, PassGoesOn DEF n
<1> QED
  BY <1>2, <1>3, PassThrown DEF Take

LEMMA MarkKeeps == ASSUME MasterOK, PlanInv, MarkClosing("pass") PROVE PlanInv'
<1> DEFINE o == op["pass"]
           n == op'["pass"]
<1>1. /\ o.at = "mark" /\ UNCHANGED <<deal, level, ender, desks, lost>> /\ row'.vol = row.vol
      /\ \/ op' = [op EXCEPT !["pass"].at = "fail"]
         \/ op' = [op EXCEPT !["pass"].at = "call"]
  BY PassThrown DEF MarkClosing, At, Fault, NoFault, Goto, MasterOK
<1>2. /\ n.at \in {"fail", "call"} /\ n.whole = o.whole /\ n.ask = o.ask /\ n.idx = o.idx
      /\ n.seen = o.seen /\ n.price = o.price /\ op'["desk"] = op["desk"]
  BY <1>1, Going DEF Procs, Steps
<1> HIDE DEF n
<1>3. InHand(n)
  BY <1>1, <1>2 DEF PlanInv, InHand
<1>4. InPlan(o) => InPlan(op["pass"])'
  BY <1>1, <1>2 DEF InPlan, n
<1> QED
  BY <1>1, <1>2, <1>3, <1>4, PassGoesOn DEF n

\* What the pass closes is the slice in hand, or everything at the last target.
LEMMA CallKeeps == ASSUME MasterOK, PlanInv, CallBroker("pass") PROVE PlanInv'
<1> DEFINE o == op["pass"]
           n == op'["pass"]
           part == Asked("pass")
<1>1. o.at = "call" /\ UNCHANGED <<row, level, desks>> /\ deal \in Nat
  BY DEF CallBroker, At, MasterOK
<1>2. /\ o.idx \in Targets /\ o.idx <= o.price /\ level[o.idx] # "EXECUTED"
      /\ o.ask = IF o.whole THEN 0 ELSE Slices[o.idx]
  BY <1>1 DEF PlanInv, InHand
<1>3. part = IF o.whole THEN deal ELSE IF o.ask < deal THEN o.ask ELSE 0
  BY DEF Asked
<1>4. part \in Int /\ (part > 0 => part <= deal)
  BY <1>1, <1>2, <1>3, PlanOfSlices
<1> HIDE DEF part
<1>5. CASE op' = [op EXCEPT !["pass"].at = "verify"]
  <2>1. /\ n.at = "verify" /\ n.whole = o.whole /\ n.ask = o.ask /\ n.idx = o.idx
        /\ n.price = o.price /\ n.seen = o.seen /\ op'["desk"] = op["desk"]
    BY <1>5, Going DEF Procs, Steps
  <2> HIDE DEF n
  <2>2. CASE UNCHANGED <<deal, lost, ender>>
    <3>1. InHand(n)
      BY <1>1, <2>1 DEF PlanInv, InHand
    <3>2. InPlan(o) => InPlan(op["pass"])'
      BY <1>1, <2>1, <2>2 DEF InPlan, n
    <3> QED
      BY <1>1, <2>1, <2>2, <3>1, <3>2, PassGoesOn DEF n
  <2>3. CASE /\ lost' /\ part > 0 /\ deal' = deal - part
             /\ ender' = IF part < deal THEN ender ELSE IF o.price < Last THEN "early" ELSE "pass"
    <3>1. InHand(op["pass"])' /\ Order'
      BY <1>1, <2>1 DEF PlanInv, InHand, Order, n
    <3>2. deal' > 0 <=> ender' = "none"
      BY <1>1, <1>4, <2>3 DEF PlanInv
    <3> QED
      BY <1>1, <2>1, <2>3, <3>1, <3>2 DEF PlanInv
  <2>4. op' # [op EXCEPT !["pass"].at = "write", !["pass"].left = deal - part, !["pass"].seen = 0]
    BY <2>1 DEF n, MasterOK, Procs, Op
  <2> QED
    BY <2>2, <2>3, <2>4 DEF CallBroker, part
<1>6. CASE /\ part > 0 /\ deal' = deal - part /\ UNCHANGED lost
           /\ ender' = IF part < deal THEN ender ELSE IF o.price < Last THEN "early" ELSE "pass"
           /\ op' = [op EXCEPT !["pass"].at = "write", !["pass"].left = deal - part, !["pass"].seen = 0]
  <2>1. /\ n.at = "write" /\ n.whole = o.whole /\ n.ask = o.ask /\ n.idx = o.idx
        /\ n.price = o.price /\ n.left = deal - part /\ op'["desk"] = op["desk"]
    BY <1>6 DEF MasterOK, Procs, Op
  <2> HIDE DEF n
  <2>2. InHand(op["pass"])' /\ Order'
    BY <1>1, <2>1 DEF PlanInv, InHand, Order, n
  <2>3. deal' > 0 <=> ender' = "none"
    BY <1>1, <1>4, <1>6 DEF PlanInv
  <2>4. ASSUME ~lost, ~desks PROVE InPlan(op["pass"])' /\ SlicesOnce'
    <3>1. InPlan(o) /\ SlicesOnce /\ deal > 0 /\ ender = "none"
      BY <1>1, <1>4, <1>6, <2>4 DEF PlanInv
    <3>2. CASE o.whole
      <4>1. o.idx = Last /\ part = deal
        BY <1>1, <1>3, <3>1, <3>2 DEF InPlan
      <4>2. ~(o.price < Last)
        <5>1. Last \in Nat /\ o.price \in Int
          BY PlanOfSlices DEF MasterOK, Procs, Op
        <5> QED
          BY <1>2, <4>1, <5>1
      <4>3. deal' = 0 /\ ender' = "pass"
        BY <1>1, <1>6, <4>1, <4>2
      <4> QED
        BY <2>1, <4>3 DEF InPlan, SlicesOnce, n
    <3>3. CASE ~o.whole
      <4>1. part = o.ask /\ part < deal /\ ender' = "none" /\ deal' = deal - o.ask
        BY <1>1, <1>3, <1>6, <3>1, <3>3
      <4>2. Size - deal = SumFunctionOnSet(Slices, LevelsExecuted)
        BY <1>1, <2>4, <3>1, SumIsInt DEF SlicesOnce
      <4>3. LevelsExecuted' = LevelsExecuted
        BY <1>1 DEF LevelsExecuted
      <4>4. Size - deal' = SumFunctionOnSet(Slices, LevelsExecuted) + o.ask
        BY <1>1, <1>4, <4>1, <4>2, SumIsInt, ScaleOutAssumption
      <4>5. SlicesOnce'
        BY <2>1, <4>3, <4>4 DEF SlicesOnce, n
      <4>6. InPlan(op["pass"])'
        BY <1>6, <2>1, <3>3, <4>1 DEF InPlan, n
      <4> QED
        BY <4>5, <4>6
    <3> QED
      BY <3>2, <3>3
  <2> QED
    BY <1>1, <1>6, <2>1, <2>2, <2>3, <2>4 DEF PlanInv
<1> QED
  BY <1>5, <1>6 DEF CallBroker, part, Goto

LEMMA VerifyKeeps ==
  ASSUME MasterOK, PlanInv, VerifyClose("pass") \/ VerifyPartial("pass") PROVE PlanInv'
<1> DEFINE o == op["pass"]
           n == op'["pass"]
<1>1. o.at = "verify" /\ UNCHANGED <<deal, level, ender, desks, lost>>
  BY DEF VerifyClose, VerifyPartial, At, history
<1>2. CASE op' = [op EXCEPT !["pass"].at = "write", !["pass"].left = 0] /\ deal = 0
  <2>1. /\ n.at = "write" /\ n.whole = o.whole /\ n.ask = o.ask /\ n.idx = o.idx
        /\ n.price = o.price /\ op'["desk"] = op["desk"]
    BY <1>2 DEF MasterOK, Procs, Op
  <2> HIDE DEF n
  <2>2. InHand(n)
    BY <1>1, <2>1 DEF PlanInv, InHand
  <2>3. InPlan(o) => InPlan(op["pass"])'
    BY <1>1, <1>2, <2>1 DEF InPlan, n
  <2> QED
    BY <1>1, <1>2, <2>1, <2>2, <2>3, PassGoesOn DEF n, PlanInv
<1>3. CASE /\ op' = [op EXCEPT !["pass"].at = "fail"]
           /\ \/ row'.vol = row.vol
              \/ ~o.whole /\ row'.vol = o.seen
              \/ deal = 0
  <2>1. /\ n.at = "fail" /\ n.whole = o.whole /\ n.ask = o.ask /\ n.idx = o.idx
        /\ n.price = o.price /\ op'["desk"] = op["desk"]
    BY <1>3, Going DEF Procs, Steps
  <2> HIDE DEF n
  <2>2. InHand(n)
    BY <1>1, <2>1 DEF PlanInv, InHand
  <2>3. InPlan(o) => InPlan(op["pass"])'
    BY <1>1, <1>3, <2>1 DEF InPlan, n, MasterOK
  <2> QED
    BY <1>1, <1>3, <2>1, <2>2, <2>3, PassGoesOn DEF n
<1> QED
  BY <1>2, <1>3, PassThrown DEF VerifyClose, VerifyPartial, MasterOK

LEMMA WriteKeeps == ASSUME MasterOK, PlanInv, WriteResult("pass") PROVE PlanInv'
<1> DEFINE o == op["pass"]
           n == op'["pass"]
<1>1. /\ o.at = "write" /\ UNCHANGED <<deal, level, ender, desks, lost>> /\ row'.vol = o.left
      /\ op' = [op EXCEPT !["pass"].at = "publish"]
  BY DEF WriteResult, At, Goto, history
<1>2. /\ n.at = "publish" /\ n.whole = o.whole /\ n.ask = o.ask /\ n.idx = o.idx
      /\ n.price = o.price /\ op'["desk"] = op["desk"]
  BY <1>1, Going DEF Procs, Steps
<1> HIDE DEF n
<1>3. InHand(n)
  BY <1>1, <1>2 DEF PlanInv, InHand
<1>4. InPlan(o) => InPlan(op["pass"])'
  BY <1>1, <1>2 DEF InPlan, n, MasterOK
<1> QED
  BY <1>1, <1>2, <1>3, <1>4, PassGoesOn DEF n

LEMMA PublishKeeps == ASSUME MasterOK, PlanInv, Publish("pass") PROVE PlanInv'
<1> DEFINE o == op["pass"]
           n == op'["pass"]
<1>1. /\ o.at = "publish" /\ UNCHANGED <<deal, row, level, ender, desks>> /\ (lost => lost')
      /\ \/ op' = [op EXCEPT !["pass"].at = "note"]
         \/ op' = [op EXCEPT !["pass"].at = "fail"] /\ lost'
  BY PassThrown DEF Publish, At, Goto, Fault, NoFault, position
<1>2. /\ n.at \in {"note", "fail"} /\ n.whole = o.whole /\ n.ask = o.ask /\ n.idx = o.idx
      /\ n.price = o.price /\ op'["desk"] = op["desk"] /\ (~lost' => n.at = "note")
  BY <1>1, Going DEF Procs, Steps
<1> HIDE DEF n
<1>3. InHand(n)
  BY <1>1, <1>2 DEF PlanInv, InHand
<1>4. ~lost' /\ InPlan(o) => InPlan(op["pass"])'
  BY <1>1, <1>2 DEF InPlan, n
<1> QED
  BY <1>1, <1>2, <1>3, <1>4, PassGoesOn DEF n

\* A step of the desk, or a crash: the pass is where it was or has ended, and the
\* slices are no longer the pass's alone.
LEMMA OthersKeep ==
  ASSUME MasterOK, PlanInv, UNCHANGED level, lost' \/ desks',
         op'["pass"] \in {op["pass"], Idle}, deal' > 0 <=> ender' = "none",
         desks' \/ op'["desk"].at = "idle"
  PROVE  PlanInv'
<1>1. Order'
  BY DEF PlanInv, Order
<1>2. InHand(op["pass"])'
  BY DEF PlanInv, InHand, Idle
<1> QED
  BY <1>1, <1>2 DEF PlanInv

LEMMA DeskKeeps == ASSUME MasterOK, PlanInv, Continue("desk") PROVE PlanInv'
<1>1. desks /\ UNCHANGED desks
  <2>1. op["desk"].at # "idle"
    BY DEF Continue, Take, MarkClosing, CallBroker, VerifyClose, VerifyPartial, WriteResult, Publish, At
  <2>2. UNCHANGED desks
    BY DEF Continue, Take, MarkClosing, CallBroker, VerifyClose, VerifyPartial, WriteResult, Publish,
           Fault, NoFault, history
  <2> QED
    BY <2>1, <2>2 DEF PlanInv
<1>2. op'["pass"] = op["pass"] /\ UNCHANGED level
  BY DEF Continue, Take, MarkClosing, CallBroker, VerifyClose, VerifyPartial, WriteResult, Publish,
         Goto, Thrown, position, MasterOK, Procs
<1>3. deal' > 0 <=> ender' = "none"
  <2>1. ~CallBroker("desk") => UNCHANGED <<deal, ender>>
    BY DEF Continue, Take, MarkClosing, VerifyClose, VerifyPartial, WriteResult, Publish,
           Fault, NoFault, position, history
  <2>2. CASE CallBroker("desk")
    <3> DEFINE n == Asked("desk")
    <3>1. deal \in Nat /\ op["desk"].ask \in Int
      BY DEF MasterOK, Procs, Op
    <3>2. n \in Int /\ (n > 0 => n <= deal)
      BY <3>1 DEF Asked
    <3>3. \/ UNCHANGED <<deal, ender>>
          \/ n > 0 /\ deal' = deal - n /\ ender' = IF n < deal THEN ender ELSE "desk"
      BY <2>2 DEF CallBroker
    <3> HIDE DEF n
    <3> QED
      BY <3>1, <3>2, <3>3 DEF PlanInv
  <2> QED
    BY <2>1, <2>2 DEF PlanInv
<1> QED
  BY <1>1, <1>2, <1>3, OthersKeep

LEMMA BeginDeskKeeps ==
  ASSUME MasterOK, PlanInv, NEW whole, NEW ask, BeginDesk(whole, ask) PROVE PlanInv'
<1>1. desks' /\ op'["pass"] = op["pass"] /\ UNCHANGED <<level, deal, ender>>
  BY DEF BeginDesk, position, MasterOK, Procs
<1> QED
  BY <1>1, OthersKeep DEF PlanInv

LEMMA BrokerKeeps == ASSUME MasterOK, PlanInv, NativeClose \/ Sync PROVE PlanInv'
<1>1. UNCHANGED <<level, op, desks, lost>> /\ LevelsExecuted' = LevelsExecuted
  BY DEF NativeClose, Sync, history, LevelsExecuted
<1>2. Order' /\ InHand(op["pass"])'
  BY <1>1 DEF PlanInv, Order, InHand
<1>3. CASE NativeClose
  BY <1>1, <1>2, <1>3 DEF PlanInv, InPlan, SlicesOnce, NativeClose
<1>4. CASE Sync
  <2>1. UNCHANGED <<deal, ender>> /\ row'.vol \in {deal, 0} /\ (deal > 0 => row'.vol = deal)
    BY <1>4 DEF Sync, history, MasterOK
  <2>2. InPlan(op["pass"]) => InPlan(op["pass"])'
    BY <1>1, <2>1 DEF InPlan, MasterOK
  <2>3. SlicesOnce => SlicesOnce'
    BY <1>1, <2>1 DEF SlicesOnce
  <2> QED
    BY <1>1, <1>2, <2>1, <2>2, <2>3 DEF PlanInv
<1> QED
  BY <1>3, <1>4

LEMMA PlanStep == MasterOK /\ PlanInv /\ ScaleNext => PlanInv'
<1> SUFFICES ASSUME MasterOK, PlanInv, ScaleNext PROVE PlanInv'
  OBVIOUS
<1>1. Manage => PlanInv'
  BY LookKeeps, NoteKeeps, FailKeeps, TakeKeeps, MarkKeeps, CallKeeps, VerifyKeeps, WriteKeeps,
     PublishKeeps DEF Manage, Continue
<1> QED
  BY <1>1, BeginPassKeeps, DeskKeeps, BeginDeskKeeps, BrokerKeeps DEF ScaleNext

LEMMA PlanStart == CopiersInit => PlanInv
<1> SUFFICES ASSUME CopiersInit PROVE PlanInv
  OBVIOUS
<1>1. /\ deal = Size /\ row.vol = Size /\ ender = "none" /\ Size > 0 /\ Size \in Nat
      /\ level = [i \in Targets |-> "PENDING"]
      /\ op["pass"].at = "idle" /\ op["desk"].at = "idle"
  BY ScaleOutAssumption DEF CopiersInit, Init, Procs, Idle
<1>2. LevelsExecuted = {}
  BY <1>1 DEF LevelsExecuted
<1>3. SlicesOnce
  BY <1>1, <1>2, SumNone DEF SlicesOnce
<1> QED
  BY <1>1, <1>3 DEF PlanInv, Levels, Order, InHand, InPlan

LEMMA PlanCopiers == ASSUME MasterOK, PlanInv, [Next]_copierVars PROVE PlanInv'
<1>1. ASSUME UNCHANGED <<position, op, history>> PROVE PlanInv'
  <2>1. UNCHANGED <<deal, row, level, op, desks, lost, ender>>
    BY <1>1 DEF position, history
  <2>2. LevelsExecuted' = LevelsExecuted
    BY <2>1 DEF LevelsExecuted
  <2> QED
    BY <2>1, <2>2 DEF PlanInv, Order, InHand, InPlan, SlicesOnce
<1>2. UNCHANGED copierVars \/ UNCHANGED vars => UNCHANGED <<position, op, history>>
  BY DEF copierVars, vars
<1>3. CASE CopiersCrash
  BY <1>3, OthersKeep DEF CopiersCrash, Crash, position, PlanInv, Procs, Idle
<1>4. OpenedStep => UNCHANGED vars
  BY DEF OpenedStep, TakeOpened, TakeFollower, CopyError, PlaceCopy, CreateCopy, EndOpened
<1>5. ASSUME NEW h \in Handlers, PartStep(h) \/ TakePart(h) PROVE UNCHANGED <<position, op, history>>
  BY <1>2, <1>5 DEF PartStep, TakePart, ReadCopy, CloseHalf, WriteCopy, EndPart
<1>6. ASSUME NEW f \in Followers, NativeCopyClose(f) \/ SyncCopy(f) PROVE UNCHANGED vars
  BY <1>6 DEF NativeCopyClose, SyncCopy
<1>7. (\E r \in BOOLEAN : SetRunning(r)) => UNCHANGED vars
  BY DEF SetRunning
<1>8. (\E h \in {x \in Handlers : parts[x].at = "idle"} : TakePart(h)) => PlanInv'
  BY <1>1, <1>5
<1> QED
  BY <1>1, <1>2, <1>3, <1>4, <1>5, <1>6, <1>7, <1>8, PlanStep DEF Next

\* However often calls are refused and passes begin again, beside syncs, native
\* closes and copies, the pass closes each slice once and keeps the runner until
\* the last target (2374-2452).
THEOREM SlicesAsPlanned == Spec => []ScalesAsPlanned
<1>1. MasterOK /\ PlanInv => ScalesAsPlanned
  BY DEF PlanInv, ScalesAsPlanned, RunnerKept, InPlan, SlicesOnce
<1>2. CopiersInit => IInv /\ PlanInv
  BY Start, PlanStart
<1>3. IInv /\ PlanInv /\ [Next]_copierVars => (IInv /\ PlanInv)'
  BY StepKeeps, PlanCopiers DEF IInv
<1> QED
  BY <1>1, <1>2, <1>3, PTL DEF Spec, IInv
=============================================================================
