-------------------------- MODULE DecisionProofs --------------------------
(***************************************************************************)
(* Proofs about what decides a trade: the protections of an open position  *)
(* (ProtectionTrail) for any number of timers and users, any prices and    *)
(* distances and any number of failing calls; and that the stop levels,    *)
(* the signals and the plans have the properties of StopLevelCases and     *)
(* SignalCases.  The lemmas behind the latter hold for every price,        *)
(* distance, reading, bar and setting, not only for the inputs of a run.   *)
(***************************************************************************)
EXTENDS ProtectionTrail, SignalCases, SumTheorems, SequenceTheorems, TLAPS


Steps == {"idle", "snapshot", "enter", "recover", "breakEven", "sendBe", "noteBe",
          "trail", "sendTrail", "noteTrail", "chase", "sendChase", "noteChase", "attach",
          "sendEma", "noteEma", "readLive", "sendSwitch", "noteSwitch"}
Op == [kind : {"none", "protect", "ema", "breakEven", "trailOn", "trailOff"}, at : Steps,
       flag : BOOLEAN, armed : BOOLEAN, own : Levels,
       mark : Nat, sl : Levels, seen : BOOLEAN, want : Levels]

\* The pass holds the account.
Locked(o) == o.kind = "protect" /\ o.at \notin {"snapshot", "enter"}

\* What a process carries agrees with where it is: a pass has looked at the
\* market, what it trails to comes from the stop it goes by, what it chases to and
\* what stays when the trail is switched off is no lower than the stop it saw.
Consistent(o) ==
  /\ o.at \in {"idle", "sendSwitch", "noteSwitch"} => o.kind # "protect"
  /\ o.kind = "protect" /\ o.at # "snapshot" => o.mark \in Marks
  /\ o.kind = "protect" /\ o.at = "sendTrail" /\ o.sl # NoStop =>
       o.want = TrailingStop("BUY", o.mark, TrailDist, MinDist, o.sl)
  /\ o.kind = "protect" /\ o.at = "sendChase" /\ o.seen => o.want >= o.sl
  /\ o.kind = "trailOff" /\ o.at = "sendSwitch" => o.want >= o.sl

StateOK ==
  /\ mark \in Marks /\ sl \in Levels /\ bes \in Nat
  /\ row \in [mode : RowModes, sl : Levels, be : BOOLEAN, on : BOOLEAN, armed : BOOLEAN]
  /\ chase \in [rejected : Levels, tries : 0..3, waits : SUBSET {"backoff", "attach"}]

OpsOK == op \in [Procs -> Op] /\ \A p \in Procs : Consistent(op[p])

\* One pass at a time holds the account, and then the account is busy.
BusyIsHeld == busy <=> \E p \in Procs : Locked(op[p])
OneHolder == \A p, q \in Procs : Locked(op[p]) /\ Locked(op[q]) => p = q

\* A break-even that a pass activated is in the row, and a pass that is about to
\* activate it is the first.
Recorded == bes >= 1 => row.be = TRUE
FirstOne ==
  \A p \in Procs : Locked(op[p]) /\ op[p].at \in {"sendBe", "noteBe"} => bes = 0

IInv == StateOK /\ OpsOK /\ BusyIsHeld /\ OneHolder /\ Recorded /\ FirstOne /\ BreakEvenOnce

\* A step of p: the others stay where they are.
Alone(p) == \A q \in Procs \ {p} : op'[q] = op[q]

\* How a step of p may use the lock.
KeepsLock(p) == (busy' <=> busy) /\ (Locked(op'[p]) <=> Locked(op[p]))
TakesLock(p) == ~busy /\ busy' /\ Locked(op'[p])
DropsLock(p) == Locked(op[p]) /\ ~Locked(op'[p]) /\ ~busy'

-----------------------------------------------------------------------------
\* The stops of a break-even, a trail and a recovery are prices.
LEMMA StopsAreLevels ==
  ASSUME NEW m \in Marks
  PROVE  /\ BreakEvenStop("BUY", Entry, BeOffset, MinDist, m) \in Levels
         /\ \A s \in Levels : /\ TrailingStop("BUY", m, TrailDist, MinDist, s) \in Levels
                            /\ TrailingStop("BUY", m, TrailDist, 0, s) \in Levels
                            /\ Kept(m, s) \in Levels /\ Kept(m, s) >= s
         /\ \A k \in {1, 2, 3, 5} :
              LET stop == InitialStop("BUY", Entry, k * MinDist, MinDist, m)
              IN  stop > 0 => stop \in Levels
<1>1. m \in Nat /\ m >= TrailDist /\ Entry \in Nat /\ MinDist \in Nat /\ TrailDist \in Nat
      /\ BeOffset \in Nat /\ MinDist <= TrailDist
  BY TrailAssumption
<1>2. BreakEvenStop("BUY", Entry, BeOffset, MinDist, m) \in Levels
  BY <1>1 DEF BreakEvenStop, Favorable, MinOf, Levels
<1>3. \A s \in Levels : /\ TrailingStop("BUY", m, TrailDist, MinDist, s) \in Levels
                       /\ TrailingStop("BUY", m, TrailDist, 0, s) \in Levels
  BY <1>1 DEF TrailingStop, MaxOf, Levels
<1>5. \A s \in Levels : Kept(m, s) \in Levels /\ Kept(m, s) >= s
  BY <1>3 DEF Kept, MaxOf, Levels, NoStop
<1>4. ASSUME NEW k \in {1, 2, 3, 5}
      PROVE  InitialStop("BUY", Entry, k * MinDist, MinDist, m) \in Int
  <2>1. k * MinDist \in Nat
    BY <1>1
  <2> DEFINE d == k * MinDist
  <2>2. InitialStop("BUY", Entry, d, MinDist, m) \in Int
    <3>1. d \in Nat
      BY <2>1
    <3> HIDE DEF d
    <3> QED
      BY <1>1, <3>1 DEF InitialStop, MaxOf
  <2> QED
    BY <2>2
<1> QED
  BY <1>2, <1>3, <1>4, <1>5 DEF Levels

\* So are those of a chase and of an attach, where they are above zero.
LEMMA StopsAreIntegers ==
  /\ \A m \in Marks : ChaseStop(m) \in Int
  /\ \A p \in Procs : op[p] \in Op /\ op[p].mark \in Marks => FirstAttach(p) \in Int
<1>1. Entry \in Nat /\ MinDist \in Nat /\ Marks \subseteq Nat
  BY TrailAssumption
<1>2. \A m \in Nat, d \in Int : InitialStop("BUY", Entry, d, MinDist, m) \in Int
  BY <1>1 DEF InitialStop, MaxOf
<1>3. ASSUME NEW m \in Marks
      PROVE  ChaseStop(m) \in Int
  <2>1. m \in Nat /\ Entry \div 10 \in Int
    BY <1>1
  <2>2. LockStop("BUY", Entry, MinDist, m) \in Int
    <3> DEFINE gain == Favorable("BUY", Entry, m)
               cushion == MaxOf((gain + 2) \div 5, MinDist)
               gap == IF gain >= MinDist THEN MinOf(cushion, gain) ELSE cushion
    <3>1. gain \in Int
      BY <1>1, <2>1 DEF Favorable
    <3>2. (gain + 2) \div 5 \in Int
      BY <3>1
    <3> HIDE DEF gain
    <3>3. gap \in Int
      BY <1>1, <3>1, <3>2 DEF MaxOf, MinOf
    <3> HIDE DEF gap
    <3>4. TrailingStop("BUY", m, gap, MinDist, NoStop) \in Int
      BY <1>1, <2>1, <3>3 DEF TrailingStop, MaxOf, NoStop
    <3> QED
      BY <1>2, <2>1, <3>4 DEF LockStop, gain, gap
  <2> QED
    BY <1>1, <2>1, <2>2 DEF ChaseStop
<1>4. ASSUME NEW p \in Procs, op[p] \in Op, op[p].mark \in Marks
      PROVE  FirstAttach(p) \in Int
  <2> DEFINE first == Entry \div 10
             own == IF op[p].own = NoStop THEN first
                    ELSE MaxOf(first, MaxOf(Entry - op[p].own, op[p].own - Entry))
             gap == CASE chase.tries = 0 -> first [] chase.tries = 1 -> 2 * own
                       [] chase.tries = 2 -> 3 * own [] OTHER -> 5 * own
  <2>1. first \in Int /\ op[p].own \in Int /\ op[p].mark \in Nat
    BY <1>1, <1>4 DEF Op, Levels, NoStop
  <2> HIDE DEF first
  <2>2. own \in Int
    BY <1>1, <2>1 DEF MaxOf
  <2> HIDE DEF own
  <2>3. gap \in Int
    BY <2>1, <2>2
  <2> HIDE DEF gap
  <2> QED
    BY <1>2, <2>1, <2>3 DEF FirstAttach, first, own, gap
<1> QED
  BY <1>3, <1>4

\* The trail does not give up ground to a stop below the mark.
LEMMA TrailAhead ==
  ASSUME NEW m \in Marks, NEW s \in Levels, s < m
  PROVE  TrailingStop("BUY", m, TrailDist, MinDist, s) >= s
<1>1. m \in Nat /\ MinDist \in Nat /\ TrailDist \in Nat
  BY TrailAssumption
<1> QED
  BY <1>1 DEF TrailingStop, MaxOf, Levels, NoStop

\* Going on to another step is a step of one process.
LEMMA GotoMoves ==
  ASSUME OpsOK, NEW p \in Procs, NEW there \in Steps, Goto(p, there)
  PROVE  op' \in [Procs -> Op] /\ Alone(p)
  BY DEF OpsOK, Op, Goto, Alone

\* And so is going on to the trail.
LEMMA ToTrailMoves ==
  ASSUME OpsOK, NEW p \in Procs, ToTrail(p)
  PROVE  op' \in [Procs -> Op] /\ Alone(p)
<1> DEFINE new == [op[p] EXCEPT !.at = "trail", !.flag = FALSE, !.armed = FALSE, !.want = NoStop]
<1>1. op[p] \in Op /\ op \in [Procs -> Op]
  BY DEF OpsOK
<1>2. new \in Op
  BY <1>1 DEF Op, Steps, Levels, NoStop
<1>3. op' = [op EXCEPT ![p] = new]
  BY <1>1 DEF ToTrail
<1> HIDE DEF new
<1> QED
  BY <1>1, <1>2, <1>3 DEF Alone

\* The end of an operation.
LEMMA FinishMoves ==
  ASSUME OpsOK, NEW p \in Procs, Finish(p)
  PROVE  op' \in [Procs -> Op] /\ Alone(p)
  BY DEF OpsOK, Op, Steps, Finish, Idle, Alone, Levels

\* So is going on with a stop to send.
LEMMA WantMoves ==
  ASSUME OpsOK, NEW p \in Procs, NEW there \in Steps, NEW want \in Levels,
         op' = [op EXCEPT ![p].at = there, ![p].want = want]
  PROVE  op' \in [Procs -> Op] /\ Alone(p)
<1>1. op[p] \in Op /\ op \in [Procs -> Op]
  BY DEF OpsOK
<1>2. [op[p] EXCEPT !.at = there, !.want = want] \in Op
  BY <1>1 DEF Op
<1>3. op' = [op EXCEPT ![p] = [op[p] EXCEPT !.at = there, !.want = want]]
  BY <1>1
<1> QED
  BY <1>1, <1>2, <1>3 DEF Alone

\* After a chase that sent nothing, or in vain, the pass ends or tries to attach.
LEMMA AfterChaseMoves ==
  ASSUME OpsOK, NEW p \in Procs, Locked(op[p]), AfterChase(p)
  PROVE  /\ op' \in [Procs -> Op] /\ Alone(p) /\ Consistent(op'[p])
         /\ KeepsLock(p) \/ DropsLock(p)
         /\ op'[p].at \notin {"sendBe", "noteBe"}
<1>1. op' \in [Procs -> Op] /\ Alone(p)
  BY GotoMoves, FinishMoves DEF Steps, AfterChase, Leave
<1>2. /\ Consistent(op'[p]) /\ op'[p].at \notin {"sendBe", "noteBe"}
      /\ KeepsLock(p) \/ DropsLock(p)
  BY DEF OpsOK, Op, Consistent, KeepsLock, DropsLock, Locked, AfterChase, Leave, Goto, Finish, Idle
<1> QED
  BY <1>1, <1>2

\* A step of one process that uses the lock properly keeps it exclusive.
LEMMA LockStep ==
  ASSUME OpsOK, BusyIsHeld, OneHolder, NEW p \in Procs,
         op' \in [Procs -> Op], Alone(p), Consistent(op'[p]),
         KeepsLock(p) \/ TakesLock(p) \/ DropsLock(p)
  PROVE  OpsOK' /\ BusyIsHeld' /\ OneHolder'
<1>1. OpsOK'
  BY DEF OpsOK, Alone
<1>2. CASE KeepsLock(p)
  BY <1>1, <1>2 DEF KeepsLock, BusyIsHeld, OneHolder, Alone
<1>3. CASE TakesLock(p)
  BY <1>1, <1>3 DEF TakesLock, BusyIsHeld, OneHolder, Alone
<1>4. CASE DropsLock(p)
  BY <1>1, <1>4 DEF DropsLock, BusyIsHeld, OneHolder, Alone
<1> QED
  BY <1>2, <1>3, <1>4

\* A step of p that neither counts a break-even nor begins one.
LEMMA QuietStep ==
  ASSUME Recorded, FirstOne, BreakEvenOnce, NEW p \in Procs, Alone(p),
         bes' = bes, row'.be = row.be \/ row'.be = TRUE,
         Locked(op'[p]) /\ op'[p].at \in {"sendBe", "noteBe"} =>
           Locked(op[p]) /\ op[p].at \in {"sendBe", "noteBe"}
  PROVE  Recorded' /\ FirstOne' /\ BreakEvenOnce'
<1>1. Recorded'
  BY DEF Recorded
<1>2. FirstOne'
  BY DEF FirstOne, Alone
<1>3. BreakEvenOnce'
  BY DEF BreakEvenOnce
<1> QED
  BY <1>1, <1>2, <1>3

-----------------------------------------------------------------------------
\* A pass begins without the account.
LEMMA BeginProtectStep ==
  ASSUME IInv, NEW p \in Procs, BeginProtect(p)
  PROVE  IInv'
<1>1. StateOK'
  BY DEF IInv, StateOK, BeginProtect
<1>2. op' \in [Procs -> Op] /\ Alone(p)
  <2> DEFINE flag == IF Chased THEN row.on ELSE row.be
             own == IF Chased THEN row'.sl ELSE NoStop
             new == [Idle EXCEPT !.kind = "protect", !.at = "snapshot", !.sl = row'.sl,
                                 !.flag = flag, !.own = own]
  <2>1. flag \in BOOLEAN /\ own \in Levels /\ row'.sl \in Levels
    BY <1>1 DEF IInv, StateOK, Levels
  <2>2. op' = [op EXCEPT ![p] = new]
    BY DEF BeginProtect
  <2> HIDE DEF flag, own
  <2>3. new \in Op
    BY <2>1 DEF Op, Steps, Idle, Levels, NoStop
  <2> HIDE DEF new
  <2> QED
    BY <2>2, <2>3 DEF IInv, OpsOK, Alone
<1>3. Consistent(op'[p])
  BY DEF IInv, OpsOK, Consistent, BeginProtect
<1>4. KeepsLock(p)
  BY DEF IInv, OpsOK, KeepsLock, Locked, Consistent, BeginProtect
<1>5. /\ bes' = bes /\ (row'.be = row.be \/ row'.be = TRUE)
      /\ Locked(op'[p]) /\ op'[p].at \in {"sendBe", "noteBe"} =>
           Locked(op[p]) /\ op[p].at \in {"sendBe", "noteBe"}
  BY DEF IInv, StateOK, BeginProtect
<1> QED
  BY <1>1, <1>2, <1>3, <1>4, <1>5, LockStep, QuietStep DEF IInv

\* The broker's book is read without the account.
LEMMA SnapshotStep ==
  ASSUME IInv, NEW p \in Procs, Snapshot(p)
  PROVE  IInv'
<1>1. StateOK'
  BY DEF IInv, StateOK, Snapshot
<1>2. op' \in [Procs -> Op] /\ Alone(p)
  BY DEF IInv, OpsOK, Op, Steps, Alone, Snapshot
<1>3. Consistent(op'[p])
  BY DEF IInv, StateOK, OpsOK, Op, Consistent, Snapshot
<1>4. KeepsLock(p)
  BY DEF IInv, OpsOK, Op, KeepsLock, Locked, Snapshot, At
<1>5. /\ bes' = bes /\ (row'.be = row.be \/ row'.be = TRUE)
      /\ Locked(op'[p]) /\ op'[p].at \in {"sendBe", "noteBe"} =>
           Locked(op[p]) /\ op[p].at \in {"sendBe", "noteBe"}
  BY DEF IInv, OpsOK, Op, Snapshot
<1> QED
  BY <1>1, <1>2, <1>3, <1>4, <1>5, LockStep, QuietStep DEF IInv

\* The account is taken only when it is free.
LEMMA EnterStep ==
  ASSUME IInv, NEW p \in Procs, Enter(p)
  PROVE  IInv'
<1>1. StateOK'
  BY DEF IInv, StateOK, Enter
<1>2. op' \in [Procs -> Op] /\ Alone(p)
  BY GotoMoves, FinishMoves DEF IInv, Steps, Enter
<1>3. Consistent(op'[p])
  BY DEF IInv, OpsOK, Op, Consistent, Enter, At, Idle, Goto, Finish
<1>4. KeepsLock(p) \/ TakesLock(p)
  BY DEF IInv, OpsOK, Op, KeepsLock, TakesLock, Locked, Enter, At, Idle, Goto, Finish
<1>5. /\ bes' = bes /\ (row'.be = row.be \/ row'.be = TRUE)
      /\ Locked(op'[p]) /\ op'[p].at \in {"sendBe", "noteBe"} =>
           Locked(op[p]) /\ op[p].at \in {"sendBe", "noteBe"}
  BY DEF IInv, OpsOK, Op, Enter, Idle, Goto, Finish
<1> QED
  BY <1>1, <1>2, <1>3, <1>4, <1>5, LockStep, QuietStep DEF IInv

\* Recovery goes on or gives the account back.
LEMMA RecoverStep ==
  ASSUME IInv, NEW p \in Procs, Recover(p)
  PROVE  IInv'
<1>1. StateOK'
  BY DEF IInv, StateOK, OpsOK, Op, Recover
<1>2. op' \in [Procs -> Op] /\ Alone(p)
  <2>1. CASE op' = [op EXCEPT ![p].at = "breakEven", ![p].sl = sl']
    <3> DEFINE new == sl'
    <3>1. new \in Levels
      BY <1>1 DEF StateOK
    <3>2. op' = [op EXCEPT ![p].at = "breakEven", ![p].sl = new]
      BY <2>1
    <3> HIDE DEF new
    <3>3. op[p] \in Op /\ op \in [Procs -> Op]
      BY DEF IInv, OpsOK
    <3>4. [op[p] EXCEPT !.at = "breakEven", !.sl = new] \in Op
      BY <3>1, <3>3 DEF Op, Steps
    <3>5. op' = [op EXCEPT ![p] = [op[p] EXCEPT !.at = "breakEven", !.sl = new]]
      BY <3>2, <3>3
    <3> QED
      BY <3>3, <3>4, <3>5 DEF Alone
  <2>2. CASE Goto(p, "breakEven") \/ Finish(p)
    BY <2>2, GotoMoves, FinishMoves DEF IInv, Steps
  <2> QED
    BY <2>1, <2>2 DEF Recover, Leave
<1>3. Consistent(op'[p])
  BY DEF IInv, OpsOK, Op, Consistent, Recover, At, Idle, Goto, Finish, Leave
<1>4. KeepsLock(p) \/ DropsLock(p)
  BY DEF IInv, OpsOK, Op, KeepsLock, DropsLock, Locked, Recover, At, Idle, Goto,
     Finish, Leave
<1>5. /\ bes' = bes /\ (row'.be = row.be \/ row'.be = TRUE)
      /\ Locked(op'[p]) /\ op'[p].at \in {"sendBe", "noteBe"} =>
           Locked(op[p]) /\ op[p].at \in {"sendBe", "noteBe"}
  BY DEF IInv, StateOK, OpsOK, Op, Recover, Idle, Goto, Finish, Leave
<1> QED
  BY <1>1, <1>2, <1>3, <1>4, <1>5, LockStep, QuietStep DEF IInv

\* A user's break-even is no pass.
LEMMA BeginBreakEvenStep ==
  ASSUME IInv, NEW p \in Procs, BeginBreakEven(p)
  PROVE  IInv'
<1>1. StateOK'
  BY DEF IInv, StateOK, BeginBreakEven
<1>2. op' \in [Procs -> Op] /\ Alone(p)
  BY StopsAreLevels DEF IInv, StateOK, OpsOK, Op, Steps, Alone, BeginBreakEven,
     Idle, Levels
<1>3. Consistent(op'[p])
  BY DEF IInv, OpsOK, Consistent, BeginBreakEven
<1>4. KeepsLock(p)
  BY DEF IInv, OpsOK, KeepsLock, Locked, Consistent, BeginBreakEven
<1>5. /\ bes' = bes /\ (row'.be = row.be \/ row'.be = TRUE)
      /\ Locked(op'[p]) /\ op'[p].at \in {"sendBe", "noteBe"} =>
           Locked(op[p]) /\ op[p].at \in {"sendBe", "noteBe"}
  BY DEF IInv, Locked, BeginBreakEven
<1> QED
  BY <1>1, <1>2, <1>3, <1>4, <1>5, LockStep, QuietStep DEF IInv

\* The stop of a break-even is sent.
LEMMA SendBreakEvenStep ==
  ASSUME IInv, NEW p \in Procs, SendBreakEven(p)
  PROVE  IInv'
<1>1. StateOK'
  BY DEF IInv, StateOK, OpsOK, Op, SendBreakEven
<1>2. op' \in [Procs -> Op] /\ Alone(p)
  BY GotoMoves, ToTrailMoves, FinishMoves DEF IInv, Steps, SendBreakEven, Abandon
<1>3. Consistent(op'[p])
  BY DEF IInv, OpsOK, Op, Consistent, SendBreakEven, Idle, Goto, ToTrail, Finish, Abandon
<1>4. KeepsLock(p)
  BY DEF IInv, OpsOK, Op, KeepsLock, Locked, SendBreakEven, Idle, Goto, ToTrail, Finish, Abandon
<1>5. /\ bes' = bes /\ (row'.be = row.be \/ row'.be = TRUE)
      /\ Locked(op'[p]) /\ op'[p].at \in {"sendBe", "noteBe"} =>
           Locked(op[p]) /\ op[p].at \in {"sendBe", "noteBe"}
  BY DEF IInv, OpsOK, Op, Locked, SendBreakEven, Idle, Goto, ToTrail, Finish, Abandon
<1> QED
  BY <1>1, <1>2, <1>3, <1>4, <1>5, LockStep, QuietStep DEF IInv

\* The trail starts from the stop the pass goes by.
LEMMA TryTrailStep ==
  ASSUME IInv, NEW p \in Procs, TryTrail(p)
  PROVE  IInv'
<1>1. StateOK'
  BY DEF IInv, StateOK, OpsOK, Op, TryTrail
<1>2. op' \in [Procs -> Op] /\ Alone(p)
  <2> DEFINE want == TrailingStop("BUY", op[p].mark, TrailDist, MinDist, Existing(p))
  <2>1. CASE op' = [op EXCEPT ![p].at = "sendTrail", ![p].want = want]
    <3>1. op[p].mark \in Marks /\ Existing(p) \in Levels
      BY DEF IInv, StateOK, OpsOK, Op, Consistent, TryTrail, At, Existing
    <3>2. want \in Levels
      BY <3>1, StopsAreLevels
    <3> HIDE DEF want
    <3> QED
      BY <2>1, <3>2, WantMoves DEF IInv, Steps
  <2>2. CASE Finish(p)
    BY <2>2, FinishMoves DEF IInv
  <2> QED
    BY <2>1, <2>2, SMTT(30) DEF TryTrail, Leave
<1>3. Consistent(op'[p])
  BY DEF IInv, OpsOK, Op, Consistent, TryTrail, At, Idle, Finish, Leave, Existing, HasSl
<1>4. KeepsLock(p) \/ DropsLock(p)
  BY DEF IInv, OpsOK, Op, KeepsLock, DropsLock, Locked, TryTrail, At, Idle, Finish, Leave
<1>5. /\ bes' = bes /\ (row'.be = row.be \/ row'.be = TRUE)
      /\ Locked(op'[p]) /\ op'[p].at \in {"sendBe", "noteBe"} =>
           Locked(op[p]) /\ op[p].at \in {"sendBe", "noteBe"}
  BY DEF IInv, StateOK, OpsOK, Op, TryTrail, Idle, Finish, Leave
<1> QED
  BY <1>1, <1>2, <1>3, <1>4, <1>5, LockStep, QuietStep DEF IInv

\* The stop of the trail is sent.
LEMMA SendTrailStep ==
  ASSUME IInv, NEW p \in Procs, SendTrail(p)
  PROVE  IInv'
<1>1. StateOK'
  BY DEF IInv, StateOK, OpsOK, Op, SendTrail
<1>2. op' \in [Procs -> Op] /\ Alone(p)
  BY GotoMoves, FinishMoves DEF IInv, Steps, SendTrail, Leave
<1>3. Consistent(op'[p])
  BY DEF IInv, OpsOK, Op, Consistent, SendTrail, At, Idle, Goto, Finish, Leave
<1>4. KeepsLock(p) \/ DropsLock(p)
  BY DEF IInv, OpsOK, Op, KeepsLock, DropsLock, Locked, SendTrail, At, Idle, Goto,
     Finish, Leave
<1>5. /\ bes' = bes /\ (row'.be = row.be \/ row'.be = TRUE)
      /\ Locked(op'[p]) /\ op'[p].at \in {"sendBe", "noteBe"} =>
           Locked(op[p]) /\ op[p].at \in {"sendBe", "noteBe"}
  BY DEF IInv, OpsOK, Op, SendTrail, Idle, Goto, Finish, Leave
<1> QED
  BY <1>1, <1>2, <1>3, <1>4, <1>5, LockStep, QuietStep DEF IInv

\* The stop that the trail sent is recorded, and the account given back.
LEMMA NoteTrailStep ==
  ASSUME IInv, NEW p \in Procs, NoteTrail(p)
  PROVE  IInv'
<1>1. StateOK'
  BY DEF IInv, StateOK, OpsOK, Op, NoteTrail
<1>2. op' \in [Procs -> Op] /\ Alone(p)
  BY DEF IInv, OpsOK, Op, Steps, Alone, NoteTrail, Idle, Finish, Leave, Levels
<1>3. Consistent(op'[p])
  BY DEF IInv, OpsOK, Consistent, NoteTrail, Idle, Finish, Leave
<1>4. KeepsLock(p) \/ DropsLock(p)
  BY DEF IInv, OpsOK, DropsLock, Locked, NoteTrail, At, Idle, Finish, Leave
<1>5. /\ bes' = bes /\ (row'.be = row.be \/ row'.be = TRUE)
      /\ Locked(op'[p]) /\ op'[p].at \in {"sendBe", "noteBe"} =>
           Locked(op[p]) /\ op[p].at \in {"sendBe", "noteBe"}
  BY DEF IInv, NoteTrail, Idle, Finish, Leave
<1> QED
  BY <1>1, <1>2, <1>3, <1>4, <1>5, LockStep, QuietStep DEF IInv

\* The chase sends what is no lower than the stop that the broker showed.
LEMMA TryChaseStep ==
  ASSUME IInv, NEW p \in Procs, TryChase(p)
  PROVE  IInv'
<1> DEFINE want == ChaseStop(op[p].mark)
           new == [op[p] EXCEPT !.at = "sendChase", !.want = want]
<1>1. At(p, "protect", "chase") /\ op[p].mark \in Marks /\ op[p] \in Op /\ op \in [Procs -> Op]
  BY DEF IInv, OpsOK, Consistent, TryChase, At
<1>2. StateOK' /\ bes' = bes /\ row'.be = row.be
  BY <1>1 DEF IInv, StateOK, Op, TryChase
<1>3. want \in Int
  BY <1>1, StopsAreIntegers
<1> HIDE DEF want
<1>4. CASE /\ op' = [op EXCEPT ![p].at = "sendChase", ![p].want = want] /\ UNCHANGED busy
           /\ want > 0 /\ (Chart(p) = NoStop \/ want - Chart(p) >= Bump)
  <2>1. want \in Levels /\ (op[p].seen => want >= op[p].sl)
    BY <1>1, <1>3, <1>4, TrailAssumption DEF Op, Chart, Levels, NoStop
  <2>2. op' = [op EXCEPT ![p] = new]
    BY <1>1, <1>4
  <2>3. new \in Op /\ new.kind = "protect" /\ new.at = "sendChase" /\ new.mark \in Marks
        /\ (new.seen => new.want >= new.sl)
    BY <1>1, <2>1 DEF Op, Steps, At
  <2> HIDE DEF new
  <2>4. op' \in [Procs -> Op] /\ Alone(p) /\ op'[p] = new
    BY <1>1, <2>2, <2>3 DEF Alone
  <2>5. Consistent(op'[p]) /\ KeepsLock(p)
    BY <1>1, <1>4, <2>3, <2>4 DEF Consistent, KeepsLock, Locked, At
  <2> QED
    BY <1>2, <2>3, <2>4, <2>5, LockStep, QuietStep DEF IInv
<1>5. CASE AfterChase(p)
  <2>1. /\ op' \in [Procs -> Op] /\ Alone(p) /\ Consistent(op'[p])
        /\ KeepsLock(p) \/ DropsLock(p)
        /\ op'[p].at \notin {"sendBe", "noteBe"}
    BY <1>1, <1>5, AfterChaseMoves DEF IInv, At, Locked
  <2> QED
    BY <1>2, <2>1, LockStep, QuietStep DEF IInv
<1> QED
  BY <1>4, <1>5 DEF TryChase, want

\* The stop of the chase is sent.
LEMMA SendChaseStep ==
  ASSUME IInv, NEW p \in Procs, SendChase(p)
  PROVE  IInv'
<1>1. At(p, "protect", "sendChase") /\ op[p] \in Op /\ op \in [Procs -> Op]
  BY DEF IInv, OpsOK, SendChase
<1>2. StateOK' /\ bes' = bes /\ row'.be = row.be
  BY ZenonT(60), <1>1 DEF IInv, StateOK, Op, SendChase
<1>3. CASE Goto(p, "noteChase") /\ UNCHANGED busy
  <2>1. op' \in [Procs -> Op] /\ Alone(p)
    BY <1>3, GotoMoves DEF IInv, Steps
  <2>2. Consistent(op'[p]) /\ KeepsLock(p) /\ op'[p].at = "noteChase"
    BY <1>1, <1>3 DEF IInv, OpsOK, Op, Consistent, KeepsLock, Locked, At, Goto
  <2> QED
    BY <1>2, <2>1, <2>2, LockStep, QuietStep DEF IInv
<1>4. CASE AfterChase(p)
  <2>1. /\ op' \in [Procs -> Op] /\ Alone(p) /\ Consistent(op'[p])
        /\ KeepsLock(p) \/ DropsLock(p)
        /\ op'[p].at \notin {"sendBe", "noteBe"}
    BY <1>1, <1>4, AfterChaseMoves DEF IInv, At, Locked
  <2> QED
    BY <1>2, <2>1, LockStep, QuietStep DEF IInv
<1> QED
  BY <1>3, <1>4 DEF SendChase

\* The stop that the chase sent is recorded, and the account given back.
LEMMA NoteChaseStep ==
  ASSUME IInv, NEW p \in Procs, NoteChase(p)
  PROVE  IInv'
<1>1. StateOK'
  BY DEF IInv, StateOK, OpsOK, Op, NoteChase, Levels
<1>2. op' \in [Procs -> Op] /\ Alone(p)
  BY FinishMoves DEF IInv, NoteChase, Leave
<1>3. Consistent(op'[p])
  BY DEF IInv, OpsOK, Consistent, NoteChase, Idle, Finish, Leave
<1>4. KeepsLock(p) \/ DropsLock(p)
  BY DEF IInv, OpsOK, DropsLock, Locked, NoteChase, At, Idle, Finish, Leave
<1>5. /\ bes' = bes /\ (row'.be = row.be \/ row'.be = TRUE)
      /\ Locked(op'[p]) /\ op'[p].at \in {"sendBe", "noteBe"} =>
           Locked(op[p]) /\ op[p].at \in {"sendBe", "noteBe"}
  BY DEF IInv, StateOK, OpsOK, NoteChase, Idle, Finish, Leave
<1> QED
  BY <1>1, <1>2, <1>3, <1>4, <1>5, LockStep, QuietStep DEF IInv

\* A try to attach a stop gives the account back in any case.
LEMMA AttachStep ==
  ASSUME IInv, NEW p \in Procs, Attach(p)
  PROVE  IInv'
<1> DEFINE stop == FirstAttach(p)
<1>1. At(p, "protect", "attach") /\ op[p] \in Op /\ op[p].mark \in Marks /\ chase.tries \in 0..3
  BY DEF IInv, StateOK, OpsOK, Consistent, Attach, At
<1>2. stop \in Int
  BY <1>1, StopsAreIntegers
<1> HIDE DEF stop
<1>3. \/ UNCHANGED <<sl, row, chase>>
      \/ /\ stop > 0 /\ sl' = stop /\ row' = [row EXCEPT !.sl = stop]
         /\ chase' = [rejected |-> NoStop, tries |-> 0,
                      waits |-> (chase.waits \cup {"attach"}) \ {"backoff"}]
      \/ /\ chase' = [chase EXCEPT !.tries = MinOf(@ + 1, 3), !.waits = chase.waits \cup {"attach"}]
         /\ UNCHANGED <<sl, row>>
  BY DEF Attach, stop
<1>4. /\ bes' = bes /\ (row'.be = row.be \/ row'.be = TRUE)
  BY <1>3 DEF IInv, StateOK, Attach
<1>5. StateOK'
  <2>1. mark' \in Marks /\ bes' \in Nat
    BY DEF IInv, StateOK, Attach
  <2>2. /\ sl' \in Levels
        /\ row' \in [mode : RowModes, sl : Levels, be : BOOLEAN, on : BOOLEAN, armed : BOOLEAN]
    BY <1>2, <1>3 DEF IInv, StateOK, Levels
  <2>3. chase' \in [rejected : Levels, tries : 0..3, waits : SUBSET {"backoff", "attach"}]
    <3>1. MinOf(chase.tries + 1, 3) \in 0..3
      BY <1>1 DEF MinOf
    <3>2. chase \in [rejected : Levels, tries : 0..3, waits : SUBSET {"backoff", "attach"}]
      BY DEF IInv, StateOK
    <3>3. chase.waits \cup {"attach"} \in SUBSET {"backoff", "attach"} /\ NoStop \in Levels
      BY <3>2 DEF Levels
    <3>4. CASE UNCHANGED <<sl, row, chase>>
      BY <3>2, <3>4
    <3>5. CASE chase' = [rejected |-> NoStop, tries |-> 0,
                         waits |-> (chase.waits \cup {"attach"}) \ {"backoff"}]
      BY <3>3, <3>5
    <3>6. CASE chase' = [chase EXCEPT !.tries = MinOf(@ + 1, 3), !.waits = chase.waits \cup {"attach"}]
      <4> DEFINE tries == MinOf(chase.tries + 1, 3)
                 waits == chase.waits \cup {"attach"}
      <4>1. chase' = [chase EXCEPT !.tries = tries, !.waits = waits]
        BY <3>6
      <4>2. tries \in 0..3 /\ waits \in SUBSET {"backoff", "attach"}
        BY <3>1, <3>3
      <4> HIDE DEF tries, waits
      <4> QED
        BY <3>2, <4>1, <4>2
    <3> QED
      BY <1>3, <3>4, <3>5, <3>6
  <2> QED
    BY <2>1, <2>2, <2>3 DEF StateOK
<1>6. op' \in [Procs -> Op] /\ Alone(p)
  BY FinishMoves DEF IInv, Attach, Leave
<1>7. Consistent(op'[p]) /\ DropsLock(p) /\ op'[p].at = "idle"
  BY <1>1 DEF IInv, OpsOK, Consistent, DropsLock, Locked, Attach, At, Idle, Finish, Leave
<1> QED
  BY <1>4, <1>5, <1>6, <1>7, LockStep, QuietStep DEF IInv

\* The EMA3 trail is no pass.
LEMMA BeginEmaStep ==
  ASSUME IInv, NEW p \in Procs, NEW ema \in Marks, NEW price \in Marks, BeginEma(p, ema, price)
  PROVE  IInv'
<1>1. StateOK'
  BY DEF IInv, StateOK, BeginEma
<1>2. op' \in [Procs -> Op] /\ Alone(p)
  BY TrailAssumption DEF IInv, OpsOK, Op, Steps, Alone, BeginEma, Idle, Levels
<1>3. Consistent(op'[p])
  BY DEF IInv, OpsOK, Consistent, BeginEma
<1>4. KeepsLock(p)
  BY DEF IInv, OpsOK, KeepsLock, Locked, Consistent, BeginEma
<1>5. /\ bes' = bes /\ (row'.be = row.be \/ row'.be = TRUE)
      /\ Locked(op'[p]) /\ op'[p].at \in {"sendBe", "noteBe"} =>
           Locked(op[p]) /\ op[p].at \in {"sendBe", "noteBe"}
  BY DEF IInv, BeginEma
<1> QED
  BY <1>1, <1>2, <1>3, <1>4, <1>5, LockStep, QuietStep DEF IInv

\* The stop of the EMA3 trail is sent.
LEMMA SendEmaStep ==
  ASSUME IInv, NEW p \in Procs, SendEma(p)
  PROVE  IInv'
<1>1. StateOK'
  BY DEF IInv, StateOK, OpsOK, Op, SendEma
<1>2. op' \in [Procs -> Op] /\ Alone(p)
  BY GotoMoves, FinishMoves DEF IInv, Steps, SendEma
<1>3. Consistent(op'[p])
  BY DEF IInv, OpsOK, Op, Consistent, SendEma, At, Idle, Goto, Finish
<1>4. KeepsLock(p)
  BY DEF IInv, OpsOK, Op, KeepsLock, Locked, SendEma, At, Idle, Goto, Finish
<1>5. /\ bes' = bes /\ (row'.be = row.be \/ row'.be = TRUE)
      /\ Locked(op'[p]) /\ op'[p].at \in {"sendBe", "noteBe"} =>
           Locked(op[p]) /\ op[p].at \in {"sendBe", "noteBe"}
  BY DEF IInv, OpsOK, Op, SendEma, Idle, Goto, Finish
<1> QED
  BY <1>1, <1>2, <1>3, <1>4, <1>5, LockStep, QuietStep DEF IInv

\* The stop that the EMA3 trail sent is recorded.
LEMMA NoteEmaStep ==
  ASSUME IInv, NEW p \in Procs, NoteEma(p)
  PROVE  IInv'
<1>1. StateOK'
  BY DEF IInv, StateOK, OpsOK, Op, NoteEma
<1>2. op' \in [Procs -> Op] /\ Alone(p)
  BY DEF IInv, OpsOK, Op, Steps, Alone, NoteEma, Idle, Finish, Levels
<1>3. Consistent(op'[p])
  BY DEF IInv, Consistent, NoteEma, At, Idle, Finish
<1>4. KeepsLock(p)
  BY DEF IInv, KeepsLock, Locked, NoteEma, At, Idle, Finish
<1>5. /\ bes' = bes /\ (row'.be = row.be \/ row'.be = TRUE)
      /\ Locked(op'[p]) /\ op'[p].at \in {"sendBe", "noteBe"} =>
           Locked(op[p]) /\ op[p].at \in {"sendBe", "noteBe"}
  BY DEF IInv, NoteEma, Idle, Finish
<1> QED
  BY <1>1, <1>2, <1>3, <1>4, <1>5, LockStep, QuietStep DEF IInv

\* The user's switch is no pass either: on,
LEMMA BeginTrailOnStep ==
  ASSUME IInv, NEW p \in Procs, NEW price \in Marks, BeginTrailOn(p, price)
  PROVE  IInv'
<1> DEFINE want == TrailingStop("BUY", price, TrailDist, 0, row.sl)
           there == IF want = row.sl THEN "noteSwitch" ELSE "sendSwitch"
           new == [Idle EXCEPT !.kind = "trailOn", !.want = want, !.at = there]
<1>1. StateOK' /\ bes' = bes /\ row' = row /\ busy' = busy
  BY DEF IInv, StateOK, BeginTrailOn
<1>2. want \in Levels /\ there \in {"noteSwitch", "sendSwitch"}
  BY StopsAreLevels DEF IInv, StateOK
<1>3. op' = [op EXCEPT ![p] = new] /\ op[p].at = "idle"
  BY DEF BeginTrailOn
<1> HIDE DEF want, there
<1>4. new \in Op /\ new.kind = "trailOn"
  BY <1>2 DEF Op, Steps, Idle, Levels, NoStop
<1> HIDE DEF new
<1>5. op' \in [Procs -> Op] /\ Alone(p) /\ op'[p] = new
  BY <1>3, <1>4 DEF IInv, OpsOK, Alone
<1>6. Consistent(op'[p]) /\ KeepsLock(p) /\ ~Locked(op'[p])
  BY <1>1, <1>3, <1>4, <1>5 DEF IInv, OpsOK, Consistent, KeepsLock, Locked
<1> QED
  BY <1>1, <1>5, <1>6, LockStep, QuietStep DEF IInv

\* off,
LEMMA BeginTrailOffStep ==
  ASSUME IInv, NEW p \in Procs, BeginTrailOff(p)
  PROVE  IInv'
<1>1. StateOK'
  BY DEF IInv, StateOK, BeginTrailOff
<1>2. op' \in [Procs -> Op] /\ Alone(p)
  BY DEF IInv, StateOK, OpsOK, Op, Steps, Alone, BeginTrailOff, Idle, Levels
<1>3. Consistent(op'[p])
  BY DEF IInv, OpsOK, Consistent, BeginTrailOff
<1>4. KeepsLock(p)
  BY DEF IInv, OpsOK, KeepsLock, Locked, Consistent, BeginTrailOff
<1>5. /\ bes' = bes /\ (row'.be = row.be \/ row'.be = TRUE)
      /\ Locked(op'[p]) /\ op'[p].at \in {"sendBe", "noteBe"} =>
           Locked(op[p]) /\ op[p].at \in {"sendBe", "noteBe"}
  BY DEF IInv, BeginTrailOff
<1> QED
  BY <1>1, <1>2, <1>3, <1>4, <1>5, LockStep, QuietStep DEF IInv

\* with the stop that stays chosen from what the broker shows,
LEMMA ReadLiveStep ==
  ASSUME IInv, NEW p \in Procs, ReadLive(p)
  PROVE  IInv'
<1>1. StateOK' /\ bes' = bes /\ row' = row /\ busy' = busy /\ At(p, "trailOff", "readLive")
  BY DEF IInv, StateOK, ReadLive
<1>2. PICK price \in Marks, live \in Levels : Keep(p, price, live)
  BY DEF IInv, StateOK, OpsOK, Op, ReadLive
<1> DEFINE want == Kept(price, live)
           new == [op[p] EXCEPT !.at = "sendSwitch", !.sl = live, !.want = want]
<1>3. want \in Levels /\ want >= live
  BY StopsAreLevels
<1>4. op[p] \in Op /\ op \in [Procs -> Op]
  BY DEF IInv, OpsOK
<1>5. op' = [op EXCEPT ![p] = new]
  BY <1>2, <1>4 DEF Keep
<1> HIDE DEF want
<1>6. new \in Op /\ new.kind = "trailOff" /\ new.at = "sendSwitch" /\ new.want >= new.sl
  BY <1>1, <1>3, <1>4 DEF Op, Steps, At
<1> HIDE DEF new
<1>7. op' \in [Procs -> Op] /\ Alone(p) /\ op'[p] = new
  BY <1>4, <1>5, <1>6 DEF Alone
<1>8. Consistent(op'[p]) /\ KeepsLock(p) /\ ~Locked(op'[p])
  BY <1>1, <1>6, <1>7 DEF Consistent, KeepsLock, Locked, At
<1> QED
  BY <1>1, <1>7, <1>8, LockStep, QuietStep DEF IInv

\* the stop sent,
LEMMA SendSwitchStep ==
  ASSUME IInv, NEW p \in Procs, SendSwitch(p)
  PROVE  IInv'
<1>1. StateOK'
  BY DEF IInv, StateOK, OpsOK, Op, SendSwitch
<1>2. op' \in [Procs -> Op] /\ Alone(p)
  BY GotoMoves, FinishMoves DEF IInv, Steps, SendSwitch
<1>3. Consistent(op'[p])
  BY DEF IInv, OpsOK, Op, Consistent, SendSwitch, Idle, Goto, Finish
<1>4. KeepsLock(p)
  BY DEF IInv, OpsOK, Op, Consistent, KeepsLock, Locked, SendSwitch, Idle, Goto, Finish
<1>5. /\ bes' = bes /\ (row'.be = row.be \/ row'.be = TRUE)
      /\ Locked(op'[p]) /\ op'[p].at \in {"sendBe", "noteBe"} =>
           Locked(op[p]) /\ op[p].at \in {"sendBe", "noteBe"}
  BY DEF IInv, OpsOK, Op, SendSwitch, Idle, Goto, Finish
<1> QED
  BY <1>1, <1>2, <1>3, <1>4, <1>5, LockStep, QuietStep DEF IInv

\* and recorded.
LEMMA NoteSwitchStep ==
  ASSUME IInv, NEW p \in Procs, NoteSwitch(p)
  PROVE  IInv'
<1>1. StateOK'
  BY DEF IInv, StateOK, OpsOK, Op, NoteSwitch
<1>2. op' \in [Procs -> Op] /\ Alone(p)
  BY FinishMoves DEF IInv, NoteSwitch
<1>3. Consistent(op'[p])
  BY DEF IInv, OpsOK, Consistent, NoteSwitch, Idle, Finish
<1>4. KeepsLock(p)
  BY DEF IInv, OpsOK, Consistent, KeepsLock, Locked, NoteSwitch, Idle, Finish
<1>5. /\ bes' = bes /\ (row'.be = row.be \/ row'.be = TRUE)
      /\ Locked(op'[p]) /\ op'[p].at \in {"sendBe", "noteBe"} =>
           Locked(op[p]) /\ op[p].at \in {"sendBe", "noteBe"}
  BY DEF IInv, StateOK, OpsOK, NoteSwitch, Idle, Finish
<1> QED
  BY <1>1, <1>2, <1>3, <1>4, <1>5, LockStep, QuietStep DEF IInv

\* A pass tries break-even when the row, as it is now, has none.
LEMMA TryBreakEvenStep ==
  ASSUME IInv, NEW p \in Procs, TryBreakEven(p)
  PROVE  IInv'
<1> DEFINE want == BreakEvenStop("BUY", Entry, BeOffset, MinDist, op[p].mark)
<1>1. StateOK' /\ bes' = bes /\ row' = row
  BY DEF IInv, StateOK, TryBreakEven
<1>2. want \in Levels
  BY StopsAreLevels DEF IInv, OpsOK, Consistent, TryBreakEven, At
<1> HIDE DEF want
<1>3. CASE ToTrail(p)
  <2>1. op' \in [Procs -> Op] /\ Alone(p)
    BY <1>3, ToTrailMoves DEF IInv
  <2>2. Consistent(op'[p]) /\ KeepsLock(p) /\ op'[p].at = "trail"
    BY <1>3 DEF IInv, OpsOK, Op, Consistent, KeepsLock, Locked, TryBreakEven, At, ToTrail
  <2> QED
    BY <1>1, <2>1, <2>2, LockStep, QuietStep DEF IInv
<1>4. CASE ~row.be /\ op' = [op EXCEPT ![p].at = "sendBe", ![p].want = want, ![p].armed = row.armed]
  <2>1. op' \in [Procs -> Op] /\ Alone(p)
    <3>1. op[p] \in Op /\ op \in [Procs -> Op] /\ row.armed \in BOOLEAN
      BY DEF IInv, StateOK, OpsOK
    <3>2. [op[p] EXCEPT !.at = "sendBe", !.want = want, !.armed = row.armed] \in Op
      BY <1>2, <3>1 DEF Op, Steps
    <3>3. op' = [op EXCEPT ![p] = [op[p] EXCEPT !.at = "sendBe", !.want = want, !.armed = row.armed]]
      BY <1>4, <3>1
    <3> QED
      BY <3>1, <3>2, <3>3 DEF Alone
  <2>2. Consistent(op'[p]) /\ KeepsLock(p)
    BY <1>4 DEF IInv, OpsOK, Consistent, KeepsLock, Locked, TryBreakEven, At
  <2>3. bes = 0
    BY <1>4 DEF IInv, StateOK, Recorded
  <2>4. Recorded' /\ FirstOne' /\ BreakEvenOnce'
    BY <1>1, <2>3 DEF Recorded, FirstOne, BreakEvenOnce
  <2> QED
    BY <1>1, <2>1, <2>2, <2>4, LockStep DEF IInv
<1> QED
  BY <1>3, <1>4 DEF TryBreakEven, want

\* The pass that records a break-even is the first and the only one there.
LEMMA NoteBreakEvenStep ==
  ASSUME IInv, NEW p \in Procs, NoteBreakEven(p)
  PROVE  IInv'
<1>1. StateOK' /\ row'.be = TRUE
  <2>1. bes' \in Nat
    BY DEF IInv, StateOK, NoteBreakEven
  <2>2. op[p].want \in Levels /\ op[p].armed \in BOOLEAN
    BY DEF IInv, OpsOK, Op
  <2>3. /\ row' \in [mode : RowModes, sl : Levels, be : BOOLEAN, on : BOOLEAN, armed : BOOLEAN]
        /\ row'.be = TRUE
    BY <2>2 DEF IInv, StateOK, NoteBreakEven
  <2> QED
    BY <2>1, <2>3 DEF IInv, StateOK, NoteBreakEven
<1>2. op' \in [Procs -> Op] /\ Alone(p)
  BY ToTrailMoves, FinishMoves DEF IInv, NoteBreakEven, Abandon
<1>3. Consistent(op'[p]) /\ KeepsLock(p) /\ op'[p].at \notin {"sendBe", "noteBe"}
  BY DEF IInv, OpsOK, Op, Consistent, KeepsLock, Locked, NoteBreakEven, Abandon,
     ToTrail, Finish, Idle
<1>4. OpsOK' /\ BusyIsHeld' /\ OneHolder'
  BY <1>2, <1>3, LockStep DEF IInv
<1>5. CASE op[p].kind = "protect"
  <2>1. Locked(op[p]) /\ bes = 0 /\ bes' = 1
    BY <1>5 DEF IInv, Locked, FirstOne, NoteBreakEven
  <2>2. Locked(op'[p])
    BY <1>3, <2>1 DEF KeepsLock
  <2>3. \A q \in Procs : Locked(op'[q]) => q = p
    BY <1>4, <2>2 DEF OneHolder
  <2> QED
    BY <1>1, <1>3, <1>4, <2>1, <2>3 DEF IInv, Recorded, FirstOne, BreakEvenOnce
<1>6. CASE op[p].kind # "protect"
  <2>1. bes' = bes
    BY <1>6 DEF NoteBreakEven
  <2> QED
    BY <1>1, <1>2, <1>3, <1>4, <2>1, QuietStep DEF IInv
<1> QED
  BY <1>5, <1>6

\* The market, the chart and the waits leave the passes alone.
LEMMA OutsideStep ==
  ASSUME IInv,
         \/ (\E m \in Marks : MoveMarket(m)) \/ RemoveStop
         \/ (\E w \in {"backoff", "attach"} : WaitEnds(w)) \/ UNCHANGED vars
  PROVE  IInv'
<1>1. StateOK' /\ UNCHANGED <<op, busy, bes, row>>
  BY DEF IInv, StateOK, MoveMarket, RemoveStop, WaitEnds, vars, Levels
<1> QED
  BY <1>1 DEF IInv, OpsOK, BusyIsHeld, OneHolder, Recorded, FirstOne, BreakEvenOnce

-----------------------------------------------------------------------------
\* Nothing is under way at the start.
LEMMA InitIInv == Init => IInv
<1> SUFFICES ASSUME Init PROVE IInv
  OBVIOUS
<1>1. StateOK
  BY TrailAssumption DEF Init, StateOK, Levels
<1>2. \A p \in Procs : op[p] = Idle
  BY DEF Init
<1>3. OpsOK
  BY <1>2 DEF Init, OpsOK, Op, Steps, Consistent, Idle, Levels
<1> QED
  BY <1>1, <1>2, <1>3 DEF IInv, Init, BusyIsHeld, OneHolder, Recorded, FirstOne,
     BreakEvenOnce, Locked, Idle

\* Every step keeps the invariant.
LEMMA NextIInv == IInv /\ [Next]_vars => IInv'
<1> SUFFICES ASSUME IInv, [Next]_vars PROVE IInv'
  OBVIOUS
<1>1. ASSUME NEW p \in Procs, BeginProtect(p) \/ BeginBreakEven(p) \/ BeginTrailOff(p) \/ Continue(p)
      PROVE  IInv'
  BY <1>1, BeginProtectStep, BeginBreakEvenStep, SnapshotStep, EnterStep,
     RecoverStep, TryBreakEvenStep, SendBreakEvenStep, NoteBreakEvenStep,
     TryTrailStep, SendTrailStep, NoteTrailStep, TryChaseStep, SendChaseStep,
     NoteChaseStep, AttachStep, SendEmaStep, NoteEmaStep,
     BeginTrailOffStep, ReadLiveStep, SendSwitchStep, NoteSwitchStep DEF Continue
<1>2. ASSUME NEW p \in Procs, NEW price \in Marks,
             (\E ema \in Marks : BeginEma(p, ema, price)) \/ BeginTrailOn(p, price)
      PROVE  IInv'
  BY <1>2, BeginEmaStep, BeginTrailOnStep
<1> QED
  BY <1>1, <1>2, OutsideStep DEF Next

\* IInv is an invariant.
LEMMA Invariance == Spec => []IInv
  BY InitIInv, NextIInv, PTL DEF Spec

\* Stops are prices or absent, and the account is busy exactly while a pass
\* holds it: however the timers, the users and the failures interleave.
THEOREM ProtectionTyped == Spec => []TypeOK
<1>1. IInv => TypeOK
  BY DEF IInv, StateOK, OpsOK, Op, BusyIsHeld, Locked, TypeOK
<1> QED
  BY <1>1, Invariance, PTL

\* autoManageAccountProtections never runs twice for one account (1565-1583):
\* two passes past the check of protectionsRunningByAccount are the same one.
THEOREM OnePassAtATime == Spec => []OneHolder
<1>1. IInv => OneHolder
  BY DEF IInv
<1> QED
  BY <1>1, Invariance, PTL

\* The passes of any number of timers activate break-even once, because the row
\* is read again under the lock (activateBreakEven 942-945).
THEOREM BreakEvenActivatedOnce == Spec => []BreakEvenOnce
<1>1. IInv => BreakEvenOnce
  BY DEF IInv
<1> QED
  BY <1>1, Invariance, PTL

\* A pass that goes by the stop the broker still has never lowers it (the trail
\* 2056-2095, the chase 1113-1335), nor does switching the trail off ("never
\* loosen", 2206), for any prices and distances.
THEOREM FreshNeverLowers == Spec => FreshPassTightens
<1>1. IInv /\ [Next]_vars =>
        [\A p \in Procs :
           (/\ op'[p] # op[p] /\ op[p].sl = sl
            /\ \/ At(p, "protect", "sendTrail") /\ op[p].mark > sl
               \/ At(p, "protect", "sendChase") /\ op[p].seen
               \/ At(p, "trailOff", "sendSwitch")) => sl' >= sl]_vars
  <2> DEFINE Trails(p) == At(p, "protect", "sendTrail") /\ op[p].mark > sl
             Chases(p) == At(p, "protect", "sendChase") /\ op[p].seen
             Stops(p) == At(p, "trailOff", "sendSwitch")
  <2> SUFFICES ASSUME IInv, Next, NEW p \in Procs, op'[p] # op[p], op[p].sl = sl,
                      Trails(p) \/ Chases(p) \/ Stops(p)
               PROVE  sl' >= sl
    BY DEF vars
  <2>1. SendTrail(p) \/ SendChase(p) \/ SendSwitch(p)
    <3>1. ASSUME NEW q \in Procs, NEW price \in Marks,
                 \/ BeginProtect(q) \/ BeginBreakEven(q) \/ BeginTrailOff(q) \/ Continue(q)
                 \/ (\E ema \in Marks : BeginEma(q, ema, price)) \/ BeginTrailOn(q, price)
          PROVE  op'[p] = op[p] \/ q = p
      BY <3>1, ZenonT(60) DEF IInv, OpsOK, Continue, BeginProtect, BeginBreakEven, BeginTrailOn,
         BeginTrailOff, Snapshot, Enter, Recover, TryBreakEven, SendBreakEven,
         NoteBreakEven, TryTrail, SendTrail, NoteTrail, TryChase, SendChase, NoteChase,
         Attach, AfterChase, SendEma, NoteEma, BeginEma, ReadLive, Keep, SendSwitch,
         NoteSwitch, Goto, ToTrail, Finish, Leave, Abandon
    <3>2. /\ ~BeginProtect(p) /\ ~BeginBreakEven(p) /\ ~BeginTrailOff(p)
          /\ \A price \in Marks :
               ~BeginTrailOn(p, price) /\ \A ema \in Marks : ~BeginEma(p, ema, price)
      BY DEF At, BeginProtect, BeginBreakEven, BeginTrailOff, BeginEma, BeginTrailOn
    <3>3. Continue(p) => SendTrail(p) \/ SendChase(p) \/ SendSwitch(p)
      BY DEF At, Continue, Snapshot, Enter, Recover, TryBreakEven, SendBreakEven,
         NoteBreakEven, TryTrail, NoteTrail, TryChase, NoteChase, Attach, SendEma, NoteEma,
         ReadLive, NoteSwitch
    <3>4. mark \in Marks /\ (\A m \in Marks : ~MoveMarket(m)) /\ ~RemoveStop
          /\ \A w \in {"backoff", "attach"} : ~WaitEnds(w)
      BY DEF IInv, StateOK, MoveMarket, RemoveStop, WaitEnds
    <3> QED
      BY <3>1, <3>2, <3>3, <3>4, SMTT(30) DEF Next
  <2>2. sl \in Levels /\ op[p].want \in Levels
    BY DEF IInv, StateOK, OpsOK, Op
  <2>3. CASE sl' = sl
    BY <2>2, <2>3 DEF Levels, NoStop
  <2>4. CASE sl' = op[p].want /\ (Chases(p) \/ Stops(p))
    BY <2>2, <2>4 DEF IInv, OpsOK, Consistent, At
  <2>5. CASE sl' = op[p].want /\ Trails(p)
    <3>1. op[p].mark \in Marks
      BY <2>5 DEF IInv, OpsOK, Consistent, At
    <3>2. CASE sl = NoStop
      BY <2>2, <2>5, <3>2 DEF Levels, NoStop
    <3>3. CASE sl # NoStop
      <4>1. /\ op[p].want = TrailingStop("BUY", op[p].mark, TrailDist, MinDist, sl)
            /\ sl < op[p].mark
        BY <2>5, <3>1, <3>3, TrailAssumption DEF IInv, OpsOK, Consistent, At
      <4> QED
        BY <2>2, <2>5, <3>1, <4>1, TrailAhead
    <3> QED
      BY <3>2, <3>3
  <2> QED
    BY <2>1, <2>3, <2>4, <2>5 DEF SendTrail, SendChase, SendSwitch
<1> QED
  BY <1>1, Invariance, PTL DEF Spec, FreshPassTightens

-----------------------------------------------------------------------------
\* An input: what Init chooses and no step changes.
Input ==
  /\ dir \in Directions
  /\ entry \in Nat /\ quote \in Nat /\ dist \in Nat /\ min \in Nat \ {0}
  /\ entry >= 2 * MaxDist /\ quote >= 2 * MaxDist /\ MaxDist >= dist /\ MaxDist >= min
  /\ entry <= MaxPrice /\ quote <= MaxPrice
  /\ existing \in Nat \cup {NoStop}

\* Every initial state is an input.
LEMMA InitInput == CasesInit => Input
<1>1. CASE AnyLevels
  BY <1>1, CasesAssumption DEF AnyLevels, Input, Directions, NoStop
<1>2. CASE /\ dir = "BUY" /\ entry = 2 * MaxDist /\ quote = 2 * MaxDist /\ dist = 0
           /\ min = 1 /\ existing = NoStop
  BY <1>2, CasesAssumption DEF Input, Directions, NoStop
<1> QED
  BY ONLY <1>1, <1>2 DEF CasesInit

\* No step changes the input.
LEMMA StepInput == Input /\ [UNCHANGED caseVars]_caseVars => Input'
  BY DEF Input, caseVars

\* The trailing stop is never behind an existing stop that still protects, and
\* a new one is legal.
LEMMA TrailingTightensOn == Input => TrailingTightens
  BY CasesAssumption
     DEF Input, TrailingTightens, TrailingStop, Favorable, ValidVsMark, MaxOf, Directions, NoStop

\* The mirror image of an input has the mirror image of its stops.
LEMMA SellMirrorsBuyOn == Input => SellMirrorsBuy
  BY CasesAssumption
     DEF Input, SellMirrorsBuy, InitialStop, BreakEvenStop, TrailingStop, Favorable, Flip,
         Mirror, MaxOf, MinOf, Directions, NoStop

\* In profit the chase's stop is legal and, once the gain allows it, not short
\* of the entry.
LEMMA LockLegalOn == Input => LockLegal
  BY SMTT(30), CasesAssumption
     DEF Input, LockLegal, LockStop, TrailingStop, InitialStop, Favorable, ValidVsMark, MaxOf, MinOf, Directions, NoStop

\* A fifth of a gain that is one tick larger is at most one tick larger.
LEMMA FifthGrows ==
  ASSUME NEW g \in Nat
  PROVE  /\ (g + 2) \div 5 \in Nat /\ (g + 3) \div 5 \in Nat
         /\ (g + 2) \div 5 <= (g + 3) \div 5 /\ (g + 3) \div 5 <= (g + 2) \div 5 + 1
  OBVIOUS

\* The chase's stop does not go back as the gain grows: its distance grows by at
\* most the tick the quote has moved.
LEMMA LockMonotoneOn == Input => LockMonotone
<1> SUFFICES ASSUME Input, Favorable(dir, entry, quote) > 0 PROVE LockMonotone
  BY DEF LockMonotone
<1> DEFINE g == Favorable(dir, entry, quote)
           f == (g + 2) \div 5
           h == (g + 3) \div 5
           d == IF g >= min THEN MinOf(MaxOf(f, min), g) ELSE MaxOf(f, min)
           e == IF g + 1 >= min THEN MinOf(MaxOf(h, min), g + 1) ELSE MaxOf(h, min)
<1>1. g \in Nat /\ g > 0 /\ min \in Nat \ {0} /\ entry \in Nat /\ quote \in Nat /\ min <= quote
  BY CasesAssumption DEF Input, Favorable, Directions
<1>2. f \in Nat /\ h \in Nat /\ f <= h /\ h <= f + 1
  BY <1>1, FifthGrows
<1>3. /\ d \in Nat /\ e \in Nat /\ e <= d + 1
      /\ min <= d /\ min <= e /\ (dir = "BUY" => d <= quote)
  <2>1. f <= g /\ (dir = "BUY" => g <= quote)
    BY <1>1 DEF Favorable
  <2> HIDE DEF g, f, h
  <2>2. /\ MaxOf(f, min) \in Nat /\ MaxOf(h, min) \in Nat
        /\ min <= MaxOf(f, min) /\ min <= MaxOf(h, min) /\ MaxOf(h, min) <= MaxOf(f, min) + 1
    BY <1>1, <1>2 DEF MaxOf
  <2>3. (MaxOf(f, min) <= g \/ MaxOf(f, min) = min)
    BY <1>1, <1>2, <2>1 DEF MaxOf
  <2> QED
    BY <1>1, <1>2, <2>1, <2>2, <2>3 DEF MinOf
<1>4. CASE dir = "BUY"
  <2>1. g = quote - entry /\ Favorable(dir, entry, quote + 1) = g + 1 /\ (g + 1) + 2 = g + 3
    BY <1>1, <1>4 DEF Favorable
  <2> HIDE DEF g
  <2>2. /\ LockStop(dir, entry, min, quote) = TrailingStop(dir, quote, d, min, NoStop)
        /\ LockStop(dir, entry, min, quote + 1) = TrailingStop(dir, quote + 1, e, min, NoStop)
    BY <1>1, <2>1 DEF LockStop, g
  <2> HIDE DEF d, e
  <2>3. TrailingStop(dir, quote, d, min, NoStop) = quote - d
    BY <1>1, <1>3, <1>4, <2>1 DEF TrailingStop, MaxOf, NoStop
  <2>4. TrailingStop(dir, quote + 1, e, min, NoStop) = quote + 1 - e
    BY <1>1, <1>3, <1>4, <2>1 DEF TrailingStop, MaxOf, NoStop
  <2>5. ~ShouldMove(dir, quote - d, quote + 1 - e)
    BY <1>1, <1>3, <1>4 DEF ShouldMove, NoStop
  <2>6. ~ShouldMove(dir, LockStop(dir, entry, min, quote), LockStop(dir, entry, min, quote + 1))
    BY <2>2, <2>3, <2>4, <2>5
  <2> QED
    BY <1>4, <2>6 DEF LockMonotone
<1>5. CASE dir = "SELL"
  <2>1. g = entry - quote /\ Favorable(dir, entry, quote - 1) = g + 1 /\ (g + 1) + 2 = g + 3
    BY <1>1, <1>5 DEF Favorable
  <2> HIDE DEF g
  <2>2. /\ LockStop(dir, entry, min, quote) = TrailingStop(dir, quote, d, min, NoStop)
        /\ LockStop(dir, entry, min, quote - 1) = TrailingStop(dir, quote - 1, e, min, NoStop)
    BY <1>1, <2>1 DEF LockStop, g
  <2> HIDE DEF d, e
  <2>3. TrailingStop(dir, quote, d, min, NoStop) = quote + d
    BY <1>1, <1>3, <1>5 DEF TrailingStop, MaxOf, NoStop
  <2>4. TrailingStop(dir, quote - 1, e, min, NoStop) = quote - 1 + e
    BY <1>1, <1>3, <1>5 DEF TrailingStop, MaxOf, NoStop
  <2>5. ~ShouldMove(dir, quote + d, quote - 1 + e)
    BY <1>1, <1>3, <1>5 DEF ShouldMove, NoStop
  <2>6. ~ShouldMove(dir, LockStop(dir, entry, min, quote), LockStop(dir, entry, min, quote - 1))
    BY <2>2, <2>3, <2>4, <2>5
  <2> QED
    BY <1>5, <2>6 DEF LockMonotone
<1> QED
  BY <1>4, <1>5 DEF Input, Directions

\* Break-even gives the best legal stop: it is legal when there is one, and the
\* legal stops are those up to it.
LEMMA BreakEvenBestOn == Input => BreakEvenBest
<1> SUFFICES ASSUME Input PROVE BreakEvenBest
  OBVIOUS
<1> DEFINE legal == {s \in 1..(2 * MaxPrice) :
                       /\ Favorable(dir, entry, s) \in 0..dist
                       /\ Favorable(dir, s, quote) >= min}
           stop == BreakEvenStop(dir, entry, dist, min, quote)
<1>1. CASE Favorable(dir, entry, quote) < min
  <2>1. legal = {}
    BY <1>1, CasesAssumption DEF Input, Favorable, Directions
  <2>2. stop = NoStop
    BY <1>1 DEF BreakEvenStop
  <2> QED
    BY <2>1, <2>2 DEF BreakEvenBest
<1>2. CASE ~(Favorable(dir, entry, quote) < min)
  <2>1. stop \in legal
    BY <1>2, CasesAssumption
       DEF Input, BreakEvenStop, Favorable, MaxOf, MinOf, Directions
  <2>2. \A s \in legal : Favorable(dir, s, stop) >= 0
    BY <1>2, CasesAssumption
       DEF Input, BreakEvenStop, Favorable, MaxOf, MinOf, Directions
  <2> QED
    BY <2>1, <2>2 DEF BreakEvenBest
<1> QED
  BY <1>1, <1>2

\* capitalSafeTrailingStop never gives up ground to a stop that still protects,
\* and gives no new stop the broker refuses.
THEOREM TrailingNeverLooser == CasesSpec => []TrailingTightens
<1>1. Input => TrailingTightens
  BY TrailingTightensOn
<1> QED
  BY InitInput, StepInput, <1>1, PTL DEF CasesSpec

\* capitalSafeBreakEvenStop gives the best legal stop, and none only when there
\* is none.
THEOREM BreakEvenIsBest == CasesSpec => []BreakEvenBest
<1>1. Input => BreakEvenBest
  BY BreakEvenBestOn
<1> QED
  BY InitInput, StepInput, <1>1, PTL DEF CasesSpec

\* scalpPctLockBrokerStop in profit is legal, locks the entry once it can, and does
\* not go back as the gain grows.
THEOREM LockIsSound == CasesSpec => []LockSound
<1>1. Input => LockSound
  BY LockLegalOn, LockMonotoneOn DEF LockSound
<1> QED
  BY InitInput, StepInput, <1>1, PTL DEF CasesSpec

\* The SELL branches are the mirror image of the BUY branches.
THEOREM SidesMirror == CasesSpec => []SellMirrorsBuy
<1>1. Input => SellMirrorsBuy
  BY SellMirrorsBuyOn
<1> QED
  BY InitInput, StepInput, <1>1, PTL DEF CasesSpec

-----------------------------------------------------------------------------
(***************************************************************************)
(* Readings, and what the modes make of them.                              *)
(***************************************************************************)
\* A reading: numbers, and what is so or not.
Readings ==
  [price : Int, open : Int, high : Int, low : Int, prevHigh : Int, prevLow : Int,
   ema1 : Int, ema3 : Int, ema1Prev : Int, ema3Prev : Int, ema1Prev2 : Int,
   ema3Prev2 : Int, ema9 : Int, ema21 : Int, ema55 : Int, ema200 : Int, ema9Slope : Int,
   ema21Slope : Int, ema200Slope : Int, rsi : Int, rsiPrev : Int, atr : Int, atrSlow : Int,
   atrPrev3 : Int, atrAvg14 : Int, macd : Int, macdSignal : Int, macdHist : Int,
   macdHistPrev : Int, macdHistPrev2 : Int, bbMid : Int, bbUpper : Int, bbLower : Int,
   bbWidth : Int, bbWidthAvg : Int, lastRange : Int, avgVolRange : Int, adx : Int,
   adxPrev2 : Int, plusDi : Int, minusDi : Int, stochK : Int, stochD : Int,
   stochKPrev : Int, pctB : Int, gapUpAtr : Int, gapDownAtr : Int, sessionHigh : Int,
   sessionLow : Int, vwapProxy : Int,
   bbWidthCompressed : BOOLEAN, rejectionBull : BOOLEAN, rejectionBear : BOOLEAN,
   bullDiv : BOOLEAN, bearDiv : BOOLEAN, hasVolumeData : BOOLEAN, volumeOk : BOOLEAN,
   volumeStrong : BOOLEAN]

\* j is i turned upside down.
Opposite(i, j) ==
  /\ j.price = -i.price /\ j.open = -i.open /\ j.ema1 = -i.ema1 /\ j.ema3 = -i.ema3
  /\ j.ema1Prev = -i.ema1Prev /\ j.ema3Prev = -i.ema3Prev /\ j.ema1Prev2 = -i.ema1Prev2
  /\ j.ema3Prev2 = -i.ema3Prev2 /\ j.ema9 = -i.ema9 /\ j.ema21 = -i.ema21
  /\ j.ema55 = -i.ema55 /\ j.ema200 = -i.ema200 /\ j.ema9Slope = -i.ema9Slope
  /\ j.ema21Slope = -i.ema21Slope /\ j.ema200Slope = -i.ema200Slope /\ j.macd = -i.macd
  /\ j.macdSignal = -i.macdSignal /\ j.macdHist = -i.macdHist
  /\ j.macdHistPrev = -i.macdHistPrev /\ j.macdHistPrev2 = -i.macdHistPrev2
  /\ j.bbMid = -i.bbMid /\ j.vwapProxy = -i.vwapProxy /\ j.high = -i.low /\ j.low = -i.high
  /\ j.prevHigh = -i.prevLow /\ j.prevLow = -i.prevHigh /\ j.bbUpper = -i.bbLower
  /\ j.bbLower = -i.bbUpper /\ j.sessionHigh = -i.sessionLow
  /\ j.sessionLow = -i.sessionHigh /\ j.rsi = 100 - i.rsi /\ j.rsiPrev = 100 - i.rsiPrev
  /\ j.stochK = 100 - i.stochK /\ j.stochD = 100 - i.stochD
  /\ j.stochKPrev = 100 - i.stochKPrev /\ j.pctB = 100 - i.pctB /\ j.plusDi = i.minusDi
  /\ j.minusDi = i.plusDi /\ j.gapUpAtr = i.gapDownAtr /\ j.gapDownAtr = i.gapUpAtr
  /\ j.rejectionBull = i.rejectionBear /\ j.rejectionBear = i.rejectionBull
  /\ j.bullDiv = i.bearDiv /\ j.bearDiv = i.bullDiv /\ j.atr = i.atr
  /\ j.atrSlow = i.atrSlow /\ j.atrPrev3 = i.atrPrev3 /\ j.atrAvg14 = i.atrAvg14
  /\ j.bbWidth = i.bbWidth /\ j.bbWidthAvg = i.bbWidthAvg /\ j.lastRange = i.lastRange
  /\ j.avgVolRange = i.avgVolRange /\ j.adx = i.adx /\ j.adxPrev2 = i.adxPrev2
  /\ j.bbWidthCompressed = i.bbWidthCompressed /\ j.hasVolumeData = i.hasVolumeData
  /\ j.volumeOk = i.volumeOk /\ j.volumeStrong = i.volumeStrong

\* A mirrored reading is upside down.
LEMMA MirroredIsOpposite == ASSUME NEW i \in Readings PROVE Opposite(i, Mirrored(i))
  BY DEF Readings, Mirrored, Opposite

\* What is open, and the other way round.
Holdings == [openBuy : BOOLEAN, openSell : BOOLEAN, prevSide : {"above", "below", "none"}, minScore : Int]

Against(o, q) ==
  /\ q.openBuy = o.openSell /\ q.openSell = o.openBuy /\ q.minScore = o.minScore
  /\ q.prevSide = CASE o.prevSide = "above" -> "below" [] o.prevSide = "below" -> "above"
                    [] OTHER -> o.prevSide

\* What a mode finds, and what it finds on the mirrored reading.
Turned(v, w) ==
  /\ v.buy \in Int /\ v.sell \in Int /\ v.exit \in BOOLEAN /\ v.wait \in BOOLEAN
  /\ w.buy = v.sell /\ w.sell = v.buy /\ w.exit = v.exit /\ w.wait = v.wait

\* The points of SCALPING for buying are those of the mirrored reading for selling.
LEMMA ScalpPoints ==
  ASSUME NEW i \in Readings, NEW j, Opposite(i, j), i.price # i.ema9
  PROVE  /\ ScalpBuy(j) = ScalpSell(i) /\ ScalpSell(j) = ScalpBuy(i)
         /\ ScalpBuy(i) \in Int /\ ScalpSell(i) \in Int
  BY SignalsAssumption DEF Readings, Opposite, ScalpBuy, ScalpSell, Points

\* So is what SCALPING finds, ties apart.
LEMMA ScalpingTurns ==
  ASSUME NEW i \in Readings, NEW j, Opposite(i, j), i.price # i.ema9,
         ScalpBuy(i) # ScalpSell(i)
  PROVE  Turned(Scalping(i), Scalping(j))
<1>1. j.adx = i.adx /\ i.adx \in Int
  BY DEF Readings, Opposite
<1> QED
  BY <1>1, ScalpPoints DEF Turned, Scalping, Votes, Points, Capped

\* So is what EMA_TICK_SCALP finds, whatever is open, unless both sides are.
LEMMA EmaTickScalpTurns ==
  ASSUME NEW i \in Readings, NEW j, Opposite(i, j),
         NEW o \in Holdings, NEW q \in Holdings, Against(o, q),
         i.price # i.ema3, ~(o.openBuy /\ o.openSell)
  PROVE  Turned(EmaTickScalp(i, o), EmaTickScalp(j, q))
<1>1. /\ StructUp(j) = StructDown(i) /\ StructDown(j) = StructUp(i)
      /\ ClosedUp(j) = ClosedDown(i) /\ ClosedDown(j) = ClosedUp(i)
  BY DEF Readings, Opposite, StructUp, StructDown, ClosedUp, ClosedDown
<1>2. Side(i) = IF i.price > i.ema3 THEN "above" ELSE "below"
  BY DEF Readings, Side
<1>3. Side(j) = IF i.price > i.ema3 THEN "below" ELSE "above"
  BY DEF Readings, Opposite, Side
<1>4. Gap(j.ema1, j.ema3) = Gap(i.ema1, i.ema3) /\ Gap(j.ema1Prev, j.ema3Prev) = Gap(i.ema1Prev, i.ema3Prev)
  BY DEF Readings, Opposite, Gap
<1>5. /\ j.price > j.ema3 <=> i.price < i.ema3
      /\ j.price < j.ema3 <=> i.price > i.ema3
  BY DEF Readings, Opposite
<1> DEFINE a == StructDown(i)
           b == StructUp(i)
           c == ClosedDown(i)
           d == ClosedUp(i)
<1>6. o.openBuy \/ o.openSell => EmaTickExit(j, q) = EmaTickExit(i, o)
  BY <1>1, <1>2, <1>3 DEF EmaTickExit, Holdings, Against
<1>7. (q.openBuy \/ q.openSell) = (o.openBuy \/ o.openSell)
  BY DEF Holdings, Against
<1>8. EmaTickExit(i, o) \in BOOLEAN
  BY DEF EmaTickExit, Holdings, StructUp, StructDown, ClosedUp, ClosedDown, Side
<1> QED
  BY <1>1, <1>4, <1>5, <1>6, <1>7, <1>8 DEF EmaTickScalp, Turned, Votes, Points, Exit, Wait

\* What TREND finds is mirrored.
LEMMA TrendTurns ==
  ASSUME NEW i \in Readings, NEW j, Opposite(i, j)
  PROVE  Turned(Trend(i), Trend(j))
  BY SignalsAssumption DEF Readings, Opposite, Turned, Votes, Points, Trend, BullStack, BearStack, AdxRising, HistUp2, HistDown2

\* What MOMENTUM finds is mirrored.
LEMMA MomentumTurns ==
  ASSUME NEW i \in Readings, NEW j, Opposite(i, j)
  PROVE  Turned(Momentum(i), Momentum(j))
  BY SignalsAssumption DEF Readings, Opposite, Turned, Votes, Points, Momentum, AdxRising

\* What PULLBACK finds is mirrored.
LEMMA PullbackTurns ==
  ASSUME NEW i \in Readings, NEW j, Opposite(i, j)
  PROVE  Turned(Pullback(i), Pullback(j))
  BY SignalsAssumption DEF Readings, Opposite, Turned, Votes, Points, Pullback, BullStack, BearStack

\* What BREAKOUT finds is mirrored.
LEMMA BreakoutTurns ==
  ASSUME NEW i \in Readings, NEW j, Opposite(i, j)
  PROVE  Turned(Breakout(i), Breakout(j))
  BY SignalsAssumption DEF Readings, Opposite, Turned, Votes, Points, Breakout, AtrRising

\* What MEAN_REVERSION finds is mirrored.
LEMMA MeanReversionTurns ==
  ASSUME NEW i \in Readings, NEW j, Opposite(i, j)
  PROVE  Turned(MeanReversion(i), MeanReversion(j))
  BY SignalsAssumption DEF Readings, Opposite, Turned, Votes, Points, MeanReversion

\* What REVERSAL finds is mirrored.
LEMMA ReversalTurns ==
  ASSUME NEW i \in Readings, NEW j, Opposite(i, j)
  PROVE  Turned(Reversal(i), Reversal(j))
  BY SignalsAssumption DEF Readings, Opposite, Turned, Votes, Points, Reversal, AdxFalling

\* What RANGE finds is mirrored.
LEMMA RangeModeTurns ==
  ASSUME NEW i \in Readings, NEW j, Opposite(i, j)
  PROVE  Turned(RangeMode(i), RangeMode(j))
  BY SignalsAssumption, SMTT(60) DEF Readings, Opposite, Turned, Votes, Points, RangeMode, RangeSupport, RangeResist, Gap

\* What CUSTOM finds is mirrored.
LEMMA CustomTurns ==
  ASSUME NEW i \in Readings, NEW j, Opposite(i, j),
         NEW o \in Holdings, NEW q \in Holdings, Against(o, q)
  PROVE  Turned(Custom(i, o), Custom(j, q))
  BY SignalsAssumption, SMTT(90) DEF Readings, Opposite, Turned, Holdings, Against, Votes, Points, Custom, BullStack, BearStack, RatioAtLeast, RatioAbove3, MidRange, Gap, Clear, Wait, Capped

\* What GRID finds is mirrored.
LEMMA GridTurns ==
  ASSUME NEW i \in Readings, NEW j, Opposite(i, j)
  PROVE  Turned(Grid(i), Grid(j))
  BY SignalsAssumption DEF Readings, Opposite, Turned, Votes, Points, Grid, AtrStable, NoBreakout, MidRange, NearGridLower, NearGridUpper, GridStep, Gap, Larger, Wait

\* What DCA finds is mirrored.
LEMMA DcaTurns ==
  ASSUME NEW i \in Readings, NEW j, Opposite(i, j),
         NEW o \in Holdings, NEW q \in Holdings, Against(o, q)
  PROVE  Turned(Dca(i, o), Dca(j, q))
  BY SignalsAssumption DEF Readings, Opposite, Turned, Holdings, Against, Votes, Points, Dca, Exit

\* What NEWS finds is mirrored.
LEMMA NewsTurns ==
  ASSUME NEW i \in Readings, NEW j, Opposite(i, j)
  PROVE  Turned(News(i), News(j))
  BY SignalsAssumption DEF Readings, Opposite, Turned, Votes, Points, News, RatioAtLeast, AtrRising

\* What SESSION finds is mirrored.
LEMMA SessionTurns ==
  ASSUME NEW i \in Readings, NEW j, Opposite(i, j)
  PROVE  Turned(Session(i), Session(j))
  BY SignalsAssumption DEF Readings, Opposite, Turned, Votes, Points, Session, AdxRising

\* What ARBITRAGE_SIM finds is mirrored.
LEMMA ArbitrageSimTurns ==
  ASSUME NEW i \in Readings, NEW j, Opposite(i, j),
         NEW o \in Holdings, NEW q \in Holdings, Against(o, q)
  PROVE  Turned(ArbitrageSim(i, o), ArbitrageSim(j, q))
  BY SignalsAssumption DEF Readings, Opposite, Turned, Holdings, Against, Votes, Points, ArbitrageSim, AtrStable, SpreadOk, Gap, Larger, Exit

\* What MARKET_MAKING_SIM finds is mirrored.
LEMMA MarketMakingSimTurns ==
  ASSUME NEW i \in Readings, NEW j, Opposite(i, j),
         NEW o \in Holdings, NEW q \in Holdings, Against(o, q)
  PROVE  Turned(MarketMakingSim(i, o), MarketMakingSim(j, q))
  BY SignalsAssumption DEF Readings, Opposite, Turned, Holdings, Against, Votes, Points, MarketMakingSim, AtrStable, SpreadOk, NoBreakout, RatioAbove3, Gap, Larger, Exit, Wait

\* What OTHER finds is mirrored.
LEMMA OtherModeTurns ==
  ASSUME NEW i \in Readings, NEW j, Opposite(i, j)
  PROVE  Turned(OtherMode(i), OtherMode(j))
  BY SignalsAssumption DEF Readings, Opposite, Turned, Votes, Points, OtherMode, BullStack, BearStack, Clear, Wait

\* The soft points of a mode that found nothing are mirrored.
LEMMA SoftTurns ==
  ASSUME NEW i \in Readings, NEW j, Opposite(i, j)
  PROVE  /\ SoftBuy(j) = SoftSell(i) /\ SoftSell(j) = SoftBuy(i)
         /\ SoftBuy(i) \in Int /\ SoftSell(i) \in Int
  BY DEF Readings, Opposite, SoftBuy, SoftSell, Points

\* A move is exhausted on both readings or on neither.
LEMMA ExhaustedTurns ==
  ASSUME NEW m, NEW i \in Readings, NEW j, Opposite(i, j)
  PROVE  Exhausted(m, j) <=> Exhausted(m, i)
  BY SignalsAssumption DEF Readings, Opposite, Exhausted, BullStack, BearStack

\* The inputs on which a mode has no tie that goes to one side.
Untied(m, i, o) ==
  /\ m = "EMA_TICK_SCALP" => i.price # i.ema3 /\ ~(o.openBuy /\ o.openSell)
  /\ m = "SCALPING" => i.price # i.ema9 /\ ScalpBuy(i) # ScalpSell(i)

\* What any mode finds is mirrored.
LEMMA ModeTurns ==
  ASSUME NEW m \in Modes, NEW i \in Readings, NEW j, Opposite(i, j),
         NEW o \in Holdings, NEW q \in Holdings, Against(o, q), Untied(m, i, o)
  PROVE  Turned(ByMode(m, i, o), ByMode(m, j, q))
<1>1. CASE m \in {"TREND", "MOMENTUM", "PULLBACK", "BREAKOUT", "MEAN_REVERSION", "REVERSAL"}
  BY <1>1, TrendTurns, MomentumTurns, PullbackTurns, BreakoutTurns, MeanReversionTurns, ReversalTurns
     DEF ByMode
<1>2. CASE m \in {"RANGE", "CUSTOM", "GRID", "DCA", "NEWS", "SESSION"}
  BY <1>2, RangeModeTurns, CustomTurns, GridTurns, DcaTurns, NewsTurns, SessionTurns DEF ByMode
<1>3. CASE m \in {"ARBITRAGE_SIM", "MARKET_MAKING_SIM", "OTHER"}
  BY <1>3, ArbitrageSimTurns, MarketMakingSimTurns, OtherModeTurns DEF ByMode
<1>4. CASE m \in {"SCALPING", "EMA_TICK_SCALP"}
  BY <1>4, ScalpingTurns, EmaTickScalpTurns DEF ByMode, Untied
<1> QED
  BY <1>1, <1>2, <1>3, <1>4 DEF Modes

\* The signal is that of the other side.
LEMMA SignalTurns ==
  ASSUME NEW m \in Modes, NEW i \in Readings, NEW j, Opposite(i, j),
         NEW o \in Holdings, NEW q \in Holdings, Against(o, q), Untied(m, i, o)
  PROVE  Signal(m, j, q) = OtherSide(Signal(m, i, o))
<1> DEFINE v == ByMode(m, i, o)
           w == ByMode(m, j, q)
<1>1. Turned(v, w)
  BY ModeTurns
<1>2. Exhausted(m, j) <=> Exhausted(m, i)
  BY ExhaustedTurns
<1> HIDE DEF v, w
<1> QED
  BY <1>1, <1>2, SoftTurns DEF Signal, Turned, Leaning, OtherSide, v, w

\* Candles of a timeframe, and those of the other colours.
Colours == [green : Int, red : Int, net : Int, count : Int]

Recoloured(c, e) == e.green = c.red /\ e.red = c.green /\ e.net = -c.net /\ e.count = c.count

\* The bias of candles of the other colours is the other one.
LEMMA BiasTurns ==
  ASSUME NEW c \in Colours, NEW e, Recoloured(c, e), c.green + c.red <= 5
  PROVE  Bias(e) = CASE Bias(c) = "bull" -> "bear" [] Bias(c) = "bear" -> "bull" [] OTHER -> "flat"
  BY DEF Colours, Recoloured, Bias

\* Every mode decides on a mirrored reading the mirrored thing, whatever it reads.
THEOREM DecisionMirrors ==
  ASSUME NEW m \in Modes, NEW i \in Readings, NEW j, Opposite(i, j),
         NEW o \in Holdings, NEW q \in Holdings, Against(o, q), Untied(m, i, o),
         NEW ten \in BOOLEAN,
         NEW c \in Colours, NEW e, Recoloured(c, e), c.green + c.red <= 5,
         NEW k \in Colours, NEW n, Recoloured(k, n), k.green + k.red <= 5
  PROVE  Decision(m, ten, j, q, e, n) = OtherSide(Decision(m, ten, i, o, c, k))
<1>1. Signal(m, j, q) = OtherSide(Signal(m, i, o)) /\ Signal(m, i, o) \in {"BUY", "SELL", "CLOSE", "HOLD"}
  BY SignalTurns DEF Signal, Leaning
<1>2. Ready(m, ten, j, e, n) <=> Ready(m, ten, i, c, k)
  BY DEF Ready, Readings, Opposite, Recoloured, Colours
<1>3. CASE m # "SCALPING"
  BY <1>1, <1>2, <1>3 DEF Decision, OtherSide
<1>4. CASE m = "SCALPING"
  <2>1. Turned(Scalping(i), Scalping(j))
    BY <1>4, ScalpingTurns DEF Untied
  <2> DEFINE s == Signal(m, i, o)
             t == Signal(m, j, q)
             v == Scalping(i)
             w == Scalping(j)
  <2>2. StrictEntry(t, w, e, n) <=> StrictEntry(s, v, c, k)
    <3>1. Bias(e) = CASE Bias(c) = "bull" -> "bear" [] Bias(c) = "bear" -> "bull" [] OTHER -> "flat"
      BY BiasTurns
    <3>2. Bias(n) = CASE Bias(k) = "bull" -> "bear" [] Bias(k) = "bear" -> "bull" [] OTHER -> "flat"
      BY BiasTurns
    <3>3. e.net = -c.net /\ c.net \in Int
      BY DEF Colours, Recoloured
    <3>4. t = OtherSide(s) /\ s \in {"BUY", "SELL", "CLOSE", "HOLD"}
      BY <1>1
    <3>5. Turned(v, w)
      BY <2>1
    <3> HIDE DEF s, t, v, w
    <3> QED
      BY <3>1, <3>2, <3>3, <3>4, <3>5 DEF StrictEntry, OtherSide, Turned
  <2> HIDE DEF v, w
  <2> QED
    BY <1>1, <1>2, <1>4, <2>2 DEF Decision, OtherSide, v, w
<1> QED
  BY <1>3, <1>4

-----------------------------------------------------------------------------
(***************************************************************************)
(* The readings that the run goes through are readings.                    *)
(***************************************************************************)
\* The readings that the run goes through are readings.
LEMMA NeutralIsReading == Neutral \in Readings
  BY DEF Neutral, Readings

\* A reading with other numbers in some fields is one.
LEMMA OtherNumber ==
  ASSUME NEW f \in DOMAIN Neutral \ Flags
  PROVE  \A r \in Readings : \A x \in Int : [r EXCEPT ![f] = x] \in Readings
  BY DEF Readings, Flags, Neutral

\* A reading with another flag is one.
LEMMA OtherFlag ==
  ASSUME NEW f \in Flags
  PROVE  \A r \in Readings : \A x \in BOOLEAN : [r EXCEPT ![f] = x] \in Readings
  BY DEF Readings, Flags

\* So is one with other numbers in four fields.
LEMMA OtherNumbers ==
  ASSUME NEW f \in DOMAIN Neutral \ Flags, NEW g \in DOMAIN Neutral \ Flags,
         NEW h \in DOMAIN Neutral \ Flags, NEW k \in DOMAIN Neutral \ Flags
  PROVE  \A i \in Readings : \A x, y, z, w \in Int :
           [i EXCEPT ![f] = x, ![g] = y, ![h] = z, ![k] = w] \in Readings
<1> SUFFICES ASSUME NEW i \in Readings, NEW x \in Int, NEW y \in Int, NEW z \in Int, NEW w \in Int
             PROVE  [i EXCEPT ![f] = x, ![g] = y, ![h] = z, ![k] = w] \in Readings
  OBVIOUS
<1>1. PICK a \in Readings : a = [i EXCEPT ![f] = x]
  BY OtherNumber
<1>2. PICK b \in Readings : b = [a EXCEPT ![g] = y]
  BY OtherNumber
<1>3. PICK c \in Readings : c = [b EXCEPT ![h] = z]
  BY OtherNumber
<1>4. [i EXCEPT ![f] = x, ![g] = y, ![h] = z, ![k] = w] = [c EXCEPT ![k] = w]
  BY <1>1, <1>2, <1>3
<1> QED
  BY <1>4, OtherNumber

\* So are the readings that the run starts from.
LEMMA RisingIsReading == Rising \in Readings
<1>1. \A f \in {"ema9", "ema21", "ema55", "ema9Slope", "ema21Slope", "ema200Slope", "plusDi", "adx",
                "macdHist", "macdHistPrev", "macdHistPrev2", "macd", "stochK", "rsi", "rsiPrev",
                "price"} : f \in DOMAIN Neutral \ Flags
  BY DEF Neutral, Flags
<1>2. /\ 1 \in Int /\ 2 \in Int /\ 3 \in Int /\ 5 \in Int /\ 9 \in Int /\ 10 \in Int /\ 25 \in Int
      /\ 30 \in Int /\ 59 \in Int /\ 60 \in Int
  OBVIOUS
<1>3. PICK a \in Readings : a = [Neutral EXCEPT !.ema9 = 9, !.ema21 = 5, !.ema55 = 2, !.ema9Slope = 1]
  BY <1>1, <1>2, NeutralIsReading, OtherNumbers, Zenon
<1>4. PICK b \in Readings : b = [a EXCEPT !.ema21Slope = 1, !.ema200Slope = 1, !.plusDi = 25, !.adx = 30]
  BY <1>1, <1>2, OtherNumbers, ZenonT(40)
<1>5. PICK c \in Readings :
        c = [b EXCEPT !.macdHist = 3, !.macdHistPrev = 2, !.macdHistPrev2 = 1, !.macd = 1]
  BY <1>1, <1>2, OtherNumbers, Zenon
<1>6. PICK d \in Readings : d = [c EXCEPT !.stochK = 60]
  BY <1>1, <1>2, OtherNumber, Zenon
<1>7. PICK e \in Readings : e = [d EXCEPT !.rsi = 60]
  BY <1>1, <1>2, OtherNumber, Zenon
<1>8. PICK f \in Readings : f = [e EXCEPT !.rsiPrev = 59]
  BY <1>1, <1>2, OtherNumber, Zenon
<1>9. PICK g \in Readings : g = [f EXCEPT !.price = 10]
  BY <1>1, <1>2, OtherNumber, Zenon
<1>10. Rising = g
  BY <1>3, <1>4, <1>5, <1>6, <1>7, <1>8, <1>9 DEF Rising
<1> QED
  BY <1>10

\* So is the dip.
LEMMA FallenIsReading == Fallen \in Readings
<1>1. \A f \in {"price", "bbLower", "rsi", "stochK", "stochKPrev", "pctB", "adx", "adxPrev2",
                "macdHist", "ema200Slope"} : f \in DOMAIN Neutral \ Flags
  BY DEF Neutral, Flags
<1>2. /\ -21 \in Int /\ -20 \in Int /\ 30 \in Int /\ 20 \in Int /\ 19 \in Int /\ 5 \in Int /\ 18 \in Int
      /\ 1 \in Int
  OBVIOUS
<1>3. PICK a \in Readings : a = [Neutral EXCEPT !.price = -21, !.bbLower = -20, !.rsi = 30, !.stochK = 20]
  BY <1>1, <1>2, NeutralIsReading, OtherNumbers, ZenonT(60)
<1>4. PICK b \in Readings : b = [a EXCEPT !.stochKPrev = 19, !.pctB = 5, !.adx = 18, !.adxPrev2 = 19]
  BY <1>1, <1>2, OtherNumbers, ZenonT(40)
<1>5. PICK c \in Readings : c = [b EXCEPT !.macdHist = 1]
  BY <1>1, <1>2, OtherNumber, Zenon
<1>6. PICK d \in Readings : d = [c EXCEPT !.bullDiv = TRUE]
  BY OtherFlag, Zenon DEF Flags
<1>7. PICK e \in Readings : e = [d EXCEPT !.ema200Slope = 1]
  BY <1>1, <1>2, OtherNumber, Zenon
<1>8. Fallen = e
  BY <1>3, <1>4, <1>5, <1>6, <1>7 DEF Fallen
<1> QED
  BY <1>8

\* And so are the readings on which the modes buy.
LEMMA BoughtAreReadings == ASSUME NEW m \in Modes PROVE Bought(m) \in Readings
<1>1. \A f \in {"price", "lastRange", "rsi", "stochKPrev", "atrPrev3", "atr", "gapUpAtr", "ema1", "ema3",
                "ema1Prev", "ema1Prev2"} : f \in DOMAIN Neutral \ Flags
  BY DEF Neutral, Flags
<1>2. /\ 0 \in Int /\ -1 \in Int /\ -15 \in Int /\ -18 \in Int /\ 2 \in Int /\ 4 \in Int /\ 12 \in Int
      /\ 13 \in Int /\ 19 \in Int /\ 21 \in Int /\ 23 \in Int /\ 24 \in Int /\ 25 \in Int /\ 45 \in Int
      /\ 50 \in Int
  OBVIOUS
<1>3. [Rising EXCEPT !.lastRange = 12] \in Readings /\ [Rising EXCEPT !.price = 13] \in Readings
  BY <1>1, <1>2, RisingIsReading, OtherNumber, Zenon
<1>4. [Rising EXCEPT !.price = 4, !.rsi = 45, !.stochKPrev = 50] \in Readings
  <2>1. PICK a \in Readings : a = [Rising EXCEPT !.price = 4]
    BY <1>1, <1>2, RisingIsReading, OtherNumber, Zenon
  <2>2. PICK b \in Readings : b = [a EXCEPT !.rsi = 45]
    BY <1>1, <1>2, OtherNumber, Zenon
  <2>3. PICK c \in Readings : c = [b EXCEPT !.stochKPrev = 50]
    BY <1>1, <1>2, OtherNumber, Zenon
  <2> QED
    BY <2>1, <2>2, <2>3
<1>5. [Rising EXCEPT !.price = 21, !.bbWidthCompressed = TRUE, !.lastRange = 13, !.atrPrev3 = 19] \in Readings
  <2>1. PICK a \in Readings : a = [Rising EXCEPT !.price = 21]
    BY <1>1, <1>2, RisingIsReading, OtherNumber, Zenon
  <2>2. PICK b \in Readings : b = [a EXCEPT !.bbWidthCompressed = TRUE]
    BY OtherFlag, Zenon DEF Flags
  <2>3. PICK c \in Readings : c = [b EXCEPT !.lastRange = 13]
    BY <1>1, <1>2, OtherNumber, Zenon
  <2>4. PICK d \in Readings : d = [c EXCEPT !.atrPrev3 = 19]
    BY <1>1, <1>2, OtherNumber, Zenon
  <2> QED
    BY <2>1, <2>2, <2>3, <2>4
<1>6. [Neutral EXCEPT !.price = 2, !.ema1 = 2, !.ema3 = 0, !.ema1Prev = -1, !.ema1Prev2 = -1] \in Readings
  <2>1. PICK a \in Readings : a = [Neutral EXCEPT !.price = 2]
    BY <1>1, <1>2, NeutralIsReading, OtherNumber, Zenon
  <2>2. PICK b \in Readings : b = [a EXCEPT !.ema1 = 2, !.ema3 = 0, !.ema1Prev = -1, !.ema1Prev2 = -1]
    BY <1>1, <1>2, OtherNumbers, Zenon
  <2> QED
    BY <2>1, <2>2
<1>7. [Fallen EXCEPT !.price = -18] \in Readings /\ [Fallen EXCEPT !.price = -15] \in Readings
  BY <1>1, <1>2, FallenIsReading, OtherNumber, Zenon
<1>8. [Rising EXCEPT !.atr = 24, !.atrPrev3 = 23, !.gapUpAtr = 25] \in Readings
  <2>1. PICK a \in Readings : a = [Rising EXCEPT !.atr = 24]
    BY <1>1, <1>2, RisingIsReading, OtherNumber, Zenon
  <2>2. PICK b \in Readings : b = [a EXCEPT !.atrPrev3 = 23]
    BY <1>1, <1>2, OtherNumber, Zenon
  <2>3. PICK c \in Readings : c = [b EXCEPT !.gapUpAtr = 25]
    BY <1>1, <1>2, OtherNumber, Zenon
  <2> QED
    BY <2>1, <2>2, <2>3
<1> QED
  BY <1>3, <1>4, <1>5, <1>6, <1>7, <1>8, RisingIsReading, FallenIsReading DEF Bought, Modes

\* The readings near one.
LEMMA NearbyAreReadings == ASSUME NEW i \in Readings PROVE Nearby(i) \subseteq Readings
<1> DEFINE values(f) == IF f \in Flags THEN BOOLEAN ELSE {i[f] - 1, i[f], i[f] + 1, Mirrored(i)[f]}
<1>1. ASSUME NEW f \in DOMAIN i, NEW x \in values(f)
      PROVE  IF f \in Flags THEN x \in BOOLEAN ELSE x \in Int
  <2>1. f \notin Flags => i[f] \in Int
    BY DEF Readings, Flags
  <2>2. f \notin Flags => Mirrored(i)[f] \in Int
    BY MirroredIsOpposite DEF Opposite, Readings, Flags
  <2> QED
    BY <2>1, <2>2
<1> HIDE DEF values
<1>2. ASSUME NEW r \in Readings, NEW f \in DOMAIN i, NEW x \in values(f) PROVE [r EXCEPT ![f] = x] \in Readings
  BY <1>1 DEF Readings, Flags
<1>3. Leading \subseteq DOMAIN i
  BY DEF Leading, Readings
<1>4. ASSUME NEW f \in DOMAIN i, NEW g \in Leading, NEW x \in values(f), NEW y \in values(g)
      PROVE  With(i, f, x, g, y) \in Readings
  <2>1. PICK r \in Readings : r = [i EXCEPT ![f] = x]
    BY <1>2
  <2>2. With(i, f, x, g, y) = [r EXCEPT ![g] = y]
    BY <2>1 DEF With
  <2> QED
    BY <1>2, <1>3, <2>1, <2>2, ZenonT(60)
<1> QED
  BY <1>4 DEF Nearby, values

-----------------------------------------------------------------------------
(***************************************************************************)
(* The average of the last bars.                                           *)
(***************************************************************************)
\* a is the function that Ema3 is the last value of.
AveragesOf(a, closes) ==
  a = [n \in 1..Len(closes) |-> IF n = 1 THEN closes[1] ELSE (a[n - 1] + closes[n]) \div 2]

\* Ema3 is the last value of the function chosen.
LEMMA Ema3IsChosen ==
  \A closes : Ema3(closes) = (CHOOSE a : AveragesOf(a, closes))[Len(closes)]
  BY DEF Ema3, AveragesOf

\* There is one that has the averages of the first n closes, and they are numbers.
LEMMA AveragesUpTo ==
  ASSUME NEW closes \in Seq(Int), NEW n \in 1..Len(closes)
  PROVE  \E a \in [1..n -> Int] :
           \A k \in 1..n : a[k] = IF k = 1 THEN closes[1] ELSE (a[k - 1] + closes[k]) \div 2
<1> DEFINE N == 1..Len(closes)
           Fine(m, a) == \A k \in 1..m : a[k] = IF k = 1 THEN closes[1] ELSE (a[k - 1] + closes[k]) \div 2
           B == {T \in SUBSET N : \E m \in N : T = 1..m /\ ~\E a \in [1..m -> Int] : Fine(m, a)}
<1> SUFFICES ASSUME B # {} PROVE FALSE
  <2>1. 1..n \in SUBSET N
    OBVIOUS
  <2> QED
    BY <2>1
<1>1. PICK T \in B : \A U \in B : U \subseteq T => U = T
  <2>1. IsFiniteSet(N) /\ B \in SUBSET (SUBSET N)
    BY FS_Interval
  <2> HIDE DEF B, N
  <2> QED
    BY <2>1, SmallestSet
<1>2. PICK m \in N : T = 1..m /\ ~\E a \in [1..m -> Int] : Fine(m, a)
  BY <1>1
<1>3. m # 1
  <2> SUFFICES ASSUME m = 1 PROVE FALSE
    OBVIOUS
  <2> DEFINE a == [k \in 1..1 |-> closes[1]]
  <2>1. a \in [1..m -> Int] /\ Fine(m, a)
    OBVIOUS
  <2> HIDE DEF a
  <2> QED
    BY <1>2, <2>1
<1>4. PICK b \in [1..(m - 1) -> Int] : Fine(m - 1, b)
  <2>1. m - 1 \in N /\ 1..(m - 1) \subseteq T /\ 1..(m - 1) # T /\ 1..(m - 1) \in SUBSET N
    BY <1>2, <1>3
  <2>2. 1..(m - 1) \notin B
    <3> HIDE DEF B
    <3> QED
      BY <1>1, <2>1
  <2> QED
    BY <2>1, <2>2
<1> DEFINE a == [k \in 1..m |-> IF k = m THEN (b[m - 1] + closes[m]) \div 2 ELSE b[k]]
<1>5. a \in [1..m -> Int]
  BY <1>3, SMTT(30)
<1>6. Fine(m, a)
  <2> SUFFICES ASSUME NEW k \in 1..m
               PROVE  a[k] = IF k = 1 THEN closes[1] ELSE (a[k - 1] + closes[k]) \div 2
    OBVIOUS
  <2>1. CASE k = m
    BY <1>3, <2>1
  <2>2. CASE k # m
    <3>1. k \in 1..(m - 1) /\ (k # 1 => k - 1 \in 1..m /\ k - 1 # m)
      BY <1>2, <2>2
    <3>2. a[k] = b[k] /\ (k # 1 => a[k - 1] = b[k - 1])
      BY <2>2, <3>1
    <3>3. b[k] = IF k = 1 THEN closes[1] ELSE (b[k - 1] + closes[k]) \div 2
      BY <1>4, <3>1
    <3> HIDE DEF a
    <3> QED
      BY <3>2, <3>3
  <2> QED
    BY <2>1, <2>2
<1> HIDE DEF a, Fine
<1> QED
  BY <1>2, <1>5, <1>6

\* The average is a number, and with one more close it is halfway to that.
LEMMA Ema3Facts ==
  ASSUME NEW closes \in Seq(Int), closes # <<>>, NEW close \in Int
  PROVE  /\ Ema3(closes) \in Int
         /\ Ema3(Append(closes, close)) = (Ema3(closes) + close) \div 2
<1> DEFINE n == Len(closes)
           more == Append(closes, close)
<1>1. /\ n \in Nat \ {0} /\ n \in 1..n /\ more \in Seq(Int) /\ Len(more) = n + 1
      /\ n + 1 \in 1..(n + 1)
      /\ more[n + 1] = close /\ \A k \in 1..n : more[k] = closes[k]
  OBVIOUS
<1> HIDE DEF n, more
<1>2. PICK a \in [1..(n + 1) -> Int] :
        \A k \in 1..(n + 1) : a[k] = IF k = 1 THEN more[1] ELSE (a[k - 1] + more[k]) \div 2
  <2>1. n + 1 \in 1..Len(more)
    BY <1>1
  <2> QED
    BY <1>1, <2>1, AveragesUpTo, Zenon
<1>3. AveragesOf(a, more)
  BY <1>1, <1>2 DEF AveragesOf
<1> DEFINE f == [k \in 1..n |-> a[k]]
<1>4. AveragesOf(f, closes)
  <2>1. ASSUME NEW k \in 1..n
        PROVE  f[k] = IF k = 1 THEN closes[1] ELSE (f[k - 1] + closes[k]) \div 2
    <3>1. k \in 1..(n + 1) /\ (k # 1 => k - 1 \in 1..n) /\ 1 \in 1..n
      BY <1>1
    <3>2. f[k] = a[k] /\ (k # 1 => f[k - 1] = a[k - 1])
      BY <3>1
    <3>3. a[k] = IF k = 1 THEN closes[1] ELSE (a[k - 1] + closes[k]) \div 2
      BY <1>1, <1>2, <3>1
    <3> HIDE DEF f
    <3> QED
      BY <3>2, <3>3
  <2> QED
    BY <2>1 DEF AveragesOf, n
<1>5. ASSUME NEW s \in Seq(Int), NEW g, NEW h, AveragesOf(g, s), AveragesOf(h, s), NEW k \in 1..Len(s)
      PROVE  g[k] = h[k]
  <2> DEFINE N == 1..Len(s)
             B == {T \in SUBSET N : \E m \in N : T = 1..m /\ g[m] # h[m]}
  <2> SUFFICES ASSUME B # {} PROVE FALSE
    <3>1. 1..k \in SUBSET N
      OBVIOUS
    <3> QED
      BY <3>1
  <2>1. PICK T \in B : \A U \in B : U \subseteq T => U = T
    <3>1. IsFiniteSet(N) /\ B \in SUBSET (SUBSET N)
      BY FS_Interval
    <3> HIDE DEF B, N
    <3> QED
      BY <3>1, SmallestSet
  <2>2. PICK m \in N : T = 1..m /\ g[m] # h[m]
    BY <2>1
  <2>3. /\ g[m] = IF m = 1 THEN s[1] ELSE (g[m - 1] + s[m]) \div 2
        /\ h[m] = IF m = 1 THEN s[1] ELSE (h[m - 1] + s[m]) \div 2
    BY <1>5 DEF AveragesOf
  <2>4. m # 1 => g[m - 1] = h[m - 1]
    <3> SUFFICES ASSUME m # 1 PROVE g[m - 1] = h[m - 1]
      OBVIOUS
    <3>1. m - 1 \in N /\ 1..(m - 1) \subseteq T /\ 1..(m - 1) # T /\ 1..(m - 1) \in SUBSET N
      BY <2>2
    <3>2. 1..(m - 1) \notin B
      <4> HIDE DEF B
      <4> QED
        BY <2>1, <3>1
    <3> QED
      BY <3>1, <3>2
  <2> QED
    BY <2>2, <2>3, <2>4
<1>6. ASSUME NEW s \in Seq(Int), s # <<>>, NEW g, AveragesOf(g, s) PROVE Ema3(s) = g[Len(s)]
  <2> DEFINE h == CHOOSE x : AveragesOf(x, s)
  <2>1. AveragesOf(h, s)
    BY <1>6
  <2>2. Ema3(s) = h[Len(s)]
    BY Ema3IsChosen
  <2>3. Len(s) \in 1..Len(s)
    BY <1>6
  <2> HIDE DEF h
  <2> QED
    BY <1>5, <1>6, <2>1, <2>2, <2>3
<1> HIDE DEF f
<1>7. Ema3(closes) = f[n]
  BY <1>4, <1>6 DEF n
<1>8. Ema3(more) = a[n + 1]
  BY <1>1, <1>3, <1>6
<1>9. f[n] = a[n]
  BY <1>1 DEF f
<1>10. a[n + 1] = (a[n] + close) \div 2 /\ a[n] \in Int
  BY <1>1, <1>2
<1> QED
  BY <1>7, <1>8, <1>9, <1>10 DEF more

\* Front and Append of a list of closes.
LEMMA FrontFacts ==
  ASSUME NEW closes \in Seq(Int), Len(closes) >= 2
  PROVE  Front(closes) \in Seq(Int) /\ Front(closes) # <<>> /\ Len(Front(closes)) = Len(closes) - 1
<1>1. Front(closes) \in Seq(Int) /\ Len(Front(closes)) = Len(closes) - 1
  BY SubSeqProperties DEF Front
<1> QED
  BY <1>1

\* What EMA_TICK_SCALP buys at a price it does not sell on the same bar at that price
\* or above, whatever the bars were.
THEOREM EntryHolds ==
  ASSUME NEW i \in Readings, NEW closes \in Seq(Int), Len(closes) >= 2, NEW forming \in BOOLEAN,
         NEW mid \in Int, NEW later \in Int, later >= mid,
         NEW o \in Holdings, ~ClosedDown(LiveReading("EMA_TICK_SCALP", i, closes, forming, mid)),
         Signal("EMA_TICK_SCALP", LiveReading("EMA_TICK_SCALP", i, closes, forming, mid), o) = "BUY",
         NEW q \in Holdings, q.openBuy,
         q.prevSide = Side(LiveReading("EMA_TICK_SCALP", i, closes, forming, mid))
  PROVE  Signal("EMA_TICK_SCALP", LiveReading("EMA_TICK_SCALP", i, closes, forming, later), q) # "CLOSE"
<1> DEFINE m == "EMA_TICK_SCALP"
           before == IF forming THEN Front(closes) ELSE closes
           e == Ema3(before)
           r == LiveReading(m, i, closes, forming, mid)
           s == LiveReading(m, i, closes, forming, later)
<1>1. before \in Seq(Int) /\ before # <<>>
  BY FrontFacts
<1> HIDE DEF before
<1>2. /\ e \in Int
      /\ Ema3(LiveCloses(closes, forming, mid)) = (e + mid) \div 2
      /\ Ema3(LiveCloses(closes, forming, later)) = (e + later) \div 2
  BY <1>1, Ema3Facts DEF LiveCloses, before
<1> HIDE DEF e
<1>3. /\ r.price = mid /\ r.ema1 = mid /\ r.ema3 = (e + mid) \div 2
      /\ s.price = later /\ s.ema1 = later /\ s.ema3 = (e + later) \div 2
      /\ r.ema1Prev = i.ema1Prev /\ r.ema3Prev = i.ema3Prev /\ s.ema1Prev = i.ema1Prev /\ s.ema3Prev = i.ema3Prev
      /\ r.ema1Prev2 = i.ema1Prev2 /\ r.ema3Prev2 = i.ema3Prev2
      /\ s.ema1Prev2 = i.ema1Prev2 /\ s.ema3Prev2 = i.ema3Prev2
  BY <1>2, ZenonT(60) DEF LiveReading, Readings
<1> HIDE DEF r, s
<1>4. ~Exhausted(m, r) /\ ~Exhausted(m, s)
  BY DEF Exhausted
<1>5. mid > r.ema3
  <2> DEFINE v == ByMode(m, r, o)
  <2>1. v = EmaTickScalp(r, o)
    BY DEF ByMode
  <2>2. Signal(m, r, o) = "BUY"
    BY DEF r
  <2>3. ~v.exit /\ ~v.wait /\ Leaning(v.buy, v.sell) = "BUY"
    BY <1>4, <2>2 DEF Signal
  <2>5. v.buy \in Int /\ v.sell \in Int
    BY <2>1 DEF EmaTickScalp, Votes, Points, Exit, Wait
  <2>4. v.buy > v.sell
    BY <2>3, <2>5 DEF Leaning
  <2> QED
    BY <1>3, <2>1, <2>3, <2>4, <2>5 DEF EmaTickScalp, Votes, Points, Exit, Wait
<1>6. later > s.ema3
  BY <1>2, <1>3, <1>5
<1>7. ~StructDown(s) /\ ~ClosedDown(s) /\ Side(s) = "above"
  BY <1>2, <1>3, <1>6 DEF StructDown, ClosedDown, Side, r
<1>8. ~EmaTickExit(s, q)
  BY <1>7 DEF EmaTickExit
<1>9. ByMode(m, s, q) = Wait(0, 0)
  BY <1>8 DEF ByMode, EmaTickScalp
<1> QED
  BY <1>4, <1>9 DEF Signal, Wait, Votes, s

-----------------------------------------------------------------------------
(***************************************************************************)
(* The plan of an entry.                                                   *)
(***************************************************************************)
\* The numbers of a strategy's settings and of a market.
Counted(c) ==
  /\ c.stop \in Int /\ c.target \in Int /\ c.atrStop \in Int /\ c.atrTarget \in Int
  /\ c.volume \in Int /\ c.count \in Nat \ {0}
AllMarkets == [entry : Int, atr : Int, ema3 : Int, prevLow : Int, prevHigh : Int]

\* k is the market q turned upside down at the price of the entry.
Upended(k, q) ==
  /\ q.entry = k.entry /\ q.atr = k.atr /\ q.ema3 = 2 * k.entry - k.ema3
  /\ q.prevLow = 2 * k.entry - k.prevHigh /\ q.prevHigh = 2 * k.entry - k.prevLow

\* The mirrored market is an upended one.
LEMMA MirroredIsUpended == ASSUME NEW k \in AllMarkets PROVE Upended(k, MirroredMarket(k))
  BY DEF AllMarkets, MirroredMarket, Upended

\* A setting is a whole number of ticks.
LEMMA SettingIsInt == ASSUME NEW v \in Int PROVE Setting(v) \in Int
  BY EntryPlanAssumption DEF Setting

\* The stop behind the average is as far on the other side.
LEMMA EmaStopTurns ==
  ASSUME NEW d \in Directions, NEW k \in AllMarkets, NEW q, Upended(k, q)
  PROVE  EmaStop(d, k) \in Int /\ EmaStop(Flip(d), q) = 2 * k.entry - EmaStop(d, k)
  BY DEF AllMarkets, Upended, EmaStop, Flip, Directions, Farther, MinOf, MaxOf

\* The distance of the stop is the same.
LEMMA DistanceTurns ==
  ASSUME NEW m, NEW d \in Directions, NEW c, Counted(c), NEW k \in AllMarkets, NEW q, Upended(k, q)
  PROVE  /\ StopDistance(m, d, c, k) \in Int
         /\ StopDistance(m, Flip(d), c, q) = StopDistance(m, d, c, k)
<1>1. LeastStop \in Int /\ Pip \in Nat \ {0}
  BY EntryPlanAssumption DEF LeastStop
<1>2. q.entry = k.entry /\ q.atr = k.atr /\ k.entry \in Int /\ k.atr \in Int
  BY DEF AllMarkets, Upended
<1>3. Setting(c.stop) \in Int /\ c.atrStop \in Int
  BY SettingIsInt DEF Counted
<1>4. EmaStop(d, k) \in Int /\ EmaStop(Flip(d), q) = 2 * k.entry - EmaStop(d, k)
  BY EmaStopTurns
<1>5. CASE m = "SCALPING"
  BY <1>2, <1>5 DEF StopDistance
<1>6. CASE m = "EMA_TICK_SCALP"
  BY <1>1, <1>2, <1>4, <1>6 DEF StopDistance, Favorable, Farther, Behind, Flip, Directions, MinOf, MaxOf
<1>7. CASE m \notin {"SCALPING", "EMA_TICK_SCALP"}
  <2> DEFINE a == (k.atr * c.atrStop) \div 10
  <2>1. a \in Int /\ (k.entry * 65) \div 100000 \in Int
    BY <1>2, <1>3
  <2>2. (q.atr * c.atrStop) \div 10 = a
    BY <1>2
  <2> HIDE DEF a
  <2> QED
    BY <1>1, <1>2, <1>3, <1>7, <2>1, <2>2 DEF StopDistance, MaxOf, a
<1> QED
  BY <1>5, <1>6, <1>7

\* The stop is as far on the other side.
LEMMA StopTurns ==
  ASSUME NEW m, NEW d \in Directions, NEW c, Counted(c), NEW k \in AllMarkets, NEW q, Upended(k, q)
  PROVE  Favorable(Flip(d), q.entry, PlannedStop(m, Flip(d), c, q))
           = Favorable(d, k.entry, PlannedStop(m, d, c, k))
<1>1. LeastStop \in Int
  BY EntryPlanAssumption DEF LeastStop
<1>2. q.entry = k.entry /\ k.entry \in Int /\ k.entry \div 10 \in Int
  BY DEF AllMarkets, Upended
<1>3. EmaStop(d, k) \in Int /\ EmaStop(Flip(d), q) = 2 * k.entry - EmaStop(d, k)
  BY EmaStopTurns
<1>4. /\ StopDistance(m, d, c, k) \in Int
      /\ StopDistance(m, Flip(d), c, q) = StopDistance(m, d, c, k)
  BY DistanceTurns
<1>5. CASE m = "SCALPING"
  <2> DEFINE e == k.entry
             x == k.entry \div 10
  <2>1. e \in Int /\ x \in Int /\ q.entry = e /\ q.entry \div 10 = x
    BY <1>2
  <2>2. /\ PlannedStop(m, d, c, k) = InitialStop(d, e, x, LeastStop, e)
        /\ PlannedStop(m, Flip(d), c, q) = InitialStop(Flip(d), e, x, LeastStop, e)
    BY <1>2, <1>5 DEF PlannedStop
  <2> HIDE DEF e, x
  <2> QED
    BY <1>1, <2>1, <2>2 DEF InitialStop, Favorable, Flip, Directions, MaxOf, e
<1>6. CASE m = "EMA_TICK_SCALP"
  BY <1>1, <1>2, <1>3, <1>6 DEF PlannedStop, Favorable, Farther, Behind, Flip, Directions, MinOf, MaxOf
<1>7. CASE m \notin {"SCALPING", "EMA_TICK_SCALP"}
  BY <1>2, <1>4, <1>7 DEF PlannedStop, Favorable, Behind, Flip, Directions
<1> QED
  BY <1>5, <1>6, <1>7

\* What is ahead of the entry is as far ahead of it.
LEMMA AheadTurns ==
  ASSUME NEW d \in Directions, NEW e \in Int, NEW x \in Int
  PROVE  Favorable(Flip(d), e, Ahead(Flip(d), e, x)) = x /\ Favorable(d, e, Ahead(d, e, x)) = x
  BY DEF Directions, Flip, Favorable, Ahead, Behind

\* The slices of a volume are numbered from one, and there are some or none.
LEMMA SlicesAreNumbered ==
  ASSUME NEW volume \in Int, NEW count \in Nat \ {0}
  PROVE  \E n \in Nat : /\ DOMAIN SliceVolumes(volume, count) = 1..n
                        /\ Len(SliceVolumes(volume, count)) = n
<1>1. CASE volume < 2
  <2>1. DOMAIN <<>> = 1..0 /\ Len(<<>>) = 0
    OBVIOUS
  <2> QED
    BY <1>1, <2>1 DEF SliceVolumes
<1>2. CASE volume >= 2
  <2> DEFINE n == IF count < volume THEN count ELSE volume
             f == [i \in 1..n |-> IF i <= volume % n THEN volume \div n + 1 ELSE volume \div n]
  <2>1. n \in Nat
    BY <1>2
  <2>2. SliceVolumes(volume, count) = f
    BY <1>2 DEF SliceVolumes
  <2> HIDE DEF n
  <2>3. DOMAIN f = 1..n /\ Len(f) = n
    BY <2>1
  <2> QED
    BY <2>1, <2>2, <2>3
<1> QED
  BY <1>1, <1>2

\* The levels of PlanOf: every target as far ahead of the entry.
PlanLevels(m, d, c, k) ==
  LET levels == Targets(m, d, c, k)
  IN  [i \in DOMAIN levels |-> [levels[i] EXCEPT !.price = Favorable(d, k.entry, @)]]

\* The targets of an upended market are as far from the entry as those of the market.
LEMMA TargetsTurn ==
  ASSUME NEW m, NEW d \in Directions, NEW c, Counted(c), NEW k \in AllMarkets, NEW q, Upended(k, q)
  PROVE  PlanLevels(m, Flip(d), c, q) = PlanLevels(m, d, c, k)
<1> DEFINE vols == SliceVolumes(c.volume, c.count)
           reach == MaxOf((k.atr * MaxOf(c.atrTarget, 1)) \div 10, Unit \div 100)
           multi(s, r) == MultiTargets(s, c, r, c.volume)
           far == TargetDistance(c, k)
           e == k.entry
<1>1. q.entry = e /\ q.atr = k.atr /\ e \in Int /\ k.atr \in Int
  BY DEF AllMarkets, Upended
<1>2. reach \in Int
  BY <1>1, EntryPlanAssumption DEF Counted, MaxOf
<1>3. PICK n \in Nat : DOMAIN vols = 1..n /\ Len(vols) = n
  BY SlicesAreNumbered DEF Counted
<1>4. far \in Int /\ TargetDistance(c, q) = far
  <2>1. Setting(c.target) \in Int
    BY SettingIsInt DEF Counted
  <2>2. /\ (k.atr * c.atrTarget) \div 10 \in Int /\ (c.target * Unit) \div 10 \in Int
        /\ 3 * Pip \in Int /\ 2 * Pip \in Int
    BY <1>1, EntryPlanAssumption DEF Counted
  <2> QED
    BY <1>1, <2>1, <2>2 DEF TargetDistance, MaxOf
<1> HIDE DEF vols, reach, far, e
<1>5. /\ multi(d, k) = [i \in 1..n |-> [price |-> Ahead(d, e, (reach * i) \div n), volume |-> vols[i]]]
      /\ multi(Flip(d), q)
           = [i \in 1..n |-> [price |-> Ahead(Flip(d), e, (reach * i) \div n), volume |-> vols[i]]]
  BY <1>1, <1>3 DEF MultiTargets, vols, reach, e
<1>6. ASSUME NEW i \in 1..n PROVE (reach * i) \div n \in Int
  BY <1>2
<1>7. Len(multi(d, k)) = n /\ Len(multi(Flip(d), q)) = n
  BY <1>5
<1> HIDE DEF multi
<1>8. CASE m \in {"SCALPING", "EMA_TICK_SCALP"} \/ ~c.targetOn
  <2>1. Targets(m, d, c, k) = <<>> /\ Targets(m, Flip(d), c, q) = <<>>
    BY <1>8 DEF Targets
  <2> QED
    BY <2>1 DEF PlanLevels
<1>9. CASE m \notin {"SCALPING", "EMA_TICK_SCALP"} /\ c.targetOn /\ c.multi /\ n >= 2
  <2>1. Targets(m, d, c, k) = multi(d, k) /\ Targets(m, Flip(d), c, q) = multi(Flip(d), q)
    BY <1>7, <1>9 DEF Targets, multi
  <2>2. ASSUME NEW i \in 1..n
        PROVE  /\ [multi(d, k)[i] EXCEPT !.price = Favorable(d, e, @)]
                    = [price |-> (reach * i) \div n, volume |-> vols[i]]
               /\ [multi(Flip(d), q)[i] EXCEPT !.price = Favorable(Flip(d), e, @)]
                    = [price |-> (reach * i) \div n, volume |-> vols[i]]
    <3> DEFINE x == (reach * i) \div n
    <3>1. x \in Int
      BY <1>6
    <3>2. /\ multi(d, k)[i] = [price |-> Ahead(d, e, x), volume |-> vols[i]]
          /\ multi(Flip(d), q)[i] = [price |-> Ahead(Flip(d), e, x), volume |-> vols[i]]
      BY <1>5
    <3> HIDE DEF x
    <3> QED
      BY <1>1, <3>1, <3>2, AheadTurns DEF x
  <2>3. DOMAIN multi(d, k) = 1..n /\ DOMAIN multi(Flip(d), q) = 1..n
    BY <1>5
  <2> DEFINE f == [i \in 1..n |-> [price |-> (reach * i) \div n, volume |-> vols[i]]]
  <2>4. [i \in 1..n |-> [multi(d, k)[i] EXCEPT !.price = Favorable(d, e, @)]] = f
    BY <2>2
  <2>5. [i \in 1..n |-> [multi(Flip(d), q)[i] EXCEPT !.price = Favorable(Flip(d), e, @)]] = f
    BY <2>2
  <2>6. PlanLevels(m, d, c, k) = f
    BY <2>1, <2>3, <2>4 DEF PlanLevels, e
  <2>7. PlanLevels(m, Flip(d), c, q) = f
    BY <1>1, <2>1, <2>3, <2>5 DEF PlanLevels, e
  <2> QED
    BY <2>6, <2>7
<1>10. CASE m \notin {"SCALPING", "EMA_TICK_SCALP"} /\ c.targetOn /\ ~(c.multi /\ n >= 2)
  <2>1. /\ Targets(m, d, c, k) = << [price |-> Ahead(d, e, far), volume |-> c.volume] >>
        /\ Targets(m, Flip(d), c, q) = << [price |-> Ahead(Flip(d), e, far), volume |-> c.volume] >>
    BY <1>1, <1>4, <1>7, <1>10 DEF Targets, multi, far, e
  <2> QED
    BY <1>1, <1>4, <2>1, AheadTurns DEF PlanLevels, e
<1> QED
  BY <1>8, <1>9, <1>10

\* Every plan on an upended market is the upended plan.
THEOREM PlansMirror ==
  ASSUME NEW d \in Directions, NEW o, NEW p, p.mode = o.mode, p.c = o.c,
         Counted(o.c), o.k \in AllMarkets, Upended(o.k, p.k)
  PROVE  PlanOf(Flip(d), p) = PlanOf(d, o)
<1>1. PlanLevels(p.mode, Flip(d), p.c, p.k) = PlanLevels(o.mode, d, o.c, o.k)
  BY TargetsTurn
<1>2. Favorable(Flip(d), p.k.entry, PlannedStop(p.mode, Flip(d), p.c, p.k))
        = Favorable(d, o.k.entry, PlannedStop(o.mode, d, o.c, o.k))
  BY StopTurns
<1>3. StopDistance(p.mode, Flip(d), p.c, p.k) = StopDistance(o.mode, d, o.c, o.k)
  BY DistanceTurns
<1>4. BreakEven(p.mode, Flip(d), p.c, p.k) = BreakEven(o.mode, d, o.c, o.k)
  BY <1>3 DEF BreakEven
<1> QED
  BY <1>1, <1>2, <1>3, <1>4 DEF PlanOf, PlanLevels

-----------------------------------------------------------------------------
(***************************************************************************)
(* The inputs of the run are such inputs, and no step changes them.        *)
(***************************************************************************)
\* The reading of bars.
LEMMA LiveIsReading ==
  ASSUME NEW closes \in Seq(Int), Len(closes) >= 4, NEW forming \in BOOLEAN, NEW mid \in Int
  PROVE  /\ Averages(Neutral, closes) \in Readings
         /\ LiveReading("EMA_TICK_SCALP", Averages(Neutral, closes), closes, forming, mid) \in Readings
<1> DEFINE before == Front(closes)
           two == Front(before)
           a == Averages(Neutral, closes)
           live == Ema3(LiveCloses(closes, forming, mid))
<1>1. /\ before \in Seq(Int) /\ before # <<>> /\ Len(before) >= 3
      /\ two \in Seq(Int) /\ two # <<>> /\ Len(two) >= 2
  BY FrontFacts
<1>2. ASSUME NEW s \in Seq(Int), s # <<>> PROVE Last(s) \in Int /\ Ema3(s) \in Int
  <2>1. Ema3(s) \in Int
    BY <1>2, Ema3Facts
  <2> QED
    BY <1>2, <2>1 DEF Last
<1> HIDE DEF before, two
<1>3. /\ Last(closes) \in Int /\ Ema3(closes) \in Int /\ Last(before) \in Int /\ Ema3(before) \in Int
      /\ Last(two) \in Int /\ Ema3(two) \in Int
  BY <1>1, <1>2
<1>4. live \in Int
  <2> DEFINE s == LiveCloses(closes, forming, mid)
             t == IF forming THEN before ELSE closes
  <2>1. t \in Seq(Int) /\ s = Append(t, mid)
    BY <1>1 DEF LiveCloses, before
  <2> HIDE DEF s, t
  <2>2. s \in Seq(Int) /\ s # <<>>
    BY <2>1
  <2> QED
    BY <1>2, <2>2 DEF s
<1>5. \A f \in {"price", "ema1", "ema3", "ema1Prev", "ema3Prev", "ema1Prev2", "ema3Prev2"} :
        f \in DOMAIN Neutral \ Flags
  BY DEF Neutral, Flags
<1>6. a \in Readings
  <2>1. PICK b \in Readings :
          b = [Neutral EXCEPT !.price = Last(closes), !.ema1 = Last(closes), !.ema3 = Ema3(closes),
                              !.ema1Prev = Last(before)]
    <3>1. PICK b \in Readings : b = [Neutral EXCEPT !.price = Last(closes)]
      BY <1>3, <1>5, NeutralIsReading, OtherNumber, Zenon
    <3>2. PICK d \in Readings : d = [b EXCEPT !.ema1 = Last(closes)]
      BY <1>3, <1>5, OtherNumber, Zenon
    <3>3. PICK e \in Readings : e = [d EXCEPT !.ema3 = Ema3(closes)]
      BY <1>3, <1>5, OtherNumber, Zenon
    <3>4. PICK g \in Readings : g = [e EXCEPT !.ema1Prev = Last(before)]
      BY <1>3, <1>5, OtherNumber, Zenon
    <3> QED
      BY <3>1, <3>2, <3>3, <3>4
  <2>2. PICK d \in Readings : d = [b EXCEPT !.ema3Prev = Ema3(before)]
    BY <1>3, <1>5, OtherNumber, Zenon
  <2>3. PICK e \in Readings : e = [d EXCEPT !.ema1Prev2 = Last(two)]
    BY <1>3, <1>5, OtherNumber, Zenon
  <2>4. PICK g \in Readings : g = [e EXCEPT !.ema3Prev2 = Ema3(two)]
    BY <1>3, <1>5, OtherNumber, Zenon
  <2> QED
    BY <2>1, <2>2, <2>3, <2>4 DEF Averages, before, two
<1> HIDE DEF a, live
<1>7. [a EXCEPT !.price = mid, !.ema1 = mid, !.ema3 = live] \in Readings
  <2>1. PICK b \in Readings : b = [a EXCEPT !.price = mid]
    BY <1>5, <1>6, OtherNumber, Zenon
  <2>2. PICK d \in Readings : d = [b EXCEPT !.ema1 = mid]
    BY <1>5, OtherNumber, Zenon
  <2>3. PICK e \in Readings : e = [d EXCEPT !.ema3 = live]
    BY <1>4, <1>5, OtherNumber, Zenon
  <2> QED
    BY <2>1, <2>2, <2>3
<1> QED
  BY <1>6, <1>7 DEF LiveReading, a, live

\* The candles of the run.
LEMMA CandlesAreColours == \A c \in Candles : c \in Colours /\ c.green + c.red <= 5
  BY DEF Candles, Colours

\* The candles that do not matter are candles.
LEMMA FirstCandles == (CHOOSE c \in Candles : c.net = 9) \in Candles
<1>1. \E c \in Candles : c.net = 9
  BY DEF Candles
<1> QED
  BY <1>1

\* What is held.
LEMMA HoldsAreHoldings ==
  ASSUME NEW rows \in SUBSET {[dir |-> "BUY"], [dir |-> "SELL"]}, NEW p \in {"above", "below", "none"}
  PROVE  Held(rows, p) \in Holdings
  BY DEF Held, Holdings

\* The orders of the run.
LEMMA OrdersAreOrders ==
  ASSUME NEW o \in PlanOrders \cup TargetOrders \cup SizeOrders
  PROVE  "k" \in DOMAIN o /\ Counted(o.c) /\ o.k \in AllMarkets /\ o.dir \in Directions
<1> DEFINE C == BlankOrder.c
           K == BlankOrder.k
           Fine(x) == "k" \in DOMAIN x /\ Counted(x.c) /\ x.k \in AllMarkets /\ x.dir \in Directions
<1>1. K \in AllMarkets /\ Fine(BlankOrder) /\ Counted(C)
      /\ DOMAIN BlankOrder = {"mode", "dir", "fill", "mark", "filled", "c", "k", "rules", "raw"}
  BY DEF BlankOrder, Counted, AllMarkets, Directions, NotSet
<1>2. (\A c \in Settings : Counted(c)) /\ Markets \subseteq AllMarkets
  <2>1. ASSUME NEW c \in Settings PROVE Counted(c)
    BY DEF Settings, Counted, NotSet
  <2>2. ASSUME NEW k \in Markets PROVE k \in AllMarkets
    BY DEF Markets, AllMarkets
  <2> QED
    BY <2>1, <2>2
<1>3. CASE o \in PlanOrders
  <2>1. PICK m \in {"SCALPING", "EMA_TICK_SCALP", "TREND"}, d \in Directions, k \in Markets,
            f \in {1985, 2000, 2010}, x \in {1700, 1900, 1960, 2000, 2040, 2300}, s \in {NotSet, 5, 30} :
          o = PlanOrder(m, d, k, f, x, s)
    BY <1>3 DEF PlanOrders
  <2>2. s \in Int
    BY DEF NotSet
  <2>3. o.c = [C EXCEPT !.stop = s, !.breakEven = 5]
    BY <1>1, <2>1 DEF PlanOrder
  <2>4. Counted([C EXCEPT !.stop = s, !.breakEven = 5])
    <3>1. DOMAIN C = {"stop", "target", "atrStop", "atrTarget", "tenSeconds", "targetOn", "multi", "count",
                      "volume", "breakEvenOn", "breakEven", "offset", "trailOn", "trail"}
      BY DEF BlankOrder
    <3> HIDE DEF C
    <3>2. ASSUME NEW g, g = [C EXCEPT !.stop = s, !.breakEven = 5]
          PROVE  /\ g.stop = s /\ g.target = C.target /\ g.atrStop = C.atrStop
                 /\ g.atrTarget = C.atrTarget /\ g.volume = C.volume /\ g.count = C.count
      BY <3>1, <3>2
    <3> QED
      BY <1>1, <2>2, <3>2 DEF Counted
  <2>5. o.k = k /\ o.dir = d /\ "k" \in DOMAIN o
    BY <1>1, <2>1 DEF PlanOrder
  <2> QED
    BY <1>2, <2>3, <2>4, <2>5
<1>4. CASE o \in TargetOrders
  <2>1. PICK d \in Directions, a \in {30, 300}, f \in {1, 2, 7}, c \in Settings : o = TargetOrder(d, a, f, c)
    BY <1>4 DEF TargetOrders
  <2>2. o.k = [K EXCEPT !.atr = a]
    BY <1>1, <2>1 DEF TargetOrder
  <2>3. [K EXCEPT !.atr = a] \in AllMarkets
    <3> HIDE DEF K
    <3> QED
      BY <1>1 DEF AllMarkets
  <2>4. o.c = c /\ o.dir = d /\ "k" \in DOMAIN o
    BY <1>1, <2>1 DEF TargetOrder
  <2> QED
    BY <1>2, <2>2, <2>3, <2>4
<1>5. CASE o \in SizeOrders
  <2>1. PICK r \in Rules, v \in {0, 1, 7, 10, 54, 499, 501, 1001} : o = SizeOrder(r, v)
    BY <1>5 DEF SizeOrders
  <2>2. o.c = C /\ o.k = K /\ o.dir = BlankOrder.dir /\ DOMAIN o = DOMAIN BlankOrder
    BY <1>1, <2>1 DEF SizeOrder
  <2> QED
    BY <1>1, <2>2
<1> QED
  BY <1>3, <1>4, <1>5

\* An input of a signal, of bars or of a plan.
CaseInput ==
  /\ reading # NoReading =>
       /\ mode \in Modes /\ reading \in Readings /\ held \in Holdings
       /\ candles \in Colours /\ candles.green + candles.red <= 5
  /\ bars # NoBars =>
       /\ mode = "EMA_TICK_SCALP" /\ held \in Holdings
       /\ bars \in [closes : Series, forming : BOOLEAN, mid : Mids]
       /\ reading = Live(bars)
  /\ order # NoOrder => order \in PlanOrders \cup TargetOrders \cup SizeOrders

\* Four closes are a list of numbers.
LEMMA SeriesAreCloses == ASSUME NEW s \in Series PROVE s \in Seq(Int) /\ Len(s) = 4 /\ Len(s) >= 2 /\ Len(s) >= 4
<1>1. s \in [1..4 -> Int]
  BY DEF Series
<1>2. ASSUME NEW n \in Nat, NEW t \in [1..n -> Int] PROVE t \in Seq(Int) /\ Len(t) = n
  OBVIOUS
<1>3. 4 \in Nat /\ 4 >= 2 /\ 4 >= 4
  OBVIOUS
<1> QED
  BY <1>1, <1>2, <1>3, Zenon

\* Every initial state is an input.
LEMMA CasesInitInput == CasesInit => CaseInput
<1> SUFFICES ASSUME CasesInit PROVE CaseInput
  OBVIOUS
<1>1. CASE reading = NoReading /\ bars = NoBars /\ order = NoOrder
  BY <1>1 DEF CaseInput
<1>2. CASE /\ mode \in Modes
           /\ \E i \in {Neutral, Bought(mode)} : reading \in Nearby(i)
           /\ held \in Holds /\ candles \in Candles
           /\ bars = NoBars /\ order = NoOrder
  <2>1. reading \in Readings
    BY <1>2, NeutralIsReading, BoughtAreReadings, NearbyAreReadings
  <2>2. held \in Holdings
    BY <1>2, HoldsAreHoldings DEF Holds
  <2>3. candles \in Colours /\ candles.green + candles.red <= 5
    BY <1>2, CandlesAreColours
  <2> QED
    BY <1>2, <2>1, <2>2, <2>3 DEF CaseInput
<1>3. CASE /\ mode = "EMA_TICK_SCALP" /\ candles \in Candles
           /\ bars \in [closes : Series, forming : BOOLEAN, mid : Mids]
           /\ reading = Live(bars) /\ held \in Holds /\ order = NoOrder
  <2>1. reading \in Readings
    <3>1. bars.closes \in Series /\ bars.forming \in BOOLEAN /\ bars.mid \in Int
      BY <1>3 DEF Mids
    <3>2. bars.closes \in Seq(Int) /\ Len(bars.closes) >= 4
      BY <3>1, SeriesAreCloses
    <3> QED
      BY <1>3, <3>1, <3>2, LiveIsReading, Zenon DEF Live
  <2>2. held \in Holdings
    BY <1>3, HoldsAreHoldings DEF Holds
  <2>3. candles \in Colours /\ candles.green + candles.red <= 5
    BY <1>3, CandlesAreColours
  <2>4. mode \in Modes
    BY <1>3 DEF Modes
  <2> QED
    BY <1>3, <2>1, <2>2, <2>3, <2>4 DEF CaseInput
<1>4. CASE /\ reading = NoReading /\ bars = NoBars
           /\ order \in PlanOrders \cup TargetOrders \cup SizeOrders
  BY <1>4 DEF CaseInput
<1> QED
  BY <1>1, <1>2, <1>3, <1>4, FirstCandles, Zenon DEF CasesInit

\* No step changes the input.
LEMMA StepCaseInput == CaseInput /\ [UNCHANGED caseVars]_caseVars => CaseInput'
  BY DEF CaseInput, caseVars, Live

\* An input of a decision with its mirror image.
MirrorImage(m, i, j, o, q, c, e) ==
  /\ m \in Modes /\ i \in Readings /\ Opposite(i, j)
  /\ o \in Holdings /\ q \in Holdings /\ Against(o, q) /\ Untied(m, i, o)
  /\ c \in Colours /\ Recoloured(c, e) /\ c.green + c.red <= 5

\* The decision on the mirror image of an input is mirrored.
LEMMA ImageMirrors ==
  ASSUME NEW m, NEW i, NEW j, NEW o, NEW q, NEW c, NEW e, MirrorImage(m, i, j, o, q, c, e)
  PROVE  \A ten \in BOOLEAN : Decision(m, ten, j, q, e, e) = OtherSide(Decision(m, ten, i, o, c, c))
<1>1. /\ m \in Modes /\ i \in Readings /\ Opposite(i, j)
      /\ o \in Holdings /\ q \in Holdings /\ Against(o, q) /\ Untied(m, i, o)
      /\ c \in Colours /\ Recoloured(c, e) /\ c.green + c.red <= 5
  BY DEF MirrorImage
<1> QED
  BY <1>1, DecisionMirrors

\* Every signal and every plan of an input is mirrored.
LEMMA SignalsMirrorOn == CaseInput => SignalsMirror
<1>1. ASSUME CaseInput, reading # NoReading, ~Tied
      PROVE  Decision(mode, TRUE, Mirrored(reading), OtherHold, OtherCandles, OtherCandles)
               = OtherSide(Decision(mode, TRUE, reading, held, candles, candles))
  <2> DEFINE j == Mirrored(reading)
             q == OtherHold
             e == OtherCandles
  <2>1. /\ mode \in Modes /\ reading \in Readings /\ held \in Holdings
        /\ candles \in Colours /\ candles.green + candles.red <= 5
    BY <1>1 DEF CaseInput
  <2>2. Opposite(reading, j)
    BY <2>1, MirroredIsOpposite
  <2>3. q \in Holdings /\ Against(held, q)
    BY <2>1 DEF OtherHold, Holdings, Against
  <2>4. Recoloured(candles, e)
    BY <2>1 DEF OtherCandles, Colours, Recoloured
  <2>5. Untied(mode, reading, held)
    BY <1>1 DEF Tied, Untied
  <2> HIDE DEF j, q, e
  <2>6. MirrorImage(mode, reading, j, held, q, candles, e)
    BY <2>1, <2>2, <2>3, <2>4, <2>5 DEF MirrorImage
  <2>7. \A ten \in BOOLEAN :
          Decision(mode, ten, j, q, e, e) = OtherSide(Decision(mode, ten, reading, held, candles, candles))
    BY <2>6, ImageMirrors
  <2>8. Decision(mode, TRUE, j, q, e, e) = OtherSide(Decision(mode, TRUE, reading, held, candles, candles))
    <3>1. TRUE \in BOOLEAN
      OBVIOUS
    <3> QED
      BY <2>7, <3>1, Zenon
  <2> QED
    BY <2>8 DEF j, q, e
<1>2. ASSUME CaseInput, order # NoOrder
      PROVE  PlanOf(Flip(order.dir), [order EXCEPT !.k = MirroredMarket(@)]) = PlanOf(order.dir, order)
  <2> DEFINE p == [order EXCEPT !.k = MirroredMarket(@)]
  <2>1. /\ "k" \in DOMAIN order /\ Counted(order.c) /\ order.k \in AllMarkets /\ order.dir \in Directions
    BY <1>2, OrdersAreOrders DEF CaseInput
  <2>2. p.mode = order.mode /\ p.c = order.c /\ p.k = MirroredMarket(order.k)
    BY <2>1
  <2>3. Upended(order.k, p.k)
    BY <2>1, <2>2, MirroredIsUpended
  <2> HIDE DEF p
  <2> QED
    BY <2>1, <2>2, <2>3, PlansMirror DEF p
<1> QED
  BY <1>1, <1>2 DEF SignalsMirror

\* What EMA_TICK_SCALP buys on an input of bars it does not sell on the same bar.
LEMMA EntryIsNoExitOn == CaseInput => EntryIsNoExit
<1> DEFINE m == "EMA_TICK_SCALP"
           long == Held({[dir |-> "BUY"]}, Side(reading))
           i == Averages(Neutral, bars.closes)
<1> SUFFICES ASSUME CaseInput, bars # NoBars, ~ClosedDown(reading), Signal(mode, reading, held) = "BUY",
                    NEW mid \in Mids, mid >= bars.mid
             PROVE  Signal(mode, Live([bars EXCEPT !.mid = mid]), long) # "CLOSE"
  BY Zenon DEF EntryIsNoExit
<1>1. /\ mode = m /\ held \in Holdings /\ reading = Live(bars)
      /\ bars \in [closes : Series, forming : BOOLEAN, mid : Mids]
  BY DEF CaseInput
<1>2. /\ bars.closes \in Seq(Int) /\ Len(bars.closes) >= 4 /\ Len(bars.closes) >= 2 /\ bars.forming \in BOOLEAN
      /\ bars.mid \in Int /\ mid \in Int
  BY <1>1, SeriesAreCloses DEF Mids
<1>3. i \in Readings
  BY <1>2, LiveIsReading, Zenon
<1>4. reading = LiveReading(m, i, bars.closes, bars.forming, bars.mid)
  BY <1>1 DEF Live
<1>5. Live([bars EXCEPT !.mid = mid]) = LiveReading(m, i, bars.closes, bars.forming, mid)
  BY <1>1 DEF Live
<1>6. long \in Holdings /\ long.openBuy /\ long.prevSide = Side(reading)
  BY DEF Held, Holdings, Side
<1> HIDE DEF long, i
<1>7. Signal(m, LiveReading(m, i, bars.closes, bars.forming, bars.mid), held) = "BUY"
  BY <1>1, <1>4
<1>8. ~ClosedDown(LiveReading(m, i, bars.closes, bars.forming, bars.mid))
  BY <1>4
<1>9. Signal(m, LiveReading(m, i, bars.closes, bars.forming, mid), long) # "CLOSE"
  BY <1>1, <1>2, <1>3, <1>4, <1>6, <1>7, <1>8, EntryHolds, Zenon
<1> QED
  BY <1>1, <1>5, <1>9

\* Every mode decides on the mirrored market the mirrored thing, ties apart, and
\* every entry has the mirrored plan.
THEOREM SignalsAreMirrored == CasesSpec => []SignalsMirror
  BY CasesInitInput, StepCaseInput, SignalsMirrorOn, PTL DEF CasesSpec

\* What EMA_TICK_SCALP buys on a tick it does not sell on a later tick of the bar at
\* that price or above.
THEOREM EntriesAreKept == CasesSpec => []EntryIsNoExit
  BY CasesInitInput, StepCaseInput, EntryIsNoExitOn, PTL DEF CasesSpec

-----------------------------------------------------------------------------
(***************************************************************************)
(* What the runtime counts on when it sends a plan.                        *)
(***************************************************************************)
\* A quotient by what the dividend is a multiple of, or nearly so.
LEMMA Quotient ==
  ASSUME NEW x \in Int, NEW n \in Nat \ {0}, NEW q \in Int, n * q <= x, x < n * q + n
  PROVE  x \div n = q
  OBVIOUS

\* An entry the broker can take: the stop fits below the price, and for the
\* tenth of SCALPING the least distance fits into it and the fill is not far below
\* the price that was asked for.
Affordable(o) ==
  /\ o.dir \in Directions /\ o.k \in AllMarkets /\ Counted(o.c)
  /\ o.k.entry \in Nat \ {0} /\ o.fill \in Nat \ {0} /\ o.mark \in Int
  /\ o.mode = "SCALPING" =>
       /\ LeastStop <= o.k.entry \div 10
       /\ 2 * LeastStop + 3 * (o.k.entry \div 10) <= 5 * (o.fill \div 10)
  /\ o.mode # "SCALPING" /\ o.dir = "BUY" =>
       LET far == StopDistance(o.mode, o.dir, o.c, o.k)
       IN  far < o.k.entry /\ 5 * far < 2 * o.fill

\* How far several targets reach.
Reach(c, k) == MaxOf((k.atr * MaxOf(c.atrTarget, 1)) \div 10, Unit \div 100)

\* The targets have a range to be spread over, a tick for each.
Spread(o) ==
  /\ o.dir \in Directions /\ o.k \in AllMarkets /\ Counted(o.c) /\ o.filled \in Int
  /\ o.c.multi => o.c.count <= Reach(o.c, o.k)

\* Rules that are whole in their steps, and steps that are whole in what is
\* kept of them.
Whole(r) ==
  /\ r.least \in Nat /\ r.most \in Nat /\ r.step \in Nat \ {0}
  /\ r.step <= r.least /\ r.least <= r.most
  /\ r.least % r.step = 0 /\ r.most % r.step = 0 /\ r.step % Precision(r.step) = 0

Plannable(o) == Affordable(o) /\ Spread(o) /\ Whole(o.rules) /\ o.raw \in Int

\* The distance is the least one or more, and for SCALPING a tenth of the price.
LEMMA DistanceIsKept ==
  ASSUME NEW o, Affordable(o)
  PROVE  /\ StopDistance(o.mode, o.dir, o.c, o.k) \in Nat
         /\ StopDistance(o.mode, o.dir, o.c, o.k) >= LeastStop
         /\ LeastStop \in Nat /\ LeastStop > 0
<1> DEFINE far == StopDistance(o.mode, o.dir, o.c, o.k)
<1>1. LeastStop \in Nat /\ LeastStop > 0
  BY EntryPlanAssumption DEF LeastStop
<1>2. far \in Int
  <2>1. Upended(o.k, MirroredMarket(o.k))
    BY MirroredIsUpended DEF Affordable
  <2> QED
    BY <2>1, DistanceTurns DEF Affordable
<1>3. far >= LeastStop
  <2>1. CASE o.mode = "SCALPING"
    BY <2>1 DEF StopDistance, Affordable
  <2>2. CASE o.mode = "EMA_TICK_SCALP"
    <3> DEFINE x == Favorable(o.dir, Farther(o.dir, EmaStop(o.dir, o.k), Behind(o.dir, o.k.entry, LeastStop)),
                              o.k.entry)
    <3>1. far = MaxOf(x, LeastStop)
      BY <2>2 DEF StopDistance
    <3> HIDE DEF x, far
    <3>2. x \in Int
      BY <1>1, EmaStopTurns, MirroredIsUpended
      DEF Affordable, AllMarkets, x, Favorable, Farther, Behind, MinOf, MaxOf, Directions
    <3> QED
      BY <1>1, <3>1, <3>2 DEF MaxOf
  <2>3. CASE o.mode \notin {"SCALPING", "EMA_TICK_SCALP"}
    <3> DEFINE x == IF o.c.stop # NotSet THEN Setting(o.c.stop)
                    ELSE MaxOf((o.k.atr * o.c.atrStop) \div 10, (o.k.entry * 65) \div 100000)
    <3>1. far = MaxOf(LeastStop, x)
      BY <2>3 DEF StopDistance
    <3> HIDE DEF x, far
    <3>2. x \in Int
      <4>1. Setting(o.c.stop) \in Int
        BY SettingIsInt DEF Affordable, Counted
      <4>2. (o.k.atr * o.c.atrStop) \div 10 \in Int /\ (o.k.entry * 65) \div 100000 \in Int
        BY DEF Affordable, AllMarkets, Counted
      <4> QED
        BY <4>1, <4>2 DEF x, MaxOf
    <3> QED
      BY <1>1, <3>1, <3>2 DEF MaxOf
  <2> QED
    BY <2>1, <2>2, <2>3
<1> QED
  BY <1>1, <1>2, <1>3

\* The stop is as far from the entry as it is taken to be, and the broker takes it.
LEMMA StopIsPlaced == ASSUME NEW o, Affordable(o) PROVE StopPlaced(o)
<1> DEFINE far == StopDistance(o.mode, o.dir, o.c, o.k)
           stop == PlannedStop(o.mode, o.dir, o.c, o.k)
           e == o.k.entry
<1>1. far \in Nat /\ far >= LeastStop /\ LeastStop \in Nat /\ LeastStop > 0
  BY DistanceIsKept
<1>2. o.dir \in Directions /\ e \in Nat /\ e > 0
  BY DEF Affordable
<1>3. o.dir = "BUY" => far < e
  <2>1. CASE o.mode = "SCALPING"
    BY <1>2, <2>1 DEF StopDistance
  <2> QED
    BY <2>1 DEF Affordable
<1>4. stop = Behind(o.dir, e, far)
  <2>1. CASE o.mode = "SCALPING"
    <3>1. far = e \div 10 /\ stop = InitialStop(o.dir, e, e \div 10, LeastStop, e)
      BY <2>1 DEF StopDistance, PlannedStop
    <3> HIDE DEF far, stop, e
    <3> QED
      BY <1>1, <1>2, <3>1 DEF InitialStop, MaxOf, Behind, Directions
  <2>2. CASE o.mode = "EMA_TICK_SCALP"
    <3> DEFINE s == EmaStop(o.dir, o.k)
    <3>1. s \in Int
      BY EmaStopTurns, MirroredIsUpended DEF Affordable
    <3>2. /\ far = MaxOf(Favorable(o.dir, Farther(o.dir, s, Behind(o.dir, e, LeastStop)), e), LeastStop)
          /\ stop = Farther(o.dir, s, Behind(o.dir, e, LeastStop))
      BY <2>2 DEF StopDistance, PlannedStop
    <3> HIDE DEF far, stop, e, s
    <3> QED
      BY <1>1, <1>2, <3>1, <3>2 DEF Favorable, Farther, Behind, MinOf, MaxOf, Directions
  <2>3. CASE o.mode \notin {"SCALPING", "EMA_TICK_SCALP"}
    BY <2>3 DEF PlannedStop
  <2> QED
    BY <2>1, <2>2, <2>3
<1> HIDE DEF far, stop, e
<1>5. Favorable(o.dir, stop, e) = far /\ stop > 0
  BY <1>1, <1>2, <1>3, <1>4 DEF Favorable, Behind, Directions
<1> QED
  BY <1>1, <1>5 DEF StopPlaced, ValidVsMark, far, stop, e

\* After a loss of up to one and a half distances the last attempt, two and a half
\* distances away, is a legal stop.
LEMMA StopIsAttached == ASSUME NEW o, Affordable(o) PROVE StopAttached(o)
<1> DEFINE far == StopDistance(o.mode, o.dir, o.c, o.k)
           base == IF o.mode = "SCALPING" THEN o.fill \div 10 ELSE far
           wide == (5 * base) \div 2
           stop(attempt) == AttachStop(o.mode, o.dir, o.c, o.k, o.fill, o.mark, attempt)
<1> SUFFICES ASSUME 2 * Favorable(o.dir, o.mark, o.fill) <= 3 * far
             PROVE  \E attempt \in Attempts : ValidVsMark(o.dir, stop(attempt), LeastStop, o.mark)
  BY Zenon DEF StopAttached
<1>1. far \in Nat /\ far >= LeastStop /\ LeastStop \in Nat /\ LeastStop > 0
  BY DistanceIsKept
<1>2. o.dir \in Directions /\ o.fill \in Nat /\ o.fill > 0 /\ o.mark \in Int
  BY DEF Affordable
<1>3. base \in Nat /\ 2 * LeastStop + 3 * far <= 5 * base /\ (o.dir = "BUY" => wide < o.fill)
  <2>1. CASE o.mode = "SCALPING"
    <3>1. far = o.k.entry \div 10
      BY <2>1 DEF StopDistance
    <3> QED
      BY <1>1, <1>2, <2>1, <3>1 DEF Affordable
  <2>2. CASE o.mode # "SCALPING"
    <3>1. o.dir = "BUY" => 5 * far < 2 * o.fill
      BY <2>2 DEF Affordable
    <3> HIDE DEF far
    <3> QED
      BY <1>1, <1>2, <2>2, <3>1
  <2> QED
    BY <2>1, <2>2
<1>4. stop(3) = InitialStop(o.dir, o.fill, wide, LeastStop, o.mark)
  <2>1. MaxOf(far, LeastStop) = far
    BY <1>1 DEF MaxOf
  <2>2. AttachDistance(o.mode, o.dir, o.c, o.k, o.fill, 3) = (base * (2 + 3)) \div 2
    BY <2>1 DEF AttachDistance
  <2>3. base * (2 + 3) = 5 * base
    BY <1>3
  <2> QED
    BY <2>2, <2>3 DEF AttachStop
<1> HIDE DEF far, base, stop
<1>5. wide \in Nat /\ 2 * wide <= 5 * base /\ 5 * base <= 2 * wide + 1
  BY <1>3
<1> HIDE DEF wide
<1>6. ValidVsMark(o.dir, stop(3), LeastStop, o.mark)
  <2>1. CASE o.dir = "BUY"
    BY <1>1, <1>2, <1>3, <1>4, <1>5, <2>1 DEF ValidVsMark, InitialStop, Favorable, MaxOf
  <2>2. CASE o.dir = "SELL"
    BY <1>1, <1>2, <1>3, <1>4, <1>5, <2>2 DEF ValidVsMark, InitialStop, Favorable, MaxOf
  <2> QED
    BY <1>2, <2>1, <2>2 DEF Directions
<1>7. 3 \in Attempts
  BY DEF Attempts
<1> QED
  BY <1>6, <1>7

\* What is whole in a unit stays what it is when it is rounded to it.
LEMMA WholeRounds ==
  ASSUME NEW unit \in Nat \ {0}, NEW m \in Int
  PROVE  RoundTo(m * unit, unit) = m * unit
<1> DEFINE u2 == 2 * unit
<1>1. m * unit \in Int /\ u2 \in Nat \ {0} /\ u2 * m = 2 * (m * unit)
  OBVIOUS
<1>2. (2 * (m * unit) + unit) \div u2 = m
  <2>1. u2 * m <= 2 * (m * unit) + unit /\ 2 * (m * unit) + unit < u2 * m + u2
    BY <1>1
  <2>2. 2 * (m * unit) + unit \in Int
    BY <1>1
  <2> HIDE DEF u2
  <2> QED
    BY <1>1, <2>1, <2>2, Quotient
<1> QED
  BY <1>2 DEF RoundTo

\* A remainder of nothing is a multiple.
LEMMA NoRemainder ==
  ASSUME NEW x \in Int, NEW n \in Nat \ {0}, x % n = 0
  PROVE  \E m \in Int : x = m * n
<1>1. x \div n \in Int /\ x = (x \div n) * n
  OBVIOUS
<1> QED
  BY <1>1

\* A multiple leaves no remainder.
LEMMA MultipleIsWhole ==
  ASSUME NEW m \in Int, NEW n \in Nat \ {0}
  PROVE  (m * n) % n = 0
  OBVIOUS

\* A size that is a number of steps is sent as it is, within the limits.
LEMMA StepsAreSent ==
  ASSUME NEW r, Whole(r), NEW raw \in Int, raw > 0, NEW m \in Int,
         m * r.step >= raw, m * r.step < raw + r.step
  PROVE  DealSize(raw, r) = Within(r.least, r.most, m * r.step)
<1> DEFINE step == r.step
           up == ((raw + step - 1) \div step) * step
           bound == IF up > r.least THEN up ELSE r.least
           size == Within(r.least, r.most, m * step)
           kept == Precision(step)
<1>1. /\ r.least \in Nat /\ r.most \in Nat /\ r.least \in Int /\ r.most \in Int
      /\ step \in Nat /\ step \in Int /\ step > 0 /\ step \in Nat \ {0}
      /\ step <= r.least /\ r.least <= r.most
      /\ r.least % step = 0 /\ r.most % step = 0 /\ step % kept = 0
  BY DEF Whole
<1>2. kept \in Nat \ {0}
  BY <1>1 DEF Precision
<1>3. PICK a \in Int : r.least = a * step
  BY <1>1, NoRemainder, Zenon
<1>4. PICK b \in Int : r.most = b * step
  BY <1>1, NoRemainder, Zenon
<1>5. PICK p \in Int : step = p * kept
  BY <1>1, <1>2, NoRemainder, Zenon
<1> HIDE DEF kept
<1>6. DealSize(raw, r) = RoundTo(Within(r.least, r.most, RoundTo(bound, step)), kept)
  BY <1>1 DEF DealSize, kept
<1> HIDE DEF step
<1>7. m * step \in Int /\ a * step \in Int /\ b * step \in Int /\ step * m = m * step
  BY <1>1
<1>8. up = m * step
  <2>1. step * m <= raw + step - 1 /\ raw + step - 1 < step * m + step
    <3>1. m * step >= raw /\ m * step < raw + step
      BY DEF step
    <3> QED
      BY <1>1, <1>7, <3>1
  <2>2. (raw + step - 1) \div step = m
    <3>1. raw + step - 1 \in Int
      BY <1>1
    <3> QED
      BY <1>1, <2>1, <3>1, Quotient
  <2> QED
    BY <2>2
<1> HIDE DEF up
<1>9. PICK c \in {m, a} : bound = c * step
  BY <1>3, <1>8
<1>10. RoundTo(bound, step) = bound
  BY <1>1, <1>9, WholeRounds
<1>11. Within(r.least, r.most, bound) = size
  BY <1>1, <1>7, <1>8 DEF Within
<1>12. PICK d \in {m, a, b} : size = d * step
  BY <1>3, <1>4 DEF Within
<1>13. size = (d * p) * kept /\ d * p \in Int
  BY <1>2, <1>5, <1>12
<1>14. RoundTo(size, kept) = size
  <2> HIDE DEF size
  <2> QED
    BY <1>2, <1>13, WholeRounds
<1> QED
  BY <1>6, <1>10, <1>11, <1>14 DEF step

\* For every size there is a number of steps that is enough and not one too many.
LEMMA EnoughSteps ==
  ASSUME NEW raw \in Int, NEW step \in Nat \ {0}
  PROVE  \E m \in Int : m * step \in Int /\ m * step >= raw /\ m * step < raw + step
<1> DEFINE m == (raw + step - 1) \div step
<1>1. m \in Int /\ step * m <= raw + step - 1 /\ raw + step - 1 < step * m + step
  OBVIOUS
<1> HIDE DEF m
<1>2. m * step = step * m /\ m * step \in Int
  BY <1>1
<1> QED
  BY <1>1, <1>2

\* The size sent is one the market takes.
LEMMA SizeIsTaken ==
  ASSUME NEW o, Whole(o.rules), o.raw \in Int
  PROVE  SizeTaken(o)
<1> DEFINE r == o.rules
           step == r.step
           raw == o.raw
           size == DealSize(raw, r)
<1>1. /\ r.least \in Nat /\ r.most \in Nat /\ r.least \in Int /\ r.most \in Int
      /\ step \in Nat /\ step \in Int /\ step > 0 /\ step \in Nat \ {0}
      /\ step <= r.least /\ r.least <= r.most
      /\ r.least % step = 0 /\ r.most % step = 0
  BY DEF Whole
<1>2. r.least > 0
  BY <1>1
<1>3. PICK a \in Int : r.least = a * step
  BY <1>1, NoRemainder, Zenon
<1>4. PICK b \in Int : r.most = b * step
  BY <1>1, NoRemainder, Zenon
<1>5. ASSUME NEW d \in Int, d * step \in r.least..r.most PROVE DealSize(d * step, r) = d * step
  <2>1. d * step \in Int /\ d * step > 0
    BY <1>1, <1>2, <1>5
  <2>2. DealSize(d * step, r) = Within(r.least, r.most, d * step)
    <3>1. d * r.step >= d * step /\ d * r.step < d * step + r.step
      BY <1>1, <2>1
    <3> QED
      BY <2>1, <3>1, StepsAreSent
  <2> QED
    BY <1>1, <1>5, <2>1, <2>2 DEF Within
<1>6. ASSUME NEW d \in Int, size = d * step, size \in r.least..r.most,
             raw \in 1..r.most => size >= raw, size < MaxOf(raw, r.least) + step
      PROVE  SizeTaken(o)
  <2>1. size % step = 0
    BY <1>1, <1>6, MultipleIsWhole
  <2>2. DealSize(size, r) = size
    <3> HIDE DEF size
    <3> QED
      BY <1>5, <1>6
  <2> QED
    BY <1>6, <2>1, <2>2 DEF SizeTaken
<1>7. CASE raw <= 0
  <2>1. size = r.least
    BY <1>7 DEF DealSize
  <2>2. r.least \in r.least..r.most /\ ~(raw \in 1..r.most) /\ r.least < MaxOf(raw, r.least) + step
    BY <1>1, <1>7 DEF MaxOf
  <2> HIDE DEF size
  <2> QED
    BY <1>3, <1>6, <2>1, <2>2
<1>8. CASE raw > 0
  <2>1. PICK m \in Int : m * step \in Int /\ m * step >= raw /\ m * step < raw + step
    BY <1>1, EnoughSteps
  <2>2. size = Within(r.least, r.most, m * step)
    BY <1>8, <2>1, StepsAreSent
  <2> HIDE DEF size
  <2>3. PICK d \in {m, a, b} : size = d * step
    BY <1>3, <1>4, <2>2 DEF Within
  <2>4. size \in r.least..r.most
    BY <1>1, <2>1, <2>2 DEF Within
  <2>5. raw \in 1..r.most => size >= raw
    BY <1>1, <2>1, <2>2 DEF Within
  <2>6. size < MaxOf(raw, r.least) + step
    BY <1>1, <1>8, <2>1, <2>2 DEF Within, MaxOf
  <2>7. d \in Int
    OBVIOUS
  <2> QED
    BY <1>6, <2>3, <2>4, <2>5, <2>6, <2>7
<1> QED
  BY <1>7, <1>8

\* The slices share out the volume, the earliest a step more as long as there is a
\* remainder.
LEMMA SlicesShareOut ==
  ASSUME NEW volume \in Int, volume >= 2, NEW count \in Nat \ {0}
  PROVE  \E n \in Nat \ {0} : /\ n <= count /\ SliceVolumes(volume, count) \in [1..n -> Int]
                              /\ SumFunction(SliceVolumes(volume, count)) = volume
<1> DEFINE n == IF count < volume THEN count ELSE volume
           base == volume \div n
           rest == volume % n
           f == SliceVolumes(volume, count)
           upto(k) == k * base + (IF k <= rest THEN k ELSE rest)
           sumTo(k) == SumFunctionOnSet(f, 1..k)
           B == {T \in SUBSET (1..n) : \E k \in 0..n : T = 1..k /\ sumTo(k) # upto(k)}
<1>1. n \in Nat \ {0} /\ n \in Int /\ n <= count
  OBVIOUS
<1>2. f = [i \in 1..n |-> IF i <= rest THEN base + 1 ELSE base]
  BY DEF SliceVolumes
<1> HIDE DEF n, f
<1>3. base \in Int /\ rest \in Nat /\ rest < n /\ volume = n * base + rest
  BY <1>1
<1> HIDE DEF base, rest
<1>4. f \in [1..n -> Int] /\ \A i \in 1..n : f[i] \in Int
  BY <1>2, <1>3
<1>5. IsFiniteSet(1..n) /\ \A k \in 0..n : IsFiniteSet(1..k)
  BY <1>1, FS_Interval
<1>6. B = {}
  <2> SUFFICES ASSUME B # {} PROVE FALSE
    OBVIOUS
  <2>1. PICK T \in B : \A U \in B : U \subseteq T => U = T
    <3> DEFINE N == 1..n
    <3>1. B \in SUBSET (SUBSET N) /\ IsFiniteSet(N)
      BY <1>5
    <3> HIDE DEF B, N
    <3> QED
      BY <3>1, SmallestSet
  <2>2. PICK k \in 0..n : T = 1..k /\ sumTo(k) # upto(k)
    BY <2>1
  <2>3. k # 0
    <3> SUFFICES ASSUME k = 0 PROVE FALSE
      OBVIOUS
    <3>1. 1..k = {}
      OBVIOUS
    <3>2. upto(k) = 0
      BY <1>3
    <3> QED
      BY <2>2, <3>1, <3>2, SumNone
  <2>4. 1..(k - 1) \notin B
    <3>1. 1..(k - 1) \subseteq 1..k /\ 1..(k - 1) # 1..k
      BY <1>1, <2>3
    <3> QED
      BY <2>1, <2>2, <3>1
  <2>5. sumTo(k - 1) = upto(k - 1)
    <3>1. k - 1 \in 0..n /\ 1..(k - 1) \in SUBSET (1..n)
      BY <1>1, <2>3
    <3> QED
      BY <2>4, <3>1
  <2>6. sumTo(k) = f[k] + sumTo(k - 1)
    <3> DEFINE K == 1..k
    <3>1. k \in K /\ K \ {k} = 1..(k - 1)
      BY <1>1, <2>3
    <3>2. IsFiniteSet(K) /\ \A i \in K : f[i] \in Int
      BY <1>1, <1>4, <1>5
    <3> HIDE DEF K
    <3>3. SumFunctionOnSet(f, K) = f[k] + SumFunctionOnSet(f, K \ {k})
      BY <3>1, <3>2, SumTakeOut
    <3> QED
      BY <3>1, <3>3 DEF K
  <2>7. upto(k) = f[k] + upto(k - 1)
    <3>1. k * base = (k - 1) * base + base /\ k * base \in Int /\ (k - 1) * base \in Int
      BY <1>1, <1>3
    <3>2. f[k] = IF k <= rest THEN base + 1 ELSE base
      BY <1>1, <1>2, <2>3
    <3> QED
      BY <1>1, <1>3, <2>3, <3>1, <3>2
  <2> QED
    BY <2>2, <2>5, <2>6, <2>7
<1>7. sumTo(n) = volume
  <2>1. sumTo(n) = upto(n)
    <3>1. n \in 0..n /\ 1..n \in SUBSET (1..n)
      BY <1>1
    <3> QED
      BY <1>6, <3>1
  <2> QED
    BY <1>1, <1>3, <2>1
<1>8. SumFunction(f) = volume
  BY <1>4, <1>7 DEF SumFunction
<1> QED
  BY <1>1, <1>4, <1>8 DEF f

\* Targets that share out a volume, one after another in profit, the last at a price.
SharesOut(d, k, ts, volume, price) ==
  LET at(t) == Favorable(d, k.entry, t.price)
  IN  /\ \E n \in Nat \ {0} : DOMAIN ts = 1..n /\ Len(ts) = n
      /\ SumFunction([i \in DOMAIN ts |-> ts[i].volume]) = volume
      /\ at(ts[1]) > 0 /\ ts[Len(ts)].price = price
      /\ \A i \in 2..Len(ts) : at(ts[i]) > at(ts[i - 1])

\* The nth part of a range of at least n ticks is passed by one after another.
LEMMA PartsFollow ==
  ASSUME NEW reach \in Int, NEW n \in Nat \ {0}, n <= reach
  PROVE  /\ (reach * n) \div n = reach /\ (reach * 1) \div n > 0
         /\ \A i \in 1..n : (reach * i) \div n \in Int
         /\ \A i \in 2..n : (reach * i) \div n > (reach * (i - 1)) \div n
<1>1. (reach * n) \div n = reach
  OBVIOUS
<1>2. (reach * 1) \div n > 0
  OBVIOUS
<1>3. ASSUME NEW i \in 1..n PROVE (reach * i) \div n \in Int
  OBVIOUS
<1>4. ASSUME NEW i \in 2..n PROVE (reach * i) \div n > (reach * (i - 1)) \div n
  <2> DEFINE x == reach * i
             y == reach * (i - 1)
             a == x \div n
             b == y \div n
  <2>1. x \in Int /\ y \in Int /\ x >= y + n
    OBVIOUS
  <2> HIDE DEF x, y
  <2>2. a \in Int /\ x < n * a + n /\ b \in Int /\ n * b <= y
    BY <2>1
  <2> HIDE DEF a, b
  <2>3. n * b < n * a
    <3>1. n * a \in Int /\ n * b \in Int
      BY <2>2
    <3> QED
      BY <2>1, <2>2, <3>1
  <2>4. b < a
    BY <2>2, <2>3
  <2> QED
    BY <2>4 DEF a, b, x, y
<1> QED
  BY <1>1, <1>2, <1>3, <1>4

\* Several targets share out what they are made for.
LEMMA MultiSharesOut ==
  ASSUME NEW d \in Directions, NEW k \in AllMarkets, NEW c, Counted(c), c.count <= Reach(c, k),
         NEW volume \in Int, volume >= 2
  PROVE  SharesOut(d, k, MultiTargets(d, c, k, volume), volume, Ahead(d, k.entry, Reach(c, k)))
<1> DEFINE vols == SliceVolumes(volume, c.count)
           reach == Reach(c, k)
           e == k.entry
           ts == MultiTargets(d, c, k, volume)
<1>1. e \in Int /\ reach \in Int /\ c.count \in Nat \ {0}
  BY EntryPlanAssumption DEF AllMarkets, Counted, Reach, MaxOf
<1>2. PICK n \in Nat \ {0} : n <= c.count /\ vols \in [1..n -> Int] /\ SumFunction(vols) = volume
  BY <1>1, SlicesShareOut
<1>3. Len(vols) = n /\ DOMAIN vols = 1..n
  BY <1>2
<1>4. ts = [i \in 1..n |-> [price |-> Ahead(d, e, (reach * i) \div n), volume |-> vols[i]]]
  BY <1>3 DEF MultiTargets, Reach
<1> HIDE DEF vols, reach, ts, e
<1>5. n <= reach
  BY <1>1, <1>2 DEF reach
<1>6. /\ (reach * n) \div n = reach /\ (reach * 1) \div n > 0
      /\ \A i \in 1..n : (reach * i) \div n \in Int
      /\ \A i \in 2..n : (reach * i) \div n > (reach * (i - 1)) \div n
  BY <1>1, <1>5, PartsFollow
<1>7. ASSUME NEW i \in 1..n
      PROVE  ts[i].volume = vols[i] /\ Favorable(d, e, ts[i].price) = (reach * i) \div n
  <2>1. ts[i].price = Ahead(d, e, (reach * i) \div n) /\ ts[i].volume = vols[i]
    BY <1>4
  <2> QED
    BY <1>1, <1>6, <2>1, AheadTurns
<1>8. DOMAIN ts = 1..n /\ Len(ts) = n
  BY <1>4
<1>9. SumFunction([i \in DOMAIN ts |-> ts[i].volume]) = volume
  <2>1. [i \in DOMAIN ts |-> ts[i].volume] = [i \in 1..n |-> vols[i]]
    BY <1>7, <1>8
  <2>2. [i \in 1..n |-> vols[i]] = vols
    BY <1>2
  <2> QED
    BY <1>2, <2>1, <2>2
<1>10. Favorable(d, e, ts[1].price) > 0
  <2>1. 1 \in 1..n
    OBVIOUS
  <2> QED
    BY <1>6, <1>7, <2>1
<1>11. ts[Len(ts)].price = Ahead(d, e, reach)
  <2>1. n \in 1..n
    OBVIOUS
  <2>2. ts[n].price = Ahead(d, e, (reach * n) \div n)
    BY <1>4, <2>1
  <2> QED
    BY <1>6, <1>8, <2>2
<1>12. ASSUME NEW i \in 2..n
       PROVE  Favorable(d, e, ts[i].price) > Favorable(d, e, ts[i - 1].price)
  <2>1. i \in 1..n /\ i - 1 \in 1..n
    OBVIOUS
  <2>2. (reach * i) \div n > (reach * (i - 1)) \div n
    BY <1>6
  <2> QED
    BY <1>7, <2>1, <2>2
<1> QED
  BY <1>8, <1>9, <1>10, <1>11, <1>12, Zenon DEF SharesOut, e, ts, reach

\* A single target shares out all of it.
LEMMA SingleSharesOut ==
  ASSUME NEW d \in Directions, NEW k \in AllMarkets, NEW far \in Int, far > 0, NEW volume \in Int
  PROVE  SharesOut(d, k, << [price |-> Ahead(d, k.entry, far), volume |-> volume] >>, volume,
                   Ahead(d, k.entry, far))
<1> DEFINE t == [price |-> Ahead(d, k.entry, far), volume |-> volume]
           ts == << t >>
           g == [i \in DOMAIN ts |-> ts[i].volume]
<1>1. DOMAIN ts = 1..1 /\ Len(ts) = 1 /\ ts[1] = t
  OBVIOUS
<1>2. k.entry \in Int
  BY DEF AllMarkets
<1>3. Favorable(d, k.entry, t.price) = far
  BY <1>2, AheadTurns
<1>4. SumFunction(g) = volume
  <2> DEFINE S == {1}
  <2>1. DOMAIN g = S /\ g[1] = volume
    BY <1>1
  <2>2. SumFunctionOnSet(g, S) = g[1] + SumFunctionOnSet(g, S \ {1})
    <3>1. IsFiniteSet(S) /\ 1 \in S /\ \A y \in S : g[y] \in Int
      BY <2>1, FS_Singleton
    <3> HIDE DEF S, g
    <3> QED
      BY <3>1, SumTakeOut
  <2>3. S \ {1} = {}
    OBVIOUS
  <2> HIDE DEF S, g
  <2> QED
    BY <2>1, <2>2, <2>3, SumNone DEF SumFunction
<1> QED
  BY <1>1, <1>3, <1>4 DEF SharesOut

\* A volume too small for two slices has no targets of its own.
LEMMA TooSmallForTargets ==
  ASSUME NEW d, NEW k, NEW c, NEW volume \in Int, volume < 2
  PROVE  MultiTargets(d, c, k, volume) = <<>> /\ Len(MultiTargets(d, c, k, volume)) = 0
<1>1. SliceVolumes(volume, c.count) = <<>>
  BY DEF SliceVolumes
<1>2. MultiTargets(d, c, k, volume) = <<>>
  BY <1>1 DEF MultiTargets
<1> QED
  BY <1>2

\* The targets follow one another in profit and share out the volume, before the
\* fill and after it.
LEMMA TargetsAreShared == ASSUME NEW o, Spread(o) PROVE TargetsShareOut(o)
<1> DEFINE d == o.dir
           c == o.c
           k == o.k
           levels == Targets(o.mode, d, c, k)
           kept == RowTargets(o.mode, d, c, k, o.filled)
           multi == MultiTargets(d, c, k, c.volume)
           far == TargetDistance(c, k)
           shared(ts) == SumFunction([i \in DOMAIN ts |-> ts[i].volume])
           at(t) == Favorable(d, k.entry, t.price)
           end == Ahead(d, k.entry, Reach(c, k))
           Follow(ts) == \A i \in 2..Len(ts) : at(ts[i]) > at(ts[i - 1])
<1>1. /\ d \in Directions /\ k \in AllMarkets /\ Counted(c) /\ o.filled \in Int
      /\ c.volume \in Int /\ (c.multi => c.count <= Reach(c, k))
  BY DEF Spread, Counted
<1>2. Follow(<<>>)
  OBVIOUS
<1> HIDE DEF levels, kept, c, k, d
<1>3. ASSUME NEW ts, NEW v, NEW price, SharesOut(d, k, ts, v, price)
      PROVE  /\ ts # <<>> /\ at(Head(ts)) > 0 /\ shared(ts) = v /\ Last(ts).price = price
             /\ Follow(ts)
  <2>1. PICK n \in Nat \ {0} : DOMAIN ts = 1..n /\ Len(ts) = n
    BY <1>3 DEF SharesOut
  <2>2. ts # <<>> /\ Head(ts) = ts[1] /\ Last(ts) = ts[Len(ts)]
    <3>1. Len(<<>>) = 0
      OBVIOUS
    <3> QED
      BY <2>1, <3>1 DEF Last, Head
  <2> QED
    BY <1>3, <2>2 DEF SharesOut
<1> HIDE DEF shared, at, Follow
<1>4. ASSUME /\ levels # <<>> => at(Head(levels)) > 0 /\ shared(levels) = c.volume
             /\ kept # <<>> => shared(kept) = o.filled /\ Last(kept).price = Last(levels).price
             /\ Follow(levels) /\ Follow(kept)
      PROVE  TargetsShareOut(o)
  BY <1>4, Zenon DEF TargetsShareOut, levels, kept, c, k, d, at, shared, Follow
<1>5. CASE o.mode \in {"SCALPING", "EMA_TICK_SCALP"} \/ ~c.targetOn
  <2>1. levels = <<>>
    BY <1>5 DEF Targets, levels, c, k, d
  <2>2. kept = <<>>
    BY <2>1 DEF RowTargets, kept, levels, c, k, d
  <2> QED
    BY <1>2, <1>4, <2>1, <2>2
<1>6. CASE o.mode \notin {"SCALPING", "EMA_TICK_SCALP"} /\ c.targetOn /\ c.multi /\ Len(multi) >= 2
  <2>1. levels = multi
    BY <1>6 DEF Targets, levels
  <2>2. c.volume >= 2
    BY <1>1, <1>6, TooSmallForTargets
  <2>3. SharesOut(d, k, levels, c.volume, end)
    BY <1>1, <1>6, <2>1, <2>2, MultiSharesOut
  <2>4. kept = MultiTargets(d, c, k, o.filled)
    BY <1>6, <2>1 DEF RowTargets, kept, levels
  <2>5. /\ levels # <<>> /\ at(Head(levels)) > 0 /\ shared(levels) = c.volume /\ Last(levels).price = end
        /\ Follow(levels)
    BY <1>3, <2>3
  <2>6. CASE o.filled < 2
    <3>1. kept = <<>>
      BY <1>1, <2>4, <2>6, TooSmallForTargets
    <3> QED
      BY <1>2, <1>4, <2>5, <3>1
  <2>7. CASE o.filled >= 2
    <3>1. SharesOut(d, k, kept, o.filled, end)
      BY <1>1, <1>6, <2>4, <2>7, MultiSharesOut
    <3>2. shared(kept) = o.filled /\ Last(kept).price = end /\ Follow(kept)
      BY <1>3, <3>1
    <3> QED
      BY <1>4, <2>5, <3>2
  <2> QED
    BY <1>1, <2>6, <2>7
<1>7. CASE o.mode \notin {"SCALPING", "EMA_TICK_SCALP"} /\ c.targetOn /\ ~(c.multi /\ Len(multi) >= 2)
  <2>1. levels = << [price |-> Ahead(d, k.entry, far), volume |-> c.volume] >>
    BY <1>7 DEF Targets, levels
  <2>2. far \in Int /\ far > 0
    <3>1. Setting(c.target) \in Int /\ Pip \in Nat /\ Pip > 0
      BY <1>1, EntryPlanAssumption, SettingIsInt DEF Counted
    <3>2. (k.atr * c.atrTarget) \div 10 \in Int /\ (c.target * Unit) \div 10 \in Int
      BY <1>1, EntryPlanAssumption DEF Counted, AllMarkets
    <3> QED
      BY <3>1, <3>2 DEF TargetDistance, MaxOf
  <2>3. SharesOut(d, k, levels, c.volume, Ahead(d, k.entry, far))
    <3> HIDE DEF far
    <3> QED
      BY <1>1, <2>1, <2>2, SingleSharesOut
  <2>4. kept = <<>>
    <3>1. Len(levels) = 1
      BY <2>1
    <3> QED
      BY <3>1 DEF RowTargets, kept, levels
  <2>5. at(Head(levels)) > 0 /\ shared(levels) = c.volume /\ Follow(levels)
    BY <1>3, <2>3
  <2> QED
    BY <1>2, <1>4, <2>4, <2>5
<1> QED
  BY <1>5, <1>6, <1>7

\* Whatever the strategy's settings, the market and the rules: a plan within these
\* conditions is one the broker takes and the row agrees with.
THEOREM EveryPlanTradable ==
  ASSUME NEW o, Plannable(o)
  PROVE  StopPlaced(o) /\ StopAttached(o) /\ TargetsShareOut(o) /\ SizeTaken(o)
  BY StopIsPlaced, StopIsAttached, TargetsAreShared, SizeIsTaken DEF Plannable

\* The rules of the run are whole in their steps.
LEMMA RulesAreWhole == ASSUME NEW r \in Rules PROVE Whole(r)
<1> DEFINE market(l, x, s, lot) == [least |-> l, most |-> x, step |-> s, lot |-> lot]
<1>1. PICK kind \in {"index", "metal"}, l \in {NoSize, 1, 10, 20, 1000}, x \in {NoSize, 500, 5000},
           s \in {NoSize, 1, 5, 10, 100}, lot \in {1, 5, 1000} :
         r = DealRules(kind, market(l, x, s, lot))
  BY DEF Rules
<1> DEFINE known == FallbackRules(kind)
           given == IF s # NoSize THEN s ELSE IF lot \in 1..l THEN lot ELSE l
           step == IF given > l THEN l ELSE given
           most == IF x > l THEN x ELSE LargestSize
<1>2. r = IF l = NoSize \/ l > 10 * known.least \/ step > 10 * known.step THEN known
          ELSE [least |-> l, step |-> step, most |-> most]
  BY <1>1 DEF DealRules
<1>3. known \in {[least |-> 1, most |-> 500000, step |-> 1], [least |-> 10, most |-> 500000, step |-> 10]}
  BY DEF FallbackRules, LargestSize
<1>4. Whole(known)
  <2>1. CASE known = [least |-> 1, most |-> 500000, step |-> 1]
    BY <2>1 DEF Whole, Precision
  <2>2. CASE known = [least |-> 10, most |-> 500000, step |-> 10]
    BY <2>2 DEF Whole, Precision
  <2> QED
    BY <1>3, <2>1, <2>2
<1>5. l > 10 * known.least \/ l \in {NoSize, 1, 10, 20}
  BY <1>3
<1>6. ASSUME l \in {1, 10, 20} PROVE Whole([least |-> l, step |-> step, most |-> most])
  <2> DEFINE fits(a, b) == [least |-> a, step |-> b, most |-> most]
  <2>1. most \in {500, 5000, 500000}
    BY <1>6 DEF NoSize, LargestSize
  <2>2. /\ l = 1 => step = 1
        /\ l = 10 => step \in {1, 5, 10}
        /\ l = 20 => step \in {1, 5, 10, 20}
    BY DEF NoSize
  <2> HIDE DEF step, most
  <2>3. ASSUME NEW a \in {1, 10, 20}, NEW b \in {1, 5, 10, 20}, b <= a, a % b = 0
        PROVE  Whole(fits(a, b))
    <3>1. CASE most = 500
      BY <2>3, <3>1 DEF Whole, Precision
    <3>2. CASE most = 5000
      BY <2>3, <3>2 DEF Whole, Precision
    <3>3. CASE most = 500000
      BY <2>3, <3>3 DEF Whole, Precision
    <3> QED
      BY <2>1, <3>1, <3>2, <3>3
  <2>4. step \in {1, 5, 10, 20} /\ step <= l /\ l % step = 0
    BY <1>6, <2>2
  <2> QED
    BY <1>6, <2>3, <2>4
<1> HIDE DEF known, step, most
<1> QED
  BY <1>2, <1>4, <1>5, <1>6

\* The settings, the markets and the rules of the run are those of such orders, on
\* an instrument whose pip and unit leave a stop below its prices.
LEMMA OrdersArePlannable ==
  ASSUME Pip <= 90, Unit <= 1500, NEW o \in PlanOrders \cup TargetOrders \cup SizeOrders
  PROVE  Plannable(o)
<1> DEFINE Fills == {1985, 2000, 2010}
           C == BlankOrder.c
           K == BlankOrder.k
           Fair(c) == /\ Counted(c) /\ c.count \in {2, 3} /\ c.atrTarget = 22 /\ c.atrStop = 10
                      /\ c.stop \in {NotSet, 5, 30}
<1>1. /\ o.mode \in {"SCALPING", "EMA_TICK_SCALP", "TREND"} /\ o.dir \in Directions /\ o.fill \in Fills
      /\ o.mark \in Int /\ o.filled \in Int /\ o.raw \in Int
      /\ Fair(o.c) /\ o.k \in Markets /\ Whole(o.rules)
  <2>1. Fair(C) /\ K \in Markets /\ "BUY" \in Directions
    BY DEF BlankOrder, Counted, Markets, NotSet, Directions
  <2>2. Whole(FallbackRules("index"))
    BY DEF FallbackRules, LargestSize, Whole, Precision
  <2>3. /\ BlankOrder.mode = "TREND" /\ BlankOrder.dir = "BUY" /\ BlankOrder.fill = 2000
        /\ BlankOrder.mark = 2000 /\ BlankOrder.filled = 7 /\ BlankOrder.raw = 10
        /\ BlankOrder.rules = FallbackRules("index")
        /\ DOMAIN BlankOrder = {"mode", "dir", "fill", "mark", "filled", "c", "k", "rules", "raw"}
    BY DEF BlankOrder
  <2>4. CASE o \in PlanOrders
    <3>1. PICK m \in {"SCALPING", "EMA_TICK_SCALP", "TREND"}, d \in Directions, k \in Markets,
               f \in Fills, x \in {1700, 1900, 1960, 2000, 2040, 2300}, s \in {NotSet, 5, 30} :
             o = PlanOrder(m, d, k, f, x, s)
      BY <2>4 DEF PlanOrders
    <3>2. /\ o.mode = m /\ o.dir = d /\ o.k = k /\ o.fill = f /\ o.mark = x
          /\ o.filled = 7 /\ o.raw = 10 /\ o.rules = FallbackRules("index")
          /\ o.c = [C EXCEPT !.stop = s, !.breakEven = 5]
      BY <2>3, <3>1 DEF PlanOrder
    <3>3. Fair([C EXCEPT !.stop = s, !.breakEven = 5])
      <4>1. DOMAIN C = {"stop", "target", "atrStop", "atrTarget", "tenSeconds", "targetOn", "multi", "count",
                        "volume", "breakEvenOn", "breakEven", "offset", "trailOn", "trail"}
        BY DEF BlankOrder
      <4>2. s \in Int
        BY DEF NotSet
      <4> HIDE DEF C
      <4>3. ASSUME NEW g, g = [C EXCEPT !.stop = s, !.breakEven = 5]
            PROVE  /\ g.stop = s /\ g.target = C.target /\ g.atrStop = C.atrStop
                   /\ g.atrTarget = C.atrTarget /\ g.volume = C.volume /\ g.count = C.count
        BY <4>1, <4>3
      <4> QED
        BY <2>1, <4>2, <4>3 DEF Counted
    <3> QED
      BY <2>2, <3>2, <3>3
  <2>5. CASE o \in TargetOrders
    <3>1. PICK d \in Directions, a \in {30, 300}, f \in {1, 2, 7}, c \in Settings : o = TargetOrder(d, a, f, c)
      BY <2>5 DEF TargetOrders
    <3>2. /\ o.mode = "TREND" /\ o.dir = d /\ o.k = [K EXCEPT !.atr = a] /\ o.fill = 2000 /\ o.mark = 2000
          /\ o.filled = f /\ o.raw = 10 /\ o.rules = FallbackRules("index") /\ o.c = c
      BY <2>3, <3>1 DEF TargetOrder
    <3>3. [K EXCEPT !.atr = a] \in Markets
      <4> HIDE DEF K
      <4> QED
        BY <2>1 DEF Markets
    <3>4. Fair(c)
      BY DEF Settings, Counted, NotSet
    <3> QED
      BY <2>2, <3>2, <3>3, <3>4
  <2>6. CASE o \in SizeOrders
    <3>1. PICK r \in Rules, v \in {0, 1, 7, 10, 54, 499, 501, 1001} : o = SizeOrder(r, v)
      BY <2>6 DEF SizeOrders
    <3>2. /\ o.mode = "TREND" /\ o.dir = "BUY" /\ o.k = K /\ o.fill = 2000 /\ o.mark = 2000
          /\ o.filled = 7 /\ o.raw = v /\ o.rules = r /\ o.c = C
      BY <2>3, <3>1 DEF SizeOrder
    <3>3. Whole(r)
      BY RulesAreWhole
    <3> QED
      BY <2>1, <3>2, <3>3
  <2> QED
    BY <2>4, <2>5, <2>6
<1>2. /\ o.k \in AllMarkets /\ o.k.entry = 2000 /\ o.k.atr \in {30, 300} /\ o.k.ema3 \in {1900, 1990, 2050}
      /\ o.k.prevLow \in {1950, 1995} /\ Counted(o.c) /\ o.c.count \in {2, 3}
      /\ o.c.atrTarget = 22 /\ o.c.atrStop = 10 /\ o.c.stop \in {NotSet, 5, 30}
  <2>1. ASSUME NEW k \in Markets
        PROVE  /\ k \in AllMarkets /\ k.entry = 2000 /\ k.atr \in {30, 300}
               /\ k.ema3 \in {1900, 1990, 2050} /\ k.prevLow \in {1950, 1995}
    BY DEF Markets, AllMarkets
  <2> QED
    BY <1>1, <2>1
<1>3. Pip \in Nat \ {0} /\ Unit \in Nat \ {0} /\ LeastStop = 2 * Pip
  BY EntryPlanAssumption DEF LeastStop
<1>4. Spread(o)
  <2>1. (o.k.atr * 22) \div 10 >= 66 /\ (o.k.atr * 22) \div 10 \in Int /\ Unit \div 100 \in Int
    BY <1>2, <1>3
  <2>2. MaxOf(22, 1) = 22
    BY DEF MaxOf
  <2>3. Reach(o.c, o.k) >= 66
    BY <1>2, <2>1, <2>2 DEF Reach, MaxOf
  <2>4. Reach(o.c, o.k) \in Int
    BY <1>2, <2>1, <2>2 DEF Reach, MaxOf
  <2>5. o.c.count <= Reach(o.c, o.k)
    BY <1>2, <2>3, <2>4
  <2> QED
    BY <1>1, <1>2, <2>5 DEF Spread
<1>5. ASSUME o.mode # "SCALPING", o.dir = "BUY"
      PROVE  LET far == StopDistance(o.mode, o.dir, o.c, o.k)
             IN  far < o.k.entry /\ 5 * far < 2 * o.fill
  <2> DEFINE far == StopDistance(o.mode, o.dir, o.c, o.k)
  <2>1. far \in Int /\ far <= 750
    <3>1. CASE o.mode = "EMA_TICK_SCALP"
      <4>1. far = MaxOf(2000 - MinOf(MinOf(o.k.ema3, o.k.prevLow), 2000 - 2 * Pip), 2 * Pip)
        BY <1>2, <1>3, <1>5, <3>1 DEF StopDistance, Favorable, Farther, EmaStop, Behind
      <4> HIDE DEF far
      <4> QED
        BY <1>2, <1>3, <4>1, SMTT(30) DEF MinOf, MaxOf
    <3>2. CASE o.mode = "TREND"
      <4>1. far = MaxOf(2 * Pip, IF o.c.stop # NotSet THEN Setting(o.c.stop)
                                 ELSE MaxOf((o.k.atr * 10) \div 10, (2000 * 65) \div 100000))
        BY <1>2, <1>3, <3>2 DEF StopDistance
      <4>2. Setting(5) \in Int /\ Setting(5) <= 750 /\ Setting(30) \in Int /\ Setting(30) <= 270
        BY <1>3 DEF Setting
      <4>3. MaxOf((o.k.atr * 10) \div 10, (2000 * 65) \div 100000) \in {30, 300}
        BY <1>2 DEF MaxOf
      <4> HIDE DEF far
      <4> QED
        BY <1>2, <1>3, <4>1, <4>2, <4>3, SMTT(30) DEF MaxOf
    <3> QED
      BY <1>1, <1>5, <3>1, <3>2
  <2> HIDE DEF far
  <2> QED
    BY <1>1, <1>2, <2>1 DEF far
<1>6. Affordable(o)
  <2>1. 2000 \div 10 = 200 /\ o.fill \div 10 >= 198 /\ o.fill \div 10 \in Int
    BY <1>1
  <2>2. LeastStop <= o.k.entry \div 10 /\ 2 * LeastStop + 3 * (o.k.entry \div 10) <= 5 * (o.fill \div 10)
    BY <1>2, <1>3, <2>1
  <2>3. o.k.entry \in Nat \ {0} /\ o.fill \in Nat \ {0}
    BY <1>1, <1>2
  <2> QED
    BY <1>1, <1>2, <1>5, <2>2, <2>3 DEF Affordable
<1> QED
  BY <1>1, <1>4, <1>6 DEF Plannable

\* The plans of the run are tradable.
LEMMA PlanIsTradableOn ==
  ASSUME Pip <= 90, Unit <= 1500, CaseInput
  PROVE  PlanIsTradable
<1> SUFFICES ASSUME order # NoOrder
             PROVE  StopPlaced(order) /\ StopAttached(order) /\ TargetsShareOut(order) /\ SizeTaken(order)
  BY DEF PlanIsTradable
<1>1. order \in PlanOrders \cup TargetOrders \cup SizeOrders
  BY DEF CaseInput
<1>2. Plannable(order)
  BY <1>1, OrdersArePlannable
<1> QED
  BY <1>2, EveryPlanTradable

\* What the runtime sends with an entry on an instrument of the run's price level,
\* the broker takes, and the row that is written after the fill agrees with it.
THEOREM PlansAreTradable ==
  ASSUME Pip <= 90, Unit <= 1500
  PROVE  CasesSpec => []PlanIsTradable
<1>1. CaseInput => PlanIsTradable
  BY PlanIsTradableOn
<1> QED
  BY <1>1, CasesInitInput, StepCaseInput, PTL DEF CasesSpec
=============================================================================
