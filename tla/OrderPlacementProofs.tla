------------------------ MODULE OrderPlacementProofs ------------------------
(***************************************************************************)
(* Proofs about OrderPlacement for any sets of requests and calls, any     *)
(* assignment of calls to requests and any number of crashes.              *)
(***************************************************************************)
EXTENDS OrderPlacement, FiniteSetTheorems, TLAPS

\* The steps from creating the order row to reading the broker's answer.
Placing == {"mark", "send", "wait"}

\* Why a request is executed once: the call that created its row is the only
\* one that goes on, and the request is sent when it has not been executed.
RowOwned ==
  \A c \in Calls : pc[c] \in Placing => order[RequestOf[c]].status # "none"

OneOwner ==
  \A c, d \in Calls :
    pc[c] \in Placing /\ pc[d] \in Placing /\ RequestOf[c] = RequestOf[d] => c = d

UnsentUntouched ==
  \A c \in Calls :
    pc[c] \in {"mark", "send"} => /\ executions[RequestOf[c]] = 0
                                  /\ RequestOf[c] \notin inbox

SentUnexecuted ==
  \A r \in inbox : executions[r] = 0 /\ order[r].status # "none"

IInv ==
  /\ TypeOK /\ RowOwned /\ OneOwner /\ UnsentUntouched /\ SentUnexecuted
  /\ OneExecutionPerRequest

\* An update of an order row, with its new status and broker id, is a row.
LEMMA UpdatedIsRow ==
  ASSUME NEW o \in OrderRow, NEW s \in Statuses, NEW id \in BOOLEAN
  PROVE  Updated(o, s, id) \in OrderRow
  BY DEF Updated, OrderRow, Old

\* So does setting a status keep the table of orders a table of rows.
LEMMA KeepsRows ==
  ASSUME order \in [Requests -> OrderRow], NEW r \in Requests, NEW s \in Statuses,
         SetStatus(r, s)
  PROVE  order' \in [Requests -> OrderRow]
<1>1. order[r] \in OrderRow /\ order[r].brokerId \in BOOLEAN
  BY DEF OrderRow
<1>2. Updated(order[r], s, order[r].brokerId) \in OrderRow
  BY <1>1, UpdatedIsRow
<1> QED
  BY <1>2 DEF SetStatus

\* And so does the passing of time.
LEMMA AgedIsRow ==
  ASSUME NEW o \in OrderRow
  PROVE  Aged(o) \in OrderRow
<1>1. \A age \in 0..Old : Older(age) \in 0..Old
  BY DEF Older, Old
<1>2. 0 \in 0..Old
  BY DEF Old
<1> QED
  BY <1>1, <1>2 DEF Aged, OrderRow

\* The initial states are well typed.
LEMMA InitType == Init => TypeOK
  BY PlacementAssumption DEF Init, TypeOK, Steps, OrderRow, NoOrder, Statuses, InFlightStatus,
     Answers, Old

\* Every variable keeps its type whatever step is taken.
LEMMA StepType == TypeOK /\ [Next]_vars => TypeOK'
<1> SUFFICES ASSUME TypeOK, [Next]_vars PROVE TypeOK'
  OBVIOUS
<1> USE PlacementAssumption DEF TypeOK, faults
<1>1. ASSUME NEW c \in Calls, Start(c) PROVE TypeOK'
  BY <1>1 DEF Start, Goto, At, broker, Steps
<1>2. ASSUME NEW c \in Calls, FindExisting(c) PROVE TypeOK'
  BY <1>2 DEF FindExisting, Goto, At, broker, Steps
<1>3. ASSUME NEW c \in Calls, ReadAccount(c) PROVE TypeOK'
  BY <1>3 DEF ReadAccount, Goto, At, broker, Steps
<1>4. ASSUME NEW c \in Calls,
             BeltPositions(c) \/ BeltInFlight(c) \/ BeltOrphan(c) \/ BeltBackoff(c) \/ BeltLive(c)
      PROVE TypeOK'
  BY <1>4 DEF BeltPositions, BeltInFlight, BeltOrphan, BeltBackoff, BeltLive, Belt, Goto, At,
     broker, Steps
<1>5. ASSUME NEW c \in Calls, Checks(c) PROVE TypeOK'
  BY <1>5 DEF Checks, Goto, At, broker, Steps
<1>6. ASSUME NEW c \in Calls, CreateOrder(c) PROVE TypeOK'
  <2>1. Updated(NoOrder, "VALIDATING", FALSE) \in OrderRow
    BY DEF Updated, NoOrder, OrderRow, Statuses, InFlightStatus, Old
  <2>2. order' \in [Requests -> OrderRow]
    BY <1>6, <2>1 DEF CreateOrder
  <2> QED
    BY <1>6, <2>2 DEF CreateOrder, Goto, At, broker, Steps
<1>7. ASSUME NEW c \in Calls, MarkSent(c) PROVE TypeOK'
  <2>1. RequestOf[c] \in Requests /\ "SENT" \in Statuses
    BY DEF Statuses, InFlightStatus
  <2>2. order' \in [Requests -> OrderRow]
    BY <1>7, <2>1, KeepsRows DEF MarkSent
  <2> QED
    BY <1>7, <2>2 DEF MarkSent, Goto, At, broker, Steps
<1>8. ASSUME NEW c \in Calls, Send(c) PROVE TypeOK'
  BY <1>8 DEF Send, Goto, At, Steps
<1>9. ASSUME NEW c \in Calls, RecordAnswer(c) PROVE TypeOK'
  <2> DEFINE r == RequestOf[c]
  <2>1. r \in Requests /\ order[r] \in OrderRow /\ {"REJECTED", "FILLED"} \subseteq Statuses
    BY DEF Statuses
  <2>2. Updated(order[r], "REJECTED", answer[r] = "rejected") \in OrderRow
    BY <2>1, UpdatedIsRow
  <2>3. Updated(order[r], "FILLED", TRUE) \in OrderRow
    BY <2>1, UpdatedIsRow
  <2>4. \/ order' = order
        \/ order' = [order EXCEPT ![r] = Updated(order[r], "REJECTED", answer[r] = "rejected")]
        \/ order' = [order EXCEPT ![r] = Updated(order[r], "FILLED", TRUE)]
    BY <1>9 DEF RecordAnswer
  <2>5. order \in [Requests -> OrderRow]
    OBVIOUS
  <2>6. order' \in [Requests -> OrderRow]
    <3> HIDE DEF TypeOK, r
    <3> QED
      BY <2>2, <2>3, <2>4, <2>5
  <2> QED
    BY <1>9, <2>6 DEF RecordAnswer, Goto, At, Steps, Answers
<1>10. ASSUME NEW c \in Calls, CreatePosition(c) PROVE TypeOK'
  BY <1>10 DEF CreatePosition, Goto, At, broker, Steps
<1>11. ASSUME NEW r \in Requests, RequestCancel(r) \/ FinishCancel(r) PROVE TypeOK'
  <2>1. {"CANCEL_REQUESTED", "CANCELLED"} \subseteq Statuses
    BY DEF Statuses
  <2>2. order' \in [Requests -> OrderRow]
    BY <1>11, <2>1, KeepsRows DEF RequestCancel, FinishCancel
  <2> QED
    BY <1>11, <2>2 DEF RequestCancel, FinishCancel, broker
<1>12. ASSUME NEW r \in Requests, BrokerExecutes(r) PROVE TypeOK'
  BY <1>12 DEF BrokerExecutes, Outcomes, Answers
<1>13. ASSUME NEW r \in Requests,
              WorkingOrderFills(r) \/ DealCloses(r) \/ SyncAdopts(r) \/ SyncCloses(r)
       PROVE TypeOK'
  BY <1>13 DEF WorkingOrderFills, DealCloses, SyncAdopts, SyncCloses, broker
<1>14. CASE ExpireStaleSentOrders
  <2>1. "REJECTED" \in Statuses
    BY DEF Statuses
  <2>2. \A r \in Requests : Updated(order[r], "REJECTED", order[r].brokerId) \in OrderRow
    BY <2>1, UpdatedIsRow DEF OrderRow
  <2> QED
    BY <1>14, <2>2 DEF ExpireStaleSentOrders, broker
<1>15. CASE Tick
  <2>1. \A r \in Requests : Aged(order[r]) \in OrderRow
    BY AgedIsRow
  <2> QED
    BY <1>15, <2>1 DEF Tick, broker
<1>16. CASE Crash
  BY <1>16 DEF Crash, Active, Steps, Answers
<1>17. CASE UNCHANGED vars
  BY <1>17 DEF vars
<1> QED
  BY <1>1, <1>2, <1>3, <1>4, <1>5, <1>6, <1>7, <1>8, <1>9, <1>10, <1>11, <1>12, <1>13,
     <1>14, <1>15, <1>16, <1>17 DEF Next, CallStep

\* The types of TypeOK hold for every instance: rows, calls, broker and answers.
THEOREM TypeCorrect == Spec => []TypeOK
  BY InitType, StepType, PTL DEF Spec

-----------------------------------------------------------------------------
\* The call that goes on is the one that created the row of its request.
LEMMA StepOwner == IInv /\ [Next]_vars => RowOwned' /\ OneOwner'
<1> SUFFICES ASSUME IInv, [Next]_vars PROVE RowOwned' /\ OneOwner'
  OBVIOUS
<1> USE PlacementAssumption DEF IInv, RowOwned, OneOwner, Placing
<1>0. TypeOK
  OBVIOUS
<1>1. ASSUME NEW c \in Calls, Start(c) PROVE RowOwned' /\ OneOwner'
  BY <1>0, <1>1 DEF TypeOK, Start, Goto, At
<1>2. ASSUME NEW c \in Calls,
             FindExisting(c) \/ ReadAccount(c) \/ BeltPositions(c) \/ BeltInFlight(c)
             \/ BeltOrphan(c) \/ BeltBackoff(c) \/ BeltLive(c) \/ Checks(c)
      PROVE RowOwned' /\ OneOwner'
  <2>1. order' = order
    BY <1>2 DEF FindExisting, ReadAccount, BeltPositions, BeltInFlight, BeltOrphan, BeltBackoff,
       BeltLive, Belt, Checks
  <2>2. \E s : s \notin Placing /\ pc' = [pc EXCEPT ![c] = s]
    BY <1>2 DEF FindExisting, ReadAccount, BeltPositions, BeltInFlight, BeltOrphan, BeltBackoff,
       BeltLive, Belt, Checks, Goto
  <2> QED
    BY <1>0, <2>1, <2>2 DEF TypeOK
<1>3. ASSUME NEW c \in Calls, CreateOrder(c) PROVE RowOwned' /\ OneOwner'
  <2> DEFINE r == RequestOf[c]
  <2>1. CASE order[r].status = "none"
    <3>1. \A d \in Calls : RequestOf[d] = r => pc[d] \notin Placing
      BY <2>1
    <3>2. order' = [order EXCEPT ![r] = Updated(NoOrder, "VALIDATING", FALSE)]
          /\ pc' = [pc EXCEPT ![c] = "mark"]
      BY <1>3, <2>1 DEF CreateOrder, Goto
    <3> QED
      BY <1>0, <3>1, <3>2 DEF TypeOK, Updated
  <2>2. CASE order[r].status # "none"
    BY <1>0, <1>3, <2>2 DEF TypeOK, CreateOrder, Goto
  <2> QED
    BY <2>1, <2>2
<1>4. ASSUME NEW c \in Calls, MarkSent(c) PROVE RowOwned' /\ OneOwner'
  BY <1>0, <1>4 DEF TypeOK, MarkSent, SetStatus, Updated, Goto, At
<1>5. ASSUME NEW c \in Calls, Send(c) PROVE RowOwned' /\ OneOwner'
  BY <1>0, <1>5 DEF TypeOK, Send, Goto, At
<1>6. ASSUME NEW c \in Calls, RecordAnswer(c) PROVE RowOwned' /\ OneOwner'
  <2>1. \A r \in Requests : order'[r].status = "none" => order[r].status = "none"
    BY <1>0, <1>6 DEF TypeOK, RecordAnswer, Updated
  <2>2. \E s : s \notin Placing /\ pc' = [pc EXCEPT ![c] = s]
    BY <1>6 DEF RecordAnswer, Goto
  <2> QED
    BY <1>0, <2>1, <2>2 DEF TypeOK
<1>7. ASSUME NEW c \in Calls, CreatePosition(c) PROVE RowOwned' /\ OneOwner'
  BY <1>0, <1>7 DEF TypeOK, CreatePosition, Goto, At
<1>8. ASSUME NEW r \in Requests, RequestCancel(r) \/ FinishCancel(r)
      PROVE RowOwned' /\ OneOwner'
  BY <1>0, <1>8 DEF TypeOK, RequestCancel, FinishCancel, SetStatus, Updated
<1>9. CASE ExpireStaleSentOrders
  BY <1>0, <1>9 DEF TypeOK, ExpireStaleSentOrders, Updated
<1>10. CASE Tick
  BY <1>0, <1>10 DEF TypeOK, Tick, Aged
<1>11. CASE Crash
  BY <1>0, <1>11 DEF TypeOK, Crash, Active
<1>12. ASSUME NEW r \in Requests,
              BrokerExecutes(r) \/ WorkingOrderFills(r) \/ DealCloses(r) \/ SyncAdopts(r)
              \/ SyncCloses(r)
       PROVE RowOwned' /\ OneOwner'
  <2>1. UNCHANGED <<pc, order>>
    BY <1>12 DEF BrokerExecutes, WorkingOrderFills, DealCloses, SyncAdopts, SyncCloses
  <2> QED
    BY <2>1
<1>13. CASE UNCHANGED vars
  BY <1>13 DEF vars
<1> QED
  BY <1>1, <1>2, <1>3, <1>4, <1>5, <1>6, <1>7, <1>8, <1>9, <1>10, <1>11, <1>12, <1>13
     DEF Next, CallStep

\* What the broker has been given, and how often it has executed it.
Counted == UnsentUntouched /\ SentUnexecuted /\ OneExecutionPerRequest

\* A step that leaves inbox and executions alone, brings no call to the steps
\* before sending and clears no order row keeps the count.
LEMMA QuietStep ==
  ASSUME IInv, UNCHANGED <<inbox, executions>>,
         \A r \in Requests : order'[r].status = "none" => order[r].status = "none",
         \A c \in Calls : pc'[c] \in {"mark", "send"} => pc[c] \in {"mark", "send"}
  PROVE  Counted'
  BY PlacementAssumption
     DEF Counted, IInv, TypeOK, UnsentUntouched, SentUnexecuted, OneExecutionPerRequest

\* A request reaches the broker unexecuted, is executed once and not sent again.
LEMMA StepCount == IInv /\ [Next]_vars => Counted'
<1> SUFFICES ASSUME IInv, [Next]_vars PROVE Counted'
  OBVIOUS
<1> USE PlacementAssumption
<1>0. TypeOK
  BY DEF IInv
<1>1. ASSUME NEW c \in Calls,
             Start(c) \/ FindExisting(c) \/ ReadAccount(c) \/ BeltPositions(c)
             \/ BeltInFlight(c) \/ BeltOrphan(c) \/ BeltBackoff(c) \/ BeltLive(c)
             \/ Checks(c) \/ CreatePosition(c)
      PROVE Counted'
  <2>1. UNCHANGED <<order, inbox, executions>>
    BY <1>1 DEF Start, FindExisting, ReadAccount, BeltPositions, BeltInFlight, BeltOrphan,
       BeltBackoff, BeltLive, Belt, Checks, CreatePosition, broker
  <2>2. \E s : s \notin {"mark", "send"} /\ pc' = [pc EXCEPT ![c] = s]
    BY <1>1 DEF Start, FindExisting, ReadAccount, BeltPositions, BeltInFlight, BeltOrphan,
       BeltBackoff, BeltLive, Belt, Checks, CreatePosition, Goto
  <2>3. \A d \in Calls : pc'[d] \in {"mark", "send"} => pc[d] \in {"mark", "send"}
    BY <1>0, <2>2 DEF TypeOK
  <2> QED
    BY <2>1, <2>3, QuietStep
<1>2. ASSUME NEW c \in Calls, CreateOrder(c) PROVE Counted'
  <2> DEFINE r == RequestOf[c]
  <2>1. UNCHANGED <<inbox, executions>>
    BY <1>2 DEF CreateOrder, broker
  <2>2. CASE order[r].status # "none"
    <3>1. order' = order /\ pc' = [pc EXCEPT ![c] = "over"]
      BY <1>2, <2>2 DEF CreateOrder, Goto
    <3>2. \A d \in Calls : pc'[d] \in {"mark", "send"} => pc[d] \in {"mark", "send"}
      BY <1>0, <3>1 DEF TypeOK
    <3> QED
      BY <2>1, <3>1, <3>2, QuietStep
  <2>3. CASE order[r].status = "none"
    <3>1. executions[r] = 0 /\ r \notin inbox
      BY <1>0, <2>3 DEF IInv, TypeOK, SentUnexecuted, OneExecutionPerRequest
    <3>2. /\ order' = [order EXCEPT ![r] = Updated(NoOrder, "VALIDATING", FALSE)]
          /\ pc' = [pc EXCEPT ![c] = "mark"]
      BY <1>2, <2>3 DEF CreateOrder, Goto
    <3>3. \A q \in Requests : order'[q].status = "none" => order[q].status = "none"
      BY <1>0, <3>2 DEF TypeOK, Updated
    <3>4. UnsentUntouched'
      BY <1>0, <2>1, <3>1, <3>2 DEF TypeOK, IInv, UnsentUntouched
    <3> QED
      BY <2>1, <3>3, <3>4 DEF Counted, IInv, TypeOK, SentUnexecuted, OneExecutionPerRequest
  <2> QED
    BY <2>2, <2>3
<1>3. ASSUME NEW c \in Calls, MarkSent(c) PROVE Counted'
  <2>1. UNCHANGED <<inbox, executions>>
    BY <1>3 DEF MarkSent, broker
  <2>2. \A q \in Requests : order'[q].status = "none" => order[q].status = "none"
    BY <1>0, <1>3 DEF TypeOK, MarkSent, SetStatus, Updated
  <2>3. \A d \in Calls : pc'[d] \in {"mark", "send"} => pc[d] \in {"mark", "send"}
    BY <1>0, <1>3 DEF TypeOK, MarkSent, At, Goto
  <2> QED
    BY <2>1, <2>2, <2>3, QuietStep
<1>4. ASSUME NEW c \in Calls, Send(c) PROVE Counted'
  <2> DEFINE r == RequestOf[c]
  <2>1. executions[r] = 0 /\ order[r].status # "none"
    BY <1>4 DEF Send, At, IInv, UnsentUntouched, RowOwned, Placing
  <2>2. \A d \in Calls : pc[d] \in {"mark", "send"} /\ RequestOf[d] = r => d = c
    BY <1>4 DEF Send, At, IInv, OneOwner, Placing
  <2>3. /\ UNCHANGED <<order, executions>>
        /\ inbox' = inbox \cup {r}
        /\ pc' = [pc EXCEPT ![c] = "wait"]
    BY <1>4 DEF Send, Goto
  <2>4. UnsentUntouched'
    BY <1>0, <2>2, <2>3 DEF TypeOK, IInv, UnsentUntouched
  <2> QED
    BY <2>1, <2>3, <2>4 DEF Counted, IInv, SentUnexecuted, OneExecutionPerRequest
<1>5. ASSUME NEW c \in Calls, RecordAnswer(c) PROVE Counted'
  <2>1. UNCHANGED <<inbox, executions>>
    BY <1>5 DEF RecordAnswer
  <2>2. \A q \in Requests : order'[q].status = "none" => order[q].status = "none"
    BY <1>0, <1>5 DEF TypeOK, RecordAnswer, Updated
  <2>3. \E s : s \notin {"mark", "send"} /\ pc' = [pc EXCEPT ![c] = s]
    BY <1>5 DEF RecordAnswer, Goto
  <2>4. \A d \in Calls : pc'[d] \in {"mark", "send"} => pc[d] \in {"mark", "send"}
    BY <1>0, <2>3 DEF TypeOK
  <2> QED
    BY <2>1, <2>2, <2>4, QuietStep
<1>6. ASSUME NEW r \in Requests, BrokerExecutes(r) PROVE Counted'
  <2>1. executions[r] = 0 /\ order[r].status # "none"
    BY <1>6 DEF BrokerExecutes, IInv, SentUnexecuted
  <2>2. /\ UNCHANGED <<pc, order>>
        /\ r \in inbox /\ inbox' = inbox \ {r}
        /\ executions' = [executions EXCEPT ![r] = @ + 1]
    BY <1>6 DEF BrokerExecutes
  <2>3. executions' = [executions EXCEPT ![r] = 1]
    BY <1>0, <2>1, <2>2 DEF TypeOK
  <2>4. UnsentUntouched'
    BY <1>0, <2>2, <2>3 DEF TypeOK, IInv, UnsentUntouched
  <2> QED
    BY <1>0, <2>1, <2>2, <2>3, <2>4
       DEF TypeOK, Counted, IInv, SentUnexecuted, OneExecutionPerRequest
<1>7. ASSUME NEW r \in Requests,
             RequestCancel(r) \/ FinishCancel(r) \/ WorkingOrderFills(r) \/ DealCloses(r)
             \/ SyncAdopts(r) \/ SyncCloses(r)
      PROVE Counted'
  <2>1. UNCHANGED <<pc, inbox, executions>>
    BY <1>7 DEF RequestCancel, FinishCancel, WorkingOrderFills, DealCloses, SyncAdopts,
       SyncCloses, broker
  <2>2. \A q \in Requests : order'[q].status = "none" => order[q].status = "none"
    BY <1>0, <1>7 DEF TypeOK, RequestCancel, FinishCancel, SetStatus, Updated,
       WorkingOrderFills, DealCloses, SyncAdopts, SyncCloses
  <2> QED
    BY <2>1, <2>2, QuietStep
<1>8. CASE ExpireStaleSentOrders
  <2>1. UNCHANGED <<pc, inbox, executions>>
    BY <1>8 DEF ExpireStaleSentOrders, broker
  <2>2. \A q \in Requests : order'[q].status = "none" => order[q].status = "none"
    BY <1>8 DEF ExpireStaleSentOrders, Updated
  <2> QED
    BY <2>1, <2>2, QuietStep
<1>9. CASE Tick
  <2>1. UNCHANGED <<pc, inbox, executions>>
    BY <1>9 DEF Tick, broker
  <2>2. \A q \in Requests : order'[q].status = "none" => order[q].status = "none"
    BY <1>9 DEF Tick, Aged
  <2> QED
    BY <2>1, <2>2, QuietStep
<1>10. CASE Crash
  <2>1. UNCHANGED <<order, inbox, executions>>
    BY <1>10 DEF Crash
  <2>2. \A d \in Calls : pc'[d] \in {"mark", "send"} => pc[d] \in {"mark", "send"}
    BY <1>10 DEF Crash, Active
  <2> QED
    BY <2>1, <2>2, QuietStep
<1>11. CASE UNCHANGED vars
  <2>1. UNCHANGED <<pc, order, inbox, executions>>
    BY <1>11 DEF vars
  <2> QED
    BY <2>1, QuietStep
<1> QED
  BY <1>1, <1>2, <1>3, <1>4, <1>5, <1>6, <1>7, <1>8, <1>9, <1>10, <1>11 DEF Next, CallStep

\* Initially nobody places anything and nothing is sent or executed.
LEMMA InitIInv == Init => IInv
<1> SUFFICES ASSUME Init PROVE IInv
  OBVIOUS
<1>1. TypeOK
  BY InitType
<1> QED
  BY <1>1, PlacementAssumption
     DEF Init, IInv, Placing, RowOwned, OneOwner, UnsentUntouched, SentUnexecuted,
         OneExecutionPerRequest

\* The conjunction is inductive.
LEMMA StepIInv == IInv /\ [Next]_vars => IInv'
  BY StepType, StepOwner, StepCount DEF IInv, Counted

\* However many calls submit a request, however they interleave with cancels,
\* sweeps, syncs and crashes, the broker executes it at most once, and only with
\* an order row to show for it.
THEOREM ExecutedOnce == Spec => []OneExecutionPerRequest
<1>1. IInv => OneExecutionPerRequest
  BY DEF IInv
<1> QED
  BY <1>1, InitIInv, StepIInv, PTL DEF Spec

-----------------------------------------------------------------------------
(***************************************************************************)
(* What an order row says of the broker.  Without crashes and lost answers *)
(* an in-flight market order has a call that will record its answer, and   *)
(* the sweep never reaches it, as the call is done before it is stale.     *)
(***************************************************************************)
Market == Requests \ Limits

Owned ==
  \A r \in Market : order[r].status \in InFlightStatus =>
    \E c \in Calls : RequestOf[c] = r /\ pc[c] \in Placing

OwnerInTime ==
  \A c \in Calls : pc[c] \in Placing => order[RequestOf[c]].created <= BrokerPatience

UpdatedSince ==
  \A r \in Requests : order[r].status \in InFlightStatus => order[r].updated <= order[r].created

AnswersTruthful ==
  \A r \in Market :
    /\ answer[r] # "none" => executions[r] = 1 /\ answer[r] # "pending"
    /\ answer[r] \in {"rejected", "threw"} => deal[r] # "open"

DealsExplained ==
  \A r \in Market : /\ deal[r] # "working"
                    /\ executions[r] = 0 => deal[r] = "none"

RejectedIsOver ==
  \A r \in Market : order[r].status = "REJECTED" => executions[r] = 1 /\ deal[r] # "open"

Faultless == crashes = 0 /\ losses = 0

Ages == OwnerInTime /\ UpdatedSince
Truth == Owned /\ AnswersTruthful /\ DealsExplained /\ RejectedIsOver
RInv == IInv /\ Ages /\ (Faultless => Truth)

\* The calls' steps before the order row exists, and the last one: they touch
\* neither the orders nor the broker and end outside Placing.
LEMMA AsideSteps ==
  ASSUME NEW c \in Calls,
         Start(c) \/ FindExisting(c) \/ ReadAccount(c) \/ BeltPositions(c)
         \/ BeltInFlight(c) \/ BeltOrphan(c) \/ BeltBackoff(c) \/ BeltLive(c)
         \/ Checks(c) \/ CreatePosition(c)
  PROVE  /\ UNCHANGED <<order, inbox, executions, deal, answer, crashes, losses>>
         /\ pc[c] \notin Placing
         /\ \E s : s \notin Placing /\ pc' = [pc EXCEPT ![c] = s]
  BY DEF Start, FindExisting, ReadAccount, BeltPositions, BeltInFlight, BeltOrphan, BeltBackoff,
     BeltLive, Belt, Checks, CreatePosition, Goto, At, broker, faults, Placing

\* A call is done with the broker within BrokerPatience of creating its row.
LEMMA StepAges == RInv /\ [Next]_vars => Ages'
<1> SUFFICES ASSUME RInv, [Next]_vars PROVE Ages'
  OBVIOUS
<1> USE PlacementAssumption DEF Ages, OwnerInTime, UpdatedSince
<1>0. TypeOK /\ OneOwner /\ RowOwned /\ OwnerInTime /\ UpdatedSince
  BY DEF RInv, IInv
<1>1. ASSUME NEW c \in Calls,
             Start(c) \/ FindExisting(c) \/ ReadAccount(c) \/ BeltPositions(c)
             \/ BeltInFlight(c) \/ BeltOrphan(c) \/ BeltBackoff(c) \/ BeltLive(c)
             \/ Checks(c) \/ CreatePosition(c)
      PROVE Ages'
  BY <1>0, <1>1, AsideSteps DEF TypeOK
<1>2. ASSUME NEW c \in Calls, CreateOrder(c) PROVE Ages'
  BY <1>0, <1>2 DEF TypeOK, CreateOrder, Goto, Updated, NoOrder, RowOwned, Placing
<1>3. ASSUME NEW c \in Calls, MarkSent(c) PROVE Ages'
  <2>1. \A r \in Requests : order[r].created \in 0..Old
    BY <1>0 DEF TypeOK, OrderRow
  <2> QED
    BY <1>0, <1>3, <2>1 DEF TypeOK, MarkSent, SetStatus, Updated, Goto, At, Placing, Old
<1>4. ASSUME NEW c \in Calls, Send(c) PROVE Ages'
  BY <1>0, <1>4 DEF TypeOK, Send, Goto, At, Placing
<1>5. ASSUME NEW c \in Calls, RecordAnswer(c) PROVE Ages'
  <2>1. \A r \in Requests :
          /\ order'[r].created = order[r].created
          /\ order'[r].status \in InFlightStatus => order'[r] = order[r]
    BY <1>0, <1>5 DEF TypeOK, RecordAnswer, Updated, InFlightStatus
  <2>2. \E s : s \notin Placing /\ pc' = [pc EXCEPT ![c] = s]
    BY <1>5 DEF RecordAnswer, Goto, Placing
  <2> QED
    BY <1>0, <2>1, <2>2 DEF TypeOK
<1>6. ASSUME NEW r \in Requests, RequestCancel(r) \/ FinishCancel(r) PROVE Ages'
  <2>1. pc' = pc /\ \A q \in Requests :
          /\ order'[q].created = order[q].created
          /\ order'[q].status \in InFlightStatus => order'[q] = order[q]
    BY <1>0, <1>6 DEF TypeOK, RequestCancel, FinishCancel, SetStatus, Updated, InFlightStatus
  <2> QED
    BY <1>0, <2>1 DEF TypeOK
<1>7. ASSUME NEW r \in Requests,
             BrokerExecutes(r) \/ WorkingOrderFills(r) \/ DealCloses(r) \/ SyncAdopts(r)
             \/ SyncCloses(r)
      PROVE Ages'
  <2>1. UNCHANGED <<pc, order>>
    BY <1>7 DEF BrokerExecutes, WorkingOrderFills, DealCloses, SyncAdopts, SyncCloses
  <2> QED
    BY <1>0, <2>1
<1>8. CASE ExpireStaleSentOrders
  <2>1. pc' = pc /\ \A q \in Requests :
          /\ order'[q].created = order[q].created
          /\ order'[q].status \in InFlightStatus => order'[q] = order[q]
    BY <1>0, <1>8 DEF TypeOK, ExpireStaleSentOrders, Updated, InFlightStatus
  <2> QED
    BY <1>0, <2>1 DEF TypeOK
<1>9. CASE Tick
  <2>1. \A r \in Requests : order[r].created \in 0..Old /\ order[r].updated \in 0..Old
    BY <1>0 DEF TypeOK, OrderRow
  <2>2. pc' = pc /\ order' = [r \in Requests |-> Aged(order[r])]
    BY <1>9 DEF Tick
  <2>3. \A m, n \in 0..Old : m <= n => Older(m) <= Older(n)
    BY DEF Older, Old
  <2>4. ASSUME NEW r \in Requests
        PROVE  /\ order'[r].status = order[r].status
               /\ order[r].status # "none" => order'[r].created = Older(order[r].created)
               /\ order[r].status \in InFlightStatus =>
                    order'[r].updated = Older(order[r].updated)
    BY <2>2 DEF Aged
  <2>5. ASSUME NEW r \in Requests, order'[r].status \in InFlightStatus
        PROVE  order'[r].updated <= order'[r].created
    <3>1. order[r].status \in InFlightStatus /\ order[r].status # "none"
      BY <2>4, <2>5 DEF InFlightStatus
    <3>2. order[r].updated <= order[r].created
      BY <1>0, <3>1
    <3> QED
      BY <2>1, <2>3, <2>4, <3>1, <3>2
  <2>6. ASSUME NEW c \in Calls, pc'[c] \in Placing
        PROVE  order'[RequestOf[c]].created <= BrokerPatience
    <3>1. RequestOf[c] \in Requests /\ order[RequestOf[c]].created < BrokerPatience
      BY <1>9, <2>2, <2>6 DEF Tick, Placing
    <3>2. order[RequestOf[c]].status # "none"
      BY <1>0, <2>2, <2>6 DEF RowOwned
    <3>3. order'[RequestOf[c]].created = Older(order[RequestOf[c]].created)
      BY <2>4, <3>1, <3>2
    <3> QED
      BY <2>1, <3>1, <3>3 DEF Older, Old
  <2> QED
    BY <2>5, <2>6
<1>10. CASE Crash
  BY <1>0, <1>10 DEF TypeOK, Crash, Active, Placing
<1>11. CASE UNCHANGED vars
  BY <1>0, <1>11 DEF vars
<1> QED
  BY <1>1, <1>2, <1>3, <1>4, <1>5, <1>6, <1>7, <1>8, <1>9, <1>10, <1>11 DEF Next, CallStep

\* A step that touches neither orders nor broker and takes no call out of
\* Placing leaves the truth as it is.
LEMMA TruthKept ==
  ASSUME Truth, UNCHANGED <<order, executions, deal, answer>>,
         \A c \in Calls : pc[c] \in Placing => pc'[c] \in Placing
  PROVE  Truth'
  BY DEF Truth, Owned, AnswersTruthful, DealsExplained, RejectedIsOver, Market

\* In time: the sweep finds no market order that a call still waits for.
LEMMA NothingSwept ==
  ASSUME RInv, Faultless, BrokerPatience <= StaleAge, NEW r \in Market
  PROVE  ~Swept(r)
<1> SUFFICES ASSUME Swept(r) PROVE FALSE
  OBVIOUS
<1>1. r \in Requests /\ order[r].status \in InFlightStatus /\ order[r].updated > StaleAge
  BY DEF Swept, Market
<1>2. PICK c \in Calls : RequestOf[c] = r /\ pc[c] \in Placing
  BY <1>1 DEF RInv, Truth, Owned
<1>3. order[r].created <= BrokerPatience /\ order[r].updated <= order[r].created
  BY <1>1, <1>2 DEF RInv, Ages, OwnerInTime, UpdatedSince
<1>4. order[r].created \in 0..Old /\ order[r].updated \in 0..Old
  BY <1>1 DEF RInv, IInv, TypeOK, OrderRow
<1> QED
  BY <1>1, <1>3, <1>4, PlacementAssumption DEF StaleAge, Old

\* Without faults and with answers in time, what the rows say stays true.
LEMMA StepTruth ==
  ASSUME RInv, [Next]_vars, Faultless, Faultless', BrokerPatience <= StaleAge
  PROVE  Truth'
<1> USE PlacementAssumption
<1>0. TypeOK /\ IInv /\ Truth /\ (\A r \in Market : r \in Requests)
  BY DEF RInv, IInv, Market
<1>1. ASSUME NEW c \in Calls,
             Start(c) \/ FindExisting(c) \/ ReadAccount(c) \/ BeltPositions(c)
             \/ BeltInFlight(c) \/ BeltOrphan(c) \/ BeltBackoff(c) \/ BeltLive(c)
             \/ Checks(c) \/ CreatePosition(c)
      PROVE Truth'
  <2>1. /\ UNCHANGED <<order, executions, deal, answer>>
        /\ pc[c] \notin Placing
        /\ \E s : s \notin Placing /\ pc' = [pc EXCEPT ![c] = s]
    BY <1>1, AsideSteps
  <2>2. \A d \in Calls : pc[d] \in Placing => pc'[d] \in Placing
    BY <1>0, <2>1 DEF TypeOK
  <2> QED
    BY <1>0, <2>1, <2>2, TruthKept
<1>2. ASSUME NEW c \in Calls, CreateOrder(c) PROVE Truth'
  <2> DEFINE r == RequestOf[c]
  <2>1. UNCHANGED <<executions, deal, answer>>
    BY <1>2 DEF CreateOrder, broker
  <2>2. pc[c] \notin Placing /\ \A d \in Calls : pc[d] \in Placing => pc'[d] \in Placing
    BY <1>0, <1>2 DEF TypeOK, CreateOrder, At, Goto, Placing
  <2>3. CASE order[r].status # "none"
    BY <1>0, <1>2, <2>1, <2>2, <2>3, TruthKept DEF CreateOrder
  <2>4. CASE order[r].status = "none"
    <3>1. /\ order' = [order EXCEPT ![r] = Updated(NoOrder, "VALIDATING", FALSE)]
          /\ pc' = [pc EXCEPT ![c] = "mark"]
      BY <1>2, <2>4 DEF CreateOrder, Goto
    <3>2. r \in Requests /\ order'[r].status = "VALIDATING" /\ pc'[c] \in Placing
      BY <1>0, <3>1 DEF TypeOK, Updated, Placing
    <3>3. \A q \in Requests \ {r} : order'[q] = order[q]
      BY <1>0, <3>1 DEF TypeOK
    <3> QED
      BY <1>0, <2>1, <2>2, <3>2, <3>3
         DEF Truth, Owned, AnswersTruthful, DealsExplained, RejectedIsOver, Market
  <2> QED
    BY <2>3, <2>4
<1>3. ASSUME NEW c \in Calls, MarkSent(c) PROVE Truth'
  <2> DEFINE r == RequestOf[c]
  <2>1. /\ UNCHANGED <<executions, deal, answer>>
        /\ pc' = [pc EXCEPT ![c] = "send"]
        /\ pc[c] \in Placing
    BY <1>3 DEF MarkSent, broker, At, Goto, Placing
  <2>2. \A d \in Calls : pc[d] \in Placing => pc'[d] \in Placing
    BY <1>0, <2>1 DEF TypeOK, Placing
  <2>3. r \in Requests /\ order'[r].status = "SENT"
        /\ \A q \in Requests \ {r} : order'[q] = order[q]
    BY <1>0, <1>3 DEF TypeOK, MarkSent, SetStatus, Updated
  <2> QED
    BY <1>0, <2>1, <2>2, <2>3
       DEF Truth, Owned, AnswersTruthful, DealsExplained, RejectedIsOver, Market
<1>4. ASSUME NEW c \in Calls, Send(c) PROVE Truth'
  <2>1. \A d \in Calls : pc[d] \in Placing => pc'[d] \in Placing
    BY <1>0, <1>4 DEF TypeOK, Send, Goto, Placing
  <2> QED
    BY <1>0, <1>4, <2>1, TruthKept DEF Send
<1>5. ASSUME NEW c \in Calls, RecordAnswer(c) PROVE Truth'
  <2> DEFINE r == RequestOf[c]
  <2>1. /\ r \in Requests /\ answer[r] # "none"
        /\ UNCHANGED <<executions, deal>>
        /\ answer' = [answer EXCEPT ![r] = "none"]
        /\ \A q \in Requests \ {r} : order'[q] = order[q]
    BY <1>0, <1>5 DEF TypeOK, RecordAnswer
  <2>2. \E s : pc' = [pc EXCEPT ![c] = s]
    BY <1>5 DEF RecordAnswer, Goto
  <2>3. \A d \in Calls : RequestOf[d] # r /\ pc[d] \in Placing => pc'[d] \in Placing
    BY <1>0, <2>2 DEF TypeOK
  <2>4. r \in Market => \/ order'[r].status = "FILLED"
                        \/ /\ order'[r].status = "REJECTED"
                           /\ answer[r] \in {"rejected", "threw"}
    <3>1. r \in Market => answer[r] # "pending"
      BY <1>0, <2>1 DEF Truth, AnswersTruthful
    <3> QED
      BY <1>0, <1>5, <2>1, <3>1 DEF TypeOK, RecordAnswer, Updated
  <2>5. r \in Market => order'[r].status \notin InFlightStatus
    BY <2>4 DEF InFlightStatus
  <2>6. r \in Market => /\ executions[r] = 1
                        /\ order'[r].status = "REJECTED" => deal[r] # "open"
    BY <1>0, <2>1, <2>4 DEF Truth, AnswersTruthful
  <2>7. \A q \in Market : answer'[q] # "none" => answer'[q] = answer[q]
    BY <1>0, <2>1 DEF TypeOK
  <2>8. AnswersTruthful'
    BY <1>0, <2>1, <2>7 DEF Truth, AnswersTruthful, Market
  <2>9. Owned'
    BY <1>0, <2>1, <2>3, <2>5 DEF Truth, Owned, Market
  <2>10. DealsExplained' /\ RejectedIsOver'
    BY <1>0, <2>1, <2>6 DEF Truth, DealsExplained, RejectedIsOver, Market
  <2> QED
    BY <2>8, <2>9, <2>10 DEF Truth
<1>6. ASSUME NEW r \in Requests, RequestCancel(r) \/ FinishCancel(r) PROVE Truth'
  <2>1. /\ UNCHANGED <<pc, executions, answer>>
        /\ order'[r].status \in {"CANCEL_REQUESTED", "CANCELLED"}
        /\ \A q \in Requests \ {r} : order'[q] = order[q]
    BY <1>0, <1>6 DEF TypeOK, RequestCancel, FinishCancel, SetStatus, Updated, broker
  <2>2. \A q \in Market : deal'[q] = deal[q]
    BY <1>0, <1>6 DEF TypeOK, RequestCancel, FinishCancel, broker, Truth, DealsExplained
  <2>3. order'[r].status \notin InFlightStatus /\ order'[r].status # "REJECTED"
    BY <2>1 DEF InFlightStatus
  <2> QED
    BY <1>0, <2>1, <2>2, <2>3
       DEF Truth, Owned, AnswersTruthful, DealsExplained, RejectedIsOver, Market
<1>7. ASSUME NEW r \in Requests, BrokerExecutes(r) PROVE Truth'
  <2>1. /\ executions[r] = 0 /\ UNCHANGED <<pc, order>>
        /\ executions' = [executions EXCEPT ![r] = 1]
    <3>1. executions[r] = 0
      BY <1>0, <1>7 DEF IInv, BrokerExecutes, SentUnexecuted
    <3>2. UNCHANGED <<pc, order>> /\ executions' = [executions EXCEPT ![r] = @ + 1]
      BY <1>7 DEF BrokerExecutes
    <3> QED
      BY <1>0, <3>1, <3>2 DEF TypeOK
  <2>2. PICK o \in Outcomes(r) :
          /\ deal' = [deal EXCEPT ![r] = IF o[1] = "none" THEN @ ELSE o[1]]
          /\ answer' = [answer EXCEPT ![r] = IF \E c \in Calls : RequestOf[c] = r /\ At(c, "wait")
                                              THEN o[2] ELSE "none"]
          /\ o = <<"open", "threw">> => losses' = losses + 1
    BY <1>7 DEF BrokerExecutes
  <2>3. o # <<"open", "threw">>
    BY <1>0, <2>2 DEF Faultless, TypeOK
  <2>4. r \in Market => /\ o[2] # "pending" /\ o[1] \in {"none", "open"}
                        /\ o[2] \in {"rejected", "threw"} => o[1] = "none"
    BY <2>2, <2>3 DEF Outcomes, Market
  <2>5. r \in Market => deal[r] = "none" /\ order[r].status # "REJECTED"
    BY <1>0, <2>1 DEF Truth, DealsExplained, RejectedIsOver
  <2>6. r \in Market => /\ deal'[r] = o[1]
                        /\ answer'[r] \in {o[2], "none"}
    BY <1>0, <2>2, <2>5 DEF TypeOK
  <2>7. /\ executions'[r] = 1
        /\ \A q \in Requests \ {r} : /\ executions'[q] = executions[q]
                                     /\ deal'[q] = deal[q] /\ answer'[q] = answer[q]
    BY <1>0, <2>1, <2>2 DEF TypeOK
  <2>8. AnswersTruthful'
    BY <1>0, <2>4, <2>6, <2>7 DEF Truth, AnswersTruthful, Market
  <2>9. DealsExplained' /\ RejectedIsOver'
    BY <1>0, <2>1, <2>4, <2>5, <2>6, <2>7 DEF Truth, DealsExplained, RejectedIsOver, Market
  <2>10. Owned'
    BY <1>0, <2>1 DEF Truth, Owned, Market
  <2> QED
    BY <2>8, <2>9, <2>10 DEF Truth
<1>8. ASSUME NEW r \in Requests, WorkingOrderFills(r) \/ DealCloses(r) PROVE Truth'
  <2>1. UNCHANGED <<pc, order, executions, answer>>
    BY <1>8 DEF WorkingOrderFills, DealCloses
  <2>2. \A q \in Market : deal'[q] # deal[q] => deal'[q] = "gone" /\ executions[q] # 0
    <3>1. CASE WorkingOrderFills(r)
      BY <1>0, <3>1 DEF TypeOK, WorkingOrderFills, Truth, DealsExplained
    <3>2. CASE DealCloses(r)
      BY <1>0, <3>2 DEF TypeOK, DealCloses, Truth, DealsExplained
    <3> QED
      BY <1>8, <3>1, <3>2
  <2> QED
    BY <1>0, <2>1, <2>2
       DEF Truth, Owned, AnswersTruthful, DealsExplained, RejectedIsOver, Market
<1>9. ASSUME NEW r \in Requests, SyncAdopts(r) \/ SyncCloses(r) PROVE Truth'
  BY <1>0, <1>9, TruthKept DEF SyncAdopts, SyncCloses, broker
<1>10. CASE ExpireStaleSentOrders
  <2>1. UNCHANGED <<pc, executions, deal, answer>>
    BY <1>10 DEF ExpireStaleSentOrders, broker
  <2>2. \A q \in Market : order'[q] = order[q]
    BY <1>0, <1>10, NothingSwept DEF ExpireStaleSentOrders
  <2> QED
    BY <1>0, <2>1, <2>2
       DEF Truth, Owned, AnswersTruthful, DealsExplained, RejectedIsOver, Market
<1>11. CASE Tick
  <2>1. UNCHANGED <<pc, executions, deal, answer>>
    BY <1>11 DEF Tick, broker
  <2>2. \A q \in Market : order'[q].status = order[q].status
    BY <1>0, <1>11 DEF Tick, Aged
  <2> QED
    BY <1>0, <2>1, <2>2
       DEF Truth, Owned, AnswersTruthful, DealsExplained, RejectedIsOver, Market
<1>12. CASE Crash
  BY <1>0, <1>12 DEF Crash, Faultless, TypeOK
<1>13. CASE UNCHANGED vars
  BY <1>0, <1>13, TruthKept DEF vars
<1> QED
  BY <1>1, <1>2, <1>3, <1>4, <1>5, <1>6, <1>7, <1>8, <1>9, <1>10, <1>11, <1>12, <1>13
     DEF Next, CallStep

\* Faults are counted and never forgotten.
LEMMA FaultsGrow == TypeOK /\ [Next]_vars /\ Faultless' => Faultless
<1> SUFFICES ASSUME TypeOK, [Next]_vars, Faultless' PROVE Faultless
  OBVIOUS
<1>1. crashes \in Nat /\ losses \in Nat
  BY DEF TypeOK
<1>2. crashes' \in {crashes, crashes + 1} /\ losses' \in {losses, losses + 1}
  BY DEF Next, CallStep, Start, FindExisting, ReadAccount, BeltPositions, BeltInFlight,
     BeltOrphan, BeltBackoff, BeltLive, Belt, Checks, CreateOrder, MarkSent, Send, RecordAnswer,
     CreatePosition, RequestCancel, FinishCancel, BrokerExecutes, WorkingOrderFills, DealCloses,
     SyncAdopts, SyncCloses, ExpireStaleSentOrders, Tick, Crash, faults, vars
<1> QED
  BY <1>1, <1>2 DEF Faultless

\* Initially there are no rows, no deals and no answers.
LEMMA InitRInv == Init => RInv
<1> SUFFICES ASSUME Init PROVE RInv
  OBVIOUS
<1>1. IInv
  BY InitIInv
<1> QED
  BY <1>1, PlacementAssumption
     DEF Init, RInv, Ages, OwnerInTime, UpdatedSince, Truth, Owned, AnswersTruthful,
         DealsExplained, RejectedIsOver, Market, Placing, NoOrder, InFlightStatus

\* The conjunction is inductive when the broker answers before the sweep.
LEMMA StepRInv ==
  ASSUME RInv, [Next]_vars, BrokerPatience <= StaleAge
  PROVE  RInv'
<1>1. IInv' /\ Ages'
  BY StepIInv, StepAges DEF RInv
<1>2. Faultless' => Truth'
  BY FaultsGrow, StepTruth DEF RInv, IInv
<1> QED
  BY <1>1, <1>2 DEF RInv

\* As long as nothing crashed and no answer was lost, an order row that says
\* REJECTED is right: the broker holds no deal of that market order.  It needs
\* the broker to answer before the sweep gives the row up: BrokerPatience is
\* the time of the answer, StaleAge that of the sweep.
THEOREM RejectedIsTrue ==
  ASSUME BrokerPatience <= StaleAge
  PROVE  Spec => []RejectedMeansNothingAtBroker
<1>1. RInv /\ [Next]_vars => RInv'
  BY StepRInv
<1>2. RInv => RejectedMeansNothingAtBroker
  BY DEF RInv, Faultless, Truth, RejectedIsOver, RejectedMeansNothingAtBroker, Market
<1> QED
  BY <1>1, <1>2, InitRInv, PTL DEF Spec
-----------------------------------------------------------------------------
(***************************************************************************)
(* The belt of the bots.  One of their calls is under way at a time, and   *)
(* what it has read stays so until it sends.                               *)
(***************************************************************************)
OneBot == \A c, d \in Calls : Active(c) /\ Active(d) => c = d

\* A request on its way to the broker is in flight and young enough for the
\* in-flight check of the belt to see it.
Due(r) == r \in inbox \/ \E c \in Calls : pc[c] \in {"mark", "send"} /\ RequestOf[c] = r
DueIsSeen ==
  \A r \in Requests : Due(r) =>
    /\ order[r].status \in InFlightStatus /\ ~order[r].brokerId
    /\ order[r].created <= BrokerPatience

AnswerMeansExecuted == \A r \in Requests : answer[r] # "none" => executions[r] # 0

\* Behind the in-flight check nothing is on its way; behind the check of the
\* broker's book no deal is open either.
Cleared == {"checks", "create", "mark", "send"}
BeltHolds ==
  \A c \in Calls :
    /\ pc[c] \in {"beltOrphan", "beltBackoff", "beltLive"} \cup Cleared => inbox = {}
    /\ pc[c] \in Cleared => \A r \in Requests : deal[r] # "open"

\* At most one request is on its way or has an open deal, and none is working.
Exposed(r) == r \in inbox \/ deal[r] = "open"
OneExposed ==
  /\ \A r, s \in Requests : Exposed(r) /\ Exposed(s) => r = s
  /\ \A r \in Requests : deal[r] # "working"

BeltInv ==
  Bots = Requests => OneBot /\ DueIsSeen /\ AnswerMeansExecuted /\ BeltHolds /\ OneExposed

\* A call is the only one that moves, and only Start wakes one up, which it does
\* when no other is under way.
LEMMA StepOneBot ==
  ASSUME TypeOK, Bots = Requests, OneBot, [Next]_vars
  PROVE  OneBot'
<1>1. pc \in [Calls -> Steps] /\ \A c \in Calls : RequestOf[c] \in Bots
  BY PlacementAssumption DEF TypeOK
<1>2. ASSUME NEW c \in Calls, NEW s, pc' = [pc EXCEPT ![c] = s],
             Active(c) \/ \A d \in Calls : ~Active(d)
      PROVE  OneBot'
  BY <1>1, <1>2 DEF OneBot, Active
<1>3. ASSUME NEW c \in Calls, Start(c) PROVE OneBot'
  <2>1. \A d \in Calls : ~Active(d)
    BY <1>1, <1>3 DEF Start
  <2>2. pc' = [pc EXCEPT ![c] = "find"]
    BY <1>3 DEF Start, Goto
  <2> QED
    BY <1>2, <2>1, <2>2
<1>4. ASSUME NEW c \in Calls, CallStep(c) PROVE OneBot'
  <2>1. Active(c)
    BY <1>4 DEF CallStep, FindExisting, ReadAccount, BeltPositions, BeltInFlight, BeltOrphan, BeltBackoff,
                BeltLive, Belt, Checks, CreateOrder, MarkSent, Send, RecordAnswer, CreatePosition, At, Active
  <2>2. \E s : pc' = [pc EXCEPT ![c] = s]
    BY <1>4 DEF CallStep, FindExisting, ReadAccount, BeltPositions, BeltInFlight, BeltOrphan, BeltBackoff,
                BeltLive, Belt, Checks, CreateOrder, MarkSent, Send, RecordAnswer, CreatePosition, Goto
  <2> QED
    BY <1>2, <2>1, <2>2
<1>5. CASE Crash
  BY <1>1, <1>5 DEF Crash, OneBot, Active
<1>6. CASE UNCHANGED pc
  BY <1>6 DEF OneBot, Active
<1> QED
  BY <1>3, <1>4, <1>5, <1>6
     DEF Next, RequestCancel, FinishCancel, BrokerExecutes, WorkingOrderFills, DealCloses, SyncAdopts,
         SyncCloses, ExpireStaleSentOrders, Tick, vars

\* The parts of the invariant beside OneBot, where bots alone trade.
BeltParts == DueIsSeen /\ AnswerMeansExecuted /\ BeltHolds /\ OneExposed

\* A step that leaves the orders due and the broker alone and lets no call into a
\* part of the belt it has not earned.
LEMMA AsideBelt ==
  ASSUME TypeOK, BeltParts, UNCHANGED <<inbox, deal, answer, executions>>,
         \A r \in Requests : Due(r)' => Due(r) /\ order'[r] = order[r],
         \A c \in Calls : \/ pc'[c] \in {pc[c], "over"}
                          \/ /\ pc'[c] \in {"beltOrphan", "beltBackoff", "beltLive"} \cup Cleared => inbox = {}
                             /\ pc'[c] \in Cleared => \A r \in Requests : deal[r] # "open"
  PROVE  BeltParts'
<1>1. DueIsSeen'
  BY DEF BeltParts, DueIsSeen
<1>2. AnswerMeansExecuted' /\ OneExposed'
  BY DEF BeltParts, AnswerMeansExecuted, OneExposed, Exposed
<1>3. BeltHolds'
  <2> SUFFICES ASSUME NEW c \in Calls
               PROVE  /\ pc'[c] \in {"beltOrphan", "beltBackoff", "beltLive"} \cup Cleared => inbox = {}
                      /\ pc'[c] \in Cleared => \A r \in Requests : deal[r] # "open"
    BY DEF BeltHolds
  <2>1. CASE pc'[c] = pc[c]
    BY <2>1 DEF BeltParts, BeltHolds
  <2>2. CASE pc'[c] = "over"
    BY <2>2 DEF Cleared
  <2> QED
    BY <2>1, <2>2
<1> QED
  BY <1>1, <1>2, <1>3 DEF BeltParts

\* The five reads and the checks before and after them.
LEMMA BeltReads ==
  ASSUME TypeOK, Bots = Requests, BrokerPatience <= InFlightAge, BeltParts, NEW c \in Calls,
         Start(c) \/ FindExisting(c) \/ ReadAccount(c) \/ BeltPositions(c)
         \/ BeltInFlight(c) \/ BeltOrphan(c) \/ BeltBackoff(c) \/ BeltLive(c)
         \/ Checks(c) \/ CreatePosition(c)
  PROVE  BeltParts'
<1>1. /\ UNCHANGED <<order, inbox, executions, deal, answer, crashes, losses>>
      /\ pc[c] \notin Placing
  BY AsideSteps
<1>2. PICK s : s \notin Placing /\ pc' = [pc EXCEPT ![c] = s]
  BY AsideSteps
<1>3. pc'[c] = s /\ \A d \in Calls : d # c => pc'[d] = pc[d]
  BY <1>2 DEF TypeOK
<1>4. \A r \in Requests : Due(r)' => Due(r) /\ order'[r] = order[r]
  BY <1>1, <1>2, <1>3 DEF Due, Placing
<1>5. pc[c] = "beltInFlight" /\ s = "beltOrphan" => inbox = {}
  <2> SUFFICES ASSUME pc[c] = "beltInFlight", s = "beltOrphan", NEW r \in inbox PROVE FALSE
    OBVIOUS
  <2>1. BeltInFlight(c)
    BY DEF Start, FindExisting, ReadAccount, BeltPositions, BeltOrphan, BeltBackoff, BeltLive, Belt, Checks,
           CreatePosition, At
  <2>2. \A q \in Requests : ~(order[q].status \in InFlightStatus /\ order[q].created <= InFlightAge)
    BY <1>3, <2>1 DEF BeltInFlight, Belt, Goto, TypeOK
  <2>3. r \in Requests /\ Due(r)
    BY DEF TypeOK, Due
  <2>4. order[r].status \in InFlightStatus /\ order[r].created <= BrokerPatience
    BY <2>3 DEF BeltParts, DueIsSeen
  <2>5. order[r].created \in Nat
    BY <2>3 DEF TypeOK, OrderRow, Old
  <2> QED
    BY <2>2, <2>3, <2>4, <2>5, PlacementAssumption DEF InFlightAge
<1>6. pc[c] = "beltLive" /\ s = "checks" => \A r \in Requests : deal[r] # "open"
  <2> SUFFICES ASSUME pc[c] = "beltLive", s = "checks" PROVE \A r \in Requests : deal[r] # "open"
    OBVIOUS
  <2>1. BeltLive(c)
    BY DEF Start, FindExisting, ReadAccount, BeltPositions, BeltInFlight, BeltOrphan, BeltBackoff, Belt, Checks,
           CreatePosition, At
  <2>2. pc' = [pc EXCEPT ![c] = IF \E r \in Requests : deal[r] = "open" THEN "over" ELSE "checks"]
        \/ pc' = [pc EXCEPT ![c] = "over"]
    BY <2>1 DEF BeltLive, Belt, Goto
  <2> QED
    BY <1>3, <2>2 DEF TypeOK
<1>7. \/ s \in {"over", "find", "account", "beltPositions", "beltInFlight"}
      \/ <<pc[c], s>> \in {<<"beltInFlight", "beltOrphan">>, <<"beltOrphan", "beltBackoff">>,
                           <<"beltBackoff", "beltLive">>, <<"beltLive", "checks">>, <<"checks", "create">>}
  <2>1. RequestOf[c] \in Bots /\ pc \in [Calls -> Steps]
    BY PlacementAssumption DEF TypeOK
  <2>2. CASE Start(c) \/ FindExisting(c) \/ ReadAccount(c) \/ BeltPositions(c) \/ CreatePosition(c)
    BY <1>3, <2>1, <2>2 DEF Start, FindExisting, ReadAccount, BeltPositions, CreatePosition, Belt, Goto, At
  <2>3. CASE BeltInFlight(c) \/ BeltOrphan(c) \/ BeltBackoff(c) \/ BeltLive(c) \/ Checks(c)
    BY <1>3, <2>1, <2>3 DEF BeltInFlight, BeltOrphan, BeltBackoff, BeltLive, Checks, Belt, Goto, At
  <2> QED
    BY <2>2, <2>3
<1>8. \A d \in Calls : \/ pc'[d] \in {pc[d], "over"}
                       \/ /\ pc'[d] \in {"beltOrphan", "beltBackoff", "beltLive"} \cup Cleared => inbox = {}
                          /\ pc'[d] \in Cleared => \A r \in Requests : deal[r] # "open"
  <2>1. /\ s \in {"beltOrphan", "beltBackoff", "beltLive"} \cup Cleared => inbox = {}
        /\ s \in Cleared => \A r \in Requests : deal[r] # "open"
    BY <1>5, <1>6, <1>7 DEF BeltParts, BeltHolds, Cleared
  <2> QED
    BY <1>3, <2>1
<1> QED
  BY <1>1, <1>4, <1>8, AsideBelt

\* Creating the row, marking it, sending it and recording the answer: the call is
\* the only one under way, with nothing sent and no deal open until it sends.
LEMMA BeltPlaces ==
  ASSUME IInv, Bots = Requests, OneBot, BeltParts, NEW c \in Calls,
         CreateOrder(c) \/ MarkSent(c) \/ Send(c) \/ RecordAnswer(c)
  PROVE  BeltParts'
<1> DEFINE r == RequestOf[c]
<1>1. /\ r \in Requests /\ Active(c) /\ \A d \in Calls : Active(d) => d = c
      /\ TypeOK /\ pc \in [Calls -> Steps]
  BY PlacementAssumption DEF CreateOrder, MarkSent, Send, RecordAnswer, At, Active, OneBot, IInv, TypeOK
<1>2. \A d \in Calls : d # c => pc[d] \notin {"beltOrphan", "beltBackoff", "beltLive", "wait", "row"} \cup Cleared
  BY <1>1 DEF Active, Cleared
<1>3. BrokerPatience \in Nat /\ order \in [Requests -> OrderRow]
  BY <1>1, PlacementAssumption DEF TypeOK
<1>4. CASE CreateOrder(c) /\ order[r].status = "none"
  <2>1. /\ order' = [order EXCEPT ![r] = Updated(NoOrder, "VALIDATING", FALSE)]
        /\ pc' = [pc EXCEPT ![c] = "mark"] /\ UNCHANGED <<inbox, executions, deal, answer>>
    BY <1>4 DEF CreateOrder, Goto, broker
  <2>2. inbox = {} /\ \A q \in Requests : deal[q] # "open"
    BY <1>4 DEF CreateOrder, At, BeltParts, BeltHolds, Cleared
  <2>3. pc'[c] = "mark" /\ \A d \in Calls : d # c => pc'[d] = pc[d]
    BY <1>1, <2>1
  <2>4. \A q \in Requests : Due(q)' => q = r
    BY <1>2, <2>1, <2>2, <2>3 DEF Due, Cleared
  <2>5. order'[r] = Updated(NoOrder, "VALIDATING", FALSE)
    BY <1>1, <1>3, <2>1
  <2>6. order'[r].status \in InFlightStatus /\ ~order'[r].brokerId /\ order'[r].created <= BrokerPatience
    BY <1>3, <2>5 DEF Updated, NoOrder, InFlightStatus
  <2>7. DueIsSeen'
    BY <2>4, <2>6 DEF DueIsSeen
  <2>8. BeltHolds'
    BY <2>1, <2>2 DEF BeltHolds
  <2> QED
    BY <2>1, <2>7, <2>8 DEF BeltParts, AnswerMeansExecuted, OneExposed, Exposed
<1>5. CASE CreateOrder(c) /\ order[r].status # "none"
  <2>1. UNCHANGED <<order, inbox, executions, deal, answer>> /\ pc' = [pc EXCEPT ![c] = "over"]
    BY <1>5 DEF CreateOrder, Goto, broker
  <2>2. \A d \in Calls : pc'[d] \in {pc[d], "over"}
    BY <1>1, <2>1
  <2>3. \A q \in Requests : Due(q)' => Due(q) /\ order'[q] = order[q]
    BY <2>1, <2>2 DEF Due
  <2> QED
    BY <1>1, <2>1, <2>2, <2>3, AsideBelt
<1>6. CASE MarkSent(c)
  <2>1. /\ pc[c] = "mark" /\ pc' = [pc EXCEPT ![c] = "send"]
        /\ order' = [order EXCEPT ![r] = Updated(order[r], "SENT", order[r].brokerId)]
        /\ UNCHANGED <<inbox, executions, deal, answer>>
    BY <1>6 DEF MarkSent, SetStatus, At, Goto, broker
  <2>2. inbox = {} /\ \A q \in Requests : deal[q] # "open"
    BY <2>1 DEF BeltParts, BeltHolds, Cleared
  <2>3. pc'[c] = "send" /\ \A d \in Calls : d # c => pc'[d] = pc[d]
    BY <1>1, <2>1
  <2>4. \A q \in Requests : Due(q)' => q = r
    BY <1>2, <2>1, <2>2, <2>3 DEF Due, Cleared
  <2>5. ~order[r].brokerId /\ order[r].created <= BrokerPatience
    BY <1>1, <2>1 DEF BeltParts, DueIsSeen, Due
  <2>6. order'[r] = Updated(order[r], "SENT", order[r].brokerId)
    BY <1>1, <1>3, <2>1
  <2>7. order'[r].status \in InFlightStatus /\ ~order'[r].brokerId /\ order'[r].created <= BrokerPatience
    BY <2>5, <2>6 DEF Updated, InFlightStatus
  <2>8. DueIsSeen'
    BY <2>4, <2>7 DEF DueIsSeen
  <2>9. BeltHolds'
    BY <2>1, <2>2 DEF BeltHolds
  <2> QED
    BY <2>1, <2>8, <2>9 DEF BeltParts, AnswerMeansExecuted, OneExposed, Exposed
<1>7. CASE Send(c)
  <2>1. /\ pc[c] = "send" /\ pc' = [pc EXCEPT ![c] = "wait"] /\ inbox' = inbox \cup {r}
        /\ UNCHANGED <<order, executions, deal, answer>>
    BY <1>7 DEF Send, At, Goto
  <2>2. inbox' = {r} /\ \A q \in Requests : deal[q] # "open"
    BY <2>1 DEF BeltParts, BeltHolds, Cleared
  <2>3. pc'[c] = "wait" /\ \A d \in Calls : d # c => pc'[d] = pc[d]
    BY <1>1, <2>1
  <2>4. \A q \in Requests : Due(q)' => Due(q)
    BY <2>1, <2>2, <2>3 DEF Due
  <2>5. DueIsSeen'
    BY <2>1, <2>4 DEF BeltParts, DueIsSeen
  <2>6. BeltHolds'
    BY <1>2, <2>3 DEF BeltHolds, Cleared
  <2>7. OneExposed'
    BY <2>1, <2>2 DEF BeltParts, OneExposed, Exposed
  <2> QED
    BY <2>1, <2>5, <2>6, <2>7 DEF BeltParts, AnswerMeansExecuted
<1>8. CASE RecordAnswer(c)
  <2>1. /\ answer[r] # "none" /\ answer' = [answer EXCEPT ![r] = "none"]
        /\ UNCHANGED <<inbox, executions, deal>>
        /\ \A q \in Requests \ {r} : order'[q] = order[q]
    BY <1>1, <1>3, <1>8 DEF RecordAnswer
  <2>2. \E s \in {"over", "row"} : pc' = [pc EXCEPT ![c] = s]
    BY <1>8 DEF RecordAnswer, Goto
  <2>3. pc'[c] \in {"over", "row"} /\ \A d \in Calls : d # c => pc'[d] = pc[d]
    BY <1>1, <2>2
  <2>4. executions[r] # 0
    BY <1>1, <2>1 DEF BeltParts, AnswerMeansExecuted
  <2>5. ~Due(r)
    BY <2>4 DEF Due, IInv, SentUnexecuted, UnsentUntouched
  <2>6. \A q \in Requests : Due(q)' => Due(q)
    BY <2>1, <2>3 DEF Due
  <2>7. DueIsSeen'
    BY <2>1, <2>5, <2>6 DEF BeltParts, DueIsSeen
  <2>8. BeltHolds'
    BY <1>2, <2>3 DEF BeltHolds, Cleared
  <2>9. \A q \in Requests : answer'[q] # "none" => answer[q] # "none"
    BY <1>1, <2>1 DEF TypeOK
  <2> QED
    BY <2>1, <2>7, <2>8, <2>9 DEF BeltParts, AnswerMeansExecuted, OneExposed, Exposed
<1> QED
  BY <1>4, <1>5, <1>6, <1>7, <1>8

\* The broker executes the one request it has, so that its deal is the only one,
\* and no call is behind the in-flight check.
LEMMA BeltExecutes ==
  ASSUME IInv, Bots = Requests, BeltParts, NEW r \in Requests, BrokerExecutes(r)
  PROVE  BeltParts'
<1>1. /\ r \in inbox /\ inbox' = inbox \ {r} /\ UNCHANGED <<pc, order>>
      /\ executions' = [executions EXCEPT ![r] = @ + 1]
  BY DEF BrokerExecutes
<1>2. PICK o \in Outcomes(r) :
        /\ deal' = [deal EXCEPT ![r] = IF o[1] = "none" THEN @ ELSE o[1]]
        /\ answer' = [answer EXCEPT ![r] = IF \E c \in Calls : RequestOf[c] = r /\ At(c, "wait")
                                            THEN o[2] ELSE "none"]
  BY DEF BrokerExecutes
<1>3. r \notin Limits
  BY PlacementAssumption
<1>4. o[1] \in {"open", "none"}
  BY <1>2, <1>3 DEF Outcomes
<1>5. TypeOK /\ executions[r] = 0 /\ Exposed(r)
  BY <1>1 DEF IInv, SentUnexecuted, Exposed
<1>6. /\ executions'[r] # 0
      /\ \A q \in Requests : q # r =>
           executions'[q] = executions[q] /\ deal'[q] = deal[q] /\ answer'[q] = answer[q]
  BY <1>1, <1>2, <1>5 DEF TypeOK
<1>7. deal'[r] \in {deal[r], "open"}
  BY <1>2, <1>4, <1>5 DEF TypeOK
<1>8. \A c \in Calls : pc[c] \notin {"beltOrphan", "beltBackoff", "beltLive"} \cup Cleared
  BY <1>1 DEF BeltParts, BeltHolds
<1>9. BeltHolds'
  BY <1>1, <1>8 DEF BeltHolds
<1>10. AnswerMeansExecuted'
  BY <1>6 DEF BeltParts, AnswerMeansExecuted
<1>11. DueIsSeen'
  BY <1>1 DEF BeltParts, DueIsSeen, Due
<1>12. OneExposed'
  <2>1. \A q \in Requests : Exposed(q)' => q = r
    BY <1>1, <1>5, <1>6 DEF BeltParts, OneExposed, Exposed
  <2>2. \A q \in Requests : deal'[q] # "working"
    BY <1>6, <1>7 DEF BeltParts, OneExposed
  <2> QED
    BY <2>1, <2>2 DEF OneExposed
<1> QED
  BY <1>9, <1>10, <1>11, <1>12 DEF BeltParts

\* Time passes over no request that is due beyond the patience of the broker, and
\* the sweep does not reach one.
LEMMA BeltInTime ==
  ASSUME RInv, BrokerPatience <= InFlightAge, BeltParts, Tick \/ ExpireStaleSentOrders
  PROVE  BeltParts'
<1>1. TypeOK /\ RowOwned /\ UpdatedSince /\ BrokerPatience \in Nat
  BY PlacementAssumption DEF RInv, IInv, Ages
<1>2. \A r \in Requests : order[r].created \in 0..Old /\ order[r].updated \in 0..Old
  BY <1>1 DEF TypeOK, OrderRow
<1>3. UNCHANGED <<pc, inbox, executions, deal, answer>>
  BY DEF Tick, ExpireStaleSentOrders, broker
<1>4. \A r \in Requests : Due(r)' <=> Due(r)
  BY <1>3 DEF Due
<1>5. CASE Tick
  <2>1. ASSUME NEW r \in Requests, Due(r)
        PROVE  /\ order'[r].status \in InFlightStatus /\ ~order'[r].brokerId
               /\ order'[r].created <= BrokerPatience
    <3>1. order[r].status \in InFlightStatus /\ ~order[r].brokerId
      BY <2>1 DEF BeltParts, DueIsSeen
    <3>2. order[r].created < BrokerPatience
      BY <1>5, <2>1 DEF Tick, Due
    <3>3. order'[r] = Aged(order[r])
      BY <1>5 DEF Tick
    <3>4. order'[r].status = order[r].status /\ order'[r].brokerId = order[r].brokerId
          /\ order'[r].created = Older(order[r].created)
      BY <3>1, <3>3 DEF Aged, InFlightStatus
    <3> QED
      BY <1>1, <1>2, <3>1, <3>2, <3>4 DEF Older, Old
  <2>2. DueIsSeen'
    BY <1>4, <2>1 DEF DueIsSeen
  <2> QED
    BY <1>3, <2>2 DEF BeltParts, AnswerMeansExecuted, BeltHolds, OneExposed, Exposed
<1>6. CASE ExpireStaleSentOrders
  <2>1. ASSUME NEW r \in Requests, Due(r) PROVE order'[r] = order[r]
    <3>1. order[r].status \in InFlightStatus /\ order[r].created <= BrokerPatience
      BY <2>1 DEF BeltParts, DueIsSeen
    <3>2. order[r].updated <= order[r].created
      BY <1>1, <3>1 DEF UpdatedSince
    <3>3. ~(order[r].updated > StaleAge)
      BY <1>1, <1>2, <3>1, <3>2 DEF InFlightAge, StaleAge, Old
    <3> QED
      BY <1>6, <3>3 DEF ExpireStaleSentOrders, Swept
  <2> QED
    BY <1>1, <1>3, <1>4, <2>1, AsideBelt
<1> QED
  BY <1>5, <1>6

\* A cancel needs the broker's id of an order, which one that is due has not got;
\* deals close, are adopted and written off without opening another.
LEMMA BeltRest ==
  ASSUME IInv, BeltParts, NEW r \in Requests,
         RequestCancel(r) \/ FinishCancel(r) \/ WorkingOrderFills(r) \/ DealCloses(r)
         \/ SyncAdopts(r) \/ SyncCloses(r)
  PROVE  BeltParts'
<1>1. TypeOK /\ ~WorkingOrderFills(r)
  BY DEF IInv, BeltParts, OneExposed, WorkingOrderFills
<1>2. UNCHANGED <<pc, inbox, executions, answer>>
  BY DEF RequestCancel, FinishCancel, WorkingOrderFills, DealCloses, SyncAdopts, SyncCloses, broker
<1>3. \A q \in Requests : Due(q)' <=> Due(q)
  BY <1>2 DEF Due
<1>4. CASE RequestCancel(r) \/ FinishCancel(r)
  <2>1. deal[r] # "working"
    BY DEF BeltParts, OneExposed
  <2>2. deal' = deal
    BY <1>1, <1>4, <2>1 DEF RequestCancel, FinishCancel, broker, TypeOK
  <2>3. ~Due(r)
    BY <1>4 DEF RequestCancel, FinishCancel, BeltParts, DueIsSeen, InFlightStatus
  <2>4. \A q \in Requests : q # r => order'[q] = order[q]
    BY <1>1, <1>4 DEF RequestCancel, FinishCancel, SetStatus, TypeOK
  <2> QED
    BY <1>1, <1>2, <1>3, <2>2, <2>3, <2>4, AsideBelt
<1>5. CASE DealCloses(r)
  <2>1. order' = order /\ \A q \in Requests : deal'[q] \in {deal[q], "gone"}
    BY <1>1, <1>5 DEF DealCloses, TypeOK
  <2> QED
    BY <1>2, <1>3, <2>1 DEF BeltParts, DueIsSeen, AnswerMeansExecuted, BeltHolds, OneExposed, Exposed
<1>6. CASE SyncAdopts(r) \/ SyncCloses(r)
  <2>1. UNCHANGED <<order, deal>>
    BY <1>6 DEF SyncAdopts, SyncCloses, broker
  <2> QED
    BY <1>1, <1>2, <1>3, <2>1, AsideBelt
<1> QED
  BY <1>1, <1>4, <1>5, <1>6

\* Where bots alone trade and the broker is in time, the belt holds in every step.
LEMMA StepBelt ==
  ASSUME RInv, BeltInv, [Next]_vars, BrokerPatience <= InFlightAge
  PROVE  BeltInv'
<1> SUFFICES ASSUME Bots = Requests PROVE OneBot' /\ BeltParts'
  BY DEF BeltInv, BeltParts
<1>1. IInv /\ TypeOK /\ OneBot /\ BeltParts
  BY DEF RInv, IInv, BeltInv, BeltParts
<1>2. OneBot'
  BY <1>1, StepOneBot
<1>3. ASSUME NEW c \in Calls, Start(c) \/ CallStep(c) PROVE BeltParts'
  BY <1>1, <1>3, BeltReads, BeltPlaces DEF CallStep
<1>4. ASSUME NEW r \in Requests,
             RequestCancel(r) \/ FinishCancel(r) \/ BrokerExecutes(r) \/ WorkingOrderFills(r)
             \/ DealCloses(r) \/ SyncAdopts(r) \/ SyncCloses(r)
      PROVE BeltParts'
  BY <1>1, <1>4, BeltExecutes, BeltRest
<1>5. CASE Tick \/ ExpireStaleSentOrders
  BY <1>1, <1>2, <1>5, BeltInTime
<1>6. CASE Crash
  <2>1. UNCHANGED <<order, inbox, executions, deal>> /\ answer' = [r \in Requests |-> "none"]
    BY <1>6 DEF Crash
  <2>2. \A c \in Calls : pc'[c] \in {pc[c], "over"}
    BY <1>6 DEF Crash
  <2>3. \A r \in Requests : Due(r)' => Due(r)
    BY <2>1, <2>2 DEF Due
  <2>4. DueIsSeen' /\ OneExposed'
    BY <1>1, <2>1, <2>3 DEF BeltParts, DueIsSeen, OneExposed, Exposed
  <2>5. AnswerMeansExecuted'
    BY <2>1 DEF AnswerMeansExecuted
  <2>6. BeltHolds'
    BY <1>1, <2>1, <2>2 DEF BeltParts, BeltHolds, Cleared
  <2> QED
    BY <1>2, <2>4, <2>5, <2>6 DEF BeltParts
<1>7. CASE UNCHANGED vars
  <2>1. UNCHANGED <<pc, order, inbox, executions, deal, answer>>
    BY <1>7 DEF vars
  <2> QED
    BY <1>1, <1>2, <2>1 DEF BeltParts, DueIsSeen, Due, AnswerMeansExecuted, BeltHolds, OneExposed, Exposed
<1> QED
  BY <1>2, <1>3, <1>4, <1>5, <1>6, <1>7 DEF Next

\* Initially nothing is under way.
LEMMA InitBelt == Init => BeltInv
  BY PlacementAssumption
     DEF Init, BeltInv, OneBot, Active, DueIsSeen, Due, AnswerMeansExecuted, BeltHolds, Cleared, OneExposed, Exposed

\* Where bots alone trade on the account and the broker executes a request within
\* the 90 seconds of the belt's in-flight check, the account never holds two deals,
\* whatever the crashes, the lost answers, the syncs and the sweeps in between.
THEOREM BotsAlone ==
  ASSUME BrokerPatience <= InFlightAge
  PROVE  Spec => []BotsHoldOneDeal
<1>1. RInv /\ BeltInv /\ [Next]_vars => RInv' /\ BeltInv'
  <2>1. BrokerPatience <= StaleAge
    BY PlacementAssumption DEF InFlightAge, StaleAge
  <2> QED
    BY <2>1, StepRInv, StepBelt
<1>2. BeltInv => BotsHoldOneDeal
  <2> SUFFICES ASSUME BeltInv, Bots = Requests
               PROVE  Cardinality({r \in Requests : deal[r] = "open"}) <= 1
    BY DEF BotsHoldOneDeal
  <2> DEFINE D == {r \in Requests : deal[r] = "open"}
  <2>1. \A r, s \in D : r = s
    BY DEF BeltInv, OneExposed, Exposed
  <2>2. CASE D = {}
    BY <2>2, FS_EmptySet
  <2>3. CASE D # {}
    <3>1. PICK r : r \in D
      BY <2>3
    <3>2. D = {r}
      BY <2>1, <3>1
    <3> QED
      BY <3>2, FS_Singleton
  <2> QED
    BY <2>2, <2>3
<1> QED
  BY <1>1, <1>2, InitRInv, InitBelt, PTL DEF Spec

-----------------------------------------------------------------------------
\* What is told of a request agrees with what came of it: nothing before it was
\* executed, filled only with a deal, and a broker id exactly in the rows that an
\* answer has reached and no call works on.
AnswersHaveDeals ==
  \A r \in Requests :
    /\ executions[r] = 0 => deal[r] = "none" /\ answer[r] = "none"
    /\ answer[r] \in {"filled", "filledNoPrice"} => deal[r] \in {"open", "gone"}

IdsFit ==
  \A r \in Requests :
    order[r].status \in IF order[r].brokerId
                        THEN {"FILLED", "REJECTED", "CANCEL_REQUESTED", "CANCELLED"}
                        ELSE {"none", "VALIDATING", "SENT", "REJECTED"}

PlacedWithoutId == \A c \in Calls : pc[c] \in Placing => ~order[RequestOf[c]].brokerId

TInv == IInv /\ AnswersHaveDeals /\ IdsFit /\ PlacedWithoutId

\* What the broker did and what the adapter answers fit together after every step.
LEMMA StepAnswers == TInv /\ [Next]_vars => AnswersHaveDeals'
<1> SUFFICES ASSUME TInv, [Next]_vars PROVE AnswersHaveDeals'
  OBVIOUS
<1> USE PlacementAssumption
<1>0. TypeOK /\ AnswersHaveDeals /\ SentUnexecuted
  BY DEF TInv, IInv
<1>1. CASE UNCHANGED <<executions, deal>> /\ \A r \in Requests : answer'[r] \in {answer[r], "none"}
  BY <1>0, <1>1 DEF AnswersHaveDeals
<1>2. ASSUME NEW r \in Requests, BrokerExecutes(r) PROVE AnswersHaveDeals'
  <2>1. executions[r] = 0 /\ deal[r] = "none" /\ answer[r] = "none"
    BY <1>0, <1>2 DEF BrokerExecutes, SentUnexecuted, AnswersHaveDeals
  <2>2. executions' = [executions EXCEPT ![r] = @ + 1]
    BY <1>2 DEF BrokerExecutes
  <2>3. PICK o \in Outcomes(r) :
          /\ deal' = [deal EXCEPT ![r] = IF o[1] = "none" THEN @ ELSE o[1]]
          /\ answer' = [answer EXCEPT ![r] = IF \E c \in Calls : RequestOf[c] = r /\ At(c, "wait")
                                              THEN o[2] ELSE "none"]
    BY <1>2 DEF BrokerExecutes
  <2>4. o[2] \in {"filled", "filledNoPrice"} => o[1] = "open"
    BY DEF Outcomes
  <2>5. executions'[r] # 0
    BY <1>0, <2>1, <2>2 DEF TypeOK
  <2>6. answer'[r] \in {"filled", "filledNoPrice"} => deal'[r] = "open"
    BY <1>0, <2>3, <2>4 DEF TypeOK
  <2>7. \A q \in Requests \ {r} :
          executions'[q] = executions[q] /\ deal'[q] = deal[q] /\ answer'[q] = answer[q]
    BY <1>0, <2>2, <2>3 DEF TypeOK
  <2> QED
    BY <1>0, <2>5, <2>6, <2>7 DEF AnswersHaveDeals
<1>3. ASSUME NEW r \in Requests, FinishCancel(r) \/ WorkingOrderFills(r) \/ DealCloses(r)
      PROVE AnswersHaveDeals'
  <2>1. UNCHANGED <<executions, answer>>
    BY <1>3 DEF FinishCancel, WorkingOrderFills, DealCloses
  <2>2. \A q \in Requests : \/ deal'[q] = deal[q]
                            \/ deal[q] = "working" /\ deal'[q] \in {"gone", "open"}
                            \/ deal[q] = "open" /\ deal'[q] = "gone"
    BY <1>0, <1>3 DEF TypeOK, FinishCancel, WorkingOrderFills, DealCloses
  <2> QED
    BY <1>0, <2>1, <2>2 DEF AnswersHaveDeals
<1>4. ASSUME NEW c \in Calls, Start(c) \/ CallStep(c) PROVE AnswersHaveDeals'
  <2>1. UNCHANGED <<executions, deal>>
    BY <1>4 DEF Start, CallStep, FindExisting, ReadAccount, BeltPositions, BeltInFlight,
       BeltOrphan, BeltBackoff, BeltLive, Belt, Checks, CreateOrder, MarkSent, Send,
       RecordAnswer, CreatePosition, broker
  <2>2. answer' = answer \/ answer' = [answer EXCEPT ![RequestOf[c]] = "none"]
    BY <1>4 DEF Start, CallStep, FindExisting, ReadAccount, BeltPositions, BeltInFlight,
       BeltOrphan, BeltBackoff, BeltLive, Belt, Checks, CreateOrder, MarkSent, Send,
       RecordAnswer, CreatePosition, broker
  <2> QED
    BY <1>0, <1>1, <2>1, <2>2 DEF TypeOK
<1>5. ASSUME NEW r \in Requests, RequestCancel(r) \/ SyncAdopts(r) \/ SyncCloses(r)
      PROVE AnswersHaveDeals'
  BY <1>1, <1>5 DEF RequestCancel, SyncAdopts, SyncCloses, broker
<1>6. CASE ExpireStaleSentOrders \/ Tick \/ Crash \/ UNCHANGED vars
  BY <1>1, <1>6 DEF ExpireStaleSentOrders, Tick, Crash, vars, broker
<1> QED
  BY <1>2, <1>3, <1>4, <1>5, <1>6 DEF Next

\* A step that keeps status and broker id of every row and brings no call among
\* the steps of placing keeps the fit of the ids.
LEMMA IdsKept ==
  ASSUME TInv, TypeOK,
         \A r \in Requests : order'[r].status = order[r].status
                             /\ order'[r].brokerId = order[r].brokerId,
         \A c \in Calls : pc'[c] \in Placing => pc[c] \in Placing
  PROVE  IdsFit' /\ PlacedWithoutId'
  BY PlacementAssumption DEF TInv, TypeOK, IdsFit, PlacedWithoutId

\* Broker ids fit the rows after every step.
LEMMA StepIds == TInv /\ [Next]_vars => IdsFit' /\ PlacedWithoutId'
<1> SUFFICES ASSUME TInv, [Next]_vars PROVE IdsFit' /\ PlacedWithoutId'
  OBVIOUS
<1> USE PlacementAssumption
<1>0. TypeOK /\ IdsFit /\ PlacedWithoutId /\ OneOwner /\ RowOwned
  BY DEF TInv, IInv
<1>1. ASSUME NEW c \in Calls,
             Start(c) \/ FindExisting(c) \/ ReadAccount(c) \/ BeltPositions(c)
             \/ BeltInFlight(c) \/ BeltOrphan(c) \/ BeltBackoff(c) \/ BeltLive(c)
             \/ Checks(c) \/ CreatePosition(c)
      PROVE IdsFit' /\ PlacedWithoutId'
  <2>1. order' = order /\ \E s : s \notin Placing /\ pc' = [pc EXCEPT ![c] = s]
    BY <1>1, AsideSteps
  <2>2. \A d \in Calls : pc'[d] \in Placing => pc[d] \in Placing
    BY <1>0, <2>1 DEF TypeOK
  <2> QED
    BY <1>0, <2>1, <2>2, IdsKept
<1>2. ASSUME NEW c \in Calls, CreateOrder(c) PROVE IdsFit' /\ PlacedWithoutId'
  <2> DEFINE r == RequestOf[c]
  <2>1. CASE order[r].status # "none"
    <3>1. order' = order /\ pc' = [pc EXCEPT ![c] = "over"]
      BY <1>2, <2>1 DEF CreateOrder, Goto
    <3>2. \A d \in Calls : pc'[d] \in Placing => pc[d] \in Placing
      BY <1>0, <3>1 DEF TypeOK, Placing
    <3> QED
      BY <1>0, <3>1, <3>2, IdsKept
  <2>2. CASE order[r].status = "none"
    <3>1. /\ order' = [order EXCEPT ![r] = Updated(NoOrder, "VALIDATING", FALSE)]
          /\ pc' = [pc EXCEPT ![c] = "mark"]
      BY <1>2, <2>2 DEF CreateOrder, Goto
    <3>2. order'[r].status = "VALIDATING" /\ ~order'[r].brokerId
      BY <1>0, <3>1 DEF TypeOK, Updated
    <3>3. \A q \in Requests \ {r} : order'[q] = order[q]
      BY <1>0, <3>1 DEF TypeOK
    <3>4. \A d \in Calls \ {c} : pc'[d] = pc[d]
      BY <1>0, <3>1 DEF TypeOK
    <3> QED
      BY <1>0, <3>2, <3>3, <3>4 DEF IdsFit, PlacedWithoutId
  <2> QED
    BY <2>1, <2>2
<1>3. ASSUME NEW c \in Calls, MarkSent(c) PROVE IdsFit' /\ PlacedWithoutId'
  <2> DEFINE r == RequestOf[c]
  <2>1. ~order[r].brokerId
    BY <1>0, <1>3 DEF MarkSent, At, PlacedWithoutId, Placing
  <2>2. order'[r].status = "SENT" /\ order'[r].brokerId = order[r].brokerId
    BY <1>0, <1>3 DEF TypeOK, MarkSent, SetStatus, Updated
  <2>3. \A q \in Requests \ {r} : order'[q] = order[q]
    BY <1>0, <1>3 DEF TypeOK, MarkSent, SetStatus
  <2>4. \A d \in Calls : pc'[d] \in Placing => pc[d] \in Placing
    BY <1>0, <1>3 DEF TypeOK, MarkSent, At, Goto, Placing
  <2> QED
    BY <1>0, <2>1, <2>2, <2>3, <2>4 DEF IdsFit, PlacedWithoutId
<1>4. ASSUME NEW c \in Calls, Send(c) PROVE IdsFit' /\ PlacedWithoutId'
  <2>1. order' = order /\ \A d \in Calls : pc'[d] \in Placing => pc[d] \in Placing
    BY <1>0, <1>4 DEF TypeOK, Send, At, Goto, Placing
  <2> QED
    BY <1>0, <2>1, IdsKept
<1>5. ASSUME NEW c \in Calls, RecordAnswer(c) PROVE IdsFit' /\ PlacedWithoutId'
  <2> DEFINE r == RequestOf[c]
  <2>1. ~order[r].brokerId /\ pc[c] \in Placing
    BY <1>0, <1>5 DEF RecordAnswer, At, PlacedWithoutId, Placing
  <2>2. \A d \in Calls : pc'[d] \in Placing => pc[d] \in Placing /\ d # c
    BY <1>0, <1>5 DEF TypeOK, RecordAnswer, Goto, Placing
  <2>3. \A d \in Calls : pc'[d] \in Placing => RequestOf[d] # r
    BY <1>0, <2>1, <2>2 DEF OneOwner
  <2>4. \A q \in Requests \ {r} : order'[q] = order[q]
    BY <1>0, <1>5 DEF TypeOK, RecordAnswer
  <2>5. \/ order'[r] = order[r]
        \/ order'[r].status = "REJECTED"
        \/ order'[r].status = "FILLED" /\ order'[r].brokerId = TRUE
    <3>1. \/ order'[r] = order[r]
          \/ order'[r] = Updated(order[r], "REJECTED", answer[r] = "rejected")
          \/ order'[r] = Updated(order[r], "FILLED", TRUE)
      BY <1>0, <1>5 DEF TypeOK, RecordAnswer
    <3>2. Updated(order[r], "REJECTED", answer[r] = "rejected").status = "REJECTED"
      BY DEF Updated
    <3>3. Updated(order[r], "FILLED", TRUE).status = "FILLED"
          /\ Updated(order[r], "FILLED", TRUE).brokerId = TRUE
      BY DEF Updated
    <3> HIDE DEF r
    <3> QED
      BY <3>1, <3>2, <3>3
  <2> QED
    BY <1>0, <2>2, <2>3, <2>4, <2>5 DEF IdsFit, PlacedWithoutId
<1>6. ASSUME NEW r \in Requests, RequestCancel(r) \/ FinishCancel(r)
      PROVE IdsFit' /\ PlacedWithoutId'
  <2>1. order[r].brokerId
    BY <1>0, <1>6 DEF RequestCancel, FinishCancel, IdsFit
  <2>2. order'[r].status \in {"CANCEL_REQUESTED", "CANCELLED"}
        /\ order'[r].brokerId = order[r].brokerId
    BY <1>0, <1>6 DEF TypeOK, RequestCancel, FinishCancel, SetStatus, Updated
  <2>3. pc' = pc /\ \A q \in Requests \ {r} : order'[q] = order[q]
    BY <1>0, <1>6 DEF TypeOK, RequestCancel, FinishCancel, SetStatus
  <2> QED
    BY <1>0, <2>1, <2>2, <2>3 DEF IdsFit, PlacedWithoutId, TypeOK
<1>7. CASE ExpireStaleSentOrders
  <2>1. pc' = pc
    BY <1>7 DEF ExpireStaleSentOrders
  <2>2. \A r \in Requests :
          /\ order'[r].brokerId = order[r].brokerId
          /\ order'[r].status = order[r].status \/ order'[r].status = "REJECTED"
    BY <1>7 DEF ExpireStaleSentOrders, Updated
  <2> QED
    BY <1>0, <2>1, <2>2 DEF IdsFit, PlacedWithoutId
<1>8. CASE Tick
  <2>1. pc' = pc /\ \A r \in Requests : order'[r].status = order[r].status
                                        /\ order'[r].brokerId = order[r].brokerId
    BY <1>8 DEF Tick, Aged
  <2> QED
    BY <1>0, <2>1, IdsKept
<1>9. CASE Crash
  <2>1. order' = order /\ \A d \in Calls : pc'[d] \in Placing => pc[d] \in Placing
    BY <1>9 DEF Crash, Placing
  <2> QED
    BY <1>0, <2>1, IdsKept
<1>10. ASSUME NEW r \in Requests,
              BrokerExecutes(r) \/ WorkingOrderFills(r) \/ DealCloses(r) \/ SyncAdopts(r)
              \/ SyncCloses(r)
       PROVE IdsFit' /\ PlacedWithoutId'
  <2>1. UNCHANGED <<pc, order>>
    BY <1>10 DEF BrokerExecutes, WorkingOrderFills, DealCloses, SyncAdopts, SyncCloses
  <2> QED
    BY <1>0, <2>1, IdsKept
<1>11. CASE UNCHANGED vars
  <2>1. UNCHANGED <<pc, order>>
    BY <1>11 DEF vars
  <2> QED
    BY <1>0, <2>1, IdsKept
<1> QED
  BY <1>1, <1>2, <1>3, <1>4, <1>5, <1>6, <1>7, <1>8, <1>9, <1>10, <1>11 DEF Next, CallStep

\* Both hold initially and are kept.
LEMMA InitTInv == Init => TInv
<1> SUFFICES ASSUME Init PROVE TInv
  OBVIOUS
<1>1. IInv
  BY InitIInv
<1> QED
  BY <1>1, PlacementAssumption
     DEF Init, TInv, AnswersHaveDeals, IdsFit, PlacedWithoutId, Placing, NoOrder

LEMMA StepTInv == TInv /\ [Next]_vars => TInv'
  BY StepIInv, StepAnswers, StepIds DEF TInv

\* What OneRequest sees of the requests.
FateOf == [r \in Requests |-> Fate(r)]
ToldOf == [r \in Requests |-> Told(r)]
Seen == <<FateOf, ToldOf>>

Tellings == {"none", "placing", "rejected", "filled", "cancelled"}

LEMMA ToldIsTelling == \A r \in Requests : Told(r) \in Tellings
  BY DEF Told, Tellings

\* What came of a request is read from the broker and from whether it has a row,
\* what is told of it from the status of the row.
LEMMA SameFate ==
  ASSUME NEW r \in Requests, executions'[r] = executions[r], deal'[r] = deal[r],
         order'[r].status = "none" <=> order[r].status = "none"
  PROVE  Fate(r)' = Fate(r)
  BY DEF Fate

LEMMA SameTold ==
  ASSUME NEW r \in Requests, order'[r].status = order[r].status
  PROVE  Told(r)' = Told(r)
  BY DEF Told

\* Nothing happens to a request whose broker side and status stay as they are.
LEMMA NothingSeen ==
  ASSUME \A r \in Requests : Fate(r)' = Fate(r) /\ Told(r)' = Told(r)
  PROVE  UNCHANGED Seen
  BY DEF Seen, FateOf, ToldOf

\* A step about one request changes what is seen at that request alone.
LEMMA FateMoves ==
  ASSUME NEW r \in Requests, \A q \in Requests \ {r} : Fate(q)' = Fate(q)
  PROVE  FateOf' = [FateOf EXCEPT ![r] = Fate(r)']
  BY DEF FateOf

LEMMA ToldMoves ==
  ASSUME NEW r \in Requests, \A q \in Requests \ {r} : Told(q)' = Told(q)
  PROVE  ToldOf' = [ToldOf EXCEPT ![r] = Told(r)']
  BY DEF ToldOf

\* The forms a step of OneRequest takes: the order of a request is told anew,
\* something comes of it at the broker, or orders in flight are given up.
LEMMA TellsStep ==
  ASSUME NEW r \in Requests,
         \A q \in Requests : Fate(q)' = Fate(q),
         \A q \in Requests \ {r} : Told(q)' = Told(q),
         \/ Told(r)' = Told(r)
         \/ Told(r) = "placing" /\ Told(r)' = "rejected"
         \/ Fate(r) = "recorded" /\ Told(r) = "rejected" /\ Told(r)' = "placing"
         \/ /\ Fate(r) \in {"open", "gone"} /\ Told(r) \in {"placing", "rejected"}
            /\ Told(r)' = "filled"
         \/ Told(r) \in {"rejected", "filled"} /\ Told(r)' = "cancelled"
  PROVE  [Request!Next]_Seen
<1>1. FateOf' = FateOf
  BY DEF FateOf
<1>2. ToldOf' = [ToldOf EXCEPT ![r] = Told(r)']
  BY ToldMoves
<1>3. FateOf[r] = Fate(r) /\ ToldOf[r] = Told(r)
  BY DEF FateOf, ToldOf
<1>4. CASE Told(r)' = Told(r)
  BY <1>4, NothingSeen
<1>5. CASE Told(r) = "placing" /\ Told(r)' = "rejected"
  <2>1. \A q \in Requests : Told(q)' \in Tellings
    BY <1>5, ToldIsTelling DEF Tellings
  <2>2. ToldOf' \in [Requests -> Tellings] /\ \A q \in Requests : ToldOf'[q] = Told(q)'
    BY <2>1 DEF ToldOf
  <2>3. \A q \in Requests :
          ToldOf'[q] # ToldOf[q] => ToldOf[q] = "placing" /\ ToldOf'[q] = "rejected"
    BY <1>5, <2>2 DEF ToldOf
  <2>4. Request!Reject
    BY <1>1, <2>2, <2>3 DEF Request!Reject, FateOf, ToldOf, Tellings
  <2> QED
    BY <2>4 DEF Request!Next
<1>6. CASE Fate(r) = "recorded" /\ Told(r) = "rejected" /\ Told(r)' = "placing"
  <2>1. Request!Resume(r)
    BY <1>1, <1>2, <1>3, <1>6 DEF Request!Resume, Request!Tell, FateOf, ToldOf
  <2> QED
    BY <2>1 DEF Request!Next
<1>7. CASE /\ Fate(r) \in {"open", "gone"} /\ Told(r) \in {"placing", "rejected"}
           /\ Told(r)' = "filled"
  <2>1. Request!Confirm(r)
    BY <1>1, <1>2, <1>3, <1>7 DEF Request!Confirm, Request!Tell, FateOf, ToldOf
  <2> QED
    BY <2>1 DEF Request!Next
<1>8. CASE Told(r) \in {"rejected", "filled"} /\ Told(r)' = "cancelled"
  <2>1. Request!Cancel(r)
    BY <1>1, <1>2, <1>3, <1>8 DEF Request!Cancel, Request!Tell, FateOf, ToldOf
  <2> QED
    BY <2>1 DEF Request!Next
<1> QED
  BY <1>4, <1>5, <1>6, <1>7, <1>8

LEMMA BecomesStep ==
  ASSUME NEW r \in Requests,
         \A q \in Requests : Told(q)' = Told(q),
         \A q \in Requests \ {r} : Fate(q)' = Fate(q),
         \/ Fate(r)' = Fate(r)
         \/ Fate(r) = "recorded" /\ Fate(r)' \in {"nothing", "working", "open"}
         \/ Fate(r) = "working" /\ Fate(r)' = "open"
         \/ Fate(r) \in {"working", "open"} /\ Fate(r)' = "gone"
  PROVE  [Request!Next]_Seen
<1>1. ToldOf' = ToldOf
  BY DEF ToldOf
<1>2. FateOf' = [FateOf EXCEPT ![r] = Fate(r)']
  BY FateMoves
<1>3. FateOf[r] = Fate(r)
  BY DEF FateOf
<1>4. CASE Fate(r)' = Fate(r)
  BY <1>4, NothingSeen
<1>5. CASE Fate(r) = "recorded" /\ Fate(r)' \in {"nothing", "working", "open"}
  <2>1. Request!Execute(r)
    BY <1>1, <1>2, <1>3, <1>5 DEF Request!Execute, Request!Becomes, FateOf, ToldOf
  <2> QED
    BY <2>1 DEF Request!Next
<1>6. CASE Fate(r) = "working" /\ Fate(r)' = "open"
  <2>1. Request!Fill(r)
    BY <1>1, <1>2, <1>3, <1>6 DEF Request!Fill, Request!Becomes, FateOf, ToldOf
  <2> QED
    BY <2>1 DEF Request!Next
<1>7. CASE Fate(r) \in {"working", "open"} /\ Fate(r)' = "gone"
  <2>1. Request!Close(r)
    BY <1>1, <1>2, <1>3, <1>7 DEF Request!Close, Request!Becomes, FateOf, ToldOf
  <2> QED
    BY <2>1 DEF Request!Next
<1> QED
  BY <1>4, <1>5, <1>6, <1>7

\* Every step of the order path is a step of OneRequest, or no step of it.
LEMMA RequestStep == TInv /\ [Next]_vars => [Request!Next]_Seen
<1> SUFFICES ASSUME TInv, [Next]_vars PROVE [Request!Next]_Seen
  OBVIOUS
<1> USE PlacementAssumption
<1>0. TypeOK /\ RowOwned /\ UnsentUntouched /\ SentUnexecuted /\ AnswersHaveDeals
      /\ IdsFit /\ PlacedWithoutId
  BY DEF TInv, IInv
<1>1. CASE UNCHANGED <<executions, deal>> /\ \A r \in Requests : order'[r].status = order[r].status
  <2>1. \A r \in Requests : Fate(r)' = Fate(r) /\ Told(r)' = Told(r)
    BY <1>1, SameFate, SameTold
  <2> QED
    BY <2>1, NothingSeen
<1>2. ASSUME NEW c \in Calls,
             Start(c) \/ FindExisting(c) \/ ReadAccount(c) \/ BeltPositions(c)
             \/ BeltInFlight(c) \/ BeltOrphan(c) \/ BeltBackoff(c) \/ BeltLive(c)
             \/ Checks(c) \/ CreatePosition(c)
      PROVE [Request!Next]_Seen
  BY <1>1, <1>2, AsideSteps
<1>3. ASSUME NEW c \in Calls, CreateOrder(c) PROVE [Request!Next]_Seen
  <2> DEFINE r == RequestOf[c]
  <2>1. UNCHANGED <<executions, deal>>
    BY <1>3 DEF CreateOrder, broker
  <2>2. CASE order[r].status # "none"
    BY <1>1, <1>3, <2>1, <2>2 DEF CreateOrder
  <2>3. CASE order[r].status = "none"
    <3>1. order' = [order EXCEPT ![r] = Updated(NoOrder, "VALIDATING", FALSE)]
      BY <1>3, <2>3 DEF CreateOrder
    <3>2. order'[r].status = "VALIDATING" /\ \A q \in Requests \ {r} : order'[q] = order[q]
      BY <1>0, <3>1 DEF TypeOK, Updated
    <3>3. executions[r] = 0
      BY <1>0, <2>3 DEF TInv, IInv, TypeOK, OneExecutionPerRequest
    <3>4. Fate(r) = "new" /\ Fate(r)' = "recorded" /\ Told(r) = "none" /\ Told(r)' = "placing"
      BY <2>1, <2>3, <3>2, <3>3 DEF Fate, Told, InFlightStatus
    <3>5. \A q \in Requests \ {r} : Fate(q)' = Fate(q) /\ Told(q)' = Told(q)
      BY <2>1, <3>2, SameFate, SameTold
    <3>6. r \in Requests
      OBVIOUS
    <3>7. FateOf' = [FateOf EXCEPT ![r] = "recorded"] /\ ToldOf' = [ToldOf EXCEPT ![r] = "placing"]
          /\ FateOf[r] = "new" /\ ToldOf[r] = "none"
      BY <3>4, <3>5, <3>6, FateMoves, ToldMoves DEF FateOf, ToldOf
    <3>8. Request!Record(r)
      BY <3>7 DEF Request!Record, FateOf, ToldOf
    <3> QED
      BY <3>6, <3>8 DEF Request!Next
  <2> QED
    BY <2>2, <2>3
<1>4. ASSUME NEW c \in Calls, MarkSent(c) PROVE [Request!Next]_Seen
  <2> DEFINE r == RequestOf[c]
  <2>1. UNCHANGED <<executions, deal>>
    BY <1>4 DEF MarkSent, broker
  <2>2. /\ r \in Requests /\ executions[r] = 0 /\ order[r].status # "none"
        /\ order[r].status \in {"none", "VALIDATING", "SENT", "REJECTED"}
    BY <1>0, <1>4 DEF MarkSent, At, UnsentUntouched, RowOwned, PlacedWithoutId, Placing, IdsFit
  <2>3. order'[r].status = "SENT" /\ \A q \in Requests \ {r} : order'[q] = order[q]
    BY <1>0, <1>4 DEF TypeOK, MarkSent, SetStatus, Updated
  <2>4. \A q \in Requests : Fate(q)' = Fate(q)
    BY <2>1, <2>2, <2>3, SameFate
  <2>5. \A q \in Requests \ {r} : Told(q)' = Told(q)
    BY <2>3, SameTold
  <2>6. Fate(r) = "recorded" /\ Told(r) \in {"placing", "rejected"} /\ Told(r)' = "placing"
    BY <2>2, <2>3 DEF Fate, Told, InFlightStatus
  <2> HIDE DEF r
  <2> QED
    BY <2>2, <2>4, <2>5, <2>6, TellsStep
<1>5. ASSUME NEW c \in Calls, Send(c) PROVE [Request!Next]_Seen
  BY <1>1, <1>5 DEF Send
<1>6. ASSUME NEW c \in Calls, RecordAnswer(c) PROVE [Request!Next]_Seen
  <2> DEFINE r == RequestOf[c]
  <2>1. UNCHANGED <<executions, deal>>
    BY <1>6 DEF RecordAnswer
  <2>2. /\ r \in Requests /\ order[r].status # "none"
        /\ order[r].status \in {"none", "VALIDATING", "SENT", "REJECTED"}
    BY <1>0, <1>6 DEF RecordAnswer, At, RowOwned, PlacedWithoutId, Placing, IdsFit
  <2>3. /\ \A q \in Requests \ {r} : order'[q] = order[q]
        /\ \/ order'[r] = order[r]
           \/ order'[r].status = "REJECTED"
           \/ order'[r].status = "FILLED" /\ answer[r] \in {"filled", "filledNoPrice"}
    BY <1>0, <1>6 DEF TypeOK, RecordAnswer, Updated
  <2>4. \A q \in Requests : Fate(q)' = Fate(q)
    BY <2>1, <2>2, <2>3, SameFate
  <2>5. \A q \in Requests \ {r} : Told(q)' = Told(q)
    BY <2>3, SameTold
  <2>6. Told(r) \in {"placing", "rejected"}
    BY <2>2 DEF Told, InFlightStatus
  <2>7. \/ Told(r)' = Told(r)
        \/ Told(r)' = "rejected"
        \/ Told(r)' = "filled" /\ answer[r] \in {"filled", "filledNoPrice"}
    BY <2>3 DEF Told, InFlightStatus
  <2>8. answer[r] \in {"filled", "filledNoPrice"} => Fate(r) \in {"open", "gone"}
    <3>1. answer[r] \in {"filled", "filledNoPrice"} =>
            executions[r] # 0 /\ deal[r] \in {"open", "gone"}
      BY <1>0, <2>2 DEF AnswersHaveDeals
    <3>2. executions[r] \in {0, 1}
      BY <1>0, <2>2 DEF TInv, IInv, TypeOK, OneExecutionPerRequest
    <3> QED
      BY <3>1, <3>2 DEF Fate
  <2> HIDE DEF r
  <2> QED
    BY <2>2, <2>4, <2>5, <2>6, <2>7, <2>8, TellsStep
<1>7. ASSUME NEW r \in Requests, RequestCancel(r) PROVE [Request!Next]_Seen
  <2>1. UNCHANGED <<executions, deal>>
    BY <1>7 DEF RequestCancel, broker
  <2>2. order[r].status \in {"FILLED", "REJECTED", "CANCEL_REQUESTED", "CANCELLED"}
    BY <1>0, <1>7 DEF RequestCancel, IdsFit
  <2>3. order'[r].status = "CANCEL_REQUESTED" /\ \A q \in Requests \ {r} : order'[q] = order[q]
    BY <1>0, <1>7 DEF TypeOK, RequestCancel, SetStatus, Updated
  <2>4. \A q \in Requests : Fate(q)' = Fate(q)
    BY <2>1, <2>2, <2>3, SameFate
  <2>5. \A q \in Requests \ {r} : Told(q)' = Told(q)
    BY <2>3, SameTold
  <2>6. Told(r) \in {"rejected", "filled", "cancelled"} /\ Told(r)' = "cancelled"
    BY <2>2, <2>3 DEF Told, InFlightStatus
  <2> QED
    BY <2>4, <2>5, <2>6, TellsStep
<1>8. ASSUME NEW r \in Requests, FinishCancel(r) PROVE [Request!Next]_Seen
  <2>1. executions' = executions /\ order[r].status = "CANCEL_REQUESTED"
    BY <1>8 DEF FinishCancel
  <2>2. order'[r].status = "CANCELLED" /\ \A q \in Requests \ {r} : order'[q] = order[q]
    BY <1>0, <1>8 DEF TypeOK, FinishCancel, SetStatus, Updated
  <2>3. /\ \A q \in Requests \ {r} : deal'[q] = deal[q]
        /\ \/ deal'[r] = deal[r]
           \/ deal[r] = "working" /\ deal'[r] = "gone"
    BY <1>0, <1>8 DEF TypeOK, FinishCancel
  <2>4. Told(r)' = Told(r)
    BY <2>1, <2>2 DEF Told, InFlightStatus
  <2>5. \A q \in Requests \ {r} : Fate(q)' = Fate(q) /\ Told(q)' = Told(q)
    BY <2>1, <2>2, <2>3, SameFate, SameTold
  <2>6. \/ Fate(r)' = Fate(r)
        \/ Fate(r) = "working" /\ Fate(r)' = "gone"
    BY <2>1, <2>2, <2>3 DEF Fate
  <2> QED
    BY <2>4, <2>5, <2>6, BecomesStep
<1>9. ASSUME NEW r \in Requests, BrokerExecutes(r) PROVE [Request!Next]_Seen
  <2>1. executions[r] = 0 /\ deal[r] = "none" /\ order[r].status # "none"
    BY <1>0, <1>9 DEF BrokerExecutes, SentUnexecuted, AnswersHaveDeals
  <2>2. order' = order /\ executions' = [executions EXCEPT ![r] = @ + 1]
    BY <1>9 DEF BrokerExecutes
  <2>3. PICK o \in Outcomes(r) :
          deal' = [deal EXCEPT ![r] = IF o[1] = "none" THEN @ ELSE o[1]]
    BY <1>9 DEF BrokerExecutes
  <2>4. o[1] \in {"none", "working", "open"}
    BY DEF Outcomes
  <2>5. executions'[r] = 1 /\ \A q \in Requests \ {r} : executions'[q] = executions[q]
    BY <1>0, <2>1, <2>2 DEF TypeOK
  <2>6. deal'[r] \in {"none", "working", "open"} /\ \A q \in Requests \ {r} : deal'[q] = deal[q]
    BY <1>0, <2>1, <2>3, <2>4 DEF TypeOK
  <2>7. Fate(r) = "recorded" /\ Fate(r)' \in {"nothing", "working", "open"}
    BY <2>1, <2>5, <2>6 DEF Fate
  <2>8. \A q \in Requests : Told(q)' = Told(q)
    BY <2>2, SameTold
  <2>9. \A q \in Requests \ {r} : Fate(q)' = Fate(q)
    BY <2>2, <2>5, <2>6, SameFate
  <2> QED
    BY <2>7, <2>8, <2>9, BecomesStep
<1>10. ASSUME NEW r \in Requests, WorkingOrderFills(r) \/ DealCloses(r)
       PROVE [Request!Next]_Seen
  <2>1. UNCHANGED <<order, executions>>
    BY <1>10 DEF WorkingOrderFills, DealCloses
  <2>2. /\ \A q \in Requests \ {r} : deal'[q] = deal[q]
        /\ \/ deal[r] = "working" /\ deal'[r] = "open"
           \/ deal[r] = "open" /\ deal'[r] = "gone"
    BY <1>0, <1>10 DEF TypeOK, WorkingOrderFills, DealCloses
  <2>3. \A q \in Requests : Told(q)' = Told(q)
    BY <2>1, SameTold
  <2>4. \A q \in Requests \ {r} : Fate(q)' = Fate(q)
    BY <2>1, <2>2, SameFate
  <2>5. \/ Fate(r)' = Fate(r)
        \/ Fate(r) = "working" /\ Fate(r)' = "open"
        \/ Fate(r) = "open" /\ Fate(r)' = "gone"
    BY <2>1, <2>2 DEF Fate
  <2> QED
    BY <2>3, <2>4, <2>5, BecomesStep
<1>11. ASSUME NEW r \in Requests, SyncAdopts(r) \/ SyncCloses(r) PROVE [Request!Next]_Seen
  BY <1>1, <1>11 DEF SyncAdopts, SyncCloses, broker
<1>12. CASE ExpireStaleSentOrders
  <2>1. UNCHANGED <<executions, deal>>
    BY <1>12 DEF ExpireStaleSentOrders, broker
  <2>2. \A r \in Requests : \/ order'[r] = order[r]
                            \/ /\ order[r].status \in InFlightStatus
                               /\ order'[r].status = "REJECTED"
    BY <1>12 DEF ExpireStaleSentOrders, Swept, Updated
  <2>3. \A r \in Requests : Fate(r)' = Fate(r)
    BY <2>1, <2>2, SameFate DEF InFlightStatus
  <2>4. \A r \in Requests :
          \/ Told(r)' = Told(r)
          \/ Told(r) = "placing" /\ Told(r)' = "rejected"
    BY <2>2 DEF Told, InFlightStatus
  <2>5. FateOf' = FateOf
    BY <2>3 DEF FateOf
  <2>6. ToldOf' \in [Requests -> Tellings] /\ \A r \in Requests : ToldOf'[r] = Told(r)'
    <3>1. \A r \in Requests : Told(r)' \in Tellings
      BY <2>4, ToldIsTelling DEF Tellings
    <3> QED
      BY <3>1 DEF ToldOf
  <2>7. \A r \in Requests :
          ToldOf'[r] # ToldOf[r] => ToldOf[r] = "placing" /\ ToldOf'[r] = "rejected"
    BY <2>4, <2>6 DEF ToldOf
  <2>8. Request!Reject
    BY <2>5, <2>6, <2>7 DEF Request!Reject, FateOf, ToldOf, Tellings
  <2> QED
    BY <2>8 DEF Request!Next
<1>13. CASE Tick
  <2>1. UNCHANGED <<executions, deal>> /\ \A r \in Requests : order'[r].status = order[r].status
    BY <1>13 DEF Tick, Aged, broker
  <2> QED
    BY <1>1, <2>1
<1>14. CASE Crash \/ UNCHANGED vars
  BY <1>1, <1>14 DEF Crash, vars
<1> QED
  BY <1>2, <1>3, <1>4, <1>5, <1>6, <1>7, <1>8, <1>9, <1>10, <1>11, <1>12, <1>13, <1>14
     DEF Next, CallStep

\* The order path implements OneRequest for any calls of any requests and any
\* number of crashes, lost answers and ticks: no request is carried out twice or
\* without a row, none is FILLED without a deal, and one that was FILLED is never
\* in flight or REJECTED again.
THEOREM RequestsAreKept == Spec => RequestKept
<1>1. Init => Request!Init
  BY PlacementAssumption DEF Init, Request!Init, Fate, Told, NoOrder, InFlightStatus
<1>2. Spec => []TInv
  BY InitTInv, StepTInv, PTL DEF Spec
<1>3. TInv /\ [Next]_vars =>
        [Request!Next]_<<[r \in Requests |-> Fate(r)], [r \in Requests |-> Told(r)]>>
  BY RequestStep DEF Seen, FateOf, ToldOf
<1> QED
  BY <1>1, <1>2, <1>3, PTL DEF Spec, RequestKept, Request!Spec
=============================================================================
