--------------------------- MODULE OrderPlacement ---------------------------
(***************************************************************************)
(* The order path of apps/api/src/orders/orders.service.ts on one account: *)
(* place (with its one-trade belt for strategy bots), cancel and the sweep *)
(* of stale orders, against a broker that executes a request some time     *)
(* after it was sent.  Every await of the code is a step boundary, so any  *)
(* number of HTTP handlers, the strategy tick and the sweep interleave,    *)
(* and the process may crash between any two steps.                        *)
(*                                                                         *)
(* An order row is named by its client request id: (organization,          *)
(* clientRequestId, account) is unique in the schema.  Position rows are   *)
(* kept by PositionLifecycle; here a request's deal has at most one active *)
(* row and the sync with the broker adds or closes it in one step.         *)
(***************************************************************************)
EXTENDS Integers, FiniteSets

CONSTANTS
  Requests,       \* client request ids
  Calls,          \* executions of placeForAccount
  RequestOf,      \* the request of a call: a double click is two calls of one
  Bots,           \* requests of the strategy runtime (MARKET, with a strategyId)
  Limits,         \* manual requests of type LIMIT or STOP
  StrategyOf,     \* the strategy of a bot's request
  BrokerPatience, \* bound: ticks from creating an order to recording its answer
  MaxCrashes,     \* bound: crashes of the API process
  MaxLosses       \* bound: deals opened whose answer the adapter loses

\* Time passes in units of 30 seconds; an age above Old is Old.
Old == 5
InFlightAge == 3   \* 90 s: inflightSince
BackoffAge == 4    \* 120 s: rejectBackoffSince
StaleAge == 4      \* 2 min: cutoff of expireStaleSentOrders

ASSUME PlacementAssumption ==
  /\ RequestOf \in [Calls -> Requests]
  /\ Bots \subseteq Requests /\ Limits \subseteq Requests \ Bots
  /\ DOMAIN StrategyOf = Bots
  /\ BrokerPatience \in Nat /\ MaxCrashes \in Nat /\ MaxLosses \in Nat

VARIABLES
  pc,         \* where each call stands
  order,      \* the Order rows
  row,        \* the Position row of a request's deal: none, active or closed
  linked,     \* the orders some position row refers to (orderId)
  inbox,      \* requests sent to the broker and not yet executed
  executions, \* how often the broker has executed a request
  deal,       \* the broker's side of a request
  answer,     \* the adapter's answer, until the call that waits for it reads it
  crashes,    \* crashes of the process so far
  losses      \* answers lost so far: the adapter threw, the deal was opened

vars == <<pc, order, row, linked, inbox, executions, deal, answer, crashes, losses>>
broker == <<inbox, executions, deal, answer>>
faults == <<crashes, losses>>

InFlightStatus == {"VALIDATING", "SENT"}   \* of those the code lists, the ones it ever writes
Statuses == InFlightStatus \cup {"none", "FILLED", "REJECTED", "CANCEL_REQUESTED", "CANCELLED"}

NoOrder == [status |-> "none", brokerId |-> FALSE, created |-> 0, updated |-> 0]

Init ==
  /\ pc = [c \in Calls |-> "idle"]
  /\ order = [r \in Requests |-> NoOrder]
  /\ row = [r \in Requests |-> "none"]
  /\ linked = {}
  /\ inbox = {}
  /\ executions = [r \in Requests |-> 0]
  /\ deal = [r \in Requests |-> "none"]
  /\ answer = [r \in Requests |-> "none"]
  /\ crashes = 0 /\ losses = 0

-----------------------------------------------------------------------------
(***************************************************************************)
(* placeForAccount                                                         *)
(***************************************************************************)
\* A call is over when it has returned, thrown or died with the process.
Active(c) == pc[c] \notin {"idle", "over"}

At(c, here) == pc[c] = here
Goto(c, there) == pc' = [pc EXCEPT ![c] = there]

\* prisma.order.update: it also sets updatedAt.
Updated(o, s, id) == [status |-> s, brokerId |-> id, created |-> o.created, updated |-> 0]
SetStatus(r, s) == order' = [order EXCEPT ![r] = Updated(@, s, @.brokerId)]

\* The strategy tick places one order at a time (the `ticking' flag of the
\* runtime); HTTP handlers run freely.
Start(c) ==
  /\ At(c, "idle")
  /\ RequestOf[c] \in Bots =>
       \A d \in Calls : RequestOf[d] \in Bots => ~Active(d)
  /\ Goto(c, "find")
  /\ UNCHANGED <<order, row, linked, faults, broker>>

\* A request that has a row already is answered with it.
FindExisting(c) ==
  /\ At(c, "find")
  /\ Goto(c, IF order[RequestOf[c]].status # "none" THEN "over" ELSE "account")
  /\ UNCHANGED <<order, row, linked, faults, broker>>

\* The account is missing, locked or not enabled for live trading: refused.
ReadAccount(c) ==
  /\ At(c, "account")
  /\ \E ok \in BOOLEAN :
       Goto(c, IF ~ok THEN "over"
               ELSE IF RequestOf[c] \in Bots THEN "beltPositions" ELSE "checks")
  /\ UNCHANGED <<order, row, linked, faults, broker>>

\* The belt of a bot's MARKET order: five reads, each of which may refuse.
Belt(c, here, refused, there) ==
  /\ At(c, here)
  /\ Goto(c, IF refused THEN "over" ELSE there)
  /\ UNCHANGED <<order, row, linked, faults, broker>>

BeltPositions(c) ==
  Belt(c, "beltPositions", \E r \in Requests : row[r] = "active", "beltInFlight")

BeltInFlight(c) ==
  Belt(c, "beltInFlight",
       \E r \in Requests : order[r].status \in InFlightStatus /\ order[r].created <= InFlightAge,
       "beltOrphan")

BeltOrphan(c) ==
  Belt(c, "beltOrphan",
       \E r \in Requests \ linked : order[r].status = "FILLED" /\ order[r].created <= InFlightAge,
       "beltBackoff")

BeltBackoff(c) ==
  Belt(c, "beltBackoff",
       \E r \in Bots : /\ StrategyOf[r] = StrategyOf[RequestOf[c]]
                       /\ order[r].status = "REJECTED" /\ order[r].created <= BackoffAge,
       "beltLive")

\* Mutant of BeltLive: an unreadable book counts as flat.
BeltLiveOptimistic(c) ==
  \/ Belt(c, "beltLive", \E r \in Requests : deal[r] = "open", "checks")
  \/ Belt(c, "beltLive", FALSE, "checks")

\* The broker's open positions; when they cannot be read the order is refused.
BeltLive(c) ==
  \/ Belt(c, "beltLive", \E r \in Requests : deal[r] = "open", "checks")
  \/ Belt(c, "beltLive", TRUE, "checks")

\* Symbol, connection, health, sizing and risk: refusals without an order row.
Checks(c) ==
  /\ At(c, "checks")
  /\ \E ok \in BOOLEAN : Goto(c, IF ok THEN "create" ELSE "over")
  /\ UNCHANGED <<order, row, linked, faults, broker>>

\* Mutant of CreateOrder: an upsert instead of a create with a unique key.
UpsertOrder(c) ==
  /\ At(c, "create")
  /\ order' = [order EXCEPT ![RequestOf[c]] = Updated(NoOrder, "VALIDATING", FALSE)]
  /\ Goto(c, "mark")
  /\ UNCHANGED <<row, linked, faults, broker>>

\* order.create; the unique key makes the second of two calls fail.
CreateOrder(c) ==
  LET r == RequestOf[c]
  IN  /\ At(c, "create")
      /\ IF order[r].status = "none"
         THEN /\ order' = [order EXCEPT ![r] = Updated(NoOrder, "VALIDATING", FALSE)]
              /\ Goto(c, "mark")
         ELSE Goto(c, "over") /\ UNCHANGED order
      /\ UNCHANGED <<row, linked, faults, broker>>

MarkSent(c) ==
  /\ At(c, "mark")
  /\ SetStatus(RequestOf[c], "SENT")
  /\ Goto(c, "send")
  /\ UNCHANGED <<row, linked, faults, broker>>

\* adapter.placeOrder is called.
Send(c) ==
  /\ At(c, "send")
  /\ inbox' = inbox \cup {RequestOf[c]}
  /\ Goto(c, "wait")
  /\ UNCHANGED <<order, row, linked, faults, executions, deal, answer>>

\* The answer arrives.  PENDING, the answer to a limit order, is not a value of
\* the database's OrderStatus, so that writing it throws and the row stays SENT.
RecordAnswer(c) ==
  LET r == RequestOf[c]
  IN  /\ At(c, "wait")
      /\ answer[r] # "none"
      /\ \/ /\ answer[r] \in {"threw", "rejected"}
            /\ order' = [order EXCEPT ![r] = Updated(@, "REJECTED", answer[r] = "rejected")]
            /\ Goto(c, "over")
         \/ /\ answer[r] = "pending"
            /\ Goto(c, "over")
            /\ UNCHANGED order
         \/ /\ answer[r] \in {"filled", "filledNoPrice"}
            /\ order' = [order EXCEPT ![r] = Updated(@, "FILLED", TRUE)]
            /\ Goto(c, IF answer[r] = "filled" THEN "row" ELSE "over")
      /\ answer' = [answer EXCEPT ![r] = "none"]
      /\ UNCHANGED <<row, linked, faults, inbox, executions, deal>>

\* position.create, whatever happened to the deal since it was filled.
CreatePosition(c) ==
  LET r == RequestOf[c]
  IN  /\ At(c, "row")
      /\ row' = [row EXCEPT ![r] = "active"]
      /\ linked' = linked \cup {r}
      /\ Goto(c, "over")
      /\ UNCHANGED <<order, faults, broker>>

CallStep(c) ==
  \/ FindExisting(c) \/ ReadAccount(c)
  \/ BeltPositions(c) \/ BeltInFlight(c) \/ BeltOrphan(c) \/ BeltBackoff(c) \/ BeltLive(c)
  \/ Checks(c) \/ CreateOrder(c) \/ MarkSent(c) \/ Send(c)
  \/ RecordAnswer(c) \/ CreatePosition(c)

-----------------------------------------------------------------------------
(***************************************************************************)
(* cancel and expireStaleSentOrders                                        *)
(***************************************************************************)
\* There is no check of the order's status, only of its broker id.
RequestCancel(r) ==
  /\ order[r].brokerId
  /\ order[r].status # "CANCEL_REQUESTED"
  /\ SetStatus(r, "CANCEL_REQUESTED")
  /\ UNCHANGED <<pc, row, linked, faults, broker>>

\* adapter.cancelOrder and the update after it.  When the adapter throws, or
\* the process dies in between, the row keeps CANCEL_REQUESTED.
FinishCancel(r) ==
  /\ order[r].status = "CANCEL_REQUESTED"
  /\ deal' = [deal EXCEPT ![r] = IF @ = "working" THEN "gone" ELSE @]
  /\ SetStatus(r, "CANCELLED")
  /\ UNCHANGED <<pc, row, linked, faults, inbox, executions, answer>>

\* Mutants of Swept: a cutoff that is one tick early; VALIDATING forgotten.
SweptEarly(r) == order[r].status \in InFlightStatus /\ order[r].updated >= StaleAge
SweptSentOnly(r) == order[r].status = "SENT" /\ order[r].updated > StaleAge

\* One updateMany: every in-flight row not updated for two minutes.
Swept(r) == order[r].status \in InFlightStatus /\ order[r].updated > StaleAge

ExpireStaleSentOrders ==
  /\ \E r \in Requests : Swept(r)
  /\ order' = [r \in Requests |->
                 IF Swept(r) THEN Updated(order[r], "REJECTED", order[r].brokerId)
                 ELSE order[r]]
  /\ UNCHANGED <<pc, row, linked, faults, broker>>

-----------------------------------------------------------------------------
(***************************************************************************)
(* The broker, the position sync, time and crashes                         *)
(***************************************************************************)
\* What executing a request can leave at the broker, and what the adapter
\* then answers.
Outcomes(r) ==
  IF r \in Limits
  THEN {<<"working", "pending">>, <<"none", "rejected">>, <<"none", "threw">>}
  ELSE {<<"open", "filled">>, <<"open", "filledNoPrice">>, <<"open", "threw">>,
        <<"none", "rejected">>, <<"none", "threw">>}

BrokerExecutes(r) ==
  /\ r \in inbox
  /\ inbox' = inbox \ {r}
  /\ executions' = [executions EXCEPT ![r] = @ + 1]
  /\ \E o \in Outcomes(r) :
       /\ deal' = [deal EXCEPT ![r] = IF o[1] = "none" THEN @ ELSE o[1]]
       /\ answer' = [answer EXCEPT ![r] = IF \E c \in Calls : RequestOf[c] = r /\ At(c, "wait")
                                           THEN o[2] ELSE "none"]
       /\ IF o = <<"open", "threw">> THEN losses < MaxLosses /\ losses' = losses + 1
          ELSE UNCHANGED losses
  /\ UNCHANGED <<pc, order, row, linked, crashes>>

\* A working order fills; an open deal is closed by its stop or on the chart.
WorkingOrderFills(r) ==
  /\ deal[r] = "working"
  /\ deal' = [deal EXCEPT ![r] = "open"]
  /\ UNCHANGED <<pc, order, row, linked, faults, inbox, executions, answer>>

DealCloses(r) ==
  /\ deal[r] = "open"
  /\ deal' = [deal EXCEPT ![r] = "gone"]
  /\ UNCHANGED <<pc, order, row, linked, faults, inbox, executions, answer>>

\* The position sync adopts a deal without an active row and links it to a
\* recent strategy order that was filled; it closes the row of a deal gone.
SyncAdopts(r) ==
  /\ deal[r] = "open" /\ row[r] # "active"
  /\ row' = [row EXCEPT ![r] = "active"]
  /\ LET recent == {b \in Bots : order[b].status = "FILLED"}
     IN  \/ recent = {} /\ UNCHANGED linked
         \/ \E b \in recent : linked' = linked \cup {b}
  /\ UNCHANGED <<pc, order, faults, broker>>

SyncCloses(r) ==
  /\ deal[r] = "gone" /\ row[r] = "active"
  /\ row' = [row EXCEPT ![r] = "closed"]
  /\ UNCHANGED <<pc, order, linked, faults, broker>>

Older(age) == IF age < Old THEN age + 1 ELSE Old

\* updatedAt is read of rows in flight alone.
Aged(o) ==
  [status |-> o.status, brokerId |-> o.brokerId,
   created |-> IF o.status = "none" THEN 0 ELSE Older(o.created),
   updated |-> IF o.status \in InFlightStatus THEN Older(o.updated) ELSE o.updated]

\* From the creation of its row a request is executed and its answer recorded
\* within BrokerPatience.
Tick ==
  /\ \A r \in inbox : order[r].created < BrokerPatience
  /\ \A c \in Calls : pc[c] \in {"mark", "send", "wait"} =>
       order[RequestOf[c]].created < BrokerPatience
  /\ \E r \in Requests : Aged(order[r]) # order[r]
  /\ order' = [r \in Requests |-> Aged(order[r])]
  /\ UNCHANGED <<pc, row, linked, faults, broker>>

\* The process dies: every handler is lost, what was sent is not.
Crash ==
  /\ crashes < MaxCrashes
  /\ crashes' = crashes + 1
  /\ pc' = [c \in Calls |-> IF Active(c) THEN "over" ELSE pc[c]]
  /\ answer' = [r \in Requests |-> "none"]
  /\ UNCHANGED <<order, row, linked, inbox, executions, deal, losses>>

Next ==
  \/ \E c \in Calls : Start(c) \/ CallStep(c)
  \/ \E r \in Requests :
       \/ RequestCancel(r) \/ FinishCancel(r)
       \/ BrokerExecutes(r) \/ WorkingOrderFills(r) \/ DealCloses(r)
       \/ SyncAdopts(r) \/ SyncCloses(r)
  \/ ExpireStaleSentOrders
  \/ Tick
  \/ Crash

Spec == Init /\ [][Next]_vars

\* The event loop runs every handler, the interval timer runs the sweep, the
\* broker executes what it was sent, and time passes.  Nobody is obliged to
\* start or to cancel anything.
Fairness ==
  /\ \A c \in Calls : WF_vars(CallStep(c))
  /\ \A r \in Requests : WF_vars(BrokerExecutes(r))
  /\ WF_vars(ExpireStaleSentOrders)
  /\ WF_vars(Tick)

FairSpec == Spec /\ Fairness

-----------------------------------------------------------------------------
(***************************************************************************)
(* Properties                                                              *)
(***************************************************************************)
Steps == {"idle", "find", "account", "beltPositions", "beltInFlight", "beltOrphan",
          "beltBackoff", "beltLive", "checks", "create", "mark", "send", "wait", "row", "over"}
OrderRow == [status : Statuses, brokerId : BOOLEAN, created : 0..Old, updated : 0..Old]
Answers == {"none", "filled", "filledNoPrice", "pending", "rejected", "threw"}

\* Every row, call and broker record keeps its type.
TypeOK ==
  /\ pc \in [Calls -> Steps]
  /\ order \in [Requests -> OrderRow]
  /\ row \in [Requests -> {"none", "active", "closed"}]
  /\ linked \subseteq Requests
  /\ inbox \subseteq Requests
  /\ executions \in [Requests -> Nat]
  /\ deal \in [Requests -> {"none", "working", "open", "gone"}]
  /\ answer \in [Requests -> Answers]
  /\ crashes \in Nat /\ losses \in Nat

\* However often a request is submitted, by double clicks, after a crash or
\* after it was swept, the broker executes it at most once, and never one that
\* has no order row to show for it.
OneExecutionPerRequest ==
  \A r \in Requests :
    /\ executions[r] <= 1
    /\ executions[r] = 1 => order[r].status # "none"

\* What came of a request, and what its order row says.
Fate(r) ==
  CASE executions[r] = 0 -> IF order[r].status = "none" THEN "new" ELSE "recorded"
    [] executions[r] = 1 -> IF deal[r] = "none" THEN "nothing" ELSE deal[r]
    [] OTHER -> "twice"   \* which OneRequest knows nothing of

Told(r) ==
  LET s == order[r].status
  IN  CASE s \in InFlightStatus -> "placing"
        [] s = "REJECTED" -> "rejected"
        [] s = "FILLED" -> "filled"
        [] s \in {"CANCEL_REQUESTED", "CANCELLED"} -> "cancelled"
        [] OTHER -> "none"

Request == INSTANCE OneRequest WITH fate <- [r \in Requests |-> Fate(r)],
                                    told <- [r \in Requests |-> Told(r)]

\* The order path implements OneRequest, through double clicks, crashes, lost
\* answers, cancels and a sweep that a slow call overtakes: no request is carried
\* out twice or without a row, none is FILLED without a deal, and an order that
\* was FILLED is in flight or REJECTED never again (placeForAccount 153-605,
\* cancel 713-758, expireStaleSentOrders 45-66).
RequestKept == Request!Spec

\* The belt works for bots: as long as only bots trade on the account and the
\* broker executes a request within the 90 seconds of the in-flight check, the
\* account never holds two deals, through crashes, lost answers, adoption of
\* deals without a row and closes by the broker.
BotsHoldOneDeal ==
  Bots = Requests => Cardinality({r \in Requests : deal[r] = "open"}) <= 1

\* A market order reported as REJECTED has no deal behind it, provided the
\* adapter answers truthfully and within the two minutes of the sweep, and no
\* crash loses an answer; cancels, double clicks and the sweep are not excuses
\* (placeForAccount 522-592, expireStaleSentOrders 45-66).
RejectedMeansNothingAtBroker ==
  crashes = 0 /\ losses = 0 =>
    \A r \in Requests \ Limits : order[r].status = "REJECTED" => deal[r] # "open"

\* No order stays in flight for ever, whatever crashed or was lost.
InFlightEnds ==
  \A r \in Requests :
    order[r].status \in InFlightStatus ~> order[r].status \notin InFlightStatus
=============================================================================
