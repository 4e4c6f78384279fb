------------------------- MODULE CapitalPlacement -------------------------
(***************************************************************************)
(* placeOrder and closePosition of capital-com-adapter.ts for market       *)
(* orders, on the sessions of CapitalLogin, and the broker they talk to.   *)
(* All orders have one epic, direction and size, so that a search for the  *)
(* deal of one finds the deals of all.  Native trails, take profits, and   *)
(* orders of an adapter without a sub-account are left out.                *)
(***************************************************************************)
EXTENDS CapitalLogin, FiniteSets

CONSTANTS
  Requests,   \* client request ids
  Wants,      \* may a request ask for a protective stop, or for none?
  Work,       \* what each call may be
  Truthful,   \* is a deal the broker rejects without a reason never open?
  MaxFaults   \* bound: requests the network loses

ASSUME PlacementAssumption ==
  /\ Wants \subseteq BOOLEAN /\ Truthful \in BOOLEAN /\ MaxFaults \in Nat
  /\ "none" \notin Requests
  /\ Work \in [Procs -> SUBSET {"place", "book", "close", "loose"}]

VARIABLES
  deals,   \* positions ever opened, in that order (the broker's)
  answer,  \* what placeOrder returned for each request
  order,   \* the local variables of each call
  faults

vars == <<loginVars, deals, answer, order, faults>>
tradeVars == <<deals, answer, order, faults>>

NoDeal == 0
\* with: has the deal been sent with a stop?  ref: the deal its reference stands
\* for.  fate: what the confirmation will say.  deal: dealId.
NoOrder == [req |-> "none", want |-> FALSE, with |-> FALSE, ref |-> NoDeal,
            fate |-> "none", deal |-> NoDeal]

Init ==
  /\ InitLogin
  /\ deals = <<>>
  /\ answer = [r \in Requests |-> [status |-> "none", want |-> FALSE, deal |-> NoDeal]]
  /\ order = [p \in Procs |-> NoOrder]
  /\ faults = 0

Fault == faults < MaxFaults /\ faults' = faults + 1
NoFault == UNCHANGED faults

\* The calls under the lock, from withLoginLock to its `finally'.
Begin(p, kind, work) ==
  /\ todo[p] = <<>> /\ kind \in Work[p]
  /\ todo' = [todo EXCEPT ![p] = <<"lock", "ensure", "switch">> \o work \o <<"unlock">>]
  /\ queue' = Append(queue, p)
  /\ UNCHANGED <<sessionVars, retried, deals, faults>>

BeginPlace(p, r, want) ==
  /\ answer[r].status = "none"
  /\ Begin(p, "place", <<"post">>)
  /\ order' = [order EXCEPT ![p] = [NoOrder EXCEPT !.req = r, !.want = want]]
  /\ answer' = [answer EXCEPT ![r].status = "placing", ![r].want = want]

BeginBook(p) == Begin(p, "book", <<"book">>) /\ UNCHANGED <<order, answer>>

\* A deal of this adapter that a request was answered with.
BeginClose(p, r) ==
  /\ answer[r].status = "FILLED" /\ deals[answer[r].deal].account = Pin[AdapterOf[p]]
  /\ Begin(p, "close", <<"close">>)
  /\ order' = [order EXCEPT ![p] = [NoOrder EXCEPT !.deal = answer[r].deal]]
  /\ UNCHANGED answer

-----------------------------------------------------------------------------
(***************************************************************************)
(* Posting the order and its confirmation                                  *)
(***************************************************************************)
Posts == {"post", "bare", "bareLast"}
WithStop(p) == At(p, "post") /\ order[p].want

Opened(p) ==
  Append(deals, [req |-> order[p].req, by |-> AdapterOf[p], account |-> active,
                 stop |-> WithStop(p), open |-> TRUE])

Posted(p, fate, ref) ==
  /\ AtOneOf(p, Posts)
  /\ Answered(p, <<"confirm">>)
  /\ order' = [order EXCEPT ![p].with = WithStop(p), ![p].fate = fate, ![p].ref = ref]
  /\ UNCHANGED <<answer, faults>>

PostOpens(p) == Posted(p, "open", Len(deals) + 1) /\ deals' = Opened(p)

\* Nothing is opened, or nothing is ever heard of it.
PostRefused(p) ==
  /\ \E fate \in {"stop", "other", "silent"} : Posted(p, fate, NoDeal)
  /\ UNCHANGED deals

\* Rejected without a reason: "wrong CFD / sibling session steal".
PostRefusedEmpty(p) ==
  /\ Posted(p, "empty", NoDeal)
  /\ \/ UNCHANGED deals
     \/ ~Truthful /\ deals' = Opened(p)

\* The POST itself answers with an error: about the stop, about the size, or
\* another.
PostFails(p) ==
  /\ AtOneOf(p, Posts) /\ Valid(p)
  /\ \/ order[p].want /\ ~At(p, "bareLast") /\ Answered(p, <<"bareLast">>)
     \/ Answered(p, <<"reject">>)
     \/ Throw(p) /\ UNCHANGED <<sessionVars, queue>>
  /\ UNCHANGED tradeVars

PostLost(p) ==
  /\ AtOneOf(p, Posts) /\ Valid(p)
  /\ Fault
  /\ deals' \in {deals, Opened(p)}
  /\ Throw(p)
  /\ UNCHANGED <<sessionVars, queue, answer, order>>

Attach == <<"ensure", "switch", "attach", "closeNaked", "reject">>

Fill(p, d) ==
  /\ answer' = [answer EXCEPT ![order[p].req].status = "FILLED", ![order[p].req].deal = d]
  /\ todo' = [todo EXCEPT ![p] = <<"unlock">>]
  /\ order' = [order EXCEPT ![p] = NoOrder]
  /\ retried' = [retried EXCEPT ![p] = FALSE]

Proceed(p, steps) ==
  Then(p, steps) /\ retried' = [retried EXCEPT ![p] = FALSE] /\ UNCHANGED answer

\* waitConfirm swallows every error, and gives up after fourteen tries.
ConfirmAccepted(p) ==
  LET d == order[p].ref
  IN  /\ At(p, "confirm") /\ Valid(p) /\ order[p].fate = "open"
      /\ IF order[p].want
         THEN /\ Proceed(p, IF order[p].with THEN <<"ensure", "switch", "stop">> ELSE Attach)
              /\ order' = [order EXCEPT ![p].deal = d]
         ELSE Fill(p, d)
      /\ UNCHANGED <<sessionVars, queue, deals, faults>>

\* An order with a stop is sent again without it, whatever the reason was.
ConfirmRejected(p) ==
  /\ At(p, "confirm") /\ Valid(p) /\ order[p].fate \in {"stop", "other", "empty"}
  /\ Proceed(p, IF order[p].with THEN <<"bare">>
                ELSE IF order[p].fate = "empty"
                THEN <<"ensure", "switch", "searchRejected", "reject">>
                ELSE <<"reject">>)
  /\ UNCHANGED <<sessionVars, queue, deals, order, faults>>

\* Mutant of ConfirmUnknown: a lost confirmation is taken for a rejection.
ConfirmUnknownAgain(p) ==
  /\ At(p, "confirm") /\ order[p].fate \in {"open", "silent"}
  /\ Proceed(p, IF order[p].with THEN <<"bare">> ELSE <<"reject">>)
  /\ UNCHANGED <<sessionVars, queue, deals, order, faults>>

ConfirmUnknown(p) ==
  /\ At(p, "confirm") /\ order[p].fate \in {"open", "silent"}
  /\ Proceed(p, <<"ensure", "switch", "search">>)
  /\ UNCHANGED <<sessionVars, queue, deals, order, faults>>

-----------------------------------------------------------------------------
(***************************************************************************)
(* The deal of a request that was not confirmed, its stop, and its end     *)
(***************************************************************************)
\* What getOpenPositions shows: the open deals of the session's sub-account.
Shown == {d \in DOMAIN deals : deals[d].open /\ deals[d].account = active}

\* findRecentOpenPosition: the youngest of the deals shown, of the last minute;
\* the request's own is younger than that.
Recent(p) ==
  {Max(ds) : ds \in {{d \in Shown : d > old} : old \in
     {o \in 0..Len(deals) : \A d \in Shown : deals[d].req = order[p].req => d > o}} \ {{}}}

SearchFinds(p, d) ==
  /\ AtOneOf(p, {"search", "searchRejected"}) /\ Valid(p)
  /\ d \in Recent(p)
  /\ IF order[p].want
     THEN /\ todo' = [todo EXCEPT ![p] = Attach \o <<"unlock">>]
          /\ order' = [order EXCEPT ![p].deal = d]
          /\ retried' = [retried EXCEPT ![p] = FALSE]
          /\ UNCHANGED answer
     ELSE Fill(p, d)
  /\ UNCHANGED <<sessionVars, queue, deals, faults>>

\* It switches before each of its four attempts, so that what another
\* sub-account does not show is not its last word.
SearchFindsNothing(p) ==
  /\ AtOneOf(p, {"search", "searchRejected"})
  /\ \A d \in Shown : deals[d].req # order[p].req
  /\ Answered(p, IF active # Pin[AdapterOf[p]] THEN <<"ensure", "switch", Head(todo[p])>>
                 ELSE IF At(p, "search") THEN <<"reject">> ELSE <<>>)
  /\ UNCHANGED tradeVars

\* readBrokerSl
ReadStop(p) ==
  LET d == order[p].deal
  IN  /\ At(p, "stop") /\ Valid(p)
      /\ IF d \in Shown /\ deals[d].stop THEN Fill(p, d)
         ELSE Answered(p, Attach) /\ UNCHANGED <<answer, order>>
      /\ UNCHANGED <<sessionVars, queue, deals, faults>>

\* modifyPosition, up to four times: the stop is seen in the book in the end.
AttachStop(p) ==
  LET d == order[p].deal
  IN  /\ At(p, "attach") /\ Valid(p)
      /\ d \in Shown
      /\ deals' = [deals EXCEPT ![d].stop = TRUE]
      /\ Fill(p, d)
      /\ UNCHANGED <<sessionVars, queue, faults>>

\* Mutant of AttachFails: the fill is answered, and recovery left to others.
AttachFailsFilled(p) ==
  LET d == order[p].deal
  IN  /\ At(p, "attach") /\ Valid(p)
      /\ Fill(p, d)
      /\ UNCHANGED <<sessionVars, queue, deals, faults>>

\* It never is, whether it has been set or not.
AttachFails(p) ==
  LET d == order[p].deal
  IN  /\ At(p, "attach")
      /\ \/ UNCHANGED deals
         \/ d \in Shown /\ deals' = [deals EXCEPT ![d].stop = TRUE]
      /\ Answered(p, <<>>)
      /\ UNCHANGED <<answer, order, faults>>

CloseNaked(p) ==
  /\ At(p, "closeNaked")
  /\ Then(p, <<"ensure", "switch", "close">>)
  /\ UNCHANGED <<sessionVars, queue, retried, tradeVars>>

\* closePosition: a deal that is not shown, or whose closing is rejected or not
\* confirmed, throws.
Close(p) ==
  LET d == order[p].deal
  IN  /\ At(p, "close") /\ Valid(p)
      /\ \/ /\ d \in Shown
            /\ deals' = [deals EXCEPT ![d].open = FALSE]
            /\ Answered(p, <<>>)
            /\ NoFault
         \/ /\ IF d \in Shown THEN Fault ELSE NoFault
            /\ Throw(p)
            /\ UNCHANGED <<sessionVars, queue, deals>>
      /\ UNCHANGED <<answer, order>>

\* Mutant of Reject: the answer forgets the deal.
RejectNameless(p) ==
  /\ At(p, "reject")
  /\ answer' = [answer EXCEPT ![order[p].req].status = "REJECTED"]
  /\ todo' = [todo EXCEPT ![p] = <<"unlock">>]
  /\ order' = [order EXCEPT ![p] = NoOrder]
  /\ UNCHANGED <<sessionVars, queue, retried, deals, faults>>

Reject(p) ==
  /\ At(p, "reject")
  /\ answer' = [answer EXCEPT ![order[p].req].status = "REJECTED", ![order[p].req].deal = order[p].deal]
  /\ todo' = [todo EXCEPT ![p] = <<"unlock">>]
  /\ order' = [order EXCEPT ![p] = NoOrder]
  /\ UNCHANGED <<sessionVars, queue, retried, deals, faults>>

ReadBook(p) == At(p, "book") /\ Answered(p, <<>>) /\ UNCHANGED tradeVars

\* A read the network loses.
ReadFails(p) ==
  /\ AtOneOf(p, {"search", "searchRejected", "stop", "book"}) /\ Valid(p)
  /\ Fault /\ Throw(p)
  /\ UNCHANGED <<sessionVars, queue, deals, answer, order>>

\* The change of the sub-account is lost, before or after it is made.
PutLost(p) ==
  /\ AtOneOf(p, {"put", "pinPut"}) /\ Valid(p)
  /\ Fault
  /\ active' \in {active, Pin[AdapterOf[p]]}
  /\ IF At(p, "put") THEN Throw(p) ELSE Then(p, <<>>) /\ UNCHANGED retried
  /\ UNCHANGED <<live, logins, expiries, shared, tokens, queue, deals, answer, order>>

\* A stop is hit, or the deal is closed on the chart.
BrokerCloses(d) ==
  /\ deals[d].open
  /\ deals' = [deals EXCEPT ![d].open = FALSE]
  /\ UNCHANGED <<loginVars, answer, order, faults>>

LockedRequests == Posts \cup {"search", "searchRejected", "stop", "attach", "close", "book"}

TradeStep(p) ==
  \/ PostOpens(p) \/ PostRefused(p) \/ PostRefusedEmpty(p) \/ PostFails(p) \/ PostLost(p)
  \/ ConfirmAccepted(p) \/ ConfirmRejected(p) \/ ConfirmUnknown(p)
  \/ \E d \in DOMAIN deals : SearchFinds(p, d)
  \/ SearchFindsNothing(p) \/ ReadStop(p) \/ AttachStop(p) \/ AttachFails(p)
  \/ CloseNaked(p) \/ Close(p) \/ Reject(p) \/ ReadBook(p)
  \/ ReadFails(p) \/ PutLost(p)

Continue(p) ==
  \/ SessionStep(p) /\ UNCHANGED tradeVars
  \/ AtOneOf(p, LockedRequests \cup {"confirm", "loose"}) /\ Unauthorised(p) /\ UNCHANGED tradeVars
  \/ TradeStep(p)

Next ==
  \/ \E p \in Procs :
       \/ \E r \in Requests : BeginClose(p, r) \/ \E want \in Wants : BeginPlace(p, r, want)
       \/ BeginBook(p)
       \/ "loose" \in Work[p] /\ BeginLoose(p) /\ UNCHANGED tradeVars
       \/ Continue(p)
  \/ Expire /\ UNCHANGED tradeVars
  \/ \E d \in DOMAIN deals : BrokerCloses(d)

Spec == Init /\ [][Next]_vars

-----------------------------------------------------------------------------
(***************************************************************************)
(* Properties                                                              *)
(***************************************************************************)
\* "Reentrant only inside the same async context that already holds the lock"
\* (204, audit C1): no call waits for a lock that it holds or waits for already,
\* and whoever is in the queue will release the lock, whatever throws before.
LockIsReleased ==
  /\ IsInjective(queue)
  /\ \A p \in Procs : p \in ToSet(queue) <=> "unlock" \in ToSet(todo[p])

\* "A fresh POST /session invalidates it" (2018): however the calls of the
\* adapters lose and renew their tokens, none makes a session while one lives.
NoSessionKilled == [][live # NoToken => live' \in {NoToken, live}]_vars

\* "Always re-bind after session create" (80): whatever a trading call has the
\* broker do, the session is on the sub-account of its own adapter, sessions
\* that end at any moment included, as long as the network loses nothing.
ActsOnOwnAccount ==
  [][faults = 0 => \A p \in Procs :
       AtOneOf(p, LockedRequests) /\ Valid(p) /\ todo'[p] # todo[p]
         => active = Pin[AdapterOf[p]]]_vars

\* A request opens one deal: a confirmation that does not come, a rejection, a
\* 401 or a refused stop makes the adapter send again only what did not open.
OneDealPerRequest ==
  \A r \in Requests : Cardinality({d \in DOMAIN deals : deals[d].req = r}) <= 1

\* "Never return accepted+naked" (1286): at the moment of the answer the deal it
\* names is open with a stop, if one was wanted.
FilledIsProtected ==
  [][\A r \in Requests :
       answer'[r].status = "FILLED" /\ answer[r].status # "FILLED" /\ answer[r].want
         => deals'[answer'[r].deal].open /\ deals'[answer'[r].deal].stop]_vars

\* No deal is left behind unknown: an open deal of a request that was answered
\* is the one the answer names, even when its stop could not be attached and
\* it could not be closed either.  A change of the sub-account that the network
\* loses is excepted: it leads a deal to a sibling's sub-account, or the search
\* for it, and then the answer names a deal of the sibling's.
NoDealForgotten ==
  \A r \in Requests, d \in DOMAIN deals :
    answer[r].status \in {"FILLED", "REJECTED"} /\ deals[d].req = r
      /\ deals[d].open /\ deals[d].account = Pin[deals[d].by]
      => \/ answer[r].deal = d
         \/ answer[r].deal # NoDeal /\ deals[answer[r].deal].account # Pin[deals[d].by]
=============================================================================
