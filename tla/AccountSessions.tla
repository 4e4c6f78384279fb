-------------------------- MODULE AccountSessions --------------------------
(***************************************************************************)
(* The accounts and their broker adapters: the handlers of                 *)
(* accounts.service.ts, the registry of broker-runtime.service.ts and how  *)
(* the Capital.com adapter chooses its sub-account, with the bot tick that *)
(* connects accounts too, a restart and its restoreAll.                    *)
(*                                                                         *)
(* todo of an operation is the list of the awaits it has still to do, as   *)
(* in CapitalLogin.  All accounts are Capital.com accounts on one login.   *)
(* Balances, the import of positions by a sync and the client portal are   *)
(* left out, and so is the sub-account on which Capital.com starts a new   *)
(* session; a write to the database succeeds.                              *)
(***************************************************************************)
EXTENDS Naturals, Sequences, FiniteSets

CONSTANTS
  Accounts, Desks,
  Subs,       \* the CFD sub-accounts of the login
  Money,      \* what is available on each
  Watched,    \* accounts of a running strategy, or with open rows
  Handles,    \* adapters the model tells apart at a time
  Asks,       \* what a desk may ask
  None,
  Pins,       \* externalAccountId of the rows at the beginning
  MaxAsks, MaxFaults    \* bounds: requests, failures and restarts

\* A login has a list of sub-accounts with balances.
ASSUME AccountsAssumption ==
  /\ IsFiniteSet(Subs) /\ Money \in [Subs -> Nat]
  /\ None \notin Handles /\ Watched \subseteq Accounts
  /\ Asks \subseteq {"connect", "disconnect", "sync", "bind", "archive", "creds", "ready"}
  /\ MaxAsks \in Nat /\ MaxFaults \in Nat

Tick == "tick"
Boot == "boot"
Procs == Desks \cup {Tick, Boot}

VARIABLES
  row,       \* the TradingAccount rows
  cred,      \* the stored credentials, by the number of their changes
  registry,  \* adapters: the adapter of each account
  adapter,   \* the adapter objects
  refs,      \* sharedByLogin.refs: the pin of each account, as registered
  op,        \* the operations under way
  booting,   \* accounts restoreAll has still to restore
  asks, faults

broker == <<registry, adapter, refs>>
counts == <<asks, faults>>
accountVars == <<row, cred, broker, op, booting, counts>>

Blank == [pin |-> None, up |-> FALSE, cred |-> 0]
Over == [kind |-> None, acct |-> None, seen |-> None, target |-> None, todo |-> <<>>,
         mine |-> None, bound |-> None, cur |-> None, taken |-> {}, healthy |-> TRUE, alone |-> TRUE]

\* The API has started.  create gave a new account a sub-account or none.
AccountsInit ==
  /\ row \in [Accounts -> [conn : {"DISCONNECTED", "CONNECTED"}, pin : Pins, archived : {FALSE}]]
  /\ cred = [a \in Accounts |-> 0]
  /\ registry = [a \in Accounts |-> None]
  /\ adapter = [h \in Handles |-> Blank]
  /\ refs = [a \in Accounts |-> None]
  /\ op = [p \in Procs |-> Over]
  /\ booting = {a \in Accounts : row[a].conn = "CONNECTED"}
  /\ asks = 0 /\ faults = 0

At(p, step) == op[p].todo # <<>> /\ Head(op[p].todo) = step
Rest(o, steps) ==
  LET todo == steps \o Tail(o.todo) IN IF todo = <<>> THEN Over ELSE [o EXCEPT !.todo = todo]
\* The operation goes on as o, steps first.
On(p, o, steps) == op' = [op EXCEPT ![p] = Rest(o, steps)]
Then(p, steps) == On(p, op[p], steps)

\* connect, START and restoreAll write ERROR and answer with an error.
Catches == {"connect", "creds", "ready", Boot}
Throw(p) ==
  op' = [op EXCEPT ![p] =
    IF @.kind \in Catches THEN [@ EXCEPT !.todo = <<"error">>] ELSE Over]

\* An adapter that neither the registry nor an operation has is forgotten.
KeepUsed(adapters) ==
  adapter' = [h \in Handles |->
    IF \E a \in Accounts : registry'[a] = h \/ \E p \in Procs : op'[p].mine = h
    THEN adapters[h] ELSE Blank]

Fault == faults < MaxFaults /\ faults' = faults + 1 /\ UNCHANGED asks
Write(a, conn) == row' = [row EXCEPT ![a].conn = conn]

-----------------------------------------------------------------------------
(***************************************************************************)
(* connectAccount of the broker runtime                                    *)
(***************************************************************************)
\* Mutant of InPlace: any healthy adapter will do.
HealthyIsEnough(h, pin) == adapter[h].up

\* A healthy adapter on the wanted sub-account is kept; one without a
\* sub-account as well.
InPlace(h, pin) ==
  adapter[h].up /\ (pin = None \/ adapter[h].pin \in {None, pin})

Enter(p) ==
  LET a == op[p].acct  h == registry[a]
  IN  /\ At(p, "enter")
      /\ IF h = None THEN Then(p, <<"load">>) /\ UNCHANGED counts
         ELSE IF InPlace(h, op[p].seen.pin)
         THEN \/ On(p, [op[p] EXCEPT !.mine = h], <<>>) /\ UNCHANGED counts
              \/ On(p, [op[p] EXCEPT !.mine = h], <<"leave", "drop", "load">>) /\ Fault
         ELSE On(p, [op[p] EXCEPT !.mine = h], <<"leave", "drop", "load">>) /\ UNCHANGED counts
      /\ UNCHANGED <<row, cred, registry, refs, booting>> /\ KeepUsed(adapter)

\* disconnect of the adapter, which is still registered.
Leave(p) ==
  /\ At(p, "leave")
  /\ refs' = [refs EXCEPT ![op[p].acct] = None]
  /\ Then(p, <<>>)
  /\ UNCHANGED <<row, cred, registry, booting, counts>>
  /\ KeepUsed([adapter EXCEPT ![op[p].mine].up = FALSE])

\* Mutant of Drop: the disconnected adapter stays registered.
DropNothing(p) ==
  /\ At(p, "drop")
  /\ Then(p, <<>>)
  /\ UNCHANGED <<row, cred, registry, refs, booting, counts>> /\ KeepUsed(adapter)

\* Whatever adapter is registered by now.
Drop(p) ==
  /\ At(p, "drop")
  /\ registry' = [registry EXCEPT ![op[p].acct] = None]
  /\ Then(p, <<>>)
  /\ UNCHANGED <<row, cred, refs, booting, counts>> /\ KeepUsed(adapter)

Unused(h) == \A a \in Accounts : registry[a] # h /\ \A p \in Procs : op[p].mine # h

\* The credentials are read and a new adapter begins to connect.
Load(p) ==
  LET a == op[p].acct  h == CHOOSE x \in Handles : Unused(x)
  IN  /\ At(p, "load")
      /\ \E x \in Handles : Unused(x)
      /\ refs' = [refs EXCEPT ![a] = op[p].seen.pin]
      /\ On(p, [op[p] EXCEPT !.mine = h], <<"pick", "opened">>)
      /\ UNCHANGED <<row, cred, registry, booting, counts>>
      /\ KeepUsed([adapter EXCEPT ![h] = [pin |-> op[p].seen.pin, up |-> FALSE, cred |-> cred[a]]])

\* pickBestCapitalSubAccount
Best(subs) == IF subs = {} THEN None ELSE CHOOSE s \in subs : \A t \in subs : Money[s] >= Money[t]

\* siblingPinnedCapitalIds
SiblingPins(a) == {refs[b] : b \in Accounts \ {a}} \ {None}

\* An adapter without a sub-account of its own takes the best that no sibling
\* has registered.
Pick(p) ==
  LET h == op[p].mine
      free == Best(Subs \ SiblingPins(op[p].acct))
  IN  /\ At(p, "pick")
      /\ UNCHANGED <<row, cred, registry, refs, booting>>
      /\ \/ /\ Then(p, <<>>) /\ UNCHANGED counts
            /\ KeepUsed([adapter EXCEPT ![h].pin = IF @ = None THEN free ELSE @])
         \/ Throw(p) /\ Fault /\ KeepUsed(adapter)

\* The last adapter to connect is the one that is registered.
Opened(p) ==
  LET a == op[p].acct  h == op[p].mine
  IN  /\ At(p, "opened")
      /\ refs' = [refs EXCEPT ![a] = adapter[h].pin]
      /\ registry' = [registry EXCEPT ![a] = h]
      /\ Then(p, <<>>)
      /\ UNCHANGED <<row, cred, booting, counts>>
      /\ KeepUsed([adapter EXCEPT ![h].up = TRUE])

-----------------------------------------------------------------------------
(***************************************************************************)
(* The awaits of the handlers                                              *)
(***************************************************************************)
\* getAccountState gives an adapter without a sub-account the best there is.
Stated(h) == [adapter EXCEPT ![h].pin = IF @ = None THEN Best(Subs) ELSE @]
Calm == UNCHANGED <<refs, registry, cred, booting>>

\* `get' of a handler that calls another one.
Get(p) ==
  LET a == op[p].acct
  IN  /\ At(p, "get")
      /\ IF row[a].archived THEN op' = [op EXCEPT ![p] = Over]
         ELSE On(p, [op[p] EXCEPT !.seen = row[a]], <<>>)
      /\ UNCHANGED <<row, counts>> /\ Calm /\ KeepUsed(adapter)

WriteConnecting(p) ==
  /\ At(p, "connecting")
  /\ Write(op[p].acct, "CONNECTING")
  /\ Then(p, <<>>)
  /\ UNCHANGED counts /\ Calm /\ KeepUsed(adapter)

\* What the handler works with: the registered adapter, or a new one.
TakeAdapter(p) ==
  LET h == registry[op[p].acct]
  IN  /\ At(p, "adapter")
      /\ IF h = None THEN Then(p, <<"enter">>) ELSE On(p, [op[p] EXCEPT !.mine = h], <<>>)
      /\ UNCHANGED <<row, counts>> /\ Calm /\ KeepUsed(adapter)

Health(p) ==
  LET h == op[p].mine
      found == [op[p] EXCEPT !.bound = adapter[h].pin, !.healthy = adapter[h].up]
  IN  /\ At(p, "health")
      /\ \/ On(p, found, <<>>) /\ UNCHANGED counts
         \/ On(p, [op[p] EXCEPT !.bound = None, !.healthy = FALSE], <<>>) /\ Fault
      /\ UNCHANGED row /\ Calm /\ KeepUsed(adapter)

\* START throws when the broker is not healthy.
Alive(p) ==
  /\ At(p, "alive")
  /\ \/ adapter[op[p].mine].up /\ Then(p, <<>>) /\ UNCHANGED counts
     \/ ~adapter[op[p].mine].up /\ Throw(p) /\ UNCHANGED counts
     \/ Throw(p) /\ Fault
  /\ UNCHANGED row /\ Calm /\ KeepUsed(adapter)

State(p) ==
  /\ At(p, "state")
  /\ UNCHANGED row /\ Calm
  /\ LET h == op[p].mine  stated == Stated(h)
     IN  \/ /\ On(p, [op[p] EXCEPT !.cur = stated[h].pin], <<>>)
            /\ UNCHANGED counts /\ KeepUsed(stated)
         \/ Throw(p) /\ Fault /\ KeepUsed(adapter)

\* What connect binds the account to: its pin, before what the adapter says.
Bound(o) == IF o.seen.pin # None THEN o.seen.pin ELSE o.bound

\* An account without a pin looks for a richer sub-account that no connected
\* account has, and keeps the one it has when that fails.
Siblings(p) ==
  LET a == op[p].acct
      others == {b \in Accounts \ {a} : row[b].conn = "CONNECTED"}
  IN  /\ At(p, "siblings")
      /\ IF op[p].seen.pin # None THEN Then(p, <<>>)
         ELSE On(p, [op[p] EXCEPT !.taken = {row[b].pin : b \in others} \ {None}], <<"richest">>)
      /\ UNCHANGED <<row, counts>> /\ Calm /\ KeepUsed(adapter)

Richest(p) ==
  LET rich == Best(Subs \ op[p].taken)
      here == IF op[p].cur = None THEN 0 ELSE Money[op[p].cur]
  IN  /\ At(p, "richest")
      /\ UNCHANGED row /\ Calm
      /\ \/ Then(p, <<>>) /\ Fault /\ KeepUsed(adapter)
         \/ /\ UNCHANGED counts
            /\ IF rich # None /\ rich # Bound(op[p]) /\ Money[rich] > here
               THEN /\ On(p, [op[p] EXCEPT !.bound = rich], <<>>)
                    /\ KeepUsed([adapter EXCEPT ![op[p].mine].pin = rich])
               ELSE Then(p, <<>>) /\ KeepUsed(adapter)

\* Whatever has become of the account since it was read.  START leaves the pin.
WriteConnected(p) ==
  LET o == op[p]
  IN  /\ At(p, "connected")
      /\ row' = [row EXCEPT ![o.acct].conn = IF o.healthy THEN "CONNECTED" ELSE "ERROR",
                            ![o.acct].pin = IF o.kind = "ready" THEN @ ELSE Bound(o)]
      /\ Then(p, <<>>)
      /\ UNCHANGED counts /\ Calm /\ KeepUsed(adapter)

\* persistState asks the adapter that is registered, and then writes CONNECTED.
PersistState(p) ==
  LET h == registry[op[p].acct]
  IN  /\ At(p, "persist")
      /\ UNCHANGED row /\ Calm
      /\ \/ h = None /\ Then(p, <<>>) /\ UNCHANGED counts /\ KeepUsed(adapter)
         \/ h # None /\ Then(p, <<"persisted">>) /\ UNCHANGED counts /\ KeepUsed(Stated(h))
         \/ h # None /\ Throw(p) /\ Fault /\ KeepUsed(adapter)

Persisted(p) ==
  /\ At(p, "persisted")
  /\ Write(op[p].acct, "CONNECTED")
  /\ Then(p, <<>>)
  /\ UNCHANGED counts /\ Calm /\ KeepUsed(adapter)

\* disconnect of the broker runtime: a persistState, whose error is ignored, and
\* then the adapter it began with.
Stash(p) ==
  LET h == registry[op[p].acct]
  IN  /\ At(p, "stash")
      /\ UNCHANGED row /\ Calm
      /\ \/ h = None /\ Then(p, <<>>) /\ UNCHANGED counts /\ KeepUsed(adapter)
         \/ /\ h # None /\ UNCHANGED counts
            /\ On(p, [op[p] EXCEPT !.mine = h], <<"persisted", "leave", "drop">>) /\ KeepUsed(Stated(h))
         \/ /\ h # None /\ Fault
            /\ On(p, [op[p] EXCEPT !.mine = h], <<"leave", "drop">>) /\ KeepUsed(adapter)

WriteDisconnected(p) ==
  /\ At(p, "disconnected")
  /\ Write(op[p].acct, "DISCONNECTED")
  /\ Then(p, <<>>)
  /\ UNCHANGED counts /\ Calm /\ KeepUsed(adapter)

WriteError(p) ==
  /\ At(p, "error")
  /\ Write(op[p].acct, "ERROR")
  /\ Then(p, <<>>)
  /\ UNCHANGED counts /\ Calm /\ KeepUsed(adapter)

\* sync fills in a pin only where it has read none.
Synced(p) ==
  LET o == op[p]
  IN  /\ At(p, "synced")
      /\ row' = [row EXCEPT ![o.acct].conn = "CONNECTED",
                            ![o.acct].pin = IF o.seen.pin = None /\ o.bound # None THEN o.bound ELSE @]
      /\ Then(p, <<>>)
      /\ UNCHANGED counts /\ Calm /\ KeepUsed(adapter)

\* bindCapitalAccount changes the adapter, and not what it has registered.
BindAdapter(p) ==
  /\ At(p, "bind")
  /\ Then(p, <<>>)
  /\ UNCHANGED <<row, counts>> /\ Calm
  /\ KeepUsed([adapter EXCEPT ![op[p].mine].pin = op[p].target])

WriteBound(p) ==
  /\ At(p, "bound")
  /\ row' = [row EXCEPT ![op[p].acct].conn = "CONNECTED", ![op[p].acct].pin = op[p].target]
  /\ Then(p, <<>>)
  /\ UNCHANGED counts /\ Calm /\ KeepUsed(adapter)

Archive(p) ==
  /\ At(p, "archived")
  /\ row' = [row EXCEPT ![op[p].acct].archived = TRUE, ![op[p].acct].conn = "DISCONNECTED"]
  /\ Then(p, <<>>)
  /\ UNCHANGED counts /\ Calm /\ KeepUsed(adapter)

ForgetAdapter(p) ==
  /\ At(p, "forget")
  /\ registry' = [registry EXCEPT ![op[p].acct] = None]
  /\ Then(p, <<>>)
  /\ UNCHANGED <<row, cred, refs, booting, counts>> /\ KeepUsed(adapter)

Store(p) ==
  /\ At(p, "store")
  /\ cred' = [cred EXCEPT ![op[p].acct] = @ + 1]
  /\ Then(p, <<>>)
  /\ UNCHANGED <<row, registry, refs, booting, counts>> /\ KeepUsed(adapter)

Warmed(p) ==
  /\ At(p, "warmed")
  /\ IF op[p].seen.conn = "CONNECTED" THEN UNCHANGED row ELSE Write(op[p].acct, "CONNECTED")
  /\ Then(p, <<>>)
  /\ UNCHANGED counts /\ Calm /\ KeepUsed(adapter)

End(p) ==
  /\ At(p, "end")
  /\ op' = [op EXCEPT ![p] = Over]
  /\ UNCHANGED <<row, counts>> /\ Calm /\ KeepUsed(adapter)

Step(p) ==
  \/ Enter(p) \/ Leave(p) \/ Drop(p) \/ Load(p) \/ Pick(p) \/ Opened(p)
  \/ Get(p) \/ WriteConnecting(p) \/ TakeAdapter(p) \/ Health(p) \/ Alive(p) \/ State(p)
  \/ Siblings(p) \/ Richest(p) \/ WriteConnected(p) \/ PersistState(p) \/ Persisted(p) \/ Stash(p)
  \/ WriteDisconnected(p) \/ WriteError(p) \/ Synced(p) \/ BindAdapter(p) \/ WriteBound(p)
  \/ Archive(p) \/ ForgetAdapter(p) \/ Store(p) \/ Warmed(p) \/ End(p)

-----------------------------------------------------------------------------
(***************************************************************************)
(* Who asks                                                                *)
(***************************************************************************)
Idle(p) == op[p].todo = <<>>
Others(a) == {p \in Procs : ~Idle(p) /\ op[p].acct = a}

\* An operation begins with the row it has read; those of the same account are
\* no longer alone.
Begin(p, kind, a, target, steps) ==
  op' = [q \in Procs |->
    IF q = p THEN [Over EXCEPT !.kind = kind, !.acct = a, !.seen = row[a], !.target = target,
                     !.todo = steps, !.alone = (Others(a) = {})]
    ELSE IF q \in Others(a) THEN [op[q] EXCEPT !.alone = FALSE]
    ELSE op[q]]

ConnectSteps ==
  <<"connecting", "enter", "health", "state", "siblings", "connected", "persist", "end">>
SyncSteps == <<"adapter", "state", "persist", "health", "synced">>

\* What each handler awaits, in order (the list of sub-accounts awaits what a sync
\* begins with); an adapter that works is what START looks for.
Steps(kind, a) ==
  CASE kind = "connect" -> ConnectSteps
    [] kind = "disconnect" -> <<"stash", "disconnected">>
    [] kind = "sync" -> SyncSteps
    [] kind = "bind" -> <<"adapter", "bind", "bound", "get">> \o SyncSteps
    [] kind = "archive" -> <<"stash", "forget", "archived">>
    [] kind = "creds" -> <<"stash", "forget", "store", "disconnected", "get">> \o ConnectSteps
    [] kind = "ready" -> IF registry[a] # None /\ row[a].conn = "CONNECTED" THEN <<"end">>
                         ELSE <<"connecting", "enter", "alive", "connected", "persist">>

Request(d, kind, a) ==
  /\ Idle(d) /\ booting = {} /\ Idle(Boot)
  /\ asks < MaxAsks /\ asks' = asks + 1
  /\ ~row[a].archived
  /\ \E s \in IF kind = "bind" THEN Subs ELSE {None} : Begin(d, kind, a, s, Steps(kind, a))
  /\ UNCHANGED <<row, cred, broker, booting, faults>>

\* The tick connects an account whose row says CONNECTED.
TickConnects(a) ==
  /\ Idle(Tick) /\ booting = {} /\ Idle(Boot)
  /\ row[a].conn = "CONNECTED" /\ registry[a] = None
  /\ Begin(Tick, "tick", a, None, <<"enter">>)
  /\ UNCHANGED <<row, cred, broker, booting, counts>>

\* Before the candles, a bot connects its first account, whatever the row says.
Warm(a) ==
  /\ Idle(Tick) /\ booting = {} /\ Idle(Boot)
  /\ registry[a] = None
  /\ Begin(Tick, "warm", a, None, <<"enter", "warmed">>)
  /\ UNCHANGED <<row, cred, broker, booting, counts>>

\* Mutant of Restored: only what was CONNECTED.
RestoredConnected == {a \in Accounts : ~row[a].archived /\ row[a].conn = "CONNECTED"}

\* What restoreAll restores.
Restored == {a \in Accounts : ~row[a].archived /\ row[a].conn \in {"CONNECTED", "CONNECTING"}}

Crash ==
  /\ Fault
  /\ registry' = [a \in Accounts |-> None]
  /\ adapter' = [h \in Handles |-> Blank]
  /\ refs' = [a \in Accounts |-> None]
  /\ op' = [p \in Procs |-> Over]
  /\ booting' = Restored
  /\ UNCHANGED <<row, cred>>

\* Requests and ticks wait for the end of restoreAll.
Restore(a) ==
  /\ Idle(Boot) /\ a \in booting
  /\ booting' = booting \ {a}
  /\ Begin(Boot, Boot, a, None, <<"enter", "persist">>)
  /\ UNCHANGED <<row, cred, broker, counts>>

-----------------------------------------------------------------------------
AccountsNext ==
  \/ \E p \in Procs : Step(p)
  \/ \E d \in Desks, kind \in Asks, a \in Accounts : Request(d, kind, a)
  \/ \E a \in Watched : TickConnects(a) \/ Warm(a)
  \/ \E a \in Accounts : Restore(a)
  \/ Crash

\* A handler goes on; the tick and restoreAll come to every account.
Fairness ==
  /\ \A p \in Procs : WF_accountVars(Step(p))
  /\ \A a \in Watched : SF_accountVars(TickConnects(a))
  /\ \A a \in Accounts : WF_accountVars(Restore(a))

AccountsSpec == AccountsInit /\ [][AccountsNext]_accountVars
AccountsFairSpec == AccountsSpec /\ Fairness

-----------------------------------------------------------------------------
(***************************************************************************)
(* Properties                                                              *)
(***************************************************************************)
\* An account that is not archived does not stay CONNECTING: connect and START end it, and when the
\* API dies between the two writes restoreAll does (connectionStatus in CONNECTED,
\* CONNECTING).
ConnectingEnds ==
  \A a \in Accounts : row[a].conn = "CONNECTING" ~> row[a].conn # "CONNECTING" \/ row[a].archived

\* An account that has a bot and is CONNECTED gets a working adapter, whatever
\* disconnects, failures and restarts left it without one, or does not stay
\* CONNECTED.
Working(a) == registry[a] # None /\ adapter[registry[a]].up
ConnectedIsServed ==
  \A a \in Watched : row[a].conn = "CONNECTED" ~> Working(a) \/ row[a].conn # "CONNECTED"

\* Whatever happened to the account before, a connect that has it for itself ends
\* with an adapter on the sub-account of the row, if the row has one, and one that
\* follows new credentials with an adapter that uses them.  An adapter that was
\* found without a sub-account (its siblings had taken them all) is kept, and ends
\* on the best one instead.
ConnectSettles ==
  \A p \in Desks :
    LET o == op[p]  h == registry[o.acct]
    IN  At(p, "end") /\ o.alone /\ o.kind \in {"connect", "creds"} =>
          /\ h # None
          /\ \/ row[o.acct].pin \in {None, adapter[h].pin}
             \/ o.bound = None /\ adapter[h].pin = Best(Subs)
          /\ o.kind = "creds" => adapter[h].cred = cred[o.acct]

=============================================================================
