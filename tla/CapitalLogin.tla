--------------------------- MODULE CapitalLogin ---------------------------
(***************************************************************************)
(* How the adapters of capital-com-adapter.ts share one Capital.com login: *)
(* the session tokens, the login lock and the sub-account the session is   *)
(* on.  The adapters are connected and pinned to a sub-account each.       *)
(*                                                                         *)
(* Every HTTP request is a step.  todo[p] is what the call that p runs has *)
(* still to do, an await after another; a step may put others before the   *)
(* rest, as a call does.  CapitalPlacement gives the requests of the       *)
(* trading calls a meaning.                                                *)
(***************************************************************************)
EXTENDS Integers, SequencesExt, FiniteSetsExt

CONSTANTS
  Procs,        \* calls that may run at the same time
  Adapters,     \* VS accounts that share the login
  AdapterOf,    \* the adapter of each
  SubAccounts,  \* sub-accounts of the login
  Pin,          \* targetExternalAccountId of each adapter
  Preferred,    \* the sub-account of a new session
  MaxExpiries   \* bound: sessions the broker ends

ASSUME LoginAssumption ==
  /\ AdapterOf \in [Procs -> Adapters] /\ Pin \in [Adapters -> SubAccounts]
  /\ Preferred \in SubAccounts /\ MaxExpiries \in Nat

VARIABLES
  live,      \* the token the broker takes (the broker's)
  active,    \* the sub-account the session is on (the broker's)
  logins,    \* sessions made so far
  expiries,  \* sessions the broker ended
  shared,    \* sharedByLogin: tokens
  tokens,    \* this.tokens of each adapter
  queue,     \* the promise chain of the login lock; its head holds the lock
  todo,      \* what each call has still to do
  retried    \* has the request under way been sent again after a 401?

brokerSession == <<live, active, logins, expiries>>
sessionVars == <<brokerSession, shared, tokens>>
loginVars == <<sessionVars, queue, todo, retried>>

NoToken == 0

InitLogin ==
  /\ live = 1 /\ logins = 1 /\ expiries = 0
  /\ active \in SubAccounts
  /\ shared = live
  /\ tokens = [a \in Adapters |-> live]
  /\ queue = <<>>
  /\ todo = [p \in Procs |-> <<>>]
  /\ retried = [p \in Procs |-> FALSE]

At(p, step) == todo[p] # <<>> /\ Head(todo[p]) = step
AtOneOf(p, steps) == todo[p] # <<>> /\ Head(todo[p]) \in steps
Then(p, steps) == todo' = [todo EXCEPT ![p] = steps \o Tail(@)]
Holds(p) == queue # <<>> /\ Head(queue) = p

\* Steps that a call goes on with when one before them throws.
Handlers == {"closeNaked", "reject"}

\* An exception goes to the next handler; without one the call is over, once its
\* `finally' has released the lock.
Throw(p) ==
  LET rest == Tail(todo[p])
      catches == {i \in DOMAIN rest : rest[i] \in Handlers}
  IN  /\ todo' = [todo EXCEPT ![p] = IF catches # {} THEN SubSeq(rest, Min(catches), Len(rest))
                                     ELSE IF Holds(p) THEN <<"unlock">> ELSE <<>>]
      /\ retried' = [retried EXCEPT ![p] = FALSE]

Valid(p) == live # NoToken /\ tokens[AdapterOf[p]] = live

\* Mutant of Pulled: an adapter knows only the tokens it got itself.
PulledOwn(a) == tokens[a]

\* pullSharedTokens
Pulled(a) == IF shared # NoToken THEN shared ELSE tokens[a]
Pull(p) == tokens' = [tokens EXCEPT ![AdapterOf[p]] = Pulled(AdapterOf[p])]

-----------------------------------------------------------------------------
(***************************************************************************)
(* withLoginLock: first come first served, and entered again by the call   *)
(* that holds it                                                           *)
(***************************************************************************)
Lock(p) ==
  /\ At(p, "lock") /\ Holds(p)
  /\ Pull(p) /\ Then(p, <<>>)
  /\ UNCHANGED <<brokerSession, shared, queue, retried>>

Unlock(p) ==
  /\ At(p, "unlock")
  /\ shared' = IF tokens[AdapterOf[p]] # NoToken THEN tokens[AdapterOf[p]] ELSE shared
  /\ queue' = Tail(queue)
  /\ Then(p, <<>>)
  /\ UNCHANGED <<brokerSession, tokens, retried>>

-----------------------------------------------------------------------------
(***************************************************************************)
(* The session                                                             *)
(***************************************************************************)
\* A ping only after eight idle minutes, which may have passed or not.
EnsureSession(p) ==
  /\ At(p, "ensure")
  /\ Pull(p)
  /\ IF Pulled(AdapterOf[p]) = NoToken THEN Then(p, <<"create">>)
     ELSE Then(p, <<>>) \/ Then(p, <<"ping">>)
  /\ UNCHANGED <<brokerSession, shared, queue, retried>>

Ping(p) ==
  /\ At(p, "ping")
  /\ Then(p, IF Valid(p) THEN <<>> ELSE <<"create">>)
  /\ UNCHANGED <<sessionVars, queue, retried>>

\* Mutant of CreateSession: the lock is not entered again.
CreateSessionQueued(p) ==
  /\ AtOneOf(p, {"create", "session"})
  /\ IF At(p, "create")
     THEN /\ Then(p, <<"lock", "session", "unlock">>)
          /\ queue' = Append(queue, p)
          /\ UNCHANGED tokens
     ELSE /\ Pull(p) /\ UNCHANGED queue
          /\ Then(p, IF Pulled(AdapterOf[p]) # NoToken THEN <<"probe">> ELSE <<"login">>)
  /\ UNCHANGED <<brokerSession, shared, retried>>

\* createSession and, under the lock, createSessionUnlocked: a sibling's session
\* is used while it lives.
CreateSession(p) ==
  /\ AtOneOf(p, {"create", "session"})
  /\ IF At(p, "create") /\ ~Holds(p)
     THEN /\ Then(p, <<"lock", "session", "unlock">>)
          /\ queue' = Append(queue, p)
          /\ UNCHANGED tokens
     ELSE /\ Pull(p) /\ UNCHANGED queue
          /\ Then(p, IF Pulled(AdapterOf[p]) # NoToken THEN <<"probe">> ELSE <<"login">>)
  /\ UNCHANGED <<brokerSession, shared, retried>>

Probe(p) ==
  /\ At(p, "probe")
  /\ IF Valid(p)
     THEN Then(p, <<"pin">>) /\ UNCHANGED <<tokens, shared>>
     ELSE /\ Then(p, <<"login">>)
          /\ tokens' = [tokens EXCEPT ![AdapterOf[p]] = NoToken] /\ shared' = NoToken
  /\ UNCHANGED <<brokerSession, queue, retried>>

\* Mutant of Login: the sub-account is not bound again.
LoginUnpinned(p) ==
  /\ At(p, "login")
  /\ logins' = logins + 1 /\ live' = logins' /\ active' = Preferred
  /\ tokens' = [tokens EXCEPT ![AdapterOf[p]] = live'] /\ shared' = live'
  /\ Then(p, <<>>)
  /\ UNCHANGED <<expiries, queue, retried>>

\* A new session ends the one before and is on the preferred sub-account.
Login(p) ==
  /\ At(p, "login")
  /\ logins' = logins + 1 /\ live' = logins' /\ active' = Preferred
  /\ tokens' = [tokens EXCEPT ![AdapterOf[p]] = live'] /\ shared' = live'
  /\ Then(p, <<"pin">>)
  /\ UNCHANGED <<expiries, queue, retried>>

\* switchSessionAccount reads the session's sub-account and changes it if need
\* be.  "pin" is the same inside a try that swallows its exception.
SwitchAccount(p) ==
  /\ AtOneOf(p, {"switch", "pin"})
  /\ Then(p, IF Valid(p) /\ active = Pin[AdapterOf[p]] THEN <<>>
             ELSE IF At(p, "switch") THEN <<"put">> ELSE <<"pinPut">>)
  /\ UNCHANGED <<sessionVars, queue, retried>>

PutAccount(p) ==
  /\ AtOneOf(p, {"put", "pinPut"})
  /\ IF Valid(p) THEN active' = Pin[AdapterOf[p]] /\ Then(p, <<>>) /\ UNCHANGED retried
     ELSE /\ UNCHANGED active
          /\ IF At(p, "put") THEN Throw(p) ELSE Then(p, <<>>) /\ UNCHANGED retried
  /\ UNCHANGED <<live, logins, expiries, shared, tokens, queue>>

\* request(): a request with no token, or whose token the broker does not take,
\* gets a session first, the latter once.  Polling for a confirmation starts a new
\* request instead of throwing.
Unauthorised(p) ==
  LET a == AdapterOf[p]
      again == todo' = [todo EXCEPT ![p] = <<"create">> \o @]
  IN  /\ ~Valid(p)
      /\ IF tokens[a] = NoToken THEN again /\ UNCHANGED <<tokens, retried>>
         ELSE IF retried[p] /\ ~At(p, "confirm") THEN Throw(p) /\ UNCHANGED tokens
         ELSE /\ again
              /\ tokens' = [tokens EXCEPT ![a] = NoToken]
              /\ retried' = [retried EXCEPT ![p] = TRUE]
      /\ UNCHANGED <<brokerSession, shared, queue>>

\* What a request that was answered is followed by.
Answered(p, steps) ==
  /\ Valid(p)
  /\ Then(p, steps)
  /\ retried' = [retried EXCEPT ![p] = FALSE]
  /\ UNCHANGED <<sessionVars, queue>>

\* The broker ends the session, or a login from elsewhere does.
Expire ==
  /\ live # NoToken /\ expiries < MaxExpiries
  /\ live' = NoToken /\ expiries' = expiries + 1
  /\ UNCHANGED <<active, logins, shared, tokens, queue, todo, retried>>

\* cancelOrder, modifyOrder and getOpenOrders take no lock and do not switch.
BeginLoose(p) ==
  /\ todo[p] = <<>>
  /\ todo' = [todo EXCEPT ![p] = <<"ensure", "loose">>]
  /\ UNCHANGED <<sessionVars, queue, retried>>

LooseRequest(p) == At(p, "loose") /\ Answered(p, <<>>)

SessionStep(p) ==
  \/ Lock(p) \/ Unlock(p)
  \/ EnsureSession(p) \/ Ping(p) \/ CreateSession(p) \/ Probe(p) \/ Login(p)
  \/ SwitchAccount(p) \/ PutAccount(p)
  \/ LooseRequest(p)
=============================================================================
