--------------------------- MODULE CapitalProofs ---------------------------
(***************************************************************************)
(* Proofs about CapitalLogin and CapitalPlacement for any adapters of one  *)
(* login, any calls and requests, and any number of sessions that end and  *)
(* of requests that are lost.                                              *)
(***************************************************************************)
EXTENDS CapitalPlacement, FiniteSetTheorems, WellFoundedInduction, TLAPS

\* What a call does outside of the login lock, and what only under it, from
\* waiting for it on.
Outer == {"ensure", "ping", "create", "loose", "unlock"}
Inner == {"lock", "session", "probe", "login", "pin", "pinPut", "switch", "put",
          "confirm", "closeNaked", "reject"} \cup LockedRequests
Names == Outer \cup Inner

\* u is where the lock is released, or 0: once, and after everything that needs
\* it.  Waiting for the lock, and logging in, are next or not due.
ShapeAt(t, u) ==
  /\ u \in 0..Len(t)
  /\ u # 0 => t[u] = "unlock"
  /\ \A i \in 1..Len(t) : /\ t[i] = "unlock" => i = u
                          /\ t[i] \in Inner => i < u
                          /\ t[i] \in {"lock", "login"} => i = 1

Shaped(t) == t \in Seq(Names) /\ \E u \in 0..Len(t) : ShapeAt(t, u)
Unlocks(t) == \E i \in 1..Len(t) : t[i] = "unlock"

\* Whoever is in the queue will release the lock; all but the first wait for it.
LockInv ==
  /\ todo \in [Procs -> Seq(Names)]
  /\ queue \in Seq(Procs)
  /\ \A p \in Procs : Shaped(todo[p])
  /\ \A i, j \in 1..Len(queue) : queue[i] = queue[j] => i = j
  /\ \A i \in 1..Len(queue) : Unlocks(todo[queue[i]])
  /\ \A p \in Procs : Unlocks(todo[p]) => \E i \in 1..Len(queue) : queue[i] = p
  /\ \A i \in 1..Len(queue) : i > 1 => At(queue[i], "lock")

-----------------------------------------------------------------------------
\* Numbers have a least one.
LEMMA LeastOf ==
  ASSUME NEW S \in SUBSET Nat, S # {}
  PROVE  Min(S) \in S /\ \A y \in S : Min(S) <= y
<1> DEFINE R == OpToRel(<, Nat)
<1>1. PICK x \in S : \A y \in S : <<y, x>> \notin R
  <2> HIDE DEF R
  <2>1. IsWellFoundedOn(R, Nat)
    BY NatLessThanWellFounded DEF R
  <2> QED
    BY <2>1, WFMin
<1>2. \A y \in S : ~(y < x)
  BY <1>1 DEF OpToRel
<1>3. \E z \in S : \A y \in S : z =< y
  BY <1>2
<1>4. Min(S) = CHOOSE z \in S : \A y \in S : z =< y
  BY DEF Min
<1> QED
  BY <1>3, <1>4

\* What is put before the rest of a list of things to do, and where the rest is.
LEMMA Prefix ==
  ASSUME NEW t \in Seq(Names), t # <<>>, NEW s \in Seq(Names)
  PROVE  /\ s \o Tail(t) \in Seq(Names)
         /\ Len(s \o Tail(t)) = Len(s) + Len(t) - 1
         /\ \A i \in 1..Len(s) : (s \o Tail(t))[i] = s[i]
         /\ \A i \in 1..(Len(t) - 1) : (s \o Tail(t))[Len(s) + i] = t[i + 1]
         /\ \A i \in (Len(s) + 1)..(Len(s) + Len(t) - 1) : (s \o Tail(t))[i] = t[i - Len(s) + 1]
  OBVIOUS

\* Steps that may replace the one at the head of t.
Fits(t, s) ==
  /\ s \in Seq(Names)
  /\ \A i \in 1..Len(s) : s[i] \notin {"unlock", "lock"} /\ (s[i] = "login" => i = 1)
  /\ Unlocks(t) \/ \A i \in 1..Len(s) : s[i] \notin Inner

\* Where the rest keeps its shape and its unlock.
LEMMA ThenShaped ==
  ASSUME NEW t, Shaped(t), t # <<>>, Head(t) # "unlock", NEW s, Fits(t, s)
  PROVE  Shaped(s \o Tail(t)) /\ (Unlocks(s \o Tail(t)) <=> Unlocks(t))
<1>1. PICK u \in 0..Len(t) : ShapeAt(t, u)
  BY DEF Shaped
<1>2. u # 1 /\ t \in Seq(Names) /\ s \in Seq(Names)
  BY <1>1 DEF ShapeAt, Shaped, Fits
<1>3. Unlocks(t) <=> u > 1
  BY <1>1, <1>2 DEF ShapeAt, Unlocks
<1>4. ShapeAt(s \o Tail(t), IF u > 1 THEN Len(s) + u - 1 ELSE 0)
  BY <1>1, <1>2, <1>3, Prefix DEF ShapeAt, Fits
<1>5. Unlocks(s \o Tail(t)) <=> u > 1
  BY <1>1, <1>2, <1>4, Prefix DEF ShapeAt, Unlocks
<1>6. (IF u > 1 THEN Len(s) + u - 1 ELSE 0) \in 0..Len(s \o Tail(t))
  BY <1>4 DEF ShapeAt
<1> QED
  BY <1>2, <1>3, <1>4, <1>5, <1>6, Prefix DEF Shaped

\* A step that needs the lock is followed by its release.
LEMMA InnerUnlocks ==
  ASSUME NEW t, Shaped(t), t # <<>>, Head(t) \in Inner
  PROVE  Unlocks(t)
  BY DEF Shaped, ShapeAt, Unlocks

\* A session made anew goes before the request that is sent again.
LEMMA AgainShaped ==
  ASSUME NEW t, Shaped(t), t # <<>>, Head(t) \notin {"lock", "login"}
  PROVE  Shaped(<<"create">> \o t) /\ (Unlocks(<<"create">> \o t) <=> Unlocks(t))
<1>1. PICK u \in 0..Len(t) : ShapeAt(t, u)
  BY DEF Shaped
<1>2. t \in Seq(Names) /\ <<"create">> \in Seq(Names)
  BY DEF Shaped, Names, Outer
<1> DEFINE c == <<"create">> \o t
<1>3. /\ c \in Seq(Names) /\ Len(c) = Len(t) + 1 /\ c[1] = "create"
      /\ \A i \in 1..Len(t) : c[i + 1] = t[i]
      /\ \A i \in 2..Len(c) : c[i] = t[i - 1]
  BY <1>2
<1> HIDE DEF c
<1>4. ShapeAt(c, IF u = 0 THEN 0 ELSE u + 1)
  BY <1>1, <1>2, <1>3 DEF ShapeAt, Inner, LockedRequests, Posts
<1>5. Unlocks(c) <=> Unlocks(t)
  <2>1. ASSUME NEW i \in 1..Len(t), t[i] = "unlock" PROVE i + 1 \in 1..Len(c) /\ c[i + 1] = "unlock"
    BY <1>2, <1>3, <2>1
  <2>2. ASSUME NEW i \in 1..Len(c), c[i] = "unlock" PROVE i - 1 \in 1..Len(t) /\ t[i - 1] = "unlock"
    BY <1>2, <1>3, <2>2
  <2> QED
    BY <2>1, <2>2 DEF Unlocks
<1>6. (IF u = 0 THEN 0 ELSE u + 1) \in 0..Len(c)
  BY <1>4 DEF ShapeAt
<1> QED
  BY <1>3, <1>4, <1>5, <1>6 DEF Shaped, c

\* What an exception leaves to do.
After(p) ==
  LET rest == Tail(todo[p])
      catches == {i \in DOMAIN rest : rest[i] \in Handlers}
  IN  IF catches # {} THEN SubSeq(rest, Min(catches), Len(rest))
      ELSE IF Holds(p) THEN <<"unlock">> ELSE <<>>

\* The handlers of a call come before it releases the lock.
LEMMA ThrowShaped ==
  ASSUME LockInv, NEW p \in Procs, todo[p] # <<>>, Head(todo[p]) \notin {"lock", "unlock"}
  PROVE  Shaped(After(p)) /\ (Unlocks(After(p)) <=> Unlocks(todo[p]))
<1> DEFINE t == todo[p]
           rest == Tail(t)
           catches == {i \in DOMAIN rest : rest[i] \in Handlers}
<1>1. PICK u \in 0..Len(t) : ShapeAt(t, u)
  BY DEF LockInv, Shaped
<1>2. /\ t \in Seq(Names) /\ rest \in Seq(Names) /\ Len(rest) = Len(t) - 1
      /\ \A i \in 1..Len(rest) : rest[i] = t[i + 1]
  BY DEF LockInv
<1>3. u # 1
  BY <1>1 DEF ShapeAt
<1>4. CASE catches # {}
  <2> DEFINE m == Min(catches)
  <2>1. m \in catches
    <3>1. catches \in SUBSET Nat
      BY <1>2
    <3> HIDE DEF catches
    <3> QED
      BY <1>4, <3>1, LeastOf
  <2> HIDE DEF m
  <2> DEFINE v == SubSeq(rest, m, Len(rest))
  <2>2. m \in 1..Len(rest) /\ rest[m] \in Handlers
    BY <1>2, <2>1
  <2>3. /\ v \in Seq(Names) /\ Len(v) = Len(rest) - m + 1
        /\ \A i \in 1..Len(v) : v[i] = rest[m + i - 1]
    BY <1>2, <2>2
  <2>8. After(p) = v
    BY <1>4 DEF After, v, m
  <2>9. m \in Nat /\ Len(rest) \in Nat /\ Len(t) \in Nat /\ Len(t) = Len(rest) + 1
    BY <1>2, <2>2
  <2> HIDE DEF v, rest, t, catches
  <2>4. u > m + 1
    BY <1>1, <1>2, <2>2 DEF ShapeAt, Handlers, Inner
  <2>5. \A i \in 1..Len(v) : v[i] = t[m + i]
    BY <1>2, <2>2, <2>3
  <2>6. ShapeAt(v, u - m)
    <3>1. u \in 1..Len(t) /\ t[u] = "unlock" /\ m \in Nat /\ u - m \in 1..Len(v)
      BY <1>1, <1>2, <2>2, <2>3, <2>4 DEF ShapeAt
    <3>2. v[u - m] = t[u]
      <4>1. m + (u - m) = u
        BY <3>1
      <4> QED
        BY <2>5, <3>1, <4>1
    <3>3. ASSUME NEW i \in 1..Len(v)
          PROVE  /\ v[i] = "unlock" => i = u - m
                 /\ v[i] \in Inner => i < u - m
                 /\ v[i] \in {"lock", "login"} => i = 1
      <4>1. m + i \in 1..Len(t) /\ m + i > 1 /\ v[i] = t[m + i]
        BY <2>2, <2>3, <2>5, <2>9
      <4>2. /\ t[m + i] = "unlock" => m + i = u
            /\ t[m + i] \in Inner => m + i < u
            /\ t[m + i] \in {"lock", "login"} => m + i = 1
        <5>1. \A k \in 1..Len(t) : /\ t[k] = "unlock" => k = u
                                   /\ t[k] \in Inner => k < u
                                   /\ t[k] \in {"lock", "login"} => k = 1
          BY <1>1 DEF ShapeAt
        <5> QED
          BY <4>1, <5>1
      <4> QED
        BY <1>1, <3>1, <4>1, <4>2
    <3> QED
      BY <3>1, <3>2, <3>3 DEF ShapeAt
  <2>7. v[u - m] = "unlock" /\ t[u] = "unlock" /\ u - m \in 0..Len(v) /\ u - m \in 1..Len(v)
        /\ u \in 1..Len(t)
    BY <1>1, <1>2, <2>2, <2>4, <2>6 DEF ShapeAt
  <2> QED
    <3>1. Shaped(v)
      BY <2>3, <2>6, <2>7 DEF Shaped
    <3>2. Unlocks(v) /\ Unlocks(t)
      BY <2>7 DEF Unlocks
    <3> QED
      BY <2>8, <3>1, <3>2 DEF t
<1>5. CASE catches = {}
  <2>1. After(p) = IF Holds(p) THEN <<"unlock">> ELSE <<>>
    BY <1>5 DEF After
  <2>2. Unlocks(t) <=> Holds(p)
    <3>1. Holds(p) => 1 \in 1..Len(queue) /\ queue[1] = p
      BY DEF LockInv, Holds
    <3>2. ASSUME NEW i \in 1..Len(queue), queue[i] = p PROVE i = 1
      BY <3>2 DEF LockInv, At
    <3>3. \A i \in 1..Len(queue) : queue[i] = p => Holds(p)
      BY <3>2 DEF LockInv, Holds
    <3> QED
      BY <3>1, <3>3 DEF LockInv
  <2>3. Shaped(<<"unlock">>) /\ Shaped(<<>>)
    BY DEF Shaped, ShapeAt, Inner, Names, Outer, LockedRequests, Posts
  <2>4. Unlocks(<<"unlock">>) /\ ~Unlocks(<<>>)
    BY DEF Unlocks
  <2> QED
    BY <2>1, <2>2, <2>3, <2>4
<1> QED
  BY <1>4, <1>5

-----------------------------------------------------------------------------
\* What a call puts before the rest of what it has to do: no lock is waited for
\* or released in it, and a login comes first.
Plain(s) ==
  /\ s \in Seq(Names)
  /\ \A i \in 1..Len(s) : s[i] \notin {"unlock", "lock"} /\ (s[i] = "login" => i = 1)

\* What calls do next when a request was answered: those that trade, and all.
TradeNext ==
  {<<>>, <<"confirm">>, <<"bare">>, <<"bareLast">>, <<"reject">>, <<"ensure", "switch", "stop">>,
   <<"ensure", "switch", "search">>, <<"ensure", "switch", "searchRejected">>,
   <<"ensure", "switch", "searchRejected", "reject">>, <<"ensure", "switch", "close">>, Attach}
NextSteps == TradeNext \cup {<<"probe">>, <<"login">>, <<"pin">>, <<"pinPut">>, <<"put">>}

\* All of these are plain; outside of the lock a call puts few.
LEMMA StepsArePlain ==
  /\ \A s \in NextSteps : Plain(s)
  /\ Plain(<<"create">>) /\ Plain(<<"ping">>)
  /\ \A i \in 1..Len(<<"create">>) : <<"create">>[i] \notin Inner
  /\ \A i \in 1..Len(<<"ping">>) : <<"ping">>[i] \notin Inner
<1> USE DEF Plain, Names, Outer, Inner, LockedRequests, Posts
<1>1. /\ Plain(<<>>) /\ Plain(<<"probe">>) /\ Plain(<<"login">>) /\ Plain(<<"pin">>)
      /\ Plain(<<"pinPut">>) /\ Plain(<<"put">>) /\ Plain(<<"confirm">>) /\ Plain(<<"bare">>)
  OBVIOUS
<1>2. /\ Plain(<<"bareLast">>) /\ Plain(<<"reject">>) /\ Plain(<<"create">>) /\ Plain(<<"ping">>)
  OBVIOUS
<1>3. Plain(<<"ensure", "switch", "stop">>) /\ Plain(<<"ensure", "switch", "search">>)
  OBVIOUS
<1>4. Plain(<<"ensure", "switch", "searchRejected">>) /\ Plain(<<"ensure", "switch", "close">>)
  OBVIOUS
<1>5. Plain(<<"ensure", "switch", "searchRejected", "reject">>)
  OBVIOUS
<1>6. Plain(Attach)
  BY DEF Attach
<1>7. /\ \A i \in 1..Len(<<"create">>) : <<"create">>[i] \notin Inner
      /\ \A i \in 1..Len(<<"ping">>) : <<"ping">>[i] \notin Inner
  OBVIOUS
<1> QED
  BY <1>1, <1>2, <1>3, <1>4, <1>5, <1>6, <1>7 DEF NextSteps, TradeNext

\* A call that goes on, and neither waits for the lock nor releases it.
GoesOn(p) ==
  /\ UNCHANGED queue
  /\ ~At(p, "lock") \/ Holds(p)
  /\ \E t : /\ todo' = [todo EXCEPT ![p] = t]
            /\ Shaped(t)
            /\ Unlocks(t) <=> Unlocks(todo[p])

\* A call that needs the lock to have its session made.
Enters(p) ==
  /\ At(p, "create") /\ ~Holds(p)
  /\ Then(p, <<"lock", "session", "unlock">>)
  /\ queue' = Append(queue, p)

\* It goes on where the next steps are put before the rest.
LEMMA ThenGoesOn ==
  ASSUME LockInv, NEW p \in Procs, todo[p] # <<>>, Head(todo[p]) # "unlock",
         ~At(p, "lock") \/ Holds(p), UNCHANGED queue,
         NEW s, Plain(s), Then(p, s),
         Head(todo[p]) \in Inner \/ Holds(p) \/ \A i \in 1..Len(s) : s[i] \notin Inner
  PROVE  GoesOn(p)
<1>1. Shaped(todo[p])
  BY DEF LockInv
<1>2. Holds(p) => Unlocks(todo[p])
  <2>1. Holds(p) => 1 \in 1..Len(queue) /\ queue[1] = p
    BY DEF LockInv, Holds
  <2> QED
    BY <2>1 DEF LockInv
<1>3. Fits(todo[p], s)
  BY <1>1, <1>2, InnerUnlocks DEF Plain, Fits
<1>4. todo' = [todo EXCEPT ![p] = s \o Tail(todo[p])]
  BY DEF Then
<1> QED
  BY <1>1, <1>3, <1>4, ThenShaped DEF GoesOn

\* So does a call whose request needs the lock and is answered, one that throws,
\* and one that sends its request again.
LEMMA InnerGoesOn ==
  ASSUME LockInv, NEW p \in Procs, todo[p] # <<>>, Head(todo[p]) \in Inner \ {"lock"},
         UNCHANGED queue, \E s \in NextSteps : Then(p, s)
  PROVE  GoesOn(p)
<1>1. Head(todo[p]) # "unlock" /\ ~At(p, "lock")
  BY DEF Inner, LockedRequests, Posts, At
<1> QED
  BY <1>1, StepsArePlain, ThenGoesOn

\* An exception.
LEMMA ThrowGoesOn ==
  ASSUME LockInv, NEW p \in Procs, todo[p] # <<>>, Head(todo[p]) \notin {"lock", "unlock"},
         UNCHANGED queue, Throw(p)
  PROVE  GoesOn(p)
<1>1. todo' = [todo EXCEPT ![p] = After(p)]
  BY DEF Throw, After
<1> QED
  BY <1>1, ThrowShaped DEF GoesOn, At

\* A request that is not authorised.
LEMMA UnauthorisedGoesOn ==
  ASSUME LockInv, NEW p \in Procs, todo[p] # <<>>, Head(todo[p]) \notin {"lock", "unlock", "login"},
         Unauthorised(p)
  PROVE  GoesOn(p)
<1>1. CASE Throw(p)
  BY <1>1, ThrowGoesOn DEF Unauthorised
<1>2. CASE todo' = [todo EXCEPT ![p] = <<"create">> \o @]
  <2>1. Shaped(todo[p])
    BY DEF LockInv
  <2>2. todo' = [todo EXCEPT ![p] = <<"create">> \o todo[p]]
    BY <1>2
  <2>3. UNCHANGED queue /\ ~At(p, "lock")
    BY DEF Unauthorised, At
  <2> QED
    BY <2>1, <2>2, <2>3, AgainShaped DEF GoesOn
<1> QED
  BY <1>1, <1>2 DEF Unauthorised

\* What ends with the release of the lock.
LEMMA EndsShaped ==
  ASSUME NEW s \in Seq(Names),
         \A i \in 1..Len(s) : s[i] # "unlock" /\ (s[i] \in {"lock", "login"} => i = 1)
  PROVE  Shaped(s \o <<"unlock">>) /\ Unlocks(s \o <<"unlock">>)
<1> DEFINE t == s \o <<"unlock">>
           n == Len(s) + 1
<1>1. "unlock" \in Names /\ "unlock" \notin Inner \cup {"lock", "login"}
  BY DEF Names, Outer, Inner, LockedRequests, Posts
<1>2. /\ t \in Seq(Names) /\ Len(t) = n /\ t[n] = "unlock" /\ n \in 1..Len(t)
      /\ \A i \in 1..Len(t) : i # n => i \in 1..Len(s) /\ t[i] = s[i]
  BY <1>1
<1> HIDE DEF t
<1>3. ShapeAt(t, n)
  BY <1>1, <1>2 DEF ShapeAt
<1> QED
  BY <1>2, <1>3 DEF Shaped, Unlocks, t

\* The request of a call that is over with it: the lock is released next.
LEMMA EndGoesOn ==
  ASSUME LockInv, NEW p \in Procs, todo[p] # <<>>, Head(todo[p]) \in Inner \ {"lock"},
         UNCHANGED queue,
         \/ todo' = [todo EXCEPT ![p] = <<"unlock">>]
         \/ todo' = [todo EXCEPT ![p] = Attach \o <<"unlock">>]
  PROVE  GoesOn(p)
<1>1. Shaped(<<"unlock">>) /\ Unlocks(<<"unlock">>)
  BY DEF Shaped, ShapeAt, Unlocks, Inner, Outer, Names, LockedRequests, Posts
<1>2. Shaped(Attach \o <<"unlock">>) /\ Unlocks(Attach \o <<"unlock">>)
  BY EndsShaped, StepsArePlain DEF Plain, NextSteps, TradeNext
<1>3. Unlocks(todo[p]) /\ ~At(p, "lock")
  BY InnerUnlocks DEF LockInv, At, Inner, LockedRequests, Posts
<1> QED
  BY <1>1, <1>2, <1>3 DEF GoesOn

\* What a call does to the queue and to what it has to do, step by step.
LEMMA SessionMoves ==
  ASSUME LockInv, NEW p \in Procs, SessionStep(p)
  PROVE  GoesOn(p) \/ Enters(p) \/ Unlock(p)
<1> USE DEF At, AtOneOf
<1>1. CASE Lock(p)
  <2>1. /\ todo[p] # <<>> /\ Head(todo[p]) = "lock" /\ Holds(p) /\ UNCHANGED queue
        /\ Then(p, <<>>)
    BY <1>1 DEF Lock
  <2>2. Plain(<<>>) /\ Head(todo[p]) \in Inner
    BY <2>1, StepsArePlain DEF NextSteps, TradeNext, Inner
  <2> QED
    BY <2>1, <2>2, ThenGoesOn
<1>2. CASE EnsureSession(p)
  <2>1. /\ todo[p] # <<>> /\ Head(todo[p]) = "ensure" /\ UNCHANGED queue
        /\ Then(p, <<>>) \/ Then(p, <<"ping">>) \/ Then(p, <<"create">>)
    BY <1>2 DEF EnsureSession
  <2>2. Plain(<<>>) /\ \A i \in 1..Len(<<>>) : <<>>[i] \notin Inner
    BY StepsArePlain DEF NextSteps, TradeNext
  <2> QED
    BY <2>1, <2>2, StepsArePlain, ThenGoesOn
<1>3. CASE Ping(p)
  <2>1. /\ todo[p] # <<>> /\ Head(todo[p]) = "ping" /\ UNCHANGED queue
        /\ Then(p, <<>>) \/ Then(p, <<"create">>)
    BY <1>3 DEF Ping
  <2>2. Plain(<<>>) /\ \A i \in 1..Len(<<>>) : <<>>[i] \notin Inner
    BY StepsArePlain DEF NextSteps, TradeNext
  <2> QED
    BY <2>1, <2>2, StepsArePlain, ThenGoesOn
<1>4. CASE CreateSession(p)
  <2>1. CASE Enters(p)
    BY <2>1
  <2>2. CASE /\ todo[p] # <<>> /\ UNCHANGED queue
             /\ Head(todo[p]) = "session" \/ (Head(todo[p]) = "create" /\ Holds(p))
             /\ Then(p, <<"probe">>) \/ Then(p, <<"login">>)
    <3>1. Plain(<<"probe">>) /\ Plain(<<"login">>) /\ (Head(todo[p]) \in Inner \/ Holds(p))
      BY <2>2, StepsArePlain DEF NextSteps, TradeNext, Inner
    <3> QED
      BY <2>2, <3>1, ThenGoesOn
  <2> QED
    BY <1>4, <2>1, <2>2 DEF CreateSession, Enters
<1>5. CASE Probe(p) \/ Login(p) \/ SwitchAccount(p)
  <2>1. /\ todo[p] # <<>> /\ Head(todo[p]) \in {"probe", "login", "switch", "pin"} /\ UNCHANGED queue
        /\ \E s \in {<<>>, <<"pin">>, <<"login">>, <<"put">>, <<"pinPut">>} : Then(p, s)
    BY <1>5 DEF Probe, Login, SwitchAccount
  <2>2. Head(todo[p]) \in Inner \ {"lock"}
    BY <2>1 DEF Inner
  <2> QED
    BY <2>1, <2>2, InnerGoesOn DEF NextSteps, TradeNext
<1>6. CASE PutAccount(p)
  <2>1. /\ todo[p] # <<>> /\ Head(todo[p]) \in {"put", "pinPut"} /\ UNCHANGED queue
        /\ Then(p, <<>>) \/ Throw(p)
    BY <1>6 DEF PutAccount
  <2>2. Head(todo[p]) \in Inner \ {"lock", "unlock"}
    BY <2>1 DEF Inner
  <2> QED
    BY <2>1, <2>2, InnerGoesOn, ThrowGoesOn DEF NextSteps, TradeNext
<1>7. CASE LooseRequest(p)
  <2>1. /\ todo[p] # <<>> /\ Head(todo[p]) = "loose" /\ UNCHANGED queue /\ Then(p, <<>>)
    BY <1>7 DEF LooseRequest, Answered
  <2>2. Plain(<<>>) /\ \A i \in 1..Len(<<>>) : <<>>[i] \notin Inner
    BY StepsArePlain DEF NextSteps, TradeNext
  <2> QED
    BY <2>1, <2>2, ThenGoesOn
<1> QED
  BY <1>1, <1>2, <1>3, <1>4, <1>5, <1>6, <1>7 DEF SessionStep

\* Where a deal may still be opened, and the steps that lead there.
Opening == Posts \cup {"confirm"}
OpeningNext == {<<"confirm">>, <<"bare">>, <<"bareLast">>}

\* The steps of the trading calls: a step that is answered, the end of the call,
\* an exception.
Turns(p) ==
  \/ \E s \in TradeNext : Then(p, s) /\ (s \in OpeningNext => Head(todo[p]) \in Opening)
  \/ Throw(p)
  \/ todo' = [todo EXCEPT ![p] = <<"unlock">>]
  \/ todo' = [todo EXCEPT ![p] = Attach \o <<"unlock">>]

\* A trading call is at a step that needs the lock and turns from it.
LEMMA TradeTurns ==
  ASSUME NEW p, TradeStep(p)
  PROVE  UNCHANGED queue /\ todo[p] # <<>> /\ Head(todo[p]) \in Inner \ {"lock"} /\ Turns(p)
<1>0. LockedRequests \cup {"confirm", "closeNaked", "reject", "put", "pinPut"} \subseteq Inner \ {"lock"}
  BY DEF Inner, LockedRequests, Posts
<1>1. CASE PostOpens(p) \/ PostRefused(p) \/ PostRefusedEmpty(p)
  <2>1. todo[p] # <<>> /\ Head(todo[p]) \in Posts /\ Then(p, <<"confirm">>) /\ UNCHANGED queue
    BY <1>1 DEF PostOpens, PostRefused, PostRefusedEmpty, Posted, Answered, AtOneOf
  <2>2. <<"confirm">> \in TradeNext /\ Head(todo[p]) \in LockedRequests
    BY <2>1 DEF TradeNext, LockedRequests
  <2> QED
    BY <1>0, <2>1, <2>2 DEF Turns, Opening, OpeningNext, Attach
<1>2. CASE PostFails(p) \/ PostLost(p)
  <2>1. /\ todo[p] # <<>> /\ Head(todo[p]) \in Posts /\ UNCHANGED queue
        /\ Then(p, <<"bareLast">>) \/ Then(p, <<"reject">>) \/ Throw(p)
    BY <1>2 DEF PostFails, PostLost, Answered, AtOneOf
  <2>2. <<"bareLast">> \in TradeNext /\ <<"reject">> \in TradeNext /\ Head(todo[p]) \in LockedRequests
    BY <2>1 DEF TradeNext, LockedRequests
  <2> QED
    BY <1>0, <2>1, <2>2 DEF Turns, Opening, OpeningNext, Attach
<1>3. CASE ConfirmAccepted(p) \/ ConfirmRejected(p) \/ ConfirmUnknown(p)
  <2>1. todo[p] # <<>> /\ Head(todo[p]) = "confirm" /\ UNCHANGED queue
    BY <1>3 DEF ConfirmAccepted, ConfirmRejected, ConfirmUnknown, Proceed, Fill, At
  <2>2. CASE ConfirmAccepted(p)
    <3>1. \/ Then(p, <<"ensure", "switch", "stop">>) \/ Then(p, Attach)
          \/ todo' = [todo EXCEPT ![p] = <<"unlock">>]
      BY <2>2 DEF ConfirmAccepted, Proceed, Fill
    <3>2. <<"ensure", "switch", "stop">> \in TradeNext /\ Attach \in TradeNext
      BY DEF TradeNext
    <3> QED
      BY <1>0, <2>1, <3>1, <3>2 DEF Turns, Opening, OpeningNext, Attach
  <2>3. CASE ConfirmRejected(p) \/ ConfirmUnknown(p)
    <3>1. \/ Then(p, <<"bare">>) \/ Then(p, <<"ensure", "switch", "searchRejected", "reject">>)
          \/ Then(p, <<"reject">>) \/ Then(p, <<"ensure", "switch", "search">>)
      BY <2>3 DEF ConfirmRejected, ConfirmUnknown, Proceed
    <3>2. /\ <<"bare">> \in TradeNext /\ <<"ensure", "switch", "searchRejected", "reject">> \in TradeNext
          /\ <<"reject">> \in TradeNext /\ <<"ensure", "switch", "search">> \in TradeNext
      BY DEF TradeNext
    <3> QED
      BY <1>0, <2>1, <3>1, <3>2 DEF Turns, Opening, OpeningNext, Attach
  <2> QED
    BY <1>3, <2>2, <2>3
<1>4. CASE \E d \in DOMAIN deals : SearchFinds(p, d)
  <2>1. /\ todo[p] # <<>> /\ Head(todo[p]) \in {"search", "searchRejected"} /\ UNCHANGED queue
        /\ \/ todo' = [todo EXCEPT ![p] = <<"unlock">>]
           \/ todo' = [todo EXCEPT ![p] = Attach \o <<"unlock">>]
    BY <1>4 DEF SearchFinds, Fill, AtOneOf
  <2>2. Head(todo[p]) \in LockedRequests
    BY <2>1 DEF LockedRequests
  <2> QED
    BY <1>0, <2>1, <2>2 DEF Turns, Opening, OpeningNext, Attach
<1>5. CASE SearchFindsNothing(p)
  <2>1. /\ todo[p] # <<>> /\ Head(todo[p]) \in {"search", "searchRejected"} /\ UNCHANGED queue
        /\ \/ Then(p, <<"ensure", "switch", "search">>) \/ Then(p, <<"ensure", "switch", "searchRejected">>)
           \/ Then(p, <<"reject">>) \/ Then(p, <<>>)
    BY <1>5 DEF SearchFindsNothing, Answered, AtOneOf
  <2>2. Head(todo[p]) \in LockedRequests
    BY <2>1 DEF LockedRequests
  <2>3. /\ <<"ensure", "switch", "search">> \in TradeNext /\ <<>> \in TradeNext
        /\ <<"ensure", "switch", "searchRejected">> \in TradeNext /\ <<"reject">> \in TradeNext
    BY DEF TradeNext
  <2> QED
    BY <1>0, <2>1, <2>2, <2>3 DEF Turns, Opening, OpeningNext, Attach
<1>6. CASE ReadStop(p) \/ AttachStop(p) \/ AttachFails(p)
  <2>1. /\ todo[p] # <<>> /\ Head(todo[p]) \in {"stop", "attach"} /\ UNCHANGED queue
        /\ \/ Then(p, <<>>) \/ Then(p, Attach)
           \/ todo' = [todo EXCEPT ![p] = <<"unlock">>]
    BY <1>6 DEF ReadStop, AttachStop, AttachFails, Answered, Fill, At
  <2>2. <<>> \in TradeNext /\ Attach \in TradeNext /\ Head(todo[p]) \in LockedRequests
    BY <2>1 DEF TradeNext, LockedRequests
  <2> QED
    BY <1>0, <2>1, <2>2 DEF Turns, Opening, OpeningNext, Attach
<1>7. CASE CloseNaked(p) \/ Close(p) \/ Reject(p) \/ ReadBook(p)
  <2>1. /\ todo[p] # <<>> /\ Head(todo[p]) \in {"closeNaked", "close", "reject", "book"} /\ UNCHANGED queue
        /\ \/ Then(p, <<"ensure", "switch", "close">>) \/ Then(p, <<>>)
           \/ todo' = [todo EXCEPT ![p] = <<"unlock">>] \/ Throw(p)
    BY <1>7 DEF CloseNaked, Close, Reject, ReadBook, Answered, At
  <2>2. <<>> \in TradeNext /\ <<"ensure", "switch", "close">> \in TradeNext
    BY DEF TradeNext
  <2>3. Head(todo[p]) \in LockedRequests \cup {"closeNaked", "reject"}
    BY <2>1 DEF LockedRequests
  <2> QED
    BY <1>0, <2>1, <2>2, <2>3 DEF Turns, Opening, OpeningNext, Attach
<1>8. CASE ReadFails(p) \/ PutLost(p)
  <2>1. /\ todo[p] # <<>> /\ UNCHANGED queue
        /\ Head(todo[p]) \in {"search", "searchRejected", "stop", "book", "put", "pinPut"}
        /\ Throw(p) \/ Then(p, <<>>)
    BY <1>8 DEF ReadFails, PutLost, AtOneOf, At
  <2>2. <<>> \in TradeNext /\ Head(todo[p]) \in LockedRequests \cup {"put", "pinPut"}
    BY <2>1 DEF TradeNext, LockedRequests
  <2> QED
    BY <1>0, <2>1, <2>2 DEF Turns, Opening, OpeningNext, Attach
<1> QED
  BY <1>1, <1>2, <1>3, <1>4, <1>5, <1>6, <1>7, <1>8 DEF TradeStep

\* So it goes on.
LEMMA TradeMoves ==
  ASSUME LockInv, NEW p \in Procs, TradeStep(p)
  PROVE  GoesOn(p)
<1>1. UNCHANGED queue /\ todo[p] # <<>> /\ Head(todo[p]) \in Inner \ {"lock"} /\ Turns(p)
  BY TradeTurns
<1>2. Head(todo[p]) \notin {"lock", "unlock"}
  BY <1>1 DEF Inner, LockedRequests, Posts
<1>3. CASE \E s \in TradeNext : Then(p, s)
  BY <1>1, <1>3, InnerGoesOn DEF NextSteps
<1>4. CASE Throw(p)
  BY <1>1, <1>2, <1>4, ThrowGoesOn
<1>5. CASE \/ todo' = [todo EXCEPT ![p] = <<"unlock">>]
           \/ todo' = [todo EXCEPT ![p] = Attach \o <<"unlock">>]
  BY <1>1, <1>5, EndGoesOn
<1> QED
  BY <1>1, <1>3, <1>4, <1>5 DEF Turns

\* Every step of a call is one of three kinds.
LEMMA ContinueMoves ==
  ASSUME LockInv, NEW p \in Procs, Continue(p)
  PROVE  GoesOn(p) \/ Enters(p) \/ Unlock(p)
<1>1. CASE AtOneOf(p, LockedRequests \cup {"confirm", "loose"}) /\ Unauthorised(p)
  <2>1. todo[p] # <<>> /\ Head(todo[p]) \notin {"lock", "unlock", "login"}
    BY <1>1 DEF AtOneOf, LockedRequests, Posts
  <2> QED
    BY <1>1, <2>1, UnauthorisedGoesOn
<1> QED
  BY <1>1, SessionMoves, TradeMoves DEF Continue

\* A call that goes on keeps the lock in order.
LEMMA GoesOnKeeps ==
  ASSUME LockInv, NEW p \in Procs, GoesOn(p)
  PROVE  LockInv'
<1>1. PICK t : /\ todo' = [todo EXCEPT ![p] = t] /\ Shaped(t) /\ (Unlocks(t) <=> Unlocks(todo[p]))
  BY DEF GoesOn
<1>2. /\ todo' \in [Procs -> Seq(Names)] /\ UNCHANGED queue
      /\ \A q \in Procs : /\ Shaped(todo'[q])
                          /\ Unlocks(todo'[q]) <=> Unlocks(todo[q])
                          /\ q # p => todo'[q] = todo[q]
  BY <1>1 DEF LockInv, Shaped, GoesOn
<1>3. \A i \in 1..Len(queue) : queue[i] \in Procs
  BY DEF LockInv
<1>4. \A i \in 1..Len(queue) : i > 1 => queue[i] # p
  <2>1. Holds(p) => 1 \in 1..Len(queue) /\ queue[1] = p
    BY DEF LockInv, Holds
  <2> QED
    BY <2>1 DEF LockInv, GoesOn
<1>5. \A i \in 1..Len(queue) : i > 1 => At(queue[i], "lock")'
  BY <1>2, <1>3, <1>4 DEF LockInv, At
<1> QED
  BY <1>2, <1>3, <1>5 DEF LockInv

\* So does one that joins the queue where it was not in it, and has the lock
\* to wait for next.
LEMMA JoinsKeeps ==
  ASSUME LockInv, NEW p \in Procs, \A i \in 1..Len(queue) : queue[i] # p,
         NEW n, Shaped(n), Unlocks(n), n # <<>>, Head(n) = "lock",
         todo' = [todo EXCEPT ![p] = n], queue' = Append(queue, p)
  PROVE  LockInv'
<1>1. /\ todo' \in [Procs -> Seq(Names)]
      /\ \A q \in Procs : Shaped(todo'[q])
      /\ todo'[p] = n
      /\ \A q \in Procs : q # p => todo'[q] = todo[q]
  BY DEF LockInv, Shaped
<1>2. queue \in Seq(Procs) /\ \A i \in 1..Len(queue) : queue[i] \in Procs
  BY DEF LockInv
<1>3. /\ queue' \in Seq(Procs) /\ Len(queue') = Len(queue) + 1 /\ queue'[Len(queue) + 1] = p
      /\ \A i \in 1..Len(queue) : queue'[i] = queue[i]
      /\ Len(queue) \in Nat
  BY <1>2
<1>4. \A i \in 1..Len(queue') : i = Len(queue) + 1 \/ i \in 1..Len(queue)
  BY <1>3
<1>5. \A i, j \in 1..Len(queue') : queue'[i] = queue'[j] => i = j
  <2>1. \A i, j \in 1..Len(queue) : queue[i] = queue[j] => i = j
    BY DEF LockInv
  <2> QED
    BY <1>3, <1>4, <2>1
<1>6. \A i \in 1..Len(queue') : Unlocks(todo'[queue'[i]])
  <2>1. \A i \in 1..Len(queue) : Unlocks(todo[queue[i]])
    BY DEF LockInv
  <2> QED
    BY <1>1, <1>2, <1>3, <1>4, <2>1
<1>7. ASSUME NEW q \in Procs, Unlocks(todo'[q]) PROVE \E i \in 1..Len(queue') : queue'[i] = q
  <2>1. CASE q = p
    BY <1>3, <2>1
  <2>2. CASE q # p
    <3>1. PICK i \in 1..Len(queue) : queue[i] = q
      BY <1>1, <1>7, <2>2 DEF LockInv
    <3>2. i \in 1..Len(queue') /\ queue'[i] = q
      BY <1>3, <3>1
    <3> QED
      BY <3>2
  <2> QED
    BY <2>1, <2>2
<1>8. ASSUME NEW i \in 1..Len(queue'), i > 1
      PROVE  todo'[queue'[i]] # <<>> /\ Head(todo'[queue'[i]]) = "lock"
  <2>1. CASE i = Len(queue) + 1
    BY <1>1, <1>3, <2>1
  <2>2. CASE i \in 1..Len(queue)
    <3>1. todo[queue[i]] # <<>> /\ Head(todo[queue[i]]) = "lock"
      BY <1>8, <2>2 DEF LockInv, At
    <3> QED
      BY <1>1, <1>2, <1>3, <2>2, <3>1
  <2> QED
    BY <1>4, <2>1, <2>2
<1>9. \A i \in 1..Len(queue') : i > 1 => At(queue[i], "lock")'
  BY <1>8 DEF At
<1> QED
  BY <1>1, <1>3, <1>5, <1>6, <1>7, <1>9 DEF LockInv

\* A call that has its session made is not in the queue, and does nothing that
\* needs the lock.
LEMMA OuterOnly ==
  ASSUME LockInv, NEW p \in Procs, Enters(p)
  PROVE  /\ \A i \in 1..Len(queue) : queue[i] # p
         /\ \A i \in 1..Len(todo[p]) : todo[p][i] \notin Inner \cup {"unlock", "lock", "login"}
<1>1. PICK t : t = todo[p]
  OBVIOUS
<1>2. t # <<>> /\ Head(t) = "create" /\ t \in Seq(Names) /\ Shaped(t)
  BY <1>1 DEF Enters, At, LockInv
<1>3. \A i \in 1..Len(queue) : queue[i] # p
  <2>1. ASSUME NEW i \in 1..Len(queue), queue[i] = p PROVE FALSE
    <3>1. i = 1
      BY <1>1, <1>2, <2>1 DEF LockInv, At
    <3> QED
      BY <2>1, <3>1 DEF Enters, Holds, LockInv
  <2> QED
    BY <2>1
<1>4. ~Unlocks(t)
  BY <1>1, <1>3 DEF LockInv
<1>5. \A i \in 1..Len(t) : t[i] \notin Inner \cup {"unlock", "lock", "login"}
  <2>1. PICK u \in 0..Len(t) : ShapeAt(t, u)
    BY <1>2 DEF Shaped
  <2>2. u = 0
    BY <1>4, <2>1 DEF ShapeAt, Unlocks
  <2> QED
    BY <1>4, <2>1, <2>2 DEF ShapeAt, Unlocks, Inner
<1> QED
  BY <1>1, <1>3, <1>5

\* So it joins the queue.
LEMMA EntersKeeps ==
  ASSUME LockInv, NEW p \in Procs, Enters(p)
  PROVE  LockInv'
<1>1. PICK t : t = todo[p]
  OBVIOUS
<1>2. t # <<>> /\ t \in Seq(Names)
  BY <1>1 DEF Enters, At, LockInv
<1>3. \A i \in 1..Len(queue) : queue[i] # p
  BY OuterOnly
<1>5. \A i \in 1..Len(t) : t[i] \notin Inner \cup {"unlock", "lock", "login"}
  BY <1>1, OuterOnly
<1>6. PICK n : n = <<"lock", "session", "unlock">> \o Tail(t)
  OBVIOUS
<1>7. Shaped(n) /\ Unlocks(n) /\ n # <<>> /\ Head(n) = "lock"
  <2>0. <<"lock", "session", "unlock">> \in Seq(Names)
    BY DEF Names, Outer, Inner
  <2>1. /\ n \in Seq(Names) /\ Len(n) = Len(t) + 2 /\ n[1] = "lock" /\ n[2] = "session" /\ n[3] = "unlock"
        /\ \A i \in 4..Len(n) : n[i] = t[i - 2] /\ i - 2 \in 1..Len(t)
    BY <1>2, <1>6, <2>0, Prefix
  <2>2. ShapeAt(n, 3) /\ 3 \in 1..Len(n) /\ 3 \in 0..Len(n)
    <3>1. Len(t) \in Nat /\ Len(t) >= 1
      BY <1>2
    <3>2. ASSUME NEW i \in 1..Len(n)
          PROVE  /\ n[i] = "unlock" => i = 3
                 /\ n[i] \in Inner => i < 3
                 /\ n[i] \in {"lock", "login"} => i = 1
      <4>1. CASE i \in 4..Len(n)
        BY <1>5, <2>1, <4>1
      <4>2. CASE i \in {1, 2, 3}
        BY <2>1, <4>2 DEF Inner, LockedRequests, Posts
      <4> QED
        BY <2>1, <3>1, <4>1, <4>2
    <3> QED
      BY <2>1, <3>1, <3>2 DEF ShapeAt
  <2> QED
    BY <2>1, <2>2 DEF Shaped, Unlocks
<1>8. todo' = [todo EXCEPT ![p] = n] /\ queue' = Append(queue, p)
  BY <1>1, <1>6 DEF Enters, Then
<1> QED
  BY <1>3, <1>7, <1>8, JoinsKeeps

\* A call that begins.
LEMMA BeginKeeps ==
  ASSUME LockInv, NEW p \in Procs, todo[p] = <<>>, queue' = Append(queue, p),
         NEW work \in {<<"post">>, <<"book">>, <<"close">>},
         todo' = [todo EXCEPT ![p] = <<"lock", "ensure", "switch">> \o work \o <<"unlock">>]
  PROVE  LockInv'
<1>1. \A i \in 1..Len(queue) : queue[i] # p
  BY DEF LockInv, Unlocks
<1>2. PICK w : w = <<"lock", "ensure", "switch">> \o work
  OBVIOUS
<1>3. /\ w \in Seq(Names) /\ Len(w) = 4 /\ w[1] = "lock" /\ w[2] = "ensure" /\ w[3] = "switch"
      /\ w[4] \in {"post", "book", "close"}
  <2>1. PICK c \in {"post", "book", "close"} : work = <<c>>
    OBVIOUS
  <2>2. c \in Names /\ {"lock", "ensure", "switch"} \subseteq Names
    BY DEF Names, Outer, Inner, LockedRequests, Posts
  <2>3. <<c>> \in Seq(Names) /\ <<"lock", "ensure", "switch">> \in Seq(Names)
    BY <2>2
  <2> HIDE DEF Names
  <2>4. w = <<"lock", "ensure", "switch">> \o <<c>>
    BY <1>2, <2>1
  <2>5. w \in Seq(Names) /\ Len(w) = 4 /\ w[1] = "lock" /\ w[2] = "ensure" /\ w[3] = "switch" /\ w[4] = c
    BY <2>3, <2>4
  <2> QED
    BY <2>5
<1>4. \A i \in 1..Len(w) : w[i] # "unlock" /\ (w[i] \in {"lock", "login"} => i = 1)
  <2>1. \A i \in 1..Len(w) : i \in {1, 2, 3, 4}
    BY <1>3
  <2> QED
    BY <1>3, <2>1
<1>5. PICK n : n = w \o <<"unlock">>
  OBVIOUS
<1>6. Shaped(n) /\ Unlocks(n)
  BY <1>3, <1>4, <1>5, EndsShaped
<1>7. n # <<>> /\ Head(n) = "lock"
  BY <1>3, <1>5 DEF Names, Outer
<1>8. todo' = [todo EXCEPT ![p] = n]
  BY <1>2, <1>5
<1> QED
  BY <1>1, <1>6, <1>7, <1>8, JoinsKeeps

\* A call without the lock.
LEMMA LooseKeeps ==
  ASSUME LockInv, NEW p \in Procs, BeginLoose(p)
  PROVE  LockInv'
<1>1. Shaped(<<"ensure", "loose">>) /\ ~Unlocks(<<"ensure", "loose">>) /\ ~Unlocks(<<>>)
  BY DEF Shaped, ShapeAt, Unlocks, Names, Outer, Inner, LockedRequests, Posts
<1>2. GoesOn(p)
  BY <1>1 DEF BeginLoose, GoesOn, At
<1> QED
  BY <1>2, GoesOnKeeps

\* Only the call that holds the lock is about to release it; then it has no more
\* release to do.
LEMMA UnlockKeeps ==
  ASSUME LockInv, NEW p \in Procs, Unlock(p)
  PROVE  LockInv'
<1>1. PICK t : t = todo[p]
  OBVIOUS
<1>2. t # <<>> /\ Head(t) = "unlock" /\ t \in Seq(Names) /\ Shaped(t)
  BY <1>1 DEF Unlock, At, LockInv
<1>3. Holds(p) /\ queue # <<>>
  <2>1. Unlocks(t)
    BY <1>2 DEF Unlocks
  <2>2. PICK i \in 1..Len(queue) : queue[i] = p
    BY <1>1, <2>1 DEF LockInv
  <2>3. i = 1
    BY <1>1, <1>2, <2>2 DEF LockInv, At
  <2> QED
    BY <2>2, <2>3 DEF LockInv, Holds
<1>4. PICK n : n = Tail(t)
  OBVIOUS
<1>5. n \in Seq(Names) /\ Len(n) = Len(t) - 1 /\ \A i \in 1..Len(n) : n[i] = t[i + 1] /\ i + 1 \in 1..Len(t)
  BY <1>2, <1>4
<1>6. \A i \in 1..Len(n) : n[i] \notin Inner \cup {"unlock", "lock", "login"}
  <2>1. PICK u \in 0..Len(t) : ShapeAt(t, u)
    BY <1>2 DEF Shaped
  <2>2. u = 1
    BY <1>2, <2>1 DEF ShapeAt
  <2>3. \A k \in 2..Len(t) : t[k] \notin Inner \cup {"unlock", "lock", "login"}
    BY <2>1, <2>2 DEF ShapeAt
  <2> QED
    BY <1>5, <2>3
<1>7. Shaped(n) /\ ~Unlocks(n)
  BY <1>5, <1>6 DEF Shaped, ShapeAt, Unlocks
<1>8. /\ todo' = [todo EXCEPT ![p] = n] /\ queue' = Tail(queue)
      /\ todo' \in [Procs -> Seq(Names)]
      /\ \A q \in Procs : Shaped(todo'[q])
      /\ todo'[p] = n
      /\ \A q \in Procs : q # p => todo'[q] = todo[q]
  BY <1>1, <1>4, <1>5, <1>7 DEF Unlock, Then, LockInv
<1>9. queue \in Seq(Procs) /\ (\A i \in 1..Len(queue) : queue[i] \in Procs) /\ queue[1] = p
      /\ \A i, j \in 1..Len(queue) : queue[i] = queue[j] => i = j
  BY <1>3 DEF LockInv, Holds
<1>10. /\ queue' \in Seq(Procs) /\ Len(queue') = Len(queue) - 1 /\ Len(queue) \in Nat /\ Len(queue) >= 1
       /\ \A i \in 1..Len(queue') : queue'[i] = queue[i + 1] /\ i + 1 \in 2..Len(queue)
  BY <1>3, <1>8, <1>9
<1>11. \A i \in 2..Len(queue) : queue[i] # p /\ Unlocks(todo[queue[i]]) /\ At(queue[i], "lock")
  BY <1>9 DEF LockInv
<1>12. \A i, j \in 1..Len(queue') : queue'[i] = queue'[j] => i = j
  BY <1>9, <1>10
<1>13. ASSUME NEW i \in 1..Len(queue') PROVE Unlocks(todo'[queue'[i]]) /\ At(queue[i], "lock")'
  <2>1. i + 1 \in 2..Len(queue) /\ queue'[i] = queue[i + 1]
    BY <1>10
  <2>2. queue[i + 1] \in Procs /\ queue[i + 1] # p /\ Unlocks(todo[queue[i + 1]]) /\ At(queue[i + 1], "lock")
    BY <1>9, <1>11, <2>1
  <2>3. todo'[queue'[i]] = todo[queue[i + 1]]
    BY <1>8, <2>1, <2>2
  <2> QED
    BY <2>1, <2>2, <2>3 DEF At
<1>14. ASSUME NEW q \in Procs, Unlocks(todo'[q]) PROVE \E i \in 1..Len(queue') : queue'[i] = q
  <2>1. q # p /\ Unlocks(todo[q])
    BY <1>7, <1>8, <1>14
  <2>2. PICK i \in 1..Len(queue) : queue[i] = q
    BY <2>1 DEF LockInv
  <2>3. i > 1 /\ i - 1 \in 1..Len(queue')
    BY <1>9, <1>10, <2>1, <2>2
  <2>4. queue'[i - 1] = q
    BY <1>8, <1>9, <2>2, <2>3
  <2> QED
    BY <2>3, <2>4
<1> QED
  BY <1>8, <1>10, <1>12, <1>13, <1>14 DEF LockInv

-----------------------------------------------------------------------------
\* The steps of the whole system, as far as the lock goes.
LEMMA StepMoves ==
  ASSUME LockInv, [Next]_vars
  PROVE  \/ UNCHANGED <<queue, todo>>
         \/ \E p \in Procs :
              \/ GoesOn(p) \/ Enters(p) \/ Unlock(p) \/ BeginLoose(p)
              \/ /\ todo[p] = <<>> /\ queue' = Append(queue, p)
                 /\ \E work \in {<<"post">>, <<"book">>, <<"close">>} :
                      todo' = [todo EXCEPT ![p] = <<"lock", "ensure", "switch">> \o work \o <<"unlock">>]
<1>1. ASSUME NEW p \in Procs, Continue(p) PROVE GoesOn(p) \/ Enters(p) \/ Unlock(p)
  BY <1>1, ContinueMoves
<1>2. ASSUME NEW p \in Procs, NEW r \in Requests, BeginClose(p, r)
      PROVE  /\ todo[p] = <<>> /\ queue' = Append(queue, p)
             /\ todo' = [todo EXCEPT ![p] = <<"lock", "ensure", "switch">> \o <<"close">> \o <<"unlock">>]
  BY <1>2 DEF BeginClose, Begin
<1>3. ASSUME NEW p \in Procs, NEW r \in Requests, NEW want \in Wants, BeginPlace(p, r, want)
      PROVE  /\ todo[p] = <<>> /\ queue' = Append(queue, p)
             /\ todo' = [todo EXCEPT ![p] = <<"lock", "ensure", "switch">> \o <<"post">> \o <<"unlock">>]
  BY <1>3 DEF BeginPlace, Begin
<1>4. ASSUME NEW p \in Procs, BeginBook(p)
      PROVE  /\ todo[p] = <<>> /\ queue' = Append(queue, p)
             /\ todo' = [todo EXCEPT ![p] = <<"lock", "ensure", "switch">> \o <<"book">> \o <<"unlock">>]
  BY <1>4 DEF BeginBook, Begin
<1>5. CASE \/ Expire /\ UNCHANGED tradeVars
           \/ \E d \in DOMAIN deals : BrokerCloses(d)
           \/ UNCHANGED vars
  BY <1>5 DEF Expire, BrokerCloses, vars, loginVars
<1>6. CASE \E p \in Procs : BeginLoose(p)
  BY <1>6
<1> QED
  BY <1>1, <1>2, <1>3, <1>4, <1>5, <1>6 DEF Next

\* The lock is in order in every state.
LEMMA LockKeeps ==
  ASSUME LockInv, [Next]_vars
  PROVE  LockInv'
<1>1. CASE UNCHANGED <<queue, todo>>
  BY <1>1 DEF LockInv, At
<1>2. ASSUME NEW p \in Procs, GoesOn(p) \/ Enters(p) \/ Unlock(p) \/ BeginLoose(p)
      PROVE  LockInv'
  BY <1>2, GoesOnKeeps, EntersKeeps, UnlockKeeps, LooseKeeps
<1>3. ASSUME NEW p \in Procs, todo[p] = <<>>, queue' = Append(queue, p),
             NEW work \in {<<"post">>, <<"book">>, <<"close">>},
             todo' = [todo EXCEPT ![p] = <<"lock", "ensure", "switch">> \o work \o <<"unlock">>]
      PROVE  LockInv'
  BY <1>3, BeginKeeps
<1> QED
  BY <1>1, <1>2, <1>3, StepMoves

\* In the beginning no call waits or has anything to do.
LEMMA LockStarts ==
  ASSUME Init
  PROVE  LockInv
<1>1. Shaped(<<>>) /\ ~Unlocks(<<>>)
  BY DEF Shaped, ShapeAt, Unlocks
<1> QED
  BY <1>1 DEF Init, InitLogin, LockInv

\* Calls wait for the login lock in a line, and each has its release to come,
\* whatever throws before.
THEOREM LockInvariant == Spec => []LockInv
<1>1. Init => LockInv
  BY LockStarts
<1>2. LockInv /\ [Next]_vars => LockInv'
  BY LockKeeps
<1> QED
  BY <1>1, <1>2, PTL DEF Spec

\* "Reentrant only inside the same async context that already holds the lock"
\* (withLoginLock): no call waits for a lock that it holds or waits for already,
\* and whoever is in the queue will release the lock.
THEOREM NoLockKept == Spec => []LockIsReleased
<1>1. LockInv => LockIsReleased
  <2> SUFFICES ASSUME LockInv PROVE LockIsReleased
    OBVIOUS
  <2>1. queue \in Seq(Procs) /\ todo \in [Procs -> Seq(Names)]
    BY DEF LockInv
  <2>2. IsInjective(queue)
    BY <2>1 DEF LockInv, IsInjective
  <2>3. ASSUME NEW p \in Procs PROVE p \in ToSet(queue) <=> "unlock" \in ToSet(todo[p])
    <3>1. p \in ToSet(queue) <=> \E i \in 1..Len(queue) : queue[i] = p
      BY <2>1 DEF ToSet
    <3>2. "unlock" \in ToSet(todo[p]) <=> Unlocks(todo[p])
      BY <2>1 DEF ToSet, Unlocks
    <3> QED
      BY <3>1, <3>2 DEF LockInv
  <2> QED
    BY <2>2, <2>3 DEF LockIsReleased
<1> QED
  BY <1>1, LockInvariant, PTL
-----------------------------------------------------------------------------
\* Only the holder of the lock is at a step that needs it, and only it is about
\* to release it.
LEMMA InnerHolds ==
  ASSUME LockInv, NEW p \in Procs, todo[p] # <<>>, Head(todo[p]) \in (Inner \ {"lock"}) \cup {"unlock"}
  PROVE  Holds(p)
<1>1. PICK t : t = todo[p]
  OBVIOUS
<1>2. Shaped(t) /\ t # <<>> /\ Head(t) \in (Inner \ {"lock"}) \cup {"unlock"} /\ t \in Seq(Names)
  BY <1>1 DEF LockInv, Shaped
<1>3. Unlocks(t)
  BY <1>2, InnerUnlocks DEF Unlocks
<1>4. PICK i \in 1..Len(queue) : queue[i] = p
  BY <1>1, <1>3 DEF LockInv
<1>5. Head(t) # "lock"
  BY <1>2
<1>6. i = 1
  BY <1>1, <1>4, <1>5 DEF LockInv, At
<1> QED
  BY <1>4, <1>6 DEF Holds, LockInv

\* What is next after the head of a list of things to do.
LEMMA ThenHead ==
  ASSUME LockInv, NEW p \in Procs, todo[p] # <<>>, NEW s, Plain(s), Then(p, s)
  PROVE  /\ \A q \in Procs : q # p => todo'[q] = todo[q]
         /\ s # <<>> => todo'[p] # <<>> /\ Head(todo'[p]) = s[1]
         /\ s = <<>> /\ todo'[p] # <<>> => Head(todo'[p]) \notin {"lock", "login"}
<1>1. PICK t : t = todo[p]
  OBVIOUS
<1>2. PICK n : n = s \o Tail(t)
  OBVIOUS
<1>3. t \in Seq(Names) /\ t # <<>> /\ s \in Seq(Names) /\ Shaped(t)
  BY <1>1 DEF LockInv, Plain
<1>4. todo'[p] = n /\ \A q \in Procs : q # p => todo'[q] = todo[q]
  BY <1>1, <1>2 DEF Then, LockInv
<1>5. /\ n \in Seq(Names) /\ Len(n) = Len(s) + Len(t) - 1
      /\ \A i \in 1..Len(s) : n[i] = s[i]
      /\ \A i \in 1..(Len(t) - 1) : n[Len(s) + i] = t[i + 1]
  BY <1>2, <1>3, Prefix
<1>6. ASSUME s # <<>> PROVE n # <<>> /\ Head(n) = s[1]
  <2>1. 1 \in 1..Len(s) /\ Len(n) >= 1
    BY <1>3, <1>5, <1>6
  <2> QED
    BY <1>5, <2>1
<1>7. ASSUME s = <<>>, n # <<>> PROVE Head(n) \notin {"lock", "login"}
  <2>1. Len(s) = 0 /\ 1 \in 1..(Len(t) - 1)
    BY <1>3, <1>5, <1>7
  <2>2. Head(n) = t[2] /\ 2 \in 1..Len(t)
    BY <1>5, <1>7, <2>1
  <2> QED
    BY <1>3, <2>2 DEF Shaped, ShapeAt
<1> QED
  BY <1>4, <1>6, <1>7

\* A login is not what comes after something else than the session's own steps.
LEMMA ThenNoLogin ==
  ASSUME LockInv, NEW p \in Procs, todo[p] # <<>>, NEW s, Plain(s), Then(p, s),
         s = <<>> \/ s[1] # "login"
  PROVE  ~At(p, "login")'
  BY ThenHead DEF At

\* Nor is it what an exception leads to.
LEMMA ThrowNoLogin ==
  ASSUME LockInv, NEW p \in Procs, todo[p] # <<>>, Throw(p)
  PROVE  ~At(p, "login")' /\ ~At(p, "lock")' /\ \A q \in Procs : q # p => todo'[q] = todo[q]
<1> DEFINE rest == Tail(todo[p])
           catches == {i \in DOMAIN rest : rest[i] \in Handlers}
<1>1. rest \in Seq(Names)
  BY DEF LockInv
<1>2. todo'[p] = After(p) /\ \A q \in Procs : q # p => todo'[q] = todo[q]
  BY DEF Throw, After, LockInv
<1>3. CASE catches # {}
  <2>1. PICK m : m = Min(catches)
    OBVIOUS
  <2>2. m \in catches
    <3>1. catches \in SUBSET Nat
      BY <1>1
    <3> HIDE DEF catches
    <3> QED
      BY <1>3, <2>1, <3>1, LeastOf
  <2>3. After(p) = SubSeq(rest, m, Len(rest))
    BY <1>3, <2>1 DEF After
  <2>4. m \in 1..Len(rest) /\ rest[m] \in Handlers
    BY <1>1, <2>2
  <2> HIDE DEF rest, catches
  <2>5. Head(After(p)) = rest[m]
    BY <1>1, <2>3, <2>4
  <2>6. Head(todo'[p]) \notin {"login", "lock"}
    BY <1>2, <2>4, <2>5 DEF Handlers
  <2> QED
    BY <1>2, <2>6 DEF At
<1>4. CASE catches = {}
  <2>1. After(p) \in {<<"unlock">>, <<>>}
    BY <1>4 DEF After
  <2> QED
    BY <1>2, <2>1 DEF At
<1> QED
  BY <1>3, <1>4

-----------------------------------------------------------------------------
(***************************************************************************)
(* The shared session.  While a session lives, the map of shared tokens    *)
(* names it, and so does the adapter of the call that holds the lock: a    *)
(* call that has no session to use knows that there is none.               *)
(***************************************************************************)
TokenInv ==
  /\ live \in Nat /\ shared \in Nat /\ logins \in Nat /\ tokens \in [Adapters -> Nat]
  /\ live # NoToken => shared = live
  /\ \A p \in Procs : Holds(p) /\ ~At(p, "lock") /\ live # NoToken => tokens[AdapterOf[p]] = live
  /\ \A p \in Procs : At(p, "login") => live = NoToken

\* What changes neither tokens nor the lock, and does not lead to a login.
Calm(p) ==
  /\ UNCHANGED <<live, shared, logins, tokens, queue>>
  /\ \A q \in Procs : q # p => todo'[q] = todo[q]
  /\ ~At(p, "lock") /\ ~At(p, "login")'

\* It keeps the invariant.
LEMMA CalmKeeps ==
  ASSUME TokenInv, NEW p \in Procs, Calm(p)
  PROVE  TokenInv'
<1>1. ASSUME NEW q \in Procs, Holds(q)', ~At(q, "lock")' PROVE Holds(q) /\ ~At(q, "lock")
  BY <1>1 DEF Holds, At, Calm
<1>2. ASSUME NEW q \in Procs, At(q, "login")' PROVE At(q, "login")
  BY <1>2 DEF At, Calm
<1> QED
  BY <1>1, <1>2 DEF TokenInv, Calm

\* pullSharedTokens: the adapter has the session that lives, and so has any that
\* had it.
LEMMA PullFinds ==
  ASSUME TokenInv, NEW p \in Procs, Pull(p)
  PROVE  /\ tokens' \in [Adapters -> Nat] /\ Pulled(AdapterOf[p]) \in Nat
         /\ Pulled(AdapterOf[p]) = NoToken => live = NoToken
         /\ live # NoToken => tokens'[AdapterOf[p]] = live
         /\ \A q \in Procs : live # NoToken /\ tokens[AdapterOf[q]] = live => tokens'[AdapterOf[q]] = live
<1>1. AdapterOf[p] \in Adapters /\ \A q \in Procs : AdapterOf[q] \in Adapters
  BY LoginAssumption
<1>2. NoToken \in Nat
  BY DEF NoToken
<1> QED
  BY <1>1, <1>2 DEF TokenInv, Pull, Pulled

\* Whatever pulls the tokens keeps the invariant, unless it leads to a login.
LEMMA PullKeeps ==
  ASSUME TokenInv, NEW p \in Procs, Pull(p), UNCHANGED <<live, shared, logins, queue>>,
         \A q \in Procs : q # p => todo'[q] = todo[q],
         At(p, "login")' => live = NoToken
  PROVE  TokenInv'
<1>1. ASSUME NEW q \in Procs, Holds(q)', ~At(q, "lock")', live # NoToken
      PROVE  tokens'[AdapterOf[q]] = live
  <2>1. CASE q = p
    BY <1>1, <2>1, PullFinds
  <2>2. CASE q # p
    <3>1. Holds(q) /\ ~At(q, "lock")
      BY <1>1, <2>2 DEF Holds, At
    <3> QED
      BY <1>1, <3>1, PullFinds DEF TokenInv
  <2> QED
    BY <2>1, <2>2
<1>2. ASSUME NEW q \in Procs, At(q, "login")' PROVE live = NoToken
  <2>1. CASE q = p
    BY <1>2, <2>1
  <2>2. CASE q # p
    BY <1>2, <2>2 DEF At, TokenInv
  <2> QED
    BY <2>1, <2>2
<1> QED
  BY <1>1, <1>2, PullFinds DEF TokenInv

\* Who joins the queue waits for the lock before anything else.
LEMMA JoinTokens ==
  ASSUME LockInv, TokenInv, NEW p \in Procs, ~Holds(p), queue' = Append(queue, p),
         UNCHANGED <<live, shared, logins, tokens>>,
         \A q \in Procs : q # p => todo'[q] = todo[q],
         todo'[p] # <<>>, Head(todo'[p]) = "lock"
  PROVE  TokenInv'
<1>1. ASSUME NEW q \in Procs, Holds(q)', ~At(q, "lock")' PROVE Holds(q) /\ ~At(q, "lock")
  <2>1. q # p
    BY <1>1 DEF At
  <2>2. queue \in Seq(Procs)
    BY DEF LockInv
  <2>3. Holds(q)
    <3>1. CASE queue = <<>>
      BY <1>1, <2>1, <3>1 DEF Holds
    <3>2. CASE queue # <<>>
      <4>1. Head(queue') = Head(queue)
        BY <2>2, <3>2
      <4> QED
        BY <1>1, <3>2, <4>1 DEF Holds
    <3> QED
      BY <3>1, <3>2
  <2> QED
    BY <1>1, <2>1, <2>3 DEF At
<1>2. ASSUME NEW q \in Procs, At(q, "login")' PROVE At(q, "login")
  <2>1. q # p
    BY <1>2 DEF At
  <2> QED
    BY <1>2, <2>1 DEF At
<1> QED
  BY <1>1, <1>2 DEF TokenInv

\* createSession: a session is made anew under the lock, and only when there is
\* none to probe.
LEMMA CreateTokens ==
  ASSUME LockInv, TokenInv, NEW p \in Procs, CreateSession(p)
  PROVE  TokenInv'
<1>1. todo[p] # <<>> /\ UNCHANGED <<live, shared, logins>>
  BY DEF CreateSession, AtOneOf, brokerSession
<1>2. CASE At(p, "create") /\ ~Holds(p)
  <2>1. Then(p, <<"lock", "session", "unlock">>) /\ queue' = Append(queue, p) /\ UNCHANGED tokens
    BY <1>2 DEF CreateSession
  <2>2. PICK t : t = todo[p]
    OBVIOUS
  <2>3. PICK n : n = <<"lock", "session", "unlock">> \o Tail(t)
    OBVIOUS
  <2>4. t \in Seq(Names) /\ t # <<>>
    BY <1>1, <2>2 DEF LockInv
  <2>5. <<"lock", "session", "unlock">> \in Seq(Names)
    BY DEF Names, Outer, Inner
  <2>6. n # <<>> /\ Head(n) = "lock"
    <3>1. n \in Seq(Names) /\ Len(n) = Len(t) + 2 /\ n[1] = "lock"
      BY <2>3, <2>4, <2>5, Prefix
    <3> QED
      BY <2>4, <3>1
  <2>7. todo'[p] = n /\ \A q \in Procs : q # p => todo'[q] = todo[q]
    BY <2>1, <2>2, <2>3 DEF Then, LockInv
  <2> QED
    BY <1>1, <1>2, <2>1, <2>6, <2>7, JoinTokens
<1>3. CASE ~(At(p, "create") /\ ~Holds(p))
  <2>1. Pull(p) /\ UNCHANGED queue
    BY <1>3 DEF CreateSession
  <2>2. CASE Pulled(AdapterOf[p]) # NoToken
    <3>1. Then(p, <<"probe">>)
      BY <1>3, <2>2 DEF CreateSession
    <3>2. Plain(<<"probe">>)
      BY StepsArePlain DEF NextSteps, TradeNext
    <3>3. (\A q \in Procs : q # p => todo'[q] = todo[q]) /\ ~At(p, "login")'
      BY <1>1, <3>1, <3>2, ThenHead DEF At
    <3> QED
      BY <1>1, <2>1, <3>3, PullKeeps
  <2>3. CASE Pulled(AdapterOf[p]) = NoToken
    <3>1. Then(p, <<"login">>)
      BY <1>3, <2>3 DEF CreateSession
    <3>2. \A q \in Procs : q # p => todo'[q] = todo[q]
      BY <3>1 DEF Then, LockInv
    <3>3. live = NoToken
      BY <2>1, <2>3, PullFinds
    <3> QED
      BY <1>1, <2>1, <3>2, <3>3, PullKeeps
  <2> QED
    BY <2>2, <2>3
<1> QED
  BY <1>2, <1>3

\* The probe of a session that is not taken: there is none.
LEMMA ProbeTokens ==
  ASSUME LockInv, TokenInv, NEW p \in Procs, Probe(p)
  PROVE  TokenInv'
<1>1. /\ todo[p] # <<>> /\ Head(todo[p]) = "probe" /\ ~At(p, "lock")
      /\ UNCHANGED <<live, logins, queue>>
  BY DEF Probe, At, brokerSession
<1>2. Holds(p)
  BY <1>1, InnerHolds DEF Inner
<1>3. CASE Valid(p)
  <2>1. Then(p, <<"pin">>) /\ UNCHANGED <<tokens, shared>> /\ Plain(<<"pin">>)
    BY <1>3, StepsArePlain DEF Probe, NextSteps, TradeNext
  <2>2. (\A q \in Procs : q # p => todo'[q] = todo[q]) /\ ~At(p, "login")'
    BY <1>1, <2>1, ThenHead DEF At
  <2> QED
    BY <1>1, <2>1, <2>2, CalmKeeps DEF Calm
<1>4. CASE ~Valid(p)
  <2>1. live = NoToken
    BY <1>1, <1>2, <1>4 DEF TokenInv, Valid
  <2>2. /\ live' = NoToken /\ shared' = NoToken /\ NoToken \in Nat
        /\ tokens' = [tokens EXCEPT ![AdapterOf[p]] = NoToken]
    BY <1>1, <1>4, <2>1 DEF Probe, NoToken
  <2>3. tokens' \in [Adapters -> Nat]
    BY <2>2 DEF TokenInv
  <2> QED
    BY <1>1, <2>2, <2>3 DEF TokenInv
<1> QED
  BY <1>3, <1>4

\* A login: its session is shared at once.
LEMMA LoginTokens ==
  ASSUME LockInv, TokenInv, NEW p \in Procs, Login(p)
  PROVE  TokenInv'
<1>1. todo[p] # <<>> /\ Head(todo[p]) = "login" /\ Then(p, <<"pin">>) /\ UNCHANGED queue
  BY DEF Login, At
<1>2. Holds(p) /\ Plain(<<"pin">>)
  BY <1>1, InnerHolds, StepsArePlain DEF Inner, NextSteps, TradeNext
<1>3. (\A q \in Procs : q # p => todo'[q] = todo[q]) /\ ~At(p, "login")'
  BY <1>1, <1>2, ThenHead DEF At
<1>4. AdapterOf[p] \in Adapters
  BY LoginAssumption
<1>5. /\ logins' = logins + 1 /\ live' = logins' /\ shared' = live'
      /\ tokens' = [tokens EXCEPT ![AdapterOf[p]] = live']
  BY DEF Login
<1>6. /\ logins' \in Nat /\ live' \in Nat /\ shared' \in Nat /\ tokens' \in [Adapters -> Nat]
      /\ tokens'[AdapterOf[p]] = live'
  BY <1>4, <1>5 DEF TokenInv
<1>7. ASSUME NEW q \in Procs, Holds(q)' PROVE q = p
  BY <1>1, <1>2, <1>7 DEF Holds
<1>8. ASSUME NEW q \in Procs PROVE ~At(q, "login")'
  <2>1. CASE q = p
    BY <1>3, <2>1
  <2>2. CASE q # p
    <3>1. At(q, "login") => Holds(q)
      BY InnerHolds DEF At, Inner
    <3> QED
      BY <1>2, <1>3, <2>2, <3>1 DEF At, Holds
  <2> QED
    BY <2>1, <2>2
<1> QED
  BY <1>5, <1>6, <1>7, <1>8 DEF TokenInv

\* The release of the lock leaves the tokens of the holder to the others; the
\* next holder has to pull them.
LEMMA UnlockTokens ==
  ASSUME LockInv, TokenInv, NEW p \in Procs, Unlock(p)
  PROVE  TokenInv'
<1>1. /\ todo[p] # <<>> /\ Head(todo[p]) = "unlock" /\ ~At(p, "lock")
      /\ Then(p, <<>>) /\ queue' = Tail(queue) /\ UNCHANGED <<live, logins, tokens>>
  BY DEF Unlock, At, brokerSession
<1>2. Holds(p) /\ Plain(<<>>)
  BY <1>1, InnerHolds, StepsArePlain DEF NextSteps, TradeNext
<1>3. (\A q \in Procs : q # p => todo'[q] = todo[q]) /\ ~At(p, "login")'
  BY <1>1, <1>2, ThenNoLogin, ThenHead
<1>4. AdapterOf[p] \in Adapters
  BY LoginAssumption
<1>5. shared' = IF tokens[AdapterOf[p]] # NoToken THEN tokens[AdapterOf[p]] ELSE shared
  BY DEF Unlock
<1>6. shared' \in Nat /\ (live # NoToken => shared' = live)
  BY <1>1, <1>2, <1>4, <1>5 DEF TokenInv
<1>7. ASSUME NEW q \in Procs, Holds(q)' PROVE At(q, "lock")'
  <2>1. queue \in Seq(Procs) /\ queue # <<>> /\ queue[1] = p
    BY <1>2 DEF Holds, LockInv
  <2>2. 2 \in 1..Len(queue) /\ queue[2] = q
    BY <1>1, <1>7, <2>1 DEF Holds
  <2>3. q # p /\ At(q, "lock")
    BY <2>1, <2>2 DEF LockInv
  <2> QED
    BY <1>3, <2>3 DEF At
<1>8. ASSUME NEW q \in Procs, At(q, "login")' PROVE At(q, "login")
  BY <1>3, <1>8 DEF At
<1> QED
  BY <1>1, <1>6, <1>7, <1>8 DEF TokenInv

\* A request that the broker does not authorise: the holder of the lock knows
\* then that there is no session.
LEMMA UnauthorisedTokens ==
  ASSUME LockInv, TokenInv, NEW p \in Procs, todo[p] # <<>>, ~At(p, "lock"), Unauthorised(p)
  PROVE  TokenInv'
<1>1. UNCHANGED <<live, shared, logins, queue>> /\ ~Valid(p)
  BY DEF Unauthorised, brokerSession
<1>2. (\A q \in Procs : q # p => todo'[q] = todo[q]) /\ ~At(p, "login")'
  <2>1. CASE Throw(p)
    BY <2>1, ThrowNoLogin
  <2>2. CASE todo' = [todo EXCEPT ![p] = <<"create">> \o @]
    <3>1. PICK t : t = todo[p]
      OBVIOUS
    <3>2. t \in Seq(Names) /\ <<"create">> \in Seq(Names)
      BY <3>1 DEF LockInv, Names, Outer
    <3>3. todo'[p] = <<"create">> \o t /\ \A q \in Procs : q # p => todo'[q] = todo[q]
      BY <2>2, <3>1 DEF LockInv
    <3>4. Head(todo'[p]) = "create"
      BY <3>2, <3>3
    <3> QED
      BY <3>3, <3>4 DEF At
  <2> QED
    BY <2>1, <2>2 DEF Unauthorised
<1>3. AdapterOf[p] \in Adapters
  BY LoginAssumption
<1>4. CASE UNCHANGED tokens
  BY <1>1, <1>2, <1>4, CalmKeeps DEF Calm
<1>5. CASE tokens' = [tokens EXCEPT ![AdapterOf[p]] = NoToken]
  <2>1. tokens' \in [Adapters -> Nat]
    BY <1>5 DEF TokenInv, NoToken
  <2>2. ASSUME NEW q \in Procs, Holds(q)', ~At(q, "lock")', live # NoToken
        PROVE  tokens'[AdapterOf[q]] = live
    <3>1. Holds(q) /\ ~At(q, "lock")
      BY <1>1, <1>2, <2>2 DEF Holds, At
    <3>2. tokens[AdapterOf[q]] = live
      BY <2>2, <3>1 DEF TokenInv
    <3>3. AdapterOf[q] # AdapterOf[p]
      BY <1>1, <2>2, <3>2 DEF Valid
    <3>4. AdapterOf[q] \in Adapters
      BY LoginAssumption
    <3> QED
      BY <1>5, <3>2, <3>3, <3>4 DEF TokenInv
  <2>3. ASSUME NEW q \in Procs, At(q, "login")' PROVE At(q, "login")
    BY <1>2, <2>3 DEF At
  <2> QED
    BY <1>1, <2>1, <2>2, <2>3 DEF TokenInv
<1> QED
  BY <1>4, <1>5 DEF Unauthorised

\* All the other steps of the session are calm, or pull the tokens.
LEMMA SessionTokens ==
  ASSUME LockInv, TokenInv, NEW p \in Procs, SessionStep(p)
  PROVE  TokenInv'
<1>0. /\ Plain(<<>>) /\ Plain(<<"ping">>) /\ Plain(<<"create">>) /\ Plain(<<"put">>)
      /\ Plain(<<"pinPut">>)
  BY StepsArePlain DEF NextSteps, TradeNext
<1>1. CASE Lock(p) \/ EnsureSession(p)
  <2>1. /\ todo[p] # <<>> /\ Pull(p) /\ UNCHANGED <<live, shared, logins, queue>>
        /\ Then(p, <<>>) \/ Then(p, <<"ping">>) \/ Then(p, <<"create">>)
    BY <1>1 DEF Lock, EnsureSession, At, brokerSession
  <2>2. (\A q \in Procs : q # p => todo'[q] = todo[q]) /\ ~At(p, "login")'
    BY <1>0, <2>1, ThenHead, ThenNoLogin
  <2> QED
    BY <2>1, <2>2, PullKeeps
<1>2. CASE Ping(p) \/ SwitchAccount(p) \/ LooseRequest(p)
  <2>1. /\ todo[p] # <<>> /\ Head(todo[p]) \in {"ping", "switch", "pin", "loose"}
        /\ UNCHANGED <<live, shared, logins, tokens, queue>>
        /\ \/ Then(p, <<>>) \/ Then(p, <<"create">>) \/ Then(p, <<"put">>) \/ Then(p, <<"pinPut">>)
    BY <1>2 DEF Ping, SwitchAccount, LooseRequest, Answered, At, AtOneOf, sessionVars, brokerSession
  <2>2. ~At(p, "lock")
    BY <2>1 DEF At
  <2>3. (\A q \in Procs : q # p => todo'[q] = todo[q]) /\ ~At(p, "login")'
    BY <1>0, <2>1, ThenHead, ThenNoLogin
  <2> QED
    BY <2>1, <2>2, <2>3, CalmKeeps DEF Calm
<1>3. CASE PutAccount(p)
  <2>1. /\ todo[p] # <<>> /\ Head(todo[p]) \in {"put", "pinPut"}
        /\ UNCHANGED <<live, shared, logins, tokens, queue>>
        /\ Then(p, <<>>) \/ Throw(p)
    BY <1>3 DEF PutAccount, At, AtOneOf
  <2>2. ~At(p, "lock")
    BY <2>1 DEF At
  <2>3. (\A q \in Procs : q # p => todo'[q] = todo[q]) /\ ~At(p, "login")'
    BY <1>0, <2>1, ThenHead, ThenNoLogin, ThrowNoLogin
  <2> QED
    BY <2>1, <2>2, <2>3, CalmKeeps DEF Calm
<1> QED
  BY <1>1, <1>2, <1>3, CreateTokens, ProbeTokens, LoginTokens, UnlockTokens DEF SessionStep

\* A trading call leaves the session as it is.
LEMMA TradeCalm ==
  ASSUME NEW p, TradeStep(p)
  PROVE  UNCHANGED <<live, shared, logins, tokens>>
<1> USE DEF sessionVars, brokerSession
<1>1. CASE PostOpens(p) \/ PostRefused(p) \/ PostRefusedEmpty(p) \/ PostFails(p) \/ PostLost(p)
  BY <1>1 DEF PostOpens, PostRefused, PostRefusedEmpty, PostFails, PostLost, Posted, Answered
<1>2. CASE ConfirmAccepted(p) \/ ConfirmRejected(p) \/ ConfirmUnknown(p)
  BY <1>2 DEF ConfirmAccepted, ConfirmRejected, ConfirmUnknown
<1>3. CASE (\E d \in DOMAIN deals : SearchFinds(p, d)) \/ SearchFindsNothing(p)
  BY <1>3 DEF SearchFinds, SearchFindsNothing, Answered
<1>4. CASE ReadStop(p) \/ AttachStop(p) \/ AttachFails(p)
  BY <1>4 DEF ReadStop, AttachStop, AttachFails, Answered
<1>5. CASE CloseNaked(p) \/ Close(p) \/ Reject(p) \/ ReadBook(p) \/ ReadFails(p) \/ PutLost(p)
  BY <1>5 DEF CloseNaked, Close, Reject, ReadBook, ReadFails, PutLost, Answered
<1> QED
  BY <1>1, <1>2, <1>3, <1>4, <1>5 DEF TradeStep

\* None of its next steps is a login.
LEMMA TradeTokens ==
  ASSUME LockInv, TokenInv, NEW p \in Procs, TradeStep(p)
  PROVE  TokenInv'
<1>1. UNCHANGED queue /\ todo[p] # <<>> /\ Head(todo[p]) \in Inner \ {"lock"} /\ Turns(p)
  BY TradeTurns
<1>2. (\A q \in Procs : q # p => todo'[q] = todo[q]) /\ ~At(p, "login")'
  <2>1. ASSUME NEW s \in TradeNext PROVE Plain(s) /\ (s = <<>> \/ s[1] # "login")
    BY <2>1, StepsArePlain DEF NextSteps, TradeNext, Attach
  <2>2. CASE \E s \in TradeNext : Then(p, s)
    BY <1>1, <2>1, <2>2, ThenHead, ThenNoLogin
  <2>3. CASE Throw(p)
    BY <1>1, <2>3, ThrowNoLogin
  <2>4. CASE todo' = [todo EXCEPT ![p] = <<"unlock">>]
    BY <2>4 DEF LockInv, At
  <2>5. CASE todo' = [todo EXCEPT ![p] = Attach \o <<"unlock">>]
    BY <2>5 DEF LockInv, At, Attach
  <2> QED
    BY <1>1, <2>2, <2>3, <2>4, <2>5 DEF Turns
<1>3. ~At(p, "lock")
  BY <1>1 DEF At
<1> QED
  BY <1>1, <1>2, <1>3, TradeCalm, CalmKeeps DEF Calm

\* Every step of the system.
LEMMA TokensKeep ==
  ASSUME LockInv, TokenInv, [Next]_vars
  PROVE  TokenInv'
<1>1. ASSUME NEW p \in Procs, Continue(p) PROVE TokenInv'
  <2>1. CASE AtOneOf(p, LockedRequests \cup {"confirm", "loose"}) /\ Unauthorised(p)
    <3>1. todo[p] # <<>> /\ ~At(p, "lock")
      BY <2>1 DEF AtOneOf, At, LockedRequests, Posts
    <3> QED
      BY <2>1, <3>1, UnauthorisedTokens
  <2> QED
    BY <1>1, <2>1, SessionTokens, TradeTokens DEF Continue
<1>2. ASSUME NEW p \in Procs, NEW kind, NEW work \in {<<"post">>, <<"book">>, <<"close">>},
             Begin(p, kind, work)
      PROVE  TokenInv'
  <2>1. /\ todo[p] = <<>> /\ queue' = Append(queue, p) /\ UNCHANGED <<live, shared, logins, tokens>>
        /\ todo' = [todo EXCEPT ![p] = <<"lock", "ensure", "switch">> \o work \o <<"unlock">>]
    BY <1>2 DEF Begin, sessionVars, brokerSession
  <2>2. ~Holds(p)
    <3>1. Holds(p) => 1 \in 1..Len(queue) /\ queue[1] = p
      BY DEF LockInv, Holds
    <3>2. ~Unlocks(todo[p])
      BY <2>1 DEF Unlocks
    <3> QED
      BY <3>1, <3>2 DEF LockInv
  <2>3. PICK c \in {"post", "book", "close"} : work = <<c>>
    OBVIOUS
  <2>4. /\ todo'[p] = <<"lock", "ensure", "switch">> \o <<c>> \o <<"unlock">>
        /\ \A q \in Procs : q # p => todo'[q] = todo[q]
    BY <2>1, <2>3 DEF LockInv
  <2>5. todo'[p] # <<>> /\ Head(todo'[p]) = "lock"
    BY <2>4
  <2> QED
    BY <2>1, <2>2, <2>4, <2>5, JoinTokens
<1>3. ASSUME NEW p \in Procs, BeginLoose(p) PROVE TokenInv'
  <2>1. Calm(p)
    BY <1>3 DEF BeginLoose, Calm, At, LockInv, sessionVars, brokerSession
  <2> QED
    BY <2>1, CalmKeeps
<1>4. CASE Expire
  BY <1>4 DEF Expire, TokenInv, NoToken, Holds, At
<1>5. CASE (\E d \in DOMAIN deals : BrokerCloses(d)) \/ UNCHANGED vars
  BY <1>5 DEF BrokerCloses, vars, loginVars, sessionVars, brokerSession, TokenInv, Holds, At
<1> QED
  BY <1>1, <1>2, <1>3, <1>4, <1>5 DEF Next, BeginPlace, BeginBook, BeginClose

\* The first session is shared by all.
LEMMA TokensStart ==
  ASSUME Init
  PROVE  TokenInv
  BY LoginAssumption DEF Init, InitLogin, TokenInv, Holds, At

\* Who holds the lock knows whether a session lives.
THEOREM TokenInvariant == Spec => [](LockInv /\ TokenInv)
<1>1. Init => TokenInv
  BY TokensStart
<1>2. LockInv /\ TokenInv /\ [Next]_vars => TokenInv'
  BY TokensKeep
<1> QED
  BY <1>1, <1>2, LockInvariant, PTL DEF Spec

\* Only a login makes a session, and what ends one is the broker.
LEMMA LiveMoves ==
  ASSUME [Next]_vars
  PROVE  UNCHANGED live \/ live' = NoToken \/ \E p \in Procs : Login(p)
<1> USE DEF sessionVars, brokerSession
<1>1. ASSUME NEW p \in Procs, SessionStep(p), ~Login(p) PROVE UNCHANGED live
  BY <1>1 DEF SessionStep, Lock, Unlock, EnsureSession, Ping, CreateSession, Probe, SwitchAccount,
              PutAccount, LooseRequest, Answered
<1>2. ASSUME NEW p \in Procs, Continue(p), ~Login(p) PROVE UNCHANGED live
  BY <1>1, <1>2, TradeCalm DEF Continue, Unauthorised
<1>3. ASSUME NEW p \in Procs, NEW kind, NEW work, Begin(p, kind, work) PROVE UNCHANGED live
  BY <1>3 DEF Begin
<1>4. ASSUME NEW p \in Procs, BeginLoose(p) PROVE UNCHANGED live
  BY <1>4 DEF BeginLoose
<1>5. CASE Expire
  BY <1>5 DEF Expire
<1>6. CASE (\E d \in DOMAIN deals : BrokerCloses(d)) \/ UNCHANGED vars
  BY <1>6 DEF BrokerCloses, vars, loginVars
<1> QED
  BY <1>2, <1>3, <1>4, <1>5, <1>6 DEF Next, BeginPlace, BeginBook, BeginClose

\* "A fresh POST /session invalidates it" (createSessionUnlocked): however the
\* calls of the adapters lose and renew their tokens, none makes a session while
\* one lives.
THEOREM SessionsAreKept == Spec => NoSessionKilled
<1>1. LockInv /\ TokenInv /\ [Next]_vars => [live # NoToken => live' \in {NoToken, live}]_vars
  <2> SUFFICES ASSUME LockInv, TokenInv, [Next]_vars, live # NoToken
               PROVE  live' \in {NoToken, live}
    OBVIOUS
  <2>1. ASSUME NEW p \in Procs, Login(p) PROVE FALSE
    BY <2>1 DEF Login, TokenInv
  <2> QED
    BY <2>1, LiveMoves
<1> QED
  BY <1>1, TokenInvariant, PTL DEF Spec, NoSessionKilled

-----------------------------------------------------------------------------
(***************************************************************************)
(* What the trading calls have the broker do, on the lock and the session  *)
(* tokens above: on which sub-account, with which stop, and how often.     *)
(***************************************************************************)
\* Requests that are right on one sub-account only, and the steps that bind the
\* session to the adapter's.
Needy == LockedRequests \cup {"confirm"}
Switches == {"switch", "put", "pin", "pinPut"}

\* Before such a request comes a step that binds the session.
Guarded(t) ==
  \A i \in 1..Len(t) : t[i] \in Needy => \E j \in 1..(i - 1) : t[j] \in Switches

\* Nothing of B comes after anything of A.
Apart(t, A, B) ==
  \A i, j \in 1..Len(t) : i < j /\ t[i] \in A => t[j] \notin B

\* No such request comes after another or after a handler; and what may open a
\* deal is followed by neither.
Single(t) == Apart(t, Needy \cup Handlers, Needy) /\ Apart(t, Opening, Needy \cup Handlers)

\* A call that waits for the lock has not opened a deal yet.
Early(t) == \A i \in 1..Len(t) : t[i] \notin {"confirm", "search"}

\* The session of the call that holds the lock is on its adapter's sub-account,
\* or will be before it matters; a call that waits for the lock relies on nothing.
OwnInv ==
  /\ faults \in Nat
  /\ \A p \in Procs : Single(todo[p])
  /\ \A p \in Procs : At(p, "lock") => Guarded(todo[p]) /\ Early(todo[p])
  /\ faults = 0 /\ live # NoToken =>
       \A p \in Procs : Holds(p) => active = Pin[AdapterOf[p]] \/ Guarded(todo[p])

-----------------------------------------------------------------------------
\* Steps that neither need the sub-account nor handle exceptions.
Idle(s) == \A i \in 1..Len(s) : s[i] \notin Needy \cup Handlers

\* What is put before the rest of a list keeps things apart, where there is none
\* of A in it or it stands for one.
LEMMA ApartThen ==
  ASSUME NEW A, NEW B, NEW t \in Seq(Names), t # <<>>, Apart(t, A, B), NEW s \in Seq(Names),
         (\A i \in 1..Len(s) : s[i] \notin A) \/ (Apart(s, A, B) /\ Head(t) \in A)
  PROVE  Apart(s \o Tail(t), A, B)
<1>1. PICK n : n = s \o Tail(t)
  OBVIOUS
<1>2. /\ n \in Seq(Names) /\ Len(n) = Len(s) + Len(t) - 1
      /\ \A i \in 1..Len(s) : n[i] = s[i]
      /\ \A i \in (Len(s) + 1)..Len(n) : n[i] = t[i - Len(s) + 1] /\ i - Len(s) + 1 \in 2..Len(t)
  <2>1. /\ n \in Seq(Names) /\ Len(n) = Len(s) + Len(t) - 1
        /\ \A i \in 1..Len(s) : n[i] = s[i]
        /\ \A i \in (Len(s) + 1)..(Len(s) + Len(t) - 1) : n[i] = t[i - Len(s) + 1]
    BY <1>1, Prefix
  <2>2. Len(s) \in Nat /\ Len(t) \in Nat /\ Len(t) >= 1
    OBVIOUS
  <2>3. \A i \in (Len(s) + 1)..Len(n) : i - Len(s) + 1 \in 2..Len(t)
    BY <2>1, <2>2
  <2> QED
    BY <2>1, <2>2, <2>3
<1>3. ASSUME NEW i \in 1..Len(n), NEW j \in 1..Len(n), i < j, n[i] \in A
      PROVE  n[j] \notin B
  <2>0. Len(s) \in Nat /\ Len(t) \in Nat /\ Len(n) \in Nat /\ 1 \in 1..Len(t) /\ Head(t) = t[1]
    BY <1>2
  <2>1. CASE i \in (Len(s) + 1)..Len(n)
    <3>1. j \in (Len(s) + 1)..Len(n)
      BY <1>3, <2>0, <2>1
    <3>2. i - Len(s) + 1 < j - Len(s) + 1
      BY <1>3, <2>0, <2>1, <3>1
    <3>3. PICK a \in 1..Len(t) : a = i - Len(s) + 1 /\ n[i] = t[a]
      <4>1. i - Len(s) + 1 \in 1..Len(t)
        BY <1>2, <2>0, <2>1
      <4> QED
        BY <1>2, <2>1, <4>1
    <3>7. PICK b \in 1..Len(t) : b = j - Len(s) + 1 /\ n[j] = t[b]
      <4>1. j - Len(s) + 1 \in 1..Len(t)
        BY <1>2, <2>0, <3>1
      <4> QED
        BY <1>2, <3>1, <4>1
    <3>4. n[i] = t[a] /\ n[j] = t[b] /\ a < b
      BY <3>2, <3>3, <3>7
    <3>5. t[a] \in A
      BY <1>3, <3>4
    <3>6. t[b] \notin B
      BY <3>4, <3>5 DEF Apart
    <3> QED
      BY <3>4, <3>6
  <2>2. CASE i \in 1..Len(s)
    <3>1. Apart(s, A, B) /\ t[1] \in A
      BY <1>2, <1>3, <2>0, <2>2
    <3>2. CASE j \in 1..Len(s)
      <4>1. n[i] = s[i] /\ n[j] = s[j]
        BY <1>2, <2>2, <3>2
      <4>2. s[i] \in A
        BY <1>3, <4>1
      <4>3. s[j] \notin B
        BY <1>3, <2>2, <3>1, <3>2, <4>2 DEF Apart
      <4> QED
        BY <4>1, <4>3
    <3>3. CASE j \in (Len(s) + 1)..Len(n)
      <4>1. PICK b \in 2..Len(t) : n[j] = t[b]
        BY <1>2, <3>3
      <4>2. b \in 1..Len(t) /\ 1 < b
        BY <2>0, <4>1
      <4> QED
        BY <2>0, <3>1, <4>1, <4>2 DEF Apart
    <3> QED
      BY <2>0, <3>2, <3>3
  <2> QED
    BY <2>0, <2>1, <2>2
<1> QED
  BY <1>1, <1>3 DEF Apart

\* So a list stays single, where what is put before its rest is idle or stands
\* for a request of its kind.
LEMMA SingleThen ==
  ASSUME NEW t \in Seq(Names), t # <<>>, Single(t), NEW s \in Seq(Names),
         \/ Idle(s)
         \/ /\ Single(s) /\ Head(t) \in Needy \cup Handlers
            /\ Head(t) \in Opening \/ \A i \in 1..Len(s) : s[i] \notin Opening
  PROVE  Single(s \o Tail(t))
<1>1. Opening \subseteq Needy
  BY DEF Opening, Needy, LockedRequests
<1>2. Apart(s \o Tail(t), Needy \cup Handlers, Needy)
  BY ApartThen DEF Single, Idle
<1>3. Apart(s \o Tail(t), Opening, Needy \cup Handlers)
  BY <1>1, ApartThen DEF Single, Idle
<1> QED
  BY <1>2, <1>3 DEF Single

\* And guarded, where it binds the session itself, or does not take a binding
\* away, or where no request comes after it.
LEMMA GuardedThen ==
  ASSUME NEW t \in Seq(Names), t # <<>>, NEW s \in Seq(Names), Guarded(s),
         \/ \E j \in 1..Len(s) : s[j] \in Switches
         \/ Guarded(t) /\ Head(t) \notin Switches
         \/ Single(t) /\ Head(t) \in Needy \cup Handlers
  PROVE  Guarded(s \o Tail(t))
<1>1. PICK n : n = s \o Tail(t)
  OBVIOUS
<1>2. /\ n \in Seq(Names) /\ Len(n) = Len(s) + Len(t) - 1
      /\ \A i \in 1..Len(s) : n[i] = s[i]
      /\ \A i \in 1..(Len(t) - 1) : n[Len(s) + i] = t[i + 1]
      /\ \A i \in (Len(s) + 1)..(Len(s) + Len(t) - 1) : n[i] = t[i - Len(s) + 1]
  BY <1>1, Prefix
<1>3. /\ Len(s) \in Nat /\ Len(t) \in Nat /\ Len(t) >= 1 /\ Len(n) \in Nat
      /\ Head(t) = t[1] /\ 1 \in 1..Len(t)
  BY <1>2
<1>4. ASSUME NEW i \in 1..Len(n), n[i] \in Needy
      PROVE  \E j \in 1..(i - 1) : n[j] \in Switches
  <2>1. CASE i \in 1..Len(s)
    <3>1. PICK j \in 1..(i - 1) : s[j] \in Switches
      BY <1>2, <1>4, <2>1 DEF Guarded
    <3>2. n[j] = s[j]
      BY <1>2, <1>3, <2>1, <3>1
    <3> QED
      BY <3>1, <3>2
  <2>2. CASE i \in (Len(s) + 1)..Len(n)
    <3>1. i - Len(s) + 1 \in 2..Len(t) /\ n[i] = t[i - Len(s) + 1]
      BY <1>2, <1>3, <2>2
    <3>2. CASE \E j \in 1..Len(s) : s[j] \in Switches
      <4>1. PICK j \in 1..Len(s) : s[j] \in Switches
        BY <3>2
      <4>2. j \in 1..(i - 1) /\ n[j] = s[j]
        BY <1>2, <1>3, <2>2, <4>1
      <4> QED
        BY <4>1, <4>2
    <3>3. CASE Guarded(t) /\ Head(t) \notin Switches
      <4>1. PICK j \in 1..(i - Len(s)) : t[j] \in Switches
        <5>1. i - Len(s) + 1 \in 1..Len(t) /\ i - Len(s) + 1 - 1 = i - Len(s)
          BY <1>3, <3>1
        <5> QED
          BY <1>4, <3>1, <3>3, <5>1 DEF Guarded
      <4>2. j # 1
        BY <1>3, <3>3, <4>1
      <4>3. j - 1 \in 1..(Len(t) - 1) /\ Len(s) + (j - 1) \in 1..(i - 1)
        BY <1>3, <2>2, <3>1, <4>1, <4>2
      <4>4. n[Len(s) + (j - 1)] = t[j]
        <5>0. PICK k \in 1..(Len(t) - 1) : k = j - 1
          BY <4>3
        <5>1. n[Len(s) + k] = t[k + 1] /\ k + 1 = j
          BY <1>2, <4>1, <5>0
        <5> QED
          BY <5>0, <5>1
      <4> QED
        BY <4>1, <4>3, <4>4
    <3>4. CASE Single(t) /\ Head(t) \in Needy \cup Handlers
      <4>1. t[i - Len(s) + 1] \notin Needy
        BY <1>3, <3>1, <3>4 DEF Single, Apart
      <4> QED
        BY <1>4, <3>1, <4>1
    <3> QED
      BY <3>2, <3>3, <3>4
  <2> QED
    BY <1>3, <2>1, <2>2
<1> QED
  BY <1>1, <1>4 DEF Guarded

\* What calls do next, one by one.
LEMMA NextAreSingle ==
  /\ \A s \in TradeNext : Single(s)
  /\ \A s \in {<<>>, <<"ping">>, <<"create">>, <<"probe">>, <<"login">>, <<"pin">>, <<"pinPut">>, <<"put">>} :
       Idle(s) /\ Single(s) /\ Guarded(s)
  /\ Guarded(<<"ensure", "switch", "close">>)
  /\ \A s \in {<<"unlock">>, <<"ensure", "loose">>, Attach \o <<"unlock">>} : Single(s)
  /\ Guarded(<<"unlock">>)
<1> USE DEF Single, Apart, Opening, Guarded, Idle, Needy, Switches, Handlers, LockedRequests, Posts
<1>1. /\ Single(<<>>) /\ Single(<<"confirm">>) /\ Single(<<"bare">>) /\ Single(<<"bareLast">>)
      /\ Single(<<"reject">>)
  OBVIOUS
<1>2. Single(<<"ensure", "switch", "stop">>) /\ Single(<<"ensure", "switch", "search">>)
  OBVIOUS
<1>3. Single(<<"ensure", "switch", "searchRejected">>) /\ Single(<<"ensure", "switch", "close">>)
  OBVIOUS
<1>4. Single(<<"ensure", "switch", "searchRejected", "reject">>)
  OBVIOUS
<1>5. Single(Attach)
  BY DEF Attach
<1>6. \A s \in {<<>>, <<"ping">>, <<"create">>, <<"probe">>, <<"login">>, <<"pin">>, <<"pinPut">>, <<"put">>} :
       Idle(s) /\ Single(s) /\ Guarded(s)
  OBVIOUS
<1>7. Guarded(<<"ensure", "switch", "close">>)
  OBVIOUS
<1>8. Single(<<"unlock">>) /\ Single(<<"ensure", "loose">>) /\ Guarded(<<"unlock">>)
  OBVIOUS
<1>9. Single(Attach \o <<"unlock">>)
  <2>1. PICK n : n = Attach \o <<"unlock">>
    OBVIOUS
  <2>2. /\ Len(n) = 6 /\ n[1] = "ensure" /\ n[2] = "switch" /\ n[3] = "attach"
        /\ n[4] = "closeNaked" /\ n[5] = "reject" /\ n[6] = "unlock"
    BY <2>1 DEF Attach
  <2>3. Single(n)
    BY <2>2
  <2> QED
    BY <2>1, <2>3
<1> QED
  BY <1>1, <1>2, <1>3, <1>4, <1>5, <1>6, <1>7, <1>8, <1>9 DEF TradeNext

\* What an exception leaves to do has been there, or is the release of the lock.
LEMMA AfterFrom ==
  ASSUME LockInv, NEW p \in Procs, todo[p] # <<>>
  PROVE  \/ After(p) \in {<<"unlock">>, <<>>}
         \/ \E k \in 1..(Len(todo[p]) - 1) :
              /\ Len(After(p)) = Len(todo[p]) - k /\ After(p) \in Seq(Names)
              /\ \A i \in 1..Len(After(p)) : After(p)[i] = todo[p][k + i] /\ k + i \in 2..Len(todo[p])
              /\ todo[p][k + 1] \in Handlers
<1> DEFINE rest == Tail(todo[p])
           catches == {i \in DOMAIN rest : rest[i] \in Handlers}
<1>1. /\ rest \in Seq(Names) /\ Len(rest) = Len(todo[p]) - 1 /\ todo[p] \in Seq(Names)
      /\ \A i \in 1..Len(rest) : rest[i] = todo[p][i + 1] /\ i + 1 \in 2..Len(todo[p])
  BY DEF LockInv
<1>2. CASE catches # {}
  <2>1. PICK m : m = Min(catches)
    OBVIOUS
  <2>2. m \in catches
    <3>1. catches \in SUBSET Nat
      BY <1>1
    <3> HIDE DEF catches
    <3> QED
      BY <1>2, <2>1, <3>1, LeastOf
  <2>3. PICK v : v = SubSeq(rest, m, Len(rest))
    OBVIOUS
  <2>4. After(p) = v
    BY <1>2, <2>1, <2>3 DEF After
  <2>5. m \in 1..Len(rest) /\ rest[m] \in Handlers
    BY <1>1, <2>2
  <2> HIDE DEF rest, catches
  <2>6. /\ v \in Seq(Names) /\ Len(v) = Len(rest) - m + 1
        /\ \A i \in 1..Len(v) : v[i] = rest[m + i - 1] /\ m + i - 1 \in 1..Len(rest)
    BY <1>1, <2>3, <2>5
  <2>7. m \in 1..(Len(todo[p]) - 1) /\ Len(v) = Len(todo[p]) - m /\ todo[p][m + 1] \in Handlers
    BY <1>1, <2>5, <2>6
  <2>8. ASSUME NEW i \in 1..Len(v) PROVE v[i] = todo[p][m + i] /\ m + i \in 2..Len(todo[p])
    <3>1. m + i - 1 + 1 = m + i /\ m + i - 1 \in 1..Len(rest)
      BY <2>5, <2>6
    <3> QED
      BY <1>1, <2>6, <3>1
  <2> QED
    BY <2>4, <2>6, <2>7, <2>8
<1>3. CASE catches = {}
  BY <1>3 DEF After
<1> QED
  BY <1>2, <1>3

\* A handler is not followed by a request.
LEMMA AfterIsSingle ==
  ASSUME LockInv, NEW p \in Procs, Single(todo[p]), todo[p] # <<>>
  PROVE  Single(After(p)) /\ Guarded(After(p))
<1>1. CASE After(p) \in {<<"unlock">>, <<>>}
  BY <1>1, NextAreSingle
<1>2. ASSUME NEW k \in 1..(Len(todo[p]) - 1), NEW v, v = After(p),
             Len(v) = Len(todo[p]) - k,
             \A i \in 1..Len(v) : v[i] = todo[p][k + i] /\ k + i \in 2..Len(todo[p]),
             todo[p][k + 1] \in Handlers
      PROVE  Single(v) /\ Guarded(v)
  <2>1. Len(todo[p]) \in Nat
    BY DEF LockInv
  <2>2. ASSUME NEW i \in 1..Len(v) PROVE v[i] \notin Needy
    <3>1. CASE i = 1
      BY <1>2, <3>1 DEF Handlers, Needy, LockedRequests, Posts
    <3>2. CASE i # 1
      <4>1. PICK a, b \in 1..Len(todo[p]) : a = k + 1 /\ b = k + i
        <5>1. k + 1 \in 1..Len(todo[p]) /\ k + i \in 1..Len(todo[p])
          BY <1>2, <2>1
        <5> QED
          BY <5>1
      <4>2. a < b /\ todo[p][a] \in Handlers /\ v[i] = todo[p][b]
        BY <1>2, <3>2, <4>1
      <4> QED
        BY <4>2 DEF Single, Apart
    <3> QED
      BY <3>1, <3>2
  <2>3. Opening \subseteq Needy
    BY DEF Opening, Needy, LockedRequests
  <2> QED
    BY <2>2, <2>3 DEF Single, Apart, Guarded
<1> QED
  BY <1>1, <1>2, AfterFrom

\* A session made anew takes no binding away.
LEMMA AgainIsSingle ==
  ASSUME NEW t \in Seq(Names), Single(t)
  PROVE  Single(<<"create">> \o t)
<1>1. PICK n : n = <<"create">> \o t
  OBVIOUS
<1>2. /\ Len(n) = Len(t) + 1 /\ n[1] = "create" /\ Len(t) \in Nat
      /\ \A i \in 2..Len(n) : n[i] = t[i - 1] /\ i - 1 \in 1..Len(t)
  <2>1. <<"create">> \in Seq(Names)
    BY DEF Names, Outer
  <2> QED
    BY <1>1, <2>1
<1>3. ASSUME NEW A, NEW B, Apart(t, A, B), "create" \notin A,
             NEW i \in 1..Len(n), NEW j \in 1..Len(n), i < j, n[i] \in A
      PROVE  n[j] \notin B
  <2>1. i # 1
    BY <1>2, <1>3
  <2>2. i \in 2..Len(n) /\ j \in 2..Len(n) /\ i - 1 < j - 1
    BY <1>2, <1>3, <2>1
  <2> QED
    BY <1>2, <1>3, <2>2 DEF Apart
<1>4. "create" \notin Needy \cup Handlers \cup Opening
  BY DEF Needy, Handlers, LockedRequests, Posts, Opening
<1>5. ASSUME NEW A, NEW B, Apart(t, A, B), "create" \notin A PROVE Apart(n, A, B)
  BY <1>3, <1>5 DEF Apart
<1> QED
  BY <1>1, <1>4, <1>5 DEF Single

-----------------------------------------------------------------------------
\* A step of one call that keeps the queue, and does not touch the session unless
\* it holds the lock.
OwnMove(p) ==
  /\ UNCHANGED queue /\ ~At(p, "lock")'
  /\ \A q \in Procs : q # p => todo'[q] = todo[q]
  /\ faults' \in {faults, faults + 1}
  /\ UNCHANGED <<active, live>> \/ Holds(p)

\* It keeps the invariant where its own session is bound or will be.
LEMMA OwnMoveKeeps ==
  ASSUME OwnInv, NEW p \in Procs, OwnMove(p), Single(todo'[p]),
         faults' = 0 /\ live' # NoToken /\ Holds(p) => active' = Pin[AdapterOf[p]] \/ Guarded(todo'[p])
  PROVE  OwnInv'
<1>1. faults' \in Nat /\ (faults' = 0 => faults = 0)
  BY DEF OwnInv, OwnMove
<1>2. \A q \in Procs : Single(todo'[q])
  BY DEF OwnInv, OwnMove
<1>3. ASSUME NEW q \in Procs, At(q, "lock")' PROVE Guarded(todo'[q]) /\ Early(todo'[q])
  <2>1. q # p /\ At(q, "lock")
    BY <1>3 DEF OwnMove, At
  <2> QED
    BY <2>1 DEF OwnInv, OwnMove
<1>4. ASSUME NEW q \in Procs, faults' = 0, live' # NoToken, Holds(q)'
      PROVE  active' = Pin[AdapterOf[q]] \/ Guarded(todo'[q])
  <2>1. Holds(q)
    BY <1>4 DEF Holds, OwnMove
  <2>2. CASE q = p
    BY <1>4, <2>1, <2>2
  <2>3. CASE q # p
    <3>1. ~Holds(p)
      BY <2>1, <2>3 DEF Holds
    <3>2. faults = 0 /\ live # NoToken /\ UNCHANGED active /\ todo'[q] = todo[q]
      BY <1>1, <1>4, <2>3, <3>1 DEF OwnMove
    <3> QED
      BY <2>1, <3>2 DEF OwnInv
  <2> QED
    BY <2>2, <2>3
<1> QED
  BY <1>1, <1>2, <1>3, <1>4 DEF OwnInv

\* An idle step that leaves the session as it is.
LEMMA IdleKeeps ==
  ASSUME LockInv, OwnInv, NEW p \in Procs, todo[p] # <<>>, Head(todo[p]) \notin Switches,
         UNCHANGED <<queue, active, live, faults>>,
         ~At(p, "lock") \/ Holds(p),
         NEW s \in {<<>>, <<"ping">>, <<"create">>, <<"probe">>, <<"login">>, <<"pin">>}, Then(p, s)
  PROVE  OwnInv'
<1>1. PICK t : t = todo[p]
  OBVIOUS
<1>2. t \in Seq(Names) /\ t # <<>> /\ Single(t)
  BY <1>1 DEF LockInv, OwnInv
<1>3. Idle(s) /\ Single(s) /\ Guarded(s) /\ Plain(s)
  BY NextAreSingle, StepsArePlain DEF NextSteps, TradeNext
<1>4. s \in Seq(Names)
  BY <1>3 DEF Plain
<1>5. todo'[p] = s \o Tail(t) /\ \A q \in Procs : q # p => todo'[q] = todo[q]
  BY <1>1 DEF Then, LockInv
<1>6. Single(todo'[p])
  BY <1>2, <1>3, <1>4, <1>5, SingleThen
<1>7. ~At(p, "lock")'
  <2>1. s = <<>> \/ s[1] # "lock"
    OBVIOUS
  <2> QED
    BY <1>3, <2>1, ThenHead DEF At
<1>8. OwnMove(p)
  BY <1>5, <1>7 DEF OwnMove
<1>9. ASSUME faults' = 0, live' # NoToken, Holds(p)
      PROVE  active' = Pin[AdapterOf[p]] \/ Guarded(todo'[p])
  <2>1. active = Pin[AdapterOf[p]] \/ Guarded(t)
    BY <1>1, <1>9 DEF OwnInv
  <2>2. CASE active = Pin[AdapterOf[p]]
    BY <2>2
  <2>3. CASE Guarded(t)
    BY <1>1, <1>2, <1>3, <1>4, <1>5, <2>3, GuardedThen
  <2> QED
    BY <2>1, <2>2, <2>3
<1> QED
  BY <1>6, <1>8, <1>9, OwnMoveKeeps

\* A step that puts a binding before the rest.
LEMMA BindKeeps ==
  ASSUME LockInv, OwnInv, NEW p \in Procs, todo[p] # <<>>,
         UNCHANGED queue, faults' \in {faults, faults + 1}, UNCHANGED <<active, live>> \/ Holds(p),
         NEW s \in {<<"pin">>, <<"put">>, <<"pinPut">>}, Then(p, s)
  PROVE  OwnInv'
<1>1. PICK t : t = todo[p]
  OBVIOUS
<1>2. t \in Seq(Names) /\ t # <<>> /\ Single(t)
  BY <1>1 DEF LockInv, OwnInv
<1>3. Idle(s) /\ Single(s) /\ Guarded(s) /\ Plain(s)
  BY NextAreSingle, StepsArePlain DEF NextSteps, TradeNext
<1>4. s \in Seq(Names) /\ \E j \in 1..Len(s) : s[j] \in Switches
  BY <1>3 DEF Plain, Switches
<1>5. todo'[p] = s \o Tail(t) /\ \A q \in Procs : q # p => todo'[q] = todo[q]
  BY <1>1 DEF Then, LockInv
<1>6. Single(todo'[p]) /\ Guarded(todo'[p])
  BY <1>2, <1>3, <1>4, <1>5, SingleThen, GuardedThen
<1>7. ~At(p, "lock")'
  <2>1. s # <<>> /\ s[1] # "lock"
    OBVIOUS
  <2> QED
    BY <1>3, <2>1, ThenHead DEF At
<1>8. OwnMove(p)
  BY <1>5, <1>7 DEF OwnMove
<1> QED
  BY <1>6, <1>8, OwnMoveKeeps

\* A step that leads nowhere near a lock, from a call whose session is bound, has
\* ended, or may be on any sub-account since a request was lost.
LEMMA BoundKeeps ==
  ASSUME LockInv, OwnInv, NEW p \in Procs, todo[p] # <<>>,
         UNCHANGED queue, faults' \in {faults, faults + 1}, UNCHANGED <<active, live>> \/ Holds(p),
         faults' = 0 /\ live' # NoToken /\ Holds(p) => active' = Pin[AdapterOf[p]],
         NEW s, (s \in TradeNext /\ Head(todo[p]) \in Needy \cup Handlers) \/ s = <<>>, Then(p, s),
         s \in OpeningNext => Head(todo[p]) \in Opening
  PROVE  OwnInv'
<1>1. PICK t : t = todo[p]
  OBVIOUS
<1>2. t \in Seq(Names) /\ t # <<>> /\ Single(t)
  BY <1>1 DEF LockInv, OwnInv
<1>3. Plain(s) /\ (s = <<>> \/ s[1] # "lock") /\ Single(s) /\ (s = <<>> => Idle(s))
  <2>1. s \in TradeNext
    BY DEF TradeNext
  <2>2. s = <<>> \/ s[1] # "lock"
    BY <2>1 DEF TradeNext, Attach
  <2> QED
    BY <2>1, <2>2, StepsArePlain, NextAreSingle DEF NextSteps
<1>4. s \in Seq(Names)
  BY <1>3 DEF Plain
<1>5. todo'[p] = s \o Tail(t) /\ \A q \in Procs : q # p => todo'[q] = todo[q]
  BY <1>1 DEF Then, LockInv
<1>9. s \in OpeningNext \/ \A i \in 1..Len(s) : s[i] \notin Opening
  <2>1. s \in TradeNext
    BY DEF TradeNext
  <2> QED
    BY <2>1 DEF TradeNext, OpeningNext, Opening, Posts, Attach
<1>6. Single(todo'[p])
  BY <1>1, <1>2, <1>3, <1>4, <1>5, <1>9, SingleThen
<1>7. ~At(p, "lock")'
  BY <1>3, ThenHead DEF At
<1>8. OwnMove(p)
  BY <1>5, <1>7 DEF OwnMove
<1> QED
  BY <1>6, <1>8, OwnMoveKeeps

\* An exception leaves no request to do but after a binding.
LEMMA ThrowKeeps ==
  ASSUME LockInv, OwnInv, NEW p \in Procs, todo[p] # <<>>, Throw(p),
         UNCHANGED queue, faults' \in {faults, faults + 1}, UNCHANGED <<active, live>> \/ Holds(p)
  PROVE  OwnInv'
<1>1. todo'[p] = After(p) /\ \A q \in Procs : q # p => todo'[q] = todo[q]
  BY DEF Throw, After, LockInv
<1>2. Single(todo'[p]) /\ Guarded(todo'[p])
  BY <1>1, AfterIsSingle DEF OwnInv
<1>3. ~At(p, "lock")'
  BY ThrowNoLogin
<1>4. OwnMove(p)
  BY <1>1, <1>3 DEF OwnMove
<1> QED
  BY <1>2, <1>4, OwnMoveKeeps

\* Who joins the queue relies on nothing, and does not hold the lock before.
LEMMA JoinOwn ==
  ASSUME LockInv, OwnInv, NEW p \in Procs, queue' = Append(queue, p),
         UNCHANGED <<active, live, faults>>, ~Holds(p),
         \A q \in Procs : q # p => todo'[q] = todo[q],
         Single(todo'[p]), Guarded(todo'[p]), Early(todo'[p])
  PROVE  OwnInv'
<1>1. \A q \in Procs : Single(todo'[q]) /\ (At(q, "lock")' => Guarded(todo'[q]) /\ Early(todo'[q]))
  BY DEF OwnInv, At
<1>2. ASSUME NEW q \in Procs, faults = 0, live # NoToken, Holds(q)'
      PROVE  active = Pin[AdapterOf[q]] \/ Guarded(todo'[q])
  <2>1. CASE q = p
    BY <2>1
  <2>2. CASE q # p
    <3>1. queue \in Seq(Procs)
      BY DEF LockInv
    <3>2. Holds(q)
      <4>1. CASE queue = <<>>
        BY <1>2, <2>2, <4>1 DEF Holds
      <4>2. CASE queue # <<>>
        <5>1. Head(queue') = Head(queue)
          BY <3>1, <4>2
        <5> QED
          BY <1>2, <4>2, <5>1 DEF Holds
      <4> QED
        BY <4>1, <4>2
    <3> QED
      BY <1>2, <2>2, <3>2 DEF OwnInv
  <2> QED
    BY <2>1, <2>2
<1> QED
  BY <1>1, <1>2 DEF OwnInv

\* Who is next to hold the lock has waited for it.
LEMMA UnlockOwn ==
  ASSUME LockInv, OwnInv, NEW p \in Procs, Unlock(p), UNCHANGED faults
  PROVE  OwnInv'
<1>1. /\ todo[p] # <<>> /\ Head(todo[p]) = "unlock" /\ Then(p, <<>>) /\ queue' = Tail(queue)
      /\ UNCHANGED <<live, active>>
  BY DEF Unlock, At, brokerSession
<1>2. PICK t : t = todo[p]
  OBVIOUS
<1>3. t \in Seq(Names) /\ t # <<>> /\ Single(t)
  BY <1>1, <1>2 DEF LockInv, OwnInv
<1>4. todo'[p] = <<>> \o Tail(t) /\ \A q \in Procs : q # p => todo'[q] = todo[q]
  BY <1>1, <1>2 DEF Then, LockInv
<1>5. Single(todo'[p])
  <2>1. Idle(<<>>) /\ <<>> \in Seq(Names)
    BY NextAreSingle
  <2> QED
    BY <1>3, <1>4, <2>1, SingleThen
<1>6. Holds(p) /\ Plain(<<>>)
  BY <1>1, InnerHolds, StepsArePlain DEF NextSteps, TradeNext
<1>7. ~At(p, "lock")'
  BY <1>1, <1>6, ThenHead DEF At
<1>8. ASSUME NEW q \in Procs, Holds(q)' PROVE q # p /\ At(q, "lock")
  <2>1. queue \in Seq(Procs) /\ queue # <<>> /\ queue[1] = p
    BY <1>6 DEF Holds, LockInv
  <2>2. 2 \in 1..Len(queue) /\ queue[2] = q
    BY <1>1, <1>8, <2>1 DEF Holds
  <2> QED
    BY <2>1, <2>2 DEF LockInv
<1>9. ASSUME NEW q \in Procs, At(q, "lock")' PROVE q # p /\ At(q, "lock")
  BY <1>4, <1>7, <1>9 DEF At
<1> QED
  BY <1>1, <1>4, <1>5, <1>8, <1>9 DEF OwnInv

\* The steps of the session.
LEMMA SessionOwn ==
  ASSUME LockInv, TokenInv, OwnInv, NEW p \in Procs, SessionStep(p), UNCHANGED faults
  PROVE  OwnInv'
<1>0. faults' \in {faults, faults + 1}
  OBVIOUS
<1>1. CASE Lock(p) \/ EnsureSession(p) \/ Ping(p) \/ Probe(p) \/ LooseRequest(p)
  <2>1. /\ todo[p] # <<>> /\ Head(todo[p]) \in {"lock", "ensure", "ping", "probe", "loose"}
        /\ UNCHANGED <<queue, active, live>>
        /\ At(p, "lock") => Holds(p)
        /\ \/ Then(p, <<>>) \/ Then(p, <<"ping">>) \/ Then(p, <<"create">>) \/ Then(p, <<"login">>)
           \/ Then(p, <<"pin">>)
    BY <1>1 DEF Lock, EnsureSession, Ping, Probe, LooseRequest, Answered, At, sessionVars, brokerSession
  <2>2. Head(todo[p]) \notin Switches
    BY <2>1 DEF Switches
  <2> QED
    BY <2>1, <2>2, IdleKeeps
<1>2. CASE CreateSession(p) /\ ~(At(p, "create") /\ ~Holds(p))
  <2>1. /\ todo[p] # <<>> /\ Head(todo[p]) \in {"create", "session"}
        /\ UNCHANGED <<queue, active, live>>
        /\ Then(p, <<"probe">>) \/ Then(p, <<"login">>)
    BY <1>2 DEF CreateSession, AtOneOf, brokerSession
  <2>2. Head(todo[p]) \notin Switches /\ ~At(p, "lock")
    BY <2>1 DEF Switches, At
  <2> QED
    BY <2>1, <2>2, IdleKeeps
<1>3. CASE CreateSession(p) /\ At(p, "create") /\ ~Holds(p)
  <2>1. Enters(p) /\ UNCHANGED <<active, live>>
    BY <1>3 DEF CreateSession, Enters, brokerSession
  <2>2. PICK t : t = todo[p]
    OBVIOUS
  <2>3. PICK n : n = <<"lock", "session", "unlock">> \o Tail(t)
    OBVIOUS
  <2>4. t \in Seq(Names) /\ t # <<>> /\ \A i \in 1..Len(t) : t[i] \notin Inner
    BY <2>1, <2>2, OuterOnly DEF LockInv, Enters, At
  <2>5. /\ <<"lock", "session", "unlock">> \in Seq(Names)
        /\ Idle(<<"lock", "session", "unlock">>) /\ Single(<<"lock", "session", "unlock">>)
        /\ Guarded(<<"lock", "session", "unlock">>)
    BY DEF Names, Outer, Inner, Idle, Needy, Handlers, LockedRequests, Posts, Single, Apart, Opening, Guarded
  <2>6. Single(t) /\ Guarded(t) /\ Head(t) \notin Switches
    BY <2>1, <2>2, <2>4 DEF Single, Apart, Opening, Guarded, Needy, Handlers, Inner, LockedRequests, Posts,
                                Enters, At, Switches
  <2>7. Single(n) /\ Guarded(n)
    BY <2>3, <2>4, <2>5, <2>6, SingleThen, GuardedThen
  <2>9. Early(n)
    <3>1. /\ n \in Seq(Names) /\ Len(n) = Len(t) + 2 /\ n[1] = "lock" /\ n[2] = "session" /\ n[3] = "unlock"
          /\ \A i \in 4..Len(n) : n[i] = t[i - 2] /\ i - 2 \in 1..Len(t)
      BY <2>3, <2>4, <2>5, Prefix
    <3>2. \A i \in 4..Len(n) : n[i] \notin Inner
      BY <2>4, <3>1
    <3>3. \A i \in 1..Len(n) : i \in {1, 2, 3} \/ i \in 4..Len(n)
      BY <3>1
    <3>4. {"confirm", "search"} \subseteq Inner
      BY DEF Inner, LockedRequests
    <3> QED
      BY <3>1, <3>2, <3>3, <3>4 DEF Early
  <2>8. todo'[p] = n /\ \A q \in Procs : q # p => todo'[q] = todo[q]
    BY <2>1, <2>2, <2>3 DEF Enters, Then, LockInv
  <2> QED
    BY <2>1, <2>7, <2>8, <2>9, JoinOwn DEF Enters
<1>4. CASE Login(p)
  <2>1. todo[p] # <<>> /\ Head(todo[p]) = "login" /\ Then(p, <<"pin">>) /\ UNCHANGED queue
    BY <1>4 DEF Login, At
  <2>2. Holds(p)
    BY <2>1, InnerHolds DEF Inner
  <2> QED
    BY <1>0, <2>1, <2>2, BindKeeps
<1>5. CASE SwitchAccount(p)
  <2>1. todo[p] # <<>> /\ UNCHANGED <<queue, active, live>>
    BY <1>5 DEF SwitchAccount, AtOneOf, sessionVars, brokerSession
  <2>2. CASE Valid(p) /\ active = Pin[AdapterOf[p]]
    <3>1. Then(p, <<>>)
      BY <1>5, <2>2 DEF SwitchAccount
    <3> QED
      BY <1>0, <2>1, <2>2, <3>1, BoundKeeps DEF OpeningNext
  <2>3. CASE ~(Valid(p) /\ active = Pin[AdapterOf[p]])
    <3>1. Then(p, <<"put">>) \/ Then(p, <<"pinPut">>)
      BY <1>5, <2>3 DEF SwitchAccount
    <3> QED
      BY <1>0, <2>1, <3>1, BindKeeps
  <2> QED
    BY <2>2, <2>3
<1>6. CASE PutAccount(p)
  <2>1. todo[p] # <<>> /\ Head(todo[p]) \in {"put", "pinPut"} /\ UNCHANGED <<queue, live>>
    BY <1>6 DEF PutAccount, AtOneOf
  <2>2. Holds(p) /\ ~At(p, "lock")
    BY <2>1, InnerHolds DEF Inner, At
  <2>3. CASE Throw(p)
    BY <1>0, <2>1, <2>2, <2>3, ThrowKeeps
  <2>4. CASE Then(p, <<>>)
    <3>1. live' # NoToken => active' = Pin[AdapterOf[p]] \/ Throw(p)
      <4>1. CASE Valid(p)
        BY <1>6, <4>1 DEF PutAccount
      <4>2. CASE ~Valid(p)
        BY <2>1, <2>2, <4>2 DEF TokenInv, Valid
      <4> QED
        BY <4>1, <4>2
    <3> QED
      BY <1>0, <2>1, <2>2, <2>3, <2>4, <3>1, BoundKeeps DEF OpeningNext
  <2> QED
    BY <1>6, <2>3, <2>4 DEF PutAccount
<1> QED
  BY <1>1, <1>2, <1>3, <1>4, <1>5, <1>6, UnlockOwn DEF SessionStep

\* A request that is not authorised: the holder of the lock has no session.
LEMMA UnauthorisedOwn ==
  ASSUME LockInv, TokenInv, OwnInv, NEW p \in Procs, todo[p] # <<>>, ~At(p, "lock"),
         Unauthorised(p), UNCHANGED faults
  PROVE  OwnInv'
<1>0. faults' \in {faults, faults + 1}
  OBVIOUS
<1>1. UNCHANGED <<live, active, queue>> /\ ~Valid(p)
  BY DEF Unauthorised, brokerSession
<1>2. CASE Throw(p)
  BY <1>0, <1>1, <1>2, ThrowKeeps
<1>3. CASE todo' = [todo EXCEPT ![p] = <<"create">> \o @]
  <2>1. PICK t : t = todo[p]
    OBVIOUS
  <2>2. t \in Seq(Names) /\ <<"create">> \in Seq(Names) /\ Single(t)
    BY <2>1 DEF LockInv, Names, Outer, OwnInv
  <2>3. todo'[p] = <<"create">> \o t /\ \A q \in Procs : q # p => todo'[q] = todo[q]
    BY <1>3, <2>1 DEF LockInv
  <2>4. Head(todo'[p]) = "create"
    BY <2>2, <2>3
  <2>5. OwnMove(p)
    BY <1>0, <1>1, <2>3, <2>4 DEF OwnMove, At
  <2>6. Single(todo'[p])
    BY <2>2, <2>3, AgainIsSingle
  <2>7. Holds(p) => live = NoToken
    BY <1>1 DEF TokenInv, Valid
  <2> QED
    BY <1>1, <2>5, <2>6, <2>7, OwnMoveKeeps
<1> QED
  BY <1>2, <1>3 DEF Unauthorised

\* What a trading call does to the session, and with which next steps: only a
\* request that is lost may move it.
LEMMA TradeSwitches ==
  ASSUME NEW p, TradeStep(p), faults \in Nat
  PROVE  /\ faults' \in {faults, faults + 1}
         /\ \/ UNCHANGED active
            \/ faults' = faults + 1 /\ (Throw(p) \/ Then(p, <<>>))
         /\ \/ Head(todo[p]) \in Needy
            \/ Head(todo[p]) = "closeNaked" /\ Then(p, <<"ensure", "switch", "close">>)
            \/ todo' = [todo EXCEPT ![p] = <<"unlock">>]
            \/ faults' = faults + 1 /\ (Throw(p) \/ Then(p, <<>>))
<1> USE DEF Fault, NoFault, sessionVars, brokerSession
<1>0. LockedRequests \cup {"confirm"} = Needy /\ Posts \subseteq Needy
  BY DEF Needy, LockedRequests
<1>1. CASE PostOpens(p) \/ PostRefused(p) \/ PostRefusedEmpty(p)
  <2>1. Head(todo[p]) \in Posts /\ UNCHANGED <<active, faults>>
    BY <1>1 DEF PostOpens, PostRefused, PostRefusedEmpty, Posted, Answered, AtOneOf
  <2> QED
    BY <1>0, <2>1
<1>2. CASE PostFails(p) \/ PostLost(p)
  <2>1. Head(todo[p]) \in Posts /\ UNCHANGED active /\ faults' \in {faults, faults + 1}
    BY <1>2 DEF PostFails, PostLost, Answered, AtOneOf, tradeVars
  <2> QED
    BY <1>0, <2>1
<1>3. CASE ConfirmAccepted(p) \/ ConfirmRejected(p) \/ ConfirmUnknown(p)
  <2>1. Head(todo[p]) = "confirm" /\ UNCHANGED <<active, faults>>
    BY <1>3 DEF ConfirmAccepted, ConfirmRejected, ConfirmUnknown, At
  <2> QED
    BY <1>0, <2>1
<1>4. CASE (\E d \in DOMAIN deals : SearchFinds(p, d)) \/ SearchFindsNothing(p)
  <2>1. Head(todo[p]) \in {"search", "searchRejected"} /\ UNCHANGED <<active, faults>>
    BY <1>4 DEF SearchFinds, SearchFindsNothing, Answered, AtOneOf, tradeVars
  <2> QED
    BY <1>0, <2>1 DEF LockedRequests
<1>5. CASE ReadStop(p) \/ AttachStop(p) \/ AttachFails(p)
  <2>1. Head(todo[p]) \in {"stop", "attach"} /\ UNCHANGED <<active, faults>>
    BY <1>5 DEF ReadStop, AttachStop, AttachFails, Answered, At
  <2> QED
    BY <1>0, <2>1 DEF LockedRequests
<1>6. CASE Close(p) \/ ReadBook(p)
  <2>1. Head(todo[p]) \in {"close", "book"} /\ UNCHANGED active /\ faults' \in {faults, faults + 1}
    BY <1>6 DEF Close, ReadBook, Answered, At, tradeVars
  <2> QED
    BY <1>0, <2>1 DEF LockedRequests
<1>7. CASE CloseNaked(p) \/ Reject(p)
  BY <1>7 DEF CloseNaked, Reject, At, tradeVars
<1>8. CASE ReadFails(p)
  <2>1. /\ Head(todo[p]) \in {"search", "searchRejected", "stop", "book"} /\ UNCHANGED active
        /\ faults' = faults + 1
    BY <1>8 DEF ReadFails, AtOneOf
  <2> QED
    BY <1>0, <2>1 DEF LockedRequests
<1>9. CASE PutLost(p)
  BY <1>9 DEF PutLost
<1> QED
  BY <1>1, <1>2, <1>3, <1>4, <1>5, <1>6, <1>7, <1>8, <1>9 DEF TradeStep

\* The steps of a trading call keep the invariant.
LEMMA TradeOwn ==
  ASSUME LockInv, TokenInv, OwnInv, NEW p \in Procs, TradeStep(p)
  PROVE  OwnInv'
<1>1. UNCHANGED queue /\ todo[p] # <<>> /\ Head(todo[p]) \in Inner \ {"lock"} /\ Turns(p)
  BY TradeTurns
<1>2. Holds(p) /\ UNCHANGED live /\ ~At(p, "lock")
  BY <1>1, InnerHolds, TradeCalm DEF At
<1>3. PICK t : t = todo[p]
  OBVIOUS
<1>4. t \in Seq(Names) /\ t # <<>> /\ Single(t) /\ faults \in Nat /\ todo \in [Procs -> Seq(Names)]
  BY <1>1, <1>3 DEF LockInv, OwnInv
<1>5. faults' \in {faults, faults + 1}
  BY <1>4, TradeSwitches
<1>6. CASE Throw(p)
  BY <1>1, <1>2, <1>5, <1>6, ThrowKeeps
<1>7. CASE faults' = faults + 1 /\ Then(p, <<>>)
  <2>1. faults' # 0
    BY <1>4, <1>7
  <2> QED
    BY <1>1, <1>2, <1>5, <1>7, <2>1, BoundKeeps DEF OpeningNext
<1>8. CASE todo' = [todo EXCEPT ![p] = <<"unlock">>]
  <2>1. todo'[p] = <<"unlock">> /\ \A q \in Procs : q # p => todo'[q] = todo[q]
    BY <1>4, <1>8
  <2>2. OwnMove(p)
    BY <1>1, <1>2, <1>5, <2>1 DEF OwnMove, At
  <2>3. Single(todo'[p]) /\ Guarded(todo'[p])
    BY <2>1, NextAreSingle
  <2> QED
    BY <2>2, <2>3, OwnMoveKeeps
<1>9. CASE Head(todo[p]) = "closeNaked" /\ Then(p, <<"ensure", "switch", "close">>)
  <2>1. PICK s : s = <<"ensure", "switch", "close">>
    OBVIOUS
  <2>2. s \in TradeNext /\ (\E j \in 1..Len(s) : s[j] \in Switches) /\ s # <<>> /\ s[1] # "lock"
    BY <2>1 DEF TradeNext, Switches
  <2>3. Single(s) /\ Guarded(s) /\ Plain(s) /\ s \in Seq(Names)
    BY <2>1, <2>2, NextAreSingle, StepsArePlain DEF NextSteps, Plain
  <2>4. Head(t) \in Needy \cup Handlers
    BY <1>3, <1>9 DEF Handlers
  <2>5. todo'[p] = s \o Tail(t) /\ \A q \in Procs : q # p => todo'[q] = todo[q]
    BY <1>3, <1>4, <1>9, <2>1 DEF Then
  <2>9. \A i \in 1..Len(s) : s[i] \notin Opening
    BY <2>1 DEF Opening, Posts
  <2>6. Single(todo'[p]) /\ Guarded(todo'[p])
    BY <1>4, <2>2, <2>3, <2>4, <2>5, <2>9, SingleThen, GuardedThen
  <2>7. ~At(p, "lock")'
    BY <1>1, <1>9, <2>1, <2>2, <2>3, ThenHead DEF At
  <2>8. OwnMove(p)
    BY <1>1, <1>2, <1>5, <2>5, <2>7 DEF OwnMove
  <2> QED
    BY <2>6, <2>8, OwnMoveKeeps
<1>10. CASE Head(todo[p]) \in Needy /\ (UNCHANGED active \/ faults' = faults + 1)
  <2>1. t[1] \in Needy /\ 1 \in 1..Len(t)
    BY <1>3, <1>4, <1>10
  <2>2. ~Guarded(t)
    BY <2>1 DEF Guarded
  <2>3. faults' = 0 /\ live' # NoToken => active' = Pin[AdapterOf[p]]
    BY <1>2, <1>3, <1>4, <1>5, <1>10, <2>2 DEF OwnInv
  <2>4. CASE \E s \in TradeNext : Then(p, s) /\ (s \in OpeningNext => Head(todo[p]) \in Opening)
    BY <1>1, <1>2, <1>5, <1>10, <2>3, <2>4, BoundKeeps
  <2>5. CASE todo' = [todo EXCEPT ![p] = Attach \o <<"unlock">>]
    <3>1. /\ todo'[p] = Attach \o <<"unlock">> /\ \A q \in Procs : q # p => todo'[q] = todo[q]
      BY <1>4, <2>5
    <3>2. Single(todo'[p])
      BY <3>1, NextAreSingle
    <3>3. ~At(p, "lock")'
      BY <3>1 DEF At, Attach
    <3>4. OwnMove(p)
      BY <1>1, <1>2, <1>5, <3>1, <3>3 DEF OwnMove
    <3> QED
      BY <2>3, <3>2, <3>4, OwnMoveKeeps
  <2> QED
    BY <1>1, <1>6, <1>8, <2>4, <2>5 DEF Turns
<1> QED
  BY <1>4, <1>6, <1>7, <1>8, <1>9, <1>10, TradeSwitches

\* What a call has to do when it begins.
LEMMA BeginLists ==
  ASSUME NEW c \in {"post", "book", "close"}, NEW n, n = <<"lock", "ensure", "switch">> \o <<c>> \o <<"unlock">>
  PROVE  /\ Single(n) /\ Guarded(n) /\ Early(n)
         /\ n \in Seq(Names) /\ Len(n) = 5 /\ n[1] = "lock" /\ n[4] = c
         /\ \A i \in 1..5 : i # 4 => n[i] \in {"lock", "ensure", "switch", "unlock"}
<1>1. {"lock", "ensure", "switch", "unlock", c} \subseteq Names
  BY DEF Names, Outer, Inner, LockedRequests, Posts
<1>2. /\ n \in Seq(Names) /\ Len(n) = 5 /\ n[1] = "lock" /\ n[2] = "ensure" /\ n[3] = "switch" /\ n[4] = c
      /\ n[5] = "unlock"
  BY <1>1
<1>3. /\ c \in Needy \ Handlers
      /\ {"lock", "ensure", "switch", "unlock"} \cap (Needy \cup Handlers) = {} /\ "switch" \in Switches
  BY DEF Needy, LockedRequests, Posts, Handlers, Switches
<1>4. \A i \in 1..5 : i \in {1, 2, 3, 4, 5}
  OBVIOUS
<1>5. Single(n)
  BY <1>2, <1>3, <1>4 DEF Single, Apart, Opening, Needy, LockedRequests
<1>7. Early(n)
  BY <1>2, <1>4 DEF Early
<1>6. Guarded(n)
  <2>1. ASSUME NEW i \in 1..Len(n), n[i] \in Needy PROVE i = 4
    BY <1>2, <1>3, <1>4, <2>1
  <2> QED
    BY <1>2, <1>3, <2>1 DEF Guarded
<1> QED
  BY <1>2, <1>4, <1>5, <1>6, <1>7

\* A call that begins is not in the queue.
LEMMA BeginStarts ==
  ASSUME LockInv, NEW p \in Procs, NEW kind, NEW work \in {<<"post">>, <<"book">>, <<"close">>},
         Begin(p, kind, work)
  PROVE  /\ ~Holds(p) /\ queue' = Append(queue, p) /\ UNCHANGED <<live, active, faults, deals>>
         /\ \A q \in Procs : q # p => todo'[q] = todo[q]
         /\ \E c \in {"post", "book", "close"} :
              work = <<c>> /\ todo'[p] = <<"lock", "ensure", "switch">> \o <<c>> \o <<"unlock">>
<1>1. /\ todo[p] = <<>> /\ queue' = Append(queue, p) /\ UNCHANGED <<live, active, faults, deals>>
      /\ todo' = [todo EXCEPT ![p] = <<"lock", "ensure", "switch">> \o work \o <<"unlock">>]
  BY DEF Begin, sessionVars, brokerSession
<1>2. ~Holds(p)
  <2>1. Holds(p) => 1 \in 1..Len(queue) /\ queue[1] = p
    BY DEF LockInv, Holds
  <2>2. ~Unlocks(todo[p])
    BY <1>1 DEF Unlocks
  <2> QED
    BY <2>1, <2>2 DEF LockInv
<1>3. PICK c \in {"post", "book", "close"} : work = <<c>>
  OBVIOUS
<1>4. /\ todo'[p] = <<"lock", "ensure", "switch">> \o <<c>> \o <<"unlock">>
      /\ \A q \in Procs : q # p => todo'[q] = todo[q]
  BY <1>1, <1>3 DEF LockInv
<1> QED
  BY <1>1, <1>2, <1>3, <1>4

\* Every step of the system.
LEMMA OwnKeeps ==
  ASSUME LockInv, TokenInv, OwnInv, [Next]_vars
  PROVE  OwnInv'
<1>1. ASSUME NEW p \in Procs, Continue(p) PROVE OwnInv'
  <2>1. CASE AtOneOf(p, LockedRequests \cup {"confirm", "loose"}) /\ Unauthorised(p) /\ UNCHANGED tradeVars
    <3>1. todo[p] # <<>> /\ ~At(p, "lock") /\ UNCHANGED faults
      BY <2>1 DEF AtOneOf, At, LockedRequests, Posts, tradeVars
    <3> QED
      BY <2>1, <3>1, UnauthorisedOwn
  <2>2. CASE SessionStep(p) /\ UNCHANGED tradeVars
    BY <2>2, SessionOwn DEF tradeVars
  <2> QED
    BY <1>1, <2>1, <2>2, TradeOwn DEF Continue
<1>2. ASSUME NEW p \in Procs, NEW kind, NEW work \in {<<"post">>, <<"book">>, <<"close">>},
             Begin(p, kind, work)
      PROVE  OwnInv'
  <2>1. PICK c \in {"post", "book", "close"} : todo'[p] = <<"lock", "ensure", "switch">> \o <<c>> \o <<"unlock">>
    BY <1>2, BeginStarts
  <2>2. Single(todo'[p]) /\ Guarded(todo'[p]) /\ Early(todo'[p])
    BY <2>1, BeginLists
  <2> QED
    BY <1>2, <2>2, BeginStarts, JoinOwn
<1>3. ASSUME NEW p \in Procs, BeginLoose(p), UNCHANGED tradeVars PROVE OwnInv'
  <2>1. /\ todo[p] = <<>> /\ todo'[p] = <<"ensure", "loose">> /\ UNCHANGED <<queue, active, live, faults>>
        /\ \A q \in Procs : q # p => todo'[q] = todo[q]
    BY <1>3 DEF BeginLoose, LockInv, sessionVars, brokerSession, tradeVars
  <2>2. Single(todo'[p]) /\ Guarded(todo'[p])
    <3>1. Guarded(<<"ensure", "loose">>)
      BY DEF Guarded, Needy, LockedRequests, Posts
    <3> QED
      BY <2>1, <3>1, NextAreSingle
  <2>3. OwnMove(p)
    BY <2>1 DEF OwnMove, At
  <2> QED
    BY <2>2, <2>3, OwnMoveKeeps
<1>4. CASE Expire /\ UNCHANGED tradeVars
  BY <1>4 DEF Expire, OwnInv, At, Holds, tradeVars
<1>5. CASE (\E d \in DOMAIN deals : BrokerCloses(d)) \/ UNCHANGED vars
  BY <1>5 DEF BrokerCloses, vars, loginVars, sessionVars, brokerSession, OwnInv, Holds, At
<1> QED
  BY <1>1, <1>2, <1>3, <1>4, <1>5 DEF Next, BeginPlace, BeginBook, BeginClose

\* In the beginning no call is under way.
LEMMA OwnStarts ==
  ASSUME Init
  PROVE  OwnInv
  BY DEF Init, InitLogin, OwnInv, Single, Apart, At, Holds

\* The three invariants of the lock, the tokens and the sub-account hold together.
THEOREM SessionInvariant == Spec => [](LockInv /\ TokenInv /\ OwnInv)
<1>1. Init => OwnInv
  BY OwnStarts
<1>2. LockInv /\ TokenInv /\ OwnInv /\ [Next]_vars => OwnInv'
  BY OwnKeeps
<1> QED
  BY <1>1, <1>2, TokenInvariant, PTL DEF Spec

\* "Always re-bind after session create" (createSessionUnlocked): whatever a
\* trading call has the broker do, the session is on the sub-account of its own
\* adapter, sessions that end at any moment included, as long as no request is
\* lost.
THEOREM RequestsHitOwnAccount == Spec => ActsOnOwnAccount
<1>1. ASSUME LockInv, TokenInv, OwnInv, faults = 0, NEW p \in Procs, AtOneOf(p, LockedRequests), Valid(p)
      PROVE  active = Pin[AdapterOf[p]]
  <2>1. PICK t : t = todo[p]
    OBVIOUS
  <2>2. t \in Seq(Names) /\ t # <<>> /\ Head(t) \in LockedRequests
    BY <1>1, <2>1 DEF LockInv, AtOneOf
  <2>3. Holds(p)
    BY <2>1, <2>2, InnerHolds, <1>1 DEF Inner, LockedRequests, Posts
  <2>4. t[1] \in Needy /\ 1 \in 1..Len(t)
    BY <2>2 DEF Needy
  <2>5. ~Guarded(todo[p])
    BY <2>1, <2>4 DEF Guarded
  <2> QED
    BY <1>1, <2>3, <2>5 DEF OwnInv, Valid
<1> DEFINE Step == faults = 0 => \A p \in Procs :
                     AtOneOf(p, LockedRequests) /\ Valid(p) /\ todo'[p] # todo[p]
                       => active = Pin[AdapterOf[p]]
<1>2. LockInv /\ TokenInv /\ OwnInv => [Step]_vars
  BY <1>1
<1> QED
  BY <1>2, SessionInvariant, PTL DEF ActsOnOwnAccount

-----------------------------------------------------------------------------
(***************************************************************************)
(* Orders, deals and answers.                                              *)
(***************************************************************************)
Deal == [req : Requests \cup {"none"}, by : Adapters, account : SubAccounts,
         stop : BOOLEAN, open : BOOLEAN]
Fates == {"none", "open", "stop", "other", "silent", "empty"}
Order == [req : Requests \cup {"none"}, want : BOOLEAN, with : BOOLEAN, ref : Nat,
          fate : Fates, deal : Nat]
Answer == [status : {"none", "placing", "FILLED", "REJECTED"}, want : BOOLEAN, deal : Nat]

\* A request is placed by one call, which wants what was asked for, and is not
\* answered while that call has it.  The deals that are named are there.
TradeInv ==
  /\ active \in SubAccounts /\ faults \in Nat
  /\ deals \in Seq(Deal)
  /\ order \in [Procs -> Order]
  /\ answer \in [Requests -> Answer]
  /\ \A p \in Procs : order[p].deal <= Len(deals) /\ order[p].ref <= Len(deals)
  /\ \A r \in Requests : answer[r].deal <= Len(deals)
  /\ \A p \in Procs : order[p].req \in Requests =>
       /\ answer[order[p].req].status = "placing"
       /\ answer[order[p].req].want = order[p].want
  /\ \A p, q \in Procs : order[p].req = order[q].req /\ order[p].req \in Requests => p = q

\* Deals that a step neither opens anew nor moves.
Faint ==
  /\ Len(deals') = Len(deals)
  /\ \A d \in 1..Len(deals) :
       /\ deals'[d].req = deals[d].req /\ deals'[d].by = deals[d].by
       /\ deals'[d].account = deals[d].account
       /\ deals'[d].open => deals[d].open

\* What opens a deal.
LEMMA OpenedDeals ==
  ASSUME TradeInv, NEW p \in Procs
  PROVE  /\ Opened(p) \in Seq(Deal) /\ Len(Opened(p)) = Len(deals) + 1
         /\ \A d \in 1..Len(deals) : Opened(p)[d] = deals[d]
         /\ Opened(p)[Len(deals) + 1].req = order[p].req
         /\ Opened(p)[Len(deals) + 1].by = AdapterOf[p]
<1>1. PICK e : e = [req |-> order[p].req, by |-> AdapterOf[p], account |-> active,
                    stop |-> WithStop(p), open |-> TRUE]
  OBVIOUS
<1>2. WithStop(p) \in BOOLEAN /\ order[p].req \in Requests \cup {"none"} /\ AdapterOf[p] \in Adapters
  BY LoginAssumption DEF WithStop, TradeInv, Order
<1>3. e \in Deal /\ e.req = order[p].req /\ e.by = AdapterOf[p]
  BY <1>1, <1>2 DEF TradeInv, Deal
<1>4. deals \in Seq(Deal) /\ Opened(p) = Append(deals, e)
  BY <1>1 DEF TradeInv, Opened
<1> HIDE DEF Deal
<1> QED
  BY <1>3, <1>4

\* A stop that is set, or a deal that is closed.
LEMMA FaintDeals ==
  ASSUME deals \in Seq(Deal), NEW d \in 1..Len(deals),
         \/ deals' = [deals EXCEPT ![d].stop = TRUE]
         \/ deals' = [deals EXCEPT ![d].open = FALSE]
  PROVE  /\ Faint /\ deals' \in Seq(Deal)
         /\ deals' = [deals EXCEPT ![d].stop = TRUE] =>
              deals'[d].stop /\ deals'[d].open = deals[d].open
<1>1. deals[d] \in Deal
  OBVIOUS
<1>2. PICK e : deals' = [deals EXCEPT ![d] = e] /\ e \in {[deals[d] EXCEPT !.stop = TRUE], [deals[d] EXCEPT !.open = FALSE]}
  OBVIOUS
<1>3. /\ e \in Deal /\ e.req = deals[d].req /\ e.by = deals[d].by /\ e.account = deals[d].account
      /\ e.open => deals[d].open
  BY <1>1, <1>2 DEF Deal
<1>4. /\ deals' \in Seq(Deal) /\ Len(deals') = Len(deals) /\ deals'[d] = e
      /\ \A i \in 1..Len(deals) : i # d => deals'[i] = deals[i]
  <2> HIDE DEF Deal
  <2> QED
    BY <1>2, <1>3
<1>5. ASSUME deals' = [deals EXCEPT ![d].stop = TRUE]
      PROVE  deals'[d].stop /\ deals'[d].open = deals[d].open
  <2>1. deals'[d] = [deals[d] EXCEPT !.stop = TRUE]
    <3>1. PICK x : x = [deals[d] EXCEPT !.stop = TRUE]
      OBVIOUS
    <3>2. deals' = [deals EXCEPT ![d] = x] /\ d \in DOMAIN deals
      BY <1>5, <3>1
    <3> QED
      BY <3>1, <3>2
  <2> QED
    BY <1>1, <2>1 DEF Deal
<1> QED
  BY <1>3, <1>4, <1>5 DEF Faint

\* What a trading call does to the deals: a post may open one.
LEMMA TradeDeals ==
  ASSUME TradeInv, NEW p \in Procs, TradeStep(p)
  PROVE  /\ deals' \in Seq(Deal)
         /\ Faint \/ (AtOneOf(p, Posts) /\ deals' = Opened(p))
<1>0. deals \in Seq(Deal)
  BY DEF TradeInv
<1>1. UNCHANGED deals => Faint /\ deals' \in Seq(Deal)
  BY <1>0 DEF Faint
<1>2. deals' = Opened(p) => deals' \in Seq(Deal)
  BY OpenedDeals
<1>3. CASE PostOpens(p) \/ PostRefused(p) \/ PostRefusedEmpty(p) \/ PostFails(p) \/ PostLost(p)
  <2>1. AtOneOf(p, Posts) /\ (UNCHANGED deals \/ deals' = Opened(p))
    BY <1>3 DEF PostOpens, PostRefused, PostRefusedEmpty, PostFails, PostLost, Posted, tradeVars
  <2> QED
    BY <1>1, <1>2, <2>1
<1>4. CASE \/ ConfirmAccepted(p) \/ ConfirmRejected(p) \/ ConfirmUnknown(p)
           \/ (\E d \in DOMAIN deals : SearchFinds(p, d)) \/ SearchFindsNothing(p)
           \/ ReadStop(p) \/ CloseNaked(p) \/ Reject(p) \/ ReadBook(p) \/ ReadFails(p) \/ PutLost(p)
  <2>1. UNCHANGED deals
    BY <1>4 DEF ConfirmAccepted, ConfirmRejected, ConfirmUnknown, SearchFinds, SearchFindsNothing,
                ReadStop, CloseNaked, Reject, ReadBook, ReadFails, PutLost, tradeVars
  <2> QED
    BY <1>1, <2>1
<1>5. CASE AttachStop(p) \/ AttachFails(p) \/ Close(p)
  <2>1. \/ UNCHANGED deals
        \/ \E d \in Shown : \/ deals' = [deals EXCEPT ![d].stop = TRUE]
                            \/ deals' = [deals EXCEPT ![d].open = FALSE]
    BY <1>5 DEF AttachStop, AttachFails, Close
  <2>2. \A d \in Shown : d \in 1..Len(deals)
    BY <1>0 DEF Shown
  <2> QED
    BY <1>0, <1>1, <2>1, <2>2, FaintDeals
<1> QED
  BY <1>3, <1>4, <1>5 DEF TradeStep

\* The end of a call: the request is answered.
Answers(p, status, d) ==
  /\ answer' = [answer EXCEPT ![order[p].req].status = status, ![order[p].req].deal = d]
  /\ order' = [order EXCEPT ![p] = NoOrder]
  /\ todo' = [todo EXCEPT ![p] = <<"unlock">>]

\* What it does to orders and answers.
LEMMA TradeOrders ==
  ASSUME TradeInv, NEW p \in Procs, TradeStep(p)
  PROVE  \/ UNCHANGED <<order, answer>>
         \/ \E fate \in Fates, ref \in Nat : Posted(p, fate, ref) /\ (ref = 0 \/ ref = Len(deals'))
         \/ UNCHANGED answer /\ \E d \in 0..Len(deals) : order' = [order EXCEPT ![p].deal = d]
         \/ \E status \in {"FILLED", "REJECTED"}, d \in 0..Len(deals) : Answers(p, status, d)
<1>0. /\ deals \in Seq(Deal) /\ order[p].deal \in 0..Len(deals) /\ order[p].ref \in 0..Len(deals)
      /\ Len(deals) \in Nat
  BY DEF TradeInv, Order
<1>1. CASE PostOpens(p)
  <2>1. Posted(p, "open", Len(deals) + 1) /\ deals' = Opened(p)
    BY <1>1 DEF PostOpens
  <2> QED
    BY <1>0, <2>1, OpenedDeals DEF Fates
<1>2. CASE PostRefused(p) \/ PostRefusedEmpty(p)
  BY <1>2 DEF PostRefused, PostRefusedEmpty, Fates, NoDeal
<1>3. CASE ConfirmAccepted(p)
  <2>1. \/ UNCHANGED answer /\ order' = [order EXCEPT ![p].deal = order[p].ref]
        \/ Answers(p, "FILLED", order[p].ref)
    BY <1>3 DEF ConfirmAccepted, Proceed, Fill, Answers
  <2> QED
    BY <1>0, <2>1
<1>4. CASE \E d \in DOMAIN deals : SearchFinds(p, d)
  <2>1. PICK d \in 1..Len(deals) : SearchFinds(p, d)
    BY <1>0, <1>4
  <2>2. \/ UNCHANGED answer /\ order' = [order EXCEPT ![p].deal = d]
        \/ Answers(p, "FILLED", d)
    BY <2>1 DEF SearchFinds, Fill, Answers
  <2> QED
    BY <1>0, <2>2
<1>5. CASE ReadStop(p) \/ AttachStop(p) \/ Reject(p)
  <2>1. \/ UNCHANGED <<answer, order>>
        \/ \E status \in {"FILLED", "REJECTED"} : Answers(p, status, order[p].deal)
    BY <1>5 DEF ReadStop, AttachStop, Reject, Fill, Answers
  <2> QED
    BY <1>0, <2>1
<1>6. CASE \/ PostFails(p) \/ PostLost(p) \/ ConfirmRejected(p) \/ ConfirmUnknown(p)
           \/ SearchFindsNothing(p) \/ AttachFails(p) \/ CloseNaked(p) \/ Close(p)
           \/ ReadBook(p) \/ ReadFails(p) \/ PutLost(p)
  BY <1>6 DEF PostFails, PostLost, ConfirmRejected, ConfirmUnknown, Proceed, SearchFindsNothing,
              AttachFails, CloseNaked, Close, ReadBook, ReadFails, PutLost, tradeVars
<1> QED
  BY <1>1, <1>2, <1>3, <1>4, <1>5, <1>6 DEF TradeStep

\* The answer of a request; a call without one answers nothing.
LEMMA AnswersOne ==
  ASSUME TradeInv, NEW p \in Procs, NEW status \in {"FILLED", "REJECTED"},
         NEW d \in 0..Len(deals), Answers(p, status, d)
  PROVE  /\ answer' \in [Requests -> Answer]
         /\ \A r \in Requests : r # order[p].req => answer'[r] = answer[r]
         /\ order[p].req \in Requests =>
              /\ answer'[order[p].req].status = status
              /\ answer'[order[p].req].deal = d
              /\ answer'[order[p].req].want = answer[order[p].req].want
         /\ order' \in [Procs -> Order] /\ order'[p] = NoOrder
         /\ \A q \in Procs : q # p => order'[q] = order[q]
<1>1. PICK r : r = order[p].req
  OBVIOUS
<1>2. answer' = [answer EXCEPT ![r].status = status, ![r].deal = d] /\ answer \in [Requests -> Answer]
  BY <1>1 DEF Answers, TradeInv
<1>3. d \in Nat
  BY DEF TradeInv
<1>5. /\ order' \in [Procs -> Order] /\ order'[p] = NoOrder
      /\ \A q \in Procs : q # p => order'[q] = order[q]
  <2>1. NoOrder \in Order
    BY DEF NoOrder, Order, Fates, NoDeal
  <2> HIDE DEF Order, NoOrder
  <2> QED
    BY <2>1 DEF TradeInv, Answers
<1>4. CASE r \in Requests
  <2>1. PICK e : e = [[answer[r] EXCEPT !.status = status] EXCEPT !.deal = d]
    OBVIOUS
  <2>2. answer' = [answer EXCEPT ![r] = e]
    BY <1>2, <1>4, <2>1
  <2>3. answer[r] \in Answer
    BY <1>2, <1>4
  <2>4. e \in Answer /\ e.status = status /\ e.deal = d /\ e.want = answer[r].want
    BY <1>3, <2>1, <2>3 DEF Answer
  <2>5. /\ answer' \in [Requests -> Answer] /\ answer'[r] = e
        /\ \A x \in Requests : x # r => answer'[x] = answer[x]
    <3> HIDE DEF Answer
    <3> QED
      BY <1>2, <1>4, <2>2, <2>4
  <2> QED
    BY <1>1, <2>4, <2>5, <1>5
<1>6. CASE r \notin Requests
  <2>1. answer' = answer
    BY <1>2, <1>6
  <2> QED
    BY <1>1, <1>2, <1>5, <1>6, <2>1
<1> QED
  BY <1>4, <1>6

\* The fields of an order that a step leaves alone.
LEMMA OrderFields ==
  ASSUME TradeInv, NEW p \in Procs,
         \/ \E fate \in Fates, ref \in Nat : Posted(p, fate, ref) /\ (ref = 0 \/ ref = Len(deals'))
         \/ \E d \in 0..Len(deals) : order' = [order EXCEPT ![p].deal = d],
         deals' \in Seq(Deal), Len(deals') >= Len(deals)
  PROVE  /\ order' \in [Procs -> Order]
         /\ order'[p].req = order[p].req /\ order'[p].want = order[p].want
         /\ order'[p].deal <= Len(deals') /\ order'[p].ref <= Len(deals')
         /\ \A q \in Procs : q # p => order'[q] = order[q]
<1>0. /\ order[p] \in Order /\ order \in [Procs -> Order] /\ Len(deals') \in Nat /\ Len(deals) \in Nat
      /\ order[p].deal <= Len(deals) /\ order[p].ref <= Len(deals)
  BY DEF TradeInv
<1>1. CASE \E fate \in Fates, ref \in Nat : Posted(p, fate, ref) /\ (ref = 0 \/ ref = Len(deals'))
  <2>1. PICK fate \in Fates, ref \in Nat : Posted(p, fate, ref) /\ (ref = 0 \/ ref = Len(deals'))
    BY <1>1
  <2>2. PICK e : e = [[[order[p] EXCEPT !.with = WithStop(p)] EXCEPT !.fate = fate] EXCEPT !.ref = ref]
    OBVIOUS
  <2>3. order' = [order EXCEPT ![p] = e]
    BY <1>0, <2>1, <2>2 DEF Posted
  <2>4. WithStop(p) \in BOOLEAN
    BY <1>0 DEF WithStop, Order
  <2>5. /\ e \in Order /\ e.req = order[p].req /\ e.want = order[p].want /\ e.deal = order[p].deal
        /\ e.ref = ref
    BY <1>0, <2>1, <2>2, <2>4 DEF Order
  <2>6. order' \in [Procs -> Order] /\ order'[p] = e /\ \A q \in Procs : q # p => order'[q] = order[q]
    <3> HIDE DEF Order
    <3> QED
      BY <1>0, <2>3, <2>5
  <2>7. e.deal <= Len(deals') /\ e.ref <= Len(deals')
    BY <1>0, <2>1, <2>5 DEF Order
  <2> QED
    BY <2>5, <2>6, <2>7
<1>2. CASE \E d \in 0..Len(deals) : order' = [order EXCEPT ![p].deal = d]
  <2>1. PICK d \in 0..Len(deals) : order' = [order EXCEPT ![p].deal = d]
    BY <1>2
  <2>2. PICK e : e = [order[p] EXCEPT !.deal = d]
    OBVIOUS
  <2>3. order' = [order EXCEPT ![p] = e]
    BY <2>1, <2>2
  <2>4. d \in Nat
    BY <1>0, <2>1
  <2>5. /\ e \in Order /\ e.req = order[p].req /\ e.want = order[p].want /\ e.deal = d
        /\ e.ref = order[p].ref
    BY <1>0, <2>2, <2>4 DEF Order
  <2>6. order' \in [Procs -> Order] /\ order'[p] = e /\ \A q \in Procs : q # p => order'[q] = order[q]
    <3> HIDE DEF Order
    <3> QED
      BY <1>0, <2>3, <2>5
  <2>7. e.deal <= Len(deals') /\ e.ref <= Len(deals')
    BY <1>0, <2>1, <2>5 DEF Order
  <2> QED
    BY <2>5, <2>6, <2>7
<1> QED
  BY <1>1, <1>2

\* The steps of a trading call keep it.
LEMMA TradeStepKeeps ==
  ASSUME TradeInv, NEW p \in Procs, TradeStep(p), active' \in SubAccounts
  PROVE  TradeInv'
<1>1. deals' \in Seq(Deal) /\ Len(deals') >= Len(deals) /\ Len(deals) \in Nat /\ Len(deals') \in Nat
  BY TradeDeals, OpenedDeals DEF Faint, TradeInv
<1>2. faults' \in Nat
  BY TradeSwitches DEF TradeInv
<1>3. ASSUME UNCHANGED answer,
             /\ order' \in [Procs -> Order]
             /\ order'[p].req = order[p].req /\ order'[p].want = order[p].want
             /\ order'[p].deal <= Len(deals') /\ order'[p].ref <= Len(deals')
             /\ \A q \in Procs : q # p => order'[q] = order[q]
      PROVE  TradeInv'
  <2>1. \A q \in Procs : order'[q].req = order[q].req /\ order'[q].want = order[q].want
    BY <1>3
  <2>2. \A q \in Procs : order'[q].deal <= Len(deals') /\ order'[q].ref <= Len(deals')
    <3>1. ASSUME NEW q \in Procs, q # p PROVE order'[q].deal <= Len(deals') /\ order'[q].ref <= Len(deals')
      <4>1. order'[q] = order[q] /\ order[q] \in Order
        BY <1>3, <3>1 DEF TradeInv
      <4>2. order[q].deal \in Nat /\ order[q].ref \in Nat
        BY <4>1 DEF Order
      <4>3. order[q].deal <= Len(deals) /\ order[q].ref <= Len(deals)
        BY DEF TradeInv
      <4> QED
        BY <1>1, <4>1, <4>2, <4>3
    <3> QED
      BY <1>3, <3>1
  <2>3. \A r \in Requests : answer'[r].deal <= Len(deals')
    <3>1. \A r \in Requests : answer[r].deal \in Nat /\ answer[r].deal <= Len(deals)
      BY DEF TradeInv, Answer
    <3> QED
      BY <1>1, <1>3, <3>1
  <2>4. \A q \in Procs : order'[q].req \in Requests =>
          /\ answer'[order'[q].req].status = "placing"
          /\ answer'[order'[q].req].want = order'[q].want
    BY <1>3, <2>1 DEF TradeInv
  <2>5. \A q, x \in Procs : order'[q].req = order'[x].req /\ order'[q].req \in Requests => q = x
    BY <2>1 DEF TradeInv
  <2>6. answer' \in [Requests -> Answer]
    BY <1>3 DEF TradeInv
  <2> QED
    BY <1>1, <1>2, <1>3, <2>2, <2>3, <2>4, <2>5, <2>6 DEF TradeInv
<1>4. CASE UNCHANGED <<order, answer>>
  <2>1. order \in [Procs -> Order] /\ order[p] \in Order /\ order[p].deal <= Len(deals) /\ order[p].ref <= Len(deals)
    BY DEF TradeInv
  <2>2. order[p].deal <= Len(deals') /\ order[p].ref <= Len(deals')
    BY <1>1, <2>1 DEF Order
  <2> QED
    BY <1>3, <1>4, <2>1, <2>2
<1>5. CASE \/ \E fate \in Fates, ref \in Nat : Posted(p, fate, ref) /\ (ref = 0 \/ ref = Len(deals'))
           \/ UNCHANGED answer /\ \E d \in 0..Len(deals) : order' = [order EXCEPT ![p].deal = d]
  <2>1. UNCHANGED answer
    BY <1>5 DEF Posted
  <2> QED
    BY <1>1, <1>3, <1>5, <2>1, OrderFields
<1>6. CASE \E status \in {"FILLED", "REJECTED"}, d \in 0..Len(deals) : Answers(p, status, d)
  <2>1. PICK status \in {"FILLED", "REJECTED"}, d \in 0..Len(deals) : Answers(p, status, d)
    BY <1>6
  <2>2. /\ answer' \in [Requests -> Answer]
        /\ \A r \in Requests : r # order[p].req => answer'[r] = answer[r]
        /\ order[p].req \in Requests => answer'[order[p].req].deal = d
        /\ order' \in [Procs -> Order] /\ order'[p] = NoOrder
        /\ \A q \in Procs : q # p => order'[q] = order[q]
    BY <2>1, AnswersOne
  <2>3. \A q \in Procs : order'[q].req \in Requests => q # p /\ order'[q] = order[q]
    BY <2>2, PlacementAssumption DEF NoOrder
  <2>4. ASSUME NEW q \in Procs PROVE order'[q].deal <= Len(deals') /\ order'[q].ref <= Len(deals')
    <3>1. CASE q = p
      BY <1>1, <2>2, <3>1 DEF NoOrder, NoDeal
    <3>2. CASE q # p
      <4>1. order'[q] = order[q] /\ order[q] \in Order
        BY <2>2, <3>2 DEF TradeInv
      <4>2. order[q].deal \in Nat /\ order[q].ref \in Nat
        BY <4>1 DEF Order
      <4>3. order[q].deal <= Len(deals) /\ order[q].ref <= Len(deals)
        BY DEF TradeInv
      <4> QED
        BY <1>1, <4>1, <4>2, <4>3
    <3> QED
      BY <3>1, <3>2
  <2>5. ASSUME NEW r \in Requests PROVE answer'[r].deal <= Len(deals')
    <3>1. answer[r].deal \in Nat /\ answer[r].deal <= Len(deals)
      BY DEF TradeInv, Answer
    <3> QED
      BY <1>1, <2>1, <2>2, <3>1
  <2>6. \A q \in Procs : order'[q].req \in Requests =>
          /\ answer'[order'[q].req].status = "placing"
          /\ answer'[order'[q].req].want = order'[q].want
    <3>1. ASSUME NEW q \in Procs, order'[q].req \in Requests
          PROVE  /\ answer'[order'[q].req].status = "placing"
                 /\ answer'[order'[q].req].want = order'[q].want
      <4>1. q # p /\ order'[q] = order[q]
        BY <2>3, <3>1
      <4>2. order[q].req # order[p].req
        BY <3>1, <4>1 DEF TradeInv
      <4>3. answer'[order[q].req] = answer[order[q].req]
        BY <2>2, <3>1, <4>1, <4>2
      <4> QED
        BY <3>1, <4>1, <4>3 DEF TradeInv
    <3> QED
      BY <3>1
  <2>7. \A q, x \in Procs : order'[q].req = order'[x].req /\ order'[q].req \in Requests => q = x
    <3>1. \A q, x \in Procs : order'[q].req = order'[x].req /\ order'[q].req \in Requests =>
            order'[q] = order[q] /\ order'[x] = order[x]
      BY <2>3
    <3> QED
      BY <3>1 DEF TradeInv
  <2> QED
    BY <1>1, <1>2, <2>2, <2>4, <2>5, <2>6, <2>7 DEF TradeInv
<1> QED
  BY <1>4, <1>5, <1>6, TradeOrders

\* What the calls of the session, and those that begin, do to it.
LEMMA SessionAccount ==
  ASSUME active \in SubAccounts, NEW p \in Procs, SessionStep(p)
  PROVE  active' \in SubAccounts
<1>1. CASE Login(p) \/ PutAccount(p)
  BY <1>1, LoginAssumption DEF Login, PutAccount
<1>2. CASE ~(Login(p) \/ PutAccount(p))
  <2>1. UNCHANGED active
    BY <1>2 DEF SessionStep, Lock, Unlock, EnsureSession, Ping, CreateSession, Probe, SwitchAccount,
                LooseRequest, Answered, sessionVars, brokerSession
  <2> QED
    BY <2>1
<1> QED
  BY <1>1, <1>2

\* Only a change of the sub-account that is lost changes it in a trading call.
LEMMA TradeActive ==
  ASSUME NEW p, TradeStep(p), ~PutLost(p)
  PROVE  UNCHANGED active
<1> USE DEF sessionVars, brokerSession
<1>1. CASE PostOpens(p) \/ PostRefused(p) \/ PostRefusedEmpty(p) \/ PostFails(p) \/ PostLost(p)
  BY <1>1 DEF PostOpens, PostRefused, PostRefusedEmpty, PostFails, PostLost, Posted, Answered
<1>2. CASE ConfirmAccepted(p) \/ ConfirmRejected(p) \/ ConfirmUnknown(p)
  BY <1>2 DEF ConfirmAccepted, ConfirmRejected, ConfirmUnknown
<1>3. CASE (\E d \in DOMAIN deals : SearchFinds(p, d)) \/ SearchFindsNothing(p)
  BY <1>3 DEF SearchFinds, SearchFindsNothing, Answered
<1>4. CASE ReadStop(p) \/ AttachStop(p) \/ AttachFails(p)
  BY <1>4 DEF ReadStop, AttachStop, AttachFails, Answered
<1>5. CASE CloseNaked(p) \/ Close(p) \/ Reject(p) \/ ReadBook(p) \/ ReadFails(p)
  BY <1>5 DEF CloseNaked, Close, Reject, ReadBook, ReadFails, Answered
<1> QED
  BY <1>1, <1>2, <1>3, <1>4, <1>5 DEF TradeStep

\* A trading call only moves the session to its own sub-account.
LEMMA TradeAccount ==
  ASSUME active \in SubAccounts, faults \in Nat, NEW p \in Procs, TradeStep(p)
  PROVE  active' \in SubAccounts
<1>1. CASE PutLost(p)
  BY <1>1, LoginAssumption DEF PutLost
<1>2. CASE ~PutLost(p)
  <2>1. UNCHANGED active
    BY <1>2, TradeActive
  <2> QED
    BY <2>1
<1> QED
  BY <1>1, <1>2

\* An order that is placed has a request of its own.
LEMMA PlaceKeeps ==
  ASSUME TradeInv, NEW p \in Procs, NEW r \in Requests, NEW want \in Wants, BeginPlace(p, r, want)
  PROVE  TradeInv'
<1>1. UNCHANGED <<active, faults, deals>>
  BY DEF BeginPlace, Begin, sessionVars, brokerSession
<1>2. PICK e : e = [[NoOrder EXCEPT !.req = r] EXCEPT !.want = want]
  OBVIOUS
<1>3. e \in Order /\ e.req = r /\ e.want = want /\ e.deal = 0 /\ e.ref = 0
  BY <1>2, PlacementAssumption DEF NoOrder, NoDeal, Order, Fates
<1>4. order' = [order EXCEPT ![p] = e] /\ order \in [Procs -> Order]
  BY <1>2 DEF BeginPlace, TradeInv
<1>5. /\ order' \in [Procs -> Order] /\ order'[p] = e /\ \A q \in Procs : q # p => order'[q] = order[q]
  <2> HIDE DEF Order
  <2> QED
    BY <1>3, <1>4
<1>6. answer[r].status = "none" /\ answer[r] \in Answer /\ answer \in [Requests -> Answer]
  BY DEF BeginPlace, TradeInv
<1>7. PICK a : a = [[answer[r] EXCEPT !.status = "placing"] EXCEPT !.want = want]
  OBVIOUS
<1>8. a \in Answer /\ a.status = "placing" /\ a.want = want /\ a.deal = answer[r].deal
  BY <1>6, <1>7, PlacementAssumption DEF Answer
<1>9. answer' = [answer EXCEPT ![r] = a]
  BY <1>6, <1>7 DEF BeginPlace
<1>10. /\ answer' \in [Requests -> Answer] /\ answer'[r] = a
       /\ \A x \in Requests : x # r => answer'[x] = answer[x]
  <2> HIDE DEF Answer
  <2> QED
    BY <1>6, <1>8, <1>9
<1>11. \A q \in Procs : order[q].req # r
  BY <1>6 DEF TradeInv
<1>12. \A q \in Procs : order'[q].req \in Requests =>
         /\ answer'[order'[q].req].status = "placing"
         /\ answer'[order'[q].req].want = order'[q].want
  <2>1. ASSUME NEW q \in Procs, q # p, order'[q].req \in Requests
        PROVE  /\ answer'[order'[q].req].status = "placing"
               /\ answer'[order'[q].req].want = order'[q].want
    <3>1. order'[q] = order[q] /\ order[q].req # r
      BY <1>5, <1>11, <2>1
    <3>2. answer'[order[q].req] = answer[order[q].req]
      BY <1>10, <2>1, <3>1
    <3> QED
      BY <2>1, <3>1, <3>2 DEF TradeInv
  <2> QED
    BY <1>3, <1>5, <1>8, <1>10, <2>1
<1>13. \A q, x \in Procs : order'[q].req = order'[x].req /\ order'[q].req \in Requests => q = x
  BY <1>3, <1>5, <1>11 DEF TradeInv
<1>14. \A q \in Procs : order'[q].deal <= Len(deals) /\ order'[q].ref <= Len(deals)
  BY <1>3, <1>5 DEF TradeInv
<1>15. \A x \in Requests : answer'[x].deal <= Len(deals)
  BY <1>8, <1>10 DEF TradeInv
<1> QED
  BY <1>1, <1>5, <1>10, <1>12, <1>13, <1>14, <1>15 DEF TradeInv

\* A deal that is closed has been answered with.
LEMMA CloseKeeps ==
  ASSUME TradeInv, NEW p \in Procs, NEW r \in Requests, BeginClose(p, r)
  PROVE  TradeInv'
<1>1. UNCHANGED <<active, faults, deals, answer>>
  BY DEF BeginClose, Begin, sessionVars, brokerSession
<1>2. PICK e : e = [NoOrder EXCEPT !.deal = answer[r].deal]
  OBVIOUS
<1>3. answer[r] \in Answer /\ answer[r].deal <= Len(deals) /\ Len(deals) \in Nat
  BY DEF TradeInv
<1>4. e \in Order /\ e.req = "none" /\ e.deal = answer[r].deal /\ e.ref = 0
  BY <1>2, <1>3 DEF NoOrder, NoDeal, Order, Fates, Answer
<1>5. order' = [order EXCEPT ![p] = e] /\ order \in [Procs -> Order]
  BY <1>2 DEF BeginClose, TradeInv
<1>6. /\ order' \in [Procs -> Order] /\ order'[p] = e /\ \A q \in Procs : q # p => order'[q] = order[q]
  <2> HIDE DEF Order
  <2> QED
    BY <1>4, <1>5
<1>7. \A q \in Procs : order'[q].req \in Requests => q # p /\ order'[q] = order[q]
  BY <1>4, <1>6, PlacementAssumption
<1>8. \A q \in Procs : order'[q].deal <= Len(deals) /\ order'[q].ref <= Len(deals)
  BY <1>3, <1>4, <1>6 DEF TradeInv
<1> QED
  BY <1>1, <1>6, <1>7, <1>8 DEF TradeInv

\* Every step of the system.
LEMMA TradeKeeps ==
  ASSUME TradeInv, [Next]_vars
  PROVE  TradeInv'
<1>1. UNCHANGED <<faults, deals, order, answer>> /\ active' \in SubAccounts => TradeInv'
  BY DEF TradeInv
<1>2. ASSUME NEW p \in Procs, Continue(p) PROVE TradeInv'
  <2>1. CASE SessionStep(p) /\ UNCHANGED tradeVars
    BY <1>1, <2>1, SessionAccount DEF TradeInv, tradeVars
  <2>2. CASE Unauthorised(p) /\ UNCHANGED tradeVars
    BY <1>1, <2>2 DEF TradeInv, tradeVars, Unauthorised, brokerSession
  <2>3. CASE TradeStep(p)
    BY <2>3, TradeAccount, TradeStepKeeps DEF TradeInv
  <2> QED
    BY <1>2, <2>1, <2>2, <2>3 DEF Continue
<1>3. ASSUME NEW p \in Procs, BeginBook(p) PROVE TradeInv'
  BY <1>1, <1>3 DEF BeginBook, Begin, sessionVars, brokerSession, TradeInv
<1>4. ASSUME NEW p \in Procs, BeginLoose(p), UNCHANGED tradeVars PROVE TradeInv'
  BY <1>1, <1>4 DEF BeginLoose, tradeVars, sessionVars, brokerSession, TradeInv
<1>5. CASE Expire /\ UNCHANGED tradeVars
  BY <1>1, <1>5 DEF Expire, tradeVars, TradeInv
<1>6. CASE \E d \in DOMAIN deals : BrokerCloses(d)
  <2>1. PICK d \in DOMAIN deals : BrokerCloses(d)
    BY <1>6
  <2>2. deals \in Seq(Deal) /\ d \in 1..Len(deals)
    BY <2>1 DEF TradeInv
  <2>3. deals' = [deals EXCEPT ![d].open = FALSE] /\ UNCHANGED <<active, faults, order, answer>>
    BY <2>1 DEF BrokerCloses, loginVars, sessionVars, brokerSession
  <2>4. deals' \in Seq(Deal) /\ Len(deals') = Len(deals)
    BY <2>2, <2>3, FaintDeals DEF Faint
  <2> QED
    BY <2>3, <2>4 DEF TradeInv
<1>7. CASE UNCHANGED vars
  BY <1>1, <1>7 DEF vars, loginVars, sessionVars, brokerSession, TradeInv
<1> QED
  BY <1>2, <1>3, <1>4, <1>5, <1>6, <1>7, PlaceKeeps, CloseKeeps DEF Next

\* In the beginning nothing is placed.
LEMMA TradeStarts ==
  ASSUME Init
  PROVE  TradeInv
<1>1. NoOrder \in Order /\ NoOrder.req = "none" /\ NoOrder.deal = 0 /\ NoOrder.ref = 0
  BY DEF NoOrder, NoDeal, Order, Fates
<1>2. [status |-> "none", want |-> FALSE, deal |-> NoDeal] \in Answer
  BY DEF Answer, NoDeal
<1>3. deals \in Seq(Deal) /\ Len(deals) = 0 /\ active \in SubAccounts /\ faults \in Nat
  BY DEF Init, InitLogin
<1>4. \A p \in Procs : order[p] = NoOrder
  BY DEF Init
<1>5. \A r \in Requests : answer[r].deal = 0
  BY DEF Init, NoDeal
<1> HIDE DEF NoOrder
<1>6. order \in [Procs -> Order] /\ answer \in [Requests -> Answer]
  <2> HIDE DEF Order, Answer
  <2> QED
    BY <1>1, <1>2 DEF Init
<1> QED
  BY <1>1, <1>3, <1>4, <1>5, <1>6, PlacementAssumption DEF TradeInv

\* Types, and who places what.
THEOREM TradeInvariant == Spec => []TradeInv
<1>1. Init => TradeInv
  BY TradeStarts
<1>2. TradeInv /\ [Next]_vars => TradeInv'
  BY TradeKeeps
<1> QED
  BY <1>1, <1>2, PTL DEF Spec

\* How a request is answered with a fill.
LEMMA FilledBy ==
  ASSUME TradeInv, [Next]_vars, NEW r \in Requests, answer'[r].status = "FILLED",
         answer[r].status # "FILLED"
  PROVE  \E p \in Procs : /\ order[p].req = r
                          /\ \/ ConfirmAccepted(p) \/ ReadStop(p) \/ AttachStop(p)
                             \/ \E d \in DOMAIN deals : SearchFinds(p, d)
<1>1. ASSUME NEW p \in Procs, NEW q \in Requests, NEW want \in Wants, BeginPlace(p, q, want) PROVE FALSE
  <2>1. answer'[q].status = "placing"
    BY <1>1 DEF BeginPlace, TradeInv, Answer
  <2>2. \A x \in Requests : x # q => answer'[x] = answer[x]
    BY <1>1 DEF BeginPlace, TradeInv
  <2> QED
    BY <2>1, <2>2
<1>2. ASSUME UNCHANGED answer PROVE FALSE
  BY <1>2
<1>3. ASSUME NEW p \in Procs, TradeStep(p)
      PROVE  /\ order[p].req = r
             /\ \/ ConfirmAccepted(p) \/ ReadStop(p) \/ AttachStop(p)
                \/ \E d \in DOMAIN deals : SearchFinds(p, d)
  <2>1. PICK status \in {"FILLED", "REJECTED"}, d \in 0..Len(deals) : Answers(p, status, d)
    <3>1. ~UNCHANGED answer
      BY <1>2
    <3>2. ASSUME NEW fate, NEW ref, Posted(p, fate, ref) PROVE FALSE
      BY <1>2, <3>2 DEF Posted
    <3> QED
      BY <1>3, <3>1, <3>2, TradeOrders
  <2>2. order[p].req = r
    BY <2>1, AnswersOne
  <2>3. status = "FILLED"
    BY <2>1, <2>2, AnswersOne
  <2>4. ~Reject(p)
    <3>1. ASSUME Reject(p) PROVE FALSE
      <4>1. Answers(p, "REJECTED", order[p].deal) /\ order[p].deal \in 0..Len(deals)
        BY <3>1 DEF Reject, Answers, TradeInv, Order
      <4>2. answer'[r].status = "REJECTED"
        BY <2>2, <4>1, AnswersOne
      <4> QED
        BY <4>2
    <3> QED
      BY <3>1
  <2>5. ASSUME \/ PostOpens(p) \/ PostRefused(p) \/ PostRefusedEmpty(p) \/ PostFails(p) \/ PostLost(p)
               \/ ConfirmRejected(p) \/ ConfirmUnknown(p) \/ SearchFindsNothing(p) \/ AttachFails(p)
               \/ CloseNaked(p) \/ Close(p) \/ ReadBook(p) \/ ReadFails(p) \/ PutLost(p)
        PROVE  FALSE
    <3>1. UNCHANGED answer
      BY <2>5 DEF PostOpens, PostRefused, PostRefusedEmpty, PostFails, PostLost, Posted, ConfirmRejected,
                  ConfirmUnknown, Proceed, SearchFindsNothing, AttachFails, CloseNaked, Close, ReadBook,
                  ReadFails, PutLost, tradeVars
    <3> QED
      BY <1>2, <3>1
  <2> QED
    BY <1>3, <2>2, <2>4, <2>5 DEF TradeStep
<1>4. ASSUME NEW p \in Procs, Continue(p), ~TradeStep(p) PROVE FALSE
  BY <1>2, <1>4 DEF Continue, tradeVars
<1> QED
  BY <1>1, <1>2, <1>3, <1>4
     DEF Next, BeginClose, BeginBook, tradeVars, Expire, BrokerCloses, vars

\* "Never return accepted+naked" (placeOrderLocked): at the moment of the answer
\* the deal it names is open with a stop, if one was wanted.
THEOREM FillsAreProtected == Spec => FilledIsProtected
<1> DEFINE Covered(r) == answer'[r].status = "FILLED" /\ answer[r].status # "FILLED" /\ answer[r].want
                           => deals'[answer'[r].deal].open /\ deals'[answer'[r].deal].stop
<1>1. TradeInv /\ [Next]_vars => [\A r \in Requests : Covered(r)]_vars
  <2> SUFFICES ASSUME TradeInv, [Next]_vars, NEW r \in Requests, answer'[r].status = "FILLED",
                      answer[r].status # "FILLED", answer[r].want
               PROVE  deals'[answer'[r].deal].open /\ deals'[answer'[r].deal].stop
    OBVIOUS
  <2>1. PICK p \in Procs : /\ order[p].req = r
                           /\ \/ ConfirmAccepted(p) \/ ReadStop(p) \/ AttachStop(p)
                              \/ \E d \in DOMAIN deals : SearchFinds(p, d)
    BY FilledBy
  <2>2. order[p].want /\ order[p].deal \in 0..Len(deals) /\ deals \in Seq(Deal)
    BY <2>1 DEF TradeInv, Order
  <2>3. answer' # answer
    OBVIOUS
  <2>4. ~ConfirmAccepted(p) /\ \A d \in DOMAIN deals : ~SearchFinds(p, d)
    BY <2>2, <2>3 DEF ConfirmAccepted, SearchFinds, Proceed
  <2>5. PICK d : d = order[p].deal
    OBVIOUS
  <2>6. CASE ReadStop(p)
    <3>1. d \in Shown /\ deals[d].stop /\ Fill(p, d) /\ UNCHANGED deals
      BY <2>3, <2>5, <2>6 DEF ReadStop
    <3>2. answer'[r].deal = d
      <4>1. Answers(p, "FILLED", d)
        BY <3>1 DEF Fill, Answers
      <4> QED
        BY <2>1, <2>2, <2>5, <4>1, AnswersOne
    <3> QED
      BY <3>1, <3>2 DEF Shown
  <2>7. CASE AttachStop(p)
    <3>1. d \in Shown /\ Fill(p, d) /\ deals' = [deals EXCEPT ![d].stop = TRUE]
      BY <2>5, <2>7 DEF AttachStop
    <3>2. answer'[r].deal = d
      <4>1. Answers(p, "FILLED", d)
        BY <3>1 DEF Fill, Answers
      <4> QED
        BY <2>1, <2>2, <2>5, <4>1, AnswersOne
    <3>3. d \in 1..Len(deals) /\ deals[d].open
      BY <2>2, <3>1 DEF Shown
    <3>4. deals'[d].stop /\ deals'[d].open = deals[d].open
      BY <2>2, <3>1, <3>3, FaintDeals
    <3> QED
      BY <3>2, <3>3, <3>4
  <2> QED
    BY <2>1, <2>4, <2>6, <2>7
<1> QED
  BY <1>1, TradeInvariant, PTL DEF Spec, FilledIsProtected

-----------------------------------------------------------------------------
(***************************************************************************)
(* How often a request opens a deal, and which deal it is answered with.   *)
(***************************************************************************)
Refused(p) == order[p].fate \in {"stop", "other", "empty"}

\* The request of a call has opened nothing; or nothing but the last deal of all.
NoneOf(p) == \A d \in 1..Len(deals) : deals[d].req # order[p].req
LastOf(p) == \A d \in 1..Len(deals) : deals[d].req = order[p].req => d = Len(deals)

\* The deal n will do as the answer of its request.
Knows(p, n) ==
  \A d \in 1..Len(deals) :
    deals[d].req = order[p].req /\ deals[d].open /\ deals[d].account = Pin[AdapterOf[p]]
      => n = d \/ (n # NoDeal /\ deals[n].account # Pin[AdapterOf[p]])

\* The steps of a call that rely on what was opened so far, and how.
Marked == Opening \cup {"search", "searchRejected", "stop", "attach", "reject"}

CallInv(p, x) ==
  /\ x \in Opening => order[p].req \in Requests
  /\ x \in Posts \cup {"searchRejected"} \/ (x = "confirm" /\ Refused(p)) => NoneOf(p)
  /\ x \in {"confirm", "search"} => LastOf(p)
  /\ x = "confirm" /\ order[p].fate = "open" =>
       order[p].ref \in 1..Len(deals) /\ deals[order[p].ref].req = order[p].req
  /\ x \in {"stop", "attach", "reject"} => Knows(p, order[p].deal)

Has(t, x) == \E i \in 1..Len(t) : t[i] = x

\* Deals are those of requests that were placed, one for each, opened by the call
\* that has the request; what the calls rely on is so, and so is what they answer.
DealInv ==
  /\ \A d \in 1..Len(deals) : deals[d].req \in Requests /\ answer[deals[d].req].status # "none"
  /\ \A d, e \in 1..Len(deals) : deals[d].req = deals[e].req => d = e
  /\ \A p \in Procs, d \in 1..Len(deals) : deals[d].req = order[p].req => deals[d].by = AdapterOf[p]
  /\ \A p \in Procs, x \in Marked : Has(todo[p], x) => CallInv(p, x)
  /\ NoDealForgotten

\* What a call relies on stays so while its order does and no deal is opened.
LEMMA FaintCall ==
  ASSUME TradeInv, Faint, NEW p \in Procs, UNCHANGED order[p], NEW x \in Marked, CallInv(p, x)
  PROVE  CallInv(p, x)'
<1>1. /\ Len(deals) \in Nat /\ order[p].ref \in Nat /\ order[p].deal \in 0..Len(deals)
  BY DEF TradeInv, Order
<1>2. NoneOf(p) => NoneOf(p)'
  BY DEF NoneOf, Faint
<1>3. LastOf(p) => LastOf(p)'
  BY DEF LastOf, Faint
<1>4. Knows(p, order[p].deal) => Knows(p, order[p].deal)'
  BY <1>1 DEF Knows, Faint, NoDeal
<1>5. Refused(p)' <=> Refused(p)
  BY DEF Refused
<1>6. order[p].ref \in 1..Len(deals) /\ deals[order[p].ref].req = order[p].req
        => (order[p].ref \in 1..Len(deals) /\ deals[order[p].ref].req = order[p].req)'
  BY DEF Faint
<1> QED
  BY <1>2, <1>3, <1>4, <1>5, <1>6 DEF CallInv

\* What was answered stays right when no deal is opened.
LEMMA FaintAnswers ==
  ASSUME TradeInv, DealInv, Faint, NEW r \in Requests, NEW d \in 1..Len(deals),
         UNCHANGED answer[r], answer[r].status \in {"FILLED", "REJECTED"}, deals'[d].req = r,
         deals'[d].open, deals'[d].account = Pin[deals'[d].by]
  PROVE  \/ answer[r].deal = d
         \/ answer[r].deal # NoDeal /\ deals'[answer[r].deal].account # Pin[deals'[d].by]
<1>1. answer[r].deal \in 0..Len(deals) /\ Len(deals) \in Nat
  BY DEF TradeInv, Answer
<1>2. /\ deals[d].req = r /\ deals[d].open /\ deals[d].by = deals'[d].by
      /\ deals[d].account = Pin[deals[d].by]
  BY DEF Faint
<1>3. d \in DOMAIN deals
  BY DEF TradeInv
<1>4. \/ answer[r].deal = d
      \/ answer[r].deal # NoDeal /\ deals[answer[r].deal].account # Pin[deals[d].by]
  BY <1>2, <1>3 DEF DealInv, NoDealForgotten
<1> QED
  BY <1>1, <1>2, <1>4 DEF Faint, NoDeal

\* So the invariant stays, where no deal is opened and nothing is answered, if
\* each call relies on what is so.
LEMMA CallsKeep ==
  ASSUME TradeInv, DealInv, Faint, deals' \in Seq(Deal), UNCHANGED answer,
         \A p \in Procs : order'[p].req \in {order[p].req, "none"},
         \A p \in Procs, x \in Marked : Has(todo'[p], x) => CallInv(p, x)'
  PROVE  DealInv'
<1>1. \A d \in 1..Len(deals') : deals'[d].req \in Requests /\ answer'[deals'[d].req].status # "none"
  BY DEF DealInv, Faint
<1>2. \A d, e \in 1..Len(deals') : deals'[d].req = deals'[e].req => d = e
  BY DEF DealInv, Faint
<1>3. \A p \in Procs, d \in 1..Len(deals') : deals'[d].req = order'[p].req => deals'[d].by = AdapterOf[p]
  <2> SUFFICES ASSUME NEW p \in Procs, NEW d \in 1..Len(deals'), deals'[d].req = order'[p].req
               PROVE  deals'[d].by = AdapterOf[p]
    OBVIOUS
  <2>1. d \in 1..Len(deals) /\ deals'[d].req = deals[d].req /\ deals'[d].by = deals[d].by
    BY DEF Faint
  <2>2. deals[d].req \in Requests
    BY <2>1 DEF DealInv
  <2>3. order'[p].req = order[p].req
    BY <2>1, <2>2, PlacementAssumption
  <2> QED
    BY <2>1, <2>3 DEF DealInv
<1>4. NoDealForgotten'
  <2> SUFFICES ASSUME NEW r \in Requests, NEW d \in DOMAIN deals',
                      answer'[r].status \in {"FILLED", "REJECTED"}, deals'[d].req = r,
                      deals'[d].open, deals'[d].account = Pin[deals'[d].by]
               PROVE  \/ answer'[r].deal = d
                      \/ answer'[r].deal # NoDeal /\ deals'[answer'[r].deal].account # Pin[deals'[d].by]
    BY DEF NoDealForgotten
  <2>1. d \in 1..Len(deals)
    BY DEF Faint
  <2> QED
    BY <2>1, FaintAnswers
<1> QED
  BY <1>1, <1>2, <1>3, <1>4 DEF DealInv

\* A step that opens and answers nothing and gives no call more to rely on.
LEMMA QuietKeeps ==
  ASSUME TradeInv, DealInv, Faint, deals' \in Seq(Deal), UNCHANGED <<order, answer>>,
         \A p \in Procs, x \in Marked : Has(todo'[p], x) => Has(todo[p], x)
  PROVE  DealInv'
<1>1. ASSUME NEW p \in Procs, NEW x \in Marked, Has(todo'[p], x) PROVE CallInv(p, x)'
  <2>1. CallInv(p, x) /\ UNCHANGED order[p]
    BY <1>1 DEF DealInv
  <2> QED
    BY <2>1, FaintCall
<1>2. \A p \in Procs : order'[p].req \in {order[p].req, "none"}
  OBVIOUS
<1> QED
  BY <1>1, <1>2, CallsKeep

\* A step of one call that opens and answers nothing.
LEMMA MoveKeeps ==
  ASSUME TradeInv, DealInv, Faint, deals' \in Seq(Deal), UNCHANGED answer, NEW p \in Procs,
         \A q \in Procs : q # p => todo'[q] = todo[q] /\ order'[q] = order[q],
         order'[p].req \in {order[p].req, "none"},
         \A x \in Marked : Has(todo'[p], x) => CallInv(p, x)'
  PROVE  DealInv'
<1>1. ASSUME NEW q \in Procs, NEW x \in Marked, Has(todo'[q], x) PROVE CallInv(q, x)'
  <2>1. CASE q = p
    BY <1>1, <2>1
  <2>2. CASE q # p
    <3>1. CallInv(q, x) /\ UNCHANGED order[q]
      BY <1>1, <2>2 DEF DealInv
    <3> QED
      BY <3>1, FaintCall
  <2> QED
    BY <2>1, <2>2
<1>2. \A q \in Procs : order'[q].req \in {order[q].req, "none"}
  OBVIOUS
<1> QED
  BY <1>1, <1>2, CallsKeep

\* The answer of a call that knows the deal.
LEMMA AnswerKeeps ==
  ASSUME TradeInv, DealInv, Faint, NEW p \in Procs, NEW status \in {"FILLED", "REJECTED"},
         NEW n \in 0..Len(deals), Answers(p, status, n), Knows(p, n),
         todo \in [Procs -> Seq(Names)], deals' \in Seq(Deal)
  PROVE  DealInv'
<1>1. PICK r0 : r0 = order[p].req
  OBVIOUS
<1>2. /\ \A r \in Requests : r # r0 => answer'[r] = answer[r]
      /\ r0 \in Requests => answer'[r0].status = status /\ answer'[r0].deal = n
      /\ order'[p] = NoOrder
      /\ \A q \in Procs : q # p => order'[q] = order[q]
  BY <1>1, AnswersOne
<1>3. \A d \in 1..Len(deals') : deals'[d].req \in Requests /\ answer'[deals'[d].req].status # "none"
  <2> SUFFICES ASSUME NEW d \in 1..Len(deals')
               PROVE  deals'[d].req \in Requests /\ answer'[deals'[d].req].status # "none"
    OBVIOUS
  <2>1. d \in 1..Len(deals) /\ deals'[d].req = deals[d].req
    BY DEF Faint
  <2>2. deals[d].req \in Requests /\ answer[deals[d].req].status # "none"
    BY <2>1 DEF DealInv
  <2>3. CASE deals[d].req = r0
    BY <1>2, <2>1, <2>2, <2>3
  <2>4. CASE deals[d].req # r0
    BY <1>2, <2>1, <2>2, <2>4
  <2> QED
    BY <2>3, <2>4
<1>4. \A d, e \in 1..Len(deals') : deals'[d].req = deals'[e].req => d = e
  BY DEF DealInv, Faint
<1>5. \A q \in Procs, d \in 1..Len(deals') : deals'[d].req = order'[q].req => deals'[d].by = AdapterOf[q]
  <2> SUFFICES ASSUME NEW q \in Procs, NEW d \in 1..Len(deals'), deals'[d].req = order'[q].req
               PROVE  deals'[d].by = AdapterOf[q]
    OBVIOUS
  <2>1. d \in 1..Len(deals) /\ deals'[d].req = deals[d].req /\ deals'[d].by = deals[d].by
    BY DEF Faint
  <2>2. deals[d].req \in Requests
    BY <2>1 DEF DealInv
  <2>3. q # p
    <3>1. NoOrder.req \notin Requests
      BY PlacementAssumption DEF NoOrder
    <3>2. order'[q].req \in Requests
      BY <2>1, <2>2
    <3> QED
      BY <1>2, <3>1, <3>2
  <2> QED
    BY <1>2, <2>1, <2>3 DEF DealInv
<1>6. ASSUME NEW q \in Procs, NEW x \in Marked, Has(todo'[q], x) PROVE CallInv(q, x)'
  <2>1. q # p
    <3>1. todo'[p] = <<"unlock">>
      BY DEF Answers
    <3>2. ~Has(<<"unlock">>, x)
      BY DEF Has, Marked, Opening, Posts
    <3> QED
      BY <1>6, <3>1, <3>2
  <2>2. todo'[q] = todo[q] /\ UNCHANGED order[q]
    BY <1>2, <2>1 DEF Answers
  <2>3. CallInv(q, x)
    BY <1>6, <2>2 DEF DealInv
  <2> QED
    BY <2>2, <2>3, FaintCall
<1>7. NoDealForgotten'
  <2> SUFFICES ASSUME NEW r \in Requests, NEW d \in DOMAIN deals',
                      answer'[r].status \in {"FILLED", "REJECTED"}, deals'[d].req = r,
                      deals'[d].open, deals'[d].account = Pin[deals'[d].by]
               PROVE  \/ answer'[r].deal = d
                      \/ answer'[r].deal # NoDeal /\ deals'[answer'[r].deal].account # Pin[deals'[d].by]
    BY DEF NoDealForgotten
  <2>1. d \in 1..Len(deals) /\ deals \in Seq(Deal) /\ Len(deals) \in Nat
    <3>1. deals \in Seq(Deal)
      BY DEF TradeInv
    <3> QED
      BY <3>1 DEF Faint
  <2>2. CASE r = r0
    <3>1. /\ deals[d].req = order[p].req /\ deals[d].open /\ deals[d].by = deals'[d].by
          /\ deals[d].account = Pin[deals[d].by]
      BY <1>1, <2>1, <2>2 DEF Faint
    <3>2. deals[d].by = AdapterOf[p]
      BY <2>1, <3>1 DEF DealInv
    <3>3. n = d \/ (n # NoDeal /\ deals[n].account # Pin[AdapterOf[p]])
      BY <2>1, <3>1, <3>2 DEF Knows
    <3>4. answer'[r].deal = n
      BY <1>2, <2>2
    <3> QED
      BY <2>1, <3>1, <3>2, <3>3, <3>4 DEF Faint, NoDeal
  <2>3. CASE r # r0
    <3>1. UNCHANGED answer[r]
      BY <1>2, <2>3
    <3> QED
      BY <2>1, <3>1, FaintAnswers
  <2> QED
    BY <2>2, <2>3
<1> QED
  BY <1>3, <1>4, <1>5, <1>6, <1>7 DEF DealInv

\* While one call trades, the others that need the lock wait for it and have
\* opened nothing.
LEMMA OthersAreEarly ==
  ASSUME LockInv, OwnInv, NEW p \in Procs, AtOneOf(p, Posts), NEW q \in Procs, q # p
  PROVE  Early(todo[q]) \/ \A i \in 1..Len(todo[q]) : todo[q][i] \notin Inner
<1>1. Holds(p)
  <2>1. todo[p] # <<>> /\ Head(todo[p]) \in (Inner \ {"lock"}) \cup {"unlock"}
    BY DEF AtOneOf, Inner, LockedRequests, Posts
  <2> QED
    BY <2>1, InnerHolds
<1>2. ASSUME NEW i \in 1..Len(todo[q]), todo[q][i] \in Inner PROVE Early(todo[q])
  <2>1. Shaped(todo[q]) /\ todo[q] \in Seq(Names)
    BY DEF LockInv
  <2>2. PICK u \in 0..Len(todo[q]) : ShapeAt(todo[q], u)
    BY <2>1 DEF Shaped
  <2>3. i < u /\ todo[q][u] = "unlock" /\ u \in 1..Len(todo[q])
    BY <1>2, <2>1, <2>2 DEF ShapeAt
  <2>4. PICK k \in 1..Len(queue) : queue[k] = q
    BY <2>3 DEF LockInv, Unlocks
  <2>5. queue[1] = p /\ queue \in Seq(Procs)
    BY <1>1 DEF Holds, LockInv
  <2>6. k > 1
    BY <2>4, <2>5
  <2>7. At(q, "lock")
    BY <2>4, <2>6 DEF LockInv
  <2> QED
    BY <2>7 DEF OwnInv
<1> QED
  BY <1>2

\* A call that opens a deal for its request: no other call relies on there being
\* no more deals, since those that wait for the lock rely on nothing.
LEMMA OpensKeep ==
  ASSUME LockInv, OwnInv, TradeInv, DealInv, NEW p \in Procs, AtOneOf(p, Posts),
         deals' = Opened(p), deals' \in Seq(Deal), UNCHANGED answer,
         \A q \in Procs : q # p => todo'[q] = todo[q] /\ order'[q] = order[q],
         order'[p].req = order[p].req,
         \A x \in Marked : Has(todo'[p], x) =>
           x = "confirm" /\ order'[p].fate = "open" /\ order'[p].ref = Len(deals) + 1
  PROVE  DealInv'
<1>1. PICK n : n = Len(deals) + 1
  OBVIOUS
<1>2. /\ Len(deals) \in Nat /\ n \in Nat /\ n # 0 /\ Len(deals') = n
      /\ deals'[n].req = order[p].req /\ deals'[n].by = AdapterOf[p]
      /\ \A d \in 1..Len(deals) : deals'[d] = deals[d]
      /\ \A d \in 1..n : d = n \/ d \in 1..Len(deals)
  <2>1. Len(deals) \in Nat
    BY DEF TradeInv
  <2> QED
    BY <1>1, <2>1, OpenedDeals
<1>3. order[p].req \in Requests /\ NoneOf(p)
  <2>1. PICK x \in Posts : Has(todo[p], x)
    <3>1. todo[p] \in Seq(Names) /\ todo[p] # <<>> /\ Head(todo[p]) \in Posts
      BY DEF AtOneOf, LockInv
    <3>2. 1 \in 1..Len(todo[p]) /\ todo[p][1] \in Posts
      BY <3>1
    <3> QED
      BY <3>2 DEF Has
  <2>2. x \in Marked /\ x \in Opening
    BY DEF Marked, Opening
  <2> QED
    BY <2>1, <2>2 DEF DealInv, CallInv
<1>4. answer[order[p].req].status = "placing"
  BY <1>3 DEF TradeInv
<1>5. \A d \in 1..Len(deals') : deals'[d].req \in Requests /\ answer'[deals'[d].req].status # "none"
  BY <1>2, <1>3, <1>4 DEF DealInv
<1>6. \A d, e \in 1..Len(deals') : deals'[d].req = deals'[e].req => d = e
  BY <1>2, <1>3 DEF DealInv, NoneOf
<1>7. \A q \in Procs : q # p => order[q].req # order[p].req
  BY <1>3 DEF TradeInv
<1>8. \A q \in Procs, d \in 1..Len(deals') : deals'[d].req = order'[q].req => deals'[d].by = AdapterOf[q]
  <2> SUFFICES ASSUME NEW q \in Procs, NEW d \in 1..Len(deals'), deals'[d].req = order'[q].req
               PROVE  deals'[d].by = AdapterOf[q]
    OBVIOUS
  <2>0. order'[q].req = order[q].req
    OBVIOUS
  <2>1. CASE d = n
    BY <1>2, <1>7, <2>0, <2>1
  <2>2. CASE d \in 1..Len(deals)
    BY <1>2, <2>0, <2>2 DEF DealInv
  <2> QED
    BY <1>2, <2>1, <2>2
<1>9. ASSUME NEW q \in Procs, NEW x \in Marked, Has(todo'[q], x) PROVE CallInv(q, x)'
  <2>1. CASE q = p
    <3>1. x = "confirm" /\ order'[p].fate = "open" /\ order'[p].ref = n
      BY <1>1, <1>9, <2>1
    <3>2. LastOf(p)'
      BY <1>2, <1>3 DEF LastOf, NoneOf
    <3>3. ~Refused(p)'
      BY <3>1 DEF Refused
    <3>4. order'[p].ref \in 1..Len(deals') /\ deals'[order'[p].ref].req = order'[p].req
      BY <1>2, <3>1
    <3> QED
      BY <1>3, <2>1, <3>1, <3>2, <3>3, <3>4 DEF CallInv, Posts
  <2>2. CASE q # p
    <3>1. /\ todo'[q] = todo[q] /\ order'[q] = order[q] /\ CallInv(q, x) /\ Has(todo[q], x)
          /\ order[q].req # order[p].req
      BY <1>7, <1>9, <2>2 DEF DealInv
    <3>2. x \notin {"confirm", "search"}
      <4>1. Early(todo[q]) \/ \A i \in 1..Len(todo[q]) : todo[q][i] \notin Inner
        BY <2>2, OthersAreEarly
      <4> QED
        BY <3>1, <4>1 DEF Has, Early, Inner, LockedRequests
    <3>3. order[q].deal \in 0..Len(deals)
      BY DEF TradeInv, Order
    <3>4. NoneOf(q) => NoneOf(q)'
      BY <1>2, <3>1 DEF NoneOf
    <3>5. Knows(q, order[q].deal) => Knows(q, order[q].deal)'
      BY <1>2, <3>1, <3>3 DEF Knows, NoDeal
    <3> QED
      BY <3>1, <3>2, <3>4, <3>5 DEF CallInv
  <2> QED
    BY <2>1, <2>2
<1>10. NoDealForgotten'
  <2> SUFFICES ASSUME NEW r \in Requests, NEW d \in DOMAIN deals',
                      answer'[r].status \in {"FILLED", "REJECTED"}, deals'[d].req = r,
                      deals'[d].open, deals'[d].account = Pin[deals'[d].by]
               PROVE  \/ answer'[r].deal = d
                      \/ answer'[r].deal # NoDeal /\ deals'[answer'[r].deal].account # Pin[deals'[d].by]
    BY DEF NoDealForgotten
  <2>1. d \in 1..Len(deals')
    OBVIOUS
  <2>2. d \in 1..Len(deals) /\ deals'[d] = deals[d]
    BY <1>2, <1>4, <2>1
  <2>3. answer[r].deal \in 0..Len(deals)
    BY DEF TradeInv, Answer
  <2>4. d \in DOMAIN deals
    BY <2>2 DEF TradeInv
  <2>5. \/ answer[r].deal = d
        \/ answer[r].deal # NoDeal /\ deals[answer[r].deal].account # Pin[deals[d].by]
    BY <2>2, <2>4 DEF DealInv, NoDealForgotten
  <2> QED
    BY <1>2, <2>2, <2>3, <2>5 DEF NoDeal
<1> QED
  BY <1>5, <1>6, <1>8, <1>9, <1>10 DEF DealInv

\* A call that places begins to rely on having opened nothing.
LEMMA BeginPlaceDeals ==
  ASSUME LockInv, TradeInv, DealInv, NEW p \in Procs, NEW r \in Requests, NEW want \in Wants,
         BeginPlace(p, r, want)
  PROVE  DealInv'
<1>1. /\ UNCHANGED deals /\ deals \in Seq(Deal) /\ \A q \in Procs : q # p => todo'[q] = todo[q]
      /\ todo'[p] = <<"lock", "ensure", "switch">> \o <<"post">> \o <<"unlock">>
  BY BeginStarts DEF BeginPlace, TradeInv
<1>2. /\ order'[p].req = r /\ \A q \in Procs : q # p => order'[q] = order[q]
  <2>1. PICK e : e = [[NoOrder EXCEPT !.req = r] EXCEPT !.want = want]
    OBVIOUS
  <2>2. e.req = r
    BY <2>1 DEF NoOrder
  <2>3. order' = [order EXCEPT ![p] = e] /\ order \in [Procs -> Order]
    BY <2>1 DEF BeginPlace, TradeInv
  <2> HIDE DEF Order
  <2> QED
    BY <2>2, <2>3
<1>3. /\ answer[r].status = "none" /\ answer'[r].status = "placing"
      /\ \A x \in Requests : x # r => answer'[x] = answer[x]
  <2>1. answer[r].status = "none" /\ answer[r] \in Answer /\ answer \in [Requests -> Answer]
    BY DEF BeginPlace, TradeInv
  <2>2. PICK a : a = [[answer[r] EXCEPT !.status = "placing"] EXCEPT !.want = want]
    OBVIOUS
  <2>3. a.status = "placing"
    BY <2>1, <2>2 DEF Answer
  <2>4. answer' = [answer EXCEPT ![r] = a]
    BY <2>1, <2>2 DEF BeginPlace
  <2> HIDE DEF Answer
  <2> QED
    BY <2>1, <2>3, <2>4
<1>4. \A d \in 1..Len(deals) : deals[d].req # r
  BY <1>3 DEF DealInv
<1>5. Faint
  BY <1>1 DEF Faint
<1>6. ASSUME NEW q \in Procs, NEW x \in Marked, Has(todo'[q], x) PROVE CallInv(q, x)'
  <2>1. CASE q = p
    <3>1. x = "post"
      <4>1. PICK n : n = todo'[p]
        OBVIOUS
      <4>2. Len(n) = 5 /\ n[4] = "post" /\ \A i \in 1..5 : i # 4 => n[i] \in {"lock", "ensure", "switch", "unlock"}
        BY <1>1, <4>1, BeginLists
      <4>3. PICK i \in 1..5 : n[i] = x
        BY <1>6, <2>1, <4>1, <4>2 DEF Has
      <4> QED
        BY <4>2, <4>3 DEF Marked, Opening, Posts
    <3>2. NoneOf(p)'
      BY <1>1, <1>2, <1>4 DEF NoneOf
    <3> QED
      BY <1>2, <2>1, <3>1, <3>2 DEF CallInv, Posts
  <2>2. CASE q # p
    <3>1. CallInv(q, x) /\ UNCHANGED order[q]
      BY <1>1, <1>2, <1>6, <2>2 DEF DealInv
    <3> QED
      BY <1>5, <3>1, FaintCall
  <2> QED
    BY <2>1, <2>2
<1>7. NoDealForgotten'
  <2> SUFFICES ASSUME NEW x \in Requests, NEW d \in DOMAIN deals',
                      answer'[x].status \in {"FILLED", "REJECTED"}, deals'[d].req = x,
                      deals'[d].open, deals'[d].account = Pin[deals'[d].by]
               PROVE  \/ answer'[x].deal = d
                      \/ answer'[x].deal # NoDeal /\ deals'[answer'[x].deal].account # Pin[deals'[d].by]
    BY DEF NoDealForgotten
  <2>1. x # r
    BY <1>3
  <2>2. answer'[x] = answer[x]
    BY <1>3, <2>1
  <2> QED
    BY <1>1, <2>2 DEF DealInv, NoDealForgotten
<1>8. \A d \in 1..Len(deals') : deals'[d].req \in Requests /\ answer'[deals'[d].req].status # "none"
  BY <1>1, <1>3, <1>4 DEF DealInv
<1>9. \A q \in Procs, d \in 1..Len(deals') : deals'[d].req = order'[q].req => deals'[d].by = AdapterOf[q]
  BY <1>1, <1>2, <1>4 DEF DealInv
<1> QED
  BY <1>1, <1>6, <1>7, <1>8, <1>9 DEF DealInv

\* The other calls that begin rely on nothing.
LEMMA BeginDeals ==
  ASSUME LockInv, TradeInv, DealInv, NEW p \in Procs,
         (\E r \in Requests : BeginClose(p, r)) \/ BeginBook(p)
  PROVE  DealInv'
<1>1. PICK c \in {"book", "close"} :
        /\ UNCHANGED deals /\ \A q \in Procs : q # p => todo'[q] = todo[q]
        /\ todo'[p] = <<"lock", "ensure", "switch">> \o <<c>> \o <<"unlock">>
  <2>1. ASSUME Begin(p, "book", <<"book">>) \/ Begin(p, "close", <<"close">>)
        PROVE  \E c \in {"book", "close"} :
                  /\ UNCHANGED deals /\ \A q \in Procs : q # p => todo'[q] = todo[q]
                  /\ todo'[p] = <<"lock", "ensure", "switch">> \o <<c>> \o <<"unlock">>
    <3>1. UNCHANGED deals /\ \A q \in Procs : q # p => todo'[q] = todo[q]
      BY <2>1, BeginStarts
    <3>2. \E c \in {"book", "close"} : todo'[p] = <<"lock", "ensure", "switch">> \o <<c>> \o <<"unlock">>
      BY <2>1 DEF Begin, LockInv
    <3> QED
      BY <3>1, <3>2
  <2> QED
    BY <2>1 DEF BeginBook, BeginClose
<1>2. \A x \in Marked : ~Has(todo'[p], x)
  <2>1. PICK n : n = todo'[p]
    OBVIOUS
  <2>2. Len(n) = 5 /\ n[4] = c /\ \A i \in 1..5 : i # 4 => n[i] \in {"lock", "ensure", "switch", "unlock"}
    BY <1>1, <2>1, BeginLists
  <2> QED
    BY <2>1, <2>2 DEF Has, Marked, Opening, Posts
<1>3. UNCHANGED answer /\ order'[p].req \in {order[p].req, "none"}
      /\ \A q \in Procs : q # p => order'[q] = order[q]
  <2>1. CASE BeginBook(p)
    BY <2>1 DEF BeginBook
  <2>2. ASSUME NEW r \in Requests, BeginClose(p, r)
        PROVE  /\ UNCHANGED answer /\ order'[p].req = "none"
               /\ \A q \in Procs : q # p => order'[q] = order[q]
    <3>1. PICK e : e = [NoOrder EXCEPT !.deal = answer[r].deal]
      OBVIOUS
    <3>2. order' = [order EXCEPT ![p] = e] /\ order \in [Procs -> Order] /\ UNCHANGED answer
      BY <2>2, <3>1 DEF BeginClose, TradeInv
    <3>3. e.req = "none"
      BY <3>1 DEF NoOrder
    <3> HIDE DEF Order
    <3> QED
      BY <3>2, <3>3
  <2> QED
    BY <2>1, <2>2
<1>4. Faint /\ deals' \in Seq(Deal)
  BY <1>1 DEF Faint, TradeInv
<1> QED
  BY <1>1, <1>2, <1>3, <1>4, MoveKeeps

\* What a call relies on in its next steps is in S or was to come already.
Leaves(p, S) ==
  /\ \A q \in Procs : q # p => todo'[q] = todo[q]
  /\ \A x \in Marked : Has(todo'[p], x) =>
       x \in S \/ \E i \in 2..Len(todo[p]) : todo[p][i] = x

\* When steps are put before the rest.
LEMMA ThenLeaves ==
  ASSUME LockInv, NEW p \in Procs, todo[p] # <<>>, NEW s \in Seq(Names), Then(p, s), NEW S,
         \A i \in 1..Len(s) : s[i] \in Marked => s[i] \in S
  PROVE  Leaves(p, S)
<1>1. PICK t : t = todo[p]
  OBVIOUS
<1>2. PICK n : n = s \o Tail(t)
  OBVIOUS
<1>3. t \in Seq(Names) /\ t # <<>> /\ todo'[p] = n /\ \A q \in Procs : q # p => todo'[q] = todo[q]
  BY <1>1, <1>2 DEF LockInv, Then
<1>4. /\ Len(n) = Len(s) + Len(t) - 1
      /\ \A i \in 1..Len(s) : n[i] = s[i]
      /\ \A i \in (Len(s) + 1)..(Len(s) + Len(t) - 1) : n[i] = t[i - Len(s) + 1]
  BY <1>2, <1>3, Prefix
<1>5. ASSUME NEW x \in Marked, NEW i \in 1..Len(n), n[i] = x
      PROVE  x \in S \/ \E j \in 2..Len(t) : t[j] = x
  <2>0. Len(s) \in Nat /\ Len(t) \in Nat /\ Len(t) >= 1
    BY <1>3
  <2>1. CASE i \in 1..Len(s)
    BY <1>4, <1>5, <2>1
  <2>2. CASE i \in (Len(s) + 1)..(Len(s) + Len(t) - 1)
    <3>1. i - Len(s) + 1 \in 2..Len(t) /\ t[i - Len(s) + 1] = x
      BY <1>4, <1>5, <2>0, <2>2
    <3> QED
      BY <3>1
  <2> QED
    BY <1>4, <2>0, <2>1, <2>2
<1> QED
  BY <1>1, <1>3, <1>5 DEF Leaves, Has

\* When it throws.
LEMMA ThrowLeaves ==
  ASSUME LockInv, NEW p \in Procs, todo[p] # <<>>, Throw(p)
  PROVE  Leaves(p, {})
<1>1. todo'[p] = After(p) /\ \A q \in Procs : q # p => todo'[q] = todo[q]
  BY DEF Throw, After, LockInv
<1>2. ASSUME NEW x \in Marked, Has(After(p), x) PROVE \E i \in 2..Len(todo[p]) : todo[p][i] = x
  <2>1. ~Has(<<"unlock">>, x) /\ ~Has(<<>>, x)
    BY DEF Has, Marked, Opening, Posts
  <2>2. After(p) \notin {<<"unlock">>, <<>>}
    BY <1>2, <2>1
  <2>3. PICK k \in 1..(Len(todo[p]) - 1) :
          \A i \in 1..Len(After(p)) : After(p)[i] = todo[p][k + i] /\ k + i \in 2..Len(todo[p])
    BY <2>2, AfterFrom
  <2>4. PICK i \in 1..Len(After(p)) : After(p)[i] = x
    BY <1>2 DEF Has
  <2> QED
    BY <2>3, <2>4
<1> QED
  BY <1>1, <1>2 DEF Leaves

\* When none are put there, or none that rely on anything.
LEMMA NothingLeaves ==
  ASSUME LockInv, NEW p \in Procs, todo[p] # <<>>,
         NEW s \in {<<>>, <<"ping">>, <<"create">>, <<"probe">>, <<"login">>, <<"pin">>, <<"pinPut">>, <<"put">>,
                    <<"ensure", "switch", "close">>, <<"lock", "session", "unlock">>},
         Then(p, s)
  PROVE  Leaves(p, {})
<1>1. s \in Seq(Names)
  <2>1. CASE s = <<"lock", "session", "unlock">>
    BY <2>1 DEF Names, Outer, Inner
  <2>2. CASE s # <<"lock", "session", "unlock">>
    BY <2>2, StepsArePlain DEF NextSteps, TradeNext, Plain
  <2> QED
    BY <2>1, <2>2
<1>2. \A i \in 1..Len(s) : s[i] \notin Marked
  BY DEF Marked, Opening, Posts
<1> QED
  BY <1>1, <1>2, ThenLeaves

\* After a step that may open a deal nothing else to rely on is to come; and after
\* another one the rejection at most.
LEMMA TailMarks ==
  ASSUME LockInv, OwnInv, NEW p \in Procs, todo[p] # <<>>, NEW i \in 2..Len(todo[p])
  PROVE  /\ Head(todo[p]) \in Opening => todo[p][i] \notin Marked
         /\ Head(todo[p]) \in Needy \cup Handlers => todo[p][i] \notin Marked \ {"reject"}
<1>1. PICK t : t = todo[p]
  OBVIOUS
<1>2. t \in Seq(Names) /\ Single(t) /\ Head(t) = t[1] /\ 1 \in 1..Len(t) /\ i \in 1..Len(t) /\ 1 < i
  BY <1>1 DEF LockInv, OwnInv
<1>3. Marked \subseteq Needy \cup Handlers /\ Marked \ {"reject"} \subseteq Needy
  BY DEF Marked, Needy, Handlers, Opening, LockedRequests
<1>4. t[1] \in Opening => t[i] \notin Needy \cup Handlers
  BY <1>2 DEF Single, Apart
<1>5. t[1] \in Needy \cup Handlers => t[i] \notin Needy
  BY <1>2 DEF Single, Apart
<1> QED
  BY <1>1, <1>2, <1>3, <1>4, <1>5

\* A step of a call that leaves no more to rely on.
LEMMA LeavesQuiet ==
  ASSUME TradeInv, DealInv, Faint, deals' \in Seq(Deal), UNCHANGED <<order, answer>>,
         NEW p \in Procs, Leaves(p, {})
  PROVE  DealInv'
<1>1. \A q \in Procs, x \in Marked : Has(todo'[q], x) => Has(todo[q], x)
  <2>1. ASSUME NEW x \in Marked, Has(todo'[p], x) PROVE Has(todo[p], x)
    <3>1. PICK i \in 2..Len(todo[p]) : todo[p][i] = x
      BY <2>1 DEF Leaves
    <3>2. i \in 1..Len(todo[p])
      OBVIOUS
    <3> QED
      BY <3>1, <3>2 DEF Has
  <2> QED
    BY <2>1 DEF Leaves
<1> QED
  BY <1>1, QuietKeeps

\* A step of a call at a request that leaves its order alone, opens nothing, and
\* leads to the steps S.
LEMMA LeavesKnown ==
  ASSUME TradeInv, DealInv, UNCHANGED <<deals, order, answer>>, NEW p \in Procs,
         NEW S, Leaves(p, S), \A x \in S : CallInv(p, x)
  PROVE  DealInv'
<1>1. Faint /\ deals' \in Seq(Deal)
  BY DEF Faint, TradeInv
<1>2. \A x \in Marked : Has(todo'[p], x) => CallInv(p, x)'
  <2> SUFFICES ASSUME NEW x \in Marked, Has(todo'[p], x) PROVE CallInv(p, x)'
    OBVIOUS
  <2>1. CallInv(p, x)
    <3>1. CASE x \in S
      BY <3>1
    <3>2. CASE \E i \in 2..Len(todo[p]) : todo[p][i] = x
      <4>1. Has(todo[p], x)
        BY <3>2 DEF Has
      <4> QED
        BY <4>1 DEF DealInv
    <3> QED
      BY <3>1, <3>2 DEF Leaves
  <2> QED
    BY <1>1, <2>1, FaintCall
<1>3. \A q \in Procs : q # p => todo'[q] = todo[q] /\ order'[q] = order[q]
  BY DEF Leaves
<1> QED
  BY <1>1, <1>2, <1>3, MoveKeeps

\* The next step of a call is one that it relies on.
LEMMA HeadKnows ==
  ASSUME LockInv, DealInv, NEW p \in Procs, todo[p] # <<>>, Head(todo[p]) \in Marked
  PROVE  CallInv(p, Head(todo[p]))
<1>1. 1 \in 1..Len(todo[p]) /\ todo[p][1] = Head(todo[p])
  BY DEF LockInv
<1> QED
  BY <1>1 DEF DealInv, Has

\* Numbers up to a bound have a greatest one.
LEMMA GreatestOf ==
  ASSUME NEW n \in Nat, NEW S \in SUBSET (0..n), S # {}
  PROVE  Max(S) \in S /\ \A y \in S : y <= Max(S)
<1>1. PICK T : T = {k \in 0..n : n - k \in S}
  OBVIOUS
<1>2. T \in SUBSET Nat /\ T # {}
  <2>1. PICK x \in S : TRUE
    OBVIOUS
  <2>2. n - x \in 0..n /\ n - (n - x) = x
    OBVIOUS
  <2> QED
    BY <1>1, <2>1, <2>2
<1>3. PICK m : m = Min(T)
  OBVIOUS
<1>4. m \in T /\ \A y \in T : m <= y
  BY <1>2, <1>3, LeastOf
<1>5. n - m \in S /\ m \in 0..n
  BY <1>1, <1>4
<1>6. \A y \in S : n - m >= y
  <2>1. ASSUME NEW y \in S PROVE n - m >= y
    <3>1. n - y \in 0..n /\ n - (n - y) = y
      OBVIOUS
    <3>2. m <= n - y
      BY <1>1, <1>4, <3>1
    <3> QED
      BY <1>5, <3>2
  <2> QED
    BY <2>1
<1>7. Max(S) = CHOOSE x \in S : \A y \in S : x >= y
  BY DEF Max
<1>8. Max(S) \in S /\ \A y \in S : Max(S) >= y
  BY <1>5, <1>6, <1>7
<1> QED
  BY <1>8

\* The answers to the POST.  A rejection without a reason is one (Truthful).
LEMMA PostDeals ==
  ASSUME Truthful, LockInv, OwnInv, TradeInv, DealInv, NEW p \in Procs, deals' \in Seq(Deal),
         PostOpens(p) \/ PostRefused(p) \/ PostRefusedEmpty(p) \/ PostFails(p) \/ PostLost(p)
  PROVE  DealInv'
<1>1. AtOneOf(p, Posts)
  BY DEF PostOpens, PostRefused, PostRefusedEmpty, PostFails, PostLost, Posted
<1>2. /\ todo[p] # <<>> /\ Head(todo[p]) \in Posts /\ Head(todo[p]) \in Opening
      /\ Head(todo[p]) \in Marked
  BY <1>1 DEF AtOneOf, Opening, Marked
<1>3. order[p].req \in Requests /\ NoneOf(p)
  BY <1>2, HeadKnows DEF CallInv
<1>4. \A S : Leaves(p, S) => /\ \A x \in Marked : Has(todo'[p], x) => x \in S
                             /\ \A q \in Procs : q # p => todo'[q] = todo[q]
  BY <1>2, TailMarks DEF Leaves
<1>5. \A s \in {<<"confirm">>, <<"bareLast">>, <<"reject">>} : s \in Seq(Names) /\ Len(s) = 1
  BY StepsArePlain DEF NextSteps, TradeNext, Plain
<1>6. ASSUME NEW fate \in Fates \ {"none"}, NEW ref \in Nat, Posted(p, fate, ref),
             \/ UNCHANGED deals /\ fate # "open"
             \/ deals' = Opened(p) /\ fate = "open" /\ ref = Len(deals) + 1
      PROVE  DealInv'
  <2>1. /\ \A x \in Marked : Has(todo'[p], x) => x = "confirm"
        /\ \A q \in Procs : q # p => todo'[q] = todo[q]
    <3>1. Then(p, <<"confirm">>)
      BY <1>6 DEF Posted, Answered
    <3>2. Leaves(p, {"confirm"})
      <4>1. \A i \in 1..Len(<<"confirm">>) : <<"confirm">>[i] \in {"confirm"}
        OBVIOUS
      <4> QED
        BY <1>2, <1>5, <3>1, <4>1, ThenLeaves
    <3> QED
      BY <1>4, <3>2
  <2>2. /\ order'[p].req = order[p].req /\ order'[p].fate = fate /\ order'[p].ref = ref
        /\ \A q \in Procs : q # p => order'[q] = order[q]
        /\ UNCHANGED answer
    <3>1. order \in [Procs -> Order] /\ order[p] \in Order
      BY DEF TradeInv
    <3>2. PICK e : e = [[[order[p] EXCEPT !.with = WithStop(p)] EXCEPT !.fate = fate] EXCEPT !.ref = ref]
      OBVIOUS
    <3>3. e.req = order[p].req /\ e.fate = fate /\ e.ref = ref
      BY <3>1, <3>2 DEF Order
    <3>4. order' = [order EXCEPT ![p] = e] /\ UNCHANGED answer
      BY <1>6, <3>1, <3>2 DEF Posted
    <3> HIDE DEF Order
    <3> QED
      BY <3>1, <3>3, <3>4
  <2>3. CASE UNCHANGED deals /\ fate # "open"
    <3>1. Faint
      BY <2>3 DEF Faint
    <3>2. NoneOf(p)' /\ LastOf(p)'
      BY <1>3, <2>2, <2>3 DEF NoneOf, LastOf
    <3>3. CallInv(p, "confirm")'
      BY <1>3, <2>2, <2>3, <3>2 DEF CallInv, Posts
    <3> QED
      BY <2>1, <2>2, <3>1, <3>3, MoveKeeps
  <2>4. CASE deals' = Opened(p) /\ fate = "open" /\ ref = Len(deals) + 1
    BY <1>1, <2>1, <2>2, <2>4, OpensKeep
  <2> QED
    BY <1>6, <2>3, <2>4
<1>7. CASE PostOpens(p)
  <2>1. Len(deals) + 1 \in Nat
    BY DEF TradeInv
  <2> QED
    BY <1>6, <1>7, <2>1 DEF PostOpens, Fates
<1>8. CASE PostRefused(p) \/ PostRefusedEmpty(p)
  BY <1>6, <1>8 DEF PostRefused, PostRefusedEmpty, Fates, NoDeal
<1>9. CASE PostFails(p)
  <2>1. UNCHANGED <<deals, order, answer>>
    BY <1>9 DEF PostFails, tradeVars
  <2>2. CallInv(p, "bareLast") /\ CallInv(p, "reject")
    BY <1>3 DEF CallInv, NoneOf, Knows, Posts
  <2>3. ASSUME NEW s \in {<<"bareLast">>, <<"reject">>}, Then(p, s) PROVE DealInv'
    <3>1. \A i \in 1..Len(s) : s[i] \in {"bareLast", "reject"}
      OBVIOUS
    <3>2. Leaves(p, {"bareLast", "reject"})
      BY <1>2, <1>5, <2>3, <3>1, ThenLeaves
    <3> QED
      BY <2>1, <2>2, <3>2, LeavesKnown
  <2>4. CASE Throw(p)
    BY <1>2, <2>1, <2>4, ThrowLeaves, LeavesKnown
  <2> QED
    BY <1>9, <2>3, <2>4 DEF PostFails, Answered
<1>10. CASE PostLost(p)
  <2>1. UNCHANGED <<order, answer>> /\ deals' \in {deals, Opened(p)} /\ Throw(p)
    BY <1>10 DEF PostLost
  <2>2. Leaves(p, {})
    BY <1>2, <2>1, ThrowLeaves
  <2>3. CASE UNCHANGED deals
    BY <2>1, <2>2, <2>3, LeavesKnown
  <2>4. CASE deals' = Opened(p)
    <3>1. /\ \A x \in Marked : ~Has(todo'[p], x)
          /\ \A q \in Procs : q # p => todo'[q] = todo[q]
      BY <1>4, <2>2
    <3>2. \A q \in Procs : order'[q] = order[q]
      BY <2>1
    <3> QED
      BY <1>1, <2>1, <2>4, <3>1, <3>2, OpensKeep
  <2> QED
    BY <2>1, <2>3, <2>4
<1> QED
  BY <1>7, <1>8, <1>9, <1>10

\* The deal of an order becomes known to the call, which goes on to give it its stop.
LEMMA FoundKeeps ==
  ASSUME LockInv, TradeInv, DealInv, NEW p \in Procs, UNCHANGED <<deals, answer>>,
         NEW n \in 0..Len(deals), Knows(p, n), order' = [order EXCEPT ![p].deal = n],
         \A q \in Procs : q # p => todo'[q] = todo[q],
         \A x \in Marked : Has(todo'[p], x) => x \in {"stop", "attach", "reject"}
  PROVE  DealInv'
<1>1. Faint /\ deals' \in Seq(Deal)
  BY DEF Faint, TradeInv
<1>2. /\ order'[p].req = order[p].req /\ order'[p].deal = n
      /\ \A q \in Procs : q # p => order'[q] = order[q]
  <2>1. order \in [Procs -> Order] /\ order[p] \in Order
    BY DEF TradeInv
  <2>2. PICK e : e = [order[p] EXCEPT !.deal = n]
    OBVIOUS
  <2>3. e.req = order[p].req /\ e.deal = n
    BY <2>1, <2>2 DEF Order
  <2>4. order' = [order EXCEPT ![p] = e]
    BY <2>1, <2>2
  <2> HIDE DEF Order
  <2> QED
    BY <2>1, <2>3, <2>4
<1>3. Knows(p, order[p].deal)'
  BY <1>2 DEF Knows
<1>4. \A x \in {"stop", "attach", "reject"} : CallInv(p, x)'
  BY <1>3 DEF CallInv, Opening, Posts
<1> QED
  BY <1>1, <1>2, <1>4, MoveKeeps

\* The steps that give a deal its stop.
LEMMA AttachMarks ==
  /\ Attach \in Seq(Names)
  /\ \A i \in 1..Len(Attach) : Attach[i] \in Marked => Attach[i] \in {"attach", "reject"}
  /\ \A x \in Marked : Has(Attach \o <<"unlock">>, x) => x \in {"attach", "reject"}
<1>1. Attach \in Seq(Names)
  BY StepsArePlain DEF NextSteps, TradeNext, Plain
<1>2. /\ Len(Attach) = 5 /\ Attach[1] = "ensure" /\ Attach[2] = "switch" /\ Attach[3] = "attach"
      /\ Attach[4] = "closeNaked" /\ Attach[5] = "reject"
  BY DEF Attach
<1>3. \A i \in 1..5 : Attach[i] \in Marked => Attach[i] \in {"attach", "reject"}
  BY <1>2 DEF Marked, Opening, Posts
<1>4. PICK n : n = Attach \o <<"unlock">>
  OBVIOUS
<1>5. Len(n) = 6 /\ n[6] = "unlock" /\ \A i \in 1..5 : n[i] = Attach[i]
  <2>1. "unlock" \in Names
    BY DEF Names, Outer
  <2>2. \A a \in Seq(Names) : /\ Len(a \o <<"unlock">>) = Len(a) + 1
                                /\ (a \o <<"unlock">>)[Len(a) + 1] = "unlock"
                                /\ \A i \in 1..Len(a) : (a \o <<"unlock">>)[i] = a[i]
    BY <2>1
  <2>3. Len(n) = Len(Attach) + 1 /\ n[Len(Attach) + 1] = "unlock" /\ \A i \in 1..Len(Attach) : n[i] = Attach[i]
    BY <1>1, <1>4, <2>2
  <2>4. Len(Attach) = 5
    BY <1>2
  <2> HIDE DEF Attach
  <2> QED
    BY <2>3, <2>4
<1>6. ASSUME NEW x \in Marked, NEW i \in 1..6, n[i] = x PROVE x \in {"attach", "reject"}
  <2>1. i # 6
    BY <1>5, <1>6 DEF Marked, Opening, Posts
  <2>2. i \in 1..5
    BY <2>1
  <2> QED
    BY <1>3, <1>5, <1>6, <2>2
<1> QED
  BY <1>1, <1>2, <1>3, <1>4, <1>5, <1>6 DEF Has

\* A deal that the answer names is filled in, if the call knows it.
LEMMA FillKeeps ==
  ASSUME LockInv, TradeInv, DealInv, NEW p \in Procs, NEW n \in 0..Len(deals), Fill(p, n),
         Knows(p, n), Faint, deals' \in Seq(Deal)
  PROVE  DealInv'
<1>1. Answers(p, "FILLED", n)
  BY DEF Fill, Answers
<1>2. todo \in [Procs -> Seq(Names)]
  BY DEF LockInv
<1> QED
  BY <1>1, <1>2, AnswerKeeps

\* The steps of the confirmation.
LEMMA ConfirmDeals ==
  ASSUME LockInv, OwnInv, TradeInv, DealInv, NEW p \in Procs,
         ConfirmAccepted(p) \/ ConfirmRejected(p) \/ ConfirmUnknown(p)
  PROVE  DealInv'
<1>1. todo[p] # <<>> /\ Head(todo[p]) = "confirm" /\ UNCHANGED deals
  BY DEF ConfirmAccepted, ConfirmRejected, ConfirmUnknown, At
<1>2. CallInv(p, "confirm")
  BY <1>1, HeadKnows DEF Marked, Opening
<1>3. Faint /\ deals' \in Seq(Deal)
  BY <1>1 DEF Faint, TradeInv
<1>4. \A i \in 2..Len(todo[p]) : todo[p][i] \notin Marked
  BY <1>1, TailMarks DEF Opening
<1>5. ASSUME NEW s \in TradeNext, Then(p, s), NEW S, \A i \in 1..Len(s) : s[i] \in Marked => s[i] \in S
      PROVE  /\ Leaves(p, S)
             /\ \A x \in Marked : Has(todo'[p], x) => x \in S
             /\ \A q \in Procs : q # p => todo'[q] = todo[q]
  <2>1. s \in Seq(Names)
    BY StepsArePlain DEF NextSteps, Plain
  <2>2. Leaves(p, S)
    BY <1>1, <1>5, <2>1, ThenLeaves
  <2> QED
    BY <1>4, <2>2 DEF Leaves
<1>6. CASE ConfirmAccepted(p)
  <2>1. PICK n : n = order[p].ref
    OBVIOUS
  <2>2. n \in 1..Len(deals) /\ deals[n].req = order[p].req /\ Len(deals) \in Nat
    BY <1>2, <1>6, <2>1 DEF ConfirmAccepted, CallInv, TradeInv
  <2>3. Knows(p, n)
    BY <2>2 DEF Knows, DealInv
  <2>4. n \in 0..Len(deals)
    BY <2>2
  <2>5. CASE order[p].want
    <3>1. PICK s \in {<<"ensure", "switch", "stop">>, Attach} : Then(p, s)
      BY <1>6, <2>5 DEF ConfirmAccepted, Proceed
    <3>2. s \in TradeNext /\ order' = [order EXCEPT ![p].deal = n] /\ UNCHANGED answer
      BY <1>6, <2>1, <2>5, <3>1 DEF ConfirmAccepted, Proceed, TradeNext
    <3>3. \A i \in 1..Len(s) : s[i] \in Marked => s[i] \in {"stop", "attach", "reject"}
      <4>1. CASE s = <<"ensure", "switch", "stop">>
        BY <4>1 DEF Marked, Opening, Posts
      <4>2. CASE s = Attach
        BY <4>2, AttachMarks
      <4> QED
        BY <3>1, <4>1, <4>2
    <3>4. /\ \A x \in Marked : Has(todo'[p], x) => x \in {"stop", "attach", "reject"}
          /\ \A q \in Procs : q # p => todo'[q] = todo[q]
      BY <1>5, <3>1, <3>2, <3>3
    <3> QED
      BY <1>1, <2>3, <2>4, <3>2, <3>4, FoundKeeps
  <2>6. CASE ~order[p].want
    <3>1. Fill(p, n)
      BY <1>6, <2>1, <2>6 DEF ConfirmAccepted
    <3> QED
      BY <1>3, <2>3, <2>4, <3>1, FillKeeps
  <2> QED
    BY <2>5, <2>6
<1>7. CASE ConfirmRejected(p)
  <2>1. NoneOf(p) /\ order[p].req \in Requests
    BY <1>2, <1>7 DEF ConfirmRejected, CallInv, Refused, Opening
  <2>2. \A x \in {"bare", "searchRejected", "reject"} : CallInv(p, x)
    BY <2>1 DEF CallInv, NoneOf, Knows
  <2>3. PICK s \in {<<"bare">>, <<"ensure", "switch", "searchRejected", "reject">>, <<"reject">>} : Then(p, s)
    BY <1>7 DEF ConfirmRejected, Proceed
  <2>4. s \in TradeNext /\ UNCHANGED <<order, answer>>
    BY <1>7, <2>3 DEF ConfirmRejected, Proceed, TradeNext
  <2>5. \A i \in 1..Len(s) : s[i] \in Marked => s[i] \in {"bare", "searchRejected", "reject"}
    BY <2>3 DEF Marked, Opening, Posts
  <2>6. Leaves(p, {"bare", "searchRejected", "reject"})
    BY <1>5, <2>3, <2>4, <2>5
  <2> QED
    BY <1>1, <2>2, <2>4, <2>6, LeavesKnown
<1>8. CASE ConfirmUnknown(p)
  <2>1. CallInv(p, "search")
    BY <1>2 DEF CallInv, Opening, Posts
  <2>2. PICK s : s = <<"ensure", "switch", "search">>
    OBVIOUS
  <2>3. s \in TradeNext /\ Then(p, s) /\ UNCHANGED <<order, answer>>
    BY <1>8, <2>2 DEF ConfirmUnknown, Proceed, TradeNext
  <2>4. \A i \in 1..Len(s) : s[i] \in Marked => s[i] \in {"search"}
    BY <2>2 DEF Marked, Opening, Posts
  <2>5. Leaves(p, {"search"})
    BY <1>5, <2>3, <2>4
  <2> QED
    BY <1>1, <2>1, <2>3, <2>5, LeavesKnown
<1> QED
  BY <1>6, <1>7, <1>8

\* The search by epic, side, size and age finds the deal of the request itself, if
\* it is on the adapter's sub-account; or it looks at another sub-account.
LEMMA SearchKnows ==
  ASSUME LockInv, TradeInv, DealInv, NEW p \in Procs, NEW d \in DOMAIN deals, SearchFinds(p, d)
  PROVE  Knows(p, d) /\ d \in 1..Len(deals)
<1>1. d \in 1..Len(deals) /\ Len(deals) \in Nat /\ DOMAIN deals = 1..Len(deals)
  BY DEF TradeInv
<1>2. CallInv(p, Head(todo[p])) /\ Head(todo[p]) \in {"search", "searchRejected"}
  BY HeadKnows DEF SearchFinds, AtOneOf, Marked
<1>3. CASE Head(todo[p]) = "searchRejected"
  BY <1>1, <1>2, <1>3 DEF CallInv, NoneOf, Knows
<1>4. CASE Head(todo[p]) = "search"
  <2>1. LastOf(p)
    BY <1>2, <1>4 DEF CallInv
  <2>2. PICK old \in 0..Len(deals) :
          /\ \A e \in Shown : deals[e].req = order[p].req => e > old
          /\ {e \in Shown : e > old} # {}
          /\ d = Max({e \in Shown : e > old})
    BY DEF SearchFinds, Recent
  <2>3. PICK ds : ds = {e \in Shown : e > old}
    OBVIOUS
  <2>4. ds \in SUBSET (0..Len(deals)) /\ ds # {}
    BY <1>1, <2>2, <2>3 DEF Shown
  <2>5. d \in ds /\ \A e \in ds : e <= d
    BY <1>1, <2>2, <2>3, <2>4, GreatestOf
  <2>6. deals[d].account = active
    BY <2>3, <2>5 DEF Shown
  <2>7. ASSUME NEW e \in 1..Len(deals), deals[e].req = order[p].req, deals[e].open,
               deals[e].account = Pin[AdapterOf[p]]
        PROVE  d = e \/ (d # NoDeal /\ deals[d].account # Pin[AdapterOf[p]])
    <3>1. e = Len(deals)
      BY <2>1, <2>7 DEF LastOf
    <3>2. CASE active = Pin[AdapterOf[p]]
      <4>1. e \in Shown
        BY <1>1, <2>7, <3>2 DEF Shown
      <4>2. e \in ds
        BY <2>2, <2>3, <2>7, <4>1
      <4>3. e <= d
        BY <2>5, <4>2
      <4> QED
        BY <1>1, <3>1, <4>3
    <3>3. CASE active # Pin[AdapterOf[p]]
      BY <1>1, <2>6, <3>3 DEF NoDeal
    <3> QED
      BY <3>2, <3>3
  <2> QED
    BY <1>1, <2>7 DEF Knows
<1> QED
  BY <1>2, <1>3, <1>4

\* What the search leads to.
LEMMA SearchDeals ==
  ASSUME LockInv, OwnInv, TradeInv, DealInv, NEW p \in Procs,
         (\E d \in DOMAIN deals : SearchFinds(p, d)) \/ SearchFindsNothing(p)
  PROVE  DealInv'
<1>1. /\ todo[p] # <<>> /\ Head(todo[p]) \in {"search", "searchRejected"} /\ UNCHANGED deals
      /\ Len(deals) \in Nat
  BY DEF SearchFinds, SearchFindsNothing, AtOneOf, tradeVars, TradeInv
<1>2. Faint /\ deals' \in Seq(Deal)
  BY <1>1 DEF Faint, TradeInv
<1>3. ASSUME NEW d \in DOMAIN deals, SearchFinds(p, d) PROVE DealInv'
  <2>1. Knows(p, d) /\ d \in 1..Len(deals)
    BY <1>3, SearchKnows
  <2>2. d \in 0..Len(deals)
    BY <1>1, <2>1
  <2>3. CASE order[p].want
    <3>1. /\ todo' = [todo EXCEPT ![p] = Attach \o <<"unlock">>]
          /\ order' = [order EXCEPT ![p].deal = d] /\ UNCHANGED answer
      BY <1>3, <2>3 DEF SearchFinds
    <3>2. todo'[p] = Attach \o <<"unlock">> /\ \A q \in Procs : q # p => todo'[q] = todo[q]
      BY <3>1 DEF LockInv
    <3>3. \A x \in Marked : Has(todo'[p], x) => x \in {"stop", "attach", "reject"}
      BY <3>2, AttachMarks
    <3> QED
      BY <1>1, <2>1, <2>2, <3>1, <3>2, <3>3, FoundKeeps
  <2>4. CASE ~order[p].want
    <3>1. Fill(p, d)
      BY <1>3, <2>4 DEF SearchFinds
    <3> QED
      BY <1>2, <2>1, <2>2, <3>1, FillKeeps
  <2> QED
    BY <2>3, <2>4
<1>4. CASE SearchFindsNothing(p)
  <2>1. UNCHANGED <<deals, order, answer>>
    BY <1>4 DEF SearchFindsNothing, tradeVars
  <2>2. CallInv(p, Head(todo[p]))
    BY <1>1, HeadKnows DEF Marked
  <2>3. PICK h \in {"search", "searchRejected"} : h = Head(todo[p])
    BY <1>1
  <2>4. CASE active # Pin[AdapterOf[p]]
    <3>1. PICK s : s = <<"ensure", "switch", h>>
      OBVIOUS
    <3>2. Then(p, s)
      BY <1>4, <2>3, <2>4, <3>1 DEF SearchFindsNothing, Answered
    <3>3. s \in Seq(Names) /\ \A i \in 1..Len(s) : s[i] \in Marked => s[i] \in {h}
      <4>1. s \in {<<"ensure", "switch", "search">>, <<"ensure", "switch", "searchRejected">>}
        BY <2>3, <3>1
      <4>2. s \in Seq(Names)
        BY <4>1, StepsArePlain DEF NextSteps, TradeNext, Plain
      <4> QED
        BY <3>1, <4>2 DEF Marked, Opening, Posts
    <3>4. Leaves(p, {h})
      BY <1>1, <3>2, <3>3, ThenLeaves
    <3> QED
      BY <2>1, <2>2, <2>3, <3>4, LeavesKnown
  <2>5. CASE active = Pin[AdapterOf[p]] /\ h = "search"
    <3>1. Then(p, <<"reject">>)
      BY <1>4, <2>3, <2>5 DEF SearchFindsNothing, Answered, At, AtOneOf
    <3>2. \A e \in 1..Len(deals) :
            ~(deals[e].req = order[p].req /\ deals[e].open /\ deals[e].account = Pin[AdapterOf[p]])
      BY <1>4, <2>5 DEF SearchFindsNothing, Shown, TradeInv
    <3>3. CallInv(p, "reject")
      BY <3>2 DEF CallInv, Knows, Opening, Posts
    <3>4. <<"reject">> \in Seq(Names) /\ \A i \in 1..Len(<<"reject">>) : <<"reject">>[i] \in {"reject"}
      BY StepsArePlain DEF NextSteps, TradeNext, Plain
    <3>5. Leaves(p, {"reject"})
      BY <1>1, <3>1, <3>4, ThenLeaves
    <3> QED
      BY <2>1, <3>3, <3>5, LeavesKnown
  <2>6. CASE active = Pin[AdapterOf[p]] /\ h # "search"
    <3>1. Then(p, <<>>)
      BY <1>4, <2>3, <2>6 DEF SearchFindsNothing, Answered, At, AtOneOf
    <3>2. Leaves(p, {})
      BY <1>1, <3>1, NothingLeaves
    <3> QED
      BY <2>1, <3>2, LeavesKnown
  <2> QED
    BY <2>4, <2>5, <2>6
<1> QED
  BY <1>3, <1>4

\* The steps that read, set or close a deal, and the answer without a fill.
LEMMA StopDeals ==
  ASSUME LockInv, OwnInv, TradeInv, DealInv, NEW p \in Procs, deals' \in Seq(Deal), Faint,
         ReadStop(p) \/ AttachStop(p) \/ AttachFails(p) \/ Reject(p)
  PROVE  DealInv'
<1>1. todo[p] # <<>> /\ Head(todo[p]) \in {"stop", "attach", "reject"}
  BY DEF ReadStop, AttachStop, AttachFails, Reject, At
<1>2. PICK n : n = order[p].deal
  OBVIOUS
<1>3. n \in 0..Len(deals) /\ Knows(p, n)
  <2>1. CallInv(p, Head(todo[p]))
    BY <1>1, HeadKnows DEF Marked
  <2> QED
    BY <1>1, <1>2, <2>1 DEF CallInv, TradeInv, Order
<1>4. CASE ReadStop(p)
  <2>1. CASE Fill(p, n)
    BY <1>3, <2>1, FillKeeps
  <2>2. CASE Answered(p, Attach) /\ UNCHANGED <<answer, order>>
    <3>1. UNCHANGED <<deals, order, answer>>
      BY <1>4, <2>2 DEF ReadStop
    <3>2. Leaves(p, {"attach", "reject"})
      BY <1>1, <2>2, AttachMarks, ThenLeaves DEF Answered
    <3>3. \A x \in {"attach", "reject"} : CallInv(p, x)
      BY <1>2, <1>3 DEF CallInv, Opening, Posts
    <3> QED
      BY <3>1, <3>2, <3>3, LeavesKnown
  <2> QED
    BY <1>2, <1>4, <2>1, <2>2 DEF ReadStop
<1>5. CASE AttachStop(p)
  BY <1>2, <1>3, <1>5, FillKeeps DEF AttachStop
<1>6. CASE AttachFails(p)
  <2>1. Then(p, <<>>) /\ UNCHANGED <<order, answer>>
    BY <1>6 DEF AttachFails, Answered
  <2>2. Leaves(p, {})
    BY <1>1, <2>1, NothingLeaves
  <2> QED
    BY <2>1, <2>2, LeavesQuiet
<1>7. CASE Reject(p)
  <2>1. Answers(p, "REJECTED", n)
    BY <1>2, <1>7 DEF Reject, Answers
  <2> QED
    BY <1>3, <2>1, AnswerKeeps DEF LockInv
<1> QED
  BY <1>4, <1>5, <1>6, <1>7

\* The steps of a trading call.
LEMMA TradeStepDeals ==
  ASSUME Truthful, LockInv, OwnInv, TradeInv, DealInv, NEW p \in Procs, TradeStep(p)
  PROVE  DealInv'
<1>1. deals' \in Seq(Deal) /\ (Faint \/ (AtOneOf(p, Posts) /\ deals' = Opened(p)))
  BY TradeDeals
<1>2. todo[p] # <<>>
  BY TradeTurns
<1>3. CASE PostOpens(p) \/ PostRefused(p) \/ PostRefusedEmpty(p) \/ PostFails(p) \/ PostLost(p)
  BY <1>1, <1>3, PostDeals
<1>4. CASE ConfirmAccepted(p) \/ ConfirmRejected(p) \/ ConfirmUnknown(p)
  BY <1>4, ConfirmDeals
<1>5. CASE (\E d \in DOMAIN deals : SearchFinds(p, d)) \/ SearchFindsNothing(p)
  BY <1>5, SearchDeals
<1>6. CASE ReadStop(p) \/ AttachStop(p) \/ AttachFails(p) \/ Reject(p)
  <2>1. ~AtOneOf(p, Posts)
    BY <1>6 DEF ReadStop, AttachStop, AttachFails, Reject, At, AtOneOf, Posts
  <2> QED
    BY <1>1, <1>6, <2>1, StopDeals
<1>7. CASE CloseNaked(p) \/ Close(p) \/ ReadBook(p) \/ ReadFails(p) \/ PutLost(p)
  <2>1. UNCHANGED <<order, answer>>
    BY <1>7 DEF CloseNaked, Close, ReadBook, ReadFails, PutLost, tradeVars
  <2>2. ~AtOneOf(p, Posts)
    BY <1>7 DEF CloseNaked, Close, ReadBook, ReadFails, PutLost, At, AtOneOf, Posts
  <2>3. Throw(p) \/ Then(p, <<>>) \/ Then(p, <<"ensure", "switch", "close">>)
    BY <1>7 DEF CloseNaked, Close, ReadBook, ReadFails, PutLost, Answered
  <2>4. Leaves(p, {})
    BY <1>2, <2>3, NothingLeaves, ThrowLeaves
  <2> QED
    BY <1>1, <2>1, <2>2, <2>4, LeavesQuiet
<1> QED
  BY <1>3, <1>4, <1>5, <1>6, <1>7 DEF TradeStep

\* The session's steps give a call nothing to rely on.
LEMMA SessionLeaves ==
  ASSUME LockInv, NEW p \in Procs, SessionStep(p)
  PROVE  Leaves(p, {})
<1>1. todo[p] # <<>>
  BY DEF SessionStep, Lock, Unlock, EnsureSession, Ping, CreateSession, Probe, Login, SwitchAccount,
         PutAccount, LooseRequest, At, AtOneOf
<1>2. \/ Throw(p)
      \/ \E s \in {<<>>, <<"ping">>, <<"create">>, <<"probe">>, <<"login">>, <<"pin">>, <<"pinPut">>, <<"put">>,
                   <<"lock", "session", "unlock">>} : Then(p, s)
  <2>1. CASE Lock(p) \/ Unlock(p) \/ EnsureSession(p) \/ Ping(p)
    BY <2>1 DEF Lock, Unlock, EnsureSession, Ping
  <2>2. CASE CreateSession(p) \/ Probe(p) \/ Login(p)
    BY <2>2 DEF CreateSession, Probe, Login
  <2>3. CASE SwitchAccount(p) \/ PutAccount(p) \/ LooseRequest(p)
    BY <2>3 DEF SwitchAccount, PutAccount, LooseRequest, Answered
  <2> QED
    BY <2>1, <2>2, <2>3 DEF SessionStep
<1> QED
  BY <1>1, <1>2, NothingLeaves, ThrowLeaves

\* Nor does a request that is sent again.
LEMMA UnauthorisedDeals ==
  ASSUME LockInv, TradeInv, DealInv, NEW p \in Procs, todo[p] # <<>>, Unauthorised(p), UNCHANGED tradeVars
  PROVE  DealInv'
<1>1. Faint /\ deals' \in Seq(Deal) /\ UNCHANGED <<order, answer>>
  BY DEF tradeVars, Faint, TradeInv
<1>2. CASE Throw(p)
  BY <1>1, <1>2, ThrowLeaves, LeavesQuiet
<1>3. CASE todo' = [todo EXCEPT ![p] = <<"create">> \o @]
  <2>1. PICK t : t = todo[p]
    OBVIOUS
  <2>2. t \in Seq(Names) /\ todo'[p] = <<"create">> \o t /\ \A q \in Procs : q # p => todo'[q] = todo[q]
    BY <1>3, <2>1 DEF LockInv
  <2>3. PICK n : n = <<"create">> \o t
    OBVIOUS
  <2>4. Len(n) = Len(t) + 1 /\ n[1] = "create" /\ \A i \in 2..Len(n) : n[i] = t[i - 1] /\ i - 1 \in 1..Len(t)
    BY <2>2, <2>3
  <2>5. ASSUME NEW x \in Marked, Has(n, x) PROVE Has(t, x)
    <3>1. PICK i \in 1..Len(n) : n[i] = x
      BY <2>5 DEF Has
    <3>2. i # 1
      BY <2>4, <3>1 DEF Marked, Opening, Posts
    <3>3. i \in 2..Len(n)
      BY <2>2, <2>4, <3>1, <3>2
    <3> QED
      BY <2>4, <3>1, <3>3 DEF Has
  <2>6. \A q \in Procs, x \in Marked : Has(todo'[q], x) => Has(todo[q], x)
    BY <2>1, <2>2, <2>3, <2>5
  <2> QED
    BY <1>1, <2>6, QuietKeeps
<1> QED
  BY <1>2, <1>3 DEF Unauthorised

\* Every step of the system.
LEMMA DealKeeps ==
  ASSUME Truthful, LockInv, OwnInv, TradeInv, DealInv, [Next]_vars
  PROVE  DealInv'
<1>0. UNCHANGED deals => Faint /\ deals' \in Seq(Deal)
  BY DEF Faint, TradeInv
<1>1. ASSUME NEW p \in Procs, Continue(p) PROVE DealInv'
  <2>1. CASE AtOneOf(p, LockedRequests \cup {"confirm", "loose"}) /\ Unauthorised(p) /\ UNCHANGED tradeVars
    BY <2>1, UnauthorisedDeals DEF AtOneOf
  <2>2. CASE SessionStep(p) /\ UNCHANGED tradeVars
    BY <1>0, <2>2, SessionLeaves, LeavesQuiet DEF tradeVars
  <2>3. CASE TradeStep(p)
    BY <2>3, TradeStepDeals
  <2> QED
    BY <1>1, <2>1, <2>2, <2>3 DEF Continue
<1>2. ASSUME NEW p \in Procs, BeginLoose(p), UNCHANGED tradeVars PROVE DealInv'
  <2>1. todo'[p] = <<"ensure", "loose">> /\ \A q \in Procs : q # p => todo'[q] = todo[q]
    BY <1>2 DEF BeginLoose, LockInv
  <2>2. Leaves(p, {})
    BY <2>1 DEF Leaves, Has, Marked, Opening, Posts
  <2> QED
    BY <1>0, <1>2, <2>2, LeavesQuiet DEF tradeVars
<1>3. CASE (Expire /\ UNCHANGED tradeVars) \/ UNCHANGED vars
  <2>1. UNCHANGED <<todo, deals, order, answer>>
    BY <1>3 DEF Expire, tradeVars, vars, loginVars
  <2> QED
    BY <1>0, <2>1, QuietKeeps
<1>4. CASE \E d \in DOMAIN deals : BrokerCloses(d)
  <2>1. PICK d \in DOMAIN deals : BrokerCloses(d)
    BY <1>4
  <2>2. deals \in Seq(Deal) /\ d \in 1..Len(deals) /\ deals' = [deals EXCEPT ![d].open = FALSE]
    BY <2>1 DEF TradeInv, BrokerCloses
  <2>3. Faint /\ deals' \in Seq(Deal)
    BY <2>2, FaintDeals
  <2>4. UNCHANGED <<todo, order, answer>>
    BY <2>1 DEF BrokerCloses, loginVars
  <2> QED
    BY <2>3, <2>4, QuietKeeps
<1> QED
  BY <1>1, <1>2, <1>3, <1>4, BeginPlaceDeals, BeginDeals DEF Next

\* In the beginning there is no deal.
LEMMA DealStarts ==
  ASSUME Init
  PROVE  DealInv
<1>1. Len(deals) = 0 /\ DOMAIN deals = {}
  BY DEF Init
<1>2. \A p \in Procs : todo[p] = <<>>
  BY DEF Init, InitLogin
<1> QED
  BY <1>1, <1>2 DEF DealInv, NoDealForgotten, Has

\* Deals, what calls rely on, and what they answer, under a broker whose
\* rejections are true.
THEOREM DealInvariant == ASSUME Truthful PROVE Spec => []DealInv
<1>1. Init => DealInv
  BY DealStarts
<1>2. LockInv /\ OwnInv /\ TradeInv /\ DealInv /\ [Next]_vars => DealInv'
  BY DealKeeps
<1> QED
  BY <1>1, <1>2, SessionInvariant, TradeInvariant, PTL DEF Spec

\* A request opens one deal (placeOrderLocked): a confirmation that does not
\* come, a rejection, a 401 or a refused stop makes the adapter send again only
\* what did not open.
THEOREM RequestsOpenOnce == ASSUME Truthful PROVE Spec => []OneDealPerRequest
<1>1. TradeInv /\ DealInv => OneDealPerRequest
  <2> SUFFICES ASSUME TradeInv, DealInv, NEW r \in Requests
               PROVE  Cardinality({d \in DOMAIN deals : deals[d].req = r}) <= 1
    BY DEF OneDealPerRequest
  <2>1. PICK S : S = {d \in DOMAIN deals : deals[d].req = r}
    OBVIOUS
  <2>2. \A d, e \in S : d = e
    BY <2>1 DEF TradeInv, DealInv
  <2>3. CASE S = {}
    <3>1. Cardinality(S) = 0
      BY <2>3, FS_EmptySet
    <3> QED
      BY <2>1, <3>1
  <2>4. CASE S # {}
    <3>1. PICK d : S = {d}
      BY <2>2, <2>4
    <3>2. Cardinality(S) = 1
      BY <3>1, FS_Singleton
    <3> QED
      BY <2>1, <3>2
  <2> QED
    BY <2>3, <2>4
<1> QED
  BY <1>1, TradeInvariant, DealInvariant, PTL

\* No deal is left behind unknown (placeOrderLocked, findRecentOpenPosition): an
\* open deal of a request that was answered is the one the answer names, or the
\* search was on a sibling's sub-account.
THEOREM DealsAreKnown == ASSUME Truthful PROVE Spec => []NoDealForgotten
<1>1. DealInv => NoDealForgotten
  BY DEF DealInv
<1> QED
  BY <1>1, DealInvariant, PTL
=============================================================================
