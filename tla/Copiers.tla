------------------------------ MODULE Copiers ------------------------------
(***************************************************************************)
(* The trade copier of apps/api/src/copiers/copiers.service.ts on a master *)
(* position that ScaleOut closes slice by slice: onMasterPositionOpened    *)
(* copies it to the followers one after another, and every                 *)
(* PositionPartiallyClosed event starts an onMasterPartialClose of its     *)
(* own, so that several of them close parts of the same copy at a time.    *)
(* The master's whole close is not copied.                                 *)
(***************************************************************************)
EXTENDS ScaleOut

CONSTANTS
  Followers,  \* accounts that copy the master
  Locked,     \* those whose account is LOCKED
  Fixed,      \* the volume of a copy, 0 for the volume of the master
  Handlers,   \* bound: onMasterPartialClose executions at a time
  MaxFailing  \* bound: followers one of whose calls fails

ASSUME CopiersAssumption ==
  Locked \subseteq Followers /\ Fixed \in [Followers -> Nat] /\ MaxFailing \in Nat

VARIABLES
  running, \* the copier's status is RUNNING
  copy,    \* the copies: the deal at the broker, and status and volume of the row
  opening, \* the onMasterPositionOpened execution
  parts,   \* the onMasterPartialClose executions
  failed   \* history: followers one of whose calls failed

copies == <<running, copy, opening, parts, failed>>
copierVars == <<vars, copies>>

NoPart == [at |-> "idle", todo |-> {}, f |-> "none", ask |-> 0, left |-> 0]
NoCopy == [deal |-> 0, status |-> "none", vol |-> 0]

\* The master has just been filled and its PositionOpened event is out, or it was
\* opened by a recovery, which publishes none.
CopiersInit ==
  /\ Init
  /\ running \in BOOLEAN
  /\ copy = [f \in Followers |-> NoCopy]
  /\ \E at \in {"event", "done"} :
       opening = [at |-> at, todo |-> IF at = "event" THEN Followers ELSE {}, f |-> "none", vol |-> 0]
  /\ parts = [h \in Handlers |-> NoPart]
  /\ failed = {}

\* A call of the copier fails.
CopyFault(f) ==
  /\ f \notin failed /\ Cardinality(failed) < MaxFailing
  /\ failed' = failed \cup {f}

-----------------------------------------------------------------------------
(***************************************************************************)
(* start, stop and onMasterPositionOpened                                  *)
(***************************************************************************)
\* The status is read once, when the master has opened: it is left as it is after.
SetRunning(r) ==
  /\ opening.at = "event" /\ running # r /\ running' = r
  /\ UNCHANGED <<vars, copy, opening, parts, failed>>

\* The position is read as it is by now, then the copiers that are RUNNING.
TakeOpened ==
  /\ opening.at = "event"
  /\ opening' = [opening EXCEPT !.at = IF running THEN "next" ELSE "done", !.vol = row.vol]
  /\ UNCHANGED <<vars, running, copy, parts, failed>>

\* Mutant of SkipFollower: an error ends the loop over the followers.
SkipTheRest == opening' = [opening EXCEPT !.at = "next", !.f = "none", !.todo = {}]

\* "SKIP_FOLLOWER": an error of copyOpen is caught in the loop.
SkipFollower == opening' = [opening EXCEPT !.at = "next", !.f = "none"]

\* A LOCKED follower throws before anything is sent.
TakeFollower(f) ==
  /\ opening.at = "next" /\ f \in opening.todo
  /\ opening' = [opening EXCEPT !.at = IF f \in Locked THEN "error" ELSE "place", !.f = f,
                                !.todo = @ \ {f}]
  /\ UNCHANGED <<vars, running, copy, parts, failed>>

CopyError ==
  /\ opening.at = "error" /\ SkipFollower
  /\ UNCHANGED <<vars, running, copy, parts, failed>>

\* volumeMode FIXED, or a multiple of the master's volume.
CopyVolume(f) == IF Fixed[f] > 0 THEN Fixed[f] ELSE opening.vol

\* placeOrder, without an order row before it: the copy is filled; a volume of
\* nothing is refused, and any call may fail, with the deal open or not.
PlaceCopy ==
  LET f == opening.f
      n == CopyVolume(f)
  IN  /\ opening.at = "place"
      /\ \/ /\ n > 0 /\ copy' = [copy EXCEPT ![f].deal = n]
            /\ opening' = [opening EXCEPT !.at = "create"]
            /\ UNCHANGED failed
         \/ /\ n = 0 /\ opening' = [opening EXCEPT !.at = "error"]
            /\ UNCHANGED <<copy, failed>>
         \/ /\ CopyFault(f) /\ opening' = [opening EXCEPT !.at = "error"]
            /\ copy' \in {copy, [copy EXCEPT ![f].deal = n]}
      /\ UNCHANGED <<vars, running, parts>>

\* Order and position rows; the rest may throw after them.
CreateCopy ==
  LET f == opening.f
  IN  /\ opening.at = "create"
      /\ copy' = [copy EXCEPT ![f].status = "OPEN", ![f].vol = CopyVolume(f)]
      /\ opening' = [opening EXCEPT !.at = "next", !.f = "none"]
      /\ UNCHANGED <<vars, running, parts, failed>>

EndOpened ==
  /\ opening.at = "next" /\ opening.todo = {}
  /\ opening' = [opening EXCEPT !.at = "done"]
  /\ UNCHANGED <<vars, running, copy, parts, failed>>

-----------------------------------------------------------------------------
(***************************************************************************)
(* onMasterPartialClose                                                    *)
(***************************************************************************)
\* An event starts a handler, which reads the copies that have an order row;
\* it does not ask whether the copier runs.
TakePart(h) ==
  /\ events > 0 /\ h = Min({x \in Handlers : parts[x].at = "idle"})
  /\ events' = events - 1
  /\ parts' = [parts EXCEPT ![h].at = "next",
                            ![h].todo = {f \in Followers : copy[f].status # "none"}]
  /\ UNCHANGED <<position, op, history, running, copy, opening, failed>>

\* Mutant of Half: rounded down.
HalfDown(v) == IF v = 1 THEN 1 ELSE v \div 2

\* Half of the copy, to the volume step with halves rounded up.
Half(v) == (v + 1) \div 2

\* The copy's row is read; one that is not open is passed over.
ReadCopy(h, f) ==
  LET rest == parts[h].todo \ {f}
      half == Half(copy[f].vol)
  IN  /\ parts[h].at = "next" /\ f \in parts[h].todo
      /\ parts' = [parts EXCEPT ![h] =
           IF copy[f].status = "OPEN"
           THEN [at |-> "call", todo |-> rest, f |-> f, ask |-> half, left |-> copy[f].vol - half]
           ELSE [parts[h] EXCEPT !.todo = rest]]
      /\ UNCHANGED <<vars, running, copy, opening, failed>>

SkipPart(h) == parts' = [parts EXCEPT ![h] = [NoPart EXCEPT !.at = "next", !.todo = parts[h].todo]]

\* closePosition when half is all of it, partialClosePosition of the volume
\* otherwise, which the broker refuses unless it leaves something; what throws
\* is skipped.
CloseHalf(h) ==
  LET f    == parts[h].f
      open == copy[f].deal
      n    == IF parts[h].left = 0 THEN open ELSE IF parts[h].ask < open THEN parts[h].ask ELSE 0
  IN  /\ parts[h].at = "call"
      /\ \/ /\ n > 0
            /\ copy' = [copy EXCEPT ![f].deal = open - n]
            /\ parts' = [parts EXCEPT ![h].at = "write", ![h].left = open - n]
            /\ UNCHANGED failed
         \/ /\ n = 0 /\ SkipPart(h) /\ UNCHANGED <<copy, failed>>
         \/ /\ CopyFault(f) /\ SkipPart(h)
            /\ copy' \in {copy, [copy EXCEPT ![f].deal = open - n]}
      /\ UNCHANGED <<vars, running, opening>>

WriteCopy(h) ==
  LET f == parts[h].f
  IN  /\ parts[h].at = "write"
      /\ copy' = [copy EXCEPT ![f].status = IF parts[h].left = 0 THEN "CLOSED" ELSE "OPEN",
                              ![f].vol = parts[h].left]
      /\ SkipPart(h)
      /\ UNCHANGED <<vars, running, opening, failed>>

EndPart(h) ==
  /\ parts[h].at = "next" /\ parts[h].todo = {}
  /\ parts' = [parts EXCEPT ![h] = NoPart]
  /\ UNCHANGED <<vars, running, copy, opening, failed>>

-----------------------------------------------------------------------------
\* A follower's broker closes its copy, and the sync of its account brings the
\* row to what the broker has.
NativeCopyClose(f) ==
  /\ copy[f].deal > 0
  /\ copy' = [copy EXCEPT ![f].deal = 0]
  /\ UNCHANGED <<vars, running, opening, parts, failed>>

SyncCopy(f) ==
  /\ copy[f].status = "OPEN"
  /\ copy' = [copy EXCEPT ![f].status = IF copy[f].deal > 0 THEN "OPEN" ELSE "CLOSED", ![f].vol = copy[f].deal]
  /\ UNCHANGED <<vars, running, opening, parts, failed>>

CopiersCrash ==
  /\ Crash
  /\ opening' = [opening EXCEPT !.at = "done", !.f = "none", !.todo = {}]
  /\ parts' = [h \in Handlers |-> NoPart]
  /\ UNCHANGED <<running, copy, failed>>

OpenedStep == TakeOpened \/ (\E f \in Followers : TakeFollower(f)) \/ CopyError \/ PlaceCopy
              \/ CreateCopy \/ EndOpened
PartStep(h) == (\E f \in Followers : ReadCopy(h, f)) \/ CloseHalf(h) \/ WriteCopy(h) \/ EndPart(h)

Next ==
  \/ ScaleNext /\ UNCHANGED copies
  \/ \E r \in BOOLEAN : SetRunning(r)
  \/ OpenedStep
  \/ \E h \in {x \in Handlers : parts[x].at = "idle"} : TakePart(h)
  \/ \E h \in Handlers : PartStep(h)
  \/ \E f \in Followers : NativeCopyClose(f) \/ SyncCopy(f)
  \/ CopiersCrash

Spec == CopiersInit /\ [][Next]_copierVars

\* The event loop carries the handlers through.
Fairness ==
  /\ ScaleFairness
  /\ WF_copierVars(OpenedStep)
  /\ \A h \in Handlers : WF_copierVars(PartStep(h))
-----------------------------------------------------------------------------
(***************************************************************************)
(* Properties                                                              *)
(***************************************************************************)
\* However many slices of the master close at a time, and although every
\* handler goes by a volume that it read before the others closed theirs, none
\* takes more than half of what a copy then has: half of a stale volume, rounded
\* up, is never less than what is left, and is refused (416-452).
AtMostHalf ==
  [][\A h \in Handlers : LET f == parts[h].f IN
       parts[h].at = "call" /\ parts'[h].at # "call" =>
         copy'[f].deal >= copy[f].deal \div 2]_copierVars

\* "failurePolicy: SKIP_FOLLOWER" (93, 187-203): with the copier running when the
\* master opens, a follower that is locked or fails does not keep the others
\* from their copy.
OthersStillCopied ==
  \A f \in Followers \ Locked :
    (opening.at = "next" /\ f \in opening.todo /\ CopyVolume(f) > 0)
      ~> copy[f].status # "none" \/ f \in failed \/ lost
=============================================================================
