--------------------------- MODULE ConnectionMemo ---------------------------
(***************************************************************************)
(* The memoised connection of lib/queue.ts (getRfqQueue) and, by the same  *)
(* code with another client, of lib/redis.ts (getCacheRedis): one shared   *)
(* client per process, connected on demand, rebuilt when it has died.      *)
(*                                                                         *)
(* The process has one thread: a caller runs from one await to the next    *)
(* without interruption, and whoever awaits a settled promise resumes      *)
(* before the next socket event is handled. Calls may enter at any time.   *)
(***************************************************************************)
EXTENDS Naturals, FiniteSets

CONSTANTS
  Callers,   \* requests that may be inside the function at once
  Slots,     \* bound: the connection attempts that matter at once
  NoSlot     \* no attempt: a null memo

ASSUME MemoAssumption ==
  /\ NoSlot \notin Slots
  /\ IsFiniteSet(Slots) /\ IsFiniteSet(Callers)
  /\ Cardinality(Slots) > Cardinality(Callers) + 1

VARIABLES
  serverUp,  \* Redis can be connected to
  conn,      \* each attempt and what became of its client
  memo,      \* the attempt whose promise is memoised
  caller,    \* where each caller stands and which attempt it awaits
  raced      \* history: two attempts were under way at once

memoVars == <<serverUp, conn, memo, caller, raced>>

MemoInit ==
  /\ serverUp \in BOOLEAN
  /\ conn = [s \in Slots |-> "none"]
  /\ memo = NoSlot
  /\ caller = [c \in Callers |-> [pc |-> "idle", slot |-> NoSlot]]
  /\ raced = FALSE

Settled(s) == conn[s] # "connecting"

(* Somebody is about to resume: no socket event is handled before that. *)
Resuming == \E c \in Callers : caller[c].pc # "idle" /\ Settled(caller[c].slot)

InUse(s) == memo = s \/ \E c \in Callers : caller[c].slot = s

MoveTo(c, pc, s) == caller' = [caller EXCEPT ![c] = [pc |-> pc, slot |-> s]]

-----------------------------------------------------------------------------
(* A definition whose name begins with Mutant is not part of the model: it *)
(* is the definition after it with a plausible bug, which the runs must    *)
(* catch when it takes that definition's place.                            *)
-----------------------------------------------------------------------------
(* memo = connectOnce(url).then(...): a fresh attempt, of which the caller *)
(* awaits its own promise. A slot nobody refers to any more is taken again *)
(* for it, the slot of a client that was left open included.               *)
MutantForgets(c) ==
  \E s \in Slots :
    /\ ~InUse(s) /\ conn[s] # "connecting"
    /\ conn' = [conn EXCEPT ![s] = "connecting"]
    /\ memo' = NoSlot
    /\ raced' = (raced \/ \E q \in Slots : conn[q] = "connecting")
    /\ MoveTo(c, "ownAttempt", s)

Attempt(c) ==
  \E s \in Slots :
    /\ ~InUse(s) /\ conn[s] # "connecting"
    /\ conn' = [conn EXCEPT ![s] = "connecting"]
    /\ memo' = s
    /\ raced' = (raced \/ \E q \in Slots : conn[q] = "connecting")
    /\ MoveTo(c, "ownAttempt", s)

MutantIgnoresMemo(c) ==
  /\ caller[c].pc = "idle"
  /\ Attempt(c)
  /\ UNCHANGED serverUp

Enter(c) ==
  /\ caller[c].pc = "idle"
  /\ IF memo = NoSlot
     THEN Attempt(c)
     ELSE MoveTo(c, "memo", memo) /\ UNCHANGED <<conn, memo, raced>>
  /\ UNCHANGED serverUp

(* `const existing = await memo`: a ready client is the answer; a dead or  *)
(* failed one is discarded, whatever the memo holds by now.                *)
MutantTrustsMemo(s) == conn[s] # "failed"
Usable(s) == conn[s] = "ready"

ResumeMemo(c) ==
  /\ caller[c].pc = "memo" /\ Settled(caller[c].slot)
  /\ IF Usable(caller[c].slot)
     THEN MoveTo(c, "idle", NoSlot) /\ UNCHANGED <<conn, memo, raced>>
     ELSE Attempt(c)
  /\ UNCHANGED serverUp

(* `await attempt`: a client, or null when it failed. *)
ResumeOwn(c) ==
  /\ caller[c].pc = "ownAttempt" /\ Settled(caller[c].slot)
  /\ MoveTo(c, "idle", NoSlot)
  /\ UNCHANGED <<serverUp, conn, memo, raced>>

-----------------------------------------------------------------------------
(* Socket events.                                                          *)

Connected(s) ==
  /\ conn[s] = "connecting" /\ serverUp /\ ~Resuming
  /\ conn' = [conn EXCEPT ![s] = "ready"]
  /\ UNCHANGED <<serverUp, memo, caller, raced>>

(* The `then` of a failed attempt nulls the memo, whoever's it is. *)
MutantSticks == memo
AfterFailure == NoSlot

MutantRetries(s) ==
  /\ conn[s] = "connecting" /\ ~serverUp /\ ~Resuming
  /\ UNCHANGED memoVars

ConnectFails(s) ==
  /\ conn[s] = "connecting" /\ ~serverUp /\ ~Resuming
  /\ conn' = [conn EXCEPT ![s] = "failed"]
  /\ memo' = AfterFailure
  /\ UNCHANGED <<serverUp, caller, raced>>

(* Neither client reconnects by itself (retryStrategy, reconnectStrategy). *)
Drops(s) ==
  /\ conn[s] = "ready" /\ ~serverUp /\ ~Resuming
  /\ conn' = [conn EXCEPT ![s] = "dead"]
  /\ UNCHANGED <<serverUp, memo, caller, raced>>

ServerFlips ==
  /\ ~Resuming
  /\ serverUp' = ~serverUp
  /\ UNCHANGED <<conn, memo, caller, raced>>

-----------------------------------------------------------------------------
Call(c) == Enter(c) \/ ResumeMemo(c) \/ ResumeOwn(c)

MemoNext ==
  \/ \E c \in Callers : Call(c)
  \/ \E s \in Slots : Connected(s) \/ ConnectFails(s) \/ Drops(s)
  \/ ServerFlips

MemoSpec == MemoInit /\ [][MemoNext]_memoVars

(* The event loop runs every ready continuation; a connect is settled one  *)
(* way or the other within its timeout; requests keep coming.              *)
Fairness ==
  /\ \A c \in Callers : WF_memoVars(ResumeMemo(c)) /\ WF_memoVars(ResumeOwn(c)) /\ WF_memoVars(Enter(c))
  /\ \A s \in Slots : /\ SF_memoVars(Connected(s) \/ ConnectFails(s))
                      /\ WF_memoVars(Drops(s))

FairSpec == MemoSpec /\ Fairness

-----------------------------------------------------------------------------
(* Type correctness of every variable. *)
MemoTypeOK ==
  /\ serverUp \in BOOLEAN
  /\ conn \in [Slots -> {"none", "connecting", "ready", "failed", "dead"}]
  /\ memo \in Slots \cup {NoSlot}
  /\ caller \in [Callers -> [pc : {"idle", "memo", "ownAttempt"}, slot : Slots \cup {NoSlot}]]
  /\ \A c \in Callers : caller[c].pc # "idle" => caller[c].slot # NoSlot
  /\ raced \in BOOLEAN

(* "A connect that FAILS is not memoized, so the next caller retries": no  *)
(* interleaving of calls and failures leaves a failed attempt in the memo. *)
NoStickyFailure == memo # NoSlot => conn[memo] # "failed"

(* "The lazy shared client": every open client is the memo's, so nothing   *)
(* is left open behind it, unless two attempts were once under way at the  *)
(* same time.                                                              *)
LeaksNeedRace == ~raced => \A s \in Slots : conn[s] = "ready" => memo = s

(* No attempt begins while the memo holds a ready client, even when the    *)
(* caller that begins it was awaiting an older, dead one.                  *)
ReadyIsShared ==
  [][ (\E s \in Slots : conn[s] # "connecting" /\ conn'[s] = "connecting")
        => ~(memo # NoSlot /\ conn[memo] = "ready") ]_memoVars

(* The functions "never hang": every call returns, the server's state      *)
(* changing under it as it may. And "a queue coming back mid-outage is the *)
(* normal recovery path": once the server stays up, the memo comes to hold *)
(* a ready client and keeps it.                                            *)
CallsReturn == \A c \in Callers : caller[c].pc # "idle" ~> caller[c].pc = "idle"
MemoRecovers == <>[]serverUp => <>[](memo # NoSlot /\ conn[memo] = "ready")

MemoHeals == CallsReturn /\ MemoRecovers
=============================================================================
