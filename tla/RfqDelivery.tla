---------------------------- MODULE RfqDelivery ----------------------------
(***************************************************************************)
(* How a stored inquiry becomes two e-mails: the BullMQ job that carries a *)
(* lead id, the worker process that runs the send flow, the three delivery *)
(* columns of the Lead row, and the operator commands that re-drive what   *)
(* went wrong.                                                             *)
(*                                                                         *)
(* Every await of the send flow is a step of its own, so an erasure, an    *)
(* operator command, a crash or (with LockLoss) a second run of the same   *)
(* job can fall between a read and the write that uses it.                 *)
(*                                                                         *)
(* External and modelled from how src/ uses it: BullMQ's job record and    *)
(* its lock, the mail provider.                                            *)
(***************************************************************************)
EXTENDS Naturals, FiniteSets

CONSTANTS
  NumLeads,        \* bound: how many inquiries are ever submitted
  Workers,         \* worker processes, each with BullMQ's concurrency of 1
  MaxAttempts,     \* RFQ_JOB_OPTIONS.attempts (5 in the code)
  SendErrors,      \* what a failed send answers: "provider", "transport"
  ReplayLimit,     \* findLeadsAwaitingNotification's take (100 in the code)
  MaxStalls,       \* BullMQ's maxStalledCount (1, the library's default)
  MaxFaults,       \* bound: crashes, database errors, unanswered sends
  LockLoss,        \* may a live run lose its job lock (a pause > lockDuration)?
  OperatorFaults,  \* may a replay command fail or be killed half-way?
  NoWorker         \* the lock of a job no worker holds

ASSUME DeliveryAssumption ==
  /\ NumLeads \in Nat \ {0}
  /\ MaxAttempts \in Nat \ {0}
  /\ "transport" \in SendErrors
  /\ {"none", "unconfigured"} \cap SendErrors = {}
  /\ ReplayLimit \in Nat
  /\ MaxStalls \in Nat
  /\ MaxFaults \in Nat
  /\ LockLoss \in BOOLEAN
  /\ OperatorFaults \in BOOLEAN
  /\ NoWorker \notin Workers

(* A lead's number is its place in createdAt order. *)
Leads == 1 .. NumLeads

Kinds == {"notify", "confirm"}
Codes == {"unconfigured"} \cup SendErrors
Reasons == {"none"} \cup Codes
NoReason == [k \in Kinds |-> "none"]
Unsent == [k \in Kinds |-> FALSE]

VARIABLES
  status,     \* the Lead row: "none", "stored", "erased"
  sent,       \* notifiedAt / confirmationSentAt are set
  reason,     \* deliveryFailureReason, as the code it holds for each kind
  age,        \* createdAt against replay's window: "new", "inWindow", "tooOld"
  adding,     \* the request's queue.add has neither landed nor been given up
  jobState,   \* the job record under jobId = lead id
  made,       \* its attemptsMade, saturated at MaxAttempts
  stalls,     \* its stalled counter, saturated at MaxStalls + 1
  lock,       \* the worker whose token locks it
  run,        \* each worker's call of processRfqSubmitted
  keys,       \* isEmailConfigured in each worker's environment
  recipient,  \* resolveNotifyRecipient() finds an address
  replay,     \* the queue:replay command
  accepted,   \* history: how often the provider accepted each e-mail
  faults      \* history: faults so far

rowVars == <<status, sent, reason>>
jobVars == <<jobState, made, stalls, lock>>
envVars == <<keys, recipient>>
vars == <<rowVars, age, adding, jobVars, run, envVars, replay, accepted, faults>>

Live == {"waiting", "delayed", "active"}
JobStates == {"none", "completed", "failed"} \cup Live

(* `final` and `snap` are what the run read when it started: the attempt   *)
(* number off the job, the two stamps off the row. `read` is the reason    *)
(* column as the read half of a stamp or a failure record saw it.          *)
IdleRun == [pc |-> "idle", lead |-> 1, final |-> FALSE, snap |-> Unsent,
            kind |-> "notify", retry |-> FALSE, code |-> "none", read |-> NoReason]

IdleReplay == [pc |-> "idle", todo |-> {}]

Init ==
  /\ status = [l \in Leads |-> "none"]
  /\ sent = [l \in Leads |-> Unsent]
  /\ reason = [l \in Leads |-> NoReason]
  /\ age = [l \in Leads |-> "new"]
  /\ adding = [l \in Leads |-> FALSE]
  /\ jobState = [l \in Leads |-> "none"]
  /\ made = [l \in Leads |-> 0]
  /\ stalls = [l \in Leads |-> 0]
  /\ lock = [l \in Leads |-> NoWorker]
  /\ run = [w \in Workers |-> IdleRun]
  /\ keys \in [Workers -> BOOLEAN]
  /\ recipient \in BOOLEAN
  /\ replay = IdleReplay
  /\ accepted = [l \in Leads |-> [k \in Kinds |-> 0]]
  /\ faults = 0

-----------------------------------------------------------------------------
(* A definition whose name begins with Mutant is not part of the model: it *)
(* is the definition after it with a plausible bug, which the runs must    *)
(* catch when it takes that definition's place.                            *)
-----------------------------------------------------------------------------
(* The job record (external: BullMQ).                                      *)

(* queue.add under a jobId: a no-op while a record with that id exists. *)
AddJob(l) ==
  IF jobState[l] = "none"
  THEN /\ jobState' = [jobState EXCEPT ![l] = "waiting"]
       /\ made' = [made EXCEPT ![l] = 0]
       /\ stalls' = [stalls EXCEPT ![l] = 0]
       /\ UNCHANGED lock
  ELSE UNCHANGED jobVars

SetJob(l, s) ==
  /\ jobState' = [jobState EXCEPT ![l] = s]
  /\ lock' = [lock EXCEPT ![l] = NoWorker]

(* The backoff of a delayed job ran out. *)
Promote(l) ==
  /\ jobState[l] = "delayed"
  /\ SetJob(l, "waiting")
  /\ UNCHANGED <<rowVars, age, adding, made, stalls, run, envVars, replay, accepted, faults>>

(* removeOnComplete: a completed record is dropped by age or by count. *)
ExpireJob(l) ==
  /\ jobState[l] = "completed"
  /\ SetJob(l, "none")
  /\ UNCHANGED <<rowVars, age, adding, made, stalls, run, envVars, replay, accepted, faults>>

Running(w, l) == run[w].pc # "idle" /\ run[w].lead = l

(* An active job whose lock is no longer renewed goes back to waiting, and *)
(* to the failed set once it has stalled more than MaxStalls times. Its    *)
(* worker is dead, unless LockLoss lets a live one lose its lock.          *)
Stall(l) ==
  /\ jobState[l] = "active"
  /\ LockLoss \/ ~Running(lock[l], l)
  /\ SetJob(l, IF stalls[l] + 1 > MaxStalls THEN "failed" ELSE "waiting")
  /\ stalls' = [stalls EXCEPT ![l] = IF @ > MaxStalls THEN @ ELSE @ + 1]
  /\ UNCHANGED <<rowVars, age, adding, made, run, envVars, replay, accepted, faults>>

-----------------------------------------------------------------------------
(* The request's end of it: the row is committed, then queue.add is sent.  *)

Submit(l) ==
  /\ status[l] = "none"
  /\ l > 1 => status[l - 1] # "none"
  /\ status' = [status EXCEPT ![l] = "stored"]
  /\ adding' = [adding EXCEPT ![l] = TRUE]
  /\ UNCHANGED <<sent, reason, age, jobVars, run, envVars, replay, accepted, faults>>

(* The add lands, in time or after its caller has timed out and answered. *)
AddLands(l) ==
  /\ adding[l]
  /\ AddJob(l)
  /\ adding' = [adding EXCEPT ![l] = FALSE]
  /\ UNCHANGED <<rowVars, age, run, envVars, replay, accepted, faults>>

(* No queue configured, no client, a rejected add, or the process died. *)
AddLost(l) ==
  /\ adding[l]
  /\ adding' = [adding EXCEPT ![l] = FALSE]
  /\ UNCHANGED <<rowVars, age, jobVars, run, envVars, replay, accepted, faults>>

(* Time passes over createdAt, oldest lead first. *)
Older(a) == IF a = "new" THEN "inWindow" ELSE "tooOld"
Rank(a) == CASE a = "new" -> 0 [] a = "inWindow" -> 1 [] OTHER -> 2

Grow(l) ==
  /\ status[l] # "none" /\ age[l] # "tooOld"
  /\ \A m \in 1 .. (l - 1) : Rank(age[m]) > Rank(age[l])
  /\ age' = [age EXCEPT ![l] = Older(@)]
  /\ UNCHANGED <<rowVars, adding, jobVars, run, envVars, replay, accepted, faults>>

(* deleteLeadWithAttachment's row delete: every column goes with the row. *)
Erase(l) ==
  /\ status[l] = "stored"
  /\ status' = [status EXCEPT ![l] = "erased"]
  /\ sent' = [sent EXCEPT ![l] = Unsent]
  /\ reason' = [reason EXCEPT ![l] = NoReason]
  /\ UNCHANGED <<age, adding, jobVars, run, envVars, replay, accepted, faults>>

-----------------------------------------------------------------------------
(* The worker: handleJob and processRfqSubmitted.                          *)

(* attemptsMade counts from 0, so the attempt being made is one more. *)
MutantOffByOne(m) == m >= MaxAttempts
IsFinalAttempt(m) == m + 1 >= MaxAttempts

Take(w, l) ==
  /\ run[w].pc = "idle"
  /\ jobState[l] = "waiting"
  /\ jobState' = [jobState EXCEPT ![l] = "active"]
  /\ lock' = [lock EXCEPT ![l] = w]
  /\ run' = [run EXCEPT ![w] = [IdleRun EXCEPT !.pc = "find", !.lead = l,
                                               !.final = IsFinalAttempt(made[l])]]
  /\ UNCHANGED <<rowVars, age, adding, made, stalls, envVars, replay, accepted, faults>>

(* A step of w's run that writes neither the row nor the job. *)
Goto(w, r) ==
  /\ run' = [run EXCEPT ![w] = r]
  /\ UNCHANGED <<age, adding, jobVars, envVars, replay>>

(* The row is read ONCE: the stamps seen here decide both sends. *)
Find(w) ==
  LET r == run[w] IN
  /\ r.pc = "find"
  /\ Goto(w, IF status[r.lead] = "stored"
             THEN [r EXCEPT !.pc = "send", !.snap = sent[r.lead]]
             ELSE [r EXCEPT !.pc = "finish"])
  /\ UNCHANGED <<rowVars, accepted, faults>>

(* The notification is followed by the confirmation, whatever became of it. *)
Onward(r) ==
  [r EXCEPT !.pc = IF r.kind = "notify" THEN "send" ELSE "finish",
            !.kind = "confirm", !.code = "none", !.read = NoReason]

AlreadySent(w) ==
  LET r == run[w] IN
  /\ r.pc = "send" /\ r.snap[r.kind]
  /\ Goto(w, Onward(r))
  /\ UNCHANGED <<rowVars, accepted, faults>>

Configured(w, k) == keys[w] /\ (k = "notify" => recipient)

(* Recorded at once and never retried: waiting changes nothing. *)
SendUnconfigured(w) ==
  LET r == run[w] IN
  /\ r.pc = "send" /\ ~r.snap[r.kind] /\ ~Configured(w, r.kind)
  /\ Goto(w, [r EXCEPT !.pc = "recordRead", !.code = "unconfigured"])
  /\ UNCHANGED <<rowVars, accepted, faults>>

MutantIgnoresStamp(w) == run[w].pc = "send" /\ Configured(w, run[w].kind)
CanSend(w) == run[w].pc = "send" /\ ~run[w].snap[run[w].kind] /\ Configured(w, run[w].kind)

ProviderAccepts(w) ==
  accepted' = [accepted EXCEPT ![run[w].lead][run[w].kind] = @ + 1]

SendAccepted(w) ==
  /\ CanSend(w)
  /\ ProviderAccepts(w)
  /\ Goto(w, [run[w] EXCEPT !.pc = "markRead"])
  /\ UNCHANGED <<rowVars, faults>>

(* A failed send asks for a retry; only the final attempt records it. *)
AfterFailure(r, e) ==
  LET failed == [r EXCEPT !.retry = TRUE]
  IN  IF r.final THEN [failed EXCEPT !.pc = "recordRead", !.code = e] ELSE Onward(failed)

SendRefused(w) ==
  /\ CanSend(w)
  /\ \E e \in SendErrors : Goto(w, AfterFailure(run[w], e))
  /\ UNCHANGED <<rowVars, accepted, faults>>

(* The provider took the mail, its answer was lost: reported "transport". *)
SendUnanswered(w) ==
  /\ CanSend(w) /\ faults < MaxFaults
  /\ ProviderAccepts(w)
  /\ faults' = faults + 1
  /\ Goto(w, AfterFailure(run[w], "transport"))
  /\ UNCHANGED rowVars

-----------------------------------------------------------------------------
(* markDeliverySent and recordDeliveryFailure: each reads the reason       *)
(* column, then updates the row from what it read.                         *)

ReadReason(w, from, to) ==
  LET r == run[w] IN
  /\ r.pc = from
  /\ Goto(w, [r EXCEPT !.pc = to,
                       !.read = IF status[r.lead] = "stored" THEN reason[r.lead] ELSE NoReason])
  /\ UNCHANGED <<rowVars, accepted, faults>>

MarkRead(w) == ReadReason(w, "markRead", "markWrite")
RecordRead(w) == ReadReason(w, "recordRead", "recordWrite")

(* The other kind's entry is kept; this kind's is dropped or replaced. *)
Without(reasons, k) == [reasons EXCEPT ![k] = "none"]
With(reasons, k, c) == [reasons EXCEPT ![k] = c]

(* An update of a row erased since the read throws (P2025). *)
MutantStampsNotify(w) ==
  LET r == run[w] IN
  /\ r.pc = "markWrite" /\ status[r.lead] = "stored"
  /\ sent' = [sent EXCEPT ![r.lead]["notify"] = TRUE]
  /\ reason' = [reason EXCEPT ![r.lead] = Without(r.read, r.kind)]
  /\ Goto(w, Onward(r))
  /\ UNCHANGED <<status, accepted, faults>>

MutantUpserts(w) ==
  LET r == run[w] IN
  /\ r.pc = "markWrite"
  /\ sent' = [sent EXCEPT ![r.lead][r.kind] = TRUE]
  /\ reason' = [reason EXCEPT ![r.lead] = Without(r.read, r.kind)]
  /\ Goto(w, Onward(r))
  /\ UNCHANGED <<status, accepted, faults>>

MarkWrite(w) ==
  LET r == run[w] IN
  /\ r.pc = "markWrite"
  /\ IF status[r.lead] = "stored"
     THEN /\ sent' = [sent EXCEPT ![r.lead][r.kind] = TRUE]
          /\ reason' = [reason EXCEPT ![r.lead] = Without(r.read, r.kind)]
          /\ Goto(w, Onward(r))
     ELSE /\ Goto(w, [r EXCEPT !.pc = "throw"])
          /\ UNCHANGED <<sent, reason>>
  /\ UNCHANGED <<status, accepted, faults>>

RecordWrite(w) ==
  LET r == run[w] IN
  /\ r.pc = "recordWrite"
  /\ IF status[r.lead] = "stored"
     THEN /\ reason' = [reason EXCEPT ![r.lead] = With(r.read, r.kind, r.code)]
          /\ Goto(w, Onward(r))
     ELSE /\ Goto(w, [r EXCEPT !.pc = "throw"])
          /\ UNCHANGED reason
  /\ UNCHANGED <<status, sent, accepted, faults>>

(* Any database call of the run may throw instead. *)
DbFails(w) ==
  LET r == run[w] IN
  /\ \/ r.pc \in {"find", "markRead", "markWrite", "recordRead", "recordWrite"}
     \/ r.pc = "send" /\ r.kind = "notify" /\ ~r.snap["notify"]
  /\ faults < MaxFaults
  /\ faults' = faults + 1
  /\ Goto(w, [r EXCEPT !.pc = "throw"])
  /\ UNCHANGED <<rowVars, accepted>>

-----------------------------------------------------------------------------
(* How the run ends, for BullMQ: only the holder of the lock may settle    *)
(* the job.                                                                *)

Holds(w, l) == jobState[l] = "active" /\ lock[l] = w

EndRun(w) ==
  /\ run' = [run EXCEPT ![w] = IdleRun]
  /\ UNCHANGED <<rowVars, age, adding, stalls, envVars, replay, accepted, faults>>

Complete(w) ==
  LET l == run[w].lead IN
  /\ run[w].pc = "finish" /\ ~run[w].retry
  /\ IF Holds(w, l)
     THEN SetJob(l, "completed") /\ UNCHANGED made
     ELSE UNCHANGED <<jobState, lock, made>>
  /\ EndRun(w)

(* attempts with a backoff, and removeOnFail: false. *)
MutantBackoffForever(m) == "delayed"
AfterAttempt(m) == IF m + 1 < MaxAttempts THEN "delayed" ELSE "failed"

(* The processor threw, on its own or because the outcome said retry. *)
Fail(w) ==
  LET l == run[w].lead IN
  /\ run[w].pc = "throw" \/ (run[w].pc = "finish" /\ run[w].retry)
  /\ IF Holds(w, l)
     THEN /\ SetJob(l, AfterAttempt(made[l]))
          /\ made' = [made EXCEPT ![l] = IF @ < MaxAttempts THEN @ + 1 ELSE @]
     ELSE UNCHANGED <<jobState, lock, made>>
  /\ EndRun(w)

(* The process dies mid-run and restarts, in a possibly other environment. *)
Crash(w) ==
  /\ run[w].pc # "idle" /\ faults < MaxFaults
  /\ faults' = faults + 1
  /\ run' = [run EXCEPT ![w] = IdleRun]
  /\ \E b \in BOOLEAN : keys' = [keys EXCEPT ![w] = b]
  /\ UNCHANGED <<rowVars, age, adding, jobVars, recipient, replay, accepted>>

(* A graceful restart lets the run finish first. *)
Restart(w) ==
  /\ run[w].pc = "idle"
  /\ keys' = [keys EXCEPT ![w] = ~@]
  /\ UNCHANGED <<rowVars, age, adding, jobVars, run, recipient, replay, accepted, faults>>

SetRecipient ==
  /\ recipient' = ~recipient
  /\ UNCHANGED <<rowVars, age, adding, jobVars, run, keys, replay, accepted, faults>>

-----------------------------------------------------------------------------
(* The operator commands.                                                  *)

(* queue:retry, for one job of its list: retry() throws, and is reported,  *)
(* unless the job is still failed. attemptsMade is kept.                   *)
Retry(l) ==
  /\ jobState[l] = "failed"
  /\ SetJob(l, "waiting")
  /\ UNCHANGED <<rowVars, age, adding, made, stalls, run, envVars, replay, accepted, faults>>

(* A null reason column, or one that holds notify:unconfigured. *)
MutantNullOnly(rs) == rs = NoReason
Replayable(rs) == rs = NoReason \/ rs["notify"] = "unconfigured"

(* findLeadsAwaitingNotification *)
Awaiting ==
  {l \in Leads : /\ status[l] = "stored" /\ ~sent[l]["notify"]
                 /\ age[l] # "new"
                 /\ Replayable(reason[l])}

Oldest(S, n) == {l \in S : Cardinality({m \in S : m < l}) < n}

(* What the listing leaves to re-drive: the over-age ones are only printed. *)
ReplayList == {l \in Oldest(Awaiting, ReplayLimit) : age[l] = "inWindow"}

ReplayStart ==
  /\ replay.pc = "idle" /\ ReplayList # {}
  /\ replay' = [pc |-> "look", todo |-> ReplayList]
  /\ UNCHANGED <<rowVars, age, adding, jobVars, run, envVars, accepted, faults>>

(* The loop goes through its list oldest first. *)
AtReplay(pc, l) ==
  /\ replay.pc = pc
  /\ l \in replay.todo
  /\ \A m \in replay.todo : l <= m

PastLead(l) ==
  IF replay.todo = {l} THEN IdleReplay ELSE [pc |-> "look", todo |-> replay.todo \ {l}]

(* What getState answers decides: a finished record blocks the re-add and  *)
(* is removed first, a live one is left alone.                             *)
MutantKeepsFinished(s, l) ==
  IF s = "none" THEN [replay EXCEPT !.pc = "add"] ELSE PastLead(l)

NextReplayStep(s, l) ==
  CASE s \in {"completed", "failed"} -> [replay EXCEPT !.pc = "remove"]
    [] s = "none" -> [replay EXCEPT !.pc = "add"]
    [] OTHER -> PastLead(l)

ReplayLook(l) ==
  /\ AtReplay("look", l)
  /\ replay' = NextReplayStep(jobState[l], l)
  /\ UNCHANGED <<rowVars, age, adding, jobVars, run, envVars, accepted, faults>>

(* remove() throws on a job that a worker has locked since the look. *)
ReplayRemove(l) ==
  /\ AtReplay("remove", l)
  /\ IF jobState[l] = "active"
     THEN replay' = PastLead(l) /\ UNCHANGED <<jobState, lock>>
     ELSE SetJob(l, "none") /\ replay' = [replay EXCEPT !.pc = "add"]
  /\ UNCHANGED <<rowVars, age, adding, made, stalls, run, envVars, accepted, faults>>

ReplayAdd(l) ==
  /\ AtReplay("add", l)
  /\ AddJob(l)
  /\ replay' = PastLead(l)
  /\ UNCHANGED <<rowVars, age, adding, run, envVars, accepted, faults>>

(* A queue call of the loop throws: the lead is counted as failed and the  *)
(* loop goes on; or the command is killed.                                 *)
ReplayError(l) ==
  /\ OperatorFaults
  /\ AtReplay(replay.pc, l)
  /\ replay' \in {PastLead(l), IdleReplay}
  /\ UNCHANGED <<rowVars, age, adding, jobVars, run, envVars, accepted, faults>>

-----------------------------------------------------------------------------
WorkerStep(w) ==
  \/ Find(w) \/ AlreadySent(w)
  \/ SendUnconfigured(w) \/ SendAccepted(w) \/ SendRefused(w)
  \/ MarkRead(w) \/ MarkWrite(w) \/ RecordRead(w) \/ RecordWrite(w)
  \/ Complete(w) \/ Fail(w)

ReplayStep(l) == ReplayLook(l) \/ ReplayRemove(l) \/ ReplayAdd(l)

Next ==
  \/ \E l \in Leads :
       \/ Submit(l) \/ AddLands(l) \/ AddLost(l) \/ Grow(l) \/ Erase(l)
       \/ Promote(l) \/ ExpireJob(l) \/ Stall(l)
       \/ Retry(l) \/ ReplayStep(l) \/ ReplayError(l)
  \/ \E w \in Workers, l \in Leads : Take(w, l)
  \/ \E w \in Workers :
       WorkerStep(w) \/ SendUnanswered(w) \/ DbFails(w) \/ Crash(w) \/ Restart(w)
  \/ SetRecipient
  \/ ReplayStart

Spec == Init /\ [][Next]_vars

-----------------------------------------------------------------------------
(* One call of processRfqSubmitted. *)
RunType ==
  [pc : {"idle", "find", "send", "markRead", "markWrite",
         "recordRead", "recordWrite", "finish", "throw"},
   lead : Leads, final : BOOLEAN, snap : [Kinds -> BOOLEAN], kind : Kinds,
   retry : BOOLEAN, code : Reasons, read : [Kinds -> Reasons]]

(* Type correctness of every variable. *)
TypeOK ==
  /\ status \in [Leads -> {"none", "stored", "erased"}]
  /\ sent \in [Leads -> [Kinds -> BOOLEAN]]
  /\ reason \in [Leads -> [Kinds -> Reasons]]
  /\ age \in [Leads -> {"new", "inWindow", "tooOld"}]
  /\ adding \in [Leads -> BOOLEAN]
  /\ jobState \in [Leads -> JobStates]
  /\ made \in [Leads -> 0 .. MaxAttempts]
  /\ stalls \in [Leads -> 0 .. (MaxStalls + 1)]
  /\ lock \in [Leads -> Workers \cup {NoWorker}]
  /\ run \in [Workers -> RunType]
  /\ keys \in [Workers -> BOOLEAN]
  /\ recipient \in BOOLEAN
  /\ replay \in [pc : {"idle", "look", "remove", "add"}, todo : SUBSET Leads]
  /\ accepted \in [Leads -> [Kinds -> Nat]]
  /\ faults \in 0 .. MaxFaults

Stored(l) == status[l] = "stored"

(* A stamp is the truth: notifiedAt or confirmationSentAt is set only on a *)
(* lead whose e-mail of that kind the provider did accept.                 *)
StampMeansAccepted ==
  \A l \in Leads, k \in Kinds : sent[l][k] => accepted[l][k] > 0

(* The send flow's at-least-once window, exactly: an e-mail goes out a     *)
(* second time only if a fault fell between the provider's accept and the  *)
(* stamp, however often the job is retried, replayed or stalls.            *)
DuplicatesNeedFaults ==
  \A l \in Leads, k \in Kinds : accepted[l][k] <= 1 + faults

(* markDeliverySent clears that kind's failure: a delivered lead is never  *)
(* left showing a delivery failure of the same kind.                       *)
DeliveredShowsNoFailure ==
  \A l \in Leads, k \in Kinds : sent[l][k] => reason[l][k] = "none"

(* The dead-letter set explains itself: when nothing crashed, a job in the *)
(* failed set belongs to a lead whose every unsent e-mail has a recorded   *)
(* failure (the boundary IsFinalAttempt decides).                          *)
FailedIsExplained ==
  \A l \in Leads :
     (faults = 0 /\ ~LockLoss /\ jobState[l] = "failed" /\ Stored(l))
       => \A k \in Kinds : sent[l][k] \/ reason[l][k] # "none"

(* queue:retry sees the failed set, queue:replay sees Replayable columns:  *)
(* between them and the live jobs no stored lead that still awaits its     *)
(* notification falls through.                                             *)
BeingReplayed(l) == AtReplay("add", l)

NotifyRecoverable ==
  \A l \in Leads :
     (Stored(l) /\ ~sent[l]["notify"])
       => \/ jobState[l] \in Live \cup {"failed"}
          \/ Replayable(reason[l])
          \/ BeingReplayed(l)

(* The per-e-mail short-circuit: once a stamp is on the row, no run ever   *)
(* sends that e-mail again.                                                *)
NoMailAfterStamp ==
  [][\A l \in Leads, k \in Kinds : sent[l][k] => accepted'[l][k] = accepted[l][k]]_vars

-----------------------------------------------------------------------------
(* Fairness. The worker's own: a live process goes on with its run, takes  *)
(* waiting jobs in FIFO order, promotes delayed ones and detects stalled   *)
(* ones; a request's add is settled.                                       *)
QueueFairness ==
  /\ \A w \in Workers : WF_vars(WorkerStep(w))
  /\ \A w \in Workers, l \in Leads : SF_vars(Take(w, l))
  /\ \A l \in Leads : /\ WF_vars(Promote(l))
                      /\ WF_vars(Stall(l))
                      /\ WF_vars(AddLands(l) \/ AddLost(l))

(* The world's: a lead gets old enough for replay, an operator keeps       *)
(* running both commands, and a provider that is asked again and again     *)
(* accepts at last.                                                        *)
OperatorFairness ==
  /\ \A l \in Leads : WF_vars(age[l] = "new" /\ Grow(l))
  /\ \A l \in Leads : SF_vars(Retry(l)) /\ WF_vars(ReplayStep(l))
  /\ SF_vars(ReplayStart)
  /\ \A w \in Workers : SF_vars(SendAccepted(w))

QueueFairSpec == Spec /\ QueueFairness

(* Five attempts, then the dead-letter set: with no operator at all, a     *)
(* queued job stops being live (completed or failed) whatever the          *)
(* provider, the configuration and a bounded number of faults do.          *)
JobsSettle == \A l \in Leads : jobState[l] \in Live ~> jobState[l] \notin Live

WellConfigured == recipient /\ \A w \in Workers : keys[w]

(* FR29, "no inquiry is ever lost": once the deployment is configured for  *)
(* good, and if the operators and the provider do their part, each stored  *)
(* lead is notified, unless it is erased or outlives the replay window     *)
(* first.                                                                  *)
EventuallyNotified ==
  OperatorFairness /\ <>[]WellConfigured =>
    \A l \in Leads :
      Stored(l) ~> (sent[l]["notify"] \/ ~Stored(l) \/ age[l] = "tooOld")

-----------------------------------------------------------------------------
-----------------------------------------------------------------------------
(* The contract this module implements. *)
Contract == INSTANCE DeliveryContract WITH mails <- accepted

(* The send flow, the queue and the operators implement at-least-once      *)
(* delivery: mail only for committed leads, a stamp only after an accepted *)
(* mail, no mail after a stamp, no stamp withdrawn.                        *)
ImplementsContract == Contract!Spec

-----------------------------------------------------------------------------
(* The inductive strengthening the proofs use. It holds when no live run   *)
(* loses its lock (~LockLoss), for any number of workers.                  *)

Marking(r) == r.pc \in {"markRead", "markWrite"}
Recording(r) == r.pc \in {"recordRead", "recordWrite"}
Sending(r) == r.pc = "send" \/ Marking(r) \/ Recording(r)

(* The run has still to settle kind k, and its snapshot told it to send. *)
Owes(r, k) == /\ Sending(r) /\ ~r.snap[k]
              /\ r.kind = k \/ k = "confirm"

(* The mail of kind k was accepted and its stamp is still to be written. *)
Unstamped(r, k) == Marking(r) /\ r.kind = k

(* Whoever runs a job holds its lock, so a lead has one run at a time. *)
RunsHoldTheLock ==
  \A w \in Workers : run[w].pc # "idle" => Holds(w, run[w].lead)

(* What a run works from is still true of its lead: the snapshot it may    *)
(* yet send on, the reason it read, and the mails it has not sent.         *)
RunIsCurrent(r) ==
  /\ Sending(r) => status[r.lead] # "none"
  /\ \A k \in Kinds :
       Owes(r, k) => ~sent[r.lead][k] /\ (Unstamped(r, k) \/ accepted[r.lead][k] <= faults)
  /\ (Marking(r) \/ Recording(r)) => ~r.snap[r.kind]
  /\ Marking(r) => accepted[r.lead][r.kind] > 0
  /\ (r.pc \in {"markWrite", "recordWrite"} /\ Stored(r.lead)) => r.read = reason[r.lead]

RunsAreCurrent == \A w \in Workers : RunIsCurrent(run[w])

(* A mail beyond the faults so far is stamped, about to be stamped, or its *)
(* lead is erased.                                                         *)
BeingStamped(l, k) == \E w \in Workers : run[w].lead = l /\ Unstamped(run[w], k)

MailsAreCounted ==
  \A l \in Leads, k \in Kinds :
     (status[l] # "erased" /\ ~sent[l][k] /\ ~BeingStamped(l, k)) => accepted[l][k] <= faults

DeliveryInv ==
  /\ TypeOK
  /\ RunsHoldTheLock
  /\ RunsAreCurrent
  /\ MailsAreCounted
  /\ StampMeansAccepted
  /\ DuplicatesNeedFaults
  /\ DeliveredShowsNoFailure
=============================================================================
