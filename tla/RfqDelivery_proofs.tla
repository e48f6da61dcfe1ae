------------------------- MODULE RfqDelivery_proofs -------------------------
(* Theorems about RfqDelivery, for every number of leads and workers. *)
EXTENDS RfqDelivery, TLAPS

(* The runs a worker starts from and moves on to are well-formed. *)
LEMMA RunsWellFormed ==
  /\ IdleRun \in RunType
  /\ \A r \in RunType : Onward(r) \in RunType
  /\ \A r \in RunType, e \in SendErrors : AfterFailure(r, e) \in RunType
<1>1. IdleRun \in RunType
  BY DeliveryAssumption DEF IdleRun, RunType, Leads, Kinds, Unsent, NoReason, Reasons
<1>2. ASSUME NEW r \in RunType PROVE Onward(r) \in RunType
  BY DEF Onward, RunType, Kinds, NoReason, Reasons
<1>3. ASSUME NEW r \in RunType, NEW e \in SendErrors PROVE AfterFailure(r, e) \in RunType
  <2>1. [r EXCEPT !.retry = TRUE] \in RunType
    BY DEF RunType
  <2>2. [[r EXCEPT !.retry = TRUE] EXCEPT !.pc = "recordRead", !.code = e] \in RunType
    BY <2>1 DEF RunType, Reasons, Codes
  <2>3. Onward([r EXCEPT !.retry = TRUE]) \in RunType
    BY <2>1, <1>2
  <2>4. QED BY <2>2, <2>3 DEF AfterFailure
<1>4. QED BY <1>1, <1>2, <1>3

(* A job record stays well-formed when a job is added or settled. *)
JobsTyped ==
  /\ jobState \in [Leads -> JobStates]
  /\ made \in [Leads -> 0 .. MaxAttempts]
  /\ stalls \in [Leads -> 0 .. (MaxStalls + 1)]
  /\ lock \in [Leads -> Workers \cup {NoWorker}]

LEMMA AddJobTyped ==
  ASSUME JobsTyped, NEW l \in Leads, AddJob(l)
  PROVE  JobsTyped'
<1>1. CASE jobState[l] = "none"
  BY <1>1, DeliveryAssumption DEF JobsTyped, AddJob, JobStates, Live
<1>2. CASE jobState[l] # "none"
  BY <1>2 DEF JobsTyped, AddJob, jobVars
<1>3. QED BY <1>1, <1>2

LEMMA SetJobTyped ==
  ASSUME JobsTyped, NEW l \in Leads, NEW s \in JobStates, SetJob(l, s)
  PROVE  /\ jobState' \in [Leads -> JobStates]
         /\ lock' \in [Leads -> Workers \cup {NoWorker}]
BY DEF JobsTyped, SetJob

(* Type correctness. *)
THEOREM TypeCorrect == Spec => []TypeOK
<1>1. Init => TypeOK
  BY DeliveryAssumption, RunsWellFormed
  DEF Init, TypeOK, RunType, IdleReplay, Unsent, NoReason, Reasons, Leads, Kinds, JobStates
<1>2. TypeOK /\ [Next]_vars => TypeOK'
  <2> SUFFICES ASSUME TypeOK, [Next]_vars PROVE TypeOK'
    OBVIOUS
  <2> USE DeliveryAssumption
  <2>1. ASSUME NEW l \in Leads, Submit(l) PROVE TypeOK'
    BY <2>1 DEF TypeOK, Submit, jobVars, envVars
  <2>2. ASSUME NEW l \in Leads, AddLands(l) PROVE TypeOK'
    <3>1. JobsTyped'
      BY <2>2, AddJobTyped DEF TypeOK, JobsTyped, AddLands
    <3>2. QED BY <2>2, <3>1 DEF TypeOK, JobsTyped, AddLands, rowVars, envVars
  <2>3. ASSUME NEW l \in Leads, AddLost(l) PROVE TypeOK'
    BY <2>3 DEF TypeOK, AddLost, rowVars, jobVars, envVars
  <2>4. ASSUME NEW l \in Leads, Grow(l) PROVE TypeOK'
    BY <2>4 DEF TypeOK, Grow, Older, rowVars, jobVars, envVars
  <2>5. ASSUME NEW l \in Leads, Erase(l) PROVE TypeOK'
    BY <2>5 DEF TypeOK, Erase, Unsent, NoReason, Reasons, jobVars, envVars
  <2>6. ASSUME NEW l \in Leads, Promote(l) PROVE TypeOK'
    BY <2>6 DEF TypeOK, Promote, SetJob, JobStates, Live, rowVars, envVars
  <2>7. ASSUME NEW l \in Leads, ExpireJob(l) PROVE TypeOK'
    BY <2>7 DEF TypeOK, ExpireJob, SetJob, JobStates, Live, rowVars, envVars
  <2>8. ASSUME NEW l \in Leads, Stall(l) PROVE TypeOK'
    BY <2>8 DEF TypeOK, Stall, SetJob, JobStates, Live, rowVars, envVars
  <2>9. ASSUME NEW l \in Leads, Retry(l) PROVE TypeOK'
    BY <2>9 DEF TypeOK, Retry, SetJob, JobStates, Live, rowVars, envVars
  <2>10. ASSUME NEW l \in Leads, ReplayStep(l) \/ ReplayError(l) PROVE TypeOK'
    <3>1. PastLead(l) \in [pc : {"idle", "look", "remove", "add"}, todo : SUBSET Leads]
      BY DEF PastLead, IdleReplay, TypeOK
    <3>2. CASE ReplayLook(l)
      BY <3>1, <3>2 DEF TypeOK, ReplayLook, NextReplayStep, rowVars, jobVars, envVars
    <3>3. CASE ReplayRemove(l)
      BY ZenonT(40), <3>1, <3>3 DEF TypeOK, ReplayRemove, SetJob, JobStates, Live, rowVars, envVars
    <3>4. CASE ReplayAdd(l)
      <4>1. JobsTyped'
        BY <3>4, AddJobTyped DEF TypeOK, JobsTyped, ReplayAdd
      <4>2. QED BY <3>1, <3>4, <4>1 DEF TypeOK, JobsTyped, ReplayAdd, rowVars, envVars
    <3>5. CASE ReplayError(l)
      <4>1. replay' \in [pc : {"idle", "look", "remove", "add"}, todo : SUBSET Leads]
        BY <3>1, <3>5 DEF ReplayError, IdleReplay
      <4>2. QED BY <3>5, <4>1 DEF TypeOK, ReplayError, rowVars, jobVars, envVars
    <3>6. QED BY <2>10, <3>2, <3>3, <3>4, <3>5 DEF ReplayStep
  <2>11. ASSUME NEW w \in Workers, NEW l \in Leads, Take(w, l) PROVE TypeOK'
    <3>1. [IdleRun EXCEPT !.pc = "find", !.lead = l, !.final = IsFinalAttempt(made[l])] \in RunType
      <4>1. IsFinalAttempt(made[l]) \in BOOLEAN
        BY DEF IsFinalAttempt
      <4>2. QED BY <4>1, RunsWellFormed DEF RunType
    <3>2. QED BY <2>11, <3>1 DEF TypeOK, RunType, Take, JobStates, Live, rowVars, envVars
  <2>12. ASSUME NEW w \in Workers, WorkerStep(w) \/ SendUnanswered(w) \/ DbFails(w) PROVE TypeOK'
    <3>1. run[w] \in RunType
      BY DEF TypeOK, RunType
    <3>2. Onward(run[w]) \in RunType
      BY <3>1, RunsWellFormed
    <3>3. ASSUME NEW r \in RunType, Goto(w, r)
          PROVE run' \in [Workers -> RunType] /\ UNCHANGED <<age, adding, jobVars, envVars, replay>>
      BY <3>3 DEF Goto, TypeOK, RunType
    <3>4. CASE Find(w)
      <4>1. \E r \in RunType : Goto(w, r)
        BY <3>1, <3>4 DEF Find, RunType, TypeOK
      <4>2. QED BY ZenonT(40), <3>3, <3>4, <4>1 DEF Find, TypeOK, RunType, rowVars, jobVars, envVars
    <3>5. CASE AlreadySent(w)
      BY ZenonT(40), <3>2, <3>3, <3>5 DEF AlreadySent, TypeOK, RunType, rowVars, jobVars, envVars
    <3>6. CASE SendUnconfigured(w)
      <4>1. \E r \in RunType : Goto(w, r)
        BY <3>1, <3>6 DEF SendUnconfigured, RunType, Reasons, Codes
      <4>2. QED BY ZenonT(40), <3>3, <3>6, <4>1
            DEF SendUnconfigured, TypeOK, RunType, rowVars, jobVars, envVars
    <3>7. ASSUME ProviderAccepts(w) PROVE accepted' \in [Leads -> [Kinds -> Nat]]
      <4>1. /\ run[w].lead \in Leads
            /\ run[w].kind \in Kinds
        BY <3>1 DEF RunType
      <4>2. accepted[run[w].lead][run[w].kind] + 1 \in Nat
        BY <4>1 DEF TypeOK
      <4>3. QED BY <3>7, <4>1, <4>2 DEF ProviderAccepts, TypeOK
    <3>8. CASE SendAccepted(w)
      <4>1. \E r \in RunType : Goto(w, r)
        BY <3>1, <3>8 DEF SendAccepted, RunType
      <4>2. QED BY <3>3, <3>7, <3>8, <4>1
            DEF SendAccepted, TypeOK, RunType, rowVars, jobVars, envVars
    <3>9. CASE SendRefused(w)
      <4>1. \E r \in RunType : Goto(w, r)
        BY <3>1, <3>9, RunsWellFormed DEF SendRefused
      <4>2. QED BY ZenonT(40), <3>3, <3>9, <4>1
            DEF SendRefused, TypeOK, RunType, rowVars, jobVars, envVars
    <3>10. CASE SendUnanswered(w)
      <4>1. \E r \in RunType : Goto(w, r)
        BY <3>1, <3>10, RunsWellFormed DEF SendUnanswered
      <4>2. faults' \in 0 .. MaxFaults
        BY <3>10 DEF SendUnanswered, TypeOK
      <4>3. QED BY ZenonT(40), <3>3, <3>7, <3>10, <4>1, <4>2
            DEF SendUnanswered, TypeOK, RunType, rowVars, jobVars, envVars
    <3>11. CASE MarkRead(w) \/ RecordRead(w)
      <4>1. \E r \in RunType : Goto(w, r)
        BY <3>1, <3>11 DEF MarkRead, RecordRead, ReadReason, RunType, NoReason, Reasons, TypeOK
      <4>2. QED BY ZenonT(40), <3>3, <3>11, <4>1
            DEF MarkRead, RecordRead, ReadReason, TypeOK, RunType, rowVars, jobVars, envVars
    <3>12. CASE MarkWrite(w)
      <4>1. \E r \in RunType : Goto(w, r)
        BY <3>1, <3>2, <3>12 DEF MarkWrite, RunType
      <4>2. sent' \in [Leads -> [Kinds -> BOOLEAN]] /\ reason' \in [Leads -> [Kinds -> Reasons]]
        <5>1. CASE Stored(run[w].lead)
          <6>1. run[w].lead \in Leads /\ run[w].kind \in Kinds /\ run[w].read \in [Kinds -> Reasons]
            BY <3>1 DEF RunType
          <6>2. Without(run[w].read, run[w].kind) \in [Kinds -> Reasons]
            BY <6>1 DEF Without, Reasons
          <6>3. reason' \in [Leads -> [Kinds -> Reasons]]
            BY ZenonT(40), <3>12, <5>1, <6>1, <6>2 DEF MarkWrite, Stored, TypeOK
          <6>4. sent' \in [Leads -> [Kinds -> BOOLEAN]]
            <7>1. [sent[run[w].lead] EXCEPT ![run[w].kind] = TRUE] \in [Kinds -> BOOLEAN]
              BY <6>1 DEF TypeOK
            <7>2. sent' = [sent EXCEPT ![run[w].lead] =
                             [sent[run[w].lead] EXCEPT ![run[w].kind] = TRUE]]
              BY <3>12, <5>1 DEF MarkWrite, Stored
            <7>3. QED BY <6>1, <7>1, <7>2 DEF TypeOK
          <6>5. QED BY <6>3, <6>4
        <5>2. CASE ~Stored(run[w].lead)
          BY <3>12, <5>2 DEF MarkWrite, Stored, TypeOK
        <5>3. QED BY <5>1, <5>2
      <4>3. QED BY ZenonT(40), <3>3, <3>12, <4>1, <4>2
            DEF MarkWrite, TypeOK, RunType, jobVars, envVars
    <3>13. CASE RecordWrite(w)
      <4>1. \E r \in RunType : Goto(w, r)
        BY <3>1, <3>2, <3>13 DEF RecordWrite, RunType
      <4>2. reason' \in [Leads -> [Kinds -> Reasons]]
        <5>1. CASE Stored(run[w].lead)
          <6>1. /\ run[w].lead \in Leads /\ run[w].kind \in Kinds
                /\ run[w].read \in [Kinds -> Reasons] /\ run[w].code \in Reasons
            BY <3>1 DEF RunType
          <6>2. With(run[w].read, run[w].kind, run[w].code) \in [Kinds -> Reasons]
            BY <6>1 DEF With
          <6>3. QED BY ZenonT(40), <3>13, <5>1, <6>1, <6>2 DEF RecordWrite, Stored, TypeOK
        <5>2. CASE ~Stored(run[w].lead)
          BY <3>13, <5>2 DEF RecordWrite, Stored, TypeOK
        <5>3. QED BY <5>1, <5>2
      <4>3. QED BY ZenonT(40), <3>3, <3>13, <4>1, <4>2
            DEF RecordWrite, TypeOK, RunType, jobVars, envVars
    <3>14. CASE DbFails(w)
      <4>1. \E r \in RunType : Goto(w, r)
        BY <3>1, <3>14 DEF DbFails, RunType
      <4>2. faults' \in 0 .. MaxFaults
        BY <3>14 DEF DbFails, TypeOK
      <4>3. QED BY ZenonT(40), <3>3, <3>14, <4>1, <4>2
            DEF DbFails, TypeOK, RunType, rowVars, jobVars, envVars
    <3>15. CASE Complete(w) \/ Fail(w)
      <4>1. run' \in [Workers -> RunType]
        BY ZenonT(40), <3>15, RunsWellFormed DEF Complete, Fail, EndRun, TypeOK, RunType
      <4>2. run[w].lead \in Leads
        BY <3>1 DEF RunType
      <4>3. JobsTyped'
        <5>1. JobsTyped
          BY DEF TypeOK, JobsTyped
        <5>2. CASE Complete(w)
          BY <4>2, <5>1, <5>2, SetJobTyped DEF Complete, EndRun, JobsTyped, JobStates, Live
        <5>3. CASE Fail(w)
          <6>1. CASE Holds(w, run[w].lead)
            <7>1. made' \in [Leads -> 0 .. MaxAttempts]
              BY <4>2, <5>1, <5>3, <6>1 DEF Fail, JobsTyped
            <7>2. AfterAttempt(made[run[w].lead]) \in JobStates
              BY DEF AfterAttempt, JobStates, Live
            <7>3. QED BY <4>2, <5>1, <5>3, <6>1, <7>1, <7>2, SetJobTyped
                      DEF Fail, EndRun, JobsTyped
          <6>2. CASE ~Holds(w, run[w].lead)
            BY <5>1, <5>3, <6>2 DEF Fail, EndRun, JobsTyped
          <6>3. QED BY <6>1, <6>2
        <5>4. QED BY <3>15, <5>2, <5>3
      <4>4. QED BY <3>15, <4>1, <4>3
            DEF Complete, Fail, EndRun, JobsTyped, TypeOK, rowVars, envVars
    <3>16. QED BY <2>12, <3>4, <3>5, <3>6, <3>8, <3>9, <3>10, <3>11, <3>12, <3>13, <3>14, <3>15
           DEF WorkerStep
  <2>13. ASSUME NEW w \in Workers, Crash(w) PROVE TypeOK'
    BY <2>13, RunsWellFormed DEF TypeOK, RunType, Crash, rowVars, jobVars
  <2>14. ASSUME NEW w \in Workers, Restart(w) PROVE TypeOK'
    BY <2>14 DEF TypeOK, Restart, rowVars, jobVars
  <2>15. CASE SetRecipient
    BY <2>15 DEF TypeOK, SetRecipient, rowVars, jobVars
  <2>16. CASE ReplayStart
    BY <2>16 DEF TypeOK, ReplayStart, ReplayList, Oldest, Awaiting, rowVars, jobVars, envVars
  <2>17. CASE UNCHANGED vars
    BY <2>17 DEF TypeOK, vars, rowVars, jobVars, envVars
  <2>18. QED BY <2>1, <2>2, <2>3, <2>4, <2>5, <2>6, <2>7, <2>8, <2>9, <2>10, <2>11, <2>12,
                <2>13, <2>14, <2>15, <2>16, <2>17 DEF Next
<1>3. QED BY <1>1, <1>2, PTL DEF Spec

-----------------------------------------------------------------------------
(* A job is run by one worker at a time, whatever the number of workers.   *)

(* The steps of a worker's run, which leave every other run alone. *)
LEMMA RunStepIsLocal ==
  ASSUME TypeOK, NEW w \in Workers, WorkerStep(w) \/ SendUnanswered(w) \/ DbFails(w)
  PROVE  \A v \in Workers \ {w} : run'[v] = run[v]
<1>1. \A r : Goto(w, r) => \A v \in Workers \ {w} : run'[v] = run[v]
  BY DEF Goto, TypeOK
<1>2. EndRun(w) => \A v \in Workers \ {w} : run'[v] = run[v]
  BY DEF EndRun, TypeOK
<1>3. QED BY <1>1, <1>2
  DEF WorkerStep, Find, AlreadySent, SendUnconfigured, SendAccepted, SendRefused, SendUnanswered,
      MarkRead, RecordRead, ReadReason, MarkWrite, RecordWrite, DbFails, Complete, Fail

(* A run in progress stays on its lead until it ends. *)
LEMMA RunStaysOnLead ==
  ASSUME TypeOK, NEW w \in Workers, WorkerStep(w) \/ SendUnanswered(w) \/ DbFails(w)
  PROVE  /\ run[w].pc # "idle"
         /\ \/ run'[w].pc = "idle"
            \/ run'[w].lead = run[w].lead /\ UNCHANGED jobVars
<1>1. run[w] \in RunType
  BY DEF TypeOK
<1>2. \A r : Goto(w, r) => run'[w] = r /\ UNCHANGED jobVars
  BY DEF Goto, TypeOK
<1>3. Onward(run[w]).lead = run[w].lead
  BY <1>1 DEF Onward, RunType
<1>4. \A e \in SendErrors : AfterFailure(run[w], e).lead = run[w].lead
  BY <1>1 DEF AfterFailure, Onward, RunType
<1>5. CASE Find(w)
  <2>1. run'[w].lead = run[w].lead
    BY <1>1, <1>5 DEF Find, RunType, TypeOK, Goto
  <2>2. UNCHANGED jobVars /\ run[w].pc # "idle"
    BY <1>5 DEF Find, RunType, TypeOK, Goto
  <2>3. QED BY <2>1, <2>2
<1>6. CASE AlreadySent(w)
  BY <1>2, <1>3, <1>6 DEF AlreadySent
<1>7. CASE SendUnconfigured(w)
  <2>1. run'[w].lead = run[w].lead
    BY <1>1, <1>7 DEF SendUnconfigured, RunType, TypeOK, Goto
  <2>2. UNCHANGED jobVars /\ run[w].pc # "idle"
    BY <1>7 DEF SendUnconfigured, Goto
  <2>3. QED BY <2>1, <2>2
<1>16. CASE SendAccepted(w)
  <2>1. run'[w].lead = run[w].lead
    BY <1>1, <1>16 DEF SendAccepted, CanSend, RunType, TypeOK, Goto
  <2>2. UNCHANGED jobVars /\ run[w].pc # "idle"
    BY <1>16 DEF SendAccepted, CanSend, Goto
  <2>3. QED BY <2>1, <2>2
<1>8. CASE SendRefused(w)
  BY <1>2, <1>4, <1>8 DEF SendRefused, CanSend
<1>9. CASE SendUnanswered(w)
  BY <1>2, <1>4, <1>9, DeliveryAssumption DEF SendUnanswered, CanSend
<1>10. CASE MarkRead(w)
  <2>1. run'[w].lead = run[w].lead
    BY <1>1, <1>10 DEF MarkRead, ReadReason, RunType, TypeOK, Goto
  <2>2. UNCHANGED jobVars /\ run[w].pc # "idle"
    BY <1>10 DEF MarkRead, ReadReason, Goto
  <2>3. QED BY <2>1, <2>2
<1>17. CASE RecordRead(w)
  <2>1. run'[w].lead = run[w].lead
    BY <1>1, <1>17 DEF RecordRead, ReadReason, RunType, TypeOK, Goto
  <2>2. UNCHANGED jobVars /\ run[w].pc # "idle"
    BY <1>17 DEF RecordRead, ReadReason, Goto
  <2>3. QED BY <2>1, <2>2
<1>11. CASE MarkWrite(w)
  BY <1>1, <1>2, <1>3, <1>11 DEF MarkWrite, RunType
<1>12. CASE RecordWrite(w)
  BY <1>1, <1>2, <1>3, <1>12 DEF RecordWrite, RunType
<1>13. CASE DbFails(w)
  BY <1>1, <1>2, <1>13 DEF DbFails, RunType
<1>14. CASE Complete(w) \/ Fail(w)
  BY <1>14 DEF Complete, Fail, EndRun, IdleRun, TypeOK
<1>15. QED BY <1>5, <1>6, <1>7, <1>8, <1>9, <1>10, <1>11, <1>12, <1>13, <1>14, <1>16, <1>17 DEF WorkerStep

(* Two runs of the same lead are the same run. *)
LEMMA OneRunPerLead ==
  ASSUME RunsHoldTheLock, NEW w \in Workers, NEW v \in Workers,
         run[w].pc # "idle", run[v].pc # "idle", run[w].lead = run[v].lead
  PROVE  w = v
BY DEF RunsHoldTheLock, Holds

(* Settling a job that no worker is running leaves every run its lock. *)
LEMMA SettleIdleJob ==
  ASSUME TypeOK, RunsHoldTheLock, NEW l \in Leads, NEW s \in JobStates, SetJob(l, s),
         UNCHANGED run, \A w \in Workers : ~Running(w, l)
  PROVE  RunsHoldTheLock'
BY SMTT(20) DEF RunsHoldTheLock, Holds, SetJob, Running, TypeOK

LEMMA LockStep ==
  ASSUME ~LockLoss, TypeOK, RunsHoldTheLock, [Next]_vars
  PROVE  RunsHoldTheLock'
<1>1. ASSUME UNCHANGED <<jobState, lock, run>> PROVE RunsHoldTheLock'
  BY <1>1 DEF RunsHoldTheLock, Holds
<1>2. ASSUME NEW l \in Leads, jobState[l] # "active" PROVE \A w \in Workers : ~Running(w, l)
  BY <1>2 DEF RunsHoldTheLock, Holds, Running
<1>3. ASSUME NEW l \in Leads, AddJob(l), UNCHANGED run PROVE RunsHoldTheLock'
  <2>1. CASE jobState[l] = "none"
    <3>1. \A w \in Workers : run[w].pc # "idle" => run[w].lead \in Leads \ {l}
      BY <1>2, <2>1 DEF Running, TypeOK, RunType
    <3>2. /\ UNCHANGED <<lock, run>>
          /\ \A m \in Leads \ {l} : jobState'[m] = jobState[m]
      BY <1>3, <2>1 DEF AddJob, TypeOK
    <3>3. QED BY <3>1, <3>2 DEF RunsHoldTheLock, Holds
  <2>2. CASE jobState[l] # "none"
    BY <1>1, <1>3, <2>2 DEF AddJob, jobVars
  <2>3. QED BY <2>1, <2>2
<1>4. ASSUME NEW l \in Leads, Submit(l) \/ AddLost(l) \/ Grow(l) \/ Erase(l)
      PROVE RunsHoldTheLock'
  BY <1>1, <1>4 DEF Submit, AddLost, Grow, Erase, jobVars
<1>5. ASSUME NEW l \in Leads, AddLands(l) \/ ReplayAdd(l) PROVE RunsHoldTheLock'
  BY <1>3, <1>5 DEF AddLands, ReplayAdd
<1>6. ASSUME NEW l \in Leads, Promote(l) \/ ExpireJob(l) \/ Retry(l) PROVE RunsHoldTheLock'
  BY <1>2, <1>6, SettleIdleJob DEF Promote, ExpireJob, Retry, JobStates, Live
<1>7. ASSUME NEW l \in Leads, Stall(l) PROVE RunsHoldTheLock'
  <2>1. \A w \in Workers : ~Running(w, l)
    BY <1>7 DEF Stall, RunsHoldTheLock, Holds, Running
  <2>2. QED BY <1>7, <2>1, SettleIdleJob DEF Stall, JobStates, Live
<1>8. ASSUME NEW l \in Leads, ReplayRemove(l) PROVE RunsHoldTheLock'
  <2>1. CASE jobState[l] = "active"
    BY <1>1, <1>8, <2>1 DEF ReplayRemove
  <2>2. CASE jobState[l] # "active"
    BY <1>2, <1>8, <2>2, SettleIdleJob DEF ReplayRemove, JobStates, Live
  <2>3. QED BY <2>1, <2>2
<1>9. ASSUME NEW l \in Leads, ReplayLook(l) \/ ReplayError(l) PROVE RunsHoldTheLock'
  BY <1>1, <1>9 DEF ReplayLook, ReplayError, jobVars
<1>10. ASSUME NEW w \in Workers, NEW l \in Leads, Take(w, l) PROVE RunsHoldTheLock'
  <2>1. \A v \in Workers : ~Running(v, l)
    BY <1>2, <1>10 DEF Take
  <2>2. run'[w].lead = l /\ \A v \in Workers \ {w} : run'[v] = run[v]
    BY <1>10 DEF Take, TypeOK, IdleRun
  <2>3. /\ jobState'[l] = "active" /\ lock'[l] = w
        /\ \A m \in Leads \ {l} : jobState'[m] = jobState[m] /\ lock'[m] = lock[m]
    BY <1>10 DEF Take, TypeOK
  <2>4. \A v \in Workers : run[v].lead \in Leads
    BY DEF TypeOK, RunType
  <2>5. QED BY <2>1, <2>2, <2>3, <2>4 DEF RunsHoldTheLock, Holds, Running
<1>11. ASSUME NEW w \in Workers, WorkerStep(w) \/ SendUnanswered(w) \/ DbFails(w)
       PROVE RunsHoldTheLock'
  <2>1. \A v \in Workers \ {w} : run'[v] = run[v]
    BY <1>11, RunStepIsLocal
  <2>2. CASE run'[w].lead = run[w].lead /\ UNCHANGED jobVars
    BY <1>11, <2>1, <2>2, RunStaysOnLead DEF RunsHoldTheLock, Holds, jobVars
  <2>3. CASE run'[w].pc = "idle"
    <3>1. CASE UNCHANGED <<jobState, lock>>
      BY <2>1, <2>3, <3>1 DEF RunsHoldTheLock, Holds
    <3>2. CASE Complete(w) \/ Fail(w)
      <4>1. \/ UNCHANGED <<jobState, lock>>
            \/ /\ Holds(w, run[w].lead)
               /\ \A m \in Leads \ {run[w].lead} : jobState'[m] = jobState[m] /\ lock'[m] = lock[m]
        BY <3>2 DEF Complete, Fail, SetJob, TypeOK
      <4>2. \A v \in Workers \ {w} : run[v].pc # "idle" => run[v].lead \in Leads \ {run[w].lead}
        BY <1>11, RunStaysOnLead, OneRunPerLead DEF TypeOK, RunType
      <4>3. QED BY <2>1, <2>3, <3>1, <4>1, <4>2 DEF RunsHoldTheLock, Holds
    <3>3. CASE ~(Complete(w) \/ Fail(w))
      <4>1. \E r : Goto(w, r)
        BY <1>11, <3>3 DEF WorkerStep, Find, AlreadySent, SendUnconfigured, SendAccepted,
           SendRefused, SendUnanswered, MarkRead, RecordRead, ReadReason, MarkWrite, RecordWrite,
           DbFails
      <4>2. QED BY <3>1, <4>1 DEF Goto, jobVars
    <3>4. QED BY <3>2, <3>3
  <2>4. QED BY <1>11, <2>2, <2>3, RunStaysOnLead
<1>12. ASSUME NEW w \in Workers, Crash(w) PROVE RunsHoldTheLock'
  BY <1>12 DEF Crash, IdleRun, RunsHoldTheLock, Holds, TypeOK, jobVars
<1>13. ASSUME NEW w \in Workers, Restart(w) PROVE RunsHoldTheLock'
  BY <1>1, <1>13 DEF Restart, jobVars
<1>14. CASE SetRecipient \/ ReplayStart
  BY <1>1, <1>14 DEF SetRecipient, ReplayStart, jobVars
<1>15. CASE UNCHANGED vars
  BY <1>1, <1>15 DEF vars, jobVars
<1>16. QED BY <1>4, <1>5, <1>6, <1>7, <1>8, <1>9, <1>10, <1>11, <1>12, <1>13, <1>14, <1>15
       DEF Next, ReplayStep

-----------------------------------------------------------------------------
(* The mail ledger: what is stamped was accepted, what was accepted once   *)
(* too often is paid for by a fault, what is stamped shows no failure.     *)

Ledger ==
  /\ RunsAreCurrent
  /\ MailsAreCounted
  /\ StampMeansAccepted
  /\ DuplicatesNeedFaults
  /\ DeliveredShowsNoFailure

(* The ledger speaks of the rows, the runs and the mails only. *)
LEMMA QuietStep ==
  ASSUME Ledger, UNCHANGED <<status, sent, reason, run, accepted, faults>>
  PROVE  Ledger'
BY DEF Ledger, RunsAreCurrent, RunIsCurrent, Sending, Marking, Recording, Owes, Unstamped, Stored,
   MailsAreCounted, BeingStamped, StampMeansAccepted, DuplicatesNeedFaults, DeliveredShowsNoFailure

(* A step of one run, which touches its own lead only, keeps every other   *)
(* run current: no two runs share a lead.                                  *)
LEMMA OthersStayCurrent ==
  ASSUME TypeOK, TypeOK', RunsHoldTheLock, RunsAreCurrent, NEW w \in Workers,
         run[w].pc # "idle", faults <= faults',
         \A v \in Workers \ {w} : run'[v] = run[v],
         \A m \in Leads \ {run[w].lead} :
            /\ status'[m] = status[m] /\ sent'[m] = sent[m]
            /\ reason'[m] = reason[m] /\ accepted'[m] = accepted[m]
  PROVE  \A v \in Workers \ {w} : RunIsCurrent(run[v])'
<1> SUFFICES ASSUME NEW v \in Workers \ {w} PROVE RunIsCurrent(run[v])'
  OBVIOUS
<1>1. run'[v] = run[v] /\ RunIsCurrent(run[v]) /\ run[v].lead \in Leads
  BY DEF RunsAreCurrent, TypeOK, RunType
<1>2. CASE run[v].pc = "idle"
  BY <1>1, <1>2 DEF RunIsCurrent, Sending, Marking, Recording, Owes
<1>3. CASE run[v].pc # "idle"
  <2>1. run[v].lead \in Leads \ {run[w].lead}
    BY <1>1, <1>3, OneRunPerLead
  <2>2. /\ status'[run[v].lead] = status[run[v].lead] /\ sent'[run[v].lead] = sent[run[v].lead]
        /\ reason'[run[v].lead] = reason[run[v].lead]
        /\ accepted'[run[v].lead] = accepted[run[v].lead]
    BY <2>1
  <2>3. \A k \in Kinds : accepted[run[v].lead][k] \in Nat /\ faults \in Nat /\ faults' \in Nat
    BY <1>1, DeliveryAssumption DEF TypeOK
  <2>4. QED BY <1>1, <2>2, <2>3
        DEF RunIsCurrent, Sending, Marking, Recording, Owes, Unstamped, Stored, RunType
<1>4. QED BY <1>2, <1>3

(* A step that changes neither rows nor mails keeps the ledger if the run  *)
(* that makes it stays current and either still owes its stamp or is       *)
(* charged a fault.                                                        *)
LEMMA RunOnlyStep ==
  ASSUME TypeOK, TypeOK', RunsHoldTheLock, Ledger, NEW w \in Workers,
         UNCHANGED <<status, sent, reason, accepted>>,
         \A v \in Workers \ {w} : run'[v] = run[v],
         RunIsCurrent(run[w])',
         \/ faults' = faults + 1
         \/ /\ faults' = faults
            /\ \A k \in Kinds : Unstamped(run[w], k)
                  => Unstamped(run'[w], k) /\ run'[w].lead = run[w].lead
  PROVE  Ledger'
<1>1. faults \in Nat /\ faults' \in Nat /\ faults <= faults'
  BY DeliveryAssumption DEF TypeOK
<1>2. RunsAreCurrent'
  <2>1. ASSUME NEW v \in Workers \ {w} PROVE RunIsCurrent(run[v])'
    <3>1. RunIsCurrent(run[v]) /\ run'[v] = run[v] /\ run[v].lead \in Leads
      BY DEF Ledger, RunsAreCurrent, TypeOK, RunType
    <3>2. \A k \in Kinds : accepted[run[v].lead][k] \in Nat
      BY <3>1 DEF TypeOK
    <3>3. QED BY <1>1, <3>1, <3>2
          DEF RunIsCurrent, Sending, Marking, Recording, Owes, Unstamped, Stored
  <2>2. QED BY <2>1 DEF RunsAreCurrent
<1>3. MailsAreCounted'
  <2> SUFFICES ASSUME NEW l \in Leads, NEW k \in Kinds,
                      status[l] # "erased", ~sent[l][k], ~BeingStamped(l, k)'
               PROVE  accepted[l][k] <= faults'
    BY DEF MailsAreCounted
  <2>1. accepted[l][k] \in Nat /\ accepted[l][k] <= 1 + faults
    BY DEF TypeOK, Ledger, DuplicatesNeedFaults
  <2>2. CASE faults' = faults + 1
    BY <1>1, <2>1, <2>2
  <2>3. CASE /\ faults' = faults
             /\ \A j \in Kinds : Unstamped(run[w], j)
                  => Unstamped(run'[w], j) /\ run'[w].lead = run[w].lead
    <3>1. ~BeingStamped(l, k)
      BY <2>3 DEF BeingStamped, Unstamped, Marking
    <3>2. QED BY <2>3, <3>1 DEF Ledger, MailsAreCounted
  <2>4. QED BY <2>2, <2>3
<1>4. StampMeansAccepted' /\ DeliveredShowsNoFailure'
  BY DEF Ledger, StampMeansAccepted, DeliveredShowsNoFailure
<1>5. DuplicatesNeedFaults'
  <2>1. \A l \in Leads, k \in Kinds : accepted[l][k] \in Nat
    BY DEF TypeOK
  <2>2. QED BY <1>1, <2>1 DEF Ledger, DuplicatesNeedFaults
<1>6. QED BY <1>2, <1>3, <1>4, <1>5 DEF Ledger

(* A run outside the send flow owes nothing. *)
LEMMA RestingRunIsCurrent ==
  ASSUME NEW w \in Workers, run'[w].pc \in {"idle", "find", "finish", "throw"}
  PROVE  RunIsCurrent(run[w])'
BY DEF RunIsCurrent, Sending, Marking, Recording, Owes

(* Moving on to the next kind: only the confirmation can still be owed. *)
LEMMA OnwardIsCurrent ==
  ASSUME NEW w \in Workers, NEW r \in RunType, run'[w] = Onward(r),
         status'[r.lead] # "none",
         (r.kind = "notify" /\ ~r.snap["confirm"])
            => ~sent'[r.lead]["confirm"] /\ accepted'[r.lead]["confirm"] <= faults'
  PROVE  RunIsCurrent(run[w])'
<1>1. CASE r.kind = "notify"
  <2>1. /\ run'[w].pc = "send" /\ run'[w].kind = "confirm"
        /\ run'[w].lead = r.lead /\ run'[w].snap = r.snap
    BY <1>1 DEF Onward, RunType
  <2>2. QED BY <1>1, <2>1 DEF RunIsCurrent, Sending, Marking, Recording, Owes, Unstamped
<1>2. CASE r.kind # "notify"
  <2>1. run'[w].pc = "finish"
    BY <1>2 DEF Onward, RunType
  <2>2. QED BY <2>1, RestingRunIsCurrent
<1>3. QED BY <1>1, <1>2

(* A failed send leaves the run current: either it is recorded or it is    *)
(* left to the next attempt.                                               *)
LEMMA AfterFailureIsCurrent ==
  ASSUME TypeOK, RunsAreCurrent, NEW w \in Workers, NEW e \in SendErrors, CanSend(w),
         run'[w] = AfterFailure(run[w], e),
         UNCHANGED <<status, sent>>,
         \A k \in Kinds : Owes(run[w], k) => accepted'[run[w].lead][k] <= faults'
  PROVE  RunIsCurrent(run[w])'
<1> DEFINE r == run[w]
           f == [r EXCEPT !.retry = TRUE]
<1>1. r \in RunType /\ f \in RunType
  <2>1. r \in RunType
    BY DEF TypeOK
  <2>2. f \in RunType
    BY <2>1 DEF RunType
  <2>3. QED BY <2>1, <2>2
<1>2. RunIsCurrent(r) /\ Sending(r) /\ ~r.snap[r.kind]
  <2>1. RunIsCurrent(r)
    BY DEF RunsAreCurrent
  <2>2. Sending(r) /\ ~r.snap[r.kind]
    BY DEF CanSend, Sending
  <2>3. QED BY <2>1, <2>2
<1>3. f.lead = r.lead /\ f.kind = r.kind /\ f.snap = r.snap
  BY <1>1 DEF RunType
<1>4. \A k \in Kinds : Owes(r, k) => ~sent'[r.lead][k] /\ accepted'[r.lead][k] <= faults'
  BY <1>2 DEF RunIsCurrent
<1>5. status'[r.lead] # "none"
  BY <1>2 DEF RunIsCurrent
<1>6. CASE r.final
  <2>1. /\ run'[w].pc = "recordRead" /\ run'[w].lead = r.lead
        /\ run'[w].kind = r.kind /\ run'[w].snap = r.snap
    BY <1>1, <1>6 DEF AfterFailure, RunType
  <2>2. \A k \in Kinds : Owes(run'[w], k) => Owes(r, k)
    BY <1>2, <2>1 DEF Owes
  <2>3. QED BY <1>2, <1>4, <1>5, <2>1, <2>2 DEF RunIsCurrent, Marking, Recording
<1>7. CASE ~r.final
  <2>1. run'[w] = Onward(f)
    BY <1>7 DEF AfterFailure
  <2>2. (f.kind = "notify" /\ ~f.snap["confirm"])
          => ~sent'[f.lead]["confirm"] /\ accepted'[f.lead]["confirm"] <= faults'
    BY <1>2, <1>3, <1>4 DEF Owes, Kinds
  <2>3. QED BY <1>1, <1>3, <1>5, <2>1, <2>2, OnwardIsCurrent
<1>8. QED BY <1>6, <1>7

(* The steps of a run that change neither the row nor the mails. *)
LEMMA SilentRunSteps ==
  ASSUME TypeOK, TypeOK', RunsHoldTheLock, Ledger, NEW w \in Workers,
         \/ Find(w) \/ AlreadySent(w) \/ SendUnconfigured(w) \/ SendRefused(w)
         \/ MarkRead(w) \/ RecordRead(w) \/ DbFails(w) \/ Complete(w) \/ Fail(w)
  PROVE  Ledger'
<1> DEFINE r == run[w]
           l == run[w].lead
<1>1. r \in RunType /\ l \in Leads /\ r.kind \in Kinds /\ RunIsCurrent(r)
  BY DEF TypeOK, RunType, Ledger, RunsAreCurrent
<1>2. \A v \in Workers \ {w} : run'[v] = run[v]
  BY RunStepIsLocal DEF WorkerStep
<1>3. faults \in Nat /\ \A m \in Leads, k \in Kinds : accepted[m][k] \in Nat
  BY DeliveryAssumption DEF TypeOK
<1>4. CASE Find(w)
  <2>1. UNCHANGED <<status, sent, reason, accepted, faults>> /\ ~Marking(r)
    BY <1>4 DEF Find, rowVars, Marking
  <2>2. RunIsCurrent(run[w])'
    <3>1. CASE Stored(l)
      <4>1. run'[w].pc = "send" /\ run'[w].lead = l /\ run'[w].snap = sent[l]
        BY <1>1, <1>4, <3>1 DEF Find, Goto, Stored, TypeOK, RunType
      <4>2. ASSUME NEW k \in Kinds, Owes(run'[w], k)
            PROVE  ~sent[l][k] /\ accepted[l][k] <= faults
        <5>1. ~sent[l][k]
          BY <4>1, <4>2 DEF Owes
        <5>2. ~BeingStamped(l, k)
          <6>1. ASSUME NEW v \in Workers, run[v].lead = l, Unstamped(run[v], k) PROVE FALSE
            <7>1. v = w
              BY <1>4, <6>1, OneRunPerLead DEF Unstamped, Marking, Find
            <7>2. QED BY <2>1, <6>1, <7>1 DEF Unstamped
          <6>2. QED BY <6>1 DEF BeingStamped
        <5>3. QED BY <1>1, <3>1, <5>1, <5>2 DEF Ledger, MailsAreCounted, Stored
      <4>3. QED BY <2>1, <3>1, <4>1, <4>2 DEF RunIsCurrent, Marking, Recording, Stored
    <3>2. CASE ~Stored(l)
      <4>1. run'[w].pc = "finish"
        BY <1>1, <1>4, <3>2 DEF Find, Goto, Stored, TypeOK, RunType
      <4>2. QED BY <4>1, RestingRunIsCurrent
    <3>3. QED BY <3>1, <3>2
  <2>3. QED BY <1>2, <2>1, <2>2, RunOnlyStep DEF Unstamped
<1>5. CASE AlreadySent(w)
  <2>1. UNCHANGED <<status, sent, reason, accepted, faults>> /\ ~Marking(r) /\ Sending(r)
    BY <1>5 DEF AlreadySent, rowVars, Marking, Sending
  <2>2. run'[w] = Onward(r)
    BY <1>5 DEF AlreadySent, Goto, TypeOK
  <2>3. RunIsCurrent(run[w])'
    BY <1>1, <2>1, <2>2, OnwardIsCurrent DEF RunIsCurrent, Owes, Unstamped, Kinds
  <2>4. QED BY <1>2, <2>1, <2>3, RunOnlyStep DEF Unstamped
<1>6. CASE SendUnconfigured(w)
  <2>1. /\ UNCHANGED <<status, sent, reason, accepted, faults>>
        /\ ~Marking(r) /\ Sending(r) /\ ~r.snap[r.kind]
    BY <1>6 DEF SendUnconfigured, rowVars, Marking, Sending
  <2>2. /\ run'[w].pc = "recordRead" /\ run'[w].lead = l
        /\ run'[w].kind = r.kind /\ run'[w].snap = r.snap
    BY <1>1, <1>6 DEF SendUnconfigured, Goto, TypeOK, RunType
  <2>3. \A k \in Kinds : Owes(run'[w], k) => Owes(r, k)
    BY <2>1, <2>2 DEF Owes
  <2>4. RunIsCurrent(run[w])'
    BY <1>1, <2>1, <2>2, <2>3 DEF RunIsCurrent, Marking, Recording, Unstamped
  <2>5. QED BY <1>2, <2>1, <2>4, RunOnlyStep DEF Unstamped
<1>7. CASE SendRefused(w)
  <2>1. UNCHANGED <<status, sent, reason, accepted, faults>> /\ ~Marking(r)
    BY <1>7 DEF SendRefused, CanSend, rowVars, Marking
  <2>2. PICK e \in SendErrors : Goto(w, AfterFailure(r, e))
    BY <1>7 DEF SendRefused
  <2>3. run'[w] = AfterFailure(r, e)
    BY <2>2 DEF Goto, TypeOK
  <2>4. \A k \in Kinds : Owes(r, k) => accepted'[l][k] <= faults'
    BY <1>1, <2>1 DEF RunIsCurrent, Unstamped
  <2>5. RunIsCurrent(run[w])'
    BY <1>7, <2>1, <2>3, <2>4, AfterFailureIsCurrent DEF SendRefused, Ledger
  <2>6. QED BY <1>2, <2>1, <2>5, RunOnlyStep DEF Unstamped
<1>8. CASE MarkRead(w)
  <2>1. UNCHANGED <<status, sent, reason, accepted, faults>> /\ Marking(r) /\ Sending(r)
    BY <1>8 DEF MarkRead, ReadReason, rowVars, Marking, Sending
  <2>2. /\ run'[w].pc = "markWrite" /\ run'[w].lead = l /\ run'[w].kind = r.kind
        /\ run'[w].snap = r.snap /\ (Stored(l) => run'[w].read = reason[l])
    BY <1>1, <1>8 DEF MarkRead, ReadReason, Goto, Stored, TypeOK, RunType
  <2>3. \A k \in Kinds : (Owes(run'[w], k) => Owes(r, k)) /\ (Unstamped(r, k) <=> Unstamped(run'[w], k))
    BY <2>1, <2>2 DEF Owes, Unstamped, Marking
  <2>4. RunIsCurrent(run[w])'
    BY <1>1, <2>1, <2>2, <2>3 DEF RunIsCurrent, Marking, Recording, Stored
  <2>5. QED BY <1>2, <2>1, <2>2, <2>3, <2>4, RunOnlyStep
<1>9. CASE RecordRead(w)
  <2>1. /\ UNCHANGED <<status, sent, reason, accepted, faults>>
        /\ ~Marking(r) /\ Recording(r) /\ Sending(r)
    BY <1>9 DEF RecordRead, ReadReason, rowVars, Marking, Recording, Sending
  <2>2. /\ run'[w].pc = "recordWrite" /\ run'[w].lead = l /\ run'[w].kind = r.kind
        /\ run'[w].snap = r.snap /\ (Stored(l) => run'[w].read = reason[l])
    BY <1>1, <1>9 DEF RecordRead, ReadReason, Goto, Stored, TypeOK, RunType
  <2>3. \A k \in Kinds : (Owes(run'[w], k) => Owes(r, k)) /\ ~Unstamped(r, k)
    BY <2>1, <2>2 DEF Owes, Unstamped
  <2>4. RunIsCurrent(run[w])'
    BY <1>1, <2>1, <2>2, <2>3 DEF RunIsCurrent, Marking, Recording, Stored
  <2>5. QED BY <1>2, <2>1, <2>3, <2>4, RunOnlyStep
<1>10. CASE DbFails(w)
  <2>1. UNCHANGED <<status, sent, reason, accepted>> /\ faults' = faults + 1
    BY <1>10 DEF DbFails, rowVars
  <2>2. run'[w].pc = "throw"
    BY <1>1, <1>10 DEF DbFails, Goto, TypeOK, RunType
  <2>3. QED BY <1>2, <2>1, <2>2, RestingRunIsCurrent, RunOnlyStep
<1>11. CASE Complete(w) \/ Fail(w)
  <2>1. UNCHANGED <<status, sent, reason, accepted, faults>> /\ ~Marking(r)
    BY <1>11 DEF Complete, Fail, EndRun, rowVars, Marking
  <2>2. run'[w].pc = "idle"
    BY <1>11 DEF Complete, Fail, EndRun, TypeOK, IdleRun
  <2>3. QED BY <1>2, <2>1, <2>2, RestingRunIsCurrent, RunOnlyStep DEF Unstamped
<1>12. QED BY <1>4, <1>5, <1>6, <1>7, <1>8, <1>9, <1>10, <1>11

(* The provider takes a mail: the run owes it no more, it owes the stamp   *)
(* or the fault is on the account.                                         *)
LEMMA MailSteps ==
  ASSUME TypeOK, TypeOK', RunsHoldTheLock, Ledger, NEW w \in Workers,
         SendAccepted(w) \/ SendUnanswered(w)
  PROVE  Ledger'
<1> DEFINE r == run[w]
           l == run[w].lead
           j == run[w].kind
<1>1. r \in RunType /\ l \in Leads /\ j \in Kinds /\ RunIsCurrent(r)
  BY DEF TypeOK, RunType, Ledger, RunsAreCurrent
<1>2. CanSend(w) /\ ProviderAccepts(w) /\ UNCHANGED <<status, sent, reason>>
  BY DEF SendAccepted, SendUnanswered, rowVars
<1>3. r.pc = "send" /\ ~r.snap[j] /\ Sending(r) /\ ~Marking(r) /\ Owes(r, j)
  BY <1>2 DEF CanSend, Sending, Marking, Owes
<1>4. \A m \in Leads, k \in Kinds :
        accepted'[m][k] = IF m = l /\ k = j THEN accepted[m][k] + 1 ELSE accepted[m][k]
  BY <1>1, <1>2 DEF ProviderAccepts, TypeOK
<1>5. faults \in Nat /\ \A m \in Leads, k \in Kinds : accepted[m][k] \in Nat
  BY DeliveryAssumption DEF TypeOK
<1>6. faults' \in Nat /\ faults <= faults'
  BY <1>5 DEF SendAccepted, SendUnanswered
<1>7. ~sent[l][j] /\ accepted[l][j] <= faults
  BY <1>1, <1>3 DEF RunIsCurrent, Unstamped
<1>8. \A v \in Workers \ {w} : run'[v] = run[v]
  BY RunStepIsLocal DEF WorkerStep
<1>9. \A m \in Leads \ {l} : accepted'[m] = accepted[m]
  BY <1>1, <1>2 DEF ProviderAccepts, TypeOK
<1>10. RunIsCurrent(run[w])'
  <2>1. CASE SendAccepted(w)
    <3>1. /\ run'[w].pc = "markRead" /\ run'[w].lead = l
          /\ run'[w].kind = j /\ run'[w].snap = r.snap /\ faults' = faults
      BY <1>1, <2>1 DEF SendAccepted, Goto, TypeOK, RunType
    <3>2. accepted'[l][j] > 0
      BY <1>1, <1>4, <1>5
    <3>3. \A k \in Kinds : Owes(run'[w], k) => Owes(r, k) /\ (k = j \/ accepted'[l][k] = accepted[l][k])
      BY <1>1, <1>3, <1>4, <3>1 DEF Owes
    <3>4. QED BY <1>1, <1>2, <1>3, <3>1, <3>2, <3>3
              DEF RunIsCurrent, Marking, Recording, Unstamped
  <2>2. CASE SendUnanswered(w)
    <3>1. run'[w] = AfterFailure(r, "transport") /\ faults' = faults + 1
      BY <2>2 DEF SendUnanswered, Goto, TypeOK
    <3>2. \A k \in Kinds : Owes(r, k) => accepted'[l][k] <= faults'
      BY <1>1, <1>3, <1>4, <1>5, <3>1 DEF RunIsCurrent, Unstamped
    <3>3. QED BY <1>2, <3>1, <3>2, AfterFailureIsCurrent, DeliveryAssumption DEF Ledger
  <2>3. QED BY <2>1, <2>2
<1>11. RunsAreCurrent'
  <2>1. \A v \in Workers \ {w} : RunIsCurrent(run[v])'
    BY <1>2, <1>3, <1>6, <1>8, <1>9, OthersStayCurrent DEF Ledger
  <2>2. QED BY <1>10, <2>1 DEF RunsAreCurrent
<1>12. MailsAreCounted'
  <2> SUFFICES ASSUME NEW m \in Leads, NEW k \in Kinds,
                      status[m] # "erased", ~sent[m][k], ~BeingStamped(m, k)'
               PROVE  accepted'[m][k] <= faults'
    BY <1>2 DEF MailsAreCounted
  <2>1. CASE m = l /\ k = j
    <3>1. CASE SendAccepted(w)
      <4>1. run'[w].pc = "markRead" /\ run'[w].lead = l /\ run'[w].kind = j
        BY <1>1, <3>1 DEF SendAccepted, Goto, TypeOK, RunType
      <4>2. QED BY <2>1, <4>1 DEF BeingStamped, Unstamped, Marking
    <3>2. CASE SendUnanswered(w)
      BY <1>1, <1>4, <1>5, <1>7, <2>1, <3>2 DEF SendUnanswered
    <3>3. QED BY <3>1, <3>2
  <2>2. CASE ~(m = l /\ k = j)
    <3>1. ~BeingStamped(m, k)
      BY <1>3, <1>8 DEF BeingStamped, Unstamped
    <3>2. accepted[m][k] <= faults
      BY <3>1 DEF Ledger, MailsAreCounted
    <3>3. QED BY <1>4, <1>5, <1>6, <2>2, <3>2
  <2>3. QED BY <2>1, <2>2
<1>13. StampMeansAccepted' /\ DeliveredShowsNoFailure'
  BY <1>2, <1>4, <1>5 DEF Ledger, StampMeansAccepted, DeliveredShowsNoFailure
<1>14. DuplicatesNeedFaults'
  BY <1>1, <1>4, <1>5, <1>6, <1>7 DEF Ledger, DuplicatesNeedFaults
<1>15. QED BY <1>11, <1>12, <1>13, <1>14 DEF Ledger

(* The two writes of the send flow. *)
LEMMA RowSteps ==
  ASSUME TypeOK, TypeOK', RunsHoldTheLock, Ledger, NEW w \in Workers,
         MarkWrite(w) \/ RecordWrite(w)
  PROVE  Ledger'
<1> DEFINE r == run[w]
           l == run[w].lead
           j == run[w].kind
<1>1. r \in RunType /\ l \in Leads /\ j \in Kinds /\ RunIsCurrent(r)
  BY DEF TypeOK, RunType, Ledger, RunsAreCurrent
<1>2. UNCHANGED <<status, accepted, faults>> /\ r.pc \in {"markWrite", "recordWrite"}
  BY DEF MarkWrite, RecordWrite
<1>3. Sending(r) /\ ~r.snap[j] /\ Owes(r, j)
  BY <1>1, <1>2 DEF RunIsCurrent, Sending, Marking, Recording, Owes
<1>4. faults \in Nat /\ \A m \in Leads, k \in Kinds : accepted[m][k] \in Nat
  BY DeliveryAssumption DEF TypeOK
<1>5. \A v \in Workers \ {w} : run'[v] = run[v]
  BY RunStepIsLocal DEF WorkerStep
<1>6. CASE ~Stored(l)
  <2>1. run'[w].pc = "throw" /\ UNCHANGED <<sent, reason>>
    BY <1>1, <1>6 DEF MarkWrite, RecordWrite, Goto, Stored, TypeOK, RunType
  <2>2. RunIsCurrent(run[w])'
    BY <2>1, RestingRunIsCurrent
  <2>3. RunsAreCurrent'
    <3>1. \A v \in Workers \ {w} : RunIsCurrent(run[v])'
      BY <1>2, <1>4, <1>5, <2>1, OthersStayCurrent DEF Ledger
    <3>2. QED BY <2>2, <3>1 DEF RunsAreCurrent
  <2>4. status[l] = "erased"
    BY <1>1, <1>3, <1>6 DEF RunIsCurrent, Stored, TypeOK
  <2>5. MailsAreCounted'
    <3>1. \A m \in Leads \ {l}, k \in Kinds : BeingStamped(m, k) => BeingStamped(m, k)'
      BY <1>5 DEF BeingStamped
    <3>2. QED BY <1>2, <2>1, <2>4, <3>1 DEF Ledger, MailsAreCounted
  <2>6. QED BY <1>2, <2>1, <2>3, <2>5
            DEF Ledger, StampMeansAccepted, DuplicatesNeedFaults, DeliveredShowsNoFailure
<1>7. CASE Stored(l)
  <2>1. r.read = reason[l] /\ ~sent[l][j]
    BY <1>1, <1>2, <1>3, <1>7 DEF RunIsCurrent
  <2>0. ASSUME MarkWrite(w)
        PROVE  /\ sent'[l] = [sent[l] EXCEPT ![j] = TRUE]
               /\ reason'[l] = Without(reason[l], j)
    <3>1. sent' = [sent EXCEPT ![l] = [sent[l] EXCEPT ![j] = TRUE]]
      BY <2>0, <1>7 DEF MarkWrite, Stored
    <3>2. reason' = [reason EXCEPT ![l] = Without(r.read, j)]
      BY <2>0, <1>7 DEF MarkWrite, Stored
    <3>3. sent \in [Leads -> [Kinds -> BOOLEAN]] /\ reason \in [Leads -> [Kinds -> Reasons]]
      BY DEF TypeOK
    <3>4. QED BY <1>1, <2>1, <3>1, <3>2, <3>3
  <2>2. run'[w] = Onward(r)
    BY <1>7 DEF MarkWrite, RecordWrite, Goto, Stored, TypeOK
  <2>3. \A m \in Leads \ {l} : sent'[m] = sent[m] /\ reason'[m] = reason[m]
    BY <1>7 DEF MarkWrite, RecordWrite, Stored, TypeOK
  <2>4. \A k \in Kinds \ {j} : sent'[l][k] = sent[l][k] /\ reason'[l][k] = reason[l][k]
    <3>1. CASE MarkWrite(w)
      <4>1. sent'[l] = [sent[l] EXCEPT ![j] = TRUE] /\ reason'[l] = Without(reason[l], j)
        BY <2>0, <3>1
      <4>2. DOMAIN sent[l] = Kinds /\ DOMAIN reason[l] = Kinds
        BY <1>1 DEF TypeOK
      <4>3. QED BY <4>1, <4>2 DEF Without
    <3>2. CASE RecordWrite(w)
      <4>1. sent'[l] = sent[l] /\ reason'[l] = With(reason[l], j, r.code)
        BY <1>1, <1>7, <2>1, <3>2 DEF RecordWrite, Stored, TypeOK
      <4>2. QED BY <1>1, <4>1 DEF With, TypeOK
    <3>3. QED BY <3>1, <3>2
  <2>5. RunIsCurrent(run[w])'
    <3>1. (j = "notify" /\ ~r.snap["confirm"])
            => ~sent'[l]["confirm"] /\ accepted'[l]["confirm"] <= faults'
      BY <1>1, <1>2, <1>3, <2>4 DEF RunIsCurrent, Owes, Unstamped, Kinds
    <3>2. status'[l] # "none"
      BY <1>2, <1>7 DEF Stored
    <3>3. QED BY <1>1, <2>2, <3>1, <3>2, OnwardIsCurrent
  <2>6. RunsAreCurrent'
    <3>1. \A v \in Workers \ {w} : RunIsCurrent(run[v])'
      BY <1>2, <1>4, <1>5, <2>3, OthersStayCurrent DEF Ledger
    <3>2. QED BY <2>5, <3>1 DEF RunsAreCurrent
  <2>7. \/ MarkWrite(w) /\ sent'[l][j] = TRUE /\ reason'[l][j] = "none" /\ accepted[l][j] > 0
        \/ RecordWrite(w) /\ sent'[l][j] = sent[l][j]
    <3>1. CASE MarkWrite(w)
      <4>1. accepted[l][j] > 0
        BY <1>1, <3>1 DEF RunIsCurrent, Marking, MarkWrite
      <4>2. sent'[l] = [sent[l] EXCEPT ![j] = TRUE] /\ reason'[l] = Without(reason[l], j)
        BY <2>0, <3>1
      <4>3. j \in DOMAIN sent[l] /\ j \in DOMAIN reason[l]
        BY <1>1 DEF TypeOK
      <4>4. sent'[l][j] = TRUE /\ reason'[l][j] = "none"
        BY <4>2, <4>3 DEF Without
      <4>5. QED BY <3>1, <4>1, <4>4
    <3>2. CASE RecordWrite(w)
      BY <1>7, <3>2 DEF RecordWrite, Stored
    <3>3. QED BY <3>1, <3>2
  <2>8. MailsAreCounted'
    <3> SUFFICES ASSUME NEW m \in Leads, NEW k \in Kinds,
                        status[m] # "erased", ~sent'[m][k], ~BeingStamped(m, k)'
                 PROVE  accepted[m][k] <= faults
      BY <1>2 DEF MailsAreCounted
    <3>1. CASE m = l /\ k = j
      <4>1. RecordWrite(w)
        BY <2>7, <3>1
      <4>2. ~Unstamped(r, j)
        BY <4>1 DEF RecordWrite, Unstamped, Marking
      <4>3. QED BY <1>1, <1>3, <3>1, <4>2 DEF RunIsCurrent
    <3>2. CASE ~(m = l /\ k = j)
      <4>1. ~sent[m][k]
        BY <2>3, <2>4, <3>2
      <4>2. ~BeingStamped(m, k)
        BY <1>5, <3>2 DEF BeingStamped, Unstamped
      <4>3. QED BY <4>1, <4>2 DEF Ledger, MailsAreCounted
    <3>3. QED BY <3>1, <3>2
  <2>9. StampMeansAccepted' /\ DeliveredShowsNoFailure'
    BY <1>1, <1>2, <2>1, <2>3, <2>4, <2>7 DEF Ledger, StampMeansAccepted, DeliveredShowsNoFailure
  <2>10. DuplicatesNeedFaults'
    BY <1>2 DEF Ledger, DuplicatesNeedFaults
  <2>11. QED BY <2>6, <2>8, <2>9, <2>10 DEF Ledger
<1>8. QED BY <1>6, <1>7

(* A commit and an erasure: runs speak of stored leads only, and a lead    *)
(* that is erased is no longer on the account.                             *)
LEMMA CommitAndErase ==
  ASSUME TypeOK, TypeOK', Ledger, NEW l \in Leads, Submit(l) \/ Erase(l)
  PROVE  Ledger'
<1>1. UNCHANGED <<run, accepted, faults>>
  BY DEF Submit, Erase
<1>2. \A m \in Leads \ {l} : status'[m] = status[m] /\ sent'[m] = sent[m] /\ reason'[m] = reason[m]
  BY DEF Submit, Erase, TypeOK
<1>3. /\ \A k \in Kinds : sent'[l][k] => sent[l][k] /\ reason'[l][k] = reason[l][k]
      /\ status'[l] # "none"
  <2>1. CASE Submit(l)
    BY <2>1 DEF Submit, TypeOK
  <2>2. CASE Erase(l)
    <3>1. sent'[l] = Unsent /\ status'[l] = "erased"
      BY <2>2 DEF Erase, TypeOK
    <3>2. QED BY <3>1 DEF Unsent
  <2>3. QED BY <2>1, <2>2
<1>4. status[l] = "none" \/ status'[l] = "erased"
  BY DEF Submit, Erase, TypeOK
<1>5. ASSUME NEW w \in Workers PROVE RunIsCurrent(run[w])'
  <2>1. RunIsCurrent(run[w]) /\ run[w].lead \in Leads /\ run[w].kind \in Kinds
    BY DEF Ledger, RunsAreCurrent, TypeOK, RunType
  <2>2. CASE run[w].lead # l
    BY <1>1, <1>2, <2>1, <2>2
    DEF RunIsCurrent, Sending, Marking, Recording, Owes, Unstamped, Stored
  <2>3. CASE run[w].lead = l
    <3>1. \A k \in Kinds : Owes(run[w], k) => ~sent'[l][k]
      BY <1>3, <2>1, <2>3 DEF RunIsCurrent
    <3>2. Sending(run[w]) => status'[l] = "erased"
      BY <1>4, <2>1, <2>3 DEF RunIsCurrent
    <3>3. QED BY <1>1, <2>1, <2>3, <3>1, <3>2
          DEF RunIsCurrent, Sending, Marking, Recording, Owes, Unstamped, Stored
  <2>4. QED BY <2>2, <2>3
<1>6. MailsAreCounted'
  <2> SUFFICES ASSUME NEW m \in Leads, NEW k \in Kinds,
                      status'[m] # "erased", ~sent'[m][k], ~BeingStamped(m, k)'
               PROVE  accepted[m][k] <= faults
    BY <1>1 DEF MailsAreCounted
  <2>1. ~BeingStamped(m, k)
    BY <1>1 DEF BeingStamped, Unstamped, Marking
  <2>2. status[m] # "erased" /\ ~sent[m][k]
    <3>1. CASE m = l
      <4>1. Submit(l)
        BY <3>1 DEF Erase, TypeOK
      <4>2. QED BY <3>1, <4>1 DEF Submit
    <3>2. CASE m # l
      BY <1>2, <3>2
    <3>3. QED BY <3>1, <3>2
  <2>3. QED BY <2>1, <2>2 DEF Ledger, MailsAreCounted
<1>7. StampMeansAccepted' /\ DeliveredShowsNoFailure' /\ DuplicatesNeedFaults'
  BY <1>1, <1>2, <1>3
  DEF Ledger, StampMeansAccepted, DeliveredShowsNoFailure, DuplicatesNeedFaults
<1>8. QED BY <1>5, <1>6, <1>7 DEF Ledger, RunsAreCurrent

(* Every step keeps the ledger. *)
LEMMA LedgerStep ==
  ASSUME TypeOK, TypeOK', RunsHoldTheLock, Ledger, [Next]_vars
  PROVE  Ledger'
<1>1. ASSUME NEW l \in Leads,
             \/ AddLands(l) \/ AddLost(l) \/ Grow(l) \/ Promote(l) \/ ExpireJob(l)
             \/ Stall(l) \/ Retry(l)
      PROVE  Ledger'
  BY <1>1, QuietStep DEF AddLands, AddLost, Grow, Promote, ExpireJob, Stall, Retry, rowVars
<1>2. ASSUME NEW l \in Leads, ReplayStep(l) \/ ReplayError(l) PROVE Ledger'
  BY <1>2, QuietStep DEF ReplayStep, ReplayLook, ReplayRemove, ReplayAdd, ReplayError, rowVars
<1>3. ASSUME NEW w \in Workers, Restart(w) PROVE Ledger'
  BY <1>3, QuietStep DEF Restart, rowVars
<1>4. CASE SetRecipient \/ ReplayStart
  BY <1>4, QuietStep DEF SetRecipient, ReplayStart, rowVars
<1>5. CASE UNCHANGED vars
  BY <1>5, QuietStep DEF vars, rowVars
<1>6. ASSUME NEW w \in Workers, NEW l \in Leads, Take(w, l) PROVE Ledger'
  <2>1. UNCHANGED <<status, sent, reason, accepted, faults>> /\ run[w].pc = "idle"
    BY <1>6 DEF Take, rowVars
  <2>2. run'[w].pc = "find" /\ \A v \in Workers \ {w} : run'[v] = run[v]
    BY <1>6 DEF Take, TypeOK, IdleRun
  <2>3. \A k \in Kinds : ~Unstamped(run[w], k)
    BY <2>1 DEF Unstamped, Marking
  <2>4. QED BY <2>1, <2>2, <2>3, RestingRunIsCurrent, RunOnlyStep
<1>7. ASSUME NEW w \in Workers, Crash(w) PROVE Ledger'
  <2>1. UNCHANGED <<status, sent, reason, accepted>> /\ faults' = faults + 1
    BY <1>7 DEF Crash, rowVars
  <2>2. run'[w].pc = "idle" /\ \A v \in Workers \ {w} : run'[v] = run[v]
    BY <1>7 DEF Crash, TypeOK, IdleRun
  <2>3. QED BY <2>1, <2>2, RestingRunIsCurrent, RunOnlyStep
<1>8. ASSUME NEW w \in Workers, WorkerStep(w) \/ SendUnanswered(w) \/ DbFails(w) PROVE Ledger'
  BY <1>8, SilentRunSteps, MailSteps, RowSteps DEF WorkerStep
<1>9. QED BY <1>1, <1>2, <1>3, <1>4, <1>5, <1>6, <1>7, <1>8, CommitAndErase DEF Next

-----------------------------------------------------------------------------
(* The inductive invariant of the delivery system, when no live run loses  *)
(* its job's lock: for every number of leads, workers, attempts and        *)
(* faults, each job has one run, what a run works from is still true when  *)
(* it uses it, and every mail is on the account.                           *)
THEOREM DeliveryCorrect ==
  ASSUME ~LockLoss PROVE Spec => []DeliveryInv
<1>1. Init => RunsHoldTheLock /\ Ledger
  <2> SUFFICES ASSUME Init PROVE RunsHoldTheLock /\ Ledger
    OBVIOUS
  <2>1. /\ \A w \in Workers : run[w] = IdleRun
        /\ \A l \in Leads, k \in Kinds : accepted[l][k] = 0 /\ sent[l][k] = FALSE
        /\ faults = 0
    BY DEF Init, Unsent
  <2>2. RunsHoldTheLock
    BY <2>1 DEF RunsHoldTheLock, IdleRun
  <2>3. RunsAreCurrent
    BY <2>1 DEF RunsAreCurrent, RunIsCurrent, Sending, Marking, Recording, Owes, IdleRun
  <2>4. MailsAreCounted /\ StampMeansAccepted /\ DuplicatesNeedFaults /\ DeliveredShowsNoFailure
    BY <2>1 DEF MailsAreCounted, StampMeansAccepted, DuplicatesNeedFaults, DeliveredShowsNoFailure
  <2>5. QED BY <2>2, <2>3, <2>4 DEF Ledger
<1>2. ASSUME TypeOK, TypeOK', RunsHoldTheLock, Ledger, [Next]_vars
      PROVE  RunsHoldTheLock' /\ Ledger'
  BY <1>2, LockStep, LedgerStep
<1>3. TypeOK /\ RunsHoldTheLock /\ Ledger => DeliveryInv
  BY DEF Ledger, DeliveryInv
<1>4. QED BY <1>1, <1>2, <1>3, TypeCorrect, PTL DEF Spec

(* A stamp on the row means that the provider took the mail. *)
COROLLARY StampsAreTrue ==
  ASSUME ~LockLoss PROVE Spec => []StampMeansAccepted
<1>1. DeliveryInv => StampMeansAccepted
  BY DEF DeliveryInv
<1>2. QED BY <1>1, DeliveryCorrect, PTL

(* No e-mail goes out twice without a fault to blame for it. *)
COROLLARY DuplicatesAreFaults ==
  ASSUME ~LockLoss PROVE Spec => []DuplicatesNeedFaults
<1>1. DeliveryInv => DuplicatesNeedFaults
  BY DEF DeliveryInv
<1>2. QED BY <1>1, DeliveryCorrect, PTL

(* A delivered e-mail shows no failure of its own kind. *)
COROLLARY DeliveredIsClean ==
  ASSUME ~LockLoss PROVE Spec => []DeliveredShowsNoFailure
<1>1. DeliveryInv => DeliveredShowsNoFailure
  BY DEF DeliveryInv
<1>2. QED BY <1>1, DeliveryCorrect, PTL

-----------------------------------------------------------------------------
(* What a step does to the mails.                                          *)

(* A run that may send does so for a committed lead without that stamp. *)
LEMMA MailIsDue ==
  ASSUME TypeOK, Ledger, NEW w \in Workers, CanSend(w)
  PROVE  /\ run[w].lead \in Leads /\ run[w].kind \in Kinds
         /\ ~sent[run[w].lead][run[w].kind]
         /\ status[run[w].lead] # "none"
<1>1. RunIsCurrent(run[w]) /\ run[w].lead \in Leads /\ run[w].kind \in Kinds
  BY DEF Ledger, RunsAreCurrent, TypeOK, RunType
<1>2. Sending(run[w]) /\ Owes(run[w], run[w].kind)
  BY DEF CanSend, Sending, Owes
<1>3. QED BY <1>1, <1>2 DEF RunIsCurrent

(* Only the two accepting sends change the mails. *)
LEMMA MailsChange ==
  ASSUME [Next]_vars, accepted' # accepted
  PROVE  \E w \in Workers : CanSend(w) /\ ProviderAccepts(w) /\ UNCHANGED <<status, sent>>
<1>1. ASSUME NEW l \in Leads,
             \/ Submit(l) \/ AddLands(l) \/ AddLost(l) \/ Grow(l) \/ Erase(l) \/ Promote(l)
             \/ ExpireJob(l) \/ Stall(l) \/ Retry(l) \/ ReplayStep(l) \/ ReplayError(l)
      PROVE  FALSE
  BY <1>1 DEF Submit, AddLands, AddLost, Grow, Erase, Promote, ExpireJob, Stall, Retry,
     ReplayStep, ReplayLook, ReplayRemove, ReplayAdd, ReplayError
<1>2. ASSUME NEW w \in Workers,
             Crash(w) \/ Restart(w) \/ \E l \in Leads : Take(w, l)
      PROVE  FALSE
  BY <1>2 DEF Crash, Restart, Take
<1>3. ~(SetRecipient \/ ReplayStart \/ UNCHANGED vars)
  BY DEF SetRecipient, ReplayStart, vars
<1>4. PICK w \in Workers : WorkerStep(w) \/ SendUnanswered(w) \/ DbFails(w)
  BY <1>1, <1>2, <1>3 DEF Next
<1>5. SendAccepted(w) \/ SendUnanswered(w)
  BY <1>4 DEF WorkerStep, Find, AlreadySent, SendUnconfigured, SendRefused, MarkRead, RecordRead,
     ReadReason, MarkWrite, RecordWrite, DbFails, Complete, Fail, EndRun
<1>6. QED BY <1>5 DEF SendAccepted, SendUnanswered, rowVars

(* Once an e-mail is stamped, no run ever sends it again. *)
THEOREM StampStopsMail ==
  ASSUME ~LockLoss PROVE Spec => NoMailAfterStamp
<1>1. ASSUME DeliveryInv, [Next]_vars, NEW l \in Leads, NEW k \in Kinds, sent[l][k]
      PROVE  accepted'[l][k] = accepted[l][k]
  <2>1. CASE accepted' = accepted
    BY <2>1
  <2>2. CASE accepted' # accepted
    <3>1. PICK w \in Workers : CanSend(w) /\ ProviderAccepts(w)
      BY <1>1, <2>2, MailsChange
    <3>2. TypeOK /\ Ledger
      BY <1>1 DEF DeliveryInv, Ledger
    <3>3. ~(l = run[w].lead /\ k = run[w].kind) /\ run[w].lead \in Leads /\ run[w].kind \in Kinds
      BY <1>1, <3>1, <3>2, MailIsDue
    <3>4. QED BY <3>1, <3>2, <3>3 DEF ProviderAccepts, TypeOK
  <2>3. QED BY <2>1, <2>2
<1>2. DeliveryInv /\ [Next]_vars
        => [\A l \in Leads, k \in Kinds : sent[l][k] => accepted'[l][k] = accepted[l][k]]_vars
  BY <1>1
<1>3. QED BY <1>2, DeliveryCorrect, PTL DEF Spec, NoMailAfterStamp

-----------------------------------------------------------------------------
(* Only commits and erasures change a lead's status. *)
LEMMA StatusChanges ==
  ASSUME [Next]_vars
  PROVE  UNCHANGED status \/ \E l \in Leads : Submit(l) \/ Erase(l)
<1>1. ASSUME NEW l \in Leads,
             \/ AddLands(l) \/ AddLost(l) \/ Grow(l) \/ Promote(l) \/ ExpireJob(l)
             \/ Stall(l) \/ Retry(l) \/ ReplayStep(l) \/ ReplayError(l)
      PROVE  UNCHANGED status
  BY <1>1 DEF AddLands, AddLost, Grow, Promote, ExpireJob, Stall, Retry,
     ReplayStep, ReplayLook, ReplayRemove, ReplayAdd, ReplayError, rowVars
<1>2. ASSUME NEW w \in Workers, Crash(w) \/ Restart(w) \/ \E l \in Leads : Take(w, l)
      PROVE  UNCHANGED status
  BY <1>2 DEF Crash, Restart, Take, rowVars
<1>3. ASSUME NEW w \in Workers, WorkerStep(w) \/ SendUnanswered(w) \/ DbFails(w)
      PROVE  UNCHANGED status
  BY <1>3 DEF WorkerStep, Find, AlreadySent, SendUnconfigured, SendAccepted, SendRefused,
     SendUnanswered, MarkRead, RecordRead, ReadReason, MarkWrite, RecordWrite, DbFails,
     Complete, Fail, EndRun, rowVars
<1>4. CASE SetRecipient \/ ReplayStart \/ UNCHANGED vars
  BY <1>4 DEF SetRecipient, ReplayStart, vars, rowVars
<1>5. QED BY <1>1, <1>2, <1>3, <1>4 DEF Next

(* Only erasures and markDeliverySent's write change a stamp. *)
LEMMA StampsChange ==
  ASSUME [Next]_vars
  PROVE  UNCHANGED sent \/ (\E l \in Leads : Erase(l)) \/ \E w \in Workers : MarkWrite(w)
<1>1. ASSUME NEW l \in Leads,
             \/ Submit(l) \/ AddLands(l) \/ AddLost(l) \/ Grow(l) \/ Promote(l) \/ ExpireJob(l)
             \/ Stall(l) \/ Retry(l) \/ ReplayStep(l) \/ ReplayError(l)
      PROVE  UNCHANGED sent
  BY <1>1 DEF Submit, AddLands, AddLost, Grow, Promote, ExpireJob, Stall, Retry,
     ReplayStep, ReplayLook, ReplayRemove, ReplayAdd, ReplayError, rowVars
<1>2. ASSUME NEW w \in Workers, Crash(w) \/ Restart(w) \/ \E l \in Leads : Take(w, l)
      PROVE  UNCHANGED sent
  BY <1>2 DEF Crash, Restart, Take, rowVars
<1>3. ASSUME NEW w \in Workers, WorkerStep(w) \/ SendUnanswered(w) \/ DbFails(w), ~MarkWrite(w)
      PROVE  UNCHANGED sent
  BY <1>3 DEF WorkerStep, Find, AlreadySent, SendUnconfigured, SendAccepted, SendRefused,
     SendUnanswered, MarkRead, RecordRead, ReadReason, RecordWrite, DbFails,
     Complete, Fail, EndRun, rowVars
<1>4. CASE SetRecipient \/ ReplayStart \/ UNCHANGED vars
  BY <1>4 DEF SetRecipient, ReplayStart, vars, rowVars
<1>5. QED BY <1>1, <1>2, <1>3, <1>4 DEF Next

(* The send flow with its queue and its operators implements the contract. *)
THEOREM DeliveryImplementsContract ==
  ASSUME ~LockLoss PROVE Spec => ImplementsContract
<1>1. Init => Contract!Init
  BY DEF Init, Contract!Init, Unsent, Kinds, Contract!Kinds, Leads, Contract!Leads
<1>2. ASSUME DeliveryInv, [Next]_vars PROVE [Contract!Next]_(Contract!vars)
  <2> USE DEF Leads, Contract!Leads, Kinds, Contract!Kinds
  <2>1. TypeOK /\ Ledger
    BY <1>2 DEF DeliveryInv, Ledger
  <2>2. ASSUME NEW l \in Leads, Submit(l) PROVE Contract!Commit(l)
    BY <2>2 DEF Submit, Contract!Commit
  <2>3. ASSUME NEW l \in Leads, Erase(l) PROVE Contract!Erase(l)
    BY <2>3 DEF Erase, Unsent, Contract!Erase
  <2>4. ASSUME NEW w \in Workers, CanSend(w), ProviderAccepts(w), UNCHANGED <<status, sent>>
        PROVE  Contract!Mail(run[w].lead, run[w].kind)
    <3>1. ~sent[run[w].lead][run[w].kind] /\ status[run[w].lead] # "none"
      BY <2>1, <2>4, MailIsDue
    <3>2. QED BY <2>4, <3>1 DEF ProviderAccepts, Contract!Mail
  <2>5. ASSUME NEW w \in Workers, MarkWrite(w), UNCHANGED accepted
        PROVE  Contract!Stamp(run[w].lead, run[w].kind) \/ UNCHANGED <<status, sent>>
    <3>1. CASE Stored(run[w].lead)
      <4>1. accepted[run[w].lead][run[w].kind] > 0
        BY <2>1, <2>5 DEF Ledger, RunsAreCurrent, RunIsCurrent, Marking, MarkWrite
      <4>2. /\ sent' = [sent EXCEPT ![run[w].lead][run[w].kind] = TRUE]
            /\ UNCHANGED <<status, accepted>>
        BY <2>5, <3>1 DEF MarkWrite, Stored
      <4>3. QED BY <3>1, <4>1, <4>2 DEF Contract!Stamp, Stored
    <3>2. CASE ~Stored(run[w].lead)
      BY <2>5, <3>2 DEF MarkWrite, Stored
    <3>3. QED BY <3>1, <3>2
  <2>6. \A w \in Workers : run[w].lead \in Leads /\ run[w].kind \in Kinds
    BY <2>1 DEF TypeOK, RunType
  <2>7. CASE accepted' # accepted
    <3>1. PICK w \in Workers : CanSend(w) /\ ProviderAccepts(w) /\ UNCHANGED <<status, sent>>
      BY <1>2, <2>7, MailsChange
    <3>2. Contract!Mail(run[w].lead, run[w].kind)
      BY <2>4, <3>1
    <3>3. QED BY <2>6, <3>2 DEF Contract!Next
  <2>8. CASE accepted' = accepted
    <3>1. CASE \E l \in Leads : Submit(l) \/ Erase(l)
      BY <2>2, <2>3, <3>1 DEF Contract!Next
    <3>2. CASE ~\E l \in Leads : Submit(l) \/ Erase(l)
      <4>1. UNCHANGED status
        BY <1>2, <3>2, StatusChanges
      <4>2. CASE UNCHANGED sent
        BY <2>8, <4>1, <4>2 DEF Contract!vars
      <4>3. CASE \E w \in Workers : MarkWrite(w)
        <5>1. PICK w \in Workers : MarkWrite(w)
          BY <4>3
        <5>2. Contract!Stamp(run[w].lead, run[w].kind) \/ UNCHANGED <<status, sent>>
          BY <2>5, <2>8, <5>1
        <5>3. QED BY <2>6, <2>8, <5>2 DEF Contract!Next, Contract!vars
      <4>4. QED BY <1>2, <3>2, <4>2, <4>3, StampsChange
    <3>3. QED BY <3>1, <3>2
  <2>9. QED BY <2>7, <2>8
<1>3. QED BY <1>1, <1>2, DeliveryCorrect, PTL DEF Spec, ImplementsContract, Contract!Spec

-----------------------------------------------------------------------------
(* The job and the row explain each other. A run that has passed the       *)
(* notification has settled it, or will fail; on a final attempt it has    *)
(* also left a reason for what it could not send. So a completed job       *)
(* leaves its lead notified or to queue:replay, and a failed one explains  *)
(* itself.                                                                 *)

Explained(l, k) == sent[l][k] \/ reason[l][k] # "none"
Settled(l) == sent[l]["notify"] \/ reason[l]["notify"] = "unconfigured"
PastNotify(r) == (Sending(r) /\ r.kind = "confirm") \/ r.pc = "finish"

RunExplains(r) ==
  r.pc # "idle" =>
    /\ r.final = IsFinalAttempt(made[r.lead])
    /\ r.pc = "find" => r.kind = "notify" /\ ~r.retry
    /\ Recording(r) => r.code # "none" /\ (r.retry \/ r.code = "unconfigured")
    /\ Stored(r.lead) =>
         /\ \A k \in Kinds : r.snap[k] => sent[r.lead][k]
         /\ PastNotify(r) => r.retry \/ Settled(r.lead)
         /\ faults = 0 => r.pc # "throw"
         /\ faults = 0 /\ r.final /\ PastNotify(r) => Explained(r.lead, "notify")
         /\ faults = 0 /\ r.final /\ r.pc = "finish" => Explained(r.lead, "confirm")

JobExplains(l) ==
  /\ jobState[l] # "none" \/ adding[l] \/ l \in replay.todo => status[l] # "none"
  /\ status[l] = "none" => reason[l] = NoReason
  /\ faults = 0 /\ jobState[l] = "active" => lock[l] \in Workers /\ Running(lock[l], l)
  /\ Stored(l) =>
       /\ faults = 0 /\ jobState[l] = "failed" => \A k \in Kinds : Explained(l, k)
       /\ jobState[l] = "completed" => sent[l]["notify"] \/ Replayable(reason[l])
       /\ jobState[l] = "none" =>
            sent[l]["notify"] \/ Replayable(reason[l]) \/ BeingReplayed(l) \/ OperatorFaults

ExplainInv ==
  /\ \A w \in Workers : RunExplains(run[w])
  /\ \A l \in Leads : JobExplains(l)

(* A run whose lead is left alone, or erased, keeps its explanations. *)
LEMMA RunStays ==
  ASSUME NEW v \in Workers, RunExplains(run[v]), run'[v] = run[v], faults' = 0 => faults = 0,
         run[v].pc # "idle" =>
           /\ made'[run[v].lead] = made[run[v].lead]
           /\ Stored(run[v].lead)' => /\ Stored(run[v].lead) /\ sent'[run[v].lead] = sent[run[v].lead]
                                      /\ reason'[run[v].lead] = reason[run[v].lead]
  PROVE  RunExplains(run[v])'
BY DEF RunExplains, Stored, Explained, Settled, PastNotify, Sending, Marking, Recording, IsFinalAttempt

(* A job that is left alone keeps its explanations, if the run that holds  *)
(* it goes on.                                                             *)
LEMMA JobStays ==
  ASSUME NEW m \in Leads, JobExplains(m), jobState'[m] = jobState[m], lock'[m] = lock[m],
         status'[m] = status[m] \/ status'[m] = "erased",
         adding'[m] => adding[m], m \in replay'.todo => status[m] # "none",
         status'[m] # "erased" => sent'[m] = sent[m] /\ reason'[m] = reason[m],
         faults' = 0 => faults = 0,
         faults' = 0 /\ jobState[m] = "active" => run'[lock[m]].pc # "idle" /\ run'[lock[m]].lead = m,
         jobState[m] = "none" /\ BeingReplayed(m) => BeingReplayed(m)' \/ OperatorFaults
  PROVE  JobExplains(m)'
BY DEF JobExplains, Stored, Explained, Running

(* Commands and time, which leave the runs and the faults alone. *)
LEMMA RunsStay ==
  ASSUME TypeOK, RunsHoldTheLock, ExplainInv, UNCHANGED <<run, faults>>,
         \A m \in Leads : jobState[m] = "active" =>
           /\ made'[m] = made[m]
           /\ Stored(m)' => Stored(m) /\ sent'[m] = sent[m] /\ reason'[m] = reason[m]
  PROVE  \A v \in Workers : RunExplains(run[v])'
<1> SUFFICES ASSUME NEW v \in Workers PROVE RunExplains(run[v])'
  OBVIOUS
<1>1. RunExplains(run[v]) /\ run[v].lead \in Leads
  BY DEF ExplainInv, TypeOK, RunType
<1>2. run[v].pc # "idle" => jobState[run[v].lead] = "active"
  BY DEF RunsHoldTheLock, Holds
<1>3. QED BY <1>1, <1>2, RunStays

(* Changes of the rows and of what is added to the queue. *)
LEMMA RowCommands ==
  ASSUME TypeOK, RunsHoldTheLock, ExplainInv, NEW l \in Leads,
         Submit(l) \/ AddLost(l) \/ Grow(l) \/ Erase(l)
  PROVE  ExplainInv'
<1>1. UNCHANGED <<run, faults, made, jobState, lock, replay>>
  BY DEF Submit, AddLost, Grow, Erase, jobVars
<1>2. \A m \in Leads : JobExplains(m)
  BY DEF ExplainInv
<1>3. \A m \in Leads : faults = 0 /\ jobState[m] = "active" => run[lock[m]].pc # "idle" /\ run[lock[m]].lead = m
  BY <1>2 DEF JobExplains, Running
<1>4. \A m \in Leads : BeingReplayed(m) => BeingReplayed(m)'
  BY <1>1 DEF BeingReplayed, AtReplay
<1>5. \A m \in Leads \ {l} : status'[m] = status[m] /\ sent'[m] = sent[m] /\ reason'[m] = reason[m]
                             /\ adding'[m] = adding[m]
  BY DEF Submit, AddLost, Grow, Erase, rowVars, TypeOK
<1>6. \A m \in Leads \ {l} : JobExplains(m)'
  BY <1>1, <1>2, <1>3, <1>4, <1>5, JobStays DEF JobExplains
<1>7. CASE Submit(l)
  <2>1. status[l] = "none" /\ status'[l] = "stored" /\ sent' = sent /\ reason' = reason
    BY <1>7 DEF Submit, TypeOK
  <2>2. jobState[l] = "none" /\ reason[l] = NoReason
    BY <1>2, <2>1 DEF JobExplains
  <2>3. JobExplains(l)'
    BY <1>1, <2>1, <2>2 DEF JobExplains, Replayable
  <2>4. \A v \in Workers : RunExplains(run[v])'
    BY <1>1, <1>5, <2>2, RunsStay DEF Stored
  <2>5. QED BY <1>6, <2>3, <2>4 DEF ExplainInv
<1>8. CASE AddLost(l) \/ Grow(l) \/ Erase(l)
  <2>1. /\ status'[l] = status[l] \/ status'[l] = "erased"
        /\ status'[l] # "erased" => sent'[l] = sent[l] /\ reason'[l] = reason[l]
        /\ adding'[l] => adding[l]
    BY <1>8 DEF AddLost, Grow, Erase, rowVars, TypeOK
  <2>2. JobExplains(l)'
    BY <1>1, <1>2, <1>3, <1>4, <2>1, JobStays DEF JobExplains
  <2>3. \A v \in Workers : RunExplains(run[v])'
    BY <1>1, <1>5, <2>1, RunsStay DEF Stored
  <2>4. QED BY <1>6, <2>2, <2>3 DEF ExplainInv
<1>9. QED BY <1>7, <1>8

(* Changes of the job of one lead: what its run counts on stays. *)
LEMMA JobCommands ==
  ASSUME TypeOK, RunsHoldTheLock, ExplainInv, NEW l \in Leads,
         UNCHANGED <<status, sent, reason, run, faults>>, JobExplains(l)',
         jobState[l] = "active" => made'[l] = made[l],
         \A m \in Leads \ {l} :
           /\ jobState'[m] = jobState[m] /\ lock'[m] = lock[m] /\ made'[m] = made[m]
           /\ adding'[m] = adding[m] /\ (m \in replay'.todo => m \in replay.todo)
           /\ BeingReplayed(m) => BeingReplayed(m)'
  PROVE  ExplainInv'
<1>1. \A m \in Leads : JobExplains(m)
  BY DEF ExplainInv
<1>2. \A m \in Leads : faults = 0 /\ jobState[m] = "active" => run[lock[m]].pc # "idle" /\ run[lock[m]].lead = m
  BY <1>1 DEF JobExplains, Running
<1>3. \A m \in Leads \ {l} : JobExplains(m)'
  BY <1>1, <1>2, JobStays DEF JobExplains
<1>4. \A v \in Workers : RunExplains(run[v])'
  BY RunsStay DEF Stored
<1>5. QED BY <1>3, <1>4 DEF ExplainInv

(* What one job command leaves alone. *)
LEMMA OneJobMoves ==
  ASSUME TypeOK, NEW l \in Leads,
         \/ \E s : SetJob(l, s) /\ UNCHANGED made
         \/ AddJob(l)
  PROVE  \A m \in Leads \ {l} : jobState'[m] = jobState[m] /\ lock'[m] = lock[m] /\ made'[m] = made[m]
BY DEF SetJob, AddJob, TypeOK, jobVars

(* An add makes a missing record wait and leaves any other alone. *)
LEMMA AddExplains ==
  ASSUME TypeOK, ExplainInv, NEW l \in Leads, AddJob(l), UNCHANGED <<status, sent, reason, run, faults>>,
         adding[l] \/ l \in replay.todo
  PROVE  JobExplains(l)' /\ (jobState[l] = "active" => made'[l] = made[l])
<1>1. JobExplains(l)
  BY DEF ExplainInv
<1>2. CASE jobState[l] = "none"
  <2>1. jobState'[l] = "waiting" /\ status[l] # "none"
    BY <1>1, <1>2 DEF AddJob, TypeOK, JobExplains
  <2>2. QED BY <1>2, <2>1 DEF JobExplains
<1>3. CASE jobState[l] # "none"
  <2>1. UNCHANGED jobVars
    BY <1>3 DEF AddJob
  <2>2. QED BY <1>1, <1>3, <2>1 DEF jobVars, JobExplains, Stored, Explained, Running
<1>4. QED BY <1>2, <1>3

(* The queue's own moves, and the add of the request. *)
LEMMA QueueSteps ==
  ASSUME ~LockLoss, TypeOK, RunsHoldTheLock, ExplainInv, NEW l \in Leads,
         \/ Promote(l) \/ ExpireJob(l) \/ Retry(l) \/ AddLands(l) \/ Stall(l)
  PROVE  ExplainInv'
<1>1. JobExplains(l)
  BY DEF ExplainInv
<1>2. UNCHANGED <<status, sent, reason, run, faults, replay>>
  BY DEF Promote, ExpireJob, Retry, AddLands, Stall, rowVars
<1>3. \A m \in Leads : BeingReplayed(m) <=> BeingReplayed(m)'
  BY <1>2 DEF BeingReplayed, AtReplay
<1>4. CASE AddLands(l)
  <2>1. AddJob(l) /\ adding[l] /\ \A m \in Leads \ {l} : adding'[m] = adding[m]
    BY <1>4 DEF AddLands, TypeOK
  <2>2. JobExplains(l)' /\ (jobState[l] = "active" => made'[l] = made[l])
    BY <1>2, <2>1, AddExplains
  <2>3. QED BY <1>2, <1>3, <2>1, <2>2, OneJobMoves, JobCommands
<1>5. CASE Promote(l) \/ ExpireJob(l) \/ Retry(l) \/ Stall(l)
  <2>1. UNCHANGED <<made, adding>> /\ \E s : SetJob(l, s)
    BY <1>5 DEF Promote, ExpireJob, Retry, Stall
  <2>2. JobExplains(l)'
    <3>1. CASE Promote(l) \/ Retry(l)
      <4>1. jobState'[l] = "waiting" /\ jobState[l] # "none"
        BY <3>1 DEF Promote, Retry, SetJob, TypeOK
      <4>2. QED BY <1>1, <1>2, <4>1 DEF JobExplains
    <3>2. CASE ExpireJob(l)
      <4>1. jobState'[l] = "none" /\ jobState[l] = "completed"
        BY <3>2 DEF ExpireJob, SetJob, TypeOK
      <4>2. QED BY <1>1, <1>2, <2>1, <4>1 DEF JobExplains, Stored
    <3>3. CASE Stall(l)
      <4>1. jobState[l] = "active" /\ jobState'[l] \in {"failed", "waiting"} /\ ~Running(lock[l], l)
        BY <3>3 DEF Stall, SetJob, TypeOK
      <4>2. faults # 0
        BY <1>1, <4>1 DEF JobExplains
      <4>3. QED BY <1>1, <1>2, <4>1, <4>2 DEF JobExplains
    <3>4. QED BY <1>5, <3>1, <3>2, <3>3
  <2>3. QED BY <1>2, <1>3, <2>1, <2>2, OneJobMoves, JobCommands
<1>6. QED BY <1>4, <1>5

(* queue:replay, at the oldest lead of its list. *)
LEMMA ReplaySteps ==
  ASSUME TypeOK, RunsHoldTheLock, ExplainInv, NEW l \in Leads, ReplayStep(l) \/ ReplayError(l)
  PROVE  ExplainInv'
<1>1. JobExplains(l)
  BY DEF ExplainInv
<1>2. UNCHANGED <<status, sent, reason, run, faults, adding>>
  BY DEF ReplayStep, ReplayLook, ReplayRemove, ReplayAdd, ReplayError, rowVars
<1>3. l \in replay.todo /\ \A m \in replay.todo : l <= m
  BY DEF ReplayStep, ReplayLook, ReplayRemove, ReplayAdd, ReplayError, AtReplay
<1>4. \A m \in Leads \ {l} : ~BeingReplayed(m)
  BY <1>3, DeliveryAssumption DEF BeingReplayed, AtReplay, Leads
<1>5. status[l] # "none"
  BY <1>1, <1>3 DEF JobExplains
<1>6. PastLead(l).todo \subseteq replay.todo
  BY DEF PastLead, IdleReplay
<1>7. replay'.todo \subseteq replay.todo
  <2>1. /\ [replay EXCEPT !.pc = "remove"].todo = replay.todo
        /\ [replay EXCEPT !.pc = "add"].todo = replay.todo
    BY DEF TypeOK
  <2>2. NextReplayStep(jobState[l], l).todo \subseteq replay.todo
    BY <1>6, <2>1 DEF NextReplayStep
  <2>3. IdleReplay.todo \subseteq replay.todo
    BY DEF IdleReplay
  <2>4. QED BY <1>6, <2>1, <2>2, <2>3 DEF ReplayStep, ReplayLook, ReplayRemove, ReplayAdd, ReplayError
<1>8. CASE ReplayLook(l) \/ ReplayError(l)
  <2>1. UNCHANGED jobVars /\ (OperatorFaults \/ ~BeingReplayed(l))
    BY <1>8 DEF ReplayLook, ReplayError, BeingReplayed, AtReplay
  <2>2. JobExplains(l)'
    BY <1>1, <1>2, <1>5, <2>1 DEF JobExplains, jobVars, Stored, Explained, Running
  <2>3. QED BY <1>2, <1>4, <1>7, <2>1, <2>2, JobCommands DEF jobVars
<1>9. CASE ReplayRemove(l)
  <2>1. ~BeingReplayed(l) /\ UNCHANGED made
    BY <1>9 DEF ReplayRemove, BeingReplayed, AtReplay
  <2>2. CASE jobState[l] = "active"
    <3>1. UNCHANGED <<jobState, lock>>
      BY <1>9, <2>2 DEF ReplayRemove
    <3>2. JobExplains(l)'
      BY <1>1, <1>2, <1>5, <2>1, <2>2, <3>1 DEF JobExplains, Stored, Explained, Running
    <3>3. QED BY <1>2, <1>4, <1>7, <2>1, <3>1, <3>2, JobCommands
  <2>3. CASE jobState[l] # "active"
    <3>1. SetJob(l, "none") /\ replay' = [replay EXCEPT !.pc = "add"]
      BY <1>9, <2>3 DEF ReplayRemove
    <3>2. replay'.pc = "add" /\ replay'.todo = replay.todo /\ jobState'[l] = "none"
      BY <3>1 DEF TypeOK, SetJob
    <3>3. BeingReplayed(l)'
      BY <1>3, <3>2 DEF BeingReplayed, AtReplay
    <3>4. JobExplains(l)'
      BY <1>2, <1>5, <3>2, <3>3 DEF JobExplains
    <3>5. QED BY <1>2, <1>4, <1>7, <2>1, <2>3, <3>1, <3>4, OneJobMoves, JobCommands
  <2>4. QED BY <2>2, <2>3
<1>10. CASE ReplayAdd(l)
  <2>1. AddJob(l)
    BY <1>10 DEF ReplayAdd
  <2>2. JobExplains(l)' /\ (jobState[l] = "active" => made'[l] = made[l])
    BY <1>2, <1>3, <2>1, AddExplains
  <2>3. QED BY <1>2, <1>4, <1>7, <2>1, <2>2, OneJobMoves, JobCommands
<1>11. QED BY <1>8, <1>9, <1>10 DEF ReplayStep

(* Steps that touch no job, no row and no run. *)
LEMMA OutsideSteps ==
  ASSUME TypeOK, RunsHoldTheLock, ExplainInv,
         (\E w \in Workers : Restart(w)) \/ SetRecipient \/ ReplayStart \/ UNCHANGED vars
  PROVE  ExplainInv'
<1>1. UNCHANGED <<status, sent, reason, run, faults, adding, made, jobState, lock>>
  BY DEF Restart, SetRecipient, ReplayStart, vars, rowVars, jobVars
<1>2. \A m \in Leads : JobExplains(m)
  BY DEF ExplainInv
<1>3. \A m \in Leads : faults = 0 /\ jobState[m] = "active" => run[lock[m]].pc # "idle" /\ run[lock[m]].lead = m
  BY <1>2 DEF JobExplains, Running
<1>4. \A m \in Leads : (m \in replay'.todo => status[m] # "none") /\ (BeingReplayed(m) => BeingReplayed(m)')
  <2>1. CASE ReplayStart
    BY <2>1 DEF ReplayStart, ReplayList, Oldest, Awaiting, BeingReplayed, AtReplay
  <2>2. CASE UNCHANGED replay
    BY <1>2, <2>2 DEF BeingReplayed, AtReplay, JobExplains
  <2>3. QED BY <2>1, <2>2 DEF Restart, SetRecipient, vars
<1>5. \A m \in Leads : JobExplains(m)'
  BY <1>1, <1>2, <1>3, <1>4, JobStays
<1>6. \A v \in Workers : RunExplains(run[v])'
  BY <1>1, RunsStay DEF Stored
<1>7. QED BY <1>5, <1>6 DEF ExplainInv

(* A run begins, and a run is cut off. *)
LEMMA RunBegins ==
  ASSUME TypeOK, RunsHoldTheLock, ExplainInv, NEW w \in Workers, NEW l \in Leads, Take(w, l)
  PROVE  ExplainInv'
<1>1. UNCHANGED <<status, sent, reason, faults, adding, made, replay>> /\ run[w].pc = "idle"
  BY DEF Take, rowVars
<1>2. /\ run'[w].pc = "find" /\ run'[w].lead = l /\ run'[w].final = IsFinalAttempt(made[l])
      /\ run'[w].kind = "notify" /\ run'[w].retry = FALSE /\ run'[w].snap = Unsent
      /\ \A v \in Workers \ {w} : run'[v] = run[v]
  BY DEF Take, IdleRun, TypeOK
<1>3. jobState'[l] = "active" /\ lock'[l] = w /\ jobState[l] = "waiting"
      /\ \A m \in Leads \ {l} : jobState'[m] = jobState[m] /\ lock'[m] = lock[m]
  BY DEF Take, TypeOK
<1>4. \A m \in Leads : JobExplains(m)
  BY DEF ExplainInv
<1>5. JobExplains(l)'
  BY <1>1, <1>2, <1>3, <1>4 DEF JobExplains, Running
<1>6. ASSUME NEW m \in Leads \ {l} PROVE JobExplains(m)'
  <2>1. faults = 0 /\ jobState[m] = "active" => run'[lock[m]].pc # "idle" /\ run'[lock[m]].lead = m
    BY <1>1, <1>2, <1>4 DEF JobExplains, Running
  <2>2. BeingReplayed(m) => BeingReplayed(m)'
    BY <1>1 DEF BeingReplayed, AtReplay
  <2>3. QED BY <1>1, <1>3, <1>4, <2>1, <2>2, JobStays DEF JobExplains
<1>7. RunExplains(run[w])'
  BY <1>1, <1>2 DEF RunExplains, Unsent, PastNotify, Sending, Marking, Recording, IsFinalAttempt
<1>8. \A v \in Workers \ {w} : RunExplains(run[v])'
  BY <1>1, <1>2, RunStays DEF ExplainInv, Stored
<1>9. QED BY <1>5, <1>6, <1>7, <1>8 DEF ExplainInv

LEMMA RunIsCut ==
  ASSUME TypeOK, RunsHoldTheLock, ExplainInv, NEW w \in Workers, Crash(w)
  PROVE  ExplainInv'
<1>1. UNCHANGED <<status, sent, reason, jobState, lock, adding, made, replay>> /\ faults' # 0
  BY DeliveryAssumption DEF Crash, rowVars, jobVars, TypeOK
<1>2. run'[w].pc = "idle" /\ \A v \in Workers \ {w} : run'[v] = run[v]
  BY DEF Crash, IdleRun, TypeOK
<1>3. \A m \in Leads : JobExplains(m)'
  BY <1>1, JobStays DEF ExplainInv, JobExplains, BeingReplayed, AtReplay
<1>4. \A v \in Workers : RunExplains(run[v])'
  <2>1. RunExplains(run[w])'
    BY <1>2 DEF RunExplains
  <2>2. \A v \in Workers \ {w} : RunExplains(run[v])'
    BY <1>1, <1>2, RunStays DEF ExplainInv, Stored
  <2>3. QED BY <2>1, <2>2
<1>5. QED BY <1>3, <1>4 DEF ExplainInv

(* A step of a run that goes on: it touches its own lead only, whose job   *)
(* stays active, and answers for its own explanations.                     *)
LEMMA RunGoesOn ==
  ASSUME TypeOK, RunsHoldTheLock, ExplainInv, NEW w \in Workers, run[w].pc # "idle",
         UNCHANGED <<status, adding, jobVars, replay>>, faults' = 0 => faults = 0,
         \A v \in Workers \ {w} : run'[v] = run[v],
         run'[w].pc # "idle", run'[w].lead = run[w].lead,
         \A m \in Leads \ {run[w].lead} : sent'[m] = sent[m] /\ reason'[m] = reason[m],
         RunExplains(run[w])'
  PROVE  ExplainInv'
<1>1. PICK l \in Leads : l = run[w].lead
  BY DEF TypeOK, RunType
<1>2. \A m \in Leads : JobExplains(m)
  BY DEF ExplainInv
<1>3. jobState[l] = "active"
  BY <1>1 DEF RunsHoldTheLock, Holds
<1>4. \A m \in Leads : BeingReplayed(m) => BeingReplayed(m)'
  BY DEF BeingReplayed, AtReplay
<1>5. \A v \in Workers : run[v].pc # "idle" => run'[v].pc # "idle" /\ run'[v].lead = run[v].lead
  OBVIOUS
<1>6. JobExplains(l)'
  BY <1>1, <1>2, <1>3, <1>5 DEF JobExplains, Running, jobVars
<1>7. ASSUME NEW m \in Leads \ {l} PROVE JobExplains(m)'
  <2>1. faults' = 0 /\ jobState[m] = "active" => run'[lock[m]].pc # "idle" /\ run'[lock[m]].lead = m
    BY <1>2, <1>5 DEF JobExplains, Running
  <2>2. JobExplains(m) /\ sent'[m] = sent[m] /\ reason'[m] = reason[m]
    BY <1>1, <1>2
  <2>3. QED BY <1>4, <2>1, <2>2, JobStays DEF JobExplains, jobVars
<1>8. ASSUME NEW v \in Workers \ {w} PROVE RunExplains(run[v])'
  <2>1. run[v].pc # "idle" => run[v].lead \in Leads \ {run[w].lead}
    BY OneRunPerLead DEF TypeOK, RunType
  <2>2. RunExplains(run[v])
    BY DEF ExplainInv
  <2>3. QED BY <2>1, <2>2, RunStays DEF Stored, jobVars
<1>9. QED BY <1>6, <1>7, <1>8 DEF ExplainInv

(* The notification, or the confirmation, is behind the run. *)
LEMMA OnwardExplains ==
  ASSUME NEW w \in Workers, NEW r \in RunType, run'[w] = Onward(r),
         r.final = IsFinalAttempt(made'[r.lead]),
         Stored(r.lead)' =>
           /\ \A k \in Kinds : r.snap[k] => sent'[r.lead][k]
           /\ r.retry \/ Settled(r.lead)'
           /\ faults' = 0 /\ r.final => Explained(r.lead, "notify")'
           /\ faults' = 0 /\ r.final /\ r.kind = "confirm" => Explained(r.lead, "confirm")'
  PROVE  RunExplains(run[w])'
<1>1. /\ run'[w].lead = r.lead /\ run'[w].snap = r.snap /\ run'[w].final = r.final
      /\ run'[w].retry = r.retry
      /\ r.kind = "notify" => run'[w].pc = "send" /\ run'[w].kind = "confirm"
      /\ r.kind = "confirm" => run'[w].pc = "finish"
  BY DEF Onward, RunType
<1>2. r.kind \in {"notify", "confirm"}
  BY DEF RunType, Kinds
<1>3. QED BY <1>1, <1>2 DEF RunExplains, Stored, Explained, Settled, PastNotify, Sending, Marking,
          Recording, IsFinalAttempt

(* A failed send is recorded on the final attempt and left to the next     *)
(* attempt before it.                                                      *)
LEMMA AfterFailureExplains ==
  ASSUME TypeOK, ExplainInv, NEW w \in Workers, NEW e \in SendErrors, run[w].pc = "send",
         run'[w] = AfterFailure(run[w], e), UNCHANGED <<status, sent, reason, made>>,
         faults' = 0 => faults = 0
  PROVE  RunExplains(run[w])'
<1> PICK r \in RunType : r = run[w]
  BY DEF TypeOK
<1> PICK f \in RunType : f = [r EXCEPT !.retry = TRUE]
  BY DEF RunType
<1>1. RunExplains(r) /\ r.pc = "send"
  BY DEF ExplainInv
<1>2. /\ f.lead = r.lead /\ f.kind = r.kind /\ f.snap = r.snap /\ f.final = r.final
      /\ f.retry = TRUE
  BY <1>1 DEF RunType
<1>3. CASE r.final
  <2>0. run'[w] = [f EXCEPT !.pc = "recordRead", !.code = e]
    BY <1>3 DEF AfterFailure
  <2>1. /\ run'[w].pc = "recordRead" /\ run'[w].lead = r.lead /\ run'[w].kind = r.kind
        /\ run'[w].snap = r.snap /\ run'[w].final = r.final /\ run'[w].retry = TRUE
        /\ run'[w].code = e
    BY <1>2, <2>0 DEF RunType
  <2>2. e # "none"
    BY DeliveryAssumption
  <2>3. QED BY <1>1, <2>1, <2>2 DEF RunExplains, Stored, Explained, Settled, PastNotify, Sending, Marking,
            Recording, IsFinalAttempt
<1>4. CASE ~r.final
  <2>1. run'[w] = Onward(f)
    BY <1>4 DEF AfterFailure
  <2>2. f.final = IsFinalAttempt(made'[f.lead]) /\ ~f.final
    BY <1>1, <1>2, <1>4 DEF RunExplains, IsFinalAttempt
  <2>3. Stored(f.lead)' => \A k \in Kinds : f.snap[k] => sent'[f.lead][k]
    BY <1>1, <1>2 DEF RunExplains, Stored
  <2>4. QED BY <1>1, <1>2, <2>1, <2>2, <2>3, OnwardExplains
<1>5. QED BY <1>3, <1>4

(* What the two writes leave in the row of a stored lead. *)
LEMMA RowWrites ==
  ASSUME TypeOK, RunsAreCurrent, NEW w \in Workers, MarkWrite(w) \/ RecordWrite(w),
         Stored(run[w].lead)
  PROVE  /\ run'[w] = Onward(run[w])
         /\ \A k \in Kinds \ {run[w].kind} : /\ sent'[run[w].lead][k] = sent[run[w].lead][k]
                                             /\ reason'[run[w].lead][k] = reason[run[w].lead][k]
         /\ MarkWrite(w) => sent'[run[w].lead][run[w].kind] = TRUE
         /\ RecordWrite(w) => reason'[run[w].lead][run[w].kind] = run[w].code
         /\ RecordWrite(w) => sent' = sent
<1> DEFINE r == run[w]
           l == run[w].lead
           j == run[w].kind
<1>1. r \in RunType /\ l \in Leads /\ j \in Kinds /\ RunIsCurrent(r)
  BY DEF TypeOK, RunType, RunsAreCurrent
<1>2. r.read = reason[l] /\ r.pc \in {"markWrite", "recordWrite"}
  BY <1>1 DEF RunIsCurrent, MarkWrite, RecordWrite
<1>3. run'[w] = Onward(r)
  BY DEF MarkWrite, RecordWrite, Goto, Stored, TypeOK
<1>4. DOMAIN sent[l] = Kinds /\ DOMAIN reason[l] = Kinds
  BY <1>1 DEF TypeOK
<1>5. CASE MarkWrite(w)
  <2>1. sent' = [sent EXCEPT ![l] = [sent[l] EXCEPT ![j] = TRUE]]
    BY <1>5 DEF MarkWrite, Stored
  <2>2. reason' = [reason EXCEPT ![l] = Without(r.read, j)]
    BY <1>5 DEF MarkWrite, Stored
  <2>3. sent'[l] = [sent[l] EXCEPT ![j] = TRUE] /\ reason'[l] = Without(reason[l], j)
    BY <1>1, <1>2, <2>1, <2>2 DEF TypeOK
  <2>4. ~RecordWrite(w)
    BY <1>5 DEF MarkWrite, RecordWrite
  <2>5. QED BY <1>1, <1>3, <1>4, <2>3, <2>4 DEF Without
<1>6. CASE RecordWrite(w)
  <2>1. reason' = [reason EXCEPT ![l] = With(r.read, j, r.code)] /\ sent' = sent
    BY <1>6 DEF RecordWrite, Stored
  <2>2. reason'[l] = With(reason[l], j, r.code)
    BY <1>1, <1>2, <2>1 DEF TypeOK
  <2>3. ~MarkWrite(w)
    BY <1>6 DEF MarkWrite, RecordWrite
  <2>4. QED BY <1>1, <1>3, <1>4, <2>1, <2>2, <2>3 DEF With
<1>7. QED BY <1>5, <1>6

(* Every step of a run, up to its end, leaves it explained. *)
LEMMA RunStepExplains ==
  ASSUME TypeOK, RunsHoldTheLock, RunsAreCurrent, ExplainInv, NEW w \in Workers,
         \/ Find(w) \/ AlreadySent(w) \/ SendUnconfigured(w) \/ SendAccepted(w) \/ SendRefused(w)
         \/ SendUnanswered(w) \/ MarkRead(w) \/ RecordRead(w) \/ MarkWrite(w) \/ RecordWrite(w)
         \/ DbFails(w)
  PROVE  RunExplains(run[w])' /\ run'[w].pc # "idle"
<1> PICK r \in RunType : r = run[w]
  BY DEF TypeOK
<1> PICK l \in Leads : l = r.lead
  BY DEF RunType
<1>1. r.kind \in {"notify", "confirm"} /\ RunExplains(r) /\ RunIsCurrent(r)
  BY DEF RunType, Kinds, ExplainInv, RunsAreCurrent
<1>2. \A f : Goto(w, f) => run'[w] = f /\ UNCHANGED made
  BY DEF Goto, TypeOK, jobVars
<1>3. JobExplains(l) /\ (r.pc # "idle" => jobState[l] = "active")
  BY <1>1 DEF ExplainInv, RunsHoldTheLock, Holds
<1>4. \A f \in RunType : Onward(f).pc # "idle"
  BY DEF Onward, RunType
<1>5. CASE Find(w)
  <2>1. UNCHANGED <<status, sent, reason, faults, made>> /\ r.pc = "find"
    BY <1>2, <1>5 DEF Find, rowVars
  <2>2. CASE Stored(l)
    <3>1. /\ run'[w].pc = "send" /\ run'[w].lead = l /\ run'[w].snap = sent[l]
          /\ run'[w].final = r.final /\ run'[w].kind = r.kind /\ run'[w].retry = r.retry
      BY <1>1, <1>5, <2>2 DEF Find, Goto, Stored, TypeOK, RunType
    <3>2. QED BY <1>1, <2>1, <2>2, <3>1 DEF RunExplains, Stored, Explained, Settled, PastNotify, Sending,
              Marking, Recording, IsFinalAttempt
  <2>3. CASE ~Stored(l)
    <3>1. run'[w].pc = "finish" /\ run'[w].lead = l /\ run'[w].final = r.final /\ run'[w].retry = r.retry
      BY <1>1, <1>5, <2>3 DEF Find, Goto, Stored, TypeOK, RunType
    <3>2. QED BY <1>1, <2>1, <2>3, <3>1 DEF RunExplains, Stored, Sending, Marking, Recording, IsFinalAttempt
  <2>4. QED BY <2>2, <2>3
<1>6. CASE AlreadySent(w)
  <2>1. /\ UNCHANGED <<status, sent, reason, faults, made>> /\ r.pc = "send" /\ r.snap[r.kind]
        /\ run'[w] = Onward(r)
    BY <1>2, <1>6 DEF AlreadySent, rowVars
  <2>2. Stored(l)' =>
           /\ \A k \in Kinds : r.snap[k] => sent'[l][k]
           /\ r.retry \/ Settled(l)'
           /\ faults' = 0 /\ r.final => Explained(l, "notify")'
           /\ faults' = 0 /\ r.final /\ r.kind = "confirm" => Explained(l, "confirm")'
    BY <1>1, <2>1 DEF RunExplains, Stored, Explained, Settled, PastNotify, Sending, Kinds
  <2>3. r.final = IsFinalAttempt(made'[l])
    BY <1>1, <2>1 DEF RunExplains, IsFinalAttempt
  <2>4. QED BY <1>1, <1>4, <2>1, <2>2, <2>3, OnwardExplains
<1>7. CASE SendUnconfigured(w)
  <2>1. UNCHANGED <<status, sent, reason, faults, made>> /\ r.pc = "send"
    BY <1>2, <1>7 DEF SendUnconfigured, rowVars
  <2>2. /\ run'[w].pc = "recordRead" /\ run'[w].lead = l /\ run'[w].code = "unconfigured"
        /\ run'[w].kind = r.kind /\ run'[w].snap = r.snap /\ run'[w].final = r.final
        /\ run'[w].retry = r.retry
    BY <1>1, <1>7 DEF SendUnconfigured, Goto, TypeOK, RunType
  <2>3. QED BY <1>1, <2>1, <2>2 DEF RunExplains, Stored, Explained, Settled, PastNotify, Sending, Marking,
            Recording, IsFinalAttempt
<1>8. CASE SendAccepted(w)
  <2>1. UNCHANGED <<status, sent, reason, faults, made>> /\ r.pc = "send"
    BY <1>2, <1>8 DEF SendAccepted, CanSend, rowVars
  <2>2. /\ run'[w].pc = "markRead" /\ run'[w].lead = l
        /\ run'[w].kind = r.kind /\ run'[w].snap = r.snap /\ run'[w].final = r.final
        /\ run'[w].retry = r.retry
    BY <1>1, <1>8 DEF SendAccepted, Goto, TypeOK, RunType
  <2>3. QED BY <1>1, <2>1, <2>2 DEF RunExplains, Stored, Explained, Settled, PastNotify, Sending, Marking,
            Recording, IsFinalAttempt
<1>9. CASE SendRefused(w) \/ SendUnanswered(w)
  <2>1. UNCHANGED <<status, sent, reason>> /\ r.pc = "send" /\ (faults' = 0 => faults = 0)
    BY <1>9, DeliveryAssumption DEF SendRefused, SendUnanswered, CanSend, rowVars, TypeOK
  <2>2. PICK e \in SendErrors : Goto(w, AfterFailure(r, e))
    BY <1>9, DeliveryAssumption DEF SendRefused, SendUnanswered
  <2>3. run'[w] = AfterFailure(r, e) /\ UNCHANGED made
    BY <1>2, <2>2
  <2>4. AfterFailure(r, e).pc # "idle"
    BY <1>1 DEF AfterFailure, Onward, RunType
  <2>5. QED BY <2>1, <2>3, <2>4, AfterFailureExplains
<1>10. CASE MarkRead(w) \/ RecordRead(w)
  <2>1. UNCHANGED <<status, sent, reason, faults, made>>
    BY <1>2, <1>10 DEF MarkRead, RecordRead, ReadReason, rowVars
  <2>2. CASE MarkRead(w)
    <3>1. /\ run'[w].pc = "markWrite" /\ run'[w].lead = l /\ r.pc = "markRead"
          /\ run'[w].kind = r.kind /\ run'[w].snap = r.snap /\ run'[w].final = r.final
          /\ run'[w].retry = r.retry
      BY <1>1, <2>2 DEF MarkRead, ReadReason, Goto, TypeOK, RunType
    <3>2. QED BY <1>1, <2>1, <3>1 DEF RunExplains, Stored, Explained, Settled, PastNotify, Sending, Marking,
              Recording, IsFinalAttempt
  <2>3. CASE RecordRead(w)
    <3>1. /\ run'[w].pc = "recordWrite" /\ run'[w].lead = l /\ r.pc = "recordRead"
          /\ run'[w].kind = r.kind /\ run'[w].snap = r.snap /\ run'[w].final = r.final
          /\ run'[w].retry = r.retry /\ run'[w].code = r.code
      BY <1>1, <2>3 DEF RecordRead, ReadReason, Goto, TypeOK, RunType
    <3>2. QED BY <1>1, <2>1, <3>1 DEF RunExplains, Stored, Explained, Settled, PastNotify, Sending, Marking,
              Recording, IsFinalAttempt
  <2>4. QED BY <1>10, <2>2, <2>3
<1>11. CASE MarkWrite(w) \/ RecordWrite(w)
  <2>1. UNCHANGED <<status, faults, made>> /\ r.pc \in {"markWrite", "recordWrite"}
    BY <1>2, <1>11 DEF MarkWrite, RecordWrite, Goto, jobVars
  <2>2. CASE ~Stored(l)
    <3>1. run'[w].pc = "throw" /\ run'[w].lead = l /\ run'[w].final = r.final /\ ~Stored(l)'
      BY <1>1, <1>11, <2>1, <2>2 DEF MarkWrite, RecordWrite, Goto, Stored, TypeOK, RunType
    <3>2. QED BY <1>1, <2>1, <3>1 DEF RunExplains, Stored, Sending, Marking, Recording, IsFinalAttempt
  <2>3. CASE Stored(l)
    <3>1. run'[w] = Onward(r)
      BY <1>11, <2>3, RowWrites
    <3>2. /\ \A k \in Kinds \ {r.kind} : sent'[l][k] = sent[l][k] /\ reason'[l][k] = reason[l][k]
          /\ MarkWrite(w) => sent'[l][r.kind] = TRUE
          /\ RecordWrite(w) => reason'[l][r.kind] = r.code /\ sent' = sent
      BY <1>11, <2>3, RowWrites
    <3>3. RecordWrite(w) => r.code # "none" /\ (r.retry \/ r.code = "unconfigured")
      BY <1>1 DEF RunExplains, Recording, RecordWrite
    <3>4. \A k \in Kinds : sent[l][k] => sent'[l][k]
      BY <1>11, <3>2
    <3>5. (r.kind = "confirm" => PastNotify(r)) /\ r.pc # "idle"
      BY <2>1 DEF PastNotify, Sending, Marking, Recording
    <3>6. Explained(l, r.kind)'
      BY <1>11, <3>2, <3>3 DEF Explained
    <3>7. r.kind = "confirm" =>
            /\ Settled(l) => Settled(l)'
            /\ Explained(l, "notify") => Explained(l, "notify")'
      BY <3>2 DEF Settled, Explained, Kinds
    <3>8. r.kind = "notify" => r.retry \/ Settled(l)'
      BY <1>11, <3>2, <3>3 DEF Settled
    <3>9. /\ \A k \in Kinds : r.snap[k] => sent'[l][k]
          /\ r.retry \/ Settled(l)'
          /\ faults' = 0 /\ r.final => Explained(l, "notify")'
          /\ r.kind = "confirm" => Explained(l, "confirm")'
      BY <1>1, <2>1, <2>3, <3>4, <3>5, <3>6, <3>7, <3>8 DEF RunExplains
    <3>10. r.final = IsFinalAttempt(made'[l])
      BY <1>1, <2>1 DEF RunExplains, IsFinalAttempt
    <3>11. QED BY <1>1, <1>4, <3>1, <3>9, <3>10, OnwardExplains
  <2>4. QED BY <2>2, <2>3
<1>12. CASE DbFails(w)
  <2>1. UNCHANGED <<status, sent, reason, made>> /\ faults' # 0 /\ r.pc # "idle"
    BY <1>2, <1>12, DeliveryAssumption DEF DbFails, rowVars, TypeOK
  <2>2. /\ run'[w].pc = "throw" /\ run'[w].lead = l /\ run'[w].snap = r.snap
        /\ run'[w].final = r.final
    BY <1>1, <1>12 DEF DbFails, Goto, TypeOK, RunType
  <2>3. QED BY <1>1, <2>1, <2>2 DEF RunExplains, Stored, PastNotify, Sending, Marking, Recording, IsFinalAttempt
<1>13. QED BY <1>5, <1>6, <1>7, <1>8, <1>9, <1>10, <1>11, <1>12

(* A run that ends settles its job: completed if nothing asks for a retry, *)
(* failed after the final attempt.                                         *)
LEMMA RunEnds ==
  ASSUME TypeOK, RunsHoldTheLock, ExplainInv, NEW w \in Workers, Complete(w) \/ Fail(w)
  PROVE  ExplainInv'
<1> PICK r \in RunType : r = run[w]
  BY DEF TypeOK
<1> PICK l \in Leads : l = r.lead
  BY DEF RunType
<1>1. r.pc # "idle" /\ RunExplains(r) /\ JobExplains(l) /\ Holds(w, l)
  BY DEF Complete, Fail, ExplainInv, RunsHoldTheLock
<1>2. UNCHANGED <<status, sent, reason, faults, adding, replay>>
  BY DEF Complete, Fail, EndRun, rowVars
<1>3. run'[w].pc = "idle" /\ \A v \in Workers \ {w} : run'[v] = run[v]
  BY DEF Complete, Fail, EndRun, IdleRun, TypeOK
<1>4. \A m \in Leads \ {l} : jobState'[m] = jobState[m] /\ lock'[m] = lock[m] /\ made'[m] = made[m]
  BY DEF Complete, Fail, SetJob, TypeOK
<1>5. JobExplains(l)'
  <2>1. CASE Complete(w)
    <3>1. jobState'[l] = "completed" /\ r.pc = "finish" /\ ~r.retry
      BY <1>1, <2>1 DEF Complete, SetJob, TypeOK
    <3>2. Stored(l) => sent[l]["notify"] \/ Replayable(reason[l])
      BY <1>1, <3>1 DEF RunExplains, PastNotify, Settled, Replayable
    <3>3. QED BY <1>1, <1>2, <3>1, <3>2 DEF JobExplains, Holds, Stored
  <2>2. CASE Fail(w)
    <3>1. jobState'[l] = AfterAttempt(made[l]) /\ (r.pc = "throw" \/ r.pc = "finish")
      BY <1>1, <2>2 DEF Fail, SetJob, TypeOK
    <3>2. jobState'[l] = "failed" => r.final
      <4>1. r.final = IsFinalAttempt(made[l]) /\ made[l] \in Nat
        BY <1>1, DeliveryAssumption DEF RunExplains, TypeOK
      <4>2. jobState'[l] = "failed" => IsFinalAttempt(made[l])
        BY <3>1, <4>1, DeliveryAssumption DEF AfterAttempt, IsFinalAttempt
      <4>3. QED BY <4>1, <4>2
    <3>3. jobState'[l] \in {"delayed", "failed"}
      BY <3>1 DEF AfterAttempt
    <3>4. faults = 0 /\ jobState'[l] = "failed" /\ Stored(l) => \A k \in Kinds : Explained(l, k)
      BY <1>1, <3>1, <3>2 DEF RunExplains, PastNotify, Kinds
    <3>5. QED BY <1>1, <1>2, <3>3, <3>4 DEF JobExplains, Holds, Stored, Explained
  <2>3. QED BY <2>1, <2>2
<1>6. ASSUME NEW m \in Leads \ {l} PROVE JobExplains(m)'
  <2>1. JobExplains(m)
    BY DEF ExplainInv
  <2>2. faults = 0 /\ jobState[m] = "active" => run'[lock[m]].pc # "idle" /\ run'[lock[m]].lead = m
    BY <1>3, <2>1 DEF JobExplains, Running
  <2>3. BeingReplayed(m) => BeingReplayed(m)'
    BY <1>2 DEF BeingReplayed, AtReplay
  <2>4. QED BY <1>2, <1>4, <2>1, <2>2, <2>3, JobStays DEF JobExplains
<1>7. RunExplains(run[w])'
  BY <1>3 DEF RunExplains
<1>8. ASSUME NEW v \in Workers \ {w} PROVE RunExplains(run[v])'
  <2>1. run[v].pc # "idle" => run[v].lead \in Leads \ {l}
    BY <1>1, OneRunPerLead DEF TypeOK, RunType
  <2>2. RunExplains(run[v])
    BY DEF ExplainInv
  <2>3. QED BY <1>2, <1>3, <1>4, <2>1, <2>2, RunStays DEF Stored
<1>9. QED BY <1>5, <1>6, <1>7, <1>8 DEF ExplainInv

LEMMA ExplainStep ==
  ASSUME ~LockLoss, TypeOK, RunsHoldTheLock, RunsAreCurrent, ExplainInv, [Next]_vars
  PROVE  ExplainInv'
<1>1. ASSUME NEW w \in Workers,
             \/ Find(w) \/ AlreadySent(w) \/ SendUnconfigured(w) \/ SendAccepted(w) \/ SendRefused(w)
             \/ SendUnanswered(w) \/ MarkRead(w) \/ RecordRead(w) \/ MarkWrite(w) \/ RecordWrite(w)
             \/ DbFails(w)
      PROVE  ExplainInv'
  <2>1. RunExplains(run[w])' /\ run'[w].pc # "idle"
    BY <1>1, RunStepExplains
  <2>2. \A v \in Workers \ {w} : run'[v] = run[v]
    BY <1>1, RunStepIsLocal DEF WorkerStep
  <2>3. run[w].pc # "idle" /\ run'[w].lead = run[w].lead
    BY <1>1, <2>1, RunStaysOnLead DEF WorkerStep
  <2>4. UNCHANGED <<status, adding, jobVars, replay>> /\ (faults' = 0 => faults = 0)
    BY <1>1, DeliveryAssumption DEF Find, AlreadySent, SendUnconfigured, SendAccepted, SendRefused,
       SendUnanswered, MarkRead, RecordRead, ReadReason, MarkWrite, RecordWrite, DbFails, Goto, rowVars,
       TypeOK
  <2>5. \A m \in Leads \ {run[w].lead} : sent'[m] = sent[m] /\ reason'[m] = reason[m]
    <3>1. CASE MarkWrite(w) \/ RecordWrite(w)
      BY <3>1 DEF MarkWrite, RecordWrite, TypeOK
    <3>2. CASE ~(MarkWrite(w) \/ RecordWrite(w))
      BY <1>1, <3>2 DEF Find, AlreadySent, SendUnconfigured, SendAccepted, SendRefused,
         SendUnanswered, MarkRead, RecordRead, ReadReason, DbFails, rowVars
    <3>3. QED BY <3>1, <3>2
  <2>6. QED BY <2>1, <2>2, <2>3, <2>4, <2>5, RunGoesOn
<1>2. QED BY <1>1, RowCommands, QueueSteps, ReplaySteps, OutsideSteps, RunBegins, RunIsCut, RunEnds
          DEF Next, WorkerStep

LEMMA ExplainInvariant ==
  ASSUME ~LockLoss PROVE Spec => []ExplainInv
<1>1. Init => ExplainInv
  <2> SUFFICES ASSUME Init PROVE ExplainInv
    OBVIOUS
  <2>1. \A w \in Workers : run[w].pc = "idle"
    BY DEF Init, IdleRun
  <2>2. \A l \in Leads : /\ status[l] = "none" /\ reason[l] = NoReason /\ jobState[l] = "none"
                         /\ adding[l] = FALSE /\ replay.todo = {}
    BY DEF Init, IdleReplay
  <2>3. QED BY <2>1, <2>2 DEF ExplainInv, RunExplains, JobExplains, Stored
<1>2. DeliveryInv /\ ExplainInv /\ [Next]_vars => ExplainInv'
  BY ExplainStep DEF DeliveryInv
<1>3. QED BY <1>1, <1>2, DeliveryCorrect, PTL DEF Spec

(* As long as nothing has crashed, a job in the failed set is explained by *)
(* its lead's row: what was not sent has its reason there.                 *)
THEOREM FailuresAreExplained ==
  ASSUME ~LockLoss PROVE Spec => []FailedIsExplained
<1>1. ExplainInv => FailedIsExplained
  BY DEF ExplainInv, JobExplains, FailedIsExplained, Explained, Stored
<1>2. QED BY <1>1, ExplainInvariant, PTL

(* Whatever crashes, and whatever is retried or replayed at the same time, *)
(* a stored lead that awaits its notification has a live job, a failed     *)
(* one, or a row that queue:replay takes up, provided that no replay is    *)
(* itself cut off between its remove and its add.                          *)
THEOREM NotificationsAreRecoverable ==
  ASSUME ~LockLoss, ~OperatorFaults PROVE Spec => []NotifyRecoverable
<1>1. TypeOK /\ ExplainInv => NotifyRecoverable
  <2> SUFFICES ASSUME TypeOK, ExplainInv, NEW l \in Leads, Stored(l), ~sent[l]["notify"]
               PROVE  jobState[l] \in Live \cup {"failed"} \/ Replayable(reason[l]) \/ BeingReplayed(l)
    BY DEF NotifyRecoverable
  <2>1. JobExplains(l) /\ jobState[l] \in JobStates
    BY DEF ExplainInv, TypeOK
  <2>2. QED BY <2>1 DEF JobExplains, JobStates
<1>2. QED BY <1>1, ExplainInvariant, TypeCorrect, PTL
=============================================================================
