----------------------------- MODULE RfqIntake -----------------------------
(***************************************************************************)
(* POST /api/rfq up to its answer, for several requests at once, and the   *)
(* erasure of a stored lead: the guards in their order, the rate limiter's *)
(* counter, the malware scan, the honeypot, the upload, the one insert,    *)
(* the enqueue; then object-first deletion.                                *)
(*                                                                         *)
(* A lead and its storage key are named by the request that made them (the *)
(* key holds a fresh UUID). What becomes of the row and its job after the  *)
(* answer is RfqDelivery's.                                                *)
(*                                                                         *)
(* External and modelled from how src/ uses them: Redis' counter, clamd,   *)
(* the object store, the database's sequence.                              *)
(***************************************************************************)
EXTENDS Naturals, FiniteSets

CONSTANTS
  Requests,   \* requests in flight or answered
  Clients,    \* rate-limit keys
  Forms,      \* bound: the requests considered, a subset of FormType
  Limit,      \* RFQ_RATE_LIMIT (5 in the code)
  Erasers,    \* concurrent runs of deleteLeadWithAttachment
  NoRequest   \* the lead of an idle eraser

FormType ==
  [client : Clients,
   body : {"refused", "invalid", "valid"},
   file : {"none", "clean", "infected"},
   trap : BOOLEAN]

ASSUME IntakeAssumption ==
  /\ Forms \subseteq FormType
  /\ Limit \in Nat
  /\ NoRequest \notin Requests

(* At any moment finitely many requests have come. *)
ASSUME FiniteAssumption == IsFiniteSet(Requests)

VARIABLES
  form,      \* what each request carries; `trap`: its honeypot field is filled
  step,      \* where its handler stands
  answer,    \* what it answered
  quoted,    \* the reference in that answer, 0 for none
  counter,   \* the limiter's counter of each client, 0 when its key is gone
  late,      \* increments in flight whose caller has stopped waiting
  seq,       \* lead_reference_seq
  objects,   \* the storage keys that exist
  upload,    \* what the handler's upload came to: "none", "clean", "failed"
  lead,      \* the rows
  jobs,      \* leads an rfq.submitted job was added for
  eraser,    \* the runs of deleteLeadWithAttachment
  unsure     \* history: inserts committed although their answer was lost

serverVars == <<step, answer, quoted, upload>>
limitVars == <<counter, late>>
storeVars == <<seq, objects, lead, jobs, unsure>>
vars == <<form, serverVars, limitVars, storeVars, eraser>>

NoLead == [state |-> "none", ref |-> 0, key |-> FALSE, scan |-> "none"]
IdleEraser == [pc |-> "idle", lead |-> NoRequest, key |-> FALSE]

Init ==
  /\ form \in [Requests -> Forms]
  /\ step = [r \in Requests |-> "guards"]
  /\ answer = [r \in Requests |-> "none"]
  /\ quoted = [r \in Requests |-> 0]
  /\ counter = [c \in Clients |-> 0]
  /\ late = [c \in Clients |-> 0]
  /\ seq = 0
  /\ objects = {}
  /\ upload = [r \in Requests |-> "none"]
  /\ lead = [r \in Requests |-> NoLead]
  /\ jobs = {}
  /\ eraser = [e \in Erasers |-> IdleEraser]
  /\ unsure = {}

-----------------------------------------------------------------------------
(* A definition whose name begins with Mutant is not part of the model: it *)
(* is the definition after it with a plausible bug, which the runs must    *)
(* catch when it takes that definition's place.                            *)
-----------------------------------------------------------------------------
(* The guards, in the order of the code.                                   *)

At(r, s) == step[r] = s

Goto(r, s) ==
  /\ step' = [step EXCEPT ![r] = s]
  /\ UNCHANGED <<form, answer, quoted, eraser>>

Answer(r, a, ref) ==
  /\ step' = [step EXCEPT ![r] = "done"]
  /\ answer' = [answer EXCEPT ![r] = a]
  /\ quoted' = [quoted EXCEPT ![r] = ref]
  /\ UNCHANGED <<form, eraser>>

(* 415 and 403 come before the limiter. *)
Refuse(r) ==
  /\ At(r, "guards") /\ form[r].body = "refused"
  /\ Answer(r, "refused", 0)
  /\ UNCHANGED <<limitVars, upload, storeVars>>

MutantCountsFirst(r) ==
  /\ At(r, "guards")
  /\ Goto(r, "limit")
  /\ UNCHANGED <<limitVars, upload, storeVars>>

Proceed(r) ==
  /\ At(r, "guards") /\ form[r].body # "refused"
  /\ Goto(r, "limit")
  /\ UNCHANGED <<limitVars, upload, storeVars>>

(* The MULTI: one increment, whose reply decides. *)
Over(n) == n > Limit

LimitReply(r) ==
  LET c == form[r].client
      n == counter[c] + 1
  IN  /\ At(r, "limit")
      /\ counter' = [counter EXCEPT ![c] = n]
      /\ IF Over(n) THEN Answer(r, "throttled", 0) ELSE Goto(r, "body")
      /\ UNCHANGED <<late, upload, storeVars>>

(* No client, an error, or no answer in time: the request is let through,  *)
(* and its increment may still be on its way.                              *)
LimitFailsOpen(r) ==
  /\ At(r, "limit")
  /\ Goto(r, "body")
  /\ late' \in {late, [late EXCEPT ![form[r].client] = @ + 1]}
  /\ UNCHANGED <<counter, upload, storeVars>>

LateIncrement(c) ==
  /\ late[c] > 0
  /\ late' = [late EXCEPT ![c] = @ - 1]
  /\ counter' \in {counter, [counter EXCEPT ![c] = @ + 1]}
  /\ UNCHANGED <<form, serverVars, storeVars, eraser>>

(* EXPIRE ... NX: the key goes at the end of its window. *)
WindowEnds(c) ==
  /\ counter[c] > 0
  /\ counter' = [counter EXCEPT ![c] = 0]
  /\ UNCHANGED <<form, serverVars, late, storeVars, eraser>>

(* 413 and 422: too large, unreadable, or rejected by the schema. *)
Reject(r) ==
  /\ At(r, "body") /\ form[r].body = "invalid"
  /\ Answer(r, "invalid", 0)
  /\ UNCHANGED <<limitVars, upload, storeVars>>

MutantStoresFirst(r) ==
  /\ At(r, "body") /\ form[r].body = "valid"
  /\ objects' = IF form[r].file = "none" THEN objects ELSE objects \cup {r}
  /\ Goto(r, IF form[r].file = "none" THEN "persist" ELSE "scan")
  /\ UNCHANGED <<limitVars, upload, seq, lead, jobs, unsure>>

MutantSkipsScan(r) ==
  /\ At(r, "body") /\ form[r].body = "valid"
  /\ Goto(r, "persist")
  /\ UNCHANGED <<limitVars, upload, storeVars>>

Validate(r) ==
  /\ At(r, "body") /\ form[r].body = "valid"
  /\ Goto(r, IF form[r].file = "none" THEN "persist" ELSE "scan")
  /\ UNCHANGED <<limitVars, upload, storeVars>>

(* clamd never passes an infected file; it may fail to judge a clean one.  *)
ScanPasses(r) ==
  /\ At(r, "scan") /\ form[r].file = "clean"
  /\ Goto(r, "persist")
  /\ UNCHANGED <<limitVars, upload, storeVars>>

ScanRejects(r) ==
  /\ At(r, "scan")
  /\ Answer(r, "scanFailed", 0)
  /\ UNCHANGED <<limitVars, upload, storeVars>>

-----------------------------------------------------------------------------
(* The honeypot's counterfeit: a reference burned off the real sequence.   *)

MutantMakesUp(r) ==
  /\ At(r, "persist") /\ form[r].trap
  /\ Answer(r, "created", seq + 1)
  /\ UNCHANGED <<limitVars, upload, storeVars>>

Burn(r) ==
  /\ At(r, "persist") /\ form[r].trap
  /\ seq' = seq + 1
  /\ Answer(r, "created", seq + 1)
  /\ UNCHANGED <<limitVars, upload, objects, lead, jobs, unsure>>

BurnFails(r) ==
  /\ At(r, "persist") /\ form[r].trap
  /\ Answer(r, "error", 0)
  /\ seq' \in {seq, seq + 1}
  /\ UNCHANGED <<limitVars, upload, objects, lead, jobs, unsure>>

-----------------------------------------------------------------------------
(* The upload and the insert.                                              *)

Genuine(r) == At(r, "persist") /\ ~form[r].trap

NoUpload(r) ==
  /\ Genuine(r) /\ form[r].file = "none"
  /\ Goto(r, "insert")
  /\ UNCHANGED <<limitVars, upload, storeVars>>

Upload(r) ==
  /\ Genuine(r) /\ form[r].file # "none"
  /\ objects' = objects \cup {r}
  /\ upload' = [upload EXCEPT ![r] = "clean"]
  /\ Goto(r, "insert")
  /\ UNCHANGED <<limitVars, seq, lead, jobs, unsure>>

(* putObject threw, which does not say that the object was not written. *)
UploadFails(r) ==
  /\ Genuine(r) /\ form[r].file # "none"
  /\ objects' \in {objects, objects \cup {r}}
  /\ upload' = [upload EXCEPT ![r] = "failed"]
  /\ Goto(r, "insert")
  /\ UNCHANGED <<limitVars, seq, lead, jobs, unsure>>

(* Key and verdict are columns of the one insert; the reference is its     *)
(* default, off the sequence.                                              *)
MutantKeepsKey(u) == u # "none"
RecordsKey(u) == u = "clean"

CommitLead(r) ==
  /\ seq' = seq + 1
  /\ lead' = [lead EXCEPT ![r] = [state |-> "stored", ref |-> seq + 1,
                                  key |-> RecordsKey(upload[r]), scan |-> upload[r]]]

Insert(r) ==
  /\ At(r, "insert")
  /\ CommitLead(r)
  /\ Goto(r, "enqueue")
  /\ UNCHANGED <<limitVars, upload, objects, jobs, unsure>>

MutantSwallows(r) ==
  /\ At(r, "insert")
  /\ Goto(r, "enqueue")
  /\ UNCHANGED <<limitVars, upload, storeVars>>

InsertFails(r) ==
  /\ At(r, "insert")
  /\ seq' \in {seq, seq + 1}
  /\ Answer(r, "error", 0)
  /\ UNCHANGED <<limitVars, upload, objects, lead, jobs, unsure>>

(* The row is committed, the connection is lost before its answer. *)
InsertUnanswered(r) ==
  /\ At(r, "insert")
  /\ CommitLead(r)
  /\ unsure' = unsure \cup {r}
  /\ Answer(r, "error", 0)
  /\ UNCHANGED <<limitVars, upload, objects, jobs>>

(* Fail-open: whatever became of the job, the answer is 201. *)
Enqueue(r) ==
  /\ At(r, "enqueue")
  /\ jobs' \in {jobs, jobs \cup {r}}
  /\ Answer(r, "created", lead[r].ref)
  /\ UNCHANGED <<limitVars, upload, seq, objects, lead, unsure>>

(* The process dies under the request, or a read of the chain throws. *)
Die(r) ==
  /\ step[r] \notin {"done", "dead"}
  /\ Goto(r, "dead")
  /\ UNCHANGED <<limitVars, upload, storeVars>>

-----------------------------------------------------------------------------
(* deleteLeadWithAttachment: read the key, delete the object, the row.     *)

MoveEraser(e, s) ==
  /\ eraser' = [eraser EXCEPT ![e] = s]
  /\ UNCHANGED <<form, serverVars, limitVars, seq, jobs, unsure>>

MutantRowFirst(e, r) ==
  /\ eraser[e].pc = "idle" /\ lead[r].state = "stored"
  /\ lead' = [lead EXCEPT ![r].state = "erased"]
  /\ MoveEraser(e, [pc |-> "object", lead |-> r, key |-> lead[r].key])
  /\ UNCHANGED objects

EraseRead(e, r) ==
  /\ eraser[e].pc = "idle" /\ lead[r].state = "stored"
  /\ MoveEraser(e, [pc |-> "object", lead |-> r, key |-> lead[r].key])
  /\ UNCHANGED <<objects, lead>>

EraseObject(e) ==
  /\ eraser[e].pc = "object"
  /\ objects' = IF eraser[e].key THEN objects \ {eraser[e].lead} ELSE objects
  /\ MoveEraser(e, [eraser[e] EXCEPT !.pc = "row"])
  /\ UNCHANGED lead

(* A row another eraser has deleted meanwhile makes the delete throw. *)
EraseRow(e) ==
  /\ eraser[e].pc = "row"
  /\ lead' = [lead EXCEPT ![eraser[e].lead].state = "erased"]
  /\ MoveEraser(e, IdleEraser)
  /\ UNCHANGED objects

(* Either deletion throws, or the process dies between the two. *)
EraseStops(e) ==
  /\ eraser[e].pc \in {"object", "row"}
  /\ MoveEraser(e, IdleEraser)
  /\ UNCHANGED <<objects, lead>>

-----------------------------------------------------------------------------
Handle(r) ==
  \/ Refuse(r) \/ Proceed(r)
  \/ LimitReply(r) \/ LimitFailsOpen(r)
  \/ Reject(r) \/ Validate(r)
  \/ ScanPasses(r) \/ ScanRejects(r)
  \/ Burn(r) \/ BurnFails(r)
  \/ NoUpload(r) \/ Upload(r) \/ UploadFails(r)
  \/ Insert(r) \/ InsertFails(r) \/ InsertUnanswered(r)
  \/ Enqueue(r)

Next ==
  \/ \E r \in Requests : Handle(r) \/ Die(r)
  \/ \E c \in Clients : LateIncrement(c) \/ WindowEnds(c)
  \/ \E e \in Erasers, r \in Requests : EraseRead(e, r)
  \/ \E e \in Erasers : EraseObject(e) \/ EraseRow(e) \/ EraseStops(e)

Spec == Init /\ [][Next]_vars

-----------------------------------------------------------------------------
Verdicts == {"none", "clean", "failed"}
LeadType == [state : {"none", "stored", "erased"}, ref : Nat, key : BOOLEAN, scan : Verdicts]

(* Type correctness of every variable. *)
TypeOK ==
  /\ form \in [Requests -> FormType]
  /\ step \in [Requests -> {"guards", "limit", "body", "scan", "persist",
                            "insert", "enqueue", "done", "dead"}]
  /\ answer \in [Requests -> {"none", "refused", "throttled", "invalid",
                              "scanFailed", "error", "created"}]
  /\ quoted \in [Requests -> Nat]
  /\ counter \in [Clients -> Nat]
  /\ late \in [Clients -> Nat]
  /\ seq \in Nat
  /\ objects \subseteq Requests
  /\ upload \in [Requests -> Verdicts]
  /\ lead \in [Requests -> LeadType]
  /\ jobs \subseteq Requests
  /\ eraser \in [Erasers -> [pc : {"idle", "object", "row"},
                             lead : Requests \cup {NoRequest}, key : BOOLEAN]]
  /\ unsure \subseteq Requests

Committed(r) == lead[r].state # "none"
Untouched(r) == ~Committed(r) /\ r \notin objects /\ r \notin jobs

(* The answer tells the truth about what was kept. The buyer's 201 and the *)
(* bot's are the same to look at: the buyer's has a committed row behind   *)
(* it, under the reference it quotes; the bot's has nothing behind it. A   *)
(* rejection leaves no row, no object, no job; a 500 leaves never a job,   *)
(* and a row only if the database's answer was lost.                       *)
CreatedIsTrue(r) ==
  answer[r] = "created" =>
    IF form[r].trap THEN Untouched(r) ELSE Committed(r) /\ lead[r].ref = quoted[r]

RejectedIsGone(r) ==
  /\ answer[r] \in {"refused", "throttled", "invalid", "scanFailed"} => Untouched(r)
  /\ answer[r] = "error" => (Committed(r) => r \in unsure) /\ r \notin jobs

AnswersAreTrue == \A r \in Requests : CreatedIsTrue(r) /\ RejectedIsGone(r)

(* A reference is never used twice: not by two rows, not by a bot's fake   *)
(* and a row, whatever fails or is erased in between.                      *)
Uses(r) == {n \in {quoted[r], lead[r].ref} : n # 0}

ReferencesAreUnique ==
  \A r, q \in Requests : r # q => Uses(r) \cap Uses(q) = {}

(* Malware-scanned before storage: an object comes into the store only if  *)
(* its file is clean and its sender fell into no trap; a row that names an *)
(* object has that verdict with it, and the object is there.               *)
OnlyCleanIsStored ==
  [][\A r \in Requests :
       /\ r \in objects' \ objects =>
            form[r].file = "clean" /\ form[r].body = "valid" /\ ~form[r].trap
       /\ ~lead[r].key /\ lead'[r].key => lead'[r].scan = "clean" /\ r \in objects']_vars

(* An erasure that reports success leaves no file of the lead, however     *)
(* many erasures of it overlap, fail or are retried: but for one whose     *)
(* upload was reported failed after it had landed, which no row names.     *)
ErasedLeavesNoFile ==
  \A r \in Requests :
    lead[r].state = "erased" /\ r \in objects => ~lead[r].key /\ lead[r].scan = "failed"

(* A client is throttled only by its own requests that passed the first    *)
(* guards: Limit of them came to the limiter before it.                    *)
CameToLimiter(r) == form[r].body # "refused" /\ step[r] \notin {"guards", "limit"}

ThrottleIsEarned ==
  \A r \in Requests : answer[r] = "throttled" =>
    Cardinality({q \in Requests \ {r} : CameToLimiter(q) /\ form[q].client = form[r].client})
      >= Limit
=============================================================================
