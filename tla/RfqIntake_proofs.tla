-------------------------- MODULE RfqIntake_proofs --------------------------
(* Theorems about RfqIntake and the desk on its leads, for any number of   *)
(* requests, clients, erasers and desks; and, at the end, about the memo   *)
(* (ConnectionMemo) through which intake reaches Redis, for any number of  *)
(* callers.                                                                *)
EXTENDS LeadDesk, ConnectionMemo, FiniteSetTheorems, TLAPS

(* Type correctness. *)
THEOREM IntakeTypeCorrect == Spec => []TypeOK
<1>1. Init => TypeOK
  BY IntakeAssumption DEF Init, TypeOK, NoLead, LeadType, Verdicts, IdleEraser, FormType
<1>2. TypeOK /\ [Next]_vars => TypeOK'
  <2> SUFFICES ASSUME TypeOK, [Next]_vars PROVE TypeOK'
    OBVIOUS
  <2> USE DEF TypeOK, serverVars, limitVars, storeVars
  <2>1. ASSUME NEW r \in Requests, Refuse(r) \/ Reject(r) \/ ScanRejects(r) PROVE TypeOK'
    BY <2>1 DEF Refuse, Reject, ScanRejects, Answer
  <2>2. ASSUME NEW r \in Requests, Proceed(r) \/ Validate(r) \/ ScanPasses(r) PROVE TypeOK'
    BY <2>2 DEF Proceed, Validate, ScanPasses, Goto
  <2>3. ASSUME NEW r \in Requests, LimitReply(r) PROVE TypeOK'
    <3>1. form[r].client \in Clients
      BY DEF FormType
    <3>2. counter' \in [Clients -> Nat]
      BY <2>3, <3>1 DEF LimitReply
    <3>3. CASE Over(counter[form[r].client] + 1)
      BY <2>3, <3>2, <3>3 DEF LimitReply, Answer
    <3>4. CASE ~Over(counter[form[r].client] + 1)
      BY <2>3, <3>2, <3>4 DEF LimitReply, Goto
    <3>5. QED BY <3>3, <3>4
  <2>4. ASSUME NEW r \in Requests, LimitFailsOpen(r) PROVE TypeOK'
    <3>1. form[r].client \in Clients
      BY DEF FormType
    <3>2. late' \in [Clients -> Nat]
      BY <2>4, <3>1 DEF LimitFailsOpen
    <3>3. QED BY <2>4, <3>2 DEF LimitFailsOpen, Goto
  <2>5. ASSUME NEW c \in Clients, LateIncrement(c) PROVE TypeOK'
    <3>1. late' \in [Clients -> Nat] /\ counter' \in [Clients -> Nat]
      BY <2>5 DEF LateIncrement
    <3>2. QED BY <2>5, <3>1 DEF LateIncrement
  <2>6. ASSUME NEW c \in Clients, WindowEnds(c) PROVE TypeOK'
    BY <2>6 DEF WindowEnds
  <2>7. ASSUME NEW r \in Requests, Burn(r) \/ BurnFails(r) \/ InsertFails(r) PROVE TypeOK'
    <3>1. seq' \in Nat
      BY <2>7 DEF Burn, BurnFails, InsertFails
    <3>2. QED BY <2>7, <3>1 DEF Burn, BurnFails, InsertFails, Answer
  <2>8. ASSUME NEW r \in Requests, NoUpload(r) \/ Upload(r) \/ UploadFails(r) PROVE TypeOK'
    BY <2>8 DEF NoUpload, Upload, UploadFails, Goto, Verdicts
  <2>9. ASSUME NEW r \in Requests, CommitLead(r) PROVE seq' \in Nat /\ lead' \in [Requests -> LeadType]
    <3>1. RecordsKey(upload[r]) \in BOOLEAN
      BY DEF RecordsKey
    <3>2. QED BY <2>9, <3>1 DEF CommitLead, LeadType
  <2>10. ASSUME NEW r \in Requests, Insert(r) PROVE TypeOK'
    BY <2>9, <2>10 DEF Insert, Goto
  <2>11. ASSUME NEW r \in Requests, InsertUnanswered(r) PROVE TypeOK'
    BY <2>9, <2>11 DEF InsertUnanswered, Answer
  <2>12. ASSUME NEW r \in Requests, Enqueue(r) PROVE TypeOK'
    BY <2>12 DEF Enqueue, Answer, LeadType
  <2>13. ASSUME NEW r \in Requests, Die(r) PROVE TypeOK'
    BY <2>13 DEF Die, Goto
  <2>14. ASSUME NEW e \in Erasers, NEW r \in Requests, EraseRead(e, r) PROVE TypeOK'
    BY <2>14 DEF EraseRead, MoveEraser, LeadType
  <2>15. ASSUME NEW e \in Erasers, EraseObject(e) PROVE TypeOK'
    <3>1. [eraser[e] EXCEPT !.pc = "row"] \in [pc : {"idle", "object", "row"},
             lead : Requests \cup {NoRequest}, key : BOOLEAN]
      OBVIOUS
    <3>2. objects' \subseteq Requests
      BY <2>15 DEF EraseObject
    <3>3. QED BY <2>15, <3>1, <3>2 DEF EraseObject, MoveEraser
  <2>16. ASSUME NEW e \in Erasers, EraseRow(e) PROVE TypeOK'
    <3>1. lead' \in [Requests -> LeadType]
      <4>1. \A r \in Requests : [lead[r] EXCEPT !.state = "erased"] \in LeadType
        BY DEF LeadType
      <4>2. lead' = [r \in Requests |-> IF r = eraser[e].lead
                                        THEN [lead[r] EXCEPT !.state = "erased"] ELSE lead[r]]
        BY <2>16 DEF EraseRow
      <4>3. QED BY <4>1, <4>2
    <3>2. QED BY <2>16, <3>1 DEF EraseRow, MoveEraser, IdleEraser
  <2>17. ASSUME NEW e \in Erasers, EraseStops(e) PROVE TypeOK'
    BY <2>17 DEF EraseStops, MoveEraser, IdleEraser
  <2>18. CASE UNCHANGED vars
    BY <2>18 DEF vars
  <2>19. QED BY <2>1, <2>2, <2>3, <2>4, <2>5, <2>6, <2>7, <2>8, <2>10, <2>11, <2>12, <2>13,
                <2>14, <2>15, <2>16, <2>17, <2>18 DEF Next, Handle
<1>3. QED BY <1>1, <1>2, PTL DEF Spec

-----------------------------------------------------------------------------
(* References come off one counter: every one in use is behind it.         *)

RefsAreBehindSeq ==
  \A r \in Requests : quoted[r] <= seq /\ lead[r].ref <= seq

(* Whatever happens, a request's references either stay or gain the next   *)
(* value of the sequence, and only one request gains it.                   *)
RefsStay(r) == quoted'[r] \in {0, quoted[r], lead[r].ref} /\ lead'[r].ref = lead[r].ref
RefsGainNext(r) ==
  /\ seq' = seq + 1
  /\ quoted'[r] \in {0, quoted[r], seq + 1}
  /\ lead'[r].ref \in {lead[r].ref, seq + 1}

LEMMA RefsStep ==
  ASSUME TypeOK, TypeOK', [Next]_vars
  PROVE  /\ seq' \in {seq, seq + 1}
         /\ \/ \A q \in Requests : RefsStay(q)
            \/ \E r \in Requests : RefsGainNext(r) /\ \A q \in Requests \ {r} : RefsStay(q)
<1> USE DEF TypeOK, RefsStay
<1>1. ASSUME UNCHANGED <<quoted, lead>>, seq' \in {seq, seq + 1}
      PROVE  seq' \in {seq, seq + 1} /\ \A q \in Requests : RefsStay(q)
  BY <1>1
<1>2. ASSUME NEW r \in Requests, NEW a, Answer(r, a, 0), UNCHANGED lead
      PROVE  \A q \in Requests : RefsStay(q)
  BY <1>2 DEF Answer
<1>3. ASSUME NEW r \in Requests,
             Refuse(r) \/ Reject(r) \/ ScanRejects(r) \/ BurnFails(r) \/ InsertFails(r)
      PROVE  seq' \in {seq, seq + 1} /\ \A q \in Requests : RefsStay(q)
  BY <1>2, <1>3 DEF Refuse, Reject, ScanRejects, BurnFails, InsertFails, storeVars
<1>4. ASSUME NEW r \in Requests,
             \/ Proceed(r) \/ Validate(r) \/ ScanPasses(r) \/ LimitFailsOpen(r)
             \/ NoUpload(r) \/ Upload(r) \/ UploadFails(r) \/ Die(r)
      PROVE  seq' \in {seq, seq + 1} /\ \A q \in Requests : RefsStay(q)
  BY <1>1, <1>4 DEF Proceed, Validate, ScanPasses, LimitFailsOpen, NoUpload, Upload, UploadFails,
     Die, Goto, storeVars
<1>5. ASSUME NEW r \in Requests, LimitReply(r)
      PROVE  seq' \in {seq, seq + 1} /\ \A q \in Requests : RefsStay(q)
  <2>1. UNCHANGED <<seq, lead>>
    BY <1>5 DEF LimitReply, storeVars
  <2>2. Answer(r, "throttled", 0) \/ Goto(r, "body")
    BY <1>5 DEF LimitReply
  <2>3. QED BY <1>1, <1>2, <2>1, <2>2 DEF Goto
<1>6. ASSUME NEW c \in Clients, LateIncrement(c) \/ WindowEnds(c)
      PROVE  seq' \in {seq, seq + 1} /\ \A q \in Requests : RefsStay(q)
  BY <1>1, <1>6 DEF LateIncrement, WindowEnds, serverVars, storeVars
<1>7. ASSUME NEW e \in Erasers, NEW r \in Requests, EraseRead(e, r)
      PROVE  seq' \in {seq, seq + 1} /\ \A q \in Requests : RefsStay(q)
  BY <1>1, <1>7 DEF EraseRead, MoveEraser, serverVars
<1>8. ASSUME NEW e \in Erasers, EraseObject(e) \/ EraseStops(e)
      PROVE  seq' \in {seq, seq + 1} /\ \A q \in Requests : RefsStay(q)
  BY <1>1, <1>8 DEF EraseObject, EraseStops, MoveEraser, serverVars
<1>9. ASSUME NEW e \in Erasers, EraseRow(e)
      PROVE  seq' \in {seq, seq + 1} /\ \A q \in Requests : RefsStay(q)
  <2>1. UNCHANGED <<seq, quoted>>
    BY <1>9 DEF EraseRow, MoveEraser, serverVars
  <2>2. \A q \in Requests : lead'[q].ref = lead[q].ref
    BY <1>9 DEF EraseRow, LeadType
  <2>3. QED BY <2>1, <2>2
<1>10. ASSUME NEW r \in Requests, Enqueue(r)
       PROVE  seq' \in {seq, seq + 1} /\ \A q \in Requests : RefsStay(q)
  BY <1>10 DEF Enqueue, Answer
<1>11. ASSUME NEW r \in Requests, Burn(r)
       PROVE  seq' = seq + 1 /\ RefsGainNext(r) /\ \A q \in Requests \ {r} : RefsStay(q)
  BY <1>11 DEF Burn, Answer, RefsGainNext
<1>12. ASSUME NEW r \in Requests, Insert(r) \/ InsertUnanswered(r)
       PROVE  seq' = seq + 1 /\ RefsGainNext(r) /\ \A q \in Requests \ {r} : RefsStay(q)
  <2>1. seq' = seq + 1 /\ lead'[r].ref = seq + 1 /\ \A q \in Requests \ {r} : lead'[q] = lead[q]
    BY <1>12 DEF Insert, InsertUnanswered, CommitLead
  <2>2. quoted'[r] \in {0, quoted[r]} /\ \A q \in Requests \ {r} : quoted'[q] = quoted[q]
    BY <1>12 DEF Insert, InsertUnanswered, Goto, Answer
  <2>3. QED BY <2>1, <2>2 DEF RefsGainNext
<1>13. CASE UNCHANGED vars
  BY <1>1, <1>13 DEF vars, serverVars, storeVars
<1>14. QED BY <1>3, <1>4, <1>5, <1>6, <1>7, <1>8, <1>9, <1>10, <1>11, <1>12, <1>13
       DEF Next, Handle

(* No reference is used by two requests, whether it is on a row or a bot's *)
(* counterfeit, in any number of concurrent requests.                      *)
THEOREM UniqueReferences == Spec => []ReferencesAreUnique
<1>1. Init => RefsAreBehindSeq /\ ReferencesAreUnique
  BY DEF Init, NoLead, RefsAreBehindSeq, ReferencesAreUnique, Uses
<1>2. ASSUME TypeOK, TypeOK', RefsAreBehindSeq, ReferencesAreUnique, [Next]_vars
      PROVE  RefsAreBehindSeq' /\ ReferencesAreUnique'
  <2> USE DEF RefsStay, RefsGainNext
  <2>1. /\ seq \in Nat /\ seq' \in {seq, seq + 1}
        /\ \A q \in Requests : quoted[q] \in Nat /\ lead[q].ref \in Nat
    BY <1>2, RefsStep DEF TypeOK, LeadType
  <2>2. /\ \A q \in Requests : RefsStay(q) => quoted'[q] <= seq' /\ lead'[q].ref <= seq'
        /\ \A q \in Requests : RefsGainNext(q) => quoted'[q] <= seq' /\ lead'[q].ref <= seq'
    BY <1>2, <2>1 DEF RefsAreBehindSeq
  <2>3. RefsAreBehindSeq'
    BY <1>2, <2>2, RefsStep DEF RefsAreBehindSeq
  <2>4. \A q \in Requests : RefsStay(q) => Uses(q)' \subseteq Uses(q)
    BY DEF Uses
  <2>5. \A q \in Requests : RefsGainNext(q) => Uses(q)' \subseteq Uses(q) \cup {seq + 1}
    BY DEF Uses
  <2>6. \A q \in Requests : seq + 1 \notin Uses(q)
    BY <1>2, <2>1 DEF RefsAreBehindSeq, Uses
  <2>7. ReferencesAreUnique'
    BY <1>2, <2>4, <2>5, <2>6, RefsStep DEF ReferencesAreUnique
  <2>8. QED BY <2>3, <2>7
<1>3. QED BY <1>1, <1>2, IntakeTypeCorrect, PTL DEF Spec

-----------------------------------------------------------------------------
(* A request that has its row uploads no more; an eraser works from the    *)
(* key of its row, which never changes; past the object's deletion the     *)
(* object stays away.                                                      *)

NamedFilesGo ==
  \A r \in Requests : lead[r].state = "erased" /\ lead[r].key => r \notin objects

ErasureInv ==
  /\ \A r \in Requests : Committed(r) => step[r] \in {"enqueue", "done", "dead"}
  /\ \A e \in Erasers : eraser[e].pc # "idle" =>
       /\ eraser[e].lead \in Requests
       /\ Committed(eraser[e].lead)
       /\ lead[eraser[e].lead].key = eraser[e].key
  /\ \A e \in Erasers : eraser[e].pc = "row" /\ eraser[e].key => eraser[e].lead \notin objects
  /\ NamedFilesGo

(* The steps that leave rows and erasers alone and whose request, if it    *)
(* stores an object or turns back, has no row.                             *)
LEMMA RequestStep ==
  ASSUME TypeOK, ErasureInv, NEW r \in Requests, UNCHANGED <<lead, eraser>>,
         \A q \in Requests \ {r} : step'[q] = step[q],
         objects' \subseteq objects \cup {r},
         Committed(r) => objects' \subseteq objects /\ step'[r] \in {"enqueue", "done", "dead"}
  PROVE  ErasureInv'
<1>1. \A q \in Requests : q \in objects' /\ Committed(q) => q \in objects
  OBVIOUS
<1>2. \A q \in Requests : lead[q].state = "erased" => Committed(q)
  BY DEF Committed
<1>3. QED BY <1>1, <1>2 DEF ErasureInv, Committed, NamedFilesGo

(* The insert makes a row of a request that had none. *)
LEMMA CommitStep ==
  ASSUME TypeOK, ErasureInv, NEW r \in Requests, CommitLead(r), UNCHANGED <<objects, eraser>>,
         step[r] = "insert", step'[r] \in {"enqueue", "done"},
         \A q \in Requests \ {r} : step'[q] = step[q]
  PROVE  ErasureInv'
<1>1. ~Committed(r)
  BY DEF ErasureInv
<1>2. /\ \A q \in Requests \ {r} : lead'[q] = lead[q]
      /\ lead'[r].state = "stored"
  BY DEF CommitLead, TypeOK
<1>3. \A e \in Erasers : eraser[e].pc # "idle" => eraser[e].lead \in Requests \ {r}
  BY <1>1 DEF ErasureInv
<1>4. QED BY <1>2, <1>3 DEF ErasureInv, Committed, NamedFilesGo

LEMMA ErasureStep ==
  ASSUME TypeOK, ErasureInv, [Next]_vars
  PROVE  ErasureInv'
<1> USE DEF TypeOK
<1>1. ASSUME NEW r \in Requests,
             \/ Refuse(r) \/ Reject(r) \/ ScanRejects(r) \/ Burn(r) \/ BurnFails(r)
             \/ InsertFails(r) \/ Enqueue(r)
      PROVE  ErasureInv'
  <2>1. UNCHANGED <<lead, eraser, objects>>
    BY <1>1 DEF Refuse, Reject, ScanRejects, Burn, BurnFails, InsertFails, Enqueue, Answer, storeVars
  <2>2. step'[r] = "done" /\ \A q \in Requests \ {r} : step'[q] = step[q]
    BY <1>1 DEF Refuse, Reject, ScanRejects, Burn, BurnFails, InsertFails, Enqueue, Answer
  <2>3. QED BY <2>1, <2>2, RequestStep
<1>2. ASSUME NEW r \in Requests,
             \/ Proceed(r) \/ Validate(r) \/ ScanPasses(r) \/ LimitReply(r) \/ LimitFailsOpen(r)
             \/ NoUpload(r) \/ Upload(r) \/ UploadFails(r)
      PROVE  ErasureInv'
  <2>1. step[r] \in {"guards", "limit", "body", "scan", "persist"}
    BY <1>2 DEF Proceed, Validate, ScanPasses, LimitReply, LimitFailsOpen, NoUpload, Upload,
       UploadFails, Genuine, At
  <2>2. ~Committed(r)
    BY <2>1 DEF ErasureInv
  <2>3. UNCHANGED <<lead, eraser>> /\ objects' \subseteq objects \cup {r}
    BY <1>2 DEF Proceed, Validate, ScanPasses, LimitReply, LimitFailsOpen, NoUpload, Upload,
       UploadFails, Goto, Answer, storeVars
  <2>4. \A q \in Requests \ {r} : step'[q] = step[q]
    BY <1>2 DEF Proceed, Validate, ScanPasses, LimitReply, LimitFailsOpen, NoUpload, Upload,
       UploadFails, Goto, Answer
  <2>5. QED BY <2>2, <2>3, <2>4, RequestStep
<1>3. ASSUME NEW r \in Requests, Die(r) PROVE ErasureInv'
  <2>1. step'[r] = "dead" /\ \A q \in Requests \ {r} : step'[q] = step[q]
    BY <1>3 DEF Die, Goto
  <2>2. UNCHANGED <<lead, eraser, objects>>
    BY <1>3 DEF Die, Goto, storeVars
  <2>3. QED BY <2>1, <2>2, RequestStep
<1>4. ASSUME NEW r \in Requests, Insert(r) \/ InsertUnanswered(r) PROVE ErasureInv'
  <2>1. CommitLead(r) /\ step[r] = "insert" /\ UNCHANGED <<objects, eraser>>
    BY <1>4 DEF Insert, InsertUnanswered, At, Goto, Answer
  <2>2. step'[r] \in {"enqueue", "done"} /\ \A q \in Requests \ {r} : step'[q] = step[q]
    BY <1>4 DEF Insert, InsertUnanswered, Goto, Answer
  <2>3. QED BY <2>1, <2>2, CommitStep
<1>5. ASSUME NEW c \in Clients, LateIncrement(c) \/ WindowEnds(c) PROVE ErasureInv'
  BY <1>5 DEF LateIncrement, WindowEnds, serverVars, storeVars,
     ErasureInv, Committed, NamedFilesGo
<1>6. ASSUME NEW e \in Erasers, NEW r \in Requests, EraseRead(e, r) PROVE ErasureInv'
  <2>1. UNCHANGED <<step, lead, objects>>
    BY <1>6 DEF EraseRead, MoveEraser, serverVars
  <2>2. /\ eraser'[e] = [pc |-> "object", lead |-> r, key |-> lead[r].key]
        /\ \A d \in Erasers \ {e} : eraser'[d] = eraser[d]
        /\ Committed(r)
    BY <1>6 DEF EraseRead, MoveEraser, Committed
  <2>3. QED BY SMTT(30), <2>1, <2>2 DEF ErasureInv, Committed, NamedFilesGo
<1>7. ASSUME NEW e \in Erasers, EraseObject(e) PROVE ErasureInv'
  <2>1. UNCHANGED <<step, lead>>
    BY <1>7 DEF EraseObject, MoveEraser, serverVars
  <2>2. /\ eraser'[e].pc = "row" /\ eraser'[e].lead = eraser[e].lead
        /\ eraser'[e].key = eraser[e].key
        /\ \A d \in Erasers \ {e} : eraser'[d] = eraser[d]
    BY <1>7 DEF EraseObject, MoveEraser
  <2>3. objects' \subseteq objects /\ (eraser[e].key => eraser[e].lead \notin objects')
    BY <1>7 DEF EraseObject
  <2>4. eraser[e].pc # "idle"
    BY <1>7 DEF EraseObject
  <2>5. QED BY SMTT(30), <2>1, <2>2, <2>3, <2>4 DEF ErasureInv, Committed, NamedFilesGo
<1>8. ASSUME NEW e \in Erasers, EraseStops(e) PROVE ErasureInv'
  <2>1. UNCHANGED <<step, lead, objects>>
    BY <1>8 DEF EraseStops, MoveEraser, serverVars
  <2>2. eraser'[e].pc = "idle" /\ \A d \in Erasers \ {e} : eraser'[d] = eraser[d]
    BY <1>8 DEF EraseStops, MoveEraser, IdleEraser
  <2>3. QED BY <2>1, <2>2 DEF ErasureInv, Committed, NamedFilesGo
<1>9. ASSUME NEW e \in Erasers, EraseRow(e) PROVE ErasureInv'
  <2> DEFINE l == eraser[e].lead
  <2>1. UNCHANGED <<step, objects>> /\ eraser[e].pc = "row"
    BY <1>9 DEF EraseRow, MoveEraser, serverVars
  <2>2. eraser'[e].pc = "idle" /\ \A d \in Erasers \ {e} : eraser'[d] = eraser[d]
    BY <1>9 DEF EraseRow, MoveEraser, IdleEraser
  <2>3. l \in Requests /\ Committed(l) /\ (lead[l].key => l \notin objects)
    BY <2>1 DEF ErasureInv
  <2>4. /\ \A q \in Requests \ {l} : lead'[q] = lead[q]
        /\ lead'[l].state = "erased" /\ lead'[l].key = lead[l].key
    BY <1>9, <2>3 DEF EraseRow, LeadType
  <2>5. QED BY SMTT(30), <2>1, <2>2, <2>3, <2>4 DEF ErasureInv, Committed, NamedFilesGo
<1>10. CASE UNCHANGED vars
  BY <1>10 DEF vars, serverVars, storeVars, ErasureInv, Committed, NamedFilesGo
<1>11. QED BY <1>1, <1>2, <1>3, <1>4, <1>5, <1>6, <1>7, <1>8, <1>9, <1>10 DEF Next, Handle

-----------------------------------------------------------------------------
(* Where a handler stands says what is kept of its request. Before the     *)
(* upload there is nothing; only a valid form of a buyer, with no infected *)
(* file, comes to the insert or has a row; the upload's outcome is what    *)
(* the row records.                                                        *)

BeforeUpload == {"guards", "limit", "body", "scan", "persist"}

IsFit(r) ==
  /\ form[r].body = "valid" /\ form[r].file # "infected" /\ ~form[r].trap
  /\ upload[r] = "none" <=> form[r].file = "none"

Progress(r) ==
  /\ step[r] # "done" => answer[r] = "none"
  /\ step[r] \in BeforeUpload => Untouched(r) /\ upload[r] = "none"
  /\ upload[r] = "none" => r \notin objects
  /\ step[r] \in {"scan", "persist"} => form[r].body = "valid"
  /\ step[r] = "scan" => form[r].file # "none"
  /\ step[r] = "persist" => form[r].file # "infected"
  /\ step[r] \in {"insert", "enqueue"} \/ Committed(r) => IsFit(r)
  /\ step[r] = "insert" => ~Committed(r) /\ r \notin jobs
  /\ step[r] = "insert" /\ upload[r] = "clean" => r \in objects
  /\ step[r] = "enqueue" => Committed(r) /\ r \notin jobs
  /\ Committed(r) => lead[r].scan = upload[r] /\ lead[r].key = (upload[r] = "clean")
  /\ CreatedIsTrue(r) /\ RejectedIsGone(r)

IntakeInv == \A r \in Requests : Progress(r)

(* What a step of one handler, or of none, leaves of a request. *)
OwnStay(q) ==
  /\ step'[q] = step[q] /\ answer'[q] = answer[q] /\ quoted'[q] = quoted[q]
  /\ upload'[q] = upload[q] /\ lead'[q] = lead[q]
  /\ (q \in objects' <=> q \in objects) /\ (q \in jobs' <=> q \in jobs)
  /\ (q \in unsure' <=> q \in unsure)

LEMMA StayKeeps ==
  ASSUME NEW q \in Requests, Progress(q), OwnStay(q), UNCHANGED form
  PROVE  Progress(q)'
BY DEF Progress, OwnStay, Untouched, Committed, IsFit, CreatedIsTrue, RejectedIsGone

(* A handler touches what is its request's only. *)
LEMMA OthersStay ==
  ASSUME TypeOK, NEW r \in Requests, Handle(r) \/ Die(r)
  PROVE  UNCHANGED <<form, eraser>> /\ \A q \in Requests \ {r} : OwnStay(q)
<1> USE DEF TypeOK, OwnStay, storeVars
<1>1. CASE Refuse(r) \/ Reject(r) \/ ScanRejects(r)
  BY <1>1 DEF Refuse, Reject, ScanRejects, Answer
<1>2. CASE Proceed(r) \/ Validate(r) \/ ScanPasses(r) \/ LimitFailsOpen(r) \/ NoUpload(r) \/ Die(r)
  BY <1>2 DEF Proceed, Validate, ScanPasses, LimitFailsOpen, NoUpload, Die, Goto
<1>3. CASE LimitReply(r)
  BY <1>3 DEF LimitReply, Answer, Goto
<1>4. CASE Burn(r) \/ BurnFails(r) \/ InsertFails(r) \/ Enqueue(r)
  BY <1>4 DEF Burn, BurnFails, InsertFails, Enqueue, Answer
<1>5. CASE Upload(r) \/ UploadFails(r)
  BY <1>5 DEF Upload, UploadFails, Goto
<1>6. CASE Insert(r) \/ InsertUnanswered(r)
  BY <1>6 DEF Insert, InsertUnanswered, CommitLead, Answer, Goto
<1>7. QED BY <1>1, <1>2, <1>3, <1>4, <1>5, <1>6 DEF Handle

LEMMA ProgressStep ==
  ASSUME TypeOK, NEW r \in Requests, Handle(r) \/ Die(r), Progress(r)
  PROVE  Progress(r)'
<1> USE DEF TypeOK, At, Genuine, BeforeUpload, Progress, Untouched, Committed, IsFit, CreatedIsTrue,
        RejectedIsGone, storeVars
<1>0. form[r] \in FormType
  OBVIOUS
<1>1. CASE Refuse(r) \/ Reject(r)
  BY <1>1 DEF Refuse, Reject, Answer
<1>2. CASE ScanRejects(r)
  BY <1>2 DEF ScanRejects, Answer
<1>3. CASE Proceed(r) \/ LimitFailsOpen(r)
  BY <1>3 DEF Proceed, LimitFailsOpen, Goto
<1>4. CASE Validate(r) \/ ScanPasses(r)
  BY <1>4 DEF Validate, ScanPasses, Goto
<1>5. CASE LimitReply(r)
  <2>1. step[r] = "limit" /\ UNCHANGED <<upload, storeVars>>
    BY <1>5 DEF LimitReply
  <2>2. Answer(r, "throttled", 0) \/ Goto(r, "body")
    BY <1>5 DEF LimitReply
  <2>3. QED BY <2>1, <2>2 DEF Answer, Goto
<1>6. CASE Burn(r) \/ BurnFails(r)
  BY <1>6 DEF Burn, BurnFails, Answer
<1>7. CASE NoUpload(r)
  BY <1>7 DEF NoUpload, Goto
<1>8. CASE Upload(r) \/ UploadFails(r)
  BY <1>8 DEF Upload, UploadFails, Goto
<1>9. CASE Insert(r)
  BY <1>9 DEF Insert, CommitLead, RecordsKey, Goto
<1>10. CASE InsertFails(r)
  BY <1>10 DEF InsertFails, Answer
<1>11. CASE InsertUnanswered(r)
  BY <1>11 DEF InsertUnanswered, CommitLead, RecordsKey, Answer
<1>12. CASE Enqueue(r)
  BY <1>12 DEF Enqueue, Answer
<1>13. CASE Die(r)
  BY <1>13 DEF Die, Goto
<1>14. QED BY <1>1, <1>2, <1>3, <1>4, <1>5, <1>6, <1>7, <1>8, <1>9, <1>10, <1>11, <1>12, <1>13
       DEF Handle

(* What an eraser does to a request: to its own lead's only, which has a   *)
(* row, and of whose row nothing but the state changes.                    *)
LEMMA EraserStep ==
  ASSUME TypeOK, ErasureInv, NEW e \in Erasers,
         (\E r \in Requests : EraseRead(e, r)) \/ EraseObject(e) \/ EraseRow(e) \/ EraseStops(e)
  PROVE  /\ UNCHANGED <<form, serverVars, jobs, unsure>> /\ objects' \subseteq objects
         /\ \A q \in Requests :
              \/ OwnStay(q)
              \/ /\ Committed(q) /\ lead'[q].ref = lead[q].ref /\ lead'[q].key = lead[q].key
                 /\ lead'[q].scan = lead[q].scan /\ lead'[q].state \in {lead[q].state, "erased"}
<1> USE DEF TypeOK, OwnStay, serverVars
<1>1. CASE (\E r \in Requests : EraseRead(e, r)) \/ EraseStops(e)
  BY <1>1 DEF EraseRead, EraseStops, MoveEraser
<1>2. CASE EraseObject(e)
  BY <1>2 DEF EraseObject, MoveEraser, ErasureInv
<1>3. CASE EraseRow(e)
  <2> DEFINE l == eraser[e].lead
  <2>1. UNCHANGED <<form, step, answer, quoted, upload, jobs, unsure, objects>> /\ eraser[e].pc = "row"
    BY <1>3 DEF EraseRow, MoveEraser
  <2>2. l \in Requests /\ Committed(l)
    BY <2>1 DEF ErasureInv
  <2>3. /\ \A q \in Requests \ {l} : lead'[q] = lead[q]
        /\ lead'[l].state = "erased" /\ lead'[l].key = lead[l].key
        /\ lead'[l].ref = lead[l].ref /\ lead'[l].scan = lead[l].scan
    BY <1>3, <2>2 DEF EraseRow, LeadType
  <2>4. QED BY <2>1, <2>2, <2>3
<1>4. QED BY <1>1, <1>2, <1>3

LEMMA IntakeStep ==
  ASSUME TypeOK, ErasureInv, IntakeInv, [Next]_vars
  PROVE  IntakeInv'
<1> USE DEF IntakeInv
<1>1. ASSUME NEW r \in Requests, Handle(r) \/ Die(r) PROVE IntakeInv'
  BY <1>1, OthersStay, ProgressStep, StayKeeps
<1>2. ASSUME NEW c \in Clients, LateIncrement(c) \/ WindowEnds(c) PROVE IntakeInv'
  <2>1. UNCHANGED form /\ \A q \in Requests : OwnStay(q)
    BY <1>2 DEF LateIncrement, WindowEnds, serverVars, storeVars, OwnStay
  <2>2. QED BY <2>1, StayKeeps
<1>3. ASSUME NEW e \in Erasers,
             (\E r \in Requests : EraseRead(e, r)) \/ EraseObject(e) \/ EraseRow(e) \/ EraseStops(e)
      PROVE  IntakeInv'
  <2> SUFFICES ASSUME NEW q \in Requests PROVE Progress(q)'
    OBVIOUS
  <2>1. UNCHANGED <<form, serverVars, jobs, unsure>> /\ objects' \subseteq objects
    BY <1>3, EraserStep
  <2>2. CASE OwnStay(q)
    BY <2>1, <2>2, StayKeeps
  <2>3. CASE /\ Committed(q) /\ lead'[q].ref = lead[q].ref /\ lead'[q].key = lead[q].key
             /\ lead'[q].scan = lead[q].scan /\ lead'[q].state \in {lead[q].state, "erased"}
    <3>1. Committed(q)' /\ step[q] \in {"enqueue", "done", "dead"}
      BY <2>3 DEF ErasureInv, Committed
    <3>2. QED BY <2>1, <2>3, <3>1 DEF serverVars, Progress, Untouched, Committed, IsFit, BeforeUpload,
              CreatedIsTrue, RejectedIsGone
  <2>4. QED BY <1>3, <2>2, <2>3, EraserStep
<1>4. CASE UNCHANGED vars
  <2>1. UNCHANGED form /\ \A q \in Requests : OwnStay(q)
    BY <1>4 DEF vars, serverVars, storeVars, OwnStay
  <2>2. QED BY <2>1, StayKeeps
<1>5. QED BY <1>1, <1>2, <1>3, <1>4 DEF Next

LEMMA IntakeInvariant == Spec => [](TypeOK /\ ErasureInv /\ IntakeInv)
<1>1. Init => ErasureInv /\ IntakeInv
  BY DEF Init, NoLead, IdleEraser, ErasureInv, Committed, NamedFilesGo, IntakeInv, Progress,
     BeforeUpload, Untouched, CreatedIsTrue, RejectedIsGone
<1>2. TypeOK /\ ErasureInv /\ IntakeInv /\ [Next]_vars => ErasureInv' /\ IntakeInv'
  BY ErasureStep, IntakeStep
<1>3. QED BY <1>1, <1>2, IntakeTypeCorrect, PTL DEF Spec

(* An erasure that succeeded has taken the lead's file with it, whatever   *)
(* else was erased, failed or submitted at the same time; a file that      *)
(* stays is one whose upload had thrown although it had landed.            *)
THEOREM ErasureIsComplete == Spec => []ErasedLeavesNoFile
<1>1. TypeOK /\ ErasureInv /\ IntakeInv => ErasedLeavesNoFile
  <2> SUFFICES ASSUME TypeOK, ErasureInv, IntakeInv, NEW r \in Requests,
                      lead[r].state = "erased", r \in objects
               PROVE  ~lead[r].key /\ lead[r].scan = "failed"
    BY DEF ErasedLeavesNoFile
  <2>1. ~lead[r].key
    BY DEF ErasureInv, NamedFilesGo
  <2>2. Committed(r) /\ Progress(r)
    BY DEF Committed, IntakeInv
  <2>3. lead[r].scan = upload[r] /\ upload[r] # "clean" /\ upload[r] # "none"
    BY <2>1, <2>2 DEF Progress
  <2>4. QED BY <2>1, <2>3 DEF TypeOK, Verdicts
<1>2. QED BY <1>1, IntakeInvariant, PTL

(* The answer a sender gets is true of what was kept: a 201 has its row    *)
(* and quotes its reference, or is the bot's and has nothing; a rejection  *)
(* leaves nothing; a 500 has a row only if the database's answer was lost. *)
THEOREM AnswersAreHonest == Spec => []AnswersAreTrue
<1>1. IntakeInv => AnswersAreTrue
  BY DEF IntakeInv, Progress, AnswersAreTrue
<1>2. QED BY <1>1, IntakeInvariant, PTL

(* An object comes into the store only for a clean file in a buyer's valid *)
(* form, and a row takes a key only with that verdict and that object.     *)
CleanStep ==
  \A r \in Requests :
    /\ r \in objects' \ objects =>
         form[r].file = "clean" /\ form[r].body = "valid" /\ ~form[r].trap
    /\ ~lead[r].key /\ lead'[r].key => lead'[r].scan = "clean" /\ r \in objects'

THEOREM StoreIsClean == Spec => OnlyCleanIsStored
<1>1. ASSUME TypeOK, ErasureInv, IntakeInv, [Next]_vars PROVE CleanStep
  <2> SUFFICES ASSUME NEW q \in Requests
               PROVE  /\ q \in objects' \ objects =>
                           form[q].file = "clean" /\ form[q].body = "valid" /\ ~form[q].trap
                      /\ ~lead[q].key /\ lead'[q].key => lead'[q].scan = "clean" /\ q \in objects'
    BY DEF CleanStep
  <2> USE <1>1
  <2>1. CASE OwnStay(q)
    BY <2>1 DEF OwnStay
  <2>2. ASSUME NEW r \in Requests, Handle(r) \/ Die(r), ~OwnStay(q)
        PROVE  /\ q \in objects' \ objects =>
                    form[q].file = "clean" /\ form[q].body = "valid" /\ ~form[q].trap
               /\ ~lead[q].key /\ lead'[q].key => lead'[q].scan = "clean" /\ q \in objects'
    <3>1. q = r
      BY <2>2, OthersStay
    <3>2. Progress(r) /\ form[r] \in FormType
      BY DEF IntakeInv, TypeOK
    <3>3. CASE Upload(r) \/ UploadFails(r)
      BY <3>1, <3>2, <3>3 DEF Upload, UploadFails, Genuine, At, Goto, Progress, FormType
    <3>4. CASE Insert(r) \/ InsertUnanswered(r)
      <4>1. step[r] = "insert" /\ CommitLead(r) /\ UNCHANGED objects
        BY <3>4 DEF Insert, InsertUnanswered, At
      <4>2. lead'[r].key = (upload[r] = "clean") /\ lead'[r].scan = upload[r]
        BY <4>1 DEF CommitLead, RecordsKey, TypeOK
      <4>3. QED BY <3>1, <3>2, <4>1, <4>2 DEF Progress
    <3>5. CASE ~(Upload(r) \/ UploadFails(r) \/ Insert(r) \/ InsertUnanswered(r))
      <4>1. UNCHANGED <<objects, lead>>
        BY <2>2, <3>5 DEF Handle, storeVars, Refuse, Reject, ScanRejects, Proceed, Validate, ScanPasses,
           LimitFailsOpen, LimitReply, NoUpload, Die, Burn, BurnFails, InsertFails, Enqueue
      <4>2. QED BY <3>1, <4>1
    <3>6. QED BY <3>3, <3>4, <3>5
  <2>3. ASSUME NEW e \in Erasers,
               \/ \E r \in Requests : EraseRead(e, r)
               \/ EraseObject(e) \/ EraseRow(e) \/ EraseStops(e)
        PROVE  objects' \subseteq objects /\ (lead'[q].key = lead[q].key)
    BY <2>3, EraserStep DEF OwnStay
  <2>4. ASSUME NEW c \in Clients, LateIncrement(c) \/ WindowEnds(c) PROVE OwnStay(q)
    BY <2>4 DEF LateIncrement, WindowEnds, serverVars, storeVars, OwnStay
  <2>5. ASSUME UNCHANGED vars PROVE OwnStay(q)
    BY <2>5 DEF vars, serverVars, storeVars, OwnStay
  <2>6. QED BY <2>1, <2>2, <2>3, <2>4, <2>5 DEF Next
<1>2. TypeOK /\ ErasureInv /\ IntakeInv /\ [Next]_vars =>
      [\A r \in Requests :
       /\ r \in objects' \ objects =>
            form[r].file = "clean" /\ form[r].body = "valid" /\ ~form[r].trap
       /\ ~lead[r].key /\ lead'[r].key => lead'[r].scan = "clean" /\ r \in objects']_vars
  BY <1>1 DEF CleanStep
<1>3. QED BY <1>2, IntakeInvariant, PTL DEF Spec, OnlyCleanIsStored

-----------------------------------------------------------------------------
(* The limiter counts a request at most once, whether its increment is     *)
(* answered or comes late: a client's counter, with its late increments,   *)
(* is never above the number of its requests that came to the limiter.     *)

Came(c) == {q \in Requests : CameToLimiter(q) /\ form[q].client = c}

CountedOnce == \A c \in Clients : counter[c] + late[c] <= Cardinality(Came(c))

ThrottleInv == CountedOnce /\ ThrottleIsEarned

LEMMA CameIsFinite ==
  ASSUME NEW c
  PROVE  IsFiniteSet(Came(c)) /\ Cardinality(Came(c)) \in Nat
BY FiniteAssumption, FS_Subset, FS_CardinalityType DEF Came

(* Nobody who came to the limiter is forgotten. *)
LEMMA CameGrows ==
  ASSUME TypeOK, [Next]_vars
  PROVE  UNCHANGED form /\ \A r \in Requests : CameToLimiter(r) => CameToLimiter(r)'
<1> USE DEF TypeOK, CameToLimiter
<1>1. ASSUME NEW r \in Requests, Handle(r) \/ Die(r)
      PROVE  UNCHANGED form /\ \A q \in Requests : CameToLimiter(q) => CameToLimiter(q)'
  <2>1. UNCHANGED form /\ \A q \in Requests \ {r} : step'[q] = step[q]
    BY <1>1, OthersStay DEF OwnStay
  <2>2. CameToLimiter(r) => step'[r] \notin {"guards", "limit"}
    BY <1>1 DEF Handle, Refuse, Reject, ScanRejects, Proceed, Validate, ScanPasses,
       LimitFailsOpen, LimitReply, NoUpload, Upload, UploadFails, Insert, InsertUnanswered, Die,
       Burn, BurnFails, InsertFails, Enqueue, Answer, Goto, At
  <2>3. QED BY <2>1, <2>2
<1>2. ASSUME UNCHANGED <<form, step>>
      PROVE  UNCHANGED form /\ \A q \in Requests : CameToLimiter(q) => CameToLimiter(q)'
  BY <1>2
<1>3. QED BY <1>1, <1>2 DEF Next, LateIncrement, WindowEnds, EraseRead, EraseObject, EraseRow, EraseStops,
          MoveEraser, vars, serverVars

(* A larger set counts more. *)
LEMMA CameCountsMore ==
  ASSUME TypeOK, [Next]_vars, NEW c, NEW T
  PROVE  /\ Came(c) \subseteq Came(c)'
         /\ IsFiniteSet(Came(c)') /\ Cardinality(Came(c)') \in Nat
         /\ Cardinality(Came(c)) <= Cardinality(Came(c)')
         /\ Cardinality(Came(c) \ T) \in Nat /\ Cardinality(Came(c)' \ T) \in Nat
         /\ Cardinality(Came(c) \ T) <= Cardinality(Came(c)' \ T)
<1>1. Came(c) \subseteq Came(c)' /\ Came(c)' \subseteq Requests
  BY CameGrows DEF Came
<1>2. IsFiniteSet(Came(c)')
  BY <1>1, FiniteAssumption, FS_Subset
<1>3. IsFiniteSet(Came(c)' \ T) /\ Came(c) \ T \subseteq Came(c)' \ T
  BY <1>1, <1>2, FS_Subset
<1>4. IsFiniteSet(Came(c) \ T)
  BY <1>3, FS_Subset
<1>5. QED BY <1>1, <1>2, <1>3, <1>4, FS_Subset, FS_CardinalityType

(* A request's own turn at the limiter adds it to those that came. *)
LEMMA TurnCounts ==
  ASSUME TypeOK, [Next]_vars, NEW r \in Requests, NEW c, c = form[r].client,
         step[r] = "limit", step'[r] \notin {"guards", "limit"}, form[r].body # "refused"
  PROVE  Cardinality(Came(c)') >= Cardinality(Came(c)) + 1
<1>1. r \notin Came(c)
  BY DEF Came, CameToLimiter
<1>2. r \in Came(c)'
  BY CameGrows DEF Came, CameToLimiter
<1>3. Came(c) \cup {r} \subseteq Came(c)' /\ IsFiniteSet(Came(c)')
  BY <1>2, CameCountsMore
<1>4. IsFiniteSet(Came(c)) /\ Cardinality(Came(c)) \in Nat
  BY CameIsFinite
<1>5. Cardinality(Came(c) \cup {r}) = Cardinality(Came(c)) + 1
  BY <1>1, <1>4, FS_AddElement
<1>6. QED BY <1>1, <1>3, <1>4, <1>5, FS_Subset, FS_CardinalityType

(* A request at the limiter has passed the first guards. *)
Passed == \A r \in Requests : step[r] = "limit" => form[r].body # "refused"

LEMMA PassedStep ==
  ASSUME TypeOK, Passed, [Next]_vars
  PROVE  Passed'
<1> USE DEF TypeOK, Passed
<1>1. ASSUME NEW r \in Requests, Handle(r) \/ Die(r) PROVE Passed'
  <2>1. UNCHANGED form /\ \A q \in Requests \ {r} : step'[q] = step[q]
    BY <1>1, OthersStay DEF OwnStay
  <2>2. step'[r] = "limit" => form[r].body # "refused"
    BY <1>1 DEF Handle, Refuse, Reject, ScanRejects, Proceed, Validate, ScanPasses,
       LimitFailsOpen, LimitReply, NoUpload, Upload, UploadFails, Insert, InsertUnanswered, Die,
       Burn, BurnFails, InsertFails, Enqueue, Answer, Goto, At
  <2>3. QED BY <2>1, <2>2
<1>2. CASE UNCHANGED <<form, step>>
  BY <1>2
<1>3. QED BY <1>1, <1>2 DEF Next, LateIncrement, WindowEnds, EraseRead, EraseObject, EraseRow, EraseStops,
          MoveEraser, vars, serverVars

(* Only the limiter's reply, to a request over the limit, throttles. *)
LEMMA ThrottledByReply ==
  ASSUME TypeOK, [Next]_vars, NEW q \in Requests, answer'[q] = "throttled"
  PROVE  answer[q] = "throttled" \/ (LimitReply(q) /\ Over(counter[form[q].client] + 1))
<1> USE DEF TypeOK
<1>1. ASSUME NEW r \in Requests, Handle(r) \/ Die(r), ~LimitReply(r)
      PROVE  answer[q] = "throttled"
  BY <1>1 DEF Handle, Refuse, Reject, ScanRejects, Proceed, Validate, ScanPasses,
       LimitFailsOpen, NoUpload, Upload, UploadFails, Insert, InsertUnanswered, Die,
       Burn, BurnFails, InsertFails, Enqueue, Answer, Goto
<1>2. ASSUME NEW r \in Requests, LimitReply(r)
      PROVE  answer[q] = "throttled" \/ (LimitReply(q) /\ Over(counter[form[q].client] + 1))
  <2>1. CASE q = r
    BY <1>2, <2>1 DEF LimitReply, Goto
  <2>2. CASE q # r
    BY <1>2, <2>2 DEF LimitReply, Answer, Goto
  <2>3. QED BY <2>1, <2>2
<1>3. CASE UNCHANGED answer
  BY <1>3
<1>4. QED BY <1>1, <1>2, <1>3 DEF Next, LateIncrement, WindowEnds, EraseRead, EraseObject, EraseRow, EraseStops,
          MoveEraser, vars, serverVars

LEMMA CountStep ==
  ASSUME TypeOK, Passed, CountedOnce, [Next]_vars
  PROVE  CountedOnce'
<1> USE DEF TypeOK, CountedOnce
<1>0. \A c \in Clients : /\ Cardinality(Came(c)) <= Cardinality(Came(c)')
                         /\ Cardinality(Came(c)) \in Nat /\ Cardinality(Came(c)') \in Nat
  BY CameCountsMore, CameIsFinite
<1>1. CASE UNCHANGED <<counter, late>>
  BY <1>0, <1>1
<1>2. ASSUME NEW r \in Requests, LimitReply(r) \/ LimitFailsOpen(r) PROVE CountedOnce'
  <2> PICK c : c = form[r].client
    OBVIOUS
  <2>1. c \in Clients /\ form[r].body # "refused" /\ step[r] = "limit"
    BY <1>2 DEF LimitReply, LimitFailsOpen, At, Passed, FormType
  <2>2. step'[r] \notin {"guards", "limit"}
    BY <1>2 DEF LimitReply, LimitFailsOpen, Answer, Goto
  <2>3. Cardinality(Came(c)') >= Cardinality(Came(c)) + 1
    BY <2>1, <2>2, TurnCounts
  <2>4. /\ counter'[c] + late'[c] <= counter[c] + late[c] + 1
        /\ \A d \in Clients \ {c} : counter'[d] = counter[d] /\ late'[d] = late[d]
    BY <1>2, <2>1 DEF LimitReply, LimitFailsOpen
  <2>5. counter'[c] \in Nat /\ late'[c] \in Nat
    BY <1>2, <2>1 DEF LimitReply, LimitFailsOpen
  <2>6. ASSUME NEW d \in Clients PROVE counter'[d] + late'[d] <= Cardinality(Came(d)')
    <3>1. CASE d = c
      <4>1. counter[c] + late[c] <= Cardinality(Came(c))
        BY <2>1
      <4>2. QED BY <1>0, <2>1, <2>3, <2>4, <2>5, <3>1, <4>1
    <3>2. CASE d # c
      BY <1>0, <2>4, <3>2
    <3>3. QED BY <3>1, <3>2
  <2>7. QED BY <2>6
<1>3. ASSUME NEW c \in Clients, LateIncrement(c) \/ WindowEnds(c) PROVE CountedOnce'
  <2>1. /\ counter'[c] \in Nat /\ late'[c] \in Nat
        /\ counter'[c] + late'[c] <= counter[c] + late[c]
        /\ \A d \in Clients \ {c} : counter'[d] = counter[d] /\ late'[d] = late[d]
    BY <1>3 DEF LateIncrement, WindowEnds
  <2>2. ASSUME NEW d \in Clients PROVE counter'[d] + late'[d] <= Cardinality(Came(d)')
    <3>1. counter'[d] \in Nat /\ late'[d] \in Nat /\ counter'[d] + late'[d] <= counter[d] + late[d]
      BY <2>1
    <3>2. QED BY <1>0, <3>1
  <2>3. QED BY <2>2
<1>4. QED BY <1>1, <1>2, <1>3 DEF Next, Handle, limitVars, Refuse, Reject, ScanRejects, Proceed, Validate,
          ScanPasses, NoUpload, Upload, UploadFails, Insert, InsertUnanswered, Die, Burn, BurnFails,
          InsertFails, Enqueue, EraseRead, EraseObject, EraseRow, EraseStops, MoveEraser, vars

(* A client is throttled only after Limit of its own requests came to the  *)
(* limiter, however late their increments and whenever its window ends.    *)
THEOREM ThrottlesAreEarned == Spec => []ThrottleIsEarned
<1>1. Init => Passed /\ ThrottleInv
  <2>1. ASSUME Init PROVE CountedOnce
    BY <2>1, CameIsFinite DEF Init, CountedOnce
  <2>2. Init => Passed /\ ThrottleIsEarned
    BY DEF Init, Passed, ThrottleIsEarned
  <2>3. QED BY <2>1, <2>2 DEF ThrottleInv
<1>2. ASSUME TypeOK, Passed, ThrottleInv, [Next]_vars PROVE Passed' /\ ThrottleInv'
  <2>1. Passed' /\ CountedOnce'
    BY <1>2, PassedStep, CountStep DEF ThrottleInv
  <2>2. ASSUME NEW r \in Requests, answer'[r] = "throttled"
        PROVE  \A c : c = form[r].client => Cardinality(Came(c)' \ {r}) >= Limit
    <3> SUFFICES ASSUME NEW c, c = form[r].client PROVE Cardinality(Came(c)' \ {r}) >= Limit
      OBVIOUS
    <3>1. /\ Cardinality(Came(c) \ {r}) \in Nat /\ Cardinality(Came(c)' \ {r}) \in Nat
          /\ Cardinality(Came(c) \ {r}) <= Cardinality(Came(c)' \ {r})
      BY <1>2, CameCountsMore
    <3>2. CASE answer[r] = "throttled"
      <4>1. {q \in Requests \ {r} : CameToLimiter(q) /\ form[q].client = form[r].client} = Came(c) \ {r}
        BY DEF Came
      <4>2. Cardinality(Came(c) \ {r}) >= Limit
        BY <1>2, <3>2, <4>1 DEF ThrottleInv, ThrottleIsEarned
      <4>3. QED BY <3>1, <4>2, IntakeAssumption
    <3>3. CASE LimitReply(r) /\ Over(counter[c] + 1)
      <4>1. c \in Clients /\ r \notin Came(c)
        BY <1>2, <3>3 DEF LimitReply, At, Came, CameToLimiter, TypeOK, FormType
      <4>2. counter[c] >= Limit /\ counter[c] \in Nat /\ late[c] \in Nat
        BY <1>2, <3>3, <4>1, IntakeAssumption DEF Over, TypeOK
      <4>3. counter[c] + late[c] <= Cardinality(Came(c)) /\ Came(c) \ {r} = Came(c)
        BY <1>2, <4>1 DEF ThrottleInv, CountedOnce
      <4>4. QED BY <3>1, <4>2, <4>3, IntakeAssumption
    <3>4. QED BY <1>2, <2>2, <3>2, <3>3, ThrottledByReply
  <2>3. ThrottleIsEarned'
    <3>1. UNCHANGED form
      BY <1>2, CameGrows
    <3>2. \A r \in Requests : \A c : c = form[r].client =>
            {q \in Requests \ {r} : CameToLimiter(q) /\ form[q].client = form[r].client}'
              = Came(c)' \ {r}
      BY <3>1 DEF Came
    <3>3. QED BY <2>2, <3>1, <3>2 DEF ThrottleIsEarned
  <2>4. QED BY <2>1, <2>3 DEF ThrottleInv
<1>3. QED BY <1>1, <1>2, IntakeTypeCorrect, PTL DEF Spec, ThrottleInv

-----------------------------------------------------------------------------
(* The desk only looks: the intake beside it is the one of Spec.           *)
LEMMA DeskStepIsIntakeStep ==
  ASSUME DeskNext
  PROVE  [Next]_vars
BY DEF DeskNext, Beside, OpenLead, updateLeadStatus, Follow, getObjectStream, StorageFails, Tell, Show

THEOREM DeskKeepsIntake == DeskSpec => Spec
<1>1. [DeskNext]_<<vars, desk>> => [Next]_vars
  BY DeskStepIsIntakeStep
<1>2. DeskInit => Init
  BY DEF DeskInit
<1>3. QED BY <1>1, <1>2, PTL DEF DeskSpec, Spec

(* A lead with a row keeps what its page was made from, and its file does  *)
(* not come back.                                                          *)
LEMMA RowsKeepTheirFacts ==
  ASSUME TypeOK, ErasureInv, IntakeInv, [Next]_vars, NEW q \in Requests, Committed(q)
  PROVE  /\ Committed(q)' /\ lead'[q].key = lead[q].key /\ lead'[q].scan = lead[q].scan
         /\ form'[q] = form[q] /\ upload'[q] = upload[q]
         /\ (lead[q].state = "erased" => lead'[q].state = "erased")
         /\ (q \notin objects => q \notin objects')
<1> USE DEF TypeOK, Committed
<1>1. step[q] \in {"enqueue", "done", "dead"}
  BY DEF ErasureInv
<1>2. CASE OwnStay(q) /\ UNCHANGED form
  BY <1>2 DEF OwnStay
<1>3. ASSUME NEW r \in Requests, Handle(r) \/ Die(r)
      PROVE  UNCHANGED form /\ (q # r => OwnStay(q))
  BY <1>3, OthersStay
<1>4. CASE Enqueue(q) \/ Die(q)
  BY <1>4 DEF Enqueue, Die, Answer, Goto, storeVars
<1>5. CASE Handle(q)
  BY <1>1, <1>4, <1>5 DEF Handle, Refuse, Reject, ScanRejects, Proceed, Validate, ScanPasses,
     LimitFailsOpen, LimitReply, NoUpload, Upload, UploadFails, Insert, InsertUnanswered,
     Burn, BurnFails, InsertFails, Genuine, At
<1>6. ASSUME NEW e \in Erasers,
             (\E r \in Requests : EraseRead(e, r)) \/ EraseObject(e) \/ EraseRow(e) \/ EraseStops(e)
      PROVE  /\ Committed(q)' /\ lead'[q].key = lead[q].key /\ lead'[q].scan = lead[q].scan
             /\ form'[q] = form[q] /\ upload'[q] = upload[q]
             /\ (lead[q].state = "erased" => lead'[q].state = "erased")
             /\ (q \notin objects => q \notin objects')
  BY <1>6, EraserStep DEF OwnStay, serverVars
<1>7. ASSUME NEW c \in Clients, LateIncrement(c) \/ WindowEnds(c) PROVE OwnStay(q) /\ UNCHANGED form
  BY <1>7 DEF LateIncrement, WindowEnds, serverVars, storeVars, OwnStay
<1>8. ASSUME UNCHANGED vars PROVE OwnStay(q) /\ UNCHANGED form
  BY <1>8 DEF vars, serverVars, storeVars, OwnStay
<1>9. QED BY <1>2, <1>3, <1>4, <1>5, <1>6, <1>7, <1>8 DEF Next

(* What a desk shows of a lead is what its row still says; what it was     *)
(* told of the download is what the row allowed, or an erasure took away.  *)
Faithful(s) ==
  IF s.lead = NoRequest THEN s.view = "none" /\ s.reply # "reading"
  ELSE /\ s.lead \in Requests /\ Committed(s.lead) /\ s.view = toLeadAttachmentView(s.lead)
       /\ s.reply \in {"reading", "bytes"} => lead[s.lead].scan = "clean" /\ lead[s.lead].key
       /\ s.reply = "noLead" => lead[s.lead].state = "erased"
       /\ s.view = "clean" /\ s.reply = "notFound" => s.lead \notin objects

DeskInv == \A d \in Desks : Faithful(desk[d])

(* No handler and no erasure makes a desk wrong. *)
LEMMA BesideKeepsDesks ==
  ASSUME TypeOK, ErasureInv, IntakeInv, DeskTypeOK, DeskInv, [Next]_vars, UNCHANGED desk
  PROVE  DeskInv'
<1> SUFFICES ASSUME NEW d \in Desks PROVE Faithful(desk[d])'
  BY DEF DeskInv
<1>1. CASE desk[d].lead = NoRequest
  BY <1>1 DEF DeskInv, Faithful
<1>2. CASE desk[d].lead # NoRequest
  <2>1. PICK q \in Requests : q = desk[d].lead
    BY <1>2 DEF DeskTypeOK
  <2>2. Committed(q) /\ Faithful(desk[d])
    BY <1>2, <2>1 DEF DeskInv, Faithful
  <2>3. /\ Committed(q)' /\ lead'[q].key = lead[q].key /\ lead'[q].scan = lead[q].scan
        /\ (lead[q].state = "erased" => lead'[q].state = "erased")
        /\ (q \notin objects => q \notin objects')
    BY <2>2, RowsKeepTheirFacts
  <2>4. toLeadAttachmentView(q)' = toLeadAttachmentView(q)
    BY <2>3 DEF toLeadAttachmentView, hasAttachment
  <2>5. QED BY <1>2, <2>1, <2>2, <2>3, <2>4 DEF Faithful
<1>3. QED BY <1>1, <1>2

(* A click at a desk leaves it with the truth of this moment. *)
LEMMA LookIsFaithful ==
  ASSUME TypeOK, ErasureInv, IntakeInv, DeskTypeOK, DeskInv, NEW d \in Desks,
         \/ \E r \in Requests : OpenLead(d, r)
         \/ updateLeadStatus(d) \/ Follow(d) \/ getObjectStream(d) \/ StorageFails(d)
  PROVE  DeskTypeOK' /\ DeskInv'
<1> USE DEF DeskTypeOK, Show, Tell, Open, EmptyDesk
<1>0. UNCHANGED <<form, lead, objects>> /\ NoRequest \notin Requests
  BY IntakeAssumption DEF OpenLead, updateLeadStatus, Follow, getObjectStream, StorageFails, vars, storeVars
<1>1. \A s : Faithful(s)' <=> Faithful(s)
  BY <1>0 DEF Faithful, Committed, toLeadAttachmentView, hasAttachment
<1>2. \A q \in Requests : toLeadAttachmentView(q) \in Views /\ lead[q].state \in {"none", "stored", "erased"}
  BY DEF TypeOK, LeadType, toLeadAttachmentView, Views
<1>3. Faithful(desk[d])
  BY DEF DeskInv
<1>4. ASSUME NEW s, desk' = [desk EXCEPT ![d] = s], Faithful(s),
             s \in [lead : Requests \cup {NoRequest}, view : Views, reply : Replies]
      PROVE  DeskTypeOK' /\ DeskInv'
  BY <1>1, <1>4 DEF DeskInv
<1>5. ASSUME NEW r \in Requests, Listed(r) PROVE
        /\ lead[r].state = "stored" =>
             Faithful(Page(r)) /\ Page(r) \in [lead : Requests \cup {NoRequest}, view : Views, reply : Replies]
        /\ lead[r].state # "stored" =>
             /\ Faithful([EmptyDesk EXCEPT !.reply = "noLead"])
             /\ [EmptyDesk EXCEPT !.reply = "noLead"]
                  \in [lead : Requests \cup {NoRequest}, view : Views, reply : Replies]
  BY <1>0, <1>2, <1>5 DEF Page, Faithful, Committed, Listed, Views, Replies
<1>6. ASSUME NEW r \in Requests, OpenLead(d, r) PROVE DeskTypeOK' /\ DeskInv'
  BY <1>4, <1>5, <1>6 DEF OpenLead
<1>7. ASSUME NEW reply \in Replies, desk' = [desk EXCEPT ![d] = [desk[d] EXCEPT !.reply = reply]],
             desk[d].lead \in Requests,
             reply \in {"reading", "bytes"} => lead[desk[d].lead].scan = "clean" /\ lead[desk[d].lead].key,
             reply = "noLead" => lead[desk[d].lead].state = "erased",
             reply = "notFound" /\ desk[d].view = "clean" => desk[d].lead \notin objects
      PROVE  DeskTypeOK' /\ DeskInv'
  <2> DEFINE s == [desk[d] EXCEPT !.reply = reply]
  <2>1. s.lead = desk[d].lead /\ s.view = desk[d].view /\ s.reply = reply
        /\ s \in [lead : Requests \cup {NoRequest}, view : Views, reply : Replies]
    BY <1>7
  <2>2. Faithful(s)
    BY <1>0, <1>3, <1>7, <2>1 DEF Faithful
  <2>3. QED BY <1>4, <1>7, <2>1, <2>2
<1>8. CASE updateLeadStatus(d)
  <2>1. desk[d].lead \in Requests /\ Committed(desk[d].lead)
    BY <1>3, <1>8 DEF updateLeadStatus, Faithful
  <2>2. CASE lead[desk[d].lead].state = "stored"
    BY <1>4, <1>5, <1>8, <2>1, <2>2 DEF updateLeadStatus, Listed
  <2>3. CASE lead[desk[d].lead].state # "stored"
    <3>1. lead[desk[d].lead].state = "erased"
      BY <1>2, <2>1, <2>3 DEF Committed
    <3>2. QED BY <1>7, <1>8, <2>1, <2>3, <3>1 DEF updateLeadStatus, Replies
  <2>4. QED BY <2>2, <2>3
<1>9. CASE Follow(d)
  <2>1. desk[d].lead \in Requests /\ Committed(desk[d].lead)
        /\ desk[d].view = toLeadAttachmentView(desk[d].lead)
    BY <1>3, <1>9 DEF Follow, Faithful
  <2>2. CASE Servable(desk[d].lead)
    BY <1>7, <1>9, <2>1, <2>2 DEF Follow, Servable, Replies
  <2>3. CASE ~Servable(desk[d].lead)
    <3>1. desk[d].view = "clean" => lead[desk[d].lead].scan = "clean" /\ lead[desk[d].lead].key
      BY <2>1 DEF toLeadAttachmentView
    <3>2. desk[d].view = "clean" => lead[desk[d].lead].state = "erased"
      BY <1>2, <2>1, <2>3, <3>1 DEF Servable, Committed
    <3>3. desk[d].view = "clean" => desk[d].lead \notin objects
      BY <2>1, <3>1, <3>2 DEF ErasureInv, NamedFilesGo
    <3>4. QED BY <1>7, <1>9, <2>1, <2>3, <3>3 DEF Follow, Replies
  <2>4. QED BY <2>2, <2>3
<1>10. CASE getObjectStream(d)
  <2>1. desk[d].lead \in Requests /\ lead[desk[d].lead].scan = "clean" /\ lead[desk[d].lead].key
    BY <1>3, <1>10 DEF getObjectStream, Faithful
  <2>2. QED BY <1>7, <1>10, <2>1 DEF getObjectStream, Replies
<1>11. CASE StorageFails(d)
  <2>1. desk[d].lead \in Requests
    BY <1>3, <1>11 DEF StorageFails, Faithful
  <2>2. QED BY <1>7, <1>11, <2>1 DEF StorageFails, Replies
<1>12. QED BY <1>6, <1>8, <1>9, <1>10, <1>11

LEMMA DeskInvariant == DeskSpec => [](TypeOK /\ ErasureInv /\ IntakeInv /\ DeskTypeOK /\ DeskInv)
<1>1. DeskInit => DeskTypeOK /\ DeskInv
  BY DEF DeskInit, DeskTypeOK, DeskInv, Faithful, EmptyDesk, Views, Replies
<1>2. TypeOK /\ ErasureInv /\ IntakeInv /\ DeskTypeOK /\ DeskInv /\ [DeskNext]_<<vars, desk>>
        => DeskTypeOK' /\ DeskInv'
  <2> SUFFICES ASSUME TypeOK, ErasureInv, IntakeInv, DeskTypeOK, DeskInv, [DeskNext]_<<vars, desk>>
               PROVE  DeskTypeOK' /\ DeskInv'
    OBVIOUS
  <2>1. CASE Beside \/ UNCHANGED <<vars, desk>>
    BY <2>1, BesideKeepsDesks DEF Beside, DeskTypeOK
  <2>2. CASE ~(Beside \/ UNCHANGED <<vars, desk>>)
    BY <2>2, LookIsFaithful DEF DeskNext
  <2>3. QED BY <2>1, <2>2
<1>3. QED BY <1>1, <1>2, DeskKeepsIntake, IntakeInvariant, PTL DEF DeskSpec

(* What an administrator is told of a lead and its file is true, whatever  *)
(* is submitted or erased between the reads.                               *)
THEOREM DesksAreTrue == DeskSpec => []DeskIsTrue
<1>1. TypeOK /\ ErasureInv /\ IntakeInv /\ DeskTypeOK /\ DeskInv => DeskIsTrue
  <2> SUFFICES ASSUME TypeOK, ErasureInv, IntakeInv, DeskTypeOK, DeskInv, NEW d \in Desks,
                      desk[d].lead # NoRequest
               PROVE  LET r == desk[d].lead
                      IN  /\ desk[d].view = "none" <=> form[r].file = "none"
                          /\ desk[d].view = "failed" => upload[r] = "failed"
                          /\ desk[d].view = "clean" \/ desk[d].reply = "bytes" =>
                               form[r].file = "clean" /\ ~form[r].trap /\ Committed(r)
                          /\ desk[d].reply = "noLead" => lead[r].state = "erased"
                          /\ desk[d].view = "clean" /\ desk[d].reply = "notFound" => r \notin objects
    BY DEF DeskIsTrue
  <2>1. PICK r \in Requests : r = desk[d].lead
    BY DEF DeskTypeOK
  <2>2. Faithful(desk[d]) /\ Committed(r) /\ Progress(r)
    BY <2>1 DEF DeskInv, IntakeInv, Faithful
  <2>3. /\ IsFit(r) /\ lead[r].scan = upload[r] /\ lead[r].key = (upload[r] = "clean")
        /\ form[r].file \in {"none", "clean", "infected"} /\ upload[r] \in Verdicts
    BY <2>2 DEF Progress, TypeOK, FormType
  <2>4. desk[d].view = toLeadAttachmentView(r)
    BY <2>1, <2>2 DEF Faithful
  <2>5. /\ desk[d].view = "none" <=> upload[r] = "none"
        /\ desk[d].view = "failed" <=> upload[r] = "failed"
        /\ desk[d].view = "clean" <=> upload[r] = "clean"
    BY <2>3, <2>4 DEF toLeadAttachmentView, hasAttachment, Verdicts
  <2>6. desk[d].reply = "bytes" => upload[r] = "clean"
    BY <2>1, <2>2, <2>3 DEF Faithful
  <2>7. QED BY <2>1, <2>2, <2>3, <2>5, <2>6 DEF Faithful, IsFit
<1>2. QED BY <1>1, DeskInvariant, PTL

-----------------------------------------------------------------------------
(* The connection memo.                                                    *)

(* A caller that awaits its own attempt is what MoveTo made of it. *)
LEMMA MoveToTyped ==
  ASSUME MemoTypeOK, NEW c \in Callers, NEW pc \in {"idle", "memo", "ownAttempt"},
         NEW s \in Slots \cup {NoSlot}, pc # "idle" => s # NoSlot,
         MoveTo(c, pc, s)
  PROVE  /\ caller' \in [Callers -> [pc : {"idle", "memo", "ownAttempt"},
                                     slot : Slots \cup {NoSlot}]]
         /\ \A d \in Callers : caller'[d].pc # "idle" => caller'[d].slot # NoSlot
  BY DEF MemoTypeOK, MoveTo

LEMMA AttemptTyped ==
  ASSUME MemoTypeOK, NEW c \in Callers, Attempt(c), UNCHANGED serverUp
  PROVE  MemoTypeOK'
  <1>1. PICK s \in Slots :
          /\ conn' = [conn EXCEPT ![s] = "connecting"]
          /\ memo' = s
          /\ raced' = (raced \/ \E q \in Slots : conn[q] = "connecting")
          /\ MoveTo(c, "ownAttempt", s)
    BY DEF Attempt
  <1>2. s # NoSlot
    BY MemoAssumption
  <1>3. /\ caller' \in [Callers -> [pc : {"idle", "memo", "ownAttempt"},
                                    slot : Slots \cup {NoSlot}]]
        /\ \A d \in Callers : caller'[d].pc # "idle" => caller'[d].slot # NoSlot
    BY <1>1, <1>2, MoveToTyped
  <1>4. raced' \in BOOLEAN
    BY <1>1 DEF MemoTypeOK
  <1>5. conn' \in [Slots -> {"none", "connecting", "ready", "failed", "dead"}]
    BY <1>1 DEF MemoTypeOK
  <1>6. serverUp' \in BOOLEAN /\ memo' \in Slots \cup {NoSlot}
    BY <1>1 DEF MemoTypeOK
  <1> QED
    BY <1>3, <1>4, <1>5, <1>6 DEF MemoTypeOK

(* Every variable keeps its type. *)
THEOREM MemoTypeCorrect == MemoSpec => []MemoTypeOK
  <1>1. MemoInit => MemoTypeOK
    <2> SUFFICES ASSUME MemoInit PROVE MemoTypeOK
      OBVIOUS
    <2>1. conn \in [Slots -> {"none", "connecting", "ready", "failed", "dead"}]
      BY DEF MemoInit
    <2>2. \A c \in Callers : caller[c] = [pc |-> "idle", slot |-> NoSlot]
      BY DEF MemoInit
    <2>3. caller \in [Callers -> [pc : {"idle", "memo", "ownAttempt"},
                                  slot : Slots \cup {NoSlot}]]
      BY DEF MemoInit
    <2> QED
      BY <2>1, <2>2, <2>3 DEF MemoInit, MemoTypeOK
  <1>2. MemoTypeOK /\ [MemoNext]_memoVars => MemoTypeOK'
    <2> SUFFICES ASSUME MemoTypeOK, [MemoNext]_memoVars PROVE MemoTypeOK'
      OBVIOUS
    <2>1. ASSUME NEW c \in Callers, Enter(c) PROVE MemoTypeOK'
      <3>1. CASE memo = NoSlot
        BY <2>1, <3>1, AttemptTyped DEF Enter
      <3>2. CASE memo # NoSlot
        <4>1. MoveTo(c, "memo", memo) /\ UNCHANGED <<serverUp, conn, memo, raced>>
          BY <2>1, <3>2 DEF Enter
        <4>2. memo \in Slots \cup {NoSlot}
          BY DEF MemoTypeOK
        <4>3. /\ caller' \in [Callers -> [pc : {"idle", "memo", "ownAttempt"},
                                          slot : Slots \cup {NoSlot}]]
              /\ \A d \in Callers : caller'[d].pc # "idle" => caller'[d].slot # NoSlot
          BY <3>2, <4>1, <4>2, MoveToTyped
        <4> QED
          BY <4>1, <4>3 DEF MemoTypeOK
      <3> QED
        BY <3>1, <3>2
    <2>2. ASSUME NEW c \in Callers, MoveTo(c, "idle", NoSlot),
                 UNCHANGED <<serverUp, conn, memo, raced>>
          PROVE  MemoTypeOK'
      <3>1. /\ caller' \in [Callers -> [pc : {"idle", "memo", "ownAttempt"},
                                        slot : Slots \cup {NoSlot}]]
            /\ \A d \in Callers : caller'[d].pc # "idle" => caller'[d].slot # NoSlot
        BY <2>2, MoveToTyped
      <3> QED
        BY <2>2, <3>1 DEF MemoTypeOK
    <2>3. ASSUME NEW c \in Callers, ResumeMemo(c) PROVE MemoTypeOK'
      <3>1. CASE Usable(caller[c].slot)
        BY <2>2, <2>3, <3>1 DEF ResumeMemo
      <3>2. CASE ~Usable(caller[c].slot)
        BY <2>3, <3>2, AttemptTyped DEF ResumeMemo
      <3> QED
        BY <3>1, <3>2
    <2>4. ASSUME NEW c \in Callers, ResumeOwn(c) PROVE MemoTypeOK'
      BY <2>2, <2>4 DEF ResumeOwn
    <2>5. ASSUME NEW s \in Slots, Connected(s) \/ ConnectFails(s) \/ Drops(s) PROVE MemoTypeOK'
      BY <2>5 DEF Connected, ConnectFails, AfterFailure, Drops, MemoTypeOK
    <2>6. CASE ServerFlips
      BY <2>6 DEF ServerFlips, MemoTypeOK
    <2>7. CASE UNCHANGED memoVars
      BY <2>7 DEF memoVars, MemoTypeOK
    <2> QED
      BY <2>1, <2>3, <2>4, <2>5, <2>6, <2>7 DEF MemoNext, Call
  <1> QED
    BY <1>1, <1>2, PTL DEF MemoSpec

(* An attempt may begin where no client the memo holds is connecting. *)
LEMMA AttemptFacts ==
  ASSUME MemoTypeOK, NEW c \in Callers, Attempt(c)
  PROVE  \E s \in Slots :
           /\ conn[s] # "connecting" /\ memo # s
           /\ conn' = [conn EXCEPT ![s] = "connecting"]
           /\ memo' = s
           /\ raced' = (raced \/ \E q \in Slots : conn[q] = "connecting")
  BY DEF Attempt, InUse

(* A failed attempt is never left in the memo, whatever the calls and the  *)
(* failures interleave to.                                                 *)
THEOREM FailuresDoNotStick == MemoSpec => []NoStickyFailure
  <1>1. MemoInit => NoStickyFailure
    BY DEF MemoInit, NoStickyFailure
  <1>2. MemoTypeOK /\ NoStickyFailure /\ [MemoNext]_memoVars => NoStickyFailure'
    <2> SUFFICES ASSUME MemoTypeOK, NoStickyFailure, [MemoNext]_memoVars PROVE NoStickyFailure'
      OBVIOUS
    <2>1. ASSUME NEW c \in Callers, Attempt(c) PROVE NoStickyFailure'
      <3>1. PICK s \in Slots : conn' = [conn EXCEPT ![s] = "connecting"] /\ memo' = s
        BY <2>1, AttemptFacts
      <3> QED
        BY <3>1 DEF NoStickyFailure, MemoTypeOK
    <2>2. ASSUME UNCHANGED <<conn, memo>> PROVE NoStickyFailure'
      BY <2>2 DEF NoStickyFailure
    <2>3. ASSUME NEW c \in Callers, Call(c) PROVE NoStickyFailure'
      BY <2>1, <2>2, <2>3 DEF Call, Enter, ResumeMemo, ResumeOwn
    <2>4. ASSUME NEW s \in Slots, Connected(s) \/ ConnectFails(s) \/ Drops(s)
          PROVE  NoStickyFailure'
      BY <2>4 DEF Connected, ConnectFails, AfterFailure, Drops, NoStickyFailure, MemoTypeOK
    <2> QED
      BY <2>2, <2>3, <2>4 DEF MemoNext, ServerFlips, memoVars
  <1> QED
    BY <1>1, <1>2, MemoTypeCorrect, PTL DEF MemoSpec

(* Whoever is about to find its awaited client unusable also finds that the *)
(* memo holds nothing ready: nothing becomes ready before it has resumed.  *)
NothingReady == memo = NoSlot \/ conn[memo] # "ready"

UnusableMeansNothingReady ==
  \A c \in Callers :
    caller[c].pc = "memo" /\ Settled(caller[c].slot) /\ ~Usable(caller[c].slot) => NothingReady

LEMMA UnusableInductive ==
  ASSUME MemoTypeOK, UnusableMeansNothingReady, [MemoNext]_memoVars
  PROVE  UnusableMeansNothingReady'
  <1> SUFFICES ASSUME NEW c \in Callers,
                      caller'[c].pc = "memo", Settled(caller[c].slot)', ~Usable(caller[c].slot)',
                      ~NothingReady'
               PROVE  FALSE
    BY DEF UnusableMeansNothingReady
  <1>1. ASSUME NEW d \in Callers, Attempt(d) PROVE FALSE
    <2>1. PICK s \in Slots : conn' = [conn EXCEPT ![s] = "connecting"] /\ memo' = s
      BY <1>1, AttemptFacts
    <2> QED
      BY <2>1 DEF NothingReady, MemoTypeOK
  <1>2. ASSUME NEW d \in Callers, NEW pc, NEW s, MoveTo(d, pc, s), UNCHANGED <<conn, memo>>,
               pc = "memo" => s = memo
        PROVE  FALSE
    <2>1. CASE c = d
      <3>1. caller'[c].slot = memo /\ conn' = conn /\ memo' = memo
        BY <1>2, <2>1 DEF MoveTo, MemoTypeOK
      <3> QED
        BY <3>1 DEF NothingReady, Usable
    <2>2. CASE c # d
      <3>1. caller'[c] = caller[c] /\ conn' = conn /\ memo' = memo
        BY <1>2, <2>2 DEF MoveTo, MemoTypeOK
      <3> QED
        BY <3>1 DEF UnusableMeansNothingReady, NothingReady, Usable, Settled
    <2> QED
      BY <2>1, <2>2
  <1>3. ASSUME NEW d \in Callers, Call(d) PROVE FALSE
    <2>1. CASE Enter(d)
      BY <1>1, <1>2, <2>1 DEF Enter
    <2>2. CASE ResumeMemo(d)
      BY <1>1, <1>2, <2>2 DEF ResumeMemo
    <2>3. CASE ResumeOwn(d)
      BY <1>2, <2>3 DEF ResumeOwn
    <2> QED
      BY <1>3, <2>1, <2>2, <2>3 DEF Call
  <1>4. ASSUME NEW s \in Slots, Connected(s) PROVE FALSE
    <2>1. conn[caller[c].slot] = "connecting" /\ caller' = caller
      BY <1>4 DEF Connected, Resuming, Settled, MemoTypeOK
    <2> QED
      BY <1>4, <2>1 DEF Connected, Settled, Usable, MemoTypeOK
  <1>5. ASSUME NEW s \in Slots, ConnectFails(s) PROVE FALSE
    BY <1>5 DEF ConnectFails, AfterFailure, NothingReady
  <1>6. ASSUME NEW s \in Slots, Drops(s) PROVE FALSE
    <2>1. conn[caller[c].slot] = "connecting" /\ caller' = caller
      BY <1>6 DEF Drops, Resuming, Settled, MemoTypeOK
    <2> QED
      BY <1>6, <2>1 DEF Drops, Settled, MemoTypeOK
  <1>7. CASE UNCHANGED <<conn, memo, caller>>
    BY <1>7 DEF UnusableMeansNothingReady, NothingReady, Usable, Settled
  <1> QED
    BY <1>3, <1>4, <1>5, <1>6, <1>7 DEF MemoNext, ServerFlips, memoVars

LEMMA UnusableInvariant == MemoSpec => []UnusableMeansNothingReady
  <1>1. MemoInit => UnusableMeansNothingReady
    BY DEF MemoInit, UnusableMeansNothingReady
  <1> QED
    BY <1>1, UnusableInductive, MemoTypeCorrect, PTL DEF MemoSpec

(* An attempt begins only where the memo holds nothing ready. *)
LEMMA AttemptsStartCold ==
  ASSUME UnusableMeansNothingReady, NEW c \in Callers, Call(c)
  PROVE  (Attempt(c) /\ NothingReady) \/ UNCHANGED <<conn, memo, raced>>
  BY DEF UnusableMeansNothingReady, NothingReady, Call, Enter, ResumeMemo, ResumeOwn

(* No attempt begins while the memo holds a ready client, though the caller *)
(* that begins it decides on a client it awaited before.                   *)
THEOREM ReadyClientsAreShared == MemoSpec => ReadyIsShared
  <1> DEFINE Begins == \E s \in Slots : conn[s] # "connecting" /\ conn'[s] = "connecting"
  <1>1. MemoTypeOK /\ UnusableMeansNothingReady /\ [MemoNext]_memoVars
          => [Begins => ~(memo # NoSlot /\ conn[memo] = "ready")]_memoVars
    <2> SUFFICES ASSUME MemoTypeOK, UnusableMeansNothingReady, MemoNext, Begins
                 PROVE  NothingReady
      BY DEF NothingReady, memoVars
    <2>1. ASSUME NEW c \in Callers, Call(c) PROVE NothingReady
      BY <2>1, AttemptsStartCold
    <2>2. ASSUME NEW s \in Slots, Connected(s) \/ ConnectFails(s) \/ Drops(s) PROVE FALSE
      BY <2>2 DEF Connected, ConnectFails, Drops, MemoTypeOK
    <2> QED
      BY <2>1, <2>2 DEF MemoNext, ServerFlips
  <1> QED
    BY <1>1, MemoTypeCorrect, UnusableInvariant, PTL DEF MemoSpec, ReadyIsShared

(* What is open or under way is the memo's, while attempts have never      *)
(* overlapped.                                                             *)
OneClient == ~raced => \A s \in Slots : conn[s] \in {"connecting", "ready"} => memo = s

(* Without overlapping attempts nothing is left open behind the memo. *)
THEOREM LeaksAreRaces == MemoSpec => []LeaksNeedRace
  <1>1. MemoInit => OneClient
    BY DEF MemoInit, OneClient
  <1>2. MemoTypeOK /\ UnusableMeansNothingReady /\ OneClient /\ [MemoNext]_memoVars => OneClient'
    <2> SUFFICES ASSUME MemoTypeOK, UnusableMeansNothingReady, OneClient, [MemoNext]_memoVars,
                        ~raced', NEW q \in Slots, conn'[q] \in {"connecting", "ready"}
                 PROVE  memo' = q
      BY DEF OneClient
    <2>1. ASSUME NEW c \in Callers, Attempt(c), NothingReady PROVE memo' = q
      <3>1. PICK s \in Slots :
              /\ conn' = [conn EXCEPT ![s] = "connecting"]
              /\ memo' = s
              /\ raced' = (raced \/ \E r \in Slots : conn[r] = "connecting")
        BY <2>1, AttemptFacts
      <3>2. ~raced /\ conn[q] # "connecting"
        BY <3>1
      <3>3. conn[q] # "ready"
        BY <2>1, <3>2, MemoAssumption DEF OneClient, NothingReady
      <3> QED
        BY <3>1, <3>2, <3>3 DEF MemoTypeOK
    <2>2. ASSUME UNCHANGED <<conn, memo, raced>> PROVE memo' = q
      BY <2>2 DEF OneClient
    <2>3. ASSUME NEW c \in Callers, Call(c) PROVE memo' = q
      BY <2>1, <2>2, <2>3, AttemptsStartCold
    <2>4. ASSUME NEW s \in Slots, Connected(s) \/ Drops(s) PROVE memo' = q
      BY <2>4 DEF Connected, Drops, OneClient, MemoTypeOK
    <2>5. ASSUME NEW s \in Slots, ConnectFails(s) PROVE memo' = q
      <3>1. ~raced /\ conn[s] = "connecting" /\ conn' = [conn EXCEPT ![s] = "failed"]
        BY <2>5 DEF ConnectFails
      <3>2. memo = s /\ q # s
        BY <3>1 DEF OneClient, MemoTypeOK
      <3> QED
        BY <3>1, <3>2 DEF OneClient, MemoTypeOK
    <2> QED
      BY <2>2, <2>3, <2>4, <2>5 DEF MemoNext, ServerFlips, memoVars
  <1>3. OneClient => LeaksNeedRace
    BY DEF OneClient, LeaksNeedRace
  <1> QED
    BY <1>1, <1>2, <1>3, MemoTypeCorrect, UnusableInvariant, PTL DEF MemoSpec
=============================================================================
