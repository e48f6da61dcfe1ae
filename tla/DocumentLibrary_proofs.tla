----------------------- MODULE DocumentLibrary_proofs -----------------------
(***************************************************************************)
(* Type correctness of DocumentLibrary, and that a row names an object in  *)
(* the store, for any number of requests, visitors and slugs.              *)
(***************************************************************************)
EXTENDS DocumentLibrary, TLAPS

(* The steps of a request before anything can name its file. *)
Early == {"idle", "store", "insert", "lookup", "repoint"}

(* What a request is, by its step. *)
RequestShape ==
  \A r \in Requests :
    /\ req[r].op = "create" => req[r].doc = r
    /\ req[r].pc = "insert" => req[r].op = "create"
    /\ req[r].pc \in {"lookup", "repoint", "dropOld"} => req[r].op = "replace"
    /\ req[r].pc \in {"delLookup", "delObject", "delRow"} => req[r].op = "delete"
    /\ req[r].pc \in {"store", "undo"} => req[r].op # "delete"
    /\ req[r].pc \in {"repoint", "dropOld", "delObject"} => req[r].old \in Requests

(* A row names a file stored for its own document, by a request that has   *)
(* got to name it; a request that is to undo its upload has no row, but    *)
(* for a creation.                                                         *)
RowsNameTheirOwn ==
  \A d \in Requests :
    IF Exists(d)
    THEN /\ row[d].file \in Requests
         /\ req[row[d].file].doc = d
         /\ req[row[d].file].pc \notin Early
         /\ req[row[d].file].pc = "undo" => req[row[d].file].op = "create"
    ELSE row[d].file = NoFile

(* A file that a request has read was named by its document. *)
OldFilesWereNamed ==
  \A r \in Requests :
    req[r].old \in Requests => /\ req[req[r].old].doc = req[r].doc
                               /\ req[req[r].old].pc \notin Early

(* Nothing names the file a replace is about to drop. *)
DroppedIsSuperseded ==
  \A r, d \in Requests : req[r].pc = "dropOld" => row[d].file # req[r].old

(* A file that is to be named is in the store. *)
FreshIsStored ==
  \A r \in Requests : req[r].pc \in {"insert", "lookup", "repoint"} => r \in objects

LibraryInv ==
  /\ TypeOK
  /\ RequestShape
  /\ RowsNameTheirOwn
  /\ OldFilesWereNamed
  /\ DroppedIsSuperseded
  /\ FreshIsStored
  /\ RowNamesObject

(* A request keeps the shape its step asks for. *)
LEMMA ShapeStep ==
  ASSUME TypeOK, RequestShape, RowsNameTheirOwn, [Next]_vars
  PROVE  RequestShape'
  <1> USE LibraryAssumption DEF TypeOK, RequestShape, RowsNameTheirOwn, Exists, NoRow, Files,
             Ops
  <1>1. ASSUME NEW r \in Requests, NEW s \in Slugs, Create(r, s) PROVE RequestShape'
    BY <1>1 DEF Create, Begin, At, cacheVars
  <1>2. ASSUME NEW r \in Requests, NEW d \in Requests, Replace(r, d) \/ Delete(r, d)
        PROVE  RequestShape'
    BY <1>2 DEF Replace, Delete, Begin, At, cacheVars
  <1>3. ASSUME NEW r \in Requests, Step(r) \/ Fault(r) PROVE RequestShape'
    <2> USE DEF At, Goto, Quiet, Faulty, cacheVars
    <2>1. CASE Store(r) \/ StoreFails(r)
      BY <2>1 DEF Store, StoreFails
    <2>2. CASE Insert(r) \/ InsertFails(r)
      BY <2>2 DEF Insert, InsertFails, InsertRow, SlugFree
    <2>3. CASE Undo(r)
      BY <2>3 DEF Undo
    <2>4. CASE Lookup(r) \/ DeleteLookup(r)
      BY <2>4 DEF Lookup, DeleteLookup
    <2>5. CASE Repoint(r) \/ ReplaceFails(r)
      BY <2>5 DEF Repoint, ReplaceFails, Point
    <2>6. CASE DropOld(r) \/ DeleteObject(r)
      BY <2>6 DEF DropOld, DeleteObject
    <2>7. CASE DeleteRow(r) \/ DeleteFails(r)
      BY <2>7 DEF DeleteRow, DeleteFails
    <2>8. CASE SlugTaken(r) \/ Vanished(r) \/ UndoFails(r) \/ DropFails(r) \/ DeleteFindsNoRow(r)
                \/ Purge(r) \/ PurgeFails(r) \/ Die(r)
      BY <2>8 DEF SlugTaken, Vanished, UndoFails, DropFails,
               DeleteFindsNoRow, Purge, PurgeFails, Die, Active, Ended
    <2> QED
      BY <1>3, <2>1, <2>2, <2>3, <2>4, <2>5, <2>6, <2>7, <2>8 DEF Step, Fault
  <1>4. ASSUME UNCHANGED <<row, objects, req>> PROVE RequestShape'
    BY <1>4
  <1> QED
    BY <1>1, <1>2, <1>3, <1>4 DEF Next, Resolve, Serve, ObjectMissing, Fill, FillLost,
                                  Refresh, vars

(* Rows go on naming files of their own document. *)
LEMMA RowsStep ==
  ASSUME TypeOK, RequestShape, RowsNameTheirOwn, [Next]_vars
  PROVE  RowsNameTheirOwn'
  <1> USE LibraryAssumption DEF TypeOK, RequestShape, RowsNameTheirOwn, Exists, NoRow, Early,
             Files, Ops
  <1>1. ASSUME NEW r \in Requests, NEW s \in Slugs, Create(r, s) PROVE RowsNameTheirOwn'
    BY <1>1 DEF Create, Begin, At, cacheVars
  <1>2. ASSUME NEW r \in Requests, NEW d \in Requests, Replace(r, d) \/ Delete(r, d)
        PROVE  RowsNameTheirOwn'
    BY <1>2 DEF Replace, Delete, Begin, At, cacheVars
  <1>3. ASSUME NEW r \in Requests, Step(r) \/ Fault(r) PROVE RowsNameTheirOwn'
    <2> USE DEF At, Goto, Quiet, Faulty, cacheVars
    <2>1. CASE Store(r) \/ StoreFails(r)
      BY <2>1 DEF Store, StoreFails
    <2>2. CASE Insert(r) \/ InsertFails(r)
      BY SMTT(20), <2>2 DEF Insert, InsertFails, InsertRow, SlugFree
    <2>3. CASE Undo(r)
      BY <2>3 DEF Undo
    <2>4. CASE Lookup(r) \/ DeleteLookup(r)
      BY <2>4 DEF Lookup, DeleteLookup
    <2>5. CASE Repoint(r) \/ ReplaceFails(r)
      BY <2>5 DEF Repoint, ReplaceFails, Point
    <2>6. CASE DropOld(r) \/ DeleteObject(r)
      BY <2>6 DEF DropOld, DeleteObject
    <2>7. CASE DeleteRow(r) \/ DeleteFails(r)
      BY <2>7 DEF DeleteRow, DeleteFails
    <2>8. CASE SlugTaken(r) \/ Vanished(r) \/ UndoFails(r) \/ DropFails(r) \/ DeleteFindsNoRow(r)
                \/ Purge(r) \/ PurgeFails(r) \/ Die(r)
      BY <2>8 DEF SlugTaken, Vanished, UndoFails, DropFails,
               DeleteFindsNoRow, Purge, PurgeFails, Die, Active, Ended
    <2> QED
      BY <1>3, <2>1, <2>2, <2>3, <2>4, <2>5, <2>6, <2>7, <2>8 DEF Step, Fault
  <1>4. ASSUME UNCHANGED <<row, objects, req>> PROVE RowsNameTheirOwn'
    BY <1>4
  <1> QED
    BY <1>1, <1>2, <1>3, <1>4 DEF Next, Resolve, Serve, ObjectMissing, Fill, FillLost,
                                  Refresh, vars

(* What a request has read stays a file its document has had. *)
LEMMA OldStep ==
  ASSUME TypeOK, RequestShape, RowsNameTheirOwn, OldFilesWereNamed, [Next]_vars
  PROVE  OldFilesWereNamed'
  <1> USE LibraryAssumption DEF TypeOK, RowsNameTheirOwn, OldFilesWereNamed, Exists, NoRow,
             Early, Files, Ops, RequestShape
  <1>1. ASSUME NEW r \in Requests, NEW s \in Slugs, Create(r, s) PROVE OldFilesWereNamed'
    BY <1>1 DEF Create, Begin, At, cacheVars
  <1>2. ASSUME NEW r \in Requests, NEW d \in Requests, Replace(r, d) \/ Delete(r, d)
        PROVE  OldFilesWereNamed'
    BY <1>2 DEF Replace, Delete, Begin, At, cacheVars
  <1>3. ASSUME NEW r \in Requests, Step(r) \/ Fault(r) PROVE OldFilesWereNamed'
    <2> USE DEF At, Goto, Quiet, Faulty, cacheVars
    <2>1. CASE Store(r) \/ StoreFails(r)
      BY <2>1 DEF Store, StoreFails
    <2>2. CASE Insert(r) \/ InsertFails(r)
      <3>1. /\ req[r].pc = "insert"
            /\ \E pc \in {"undo", "purge"} : req' = [req EXCEPT ![r].pc = pc]
        BY <2>2 DEF Insert, InsertFails
      <3> QED
        BY <3>1
    <2>3. CASE Undo(r)
      BY <2>3 DEF Undo
    <2>4. CASE Lookup(r) \/ DeleteLookup(r)
      BY SMTT(20), <2>4 DEF Lookup, DeleteLookup
    <2>5. CASE Repoint(r) \/ ReplaceFails(r)
      BY <2>5 DEF Repoint, ReplaceFails, Point
    <2>6. CASE DropOld(r) \/ DeleteObject(r)
      BY <2>6 DEF DropOld, DeleteObject
    <2>7. CASE DeleteRow(r) \/ DeleteFails(r)
      BY <2>7 DEF DeleteRow, DeleteFails
    <2>8. CASE SlugTaken(r) \/ Vanished(r) \/ UndoFails(r) \/ DropFails(r) \/ DeleteFindsNoRow(r)
                \/ Purge(r) \/ PurgeFails(r) \/ Die(r)
      BY SMTT(20), <2>8 DEF SlugTaken, Vanished, UndoFails, DropFails,
               DeleteFindsNoRow, Purge, PurgeFails, Die, Active, Ended
    <2> QED
      BY <1>3, <2>1, <2>2, <2>3, <2>4, <2>5, <2>6, <2>7, <2>8 DEF Step, Fault
  <1>4. ASSUME UNCHANGED <<row, objects, req>> PROVE OldFilesWereNamed'
    BY <1>4
  <1> QED
    BY <1>1, <1>2, <1>3, <1>4 DEF Next, Resolve, Serve, ObjectMissing, Fill, FillLost,
                                  Refresh, vars

(* A superseded file is never named again, so it may be dropped. *)
LEMMA DroppedStep ==
  ASSUME TypeOK, RequestShape, RowsNameTheirOwn, OldFilesWereNamed, DroppedIsSuperseded, [Next]_vars
  PROVE  DroppedIsSuperseded'
  <1> USE LibraryAssumption DEF TypeOK, RowsNameTheirOwn, OldFilesWereNamed,
             DroppedIsSuperseded, Exists, NoRow, Early, Files, Ops,
             RequestShape
  <1>1. ASSUME NEW r \in Requests, NEW s \in Slugs, Create(r, s) PROVE DroppedIsSuperseded'
    BY <1>1 DEF Create, Begin, At, cacheVars
  <1>2. ASSUME NEW r \in Requests, NEW d \in Requests, Replace(r, d) \/ Delete(r, d)
        PROVE  DroppedIsSuperseded'
    <2>1. row' = row /\ \A q \in Requests : q # r => req'[q] = req[q]
      BY <1>2 DEF Replace, Delete, Begin, At, cacheVars
    <2>2. req'[r].pc # "dropOld"
      BY <1>2 DEF Replace, Delete, Begin, At, cacheVars
    <2> QED
      BY <2>1, <2>2
  <1>3. ASSUME NEW r \in Requests, Step(r) \/ Fault(r) PROVE DroppedIsSuperseded'
    <2> USE DEF At, Goto, Quiet, Faulty, cacheVars
    <2>1. CASE Store(r) \/ StoreFails(r)
      BY SMTT(20), <2>1 DEF Store, StoreFails
    <2>2. CASE Insert(r) \/ InsertFails(r)
      BY SMTT(20), <2>2 DEF Insert, InsertFails, InsertRow, SlugFree
    <2>3. CASE Undo(r)
      BY <2>3 DEF Undo
    <2>4. CASE Lookup(r) \/ DeleteLookup(r)
      <3>1. row' = row /\ \A q \in Requests : q # r => req'[q] = req[q]
        BY <2>4 DEF Lookup, DeleteLookup
      <3>2. req'[r].pc # "dropOld"
        BY <2>4 DEF Lookup, DeleteLookup
      <3> QED
        BY <3>1, <3>2
    <2>5. CASE Repoint(r) \/ ReplaceFails(r)
      BY <2>5 DEF Repoint, ReplaceFails, Point
    <2>6. CASE DropOld(r) \/ DeleteObject(r)
      BY SMTT(20), <2>6 DEF DropOld, DeleteObject
    <2>7. CASE DeleteRow(r) \/ DeleteFails(r)
      BY <2>7 DEF DeleteRow, DeleteFails
    <2>8. CASE SlugTaken(r) \/ Vanished(r) \/ UndoFails(r) \/ DropFails(r) \/ DeleteFindsNoRow(r)
                \/ Purge(r) \/ PurgeFails(r) \/ Die(r)
      BY <2>8 DEF SlugTaken, Vanished, UndoFails, DropFails,
               DeleteFindsNoRow, Purge, PurgeFails, Die, Active, Ended
    <2> QED
      BY <1>3, <2>1, <2>2, <2>3, <2>4, <2>5, <2>6, <2>7, <2>8 DEF Step, Fault
  <1>4. ASSUME UNCHANGED <<row, objects, req>> PROVE DroppedIsSuperseded'
    BY <1>4
  <1> QED
    BY <1>1, <1>2, <1>3, <1>4 DEF Next, Resolve, Serve, ObjectMissing, Fill, FillLost,
                                  Refresh, vars

(* Nobody removes a file before it has been named. *)
LEMMA FreshStep ==
  ASSUME TypeOK, RequestShape, OldFilesWereNamed, FreshIsStored, [Next]_vars
  PROVE  FreshIsStored'
  <1> USE LibraryAssumption DEF TypeOK, RequestShape, OldFilesWereNamed, FreshIsStored,
             Exists, NoRow, Early, Files, Ops
  <1>1. ASSUME NEW r \in Requests, NEW s \in Slugs, Create(r, s) PROVE FreshIsStored'
    BY <1>1 DEF Create, Begin, At, cacheVars
  <1>2. ASSUME NEW r \in Requests, NEW d \in Requests, Replace(r, d) \/ Delete(r, d)
        PROVE  FreshIsStored'
    BY <1>2 DEF Replace, Delete, Begin, At, cacheVars
  <1>3. ASSUME NEW r \in Requests, Step(r) \/ Fault(r) PROVE FreshIsStored'
    <2> USE DEF At, Goto, Quiet, Faulty, cacheVars
    <2>1. CASE Store(r) \/ StoreFails(r)
      BY <2>1 DEF Store, StoreFails
    <2>2. CASE Insert(r) \/ InsertFails(r)
      BY <2>2 DEF Insert, InsertFails, InsertRow, SlugFree
    <2>3. CASE Undo(r)
      BY <2>3 DEF Undo
    <2>4. CASE Lookup(r) \/ DeleteLookup(r)
      BY <2>4 DEF Lookup, DeleteLookup
    <2>5. CASE Repoint(r) \/ ReplaceFails(r)
      BY <2>5 DEF Repoint, ReplaceFails, Point
    <2>6. CASE DropOld(r) \/ DeleteObject(r)
      BY <2>6 DEF DropOld, DeleteObject
    <2>7. CASE DeleteRow(r) \/ DeleteFails(r)
      <3>1. /\ \E pc \in {"purge", "failed"} : req' = [req EXCEPT ![r].pc = pc]
            /\ objects' = objects \/ (req[r].old \in Requests /\ objects' = objects \ {req[r].old})
        BY <2>7 DEF DeleteRow, DeleteFails
      <3> QED
        BY <3>1
    <2>8. CASE SlugTaken(r) \/ Vanished(r) \/ UndoFails(r) \/ DropFails(r) \/ DeleteFindsNoRow(r)
                \/ Purge(r) \/ PurgeFails(r) \/ Die(r)
      BY <2>8 DEF SlugTaken, Vanished, UndoFails, DropFails,
               DeleteFindsNoRow, Purge, PurgeFails, Die, Active, Ended
    <2> QED
      BY <1>3, <2>1, <2>2, <2>3, <2>4, <2>5, <2>6, <2>7, <2>8 DEF Step, Fault
  <1>4. ASSUME UNCHANGED <<row, objects, req>> PROVE FreshIsStored'
    BY <1>4
  <1> QED
    BY <1>1, <1>2, <1>3, <1>4 DEF Next, Resolve, Serve, ObjectMissing, Fill, FillLost,
                                  Refresh, vars

(* What a step may take out of the store: the file of an upload it undoes, *)
(* a superseded file, or the file of a document whose deletion is then     *)
(* past it.                                                                *)
Removed(o) ==
  \E r \in Requests :
    \/ req[r].pc = "undo" /\ o = r /\ req' = [req EXCEPT ![r].pc = "refused"]
    \/ req[r].pc = "dropOld" /\ o = req[r].old
    \/ /\ req[r].pc = "delObject" /\ o = req[r].old
       /\ \E pc \in {"delRow", "failed"} : req' = [req EXCEPT ![r].pc = pc]

(* A file leaves the store in one of these ways, the rows untouched. *)
LEMMA RemovalStep ==
  ASSUME TypeOK, [Next]_vars, NEW o \in objects, o \notin objects'
  PROVE  row' = row /\ Removed(o)
  <1> USE LibraryAssumption DEF TypeOK, Removed
  <1>1. ASSUME NEW r \in Requests, NEW s \in Slugs, Create(r, s) PROVE row' = row /\ Removed(o)
    BY <1>1 DEF Create, Begin, At, cacheVars
  <1>2. ASSUME NEW r \in Requests, NEW e \in Requests, Replace(r, e) \/ Delete(r, e)
        PROVE  row' = row /\ Removed(o)
    BY <1>2 DEF Replace, Delete, Begin, At, cacheVars
  <1>3. ASSUME NEW r \in Requests, Step(r) \/ Fault(r) PROVE row' = row /\ Removed(o)
    <2> USE DEF At, Goto, Quiet, Faulty, cacheVars
    <2>1. CASE Store(r) \/ StoreFails(r)
      BY <2>1 DEF Store, StoreFails
    <2>2. CASE Insert(r) \/ InsertFails(r)
      BY <2>2 DEF Insert, InsertFails, InsertRow, SlugFree
    <2>3. CASE Undo(r)
      BY <2>3 DEF Undo
    <2>4. CASE Lookup(r) \/ DeleteLookup(r)
      BY <2>4 DEF Lookup, DeleteLookup
    <2>5. CASE Repoint(r) \/ ReplaceFails(r)
      BY <2>5 DEF Repoint, ReplaceFails, Point
    <2>6. CASE DropOld(r) \/ DeleteObject(r)
      BY <2>6 DEF DropOld, DeleteObject
    <2>7. CASE DeleteRow(r) \/ DeleteFails(r)
      BY <2>7 DEF DeleteRow, DeleteFails
    <2>8. CASE SlugTaken(r) \/ Vanished(r) \/ UndoFails(r) \/ DropFails(r) \/ DeleteFindsNoRow(r)
                \/ Purge(r) \/ PurgeFails(r) \/ Die(r)
      BY <2>8 DEF SlugTaken, Vanished, UndoFails, DropFails,
               DeleteFindsNoRow, Purge, PurgeFails, Die, Active, Ended
    <2> QED
      BY <1>3, <2>1, <2>2, <2>3, <2>4, <2>5, <2>6, <2>7, <2>8 DEF Step, Fault
  <1>4. ASSUME UNCHANGED <<row, objects, req>> PROVE row' = row /\ Removed(o)
    BY <1>4
  <1> QED
    BY <1>1, <1>2, <1>3, <1>4 DEF Next, Resolve, Serve, ObjectMissing, Fill, FillLost,
                                  Refresh, vars

(* A row that comes to name another file names one in the store. *)
LEMMA NamingStep ==
  ASSUME TypeOK, FreshIsStored, [Next]_vars, NEW d \in Requests, row'[d] # row[d], Exists(d)'
  PROVE  row'[d].file \in objects'
  <1> USE LibraryAssumption DEF TypeOK, FreshIsStored, Exists, NoRow
  <1>1. ASSUME NEW r \in Requests, NEW s \in Slugs, Create(r, s) PROVE row'[d].file \in objects'
    BY <1>1 DEF Create, Begin, At, cacheVars
  <1>2. ASSUME NEW r \in Requests, NEW e \in Requests, Replace(r, e) \/ Delete(r, e)
        PROVE  row'[d].file \in objects'
    BY <1>2 DEF Replace, Delete, Begin, At, cacheVars
  <1>3. ASSUME NEW r \in Requests, Step(r) \/ Fault(r) PROVE row'[d].file \in objects'
    <2> USE DEF At, Goto, Quiet, Faulty, cacheVars
    <2>1. CASE Store(r) \/ StoreFails(r)
      BY <2>1 DEF Store, StoreFails
    <2>2. CASE Insert(r) \/ InsertFails(r)
      BY <2>2 DEF Insert, InsertFails, InsertRow, SlugFree
    <2>3. CASE Undo(r)
      BY <2>3 DEF Undo
    <2>4. CASE Lookup(r) \/ DeleteLookup(r)
      BY <2>4 DEF Lookup, DeleteLookup
    <2>5. CASE Repoint(r) \/ ReplaceFails(r)
      BY <2>5 DEF Repoint, ReplaceFails, Point
    <2>6. CASE DropOld(r) \/ DeleteObject(r)
      BY <2>6 DEF DropOld, DeleteObject
    <2>7. CASE DeleteRow(r) \/ DeleteFails(r)
      BY <2>7 DEF DeleteRow, DeleteFails
    <2>8. CASE SlugTaken(r) \/ Vanished(r) \/ UndoFails(r) \/ DropFails(r) \/ DeleteFindsNoRow(r)
                \/ Purge(r) \/ PurgeFails(r) \/ Die(r)
      BY <2>8 DEF SlugTaken, Vanished, UndoFails, DropFails,
               DeleteFindsNoRow, Purge, PurgeFails, Die, Active, Ended
    <2> QED
      BY <1>3, <2>1, <2>2, <2>3, <2>4, <2>5, <2>6, <2>7, <2>8 DEF Step, Fault
  <1>4. ASSUME UNCHANGED <<row, objects, req>> PROVE row'[d].file \in objects'
    BY <1>4
  <1> QED
    BY <1>1, <1>2, <1>3, <1>4 DEF Next, Resolve, Serve, ObjectMissing, Fill, FillLost,
                                  Refresh, vars

(* What becomes of a request that was refused, failed, or is past its      *)
(* object in a deletion.                                                   *)
StaysPut(q) ==
  \/ req'[q] = req[q]
  \/ req[q].pc = "delRow" /\ req'[q] = [req[q] EXCEPT !.pc = "failed"]
  \/ req[q].pc = "delRow" /\ row'[req[q].doc] = NoRow

(* A refused or failed request stays so; a deletion past its object stays  *)
(* there, fails, or takes the row.                                         *)
LEMMA StopsStay ==
  ASSUME TypeOK, RequestShape, [Next]_vars, NEW q \in Requests,
         req[q].pc \in {"failed", "refused", "delRow"}
  PROVE  StaysPut(q)
  <1> USE LibraryAssumption DEF TypeOK, RequestShape, StaysPut, NoRow
  <1>1. ASSUME NEW r \in Requests, NEW s \in Slugs, Create(r, s) PROVE StaysPut(q)
    BY <1>1 DEF Create, Begin, At, cacheVars
  <1>2. ASSUME NEW r \in Requests, NEW e \in Requests, Replace(r, e) \/ Delete(r, e)
        PROVE  StaysPut(q)
    BY <1>2 DEF Replace, Delete, Begin, At, cacheVars
  <1>3. ASSUME NEW r \in Requests, Step(r) \/ Fault(r) PROVE StaysPut(q)
    <2> USE DEF At, Goto, Quiet, Faulty, cacheVars
    <2>1. CASE Store(r) \/ StoreFails(r)
      BY <2>1 DEF Store, StoreFails
    <2>2. CASE Insert(r) \/ InsertFails(r)
      BY <2>2 DEF Insert, InsertFails, InsertRow, SlugFree
    <2>3. CASE Undo(r)
      BY <2>3 DEF Undo
    <2>4. CASE Lookup(r) \/ DeleteLookup(r)
      BY <2>4 DEF Lookup, DeleteLookup
    <2>5. CASE Repoint(r) \/ ReplaceFails(r)
      BY <2>5 DEF Repoint, ReplaceFails, Point
    <2>6. CASE DropOld(r) \/ DeleteObject(r)
      BY <2>6 DEF DropOld, DeleteObject
    <2>7. CASE DeleteRow(r) \/ DeleteFails(r)
      BY <2>7 DEF DeleteRow, DeleteFails
    <2>8. CASE SlugTaken(r) \/ Vanished(r) \/ UndoFails(r) \/ DropFails(r) \/ DeleteFindsNoRow(r)
                \/ Purge(r) \/ PurgeFails(r) \/ Die(r)
      BY <2>8 DEF SlugTaken, Vanished, UndoFails, DropFails,
               DeleteFindsNoRow, Purge, PurgeFails, Die, Active, Ended
    <2> QED
      BY <1>3, <2>1, <2>2, <2>3, <2>4, <2>5, <2>6, <2>7, <2>8 DEF Step, Fault
  <1>4. ASSUME UNCHANGED <<row, objects, req>> PROVE StaysPut(q)
    BY <1>4
  <1> QED
    BY <1>1, <1>2, <1>3, <1>4 DEF Next, Resolve, Serve, ObjectMissing, Fill, FillLost,
                                  Refresh, vars

(* Every step keeps RowNamesObject: by what it removes, and what it names. *)
LEMMA NamedStep ==
  ASSUME LibraryInv, [Next]_vars
  PROVE  RowNamesObject'
  <1> USE LibraryAssumption DEF LibraryInv
  <1> DEFINE Explained(d) == Deleting(d) \/ (row[d].file = d /\ At(d, "refused"))
  <1> SUFFICES ASSUME NEW d \in Requests, Exists(d)', row'[d].file \notin objects'
               PROVE  Explained(d)'
    BY DEF RowNamesObject
  <1>1. row'[d] = row[d] /\ Exists(d)
    BY NamingStep DEF Exists
  <1>2. CASE row[d].file \notin objects
    <2>1. CASE Deleting(d)
      <3>1. PICK q \in Requests :
              /\ req[q].op = "delete" /\ req[q].doc = d /\ req[q].old = row[d].file
              /\ req[q].pc \in {"delRow", "failed"}
        BY <2>1 DEF Deleting
      <3>2. row'[req[q].doc] # NoRow
        BY <3>1 DEF Exists
      <3>3. req'[q] = req[q] \/ req'[q] = [req[q] EXCEPT !.pc = "failed"]
        BY <3>1, <3>2, StopsStay DEF StaysPut
      <3>4. /\ req'[q].op = "delete" /\ req'[q].doc = d /\ req'[q].old = row'[d].file
            /\ req'[q].pc \in {"delRow", "failed"}
        BY <1>1, <3>1, <3>3 DEF TypeOK
      <3> QED
        BY <3>4 DEF Deleting
    <2>2. CASE row[d].file = d /\ At(d, "refused")
      <3>1. req'[d] = req[d]
        BY <2>2, StopsStay DEF StaysPut, At
      <3> QED
        BY <1>1, <2>2, <3>1 DEF At
    <2> QED
      BY <1>1, <1>2, <2>1, <2>2 DEF RowNamesObject
  <1>3. CASE row[d].file \in objects
    <2> DEFINE o == row[d].file
    <2>1. Removed(o)
      BY <1>1, <1>3, RemovalStep
    <2>2. PICK r \in Requests :
            \/ req[r].pc = "undo" /\ o = r /\ req' = [req EXCEPT ![r].pc = "refused"]
            \/ req[r].pc = "dropOld" /\ o = req[r].old
            \/ /\ req[r].pc = "delObject" /\ o = req[r].old
               /\ \E pc \in {"delRow", "failed"} : req' = [req EXCEPT ![r].pc = pc]
      BY <2>1 DEF Removed
    <2>3. /\ req[o].doc = d
          /\ req[o].pc = "undo" => req[o].op = "create"
      BY <1>1 DEF RowsNameTheirOwn
    <2>4. CASE req[r].pc = "undo" /\ o = r /\ req' = [req EXCEPT ![r].pc = "refused"]
      <3>1. r = d
        BY <2>3, <2>4 DEF RequestShape
      <3> QED
        BY <1>1, <2>4, <3>1 DEF At, TypeOK
    <2>5. CASE req[r].pc = "dropOld" /\ o = req[r].old
      BY <2>5 DEF DroppedIsSuperseded
    <2>6. ASSUME req[r].pc = "delObject", o = req[r].old,
                 NEW pc \in {"delRow", "failed"}, req' = [req EXCEPT ![r].pc = pc]
          PROVE  Deleting(d)'
      <3>1. req[r].op = "delete" /\ req[r].old \in Requests
        BY <2>6 DEF RequestShape
      <3>2. req[r].doc = d
        BY <2>3, <2>6, <3>1 DEF OldFilesWereNamed
      <3>3. /\ req'[r].op = "delete" /\ req'[r].doc = d /\ req'[r].old = row'[d].file
            /\ req'[r].pc \in {"delRow", "failed"}
        BY <1>1, <2>6, <3>1, <3>2 DEF TypeOK
      <3> QED
        BY <3>3 DEF Deleting
    <2> QED
      BY <2>2, <2>4, <2>5, <2>6
  <1> QED
    BY <1>2, <1>3

(* The types of a request and of a row. *)
ReqType == [pc : Pcs, op : Ops, doc : Requests, slug : Slugs \cup {NoFile}, old : Files]
RowType == [slug : Slugs \cup {NoFile}, file : Files, version : Nat]

(* Requests keep their type. *)
LEMMA RequestsTyped ==
  ASSUME TypeOK, [Next]_vars
  PROVE  req' \in [Requests -> ReqType]
  <1> USE LibraryAssumption DEF TypeOK, ReqType, RowType, Files
  <1>0. req \in [Requests -> ReqType] /\ row \in [Requests -> RowType]
    OBVIOUS
  <1>1. ASSUME NEW r \in Requests, NEW op \in Ops, NEW pc \in Pcs, NEW d \in Requests,
               NEW s \in Slugs \cup {NoFile}, Begin(r, op, pc, d, s)
        PROVE  req' \in [Requests -> ReqType]
    BY <1>0, <1>1 DEF Begin
  <1>2. ASSUME NEW r \in Requests, NEW pc \in Pcs, Goto(r, pc)
        PROVE  req' \in [Requests -> ReqType]
    BY <1>0, <1>2 DEF Goto
  <1>3. ASSUME NEW r \in Requests, NEW pc \in Pcs, NEW f \in Files,
               req' = [req EXCEPT ![r].pc = pc, ![r].old = f]
        PROVE  req' \in [Requests -> ReqType]
    <2> DEFINE q == [req[r] EXCEPT !.pc = pc, !.old = f]
    <2>1. req[r] \in ReqType
      BY <1>0
    <2>2. q \in ReqType
      BY <2>1
    <2>3. req' = [req EXCEPT ![r] = q]
      BY <1>0, <1>3
    <2> HIDE DEF q
    <2> QED
      BY <1>0, <2>2, <2>3
  <1>4. ASSUME NEW r \in Requests, NEW s \in Slugs, Create(r, s)
        PROVE  req' \in [Requests -> ReqType]
    BY <1>1, <1>4 DEF Create, Ops, Pcs
  <1>5. ASSUME NEW r \in Requests, NEW d \in Requests, Replace(r, d) \/ Delete(r, d)
        PROVE  req' \in [Requests -> ReqType]
    <2>1. row[d].slug \in Slugs \cup {NoFile}
      BY <1>0
    <2> QED
      BY <1>1, <1>5, <2>1 DEF Replace, Delete, Ops, Pcs
  <1>6. ASSUME NEW r \in Requests, Lookup(r) \/ DeleteLookup(r)
        PROVE  req' \in [Requests -> ReqType]
    <2>1. row[req[r].doc].file \in Files
      BY <1>0
    <2>2. \E pc \in Pcs : req' = [req EXCEPT ![r].pc = pc, ![r].old = row[req[r].doc].file]
      BY <1>6 DEF Lookup, DeleteLookup, Pcs
    <2> QED
      BY <1>3, <2>1, <2>2
  <1>7. ASSUME NEW r \in Requests, Step(r) \/ Fault(r), ~Lookup(r), ~DeleteLookup(r)
        PROVE  \E pc \in Pcs : Goto(r, pc)
    BY <1>7 DEF Step, Fault, Pcs, Ended, Store, StoreFails, Insert, SlugTaken, InsertFails, Undo,
                UndoFails, Repoint, Vanished, ReplaceFails, DropOld, DropFails, DeleteObject,
                DeleteRow, DeleteFindsNoRow, DeleteFails, Purge, PurgeFails, Die
  <1>8. ASSUME UNCHANGED req PROVE req' \in [Requests -> ReqType]
    BY <1>0, <1>8
  <1> QED
    BY <1>2, <1>4, <1>5, <1>6, <1>7, <1>8
       DEF Next, Resolve, Serve, ObjectMissing, Fill, FillLost, Refresh, vars

(* Rows keep their type. *)
LEMMA RowsTyped ==
  ASSUME TypeOK, RequestShape, [Next]_vars
  PROVE  row' \in [Requests -> RowType]
  <1> USE LibraryAssumption DEF TypeOK, ReqType, RowType, Files
  <1>0. req \in [Requests -> ReqType] /\ row \in [Requests -> RowType]
    OBVIOUS
  <1>1. ASSUME NEW r \in Requests, InsertRow(r) PROVE row' \in [Requests -> RowType]
    BY <1>0, <1>1 DEF InsertRow
  <1>2. ASSUME NEW r \in Requests, Point(r) PROVE row' \in [Requests -> RowType]
    BY <1>0, <1>2 DEF Point
  <1>3. ASSUME NEW r \in Requests, row' = [row EXCEPT ![req[r].doc] = NoRow]
        PROVE  row' \in [Requests -> RowType]
    BY <1>0, <1>3 DEF NoRow
  <1>4. ASSUME NEW r \in Requests, Step(r) \/ Fault(r)
        PROVE  \/ row' = row \/ InsertRow(r) \/ Point(r)
               \/ row' = [row EXCEPT ![req[r].doc] = NoRow]
    BY <1>4 DEF Step, Fault, Store, StoreFails, Insert, SlugTaken, InsertFails, Undo, UndoFails,
                Lookup, Repoint, Vanished, ReplaceFails, DropOld, DropFails, DeleteLookup,
                DeleteObject, DeleteRow, DeleteFindsNoRow, DeleteFails, Purge, PurgeFails, Die
  <1>5. ASSUME UNCHANGED row PROVE row' \in [Requests -> RowType]
    BY <1>0, <1>5
  <1> QED
    BY <1>1, <1>2, <1>3, <1>4, <1>5
       DEF Next, Create, Replace, Delete, Begin, Resolve, Serve, ObjectMissing, Fill, FillLost,
           Refresh, vars

(* Only requests' files are in the store. *)
LEMMA StoreTyped ==
  ASSUME TypeOK, [Next]_vars
  PROVE  objects' \subseteq Requests
  <1>1. ASSUME NEW r \in Requests, Step(r) \/ Fault(r)
        PROVE  \/ objects' = objects \/ objects' = objects \cup {r}
               \/ \E o : objects' = objects \ {o}
    BY <1>1 DEF Step, Fault, Store, StoreFails, Insert, SlugTaken, InsertFails, Undo, UndoFails,
                Lookup, Repoint, Vanished, ReplaceFails, DropOld, DropFails, DeleteLookup,
                DeleteObject, DeleteRow, DeleteFindsNoRow, DeleteFails, Purge, PurgeFails, Die
  <1> QED
    BY <1>1 DEF TypeOK, Next, Create, Replace, Delete, Begin, Resolve, Serve, ObjectMissing, Fill,
                FillLost, Refresh, vars

(* The cache and the visitors hold files that rows have named. *)
LEMMA CacheTyped ==
  ASSUME TypeOK, [Next]_vars
  PROVE  /\ entry' \in [Slugs -> Files \cup {NoEntry}]
         /\ fills' \in [Slugs -> SUBSET Files]
         /\ visitor' \in [Visitors -> Files]
  <1> DEFINE CacheOK == /\ entry \in [Slugs -> Files \cup {NoEntry}]
                        /\ fills \in [Slugs -> SUBSET Files]
                        /\ visitor \in [Visitors -> Files]
  <1>0. CacheOK
    BY DEF TypeOK
  <1>1. ASSUME NEW s \in Slugs PROVE Current(s) \in Files
    <2>1. CASE \E d \in Requests : row[d].slug = s
      <3>1. (CHOOSE d \in Requests : row[d].slug = s) \in Requests
        BY <2>1
      <3> QED
        BY <2>1, <3>1 DEF Current, TypeOK
    <2>2. CASE ~\E d \in Requests : row[d].slug = s
      BY <2>2 DEF Current, Files
    <2> QED
      BY <2>1, <2>2
  <1>2. ASSUME NEW r \in Requests, Step(r) \/ Fault(r)
        PROVE  UNCHANGED cacheVars \/ Purge(r)
    BY <1>2 DEF Step, Fault, Quiet, Faulty, Store, StoreFails, Insert, SlugTaken, InsertFails,
                Undo, UndoFails, Lookup, Repoint, Vanished, ReplaceFails, DropOld, DropFails,
                DeleteLookup, DeleteObject, DeleteRow, DeleteFindsNoRow, DeleteFails, PurgeFails,
                Die
  <1>3. ASSUME NEW r \in Requests, Purge(r) PROVE CacheOK'
    BY <1>0, <1>3 DEF Purge
  <1>4. ASSUME NEW v \in Visitors, NEW s \in Slugs, Resolve(v, s) PROVE CacheOK'
    <2>1. CASE entry[s] = NoEntry
      BY <1>0, <1>1, <1>4, <2>1 DEF Resolve, ReadThrough
    <2>2. CASE entry[s] # NoEntry
      BY <1>0, <1>4, <2>2 DEF Resolve
    <2> QED
      BY <2>1, <2>2
  <1>5. ASSUME NEW v \in Visitors, Serve(v) \/ ObjectMissing(v) PROVE CacheOK'
    BY <1>0, <1>5 DEF Serve, ObjectMissing, Files
  <1>6. ASSUME NEW s \in Slugs, NEW f \in Files, Fill(s, f) \/ FillLost(s, f) PROVE CacheOK'
    BY <1>0, <1>6 DEF Fill, FillLost
  <1>7. ASSUME NEW s \in Slugs, Refresh(s) PROVE CacheOK'
    BY <1>0, <1>1, <1>7 DEF Refresh, ReadThrough
  <1>8. ASSUME UNCHANGED cacheVars PROVE CacheOK'
    BY <1>0, <1>8 DEF cacheVars
  <1> QED
    BY <1>2, <1>3, <1>4, <1>5, <1>6, <1>7, <1>8
       DEF Next, Create, Replace, Delete, Begin, vars, cacheVars

(* The history variables keep their type. *)
LEMMA HistoryTyped ==
  ASSUME TypeOK, [Next]_vars
  PROVE  faults' \in BOOLEAN /\ tangled' \in BOOLEAN
  <1>1. ASSUME NEW r \in Requests, Step(r) \/ Fault(r)
        PROVE  faults' \in {faults, TRUE} /\ tangled' = tangled
    BY <1>1 DEF Step, Fault, Quiet, Faulty, Store, StoreFails, Insert, SlugTaken, InsertFails,
                Undo, UndoFails, Lookup, Repoint, Vanished, ReplaceFails, DropOld, DropFails,
                DeleteLookup, DeleteObject, DeleteRow, DeleteFindsNoRow, DeleteFails, PurgeFails,
                Purge, Die
  <1>2. ASSUME NEW r, NEW op, NEW pc, NEW d, NEW s, Begin(r, op, pc, d, s)
        PROVE  faults' = faults /\ tangled' \in BOOLEAN
    BY <1>2 DEF Begin, TypeOK
  <1> QED
    BY <1>1, <1>2 DEF TypeOK, Next, Create, Replace, Delete, Resolve, Serve, ObjectMissing, Fill,
                      FillLost, Refresh, vars

(* The inductive invariant holds in every reachable state. *)
THEOREM LibraryCorrect == Spec => []LibraryInv
  <1>1. Init => LibraryInv
    <2> SUFFICES ASSUME Init PROVE LibraryInv
      OBVIOUS
    <2> USE LibraryAssumption DEF Init, IdleRequest, NoRow
    <2>1. \A r \in Requests : req[r] = IdleRequest(r) /\ row[r] = NoRow
      OBVIOUS
    <2>2. TypeOK
      <3>1. row \in [Requests -> RowType]
        BY DEF RowType, Files
      <3>2. req \in [Requests -> ReqType]
        BY DEF ReqType, Files, Pcs, Ended, Ops
      <3> QED
        BY <3>1, <3>2 DEF TypeOK, RowType, ReqType, Files
    <2> QED
      BY <2>1, <2>2 DEF LibraryInv, RequestShape, RowsNameTheirOwn, Exists, OldFilesWereNamed,
                        DroppedIsSuperseded, FreshIsStored, RowNamesObject
  <1>2. LibraryInv /\ [Next]_vars => LibraryInv'
    <2> SUFFICES ASSUME LibraryInv, [Next]_vars PROVE LibraryInv'
      OBVIOUS
    <2>1. TypeOK'
      BY RequestsTyped, RowsTyped, StoreTyped, CacheTyped, HistoryTyped
         DEF LibraryInv, TypeOK, ReqType, RowType
    <2> QED
      BY <2>1, ShapeStep, RowsStep, OldStep, DroppedStep, FreshStep, NamedStep DEF LibraryInv
  <1> QED
    BY <1>1, <1>2, PTL DEF Spec

(* Every variable keeps its type. *)
THEOREM LibraryTypeCorrect == Spec => []TypeOK
  <1>1. LibraryInv => TypeOK
    BY DEF LibraryInv
  <1> QED
    BY <1>1, LibraryCorrect, PTL

(* However replaces, creations and deletions overlap or fail, a document   *)
(* names an object in the store, but for the exceptions RowNamesObject     *)
(* lists.                                                                  *)
THEOREM RowsNameObjects == Spec => []RowNamesObject
  <1>1. LibraryInv => RowNamesObject
    BY DEF LibraryInv
  <1> QED
    BY <1>1, LibraryCorrect, PTL

-----------------------------------------------------------------------------
(* What is in the store has a reason to be there.                          *)

(* Nothing has failed, and administrators have kept off each other's       *)
(* documents.                                                              *)
Calm == ~faults /\ ~tangled

(* Requests at work are at work on different documents. *)
Apart ==
  \A q, r \in Requests :
    Active(q) /\ Active(r) /\ req[q].doc = req[r].doc => q = r

(* How far a request has got, and what the row of its document and the     *)
(* store then say; OldSpent is why ending a request leaves no orphan.      *)
OldNotRead(r) ==
  req[r].pc \in {"idle", "store", "insert", "lookup", "undo", "delLookup"} => req[r].old = NoFile
NothingStored(r) == (At(r, "idle") \/ req[r].op = "delete") => r \notin objects
OldIsCurrent(r) ==
  req[r].pc \in {"repoint", "delObject", "delRow"}
    => Exists(req[r].doc) /\ req[r].old = row[req[r].doc].file
NewIsCurrent(r) ==
  At(r, "dropOld") \/ (At(r, "purge") /\ req[r].op # "delete") => row[req[r].doc].file = r
OldSpent(r) == req[r].pc \in {"delRow", "purge"} => req[r].old \notin objects
NotYetRow(r) ==
  At(r, "idle") \/ (req[r].pc \in {"store", "insert"} /\ req[r].op = "create") => ~Exists(r)

Stage(r) ==
  /\ OldNotRead(r) /\ NothingStored(r) /\ OldIsCurrent(r)
  /\ NewIsCurrent(r) /\ OldSpent(r) /\ NotYetRow(r)

(* A refused upload is taken back. *)
RefusedTakenBack == ~faults => \A r \in Requests : At(r, "refused") => r \notin objects

(* Every object is a row's file, or some request is about to deal with it. *)
HasOwner(o) ==
  \/ \E d \in Requests : row[d].file = o
  \/ \E r \in Requests : Active(r) /\ (r = o \/ req[r].old = o)
NoOrphans == \A o \in objects : HasOwner(o)

CauseInv ==
  /\ RefusedTakenBack
  /\ Calm => Apart /\ (\A r \in Requests : Stage(r)) /\ NoOrphans

(* What a step of a request leaves alone. *)
LEMMA StepFrame ==
  ASSUME TypeOK, RequestShape, NEW r \in Requests, Step(r)
  PROVE  /\ Active(r) /\ req[r].pc \in Pcs \ Ended
         /\ \A q \in Requests : q # r => req'[q] = req[q]
         /\ req'[r].doc = req[r].doc /\ req'[r].op = req[r].op
         /\ \A d \in Requests : d # req[r].doc => row'[d] = row[d]
         /\ \A d \in Requests : d # r /\ row'[d] # NoRow => row[d] # NoRow
         /\ \/ objects' \subseteq objects
            \/ At(r, "store") /\ objects' = objects \cup {r}
         /\ faults' = faults /\ tangled' = tangled
  <1> USE DEF TypeOK, RequestShape, Exists, Active, Ended, Pcs, At, Goto, Quiet
  <1>1. CASE Store(r)
    BY <1>1 DEF Store
  <1>2. CASE Insert(r) \/ SlugTaken(r)
    BY <1>2 DEF Insert, SlugTaken, InsertRow
  <1>3. CASE Undo(r)
    BY <1>3 DEF Undo
  <1>4. CASE Lookup(r) \/ DeleteLookup(r)
    BY <1>4 DEF Lookup, DeleteLookup
  <1>5. CASE Repoint(r) \/ Vanished(r)
    BY <1>5 DEF Repoint, Vanished, Point
  <1>6. CASE DropOld(r) \/ DeleteObject(r)
    BY <1>6 DEF DropOld, DeleteObject
  <1>7. CASE DeleteRow(r) \/ DeleteFindsNoRow(r)
    BY <1>7 DEF DeleteRow, DeleteFindsNoRow
  <1>8. CASE Purge(r)
    BY <1>8 DEF Purge
  <1> QED
    BY <1>1, <1>2, <1>3, <1>4, <1>5, <1>6, <1>7, <1>8 DEF Step

(* While administrators keep off each other's documents, a step of one     *)
(* request leaves another where it was.                                    *)
LEMMA OthersKeepStage ==
  ASSUME TypeOK, RequestShape, OldFilesWereNamed, Apart,
         NEW r \in Requests, Step(r), NEW q \in Requests, q # r, Stage(q)
  PROVE  Stage(q)'
  <1>1. /\ Active(r) /\ req'[q] = req[q]
        /\ \A d \in Requests : d # req[r].doc => row'[d] = row[d]
        /\ \A d \in Requests : d # r /\ row'[d] # NoRow => row[d] # NoRow
        /\ \/ objects' \subseteq objects
           \/ At(r, "store") /\ objects' = objects \cup {r}
    BY StepFrame
  <1>2. Active(q) => row'[req[q].doc] = row[req[q].doc]
    BY <1>1 DEF Apart, TypeOK
  <1>3. OldNotRead(q)' /\ NothingStored(q)'
    BY <1>1 DEF Stage, OldNotRead, NothingStored, At
  <1>4. OldIsCurrent(q)' /\ NewIsCurrent(q)'
    BY <1>1, <1>2 DEF Stage, OldIsCurrent, NewIsCurrent, At, Active, Ended, Exists
  <1>5. OldSpent(q)'
    <2>1. At(r, "store") => req[q].old # r
      BY DEF OldFilesWereNamed, Early, At
    <2> QED
      BY <1>1, <2>1 DEF Stage, OldSpent
  <1>6. NotYetRow(q)'
    BY <1>1 DEF Stage, NotYetRow, At, Exists
  <1> QED
    BY <1>3, <1>4, <1>5, <1>6 DEF Stage

(* A step takes a request from one stage to the next. *)
LEMMA OwnStage ==
  ASSUME TypeOK, RequestShape, OldFilesWereNamed, NEW r \in Requests, Stage(r), Step(r)
  PROVE  Stage(r)'
  <1> USE LibraryAssumption DEF TypeOK, RequestShape, Exists, Active, Ended, At, Goto, Quiet, Stage,
          OldNotRead, NothingStored, OldIsCurrent, NewIsCurrent, OldSpent, NotYetRow, Ops, NoRow
  <1>1. CASE Store(r)
    BY <1>1 DEF Store
  <1>2. CASE Insert(r) \/ SlugTaken(r)
    BY <1>2 DEF Insert, SlugTaken, InsertRow
  <1>3. CASE Undo(r)
    BY <1>3 DEF Undo
  <1>4. CASE Lookup(r) \/ DeleteLookup(r)
    BY <1>4 DEF Lookup, DeleteLookup
  <1>5. CASE Repoint(r) \/ Vanished(r)
    BY <1>5 DEF Repoint, Vanished, Point
  <1>6. CASE DropOld(r)
    <2>1. /\ req[r].pc = "dropOld" /\ req' = [req EXCEPT ![r].pc = "purge"]
          /\ objects' = objects \ {req[r].old} /\ row' = row
      BY <1>6 DEF DropOld
    <2> QED
      BY <2>1
  <1>9. CASE DeleteObject(r)
    <2>1. /\ req[r].pc = "delObject" /\ req' = [req EXCEPT ![r].pc = "delRow"]
          /\ objects' = objects \ {req[r].old} /\ row' = row
      BY <1>9 DEF DeleteObject
    <2> QED
      BY <2>1
  <1>7. CASE DeleteRow(r) \/ DeleteFindsNoRow(r)
    BY <1>7 DEF DeleteRow, DeleteFindsNoRow
  <1>8. CASE Purge(r)
    BY <1>8 DEF Purge
  <1> QED
    BY <1>1, <1>2, <1>3, <1>4, <1>5, <1>6, <1>7, <1>8, <1>9 DEF Step

(* Nor does it leave an orphan: what it takes from a row it has read, and  *)
(* what it has read it has dropped when it ends.                           *)
LEMMA StepOwners ==
  ASSUME TypeOK, RequestShape, NEW r \in Requests, Stage(r), Step(r),
         NEW o \in objects', o \in objects => HasOwner(o)
  PROVE  HasOwner(o)'
  <1> USE LibraryAssumption DEF TypeOK, RequestShape
  <1>1. /\ Active(r)
        /\ \A q \in Requests : q # r => req'[q] = req[q]
        /\ \A d \in Requests : d # req[r].doc => row'[d] = row[d]
        /\ \/ objects' \subseteq objects
           \/ At(r, "store") /\ objects' = objects \cup {r}
    BY StepFrame
  <1>2. o \in Requests /\ o # NoFile
    BY <1>1 DEF At
  <1>3. Active(r)' <=> ~(Undo(r) \/ DeleteFindsNoRow(r) \/ Purge(r))
    <2> USE DEF Active, Ended, At, Goto
    <2>1. CASE Undo(r) \/ DeleteFindsNoRow(r) \/ Purge(r)
      BY <2>1 DEF Undo, DeleteFindsNoRow, Purge
    <2>2. CASE ~(Undo(r) \/ DeleteFindsNoRow(r) \/ Purge(r))
      BY <2>2 DEF Step, Store, Insert, SlugTaken, Lookup, Repoint, Vanished, DropOld,
                  DeleteLookup, DeleteObject, DeleteRow
    <2> QED
      BY <2>1, <2>2
  <1>4. ASSUME Active(r)', r = o \/ req'[r].old = o PROVE HasOwner(o)'
    BY <1>4 DEF HasOwner
  <1>5. ASSUME NEW q \in Requests, q # r, Active(q), q = o \/ req[q].old = o PROVE HasOwner(o)'
    BY <1>1, <1>5 DEF HasOwner, Active
  <1>6. ASSUME NEW d \in Requests, row'[d].file = o PROVE HasOwner(o)'
    BY <1>6 DEF HasOwner
  <1>7. \/ req'[r].old = req[r].old
        \/ Active(r)' /\ req[r].old = NoFile
    BY <1>3 DEF Stage, OldNotRead, Step, At, Goto, Store, Insert, SlugTaken, Undo, Lookup, Repoint,
                Vanished, DropOld, DeleteLookup, DeleteObject, DeleteRow, DeleteFindsNoRow, Purge
  <1>8. CASE Active(r)' /\ row' = row
    <2>1. CASE o \notin objects
      BY <1>1, <1>4, <1>8, <2>1
    <2>2. CASE o \in objects
      BY <1>2, <1>4, <1>5, <1>6, <1>7, <1>8, <2>2 DEF HasOwner
    <2> QED
      BY <2>1, <2>2
  <1>9. CASE Active(r)' /\ row' # row
    <2>1. Insert(r) \/ Repoint(r) \/ DeleteRow(r)
      BY <1>9 DEF Step, Store, SlugTaken, Undo, Lookup, Vanished, DropOld, DeleteLookup,
                  DeleteObject, DeleteFindsNoRow, Purge
    <2>2. o \in objects
      BY <2>1 DEF Insert, Repoint, DeleteRow
    <2>3. ASSUME row[req[r].doc].file = o PROVE req'[r].old = o
      <3>1. CASE Insert(r)
        <4>1. req[r].doc = r /\ row[r] = NoRow
          BY <3>1 DEF Insert, At, Stage, NotYetRow, Exists
        <4> QED
          BY <1>2, <2>3, <4>1 DEF NoRow
      <3>2. CASE Repoint(r)
        BY <2>3, <3>2, <1>7, <1>2 DEF Repoint, At, Stage, OldIsCurrent
      <3>3. CASE DeleteRow(r)
        BY <2>2, <2>3, <3>3 DEF DeleteRow, At, Stage, OldIsCurrent, OldSpent
      <3> QED
        BY <2>1, <3>1, <3>2, <3>3
    <2>4. ASSUME NEW d \in Requests, row[d].file = o PROVE HasOwner(o)'
      BY <1>1, <1>4, <1>6, <1>9, <2>3, <2>4
    <2> QED
      BY <1>2, <1>4, <1>5, <1>7, <1>9, <2>2, <2>4 DEF HasOwner
  <1>10. CASE Undo(r) \/ DeleteFindsNoRow(r) \/ Purge(r)
    <2>1. ~DeleteFindsNoRow(r)
      BY DEF DeleteFindsNoRow, At, Stage, OldIsCurrent
    <2>2. row' = row /\ o \in objects
      BY <1>10, <2>1 DEF Undo, Purge
    <2>3. req[r].old # o
      BY <1>2, <1>10, <2>1, <2>2 DEF Undo, Purge, At, Stage, OldNotRead, OldSpent
    <2>4. ASSUME r = o PROVE HasOwner(o)'
      <3>1. Purge(r)
        BY <1>10, <2>1, <2>4 DEF Undo
      <3>2. row[req[r].doc].file = r
        BY <2>2, <2>4, <3>1 DEF Purge, At, Stage, NothingStored, NewIsCurrent
      <3> QED
        BY <1>6, <2>2, <2>4, <3>2
    <2> QED
      BY <1>5, <1>6, <2>2, <2>3, <2>4 DEF HasOwner
  <1> QED
    BY <1>3, <1>8, <1>9, <1>10

(* A request that begins is apart from the others, or tangles. *)
LEMMA BeginKeepsCause ==
  ASSUME TypeOK, CauseInv, NEW r \in Requests, NEW op \in Ops, NEW pc \in Pcs,
         NEW d \in Requests, NEW s, Begin(r, op, pc, d, s),
         pc = (IF op = "delete" THEN "delLookup" ELSE "store"),
         op = "create" => d = r
  PROVE  CauseInv'
  <1> USE DEF TypeOK, At
  <1>1. /\ At(r, "idle")
        /\ req'[r] = [pc |-> pc, op |-> op, doc |-> d, slug |-> s, old |-> NoFile]
        /\ \A q \in Requests : q # r => req'[q] = req[q]
        /\ tangled' = (tangled \/ \E q \in Requests : Active(q) /\ req[q].doc = d)
        /\ row' = row /\ objects' = objects /\ faults' = faults
    BY DEF Begin
  <1>2. RefusedTakenBack'
    BY <1>1 DEF CauseInv, RefusedTakenBack
  <1> SUFFICES ASSUME Calm' PROVE Apart' /\ (\A q \in Requests : Stage(q)') /\ NoOrphans'
    BY <1>2 DEF CauseInv
  <1>3. Calm /\ Apart /\ (\A q \in Requests : Stage(q)) /\ NoOrphans
    BY <1>1 DEF Calm, CauseInv
  <1>4. \A q \in Requests : Active(q) => req[q].doc # d
    BY <1>1 DEF Calm
  <1>5. Apart'
    BY <1>1, <1>3, <1>4 DEF Apart, Active
  <1>6. ASSUME NEW q \in Requests PROVE Stage(q)'
    <2>1. CASE q # r
      BY <1>1, <1>3, <2>1 DEF Stage, OldNotRead, NothingStored, OldIsCurrent, NewIsCurrent,
                              OldSpent, NotYetRow, Exists
    <2>2. CASE q = r
      BY <1>1, <1>3, <2>2 DEF Stage, OldNotRead, NothingStored, OldIsCurrent, NewIsCurrent,
                              OldSpent, NotYetRow, Exists
    <2> QED
      BY <2>1, <2>2
  <1>7. ASSUME NEW o \in objects PROVE HasOwner(o)'
    <2>1. HasOwner(o) /\ ~Active(r)
      BY <1>1, <1>3 DEF NoOrphans, Active, Ended
    <2> QED
      BY <1>1, <2>1 DEF HasOwner, Active
  <1> QED
    BY <1>1, <1>5, <1>6, <1>7 DEF NoOrphans

(* CauseInv is inductive. *)
LEMMA CauseStep ==
  ASSUME LibraryInv, CauseInv, [Next]_vars
  PROVE  CauseInv'
  <1> USE DEF LibraryInv
  <1>1. ASSUME NEW r \in Requests, NEW s \in Slugs, Create(r, s) PROVE CauseInv'
    BY <1>1, BeginKeepsCause DEF Create, Ops, Pcs
  <1>2. ASSUME NEW r \in Requests, NEW d \in Requests, Replace(r, d) \/ Delete(r, d)
        PROVE  CauseInv'
    BY <1>2, BeginKeepsCause DEF Replace, Delete, Ops, Pcs
  <1>3. ASSUME NEW r \in Requests, Step(r) PROVE CauseInv'
    <2>1. /\ \A q \in Requests : q # r => req'[q] = req[q]
          /\ req'[r].doc = req[r].doc /\ Active(r)
          /\ \/ objects' \subseteq objects
             \/ At(r, "store") /\ objects' = objects \cup {r}
          /\ faults' = faults /\ tangled' = tangled
      BY <1>3, StepFrame
    <2>2. At(r, "refused")' => r \notin objects'
      BY <1>3 DEF Step, TypeOK, At, Goto, Store, Insert, SlugTaken, Undo, Lookup, Repoint,
                  Vanished, DropOld, DeleteLookup, DeleteObject, DeleteRow, DeleteFindsNoRow, Purge
    <2>3. RefusedTakenBack'
      BY <2>1, <2>2 DEF CauseInv, RefusedTakenBack, At
    <2> SUFFICES ASSUME Calm' PROVE Apart' /\ (\A q \in Requests : Stage(q)') /\ NoOrphans'
      BY <2>3 DEF CauseInv
    <2>4. Apart /\ (\A q \in Requests : Stage(q)) /\ NoOrphans
      BY <2>1 DEF Calm, CauseInv
    <2>5. Apart'
      BY <2>1, <2>4 DEF Apart, Active
    <2>6. \A q \in Requests : Stage(q)'
      BY <1>3, <2>4, OwnStage, OthersKeepStage
    <2>7. NoOrphans'
      BY <1>3, <2>4, StepOwners DEF NoOrphans
    <2> QED
      BY <2>5, <2>6, <2>7
  <1>4. ASSUME NEW r \in Requests, Fault(r) PROVE CauseInv'
    <2>1. faults' = TRUE
      BY <1>4 DEF Fault, Faulty, StoreFails, InsertFails, UndoFails, ReplaceFails, DropFails,
                  DeleteFails, PurgeFails, Die
    <2> QED
      BY <2>1 DEF CauseInv, RefusedTakenBack, Calm
  <1>5. ASSUME UNCHANGED <<row, objects, req, faults, tangled>> PROVE CauseInv'
    BY <1>5 DEF CauseInv, RefusedTakenBack, Calm, Apart, Stage, OldNotRead, NothingStored,
                OldIsCurrent, NewIsCurrent, OldSpent, NotYetRow, NoOrphans, HasOwner, Active, At,
                Exists
  <1> QED
    BY <1>1, <1>2, <1>3, <1>4, <1>5 DEF Next, Resolve, Serve, ObjectMissing, Fill, FillLost,
                                        Refresh, vars

(* "Don't orphan": without a fault a refused upload is taken back, and     *)
(* while nobody tangles, every object in the store is some row's file or   *)
(* in the hands of a request at work, however many documents there are.    *)
THEOREM OrphansHaveCause == Spec => []OrphansNeedCause
  <1>1. Init => CauseInv
    BY LibraryAssumption
       DEF Init, IdleRequest, NoRow, CauseInv, RefusedTakenBack, Calm, Apart, Stage, OldNotRead,
           NothingStored, OldIsCurrent, NewIsCurrent, OldSpent, NotYetRow, NoOrphans, HasOwner,
           Active, Ended, At, Exists
  <1>2. LibraryInv /\ CauseInv /\ [Next]_vars => CauseInv'
    BY CauseStep
  <1>3. CauseInv => OrphansNeedCause
    BY DEF CauseInv, RefusedTakenBack, Calm, NoOrphans, HasOwner, OrphansNeedCause
  <1> QED
    BY <1>1, <1>2, <1>3, LibraryCorrect, PTL DEF Spec
=============================================================================
