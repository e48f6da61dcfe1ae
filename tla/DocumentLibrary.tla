-------------------------- MODULE DocumentLibrary --------------------------
(***************************************************************************)
(* The documents of the site: rows in Postgres, PDF objects in the store,  *)
(* and the cached row by which the download route finds the object.        *)
(*                                                                         *)
(* Administrators create (api/admin/documents), replace the file           *)
(* (api/admin/documents/[id]/replace) and delete (deleteDocument); every   *)
(* await of these handlers is a step, and any of them may overlap. Visitors*)
(* download by slug (api/documents/[slug]) through the cache.              *)
(*                                                                         *)
(* A request that stores a file does so under a key of its own, and a      *)
(* document's id is new, so the request names both: its key, and the       *)
(* document it creates. What the guards in front of the handlers refuse    *)
(* (origin, session, form, file, scan) never starts here.                  *)
(***************************************************************************)
EXTENDS Naturals, FiniteSets

CONSTANTS
  Requests,  \* requests of administrators; each runs once
  Visitors,  \* downloads that may overlap
  Slugs,     \* public names of documents
  NoFile,    \* no row, and the null a read of an absent document caches
  NoEntry,   \* nothing cached
  MaxFills   \* bound: reads of one slug not yet written to the cache

ASSUME LibraryAssumption ==
  /\ IsFiniteSet(Requests)
  /\ NoFile \notin Requests \cup Slugs /\ NoEntry \notin Requests /\ NoFile # NoEntry

VARIABLES
  row,      \* the documents: slug, current file, version
  objects,  \* the keys in the store
  req,      \* each request: its step, kind, document, slug, the file it read
  entry,    \* what is cached for a slug: a file, NoFile, or NoEntry
  fills,    \* reads of the row whose result is not yet written to the cache
  visitor,  \* the file each download is about to fetch, or NoFile
  faults,   \* history: a statement failed, or a request died
  tangled   \* history: two requests were at work on one document

vars == <<row, objects, req, entry, fills, visitor, faults, tangled>>
cacheVars == <<entry, fills, visitor>>

IdleRequest(r) == [pc |-> "idle", op |-> "create", doc |-> r, slug |-> NoFile, old |-> NoFile]
NoRow == [slug |-> NoFile, file |-> NoFile, version |-> 0]

Ended == {"idle", "done", "refused", "failed"}
Active(r) == req[r].pc \notin Ended

Exists(d) == row[d] # NoRow
Current(s) ==
  IF \E d \in Requests : row[d].slug = s
  THEN row[CHOOSE d \in Requests : row[d].slug = s].file ELSE NoFile

Init ==
  /\ row = [d \in Requests |-> NoRow]
  /\ objects = {}
  /\ req = [r \in Requests |-> IdleRequest(r)]
  /\ entry = [s \in Slugs |-> NoEntry]
  /\ fills = [s \in Slugs |-> {}]
  /\ visitor = [v \in Visitors |-> NoFile]
  /\ faults = FALSE /\ tangled = FALSE

-----------------------------------------------------------------------------
(* A definition whose name begins with Mutant is not part of the model: it *)
(* is the definition after it with a plausible bug, which the run must     *)
(* catch when it takes that definition's place.                            *)
-----------------------------------------------------------------------------
At(r, pc) == req[r].pc = pc
Goto(r, pc) == req' = [req EXCEPT ![r].pc = pc]
Quiet == UNCHANGED <<cacheVars, faults, tangled>>
Faulty == faults' = TRUE /\ UNCHANGED <<cacheVars, tangled>>

(* A request that begins on a document on which another one is at work. *)
Begin(r, op, pc, d, s) ==
  /\ At(r, "idle")
  /\ req' = [req EXCEPT ![r] = [pc |-> pc, op |-> op, doc |-> d, slug |-> s, old |-> NoFile]]
  /\ tangled' = (tangled \/ \E q \in Requests : Active(q) /\ req[q].doc = d)
  /\ UNCHANGED <<row, objects, cacheVars, faults>>

Create(r, s) == Begin(r, "create", "store", r, s)
Replace(r, d) == Exists(d) /\ Begin(r, "replace", "store", d, row[d].slug)
Delete(r, d) == Exists(d) /\ Begin(r, "delete", "delLookup", d, row[d].slug)

(* putObject: a throw does not say whether the object landed. *)
Store(r) ==
  /\ At(r, "store")
  /\ objects' = objects \cup {r}
  /\ Goto(r, IF req[r].op = "create" THEN "insert" ELSE "lookup")
  /\ UNCHANGED row /\ Quiet

StoreFails(r) ==
  /\ At(r, "store")
  /\ objects' \in {objects, objects \cup {r}}
  /\ Goto(r, "failed")
  /\ UNCHANGED row /\ Faulty

-----------------------------------------------------------------------------
(* Create.                                                                 *)

SlugFree(s) == \A d \in Requests : row[d].slug # s

InsertRow(r) == row' = [row EXCEPT ![r] = [slug |-> req[r].slug, file |-> r, version |-> 1]]

Insert(r) ==
  /\ At(r, "insert") /\ SlugFree(req[r].slug)
  /\ InsertRow(r)
  /\ Goto(r, "purge")
  /\ UNCHANGED objects /\ Quiet

SlugTaken(r) ==
  /\ At(r, "insert") /\ ~SlugFree(req[r].slug)
  /\ Goto(r, "undo")
  /\ UNCHANGED <<row, objects>> /\ Quiet

(* Any other error, which a committed insert whose answer is lost also is. *)
InsertFails(r) ==
  /\ At(r, "insert")
  /\ row' = row \/ (SlugFree(req[r].slug) /\ InsertRow(r))
  /\ Goto(r, "undo")
  /\ UNCHANGED objects /\ Faulty

(* deleteObject(key).catch(() => {}) of the file the request has stored. *)
MutantKeepsObject(r) ==
  /\ At(r, "undo")
  /\ Goto(r, "refused")
  /\ UNCHANGED <<row, objects>> /\ Quiet

Undo(r) ==
  /\ At(r, "undo")
  /\ objects' = objects \ {r}
  /\ Goto(r, "refused")
  /\ UNCHANGED row /\ Quiet

UndoFails(r) ==
  /\ At(r, "undo")
  /\ Goto(r, "refused")
  /\ UNCHANGED <<row, objects>> /\ Faulty

-----------------------------------------------------------------------------
(* Replace the file: replaceDocumentFile reads, then updates the row.      *)

MutantDropsFirst(r) ==
  LET d == req[r].doc IN
  /\ At(r, "lookup")
  /\ req' = [req EXCEPT ![r].pc = IF Exists(d) THEN "repoint" ELSE "undo", ![r].old = row[d].file]
  /\ objects' = objects \ {row[d].file}
  /\ UNCHANGED row /\ Quiet

Lookup(r) ==
  LET d == req[r].doc IN
  /\ At(r, "lookup")
  /\ req' = [req EXCEPT ![r].pc = IF Exists(d) THEN "repoint" ELSE "undo", ![r].old = row[d].file]
  /\ UNCHANGED <<row, objects>> /\ Quiet

Point(r) ==
  LET d == req[r].doc IN
  row' = [row EXCEPT ![d].file = r, ![d].version = @ + 1]

Repoint(r) ==
  /\ At(r, "repoint") /\ Exists(req[r].doc)
  /\ Point(r)
  /\ Goto(r, "dropOld")
  /\ UNCHANGED objects /\ Quiet

(* Deleted between the read and the update: treated as gone. *)
Vanished(r) ==
  /\ At(r, "repoint") /\ ~Exists(req[r].doc)
  /\ Goto(r, "undo")
  /\ UNCHANGED <<row, objects>> /\ Quiet

(* An error of either statement is thrown past the handler. *)
ReplaceFails(r) ==
  /\ At(r, "lookup") \/ At(r, "repoint")
  /\ row' = row \/ (At(r, "repoint") /\ Exists(req[r].doc) /\ Point(r))
  /\ Goto(r, "failed")
  /\ UNCHANGED objects /\ Faulty

MutantKeepsOld(r) ==
  /\ At(r, "dropOld")
  /\ Goto(r, "purge")
  /\ UNCHANGED <<row, objects>> /\ Quiet

DropOld(r) ==
  /\ At(r, "dropOld")
  /\ objects' = objects \ {req[r].old}
  /\ Goto(r, "purge")
  /\ UNCHANGED row /\ Quiet

(* Logged, and the request goes on. *)
DropFails(r) ==
  /\ At(r, "dropOld")
  /\ Goto(r, "purge")
  /\ UNCHANGED <<row, objects>> /\ Faulty

-----------------------------------------------------------------------------
(* Delete: the object, then the row.                                       *)

DeleteLookup(r) ==
  LET d == req[r].doc IN
  /\ At(r, "delLookup")
  /\ req' = [req EXCEPT ![r].pc = IF Exists(d) THEN "delObject" ELSE "purge", ![r].old = row[d].file]
  /\ UNCHANGED <<row, objects>> /\ Quiet

DeleteObject(r) ==
  /\ At(r, "delObject")
  /\ objects' = objects \ {req[r].old}
  /\ Goto(r, "delRow")
  /\ UNCHANGED row /\ Quiet

DeleteRow(r) ==
  /\ At(r, "delRow") /\ Exists(req[r].doc)
  /\ row' = [row EXCEPT ![req[r].doc] = NoRow]
  /\ Goto(r, "purge")
  /\ UNCHANGED objects /\ Quiet

(* Another deletion was faster: the delete of no row throws. *)
DeleteFindsNoRow(r) ==
  /\ At(r, "delRow") /\ ~Exists(req[r].doc)
  /\ Goto(r, "failed")
  /\ UNCHANGED <<row, objects>> /\ Quiet

DeleteFails(r) ==
  /\ req[r].pc \in {"delLookup", "delObject", "delRow"}
  /\ objects' = objects \/ (At(r, "delObject") /\ objects' = objects \ {req[r].old})
  /\ row' = row \/ (At(r, "delRow") /\ row' = [row EXCEPT ![req[r].doc] = NoRow])
  /\ Goto(r, "failed")
  /\ Faulty

-----------------------------------------------------------------------------
(* The last call of all three: revalidateTags, which drops what is cached  *)
(* now, or fails unseen. A process may die before any step.                *)

Purge(r) ==
  /\ At(r, "purge")
  /\ entry' = [s \in Slugs |-> NoEntry]
  /\ Goto(r, "done")
  /\ UNCHANGED <<row, objects, fills, visitor, faults, tangled>>

PurgeFails(r) ==
  /\ At(r, "purge")
  /\ Goto(r, "done")
  /\ UNCHANGED <<row, objects>> /\ Faulty

Die(r) ==
  /\ Active(r)
  /\ Goto(r, "failed")
  /\ UNCHANGED <<row, objects>> /\ Faulty

-----------------------------------------------------------------------------
(* Downloads. The row is read through the cache; a miss reads the row and  *)
(* writes the entry some time later.                                       *)

ReadThrough(s) ==
  /\ fills' = [fills EXCEPT ![s] = @ \cup {Current(s)}]
  /\ Cardinality(fills'[s]) <= MaxFills

Resolve(v, s) ==
  /\ visitor[v] = NoFile
  /\ IF entry[s] = NoEntry
     THEN visitor' = [visitor EXCEPT ![v] = Current(s)] /\ ReadThrough(s)
     ELSE visitor' = [visitor EXCEPT ![v] = entry[s]] /\ UNCHANGED fills
  /\ UNCHANGED <<row, objects, req, entry, faults, tangled>>

Serve(v) ==
  /\ visitor[v] \in objects
  /\ visitor' = [visitor EXCEPT ![v] = NoFile]
  /\ UNCHANGED <<row, objects, req, entry, fills, faults, tangled>>

ObjectMissing(v) ==
  /\ visitor[v] # NoFile /\ visitor[v] \notin objects
  /\ visitor' = [visitor EXCEPT ![v] = NoFile]
  /\ UNCHANGED <<row, objects, req, entry, fills, faults, tangled>>

Files == Requests \cup {NoFile}

Fill(s, f) ==
  /\ f \in fills[s]
  /\ entry' = [entry EXCEPT ![s] = f]
  /\ fills' = [fills EXCEPT ![s] = @ \ {f}]
  /\ UNCHANGED <<row, objects, req, visitor, faults, tangled>>

FillLost(s, f) ==
  /\ f \in fills[s]
  /\ fills' = [fills EXCEPT ![s] = @ \ {f}]
  /\ UNCHANGED <<row, objects, req, entry, visitor, faults, tangled>>

(* Older than its TTL, an entry is served and refreshed in the background. *)
MutantRefreshesNothing(s) ==
  /\ entry[s] # NoEntry
  /\ fills' = [fills EXCEPT ![s] = @ \cup {entry[s]}]
  /\ UNCHANGED <<row, objects, req, entry, visitor, faults, tangled>>

Refresh(s) ==
  /\ entry[s] # NoEntry
  /\ ReadThrough(s)
  /\ UNCHANGED <<row, objects, req, entry, visitor, faults, tangled>>

-----------------------------------------------------------------------------
Step(r) ==
  \/ Store(r) \/ Insert(r) \/ SlugTaken(r) \/ Undo(r)
  \/ Lookup(r) \/ Repoint(r) \/ Vanished(r) \/ DropOld(r)
  \/ DeleteLookup(r) \/ DeleteObject(r) \/ DeleteRow(r) \/ DeleteFindsNoRow(r)
  \/ Purge(r)

Fault(r) ==
  \/ StoreFails(r) \/ InsertFails(r) \/ UndoFails(r)
  \/ ReplaceFails(r) \/ DropFails(r) \/ DeleteFails(r) \/ PurgeFails(r) \/ Die(r)

Next ==
  \/ \E r \in Requests, s \in Slugs : Create(r, s)
  \/ \E r, d \in Requests : Replace(r, d) \/ Delete(r, d)
  \/ \E r \in Requests : Step(r) \/ Fault(r)
  \/ \E v \in Visitors, s \in Slugs : Resolve(v, s)
  \/ \E v \in Visitors : Serve(v) \/ ObjectMissing(v)
  \/ \E s \in Slugs, f \in Files : Fill(s, f) \/ FillLost(s, f)
  \/ \E s \in Slugs : Refresh(s)

Spec == Init /\ [][Next]_vars

(* Handlers run on; pages keep being asked for, which is what refreshes an *)
(* entry older than its TTL; writes to the cache do not fail for ever.     *)
Fairness ==
  /\ \A r \in Requests : WF_vars(Step(r))
  /\ \A s \in Slugs : WF_vars(Refresh(s)) /\ SF_vars(\E f \in Files : Fill(s, f))

FairSpec == Spec /\ Fairness

-----------------------------------------------------------------------------
Ops == {"create", "replace", "delete"}
Pcs == Ended \cup {"store", "insert", "undo", "lookup", "repoint", "dropOld",
                  "delLookup", "delObject", "delRow", "purge"}

(* Type correctness of every variable. *)
TypeOK ==
  /\ row \in [Requests -> [slug : Slugs \cup {NoFile}, file : Files, version : Nat]]
  /\ objects \subseteq Requests
  /\ req \in [Requests -> [pc : Pcs, op : Ops, doc : Requests,
                           slug : Slugs \cup {NoFile}, old : Files]]
  /\ entry \in [Slugs -> Files \cup {NoEntry}]
  /\ fills \in [Slugs -> SUBSET Files]
  /\ visitor \in [Visitors -> Files]
  /\ faults \in BOOLEAN /\ tangled \in BOOLEAN

(* "Upload new, repoint row, delete old": however replaces and deletions   *)
(* of a document overlap or fail, its row names an object in the store,    *)
(* except inside a deletion (or after one that stopped between object and  *)
(* row), or after a creation whose committed insert was reported failed.   *)
Deleting(d) ==
  \E r \in Requests :
    /\ req[r].op = "delete" /\ req[r].doc = d /\ req[r].old = row[d].file
    /\ req[r].pc \in {"delRow", "failed"}

RowNamesObject ==
  \A d \in Requests :
    Exists(d) /\ row[d].file \notin objects
      => Deleting(d) \/ (row[d].file = d /\ At(d, "refused"))

(* "Don't orphan": without faults a refused request leaves nothing in the  *)
(* store, however requests overlap; and while administrators keep off each *)
(* other's documents, every object is some row's file, or its request or   *)
(* one about to drop it is under way.                                      *)
OrphansNeedCause ==
  ~faults =>
    /\ \A r \in Requests : At(r, "refused") => r \notin objects
    /\ ~tangled =>
         \A o \in objects :
           \/ \E d \in Requests : row[d].file = o
           \/ \E r \in Requests : Active(r) /\ (r = o \/ req[r].old = o)

(* "Self-healing": when the administrators are done, the cache comes to    *)
(* hold the current row, though its purge failed or a read that began      *)
(* before it was written after it.                                         *)
CacheHeals == \A s \in Slugs : <>[](entry[s] \in {NoEntry, Current(s)})
=============================================================================
