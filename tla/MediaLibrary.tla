---------------------------- MODULE MediaLibrary ----------------------------
(***************************************************************************)
(* The media library: an image is a row in Postgres and an object in the   *)
(* bucket, uploaded once and shown in many places. A manufacturer's logo,  *)
(* a team member's photo and a product's picture hold the image's id, with *)
(* no foreign key behind it; a project holds a copy of the object, made    *)
(* when the image is attached. Requests overlap, and every await is a step *)
(* of its own: a process may stop at any of them.                          *)
(*                                                                         *)
(* The key of an image's object is drawn at random with the upload and     *)
(* never changes, so the image's id stands for it.                         *)
(***************************************************************************)
EXTENDS Naturals, FiniteSets

CONSTANTS
  Images,                    \* ids of images, and the keys of their objects
  Copies,                    \* keys of projects' copies
  Logos, Photos, Pictures,   \* what may hold an image by its id
  ProjectMedia,              \* the media of projects, which are copies
  Admins,                    \* requests that may overlap
  None,                      \* no image
  MaxRequests                \* bound: requests made

Holders == Logos \cup Photos \cup Pictures \cup ProjectMedia
Keys == Images \cup Copies

ASSUME MediaAssumption ==
  /\ Images \cap Copies = {} /\ None \notin Keys /\ MaxRequests \in Nat
  /\ \A S, T \in {Logos, Photos, Pictures, ProjectMedia} : S # T => S \cap T = {}

VARIABLES
  rows,     \* images that have a row
  used,     \* image ids and copy keys that have been given out
  objects,  \* keys there is an object under
  holds,    \* what each holder shows: an image's id, or for a project the key of its copy
  admin,    \* each administrator's request: what is still to be done
  made,     \* how many requests there have been
  broken,   \* history: images whose delete stopped between the object and the row
  stale     \* history: images attached behind the back of their delete

vars == <<rows, used, objects, holds, admin, made, broken, stale>>

Idle == [pc |-> "idle"]

Init ==
  /\ rows \in SUBSET Images /\ used = rows /\ objects = rows
  /\ holds = [h \in Holders |-> None]
  /\ admin = [a \in Admins |-> Idle] /\ made = 0
  /\ broken = {} /\ stale = {}

-----------------------------------------------------------------------------
(* A definition whose name begins with Mutant is not part of the model: it *)
(* is the definition after it with a plausible bug.                        *)

At(a, pc) == admin[a].pc = pc
Goto(a, request) == admin' = [admin EXCEPT ![a] = request] /\ UNCHANGED made
Begin(a, request) ==
  /\ At(a, "idle") /\ made < MaxRequests
  /\ made' = made + 1
  /\ admin' = [admin EXCEPT ![a] = request]

-----------------------------------------------------------------------------
(* Upload: scanned, stored, then given a row.                              *)

MutantSwallows(a) ==
  \E i \in Images \ used :
    /\ Begin(a, [pc |-> "stored", image |-> i])
    /\ used' = used \cup {i}
    /\ UNCHANGED <<rows, objects, holds, broken, stale>>

putObject(a) ==
  \E i \in Images \ used :
    /\ Begin(a, [pc |-> "stored", image |-> i])
    /\ objects' = objects \cup {i} /\ used' = used \cup {i}
    /\ UNCHANGED <<rows, holds, broken, stale>>

createMediaAsset(a) ==
  /\ At(a, "stored")
  /\ rows' = rows \cup {admin[a].image}
  /\ Goto(a, Idle)
  /\ UNCHANGED <<used, objects, holds, broken, stale>>

-----------------------------------------------------------------------------
(* Attaching. The form offers the images there were when it was opened.    *)

(* A delete of image i that no longer sees what the holder h shows.        *)
CountedPast(i, h) ==
  \E a \in Admins :
    /\ admin[a].pc \in {"delete", "row"} /\ admin[a].image = i
    /\ At(a, "delete") => ~\E S \in admin[a].uncounted : h \in S

attach(a) ==
  \E h \in Holders \ ProjectMedia, i \in (used \cap Images) \cup {None} :
    /\ Begin(a, Idle)
    /\ holds' = [holds EXCEPT ![h] = i]
    /\ stale' = IF i # None /\ (i \notin rows \/ CountedPast(i, h)) THEN stale \cup {i} ELSE stale
    /\ UNCHANGED <<rows, used, objects, broken>>

(* updateProject without an image, and deleteProject: the copy stays.      *)
detachProject(a) ==
  \E p \in ProjectMedia :
    /\ Begin(a, Idle)
    /\ holds' = [holds EXCEPT ![p] = None]
    /\ UNCHANGED <<rows, used, objects, broken, stale>>

getMediaAssetForAttach(a) ==
  \E p \in ProjectMedia, i \in used \cap Images :
    /\ Begin(a, [pc |-> IF i \in rows THEN "copy" ELSE "write", project |-> p, image |-> i, key |-> None])
    /\ UNCHANGED <<rows, used, objects, holds, broken, stale>>

MutantByReference(a) ==
  /\ At(a, "copy") /\ admin[a].image \in objects
  /\ Goto(a, [admin[a] EXCEPT !.pc = "write", !.key = admin[a].image])
  /\ UNCHANGED <<rows, used, objects, holds, broken, stale>>

copyObject(a) ==
  /\ At(a, "copy") /\ admin[a].image \in objects
  /\ \E k \in Copies \ used :
       /\ objects' = objects \cup {k} /\ used' = used \cup {k}
       /\ Goto(a, [admin[a] EXCEPT !.pc = "write", !.key = k])
  /\ UNCHANGED <<rows, holds, broken, stale>>

(* createProject or updateProject; the copy it replaces is left behind.    *)
writeProject(a) ==
  /\ At(a, "write")
  /\ holds' = [holds EXCEPT ![admin[a].project] = admin[a].key]
  /\ Goto(a, Idle)
  /\ UNCHANGED <<rows, used, objects, broken, stale>>

-----------------------------------------------------------------------------
(* Deleting: four queries count the references, then object, then row.     *)

MutantForgetsPhotos == {Logos, Pictures, ProjectMedia}
mediaAssetReferenceCounts == {Logos, Photos, Pictures, ProjectMedia}

askDelete(a) ==
  \E i \in used \cap Images :
    /\ Begin(a, [pc |-> "delete", image |-> i, uncounted |-> mediaAssetReferenceCounts])
    /\ UNCHANGED <<rows, used, objects, holds, broken, stale>>

(* Projects are searched for the image's own key, which no copy has.       *)
countReferences(a, S) ==
  /\ At(a, "delete") /\ S \in admin[a].uncounted
  /\ Goto(a, IF \E h \in S : holds[h] = admin[a].image THEN Idle
             ELSE [admin[a] EXCEPT !.uncounted = @ \ {S}])
  /\ UNCHANGED <<rows, used, objects, holds, broken, stale>>

AllCounted(a) == At(a, "delete") /\ admin[a].uncounted = {}

deleteObject(a) ==
  /\ AllCounted(a) /\ admin[a].image \in rows
  /\ objects' = objects \ {admin[a].image}
  /\ Goto(a, [pc |-> "row", image |-> admin[a].image])
  /\ UNCHANGED <<rows, used, holds, broken, stale>>

deleteMediaAsset(a) ==
  /\ At(a, "row")
  /\ rows' = rows \ {admin[a].image}
  /\ Goto(a, Idle)
  /\ UNCHANGED <<used, objects, holds, broken, stale>>

(* Refused, failed, or the process gone: nothing is undone. A copy or an   *)
(* upload stays in the bucket.                                             *)
stop(a) ==
  /\ ~At(a, "idle")
  /\ broken' = IF At(a, "row") THEN broken \cup {admin[a].image} ELSE broken
  /\ Goto(a, Idle)
  /\ UNCHANGED <<rows, used, objects, holds, stale>>

-----------------------------------------------------------------------------
Next ==
  \E a \in Admins :
    \/ putObject(a) \/ createMediaAsset(a)
    \/ attach(a) \/ detachProject(a)
    \/ getMediaAssetForAttach(a) \/ copyObject(a) \/ writeProject(a)
    \/ askDelete(a) \/ (\E S \in mediaAssetReferenceCounts : countReferences(a, S))
    \/ deleteObject(a) \/ deleteMediaAsset(a)
    \/ stop(a)

Spec == Init /\ [][Next]_vars

-----------------------------------------------------------------------------
Requests ==
  {Idle}
  \cup [pc : {"stored", "row"}, image : Images]
  \cup [pc : {"copy", "write"}, project : ProjectMedia, image : Images, key : Copies \cup {None}]
  \cup [pc : {"delete"}, image : Images, uncounted : SUBSET mediaAssetReferenceCounts]

(* Type correctness of every variable.                                     *)
TypeOK ==
  /\ rows \subseteq Images /\ used \subseteq Keys /\ objects \subseteq Keys
  /\ holds \in [Holders -> Keys \cup {None}]
  /\ admin \in [Admins -> Requests] /\ made \in 0 .. MaxRequests
  /\ broken \subseteq Images /\ stale \subseteq Images

(* "Never a row pointing at a gone object": only while a delete stands     *)
(* between the two, or when one stopped there.                             *)
RowHasObject ==
  \A i \in rows \ objects : i \in broken \/ \E a \in Admins : At(a, "row") /\ admin[a].image = i

(* "Refused while any consumer references it": what is shown by its id is  *)
(* in the library, unless it was attached after a delete had looked. "The  *)
(* copy is independent of the library original": whatever happens to the   *)
(* library, a project's image is there, and no other project has it.       *)
HeldIsKept ==
  /\ \A h \in Holders \ ProjectMedia : holds[h] # None => holds[h] \in rows \/ holds[h] \in stale
  /\ \A p \in ProjectMedia : holds[p] # None => holds[p] \in objects
  /\ \A p, q \in ProjectMedia : holds[p] = holds[q] /\ holds[p] # None => p = q
=============================================================================
