---------------------------- MODULE FileDelivery ----------------------------
(***************************************************************************)
(* The files of the media library as a visitor gets them: an image at      *)
(* /api/media/<id>, a project's photograph at /api/projects/<slug>/media/  *)
(* primary. The address stays while what is behind it changes, so a        *)
(* browser asks again and says what it has: an ETag, a date, or both. The  *)
(* handler reads the row, asks the bucket for the metadata alone, and for  *)
(* the bytes only if they are needed: three awaits, between which an       *)
(* administrator may attach, replace and delete.                           *)
(***************************************************************************)
EXTENDS MediaLibrary, SequencesExt

(* The addresses of the two routes.                                        *)
ASSUME AddressAssumption == None \notin ProjectMedia /\ ProjectMedia \cap Images = {}

VARIABLES
  copied,   \* the copies in the order they were made: key, image and date, in seconds
  shown,    \* what each project has shown, in its row or in the cache's image of it
  visitor,  \* the visitor's request
  kept      \* the file the visitor has: where it was asked for, and its key

visits == <<visitor, kept>>
deliveryVars == <<vars, copied, shown, visits>>

Nothing == [at |-> None, key |-> None]
Waiting == [pc |-> "idle"]

DeliveryInit ==
  /\ Init
  /\ copied = <<>> /\ shown = [p \in ProjectMedia |-> {None}]
  /\ visitor = Waiting /\ kept = Nothing

(* An object is written once and never changed. A copy has its image's     *)
(* bytes, and so its ETag, and a date of its own.                          *)
Position(k) == CHOOSE n \in DOMAIN copied : copied[n].key = k
Bytes(k) == IF k \in Images THEN k ELSE copied[Position(k)].image
LastModified(k) == IF k \in Images THEN 0 ELSE copied[Position(k)].date

-----------------------------------------------------------------------------
(* The library goes on; a copy is dated by the second it is made in.       *)
Clock == IF copied = <<>> THEN 0 ELSE Last(copied).date

Library ==
  /\ Next
  /\ IF \E k \in Copies : k \in objects' \ objects
     THEN \E k \in objects' \ objects, a \in Admins, date \in {Clock, Clock + 1} :
            /\ admin'[a] # admin[a]
            /\ copied' = Append(copied, [key |-> k, image |-> admin[a].image, date |-> date])
     ELSE UNCHANGED copied
  /\ shown' = [p \in ProjectMedia |-> shown[p] \cup {holds'[p]}]
  /\ UNCHANGED visits

-----------------------------------------------------------------------------
(* The object store's errors, as its client names them: an answer to HEAD  *)
(* has no body, so that any 404 is "NotFound".                             *)
Errors == [HEAD |-> [ok |-> "NotFound", wrong |-> "NotFound", down |-> "TimeoutError"],
           GET |-> [ok |-> "NoSuchKey", wrong |-> "NoSuchBucket", down |-> "TimeoutError"]]

BUCKET_LEVEL_CODES == {"NoSuchBucket", "PermanentRedirect", "AccessDenied"}
Shaped404 == {"NoSuchKey", "NotFound", "NoSuchBucket"}

MutantAny404(error) == error \in Shaped404
isMissingKey(error) == error \notin BUCKET_LEVEL_CODES /\ error \in Shaped404

(* What the two reads return for a key: the object, null, or they throw.   *)
Found(key, bucket) == bucket = "ok" /\ key \in objects
Missing(method, key, bucket) == ~Found(key, bucket) /\ isMissingKey(Errors[method][bucket])

-----------------------------------------------------------------------------
(* The handler. Each route serves the keys of one prefix.                  *)
Prefix(at) == IF at \in ProjectMedia THEN Copies ELSE Images

(* getMediaStorageKey reads the row; getProjectBySlug may answer from the  *)
(* cache, with what the project has shown before.                          *)
KeysOfRows(at) ==
  IF at \in ProjectMedia THEN shown[at] ELSE IF at \in rows THEN {at} ELSE {None}

(* Bytes are kept with their validators, a 404 clears them away.           *)
Reply(status, bucket) ==
  /\ visitor' = IF status = 200 THEN Waiting
                ELSE [visitor EXCEPT !.pc = "answered", !.status = status, !.bucket = bucket]
  /\ kept' = CASE status = 200 -> [at |-> visitor.at, key |-> visitor.key]
               [] status = 404 -> Nothing
               [] OTHER -> kept

(* What the visitor has of this address becomes its conditions: a browser  *)
(* sends both, some clients the date alone. It asks until it gets an       *)
(* answer that brings no bytes.                                            *)
Conditions(at) == IF kept.at = at THEN {{"etag", "date"}, {"date"}} ELSE {{}}

Ask(at) ==
  /\ visitor = Waiting
  /\ \E if \in Conditions(at), key \in KeysOfRows(at) :
       visitor' = [pc |-> IF key \notin Prefix(at) THEN "answered"
                          ELSE IF if = {} THEN "get" ELSE "head",
                   at |-> at, if |-> if, key |-> key, status |-> 404, bucket |-> "ok"]
  /\ UNCHANGED <<vars, copied, shown, kept>>

etagMatches == Bytes(visitor.key) = Bytes(kept.key)
notModifiedSince == LastModified(visitor.key) <= LastModified(kept.key)

MutantDateFirst == IF "date" \in visitor.if THEN notModifiedSince ELSE etagMatches
fresh == IF "etag" \in visitor.if THEN etagMatches ELSE notModifiedSince

Handling == UNCHANGED <<vars, copied, shown>>

headObject(bucket) ==
  /\ visitor.pc = "head" /\ Handling
  /\ \/ Found(visitor.key, bucket) /\ fresh /\ Reply(304, bucket)
     \/ Found(visitor.key, bucket) /\ ~fresh /\ visitor' = [visitor EXCEPT !.pc = "get"] /\ UNCHANGED kept
     \/ Missing("HEAD", visitor.key, bucket) /\ Reply(404, bucket)
     \/ bucket # "ok" /\ ~Missing("HEAD", visitor.key, bucket) /\ Reply(503, bucket)

getObjectStream(bucket) ==
  /\ visitor.pc = "get" /\ Handling
  /\ \/ Found(visitor.key, bucket) /\ Reply(200, bucket)
     \/ Missing("GET", visitor.key, bucket) /\ Reply(404, bucket)
     \/ bucket # "ok" /\ ~Missing("GET", visitor.key, bucket) /\ Reply(503, bucket)

-----------------------------------------------------------------------------
DeliveryNext ==
  \/ Library
  \/ \E at \in Images \cup ProjectMedia : Ask(at)
  \/ \E bucket \in {"ok", "wrong", "down"} : headObject(bucket) \/ getObjectStream(bucket)

DeliverySpec == DeliveryInit /\ [][DeliveryNext]_deliveryVars

-----------------------------------------------------------------------------
(* Type correctness of the delivery's variables.                           *)
DeliveryTypeOK ==
  /\ TypeOK
  /\ copied \in Seq([key : Copies, image : Images, date : Nat])
  /\ shown \in [ProjectMedia -> SUBSET (Copies \cup {None})]
  /\ visitor = Waiting \/ visitor \in
       [pc : {"head", "get", "answered"}, at : Images \cup ProjectMedia, if : SUBSET {"etag", "date"},
        key : Keys \cup {None}, status : {200, 304, 404, 503}, bucket : {"ok", "wrong", "down"}]
  /\ kept \in [at : Images \cup ProjectMedia \cup {None}, key : Keys \cup {None}]

(* A 304 keeps the visitor on the bytes the row names, even while they are *)
(* being replaced. One who gives only a date may be held to old bytes: by  *)
(* two copies of one second, or when the row names a copy that was made    *)
(* before the one the visitor has (two saves crossed, or an older cache).  *)
NotModifiedIsTrue ==
  \/ Bytes(visitor.key) = Bytes(kept.key)
  \/ /\ visitor.if = {"date"}
     /\ \/ LastModified(visitor.key) = LastModified(kept.key)
        \/ Position(visitor.key) < Position(kept.key)

(* An image is said to be gone only if it was deleted, or is just then, or *)
(* a delete of it stopped halfway; a project's photograph only if the      *)
(* project had none. A wrong bucket is taken for that by HEAD alone.       *)
GoneIsGone ==
  \/ visitor.key = None
  \/ visitor.at \in Images /\ (visitor.at \notin rows \/ visitor.at \in broken
                               \/ \E a \in Admins : At(a, "row") /\ admin[a].image = visitor.at)
  \/ visitor.if # {} /\ visitor.bucket = "wrong"

(* The bytes a visitor has are those of the address they were asked for:   *)
(* the image itself, or a copy that this project has shown, whatever was   *)
(* saved between the read of the row and that of the file.                 *)
BodyIsTrue ==
  kept # Nothing =>
    IF kept.at \in ProjectMedia THEN kept.key \in shown[kept.at] \cap Copies
    ELSE kept.key = kept.at

(* "Three outcomes, deliberately distinct": what the visitor is told of a  *)
(* file is so, and so are the bytes.                                       *)
RepliesAreTrue ==
  /\ BodyIsTrue
  /\ visitor.pc = "answered" =>
       /\ visitor.status = 304 => NotModifiedIsTrue
       /\ visitor.status = 404 => GoneIsGone
       /\ visitor.status = 503 => visitor.bucket # "ok"
=============================================================================
