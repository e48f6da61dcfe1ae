------------------------- MODULE SiteContent_proofs -------------------------
(***************************************************************************)
(* Of MediaLibrary, and of FileDelivery on top of it, for any number of    *)
(* images, copies, holders and overlapping requests: type correctness,     *)
(* that no row points at a gone object, that what is shown is kept, and    *)
(* that a visitor is told the truth of a file. Of LivePublish, and of      *)
(* Sitemap on top of it, for any number of rows: type correctness, that    *)
(* edits go live, that what is not published is not shown, and that the    *)
(* sitemap lists what may be indexed.                                      *)
(***************************************************************************)
EXTENDS FileDelivery, Sitemap, FiniteSetTheorems, TLAPS

(* A request by its step: the fields it has. *)
LEMMA RequestFields ==
  ASSUME TypeOK, NEW a \in Admins
  PROVE  /\ admin[a].pc \in {"idle", "stored", "row", "copy", "write", "delete"}
         /\ admin[a].pc # "idle" => admin[a].image \in Images
         /\ admin[a].pc \in {"copy", "write"} =>
              /\ admin[a].project \in ProjectMedia
              /\ admin[a].key \in Copies \cup {None}
              /\ admin[a] = [pc |-> admin[a].pc, project |-> admin[a].project,
                             image |-> admin[a].image, key |-> admin[a].key]
         /\ admin[a].pc = "delete" =>
              /\ admin[a].uncounted \subseteq mediaAssetReferenceCounts
              /\ admin[a] = [pc |-> "delete", image |-> admin[a].image,
                             uncounted |-> admin[a].uncounted]
  <1>1. admin[a] \in Requests
    BY DEF TypeOK
  <1> QED
    BY <1>1 DEF Requests, Idle

(* A copy that has been made makes its request one that writes the project. *)
LEMMA CopiedRequest ==
  ASSUME NEW r \in [pc : {"copy"}, project : ProjectMedia, image : Images, key : Copies \cup {None}],
         NEW k \in Copies
  PROVE  /\ [r EXCEPT !.pc = "write", !.key = k]
              \in [pc : {"write"}, project : ProjectMedia, image : Images, key : Copies \cup {None}]
         /\ [r EXCEPT !.pc = "write", !.key = k].image = r.image
         /\ [r EXCEPT !.pc = "write", !.key = k].key = k
  OBVIOUS

-----------------------------------------------------------------------------
(* What holds an image holds an image's id, what a project shows is a copy. *)
HoldsAreSorted ==
  \A h \in Holders : holds[h] \in (IF h \in ProjectMedia THEN Copies ELSE Images) \cup {None}

(* Whatever is in the library, in the store, shown, or in a request's      *)
(* hands was given out once.                                               *)
GivenOut ==
  /\ rows \cup objects \subseteq used
  /\ \A h \in Holders : holds[h] \in used \cup {None}
  /\ \A a \in Admins : /\ ~At(a, "idle") => admin[a].image \in used
                       /\ At(a, "write") => admin[a].key \in used \cup {None}

(* An upload that has no row yet: its object is there, and it is the only  *)
(* request that will make it a row.                                        *)
UploadsAreFresh ==
  \A a \in Admins : At(a, "stored") =>
    /\ admin[a].image \in objects \ rows
    /\ \A b \in Admins : At(b, "stored") /\ admin[b].image = admin[a].image => a = b

(* A copy that is about to be shown is there, and nobody else has it.      *)
CopiesAreOwned ==
  \A a \in Admins : At(a, "write") /\ admin[a].key # None =>
    /\ admin[a].key \in objects
    /\ \A p \in ProjectMedia : holds[p] # admin[a].key
    /\ \A b \in Admins : At(b, "write") /\ admin[b].key = admin[a].key => a = b

(* An image held behind the back of a delete is known to be.               *)
DeletesAreBlind ==
  \A h \in Holders \ ProjectMedia : \A i \in Images :
    holds[h] = i /\ CountedPast(i, h) => i \in stale

MediaInv ==
  /\ TypeOK
  /\ HoldsAreSorted
  /\ GivenOut
  /\ UploadsAreFresh
  /\ CopiesAreOwned
  /\ DeletesAreBlind
  /\ RowHasObject
  /\ HeldIsKept

-----------------------------------------------------------------------------
(* The invariant holds of a library that is at rest. *)
LEMMA InitMedia == Init => MediaInv
  <1> SUFFICES ASSUME Init PROVE MediaInv
    OBVIOUS
  <1>1. TypeOK
    BY MediaAssumption DEF Init, TypeOK, Requests, Keys
  <1>2. \A a \in Admins : admin[a].pc = "idle"
    BY DEF Init, Idle
  <1>3. HoldsAreSorted /\ HeldIsKept
    <2>1. \A h \in Holders : holds[h] = None
      BY DEF Init
    <2> QED
      BY <2>1 DEF Holders, HoldsAreSorted, HeldIsKept
  <1>4. GivenOut /\ UploadsAreFresh /\ CopiesAreOwned
    BY <1>2 DEF Init, GivenOut, UploadsAreFresh, CopiesAreOwned, At
  <1>5. DeletesAreBlind /\ RowHasObject
    BY <1>2 DEF Init, DeletesAreBlind, CountedPast, RowHasObject
  <1> QED
    BY <1>1, <1>3, <1>4, <1>5 DEF MediaInv

(* An upload stores a fresh object, and no more.                           *)
LEMMA UploadStep ==
  ASSUME MediaInv, NEW a \in Admins, putObject(a) \/ createMediaAsset(a)
  PROVE  MediaInv'
  <1> USE MediaAssumption, RequestFields
      DEF MediaInv, At, Goto, Begin, Keys
  <1>1. CASE putObject(a)
    <2> USE <1>1 DEF putObject
    <2>1. PICK i \in Images \ used :
            /\ admin[a].pc = "idle"
            /\ admin' = [admin EXCEPT ![a] = [pc |-> "stored", image |-> i]]
            /\ made < MaxRequests /\ made' = made + 1
            /\ objects' = objects \cup {i} /\ used' = used \cup {i}
            /\ UNCHANGED <<rows, holds, broken, stale>>
      OBVIOUS
    <2> USE <2>1
    <2>2. TypeOK'
      BY DEF TypeOK, Requests
    <2>3. HoldsAreSorted'
      BY DEF HoldsAreSorted
    <2>4. GivenOut'
      BY DEF GivenOut, TypeOK
    <2>5. UploadsAreFresh'
      BY DEF UploadsAreFresh, TypeOK, GivenOut
    <2>6. CopiesAreOwned'
      BY DEF CopiesAreOwned, TypeOK
    <2>7. DeletesAreBlind'
      BY DEF DeletesAreBlind, CountedPast, TypeOK
    <2>8. RowHasObject' /\ HeldIsKept'
      BY DEF RowHasObject, HeldIsKept, TypeOK
    <2> QED
      BY <2>2, <2>3, <2>4, <2>5, <2>6, <2>7, <2>8
  <1>2. CASE createMediaAsset(a)
    <2> USE <1>2 DEF createMediaAsset, Idle
    <2>2. TypeOK'
      BY DEF TypeOK, Requests
    <2>3. HoldsAreSorted'
      BY DEF HoldsAreSorted
    <2>4. GivenOut'
      BY DEF GivenOut, TypeOK
    <2>5. UploadsAreFresh'
      BY DEF UploadsAreFresh, TypeOK, GivenOut
    <2>6. CopiesAreOwned'
      BY DEF CopiesAreOwned, TypeOK
    <2>7. DeletesAreBlind'
      BY DEF DeletesAreBlind, CountedPast, TypeOK
    <2>8. RowHasObject' /\ HeldIsKept'
      BY DEF RowHasObject, HeldIsKept, TypeOK, UploadsAreFresh
    <2> QED
      BY <2>2, <2>3, <2>4, <2>5, <2>6, <2>7, <2>8
  <1> QED
    BY <1>1, <1>2

(* A holder shows another image, or none: if behind a delete, it is known. *)
LEMMA AttachStep ==
  ASSUME MediaInv, NEW a \in Admins, attach(a) \/ detachProject(a)
  PROVE  MediaInv'
  <1> USE MediaAssumption, RequestFields
      DEF MediaInv, At, Goto, Begin, Keys, Idle
  <1>1. CASE attach(a)
    <2> USE <1>1 DEF attach
    <2>1. TypeOK'
      BY DEF TypeOK, Requests
    <2>2. HoldsAreSorted'
      BY DEF HoldsAreSorted, TypeOK
    <2>3. GivenOut'
      BY DEF GivenOut, TypeOK
    <2>4. UploadsAreFresh'
      BY DEF UploadsAreFresh, TypeOK, GivenOut
    <2>5. CopiesAreOwned'
      BY DEF CopiesAreOwned, TypeOK, GivenOut, HoldsAreSorted
    <2>6. DeletesAreBlind'
      BY DEF DeletesAreBlind, CountedPast, TypeOK
    <2>7. RowHasObject'
      BY DEF RowHasObject, TypeOK, UploadsAreFresh
    <2>8. HeldIsKept'
      BY DEF HeldIsKept, TypeOK, HoldsAreSorted, CopiesAreOwned, DeletesAreBlind, CountedPast
    <2> QED
      BY <2>1, <2>2, <2>3, <2>4, <2>5, <2>6, <2>7, <2>8
  <1>2. CASE detachProject(a)
    <2> USE <1>2 DEF detachProject
    <2>0. PICK p \in ProjectMedia : holds' = [holds EXCEPT ![p] = None]
      OBVIOUS
    <2>1. TypeOK'
      <3>1. holds' \in [Holders -> Keys \cup {None}]
        BY <2>0 DEF TypeOK
      <3> QED
        BY <3>1 DEF TypeOK, Requests
    <2>2. HoldsAreSorted'
      BY DEF HoldsAreSorted, TypeOK
    <2>3. GivenOut'
      BY DEF GivenOut, TypeOK
    <2>4. UploadsAreFresh'
      BY DEF UploadsAreFresh, TypeOK, GivenOut
    <2>5. CopiesAreOwned'
      BY DEF CopiesAreOwned, TypeOK, GivenOut, HoldsAreSorted
    <2>6. DeletesAreBlind'
      BY DEF DeletesAreBlind, CountedPast, TypeOK
    <2>7. RowHasObject'
      BY DEF RowHasObject, TypeOK, UploadsAreFresh
    <2>8. HeldIsKept'
      BY DEF HeldIsKept, TypeOK, HoldsAreSorted, CopiesAreOwned, DeletesAreBlind, CountedPast
    <2> QED
      BY <2>1, <2>2, <2>3, <2>4, <2>5, <2>6, <2>7, <2>8
  <1> QED
    BY <1>1, <1>2

(* A copy is a fresh object, and is shown by one project. *)
LEMMA CopyStep ==
  ASSUME MediaInv, NEW a \in Admins, getMediaAssetForAttach(a) \/ copyObject(a) \/ writeProject(a)
  PROVE  MediaInv'
  <1> USE MediaAssumption, RequestFields
      DEF MediaInv, At, Goto, Begin, Keys, Idle
  <1>1. CASE getMediaAssetForAttach(a)
    <2> USE <1>1 DEF getMediaAssetForAttach
    <2>1. TypeOK'
      BY DEF TypeOK, Requests
    <2>2. HoldsAreSorted'
      BY DEF HoldsAreSorted, TypeOK
    <2>3. GivenOut'
      BY DEF GivenOut, TypeOK
    <2>4. UploadsAreFresh'
      BY DEF UploadsAreFresh, TypeOK, GivenOut
    <2>5. CopiesAreOwned'
      BY DEF CopiesAreOwned, TypeOK, GivenOut, HoldsAreSorted
    <2>6. DeletesAreBlind'
      BY DEF DeletesAreBlind, CountedPast, TypeOK
    <2>7. RowHasObject'
      BY DEF RowHasObject, TypeOK, UploadsAreFresh
    <2>8. HeldIsKept'
      BY DEF HeldIsKept, TypeOK, HoldsAreSorted, CopiesAreOwned, DeletesAreBlind, CountedPast
    <2> QED
      BY <2>1, <2>2, <2>3, <2>4, <2>5, <2>6, <2>7, <2>8
  <1>2. CASE copyObject(a)
    <2>1. PICK k \in Copies \ used :
            /\ admin' = [admin EXCEPT ![a] = [admin[a] EXCEPT !.pc = "write", !.key = k]]
            /\ objects' = objects \cup {k} /\ used' = used \cup {k}
            /\ UNCHANGED <<rows, holds, made, broken, stale>>
      BY <1>2 DEF copyObject
    <2>2. admin[a].pc = "copy"
      BY <1>2 DEF copyObject
    <2>3. PICK w \in [pc : {"write"}, project : ProjectMedia, image : Images, key : Copies \cup {None}] :
            /\ admin' = [admin EXCEPT ![a] = w]
            /\ w.image = admin[a].image /\ w.key = k
      <3>1. admin[a] \in [pc : {"copy"}, project : ProjectMedia, image : Images,
                          key : Copies \cup {None}]
        BY <2>2 DEF TypeOK, Requests
      <3> DEFINE w == [admin[a] EXCEPT !.pc = "write", !.key = k]
      <3>2. /\ w \in [pc : {"write"}, project : ProjectMedia, image : Images, key : Copies \cup {None}]
            /\ w.image = admin[a].image /\ w.key = k
        BY <3>1, CopiedRequest
      <3>3. admin' = [admin EXCEPT ![a] = w]
        BY <2>1
      <3> HIDE DEF w
      <3> QED
        BY <3>2, <3>3
    <2>4. TypeOK'
      BY <2>1, <2>2, <2>3 DEF TypeOK, Requests
    <2>5. HoldsAreSorted'
      BY <2>1 DEF HoldsAreSorted
    <2>6. GivenOut'
      BY <2>1, <2>2, <2>3 DEF GivenOut, TypeOK
    <2>7. UploadsAreFresh'
      BY <2>1, <2>2, <2>3 DEF UploadsAreFresh, TypeOK
    <2>8. CopiesAreOwned'
      <3>1. \A p \in ProjectMedia : holds[p] # k
        BY <2>1 DEF GivenOut, Holders
      <3>2. \A b \in Admins : At(b, "write") => admin[b].key # k
        BY <2>1 DEF GivenOut
      <3> QED
        BY <2>1, <2>2, <2>3, <3>1, <3>2 DEF CopiesAreOwned, TypeOK
    <2>9. DeletesAreBlind'
      BY <2>1, <2>2, <2>3 DEF DeletesAreBlind, CountedPast, TypeOK
    <2>10. RowHasObject' /\ HeldIsKept'
      BY <2>1, <2>2, <2>3 DEF RowHasObject, HeldIsKept, TypeOK
    <2> QED
      BY <2>4, <2>5, <2>6, <2>7, <2>8, <2>9, <2>10
  <1>3. CASE writeProject(a)
    <2> USE <1>3 DEF writeProject
    <2>1. TypeOK'
      BY DEF TypeOK, Requests
    <2>2. HoldsAreSorted'
      BY DEF HoldsAreSorted, TypeOK
    <2>3. GivenOut'
      BY DEF GivenOut, TypeOK
    <2>4. UploadsAreFresh'
      BY DEF UploadsAreFresh, TypeOK, GivenOut
    <2>5. CopiesAreOwned'
      BY DEF CopiesAreOwned, TypeOK, GivenOut, HoldsAreSorted
    <2>6. DeletesAreBlind'
      BY DEF DeletesAreBlind, CountedPast, TypeOK
    <2>7. RowHasObject'
      BY DEF RowHasObject, TypeOK, UploadsAreFresh
    <2>8. HeldIsKept'
      BY DEF HeldIsKept, TypeOK, HoldsAreSorted, CopiesAreOwned, DeletesAreBlind, CountedPast
    <2> QED
      BY <2>1, <2>2, <2>3, <2>4, <2>5, <2>6, <2>7, <2>8
  <1> QED
    BY <1>1, <1>2, <1>3

(* A count that finds a holder ends the delete. *)
LEMMA CountStep ==
  ASSUME MediaInv, NEW a \in Admins, askDelete(a) \/ (\E S \in mediaAssetReferenceCounts : countReferences(a, S))
  PROVE  MediaInv'
  <1> USE MediaAssumption, RequestFields
      DEF MediaInv, At, Goto, Begin, Keys, Idle
  <1>1. CASE askDelete(a)
    <2> USE <1>1 DEF askDelete
    <2>0. PICK i \in used \cap Images :
            admin' = [admin EXCEPT ![a] = [pc |-> "delete", image |-> i,
                                           uncounted |-> mediaAssetReferenceCounts]]
      OBVIOUS
    <2>1. TypeOK'
      BY DEF TypeOK, Requests
    <2>2. HoldsAreSorted'
      BY DEF HoldsAreSorted, TypeOK
    <2>3. GivenOut'
      BY DEF GivenOut, TypeOK
    <2>4. UploadsAreFresh'
      BY DEF UploadsAreFresh, TypeOK, GivenOut
    <2>5. CopiesAreOwned'
      BY DEF CopiesAreOwned, TypeOK, GivenOut, HoldsAreSorted
    <2>6. DeletesAreBlind'
      <3>1. \A h \in Holders : \E S \in mediaAssetReferenceCounts : h \in S
        BY DEF Holders, mediaAssetReferenceCounts
      <3>2. \A h \in Holders, j \in Images : CountedPast(j, h)' => CountedPast(j, h)
        BY <2>0, <3>1 DEF CountedPast, TypeOK
      <3> QED
        BY <3>2 DEF DeletesAreBlind
    <2>7. RowHasObject'
      BY DEF RowHasObject, TypeOK, UploadsAreFresh
    <2>8. HeldIsKept'
      BY DEF HeldIsKept, TypeOK, HoldsAreSorted, CopiesAreOwned, DeletesAreBlind, CountedPast
    <2> QED
      BY <2>1, <2>2, <2>3, <2>4, <2>5, <2>6, <2>7, <2>8
  <1>2. ASSUME NEW S \in mediaAssetReferenceCounts, countReferences(a, S) PROVE MediaInv'
    <2> USE <1>2 DEF countReferences
    <2>1. TypeOK'
      BY DEF TypeOK, Requests
    <2>2. HoldsAreSorted'
      BY DEF HoldsAreSorted, TypeOK
    <2>3. GivenOut'
      BY DEF GivenOut, TypeOK
    <2>4. UploadsAreFresh'
      BY DEF UploadsAreFresh, TypeOK, GivenOut
    <2>5. CopiesAreOwned'
      BY DEF CopiesAreOwned, TypeOK, GivenOut, HoldsAreSorted
    <2>6. DeletesAreBlind'
      BY DEF DeletesAreBlind, CountedPast, TypeOK
    <2>7. RowHasObject'
      BY DEF RowHasObject, TypeOK, UploadsAreFresh
    <2>8. HeldIsKept'
      BY DEF HeldIsKept, TypeOK, HoldsAreSorted, CopiesAreOwned, DeletesAreBlind, CountedPast
    <2> QED
      BY <2>1, <2>2, <2>3, <2>4, <2>5, <2>6, <2>7, <2>8
  <1> QED
    BY <1>1, <1>2

(* Object, then row; between the two the delete is under way, or broken. *)
LEMMA DeleteStep ==
  ASSUME MediaInv, NEW a \in Admins, deleteObject(a) \/ deleteMediaAsset(a) \/ stop(a)
  PROVE  MediaInv'
  <1> USE MediaAssumption, RequestFields
      DEF MediaInv, At, Goto, Begin, Keys, Idle
  <1>1. CASE deleteObject(a)
    <2> USE <1>1 DEF deleteObject
    <2>1. TypeOK'
      BY DEF TypeOK, Requests
    <2>2. HoldsAreSorted'
      BY DEF HoldsAreSorted, TypeOK
    <2>3. GivenOut'
      BY DEF GivenOut, TypeOK
    <2>4. UploadsAreFresh'
      BY DEF UploadsAreFresh, TypeOK, GivenOut
    <2>5. CopiesAreOwned'
      BY DEF CopiesAreOwned, TypeOK, GivenOut, HoldsAreSorted
    <2>6. DeletesAreBlind'
      <3>1. \A h \in Holders, j \in Images : CountedPast(j, h)' => CountedPast(j, h)
        BY DEF CountedPast, TypeOK, AllCounted
      <3> QED
        BY <3>1 DEF DeletesAreBlind
    <2>7. RowHasObject'
      BY DEF RowHasObject, TypeOK, UploadsAreFresh
    <2>8. HeldIsKept'
      <3>1. \A p \in ProjectMedia : holds[p] \in Copies \cup {None}
        BY DEF HoldsAreSorted, Holders
      <3>2. admin[a].image \in Images
        BY DEF AllCounted
      <3> QED
        BY <3>1, <3>2 DEF HeldIsKept
    <2> QED
      BY <2>1, <2>2, <2>3, <2>4, <2>5, <2>6, <2>7, <2>8
  <1>2. CASE deleteMediaAsset(a)
    <2> USE <1>2 DEF deleteMediaAsset
    <2>1. TypeOK'
      BY DEF TypeOK, Requests
    <2>2. HoldsAreSorted'
      BY DEF HoldsAreSorted, TypeOK
    <2>3. GivenOut'
      BY DEF GivenOut, TypeOK
    <2>4. UploadsAreFresh'
      BY DEF UploadsAreFresh, TypeOK, GivenOut
    <2>5. CopiesAreOwned'
      BY DEF CopiesAreOwned, TypeOK, GivenOut, HoldsAreSorted
    <2>6. DeletesAreBlind'
      BY DEF DeletesAreBlind, CountedPast, TypeOK
    <2>7. RowHasObject'
      BY DEF RowHasObject, TypeOK, UploadsAreFresh
    <2>8. HeldIsKept'
      BY DEF HeldIsKept, TypeOK, HoldsAreSorted, CopiesAreOwned, DeletesAreBlind, CountedPast
    <2> QED
      BY <2>1, <2>2, <2>3, <2>4, <2>5, <2>6, <2>7, <2>8
  <1>3. CASE stop(a)
    <2> USE <1>3 DEF stop
    <2>1. TypeOK'
      BY DEF TypeOK, Requests
    <2>2. HoldsAreSorted'
      BY DEF HoldsAreSorted, TypeOK
    <2>3. GivenOut'
      BY DEF GivenOut, TypeOK
    <2>4. UploadsAreFresh'
      BY DEF UploadsAreFresh, TypeOK, GivenOut
    <2>5. CopiesAreOwned'
      BY DEF CopiesAreOwned, TypeOK, GivenOut, HoldsAreSorted
    <2>6. DeletesAreBlind'
      BY DEF DeletesAreBlind, CountedPast, TypeOK
    <2>7. RowHasObject'
      BY DEF RowHasObject, TypeOK, UploadsAreFresh
    <2>8. HeldIsKept'
      BY DEF HeldIsKept, TypeOK, HoldsAreSorted, CopiesAreOwned, DeletesAreBlind, CountedPast
    <2> QED
      BY <2>1, <2>2, <2>3, <2>4, <2>5, <2>6, <2>7, <2>8
  <1> QED
    BY <1>1, <1>2, <1>3

(* Every step of the library keeps the invariant. *)
LEMMA MediaStep == MediaInv /\ [Next]_vars => MediaInv'
  <1> SUFFICES ASSUME MediaInv, [Next]_vars PROVE MediaInv'
    OBVIOUS
  <1>1. CASE UNCHANGED vars
    <2>1. TypeOK' /\ HoldsAreSorted' /\ GivenOut'
      BY <1>1 DEF vars, MediaInv, TypeOK, HoldsAreSorted, GivenOut, At
    <2>2. UploadsAreFresh' /\ CopiesAreOwned' /\ DeletesAreBlind'
      BY <1>1 DEF vars, MediaInv, UploadsAreFresh, CopiesAreOwned, DeletesAreBlind, CountedPast, At
    <2>3. RowHasObject' /\ HeldIsKept'
      BY <1>1 DEF vars, MediaInv, RowHasObject, HeldIsKept, At
    <2> QED
      BY <2>1, <2>2, <2>3 DEF MediaInv
  <1> QED
    BY <1>1, UploadStep, AttachStep, CopyStep, CountStep, DeleteStep DEF Next

(* Every behaviour of the library keeps the invariant.                     *)
LEMMA MediaCorrect == Spec => []MediaInv
  <1> QED
    BY InitMedia, MediaStep, PTL DEF Spec

-----------------------------------------------------------------------------
(* The variables keep their types.                                         *)
THEOREM MediaTypes == Spec => []TypeOK
  <1>1. MediaInv => TypeOK
    BY DEF MediaInv
  <1> QED
    BY <1>1, MediaCorrect, PTL

(* No row points at a gone object, but between the two steps of a delete   *)
(* or after one stopped there (deleteMediaAsset in the settings actions).  *)
THEOREM RowsHaveObjects == Spec => []RowHasObject
  <1>1. MediaInv => RowHasObject
    BY DEF MediaInv
  <1> QED
    BY <1>1, MediaCorrect, PTL

(* An image that is shown is in the library, unless it was attached behind *)
(* a delete's back; a project's copy is there, and is its own.             *)
THEOREM HeldImagesAreKept == Spec => []HeldIsKept
  <1>1. MediaInv => HeldIsKept
    BY DEF MediaInv
  <1> QED
    BY <1>1, MediaCorrect, PTL

-----------------------------------------------------------------------------
(* A visitor does nothing to the library.                                  *)
LEMMA DeliveryStepIsLibraryStep == [DeliveryNext]_deliveryVars => [Next]_vars
  BY DEF DeliveryNext, deliveryVars, Library, Ask, headObject, getObjectStream, Handling, vars

(* The library under delivery is the library. *)
THEOREM DeliveryKeepsLibrary == DeliverySpec => Spec
  <1>1. DeliveryInit => Init
    BY DEF DeliveryInit
  <1> QED
    BY <1>1, DeliveryStepIsLibraryStep, PTL DEF DeliverySpec, Spec

-----------------------------------------------------------------------------
(* An image that will not be stored again: given out, and not on its way   *)
(* from an upload to its row.                                              *)
Settled(i) ==
  i \in used /\ \A a \in Admins : ~(At(a, "stored") /\ admin[a].image = i)

(* The copies recorded are the copies there are, each once, in the order   *)
(* of their dates.                                                         *)
CopiesRecorded ==
  /\ \A k \in Copies : k \in objects <=> \E n \in DOMAIN copied : copied[n].key = k
  /\ \A m, n \in DOMAIN copied : copied[m].key = copied[n].key => m = n
  /\ \A m, n \in DOMAIN copied : m <= n => copied[m].date <= copied[n].date

(* What a project has shown is in the store. *)
ShownAreStored ==
  \A p \in ProjectMedia : \A k \in shown[p] : k # None => k \in objects \cap Copies

(* The file k is one that the address at has named. *)
NamedBy(at, k) ==
  IF at \in ProjectMedia THEN k \in shown[at] \cap objects \cap Copies ELSE k = at /\ k \in Images /\ Settled(k)

(* What the visitor has, and what the handler works on, was named by its   *)
(* address; a conditional request is about the file that is kept.          *)
RequestIsNamed ==
  /\ kept # Nothing => kept.at \in Images \cup ProjectMedia /\ NamedBy(kept.at, kept.key)
  /\ visitor # Waiting => /\ visitor.if \in {{}, {"date"}, {"etag", "date"}}
                          /\ visitor.key # None => NamedBy(visitor.at, visitor.key)
  /\ visitor.pc \in {"head", "get"} => visitor.key # None
  /\ visitor.pc = "head" => visitor.if # {} /\ kept.at = visitor.at

(* Why the visitor was told what it was told. *)
RepliesHaveReasons ==
  visitor.pc = "answered" =>
    /\ visitor.status = 304 =>
         /\ visitor.key # None /\ kept.at = visitor.at /\ kept # Nothing
         /\ NotModifiedIsTrue
    /\ visitor.status = 404 =>
         \/ visitor.key = None
         \/ visitor.at \in Images /\ visitor.key = visitor.at /\ visitor.at \notin objects
         \/ visitor.if # {} /\ visitor.bucket = "wrong"
    /\ visitor.status = 503 => visitor.bucket # "ok"

DeliveryInv ==
  /\ MediaInv
  /\ DeliveryTypeOK
  /\ CopiesRecorded
  /\ ShownAreStored
  /\ RequestIsNamed
  /\ RepliesHaveReasons

-----------------------------------------------------------------------------
(* The delivery starts with nothing copied, shown or kept. *)
LEMMA InitDelivery == DeliveryInit => DeliveryInv
  <1> SUFFICES ASSUME DeliveryInit PROVE DeliveryInv
    OBVIOUS
  <1>1. MediaInv
    BY InitMedia DEF DeliveryInit
  <1>2. DeliveryTypeOK
    BY <1>1 DEF DeliveryInit, DeliveryTypeOK, MediaInv, Nothing
  <1>3. CopiesRecorded
    BY MediaAssumption DEF DeliveryInit, Init, CopiesRecorded
  <1>4. ShownAreStored /\ RequestIsNamed /\ RepliesHaveReasons
    BY DEF DeliveryInit, ShownAreStored, RequestIsNamed, RepliesHaveReasons, Waiting
  <1> QED
    BY <1>1, <1>2, <1>3, <1>4 DEF DeliveryInv

(* A settled image stays settled, and does not come back. *)
LEMMA SettledStays ==
  ASSUME MediaInv, [Next]_vars, NEW i \in Images, Settled(i)
  PROVE  Settled(i)' /\ (i \notin objects => i \notin objects')
  <1> USE MediaAssumption, RequestFields DEF MediaInv, TypeOK, Settled, At, Goto, Begin, Keys, Idle
  <1>1. ASSUME NEW a \in Admins, putObject(a) \/ createMediaAsset(a)
        PROVE  Settled(i)' /\ (i \notin objects => i \notin objects')
    BY <1>1 DEF putObject, createMediaAsset
  <1>2. ASSUME NEW a \in Admins, attach(a) \/ detachProject(a)
        PROVE  Settled(i)' /\ (i \notin objects => i \notin objects')
    BY <1>2 DEF attach, detachProject
  <1>3. ASSUME NEW a \in Admins, getMediaAssetForAttach(a) \/ writeProject(a)
        PROVE  Settled(i)' /\ (i \notin objects => i \notin objects')
    BY <1>3 DEF getMediaAssetForAttach, writeProject
  <1>4. ASSUME NEW a \in Admins, copyObject(a)
        PROVE  Settled(i)' /\ (i \notin objects => i \notin objects')
    BY <1>4 DEF copyObject
  <1>5. ASSUME NEW a \in Admins,
               askDelete(a) \/ \E S \in mediaAssetReferenceCounts : countReferences(a, S)
        PROVE  Settled(i)' /\ (i \notin objects => i \notin objects')
    BY <1>5 DEF askDelete, countReferences
  <1>6. ASSUME NEW a \in Admins, deleteObject(a) \/ deleteMediaAsset(a) \/ stop(a)
        PROVE  Settled(i)' /\ (i \notin objects => i \notin objects')
    BY <1>6 DEF deleteObject, deleteMediaAsset, stop, AllCounted
  <1>7. ASSUME UNCHANGED vars
        PROVE  Settled(i)' /\ (i \notin objects => i \notin objects')
    BY <1>7 DEF vars
  <1> QED
    BY <1>1, <1>2, <1>3, <1>4, <1>5, <1>6, <1>7 DEF Next

(* Copies are never lost, and come one at a time, each of an image. *)
LEMMA CopiesStay ==
  ASSUME MediaInv, [Next]_vars
  PROVE  /\ objects \cap Copies \subseteq objects'
         /\ \A k \in (objects' \ objects) \cap Copies :
              /\ objects' \ objects = {k}
              /\ \A a \in Admins : admin'[a] # admin[a] => admin[a].image \in Images
  <1> DEFINE Kept == objects \cap Copies \subseteq objects'
             One == \A k \in (objects' \ objects) \cap Copies :
                      /\ objects' \ objects = {k}
                      /\ \A a \in Admins : admin'[a] # admin[a] => admin[a].image \in Images
  <1> USE MediaAssumption, RequestFields DEF MediaInv, At, Goto, Begin
  <1>1. ASSUME NEW a \in Admins, putObject(a) PROVE Kept /\ One
    BY <1>1 DEF putObject
  <1>2. ASSUME NEW a \in Admins, copyObject(a) PROVE Kept /\ One
    <2>1. PICK k \in Copies : objects' = objects \cup {k}
      BY <1>2 DEF copyObject
    <2>2. \A b \in Admins : admin'[b] # admin[b] => b = a
      BY <1>2 DEF copyObject, TypeOK
    <2>3. admin[a].image \in Images
      BY <1>2 DEF copyObject
    <2> QED
      BY <2>1, <2>2, <2>3
  <1>3. ASSUME NEW a \in Admins, deleteObject(a) PROVE Kept /\ One
    <2>1. admin[a].image \in Images
      BY <1>3 DEF deleteObject, AllCounted
    <2> QED
      BY <1>3, <2>1 DEF deleteObject
  <1>4. ASSUME UNCHANGED objects PROVE Kept /\ One
    BY <1>4
  <1> QED
    BY <1>1, <1>2, <1>3, <1>4 DEF Next, vars, createMediaAsset, attach, detachProject,
       getMediaAssetForAttach, writeProject, askDelete, countReferences, deleteMediaAsset, stop

(* What an address has named, it has named for good. *)
LEMMA NamedStays ==
  ASSUME MediaInv, [Next]_vars, NEW at \in Images \cup ProjectMedia, NEW k, NamedBy(at, k),
         at \in ProjectMedia => shown[at] \subseteq shown'[at]
  PROVE  NamedBy(at, k)'
  BY SettledStays, CopiesStay DEF NamedBy

(* The place of a copy in the record. *)
LEMMA PositionIs ==
  ASSUME CopiesRecorded, NEW n \in DOMAIN copied
  PROVE  Position(copied[n].key) = n
  <1>1. \A m \in DOMAIN copied : copied[m].key = copied[n].key => m = n
    BY DEF CopiesRecorded
  <1> QED
    BY <1>1 DEF Position

(* A record that only grows keeps what it says of a file. *)
LEMMA RecordStays ==
  ASSUME CopiesRecorded, CopiesRecorded', objects \cap Copies \subseteq objects',
         DOMAIN copied \subseteq DOMAIN copied',
         \A n \in DOMAIN copied : copied'[n] = copied[n],
         NEW k \in objects \cap Copies
  PROVE  /\ Position(k)' = Position(k)
         /\ copied'[Position(k)'] = copied[Position(k)]
  <1>1. PICK n \in DOMAIN copied : copied[n].key = k
    BY DEF CopiesRecorded
  <1>2. Position(k) = n
    BY <1>1, PositionIs
  <1>3. Position(k)' = n
    <2>1. \A m \in DOMAIN copied' : copied'[m].key = copied'[n].key => m = n
      BY <1>1 DEF CopiesRecorded
    <2> QED
      BY <1>1, <2>1 DEF Position
  <1> QED
    BY <1>1, <1>2, <1>3

(* So a 304 that was true stays true. *)
LEMMA NotModifiedStays ==
  ASSUME CopiesRecorded, CopiesRecorded', objects \cap Copies \subseteq objects',
         DOMAIN copied \subseteq DOMAIN copied',
         \A n \in DOMAIN copied : copied'[n] = copied[n],
         UNCHANGED <<visitor, kept>>,
         NEW at \in Images \cup ProjectMedia, NamedBy(at, visitor.key), NamedBy(at, kept.key),
         NotModifiedIsTrue
  PROVE  NotModifiedIsTrue'
  <1>1. PICK v, w : v = visitor.key /\ w = kept.key
    OBVIOUS
  <1>2. CASE at \notin ProjectMedia
    BY <1>2 DEF NamedBy, NotModifiedIsTrue, Bytes
  <1>3. CASE at \in ProjectMedia
    <2>1. v \in objects \cap Copies /\ w \in objects \cap Copies
      BY <1>1, <1>3 DEF NamedBy
    <2>2. /\ Position(v)' = Position(v) /\ copied'[Position(v)'] = copied[Position(v)]
          /\ Position(w)' = Position(w) /\ copied'[Position(w)'] = copied[Position(w)]
      BY <2>1, RecordStays
    <2>3. /\ Bytes(v)' = Bytes(v) /\ Bytes(w)' = Bytes(w)
          /\ LastModified(v)' = LastModified(v) /\ LastModified(w)' = LastModified(w)
      BY <2>2 DEF Bytes, LastModified
    <2>4. \/ Bytes(v) = Bytes(w)
          \/ /\ visitor.if = {"date"}
             /\ LastModified(v) = LastModified(w) \/ Position(v) < Position(w)
      BY <1>1 DEF NotModifiedIsTrue
    <2>5. \/ Bytes(v)' = Bytes(w)'
          \/ /\ visitor'.if = {"date"}
             /\ LastModified(v)' = LastModified(w)' \/ Position(v)' < Position(w)'
      BY <2>2, <2>3, <2>4
    <2>6. v = visitor'.key /\ w = kept'.key
      BY <1>1
    <2> QED
      BY <2>5, <2>6 DEF NotModifiedIsTrue
  <1> QED
    BY <1>2, <1>3

(* What is recorded of a copy. *)
LEMMA CopiedFields ==
  ASSUME copied \in Seq([key : Copies, image : Images, date : Nat]), NEW n \in DOMAIN copied
  PROVE  n \in Nat /\ copied[n].date \in Nat
  <1> DEFINE R == [key : Copies, image : Images, date : Nat]
  <1>1. \A r \in R : r.date \in Nat
    OBVIOUS
  <1>2. copied \in Seq(R)
    OBVIOUS
  <1> HIDE DEF R
  <1>3. n \in Nat /\ copied[n] \in R
    BY <1>2
  <1> QED
    BY <1>1, <1>3

(* A step of the library records a copy that is made, and nothing else. *)
LEMMA RecordStep ==
  ASSUME DeliveryInv, Library
  PROVE  /\ copied' \in Seq([key : Copies, image : Images, date : Nat])
         /\ CopiesRecorded'
         /\ DOMAIN copied \subseteq DOMAIN copied'
         /\ \A n \in DOMAIN copied : copied'[n] = copied[n]
  <1>0. /\ MediaInv /\ [Next]_vars /\ CopiesRecorded
        /\ copied \in Seq([key : Copies, image : Images, date : Nat])
    BY DEF DeliveryInv, DeliveryTypeOK, Library
  <1>1. CASE \E k \in Copies : k \in objects' \ objects
    <2>1. PICK k \in objects' \ objects, a \in Admins, date \in {Clock, Clock + 1} :
            /\ admin'[a] # admin[a]
            /\ copied' = Append(copied, [key |-> k, image |-> admin[a].image, date |-> date])
      BY <1>1 DEF Library
    <2>2. k \in Copies /\ objects' \ objects = {k} /\ admin[a].image \in Images
      BY <1>0, <1>1, <2>1, CopiesStay
    <2>3. date \in Nat /\ \A n \in DOMAIN copied : copied[n].date <= date
      <3>1. CASE copied = <<>>
        BY <3>1, <2>1 DEF Clock
      <3>2. CASE copied # <<>>
        <4>1. Len(copied) \in DOMAIN copied /\ Last(copied) = copied[Len(copied)]
          BY <1>0, <3>2 DEF Last
        <4>2. \A n \in DOMAIN copied : copied[n].date \in Nat
          BY <1>0, CopiedFields
        <4>3. copied[Len(copied)].date \in Nat
          BY <4>1, <4>2
        <4>4. \A n \in DOMAIN copied : copied[n].date <= copied[Len(copied)].date
          BY <1>0, <4>1 DEF CopiesRecorded
        <4> QED
          BY <2>1, <3>2, <4>1, <4>2, <4>3, <4>4 DEF Clock
      <3> QED
        BY <3>1, <3>2
    <2> DEFINE new == [key |-> k, image |-> admin[a].image, date |-> date]
    <2>4. new \in [key : Copies, image : Images, date : Nat] /\ new.key = k /\ new.date = date
      BY <2>2, <2>3
    <2>5. copied' = Append(copied, new)
      BY <2>1
    <2> HIDE DEF new
    <2>6. /\ copied' \in Seq([key : Copies, image : Images, date : Nat])
          /\ DOMAIN copied' = DOMAIN copied \cup {Len(copied) + 1}
          /\ \A n \in DOMAIN copied : copied'[n] = copied[n] /\ n <= Len(copied)
          /\ copied'[Len(copied) + 1] = new
          /\ Len(copied) + 1 \notin DOMAIN copied
      BY <1>0, <2>4, <2>5
    <2>7. objects' \cap Copies = (objects \cap Copies) \cup {k}
      BY <1>0, <2>2, CopiesStay
    <2>8. \A n \in DOMAIN copied : copied[n].key # k
      BY <1>0, <2>1, <2>2 DEF CopiesRecorded
    <2>9. CopiesRecorded'
      <3>1. \A c \in Copies : c \in objects' <=> \E n \in DOMAIN copied' : copied'[n].key = c
        BY <1>0, <2>2, <2>4, <2>6, <2>7 DEF CopiesRecorded
      <3>2. \A m, n \in DOMAIN copied' : copied'[m].key = copied'[n].key => m = n
        BY <1>0, <2>4, <2>6, <2>8 DEF CopiesRecorded
      <3>3. \A m, n \in DOMAIN copied' : m <= n => copied'[m].date <= copied'[n].date
        BY <1>0, <2>3, <2>4, <2>6 DEF CopiesRecorded
      <3> QED
        BY <3>1, <3>2, <3>3 DEF CopiesRecorded
    <2> QED
      BY <2>6, <2>9
  <1>2. CASE ~\E k \in Copies : k \in objects' \ objects
    <2>1. copied' = copied
      BY <1>2 DEF Library
    <2>2. \A k \in Copies : k \in objects' <=> k \in objects
      BY <1>0, <1>2, CopiesStay
    <2> QED
      BY <1>0, <2>1, <2>2 DEF CopiesRecorded
  <1> QED
    BY <1>1, <1>2

(* A step of the library. *)
LEMMA LibraryStep ==
  ASSUME DeliveryInv, Library
  PROVE  DeliveryInv'
  <1>1. MediaInv /\ MediaInv' /\ [Next]_vars
    BY MediaStep DEF DeliveryInv, Library
  <1>2. /\ objects \cap Copies \subseteq objects'
        /\ \A p \in ProjectMedia : holds'[p] # None => holds'[p] \in objects' \cap Copies
    <2>1. \A p \in ProjectMedia : holds'[p] \in Copies \cup {None}
      BY <1>1 DEF MediaInv, HoldsAreSorted, Holders
    <2> QED
      BY <1>1, <2>1, CopiesStay DEF MediaInv, HeldIsKept
  <1>3. /\ shown \in [ProjectMedia -> SUBSET (Copies \cup {None})]
        /\ shown' = [p \in ProjectMedia |-> shown[p] \cup {holds'[p]}]
        /\ UNCHANGED <<visitor, kept>>
    BY DEF DeliveryInv, DeliveryTypeOK, Library, visits
  <1>4. DeliveryTypeOK'
    <2>1. TypeOK'
      BY <1>1 DEF MediaInv
    <2>2. shown' \in [ProjectMedia -> SUBSET (Copies \cup {None})]
      BY <1>2, <1>3
    <2> QED
      BY <1>3, <2>1, <2>2, RecordStep DEF DeliveryInv, DeliveryTypeOK
  <1>5. ShownAreStored'
    BY <1>2, <1>3 DEF DeliveryInv, ShownAreStored
  <1>6. RequestIsNamed'
    <2>1. kept # Nothing => kept.at \in Images \cup ProjectMedia /\ NamedBy(kept.at, kept.key)
      BY DEF DeliveryInv, RequestIsNamed
    <2>2. visitor # Waiting => visitor.at \in Images \cup ProjectMedia
      BY DEF DeliveryInv, DeliveryTypeOK
    <2>3. PICK ka, kk, va, vk : ka = kept.at /\ kk = kept.key /\ va = visitor.at /\ vk = visitor.key
      OBVIOUS
    <2>0. \A p \in ProjectMedia : shown[p] \subseteq shown'[p]
      BY <1>3
    <2>4. kept # Nothing => NamedBy(ka, kk)'
      BY <1>1, <2>0, <2>1, <2>3, NamedStays
    <2>5. visitor # Waiting => (vk # None => NamedBy(va, vk)')
      BY <1>1, <2>0, <2>2, <2>3, NamedStays DEF DeliveryInv, RequestIsNamed
    <2>6. ka = kept'.at /\ kk = kept'.key /\ va = visitor'.at /\ vk = visitor'.key
      BY <1>3, <2>3
    <2> QED
      BY <1>3, <2>1, <2>4, <2>5, <2>6 DEF DeliveryInv, RequestIsNamed, NamedBy, Settled, At
  <1>7. RepliesHaveReasons'
    <2>1. CASE visitor.pc # "answered"
      BY <1>3, <2>1 DEF RepliesHaveReasons
    <2>2. CASE visitor.pc = "answered"
      <3>1. visitor # Waiting /\ visitor.at \in Images \cup ProjectMedia
        BY <2>2 DEF DeliveryInv, DeliveryTypeOK, Waiting
      <3>2. visitor.status = 304 => NotModifiedIsTrue'
        <4> SUFFICES ASSUME visitor.status = 304 PROVE NotModifiedIsTrue'
          OBVIOUS
        <4>1. /\ visitor.key # None /\ kept.at = visitor.at /\ kept # Nothing
              /\ NotModifiedIsTrue
          BY <2>2 DEF DeliveryInv, RepliesHaveReasons
        <4>2. NamedBy(visitor.at, visitor.key) /\ NamedBy(visitor.at, kept.key)
          BY <3>1, <4>1 DEF DeliveryInv, RequestIsNamed
        <4> QED
          BY <1>2, <1>3, <3>1, <4>1, <4>2, RecordStep, NotModifiedStays DEF DeliveryInv
      <3>3. visitor.at \in Images /\ visitor.key = visitor.at /\ visitor.at \notin objects
              => visitor.at \notin objects'
        <4> SUFFICES ASSUME visitor.at \in Images, visitor.key = visitor.at,
                            visitor.at \notin objects
                     PROVE  visitor.at \notin objects'
          OBVIOUS
        <4>1. Settled(visitor.at)
          BY <3>1, MediaAssumption, AddressAssumption DEF DeliveryInv, RequestIsNamed, NamedBy, Keys
        <4> QED
          BY <1>1, <4>1, SettledStays
      <3> QED
        BY <1>3, <2>2, <3>2, <3>3 DEF DeliveryInv, RepliesHaveReasons
    <2> QED
      BY <2>1, <2>2
  <1> QED
    BY <1>1, <1>4, <1>5, <1>6, <1>7, RecordStep DEF DeliveryInv

(* A question is about a file its address names now; if it is conditional, *)
(* about the one the visitor has of this address.                          *)
LEMMA AskStep ==
  ASSUME DeliveryInv, NEW at \in Images \cup ProjectMedia, Ask(at)
  PROVE  DeliveryInv'
  <1>1. PICK if \in Conditions(at), key \in KeysOfRows(at) :
          visitor' = [pc |-> IF key \notin Prefix(at) THEN "answered"
                             ELSE IF if = {} THEN "get" ELSE "head",
                      at |-> at, if |-> if, key |-> key, status |-> 404, bucket |-> "ok"]
    BY DEF Ask
  <1>2. UNCHANGED <<vars, copied, shown, kept>>
    BY DEF Ask
  <1>3. /\ if \in {{}, {"date"}, {"etag", "date"}}
        /\ if # {} => kept.at = at
    BY DEF Conditions
  <1>4. key \in Prefix(at) \cup {None} /\ (key # None => NamedBy(at, key)) /\ None \notin Prefix(at)
    <2>1. CASE at \in ProjectMedia
      BY <2>1, MediaAssumption DEF KeysOfRows, Prefix, NamedBy, DeliveryInv, DeliveryTypeOK, ShownAreStored, Keys
    <2>2. CASE at \notin ProjectMedia
      <3>1. at \in rows => Settled(at)
        BY DEF DeliveryInv, MediaInv, GivenOut, UploadsAreFresh, Settled
      <3> QED
        BY <2>2, <3>1, MediaAssumption DEF KeysOfRows, Prefix, NamedBy, Keys
    <2> QED
      BY <2>1, <2>2
  <1>5. MediaInv'
    BY <1>2, MediaStep DEF DeliveryInv, vars
  <1>6. DeliveryTypeOK'
    <2>1. TypeOK'
      BY <1>5 DEF MediaInv
    <2>2. key \in Keys \cup {None}
      BY <1>4 DEF Prefix, Keys
    <2>3. visitor' \in
       [pc : {"head", "get", "answered"}, at : Images \cup ProjectMedia, if : SUBSET {"etag", "date"},
        key : Keys \cup {None}, status : {200, 304, 404, 503}, bucket : {"ok", "wrong", "down"}]
      BY <1>1, <1>3, <2>2
    <2> QED
      BY <1>2, <2>1, <2>3 DEF DeliveryInv, DeliveryTypeOK
  <1>7. CopiesRecorded' /\ ShownAreStored'
    BY <1>2 DEF DeliveryInv, CopiesRecorded, ShownAreStored, vars
  <1>8. RequestIsNamed'
    BY <1>1, <1>2, <1>3, <1>4
       DEF DeliveryInv, RequestIsNamed, NamedBy, Settled, At, vars, Waiting
  <1>9. RepliesHaveReasons'
    BY <1>1, <1>4 DEF RepliesHaveReasons
  <1> QED
    BY <1>5, <1>6, <1>7, <1>8, <1>9 DEF DeliveryInv

(* Two files of one address: an image is one file, and of two copies the   *)
(* later record has no earlier date.                                       *)
LEMMA FreshIsTrue ==
  ASSUME DeliveryInv, visitor.pc = "head", fresh
  PROVE  NotModifiedIsTrue /\ kept # Nothing
  <1> DEFINE v == visitor.key
             w == kept.key
             at == visitor.at
  <1>1. /\ kept.at = at /\ at \in Images \cup ProjectMedia /\ v # None
        /\ visitor.if \in {{"date"}, {"etag", "date"}}
    BY DEF DeliveryInv, DeliveryTypeOK, RequestIsNamed, Waiting
  <1>2. kept # Nothing
    BY <1>1, MediaAssumption, AddressAssumption DEF Nothing, Keys
  <1>3. NamedBy(at, v) /\ NamedBy(at, w)
    BY <1>1, <1>2 DEF DeliveryInv, RequestIsNamed, Waiting
  <1> HIDE DEF v, w, at
  <1>4. \/ Bytes(v) = Bytes(w)
        \/ visitor.if = {"date"} /\ LastModified(v) <= LastModified(w)
    <2>1. "etag" \in visitor.if => Bytes(v) = Bytes(w)
      BY DEF fresh, etagMatches, v, w
    <2>2. "etag" \notin visitor.if => LastModified(v) <= LastModified(w)
      BY DEF fresh, notModifiedSince, v, w
    <2>3. "etag" \in visitor.if \/ visitor.if = {"date"}
      BY <1>1
    <2> QED
      BY <2>1, <2>2, <2>3
  <1>5. CASE at \notin ProjectMedia
    BY <1>2, <1>3, <1>5 DEF NamedBy, NotModifiedIsTrue, v, w
  <1>6. CASE at \in ProjectMedia /\ Bytes(v) # Bytes(w)
    <2>1. PICK n \in DOMAIN copied, m \in DOMAIN copied : copied[n].key = v /\ copied[m].key = w
      BY <1>3, <1>6 DEF NamedBy, DeliveryInv, CopiesRecorded
    <2>2. Position(v) = n /\ Position(w) = m
      BY <2>1, PositionIs DEF DeliveryInv
    <2>3. LastModified(v) = copied[n].date /\ LastModified(w) = copied[m].date
      BY <1>3, <1>6, <2>2, MediaAssumption DEF LastModified, NamedBy
    <2>4. copied[n].date \in Nat /\ copied[m].date \in Nat /\ n \in Nat /\ m \in Nat
      BY CopiedFields DEF DeliveryInv, DeliveryTypeOK
    <2>5. m <= n => copied[m].date <= copied[n].date
      BY DEF DeliveryInv, CopiesRecorded
    <2>6. LastModified(v) = LastModified(w) \/ Position(v) < Position(w)
      BY <1>4, <1>6, <2>2, <2>3, <2>4, <2>5
    <2> QED
      BY <1>2, <1>4, <1>6, <2>6 DEF NotModifiedIsTrue, v, w
  <1>7. CASE Bytes(v) = Bytes(w)
    BY <1>2, <1>7 DEF NotModifiedIsTrue, v, w
  <1> QED
    BY <1>5, <1>6, <1>7

(* What the two reads say of a file that its address has named: a copy is  *)
(* missing only behind a wrong bucket, and to HEAD alone.                  *)
LEMMA MissingIsMissing ==
  ASSUME DeliveryInv, visitor.pc \in {"head", "get"}, NEW bucket \in {"ok", "wrong", "down"}
  PROVE  /\ Missing("HEAD", visitor.key, bucket) => visitor.key \notin objects \/ bucket = "wrong"
         /\ Missing("GET", visitor.key, bucket) => visitor.key \notin objects
  BY DEF Missing, Found, isMissingKey, Errors, BUCKET_LEVEL_CODES, Shaped404

(* A request of a visitor that the handler works on, or has answered. *)
Stages == {"head", "get", "answered"}
Validators == SUBSET {"etag", "date"}
Statuses == {200, 304, 404, 503}
Buckets == {"ok", "wrong", "down"}
Asked ==
  [pc : Stages, at : Images \cup ProjectMedia, if : Validators,
   key : Keys \cup {None}, status : Statuses, bucket : Buckets]

(* The bytes are wanted: the request goes on to read them. *)
LEMMA WantedFields ==
  ASSUME NEW v \in Asked
  PROVE  LET w == [v EXCEPT !.pc = "get"]
         IN  /\ w \in Asked /\ w.pc = "get" /\ w.at = v.at /\ w.key = v.key /\ w.if = v.if
  BY DEF Asked, Stages, Validators, Statuses, Buckets

(* What the handler finds when it works on a request. *)
LEMMA HandlerFinds ==
  ASSUME DeliveryInv, visitor.pc \in {"head", "get"}
  PROVE  /\ visitor \in Asked /\ visitor # Waiting /\ visitor.key # None
         /\ visitor.at \in Images \cup ProjectMedia /\ NamedBy(visitor.at, visitor.key)
         /\ visitor.if \in {{}, {"date"}, {"etag", "date"}}
         /\ visitor.key \notin objects => visitor.at \in Images /\ visitor.key = visitor.at
         /\ visitor.pc = "head" => visitor.if # {} /\ kept.at = visitor.at
  <1>1. visitor # Waiting
    BY DEF Waiting
  <1>2. visitor \in Asked
    BY <1>1 DEF DeliveryInv, DeliveryTypeOK, Asked, Stages, Validators, Statuses, Buckets
  <1>3. visitor.at \in Images \cup ProjectMedia
    BY <1>2 DEF Asked, Stages, Validators, Statuses, Buckets
  <1>4. visitor.key # None /\ NamedBy(visitor.at, visitor.key)
    BY <1>1 DEF DeliveryInv, RequestIsNamed
  <1> QED
    BY <1>1, <1>2, <1>3, <1>4 DEF DeliveryInv, RequestIsNamed, NamedBy

(* The handler leaves the library, the record and the cache alone. *)
LEMMA HandlerKeeps ==
  ASSUME DeliveryInv, Handling
  PROVE  /\ MediaInv' /\ CopiesRecorded' /\ ShownAreStored'
         /\ TypeOK' /\ copied' = copied /\ shown' = shown /\ objects' = objects
         /\ \A at, k : NamedBy(at, k)' <=> NamedBy(at, k)
  <1>1. MediaInv' /\ TypeOK'
    BY MediaStep DEF Handling, DeliveryInv, MediaInv
  <1> QED
    BY <1>1 DEF Handling, vars, DeliveryInv, CopiesRecorded, ShownAreStored, NamedBy, Settled, At

(* The handler answers without bytes: not modified, gone, or no answer. *)
LEMMA AnswerStep ==
  ASSUME DeliveryInv, Handling, visitor.pc \in {"head", "get"},
         NEW status \in {304, 404, 503}, NEW bucket \in {"ok", "wrong", "down"},
         Reply(status, bucket),
         status = 304 => visitor.pc = "head" /\ fresh,
         status = 404 => visitor.key \notin objects \/ (visitor.pc = "head" /\ bucket = "wrong"),
         status = 503 => bucket # "ok"
  PROVE  DeliveryInv'
  <1>1. /\ visitor' \in Asked /\ visitor'.pc = "answered" /\ visitor'.status = status
        /\ visitor'.bucket = bucket /\ visitor'.at = visitor.at
        /\ visitor'.key = visitor.key /\ visitor'.if = visitor.if
    <2>1. visitor' = [visitor EXCEPT !.pc = "answered", !.status = status, !.bucket = bucket]
      BY DEF Reply
    <2>2. visitor \in Asked
      BY HandlerFinds
    <2>3. "answered" \in Stages /\ status \in Statuses /\ bucket \in Buckets
      BY DEF Stages, Statuses, Buckets
    <2> QED
      BY <2>1, <2>2, <2>3 DEF Asked
  <1>2. kept' = IF status = 404 THEN Nothing ELSE kept
    BY DEF Reply
  <1>3. DeliveryTypeOK'
    BY <1>1, <1>2, HandlerKeeps DEF DeliveryInv, DeliveryTypeOK, Asked, Stages, Validators, Statuses, Buckets, Nothing
  <1>4. RequestIsNamed'
    <2>1. PICK va, vk, ka, kk : va = visitor.at /\ vk = visitor.key /\ ka = kept.at /\ kk = kept.key
      OBVIOUS
    <2>2. NamedBy(va, vk)'
      BY <2>1, HandlerFinds, HandlerKeeps
    <2>3. kept # Nothing => ka \in Images \cup ProjectMedia /\ NamedBy(ka, kk)'
      BY <2>1, HandlerKeeps DEF DeliveryInv, RequestIsNamed
    <2>4. va = visitor'.at /\ vk = visitor'.key
      BY <1>1, <2>1
    <2>5. kept' # Nothing => kept' = kept /\ ka = kept'.at /\ kk = kept'.key
      BY <1>2, <2>1
    <2> QED
      BY <1>1, <2>2, <2>3, <2>4, <2>5, HandlerFinds
         DEF RequestIsNamed, NamedBy, Settled, At
  <1>5. RepliesHaveReasons'
    <2>1. status = 304 => NotModifiedIsTrue' /\ kept' # Nothing
      <3> SUFFICES ASSUME status = 304 PROVE NotModifiedIsTrue' /\ kept' # Nothing
        OBVIOUS
      <3>1. NotModifiedIsTrue /\ kept # Nothing /\ kept' = kept
        BY <1>2, FreshIsTrue
      <3> QED
        BY <1>1, <3>1, HandlerKeeps DEF NotModifiedIsTrue, Bytes, LastModified, Position
    <2> QED
      BY <1>1, <1>2, <2>1, HandlerFinds, HandlerKeeps DEF RepliesHaveReasons
  <1> QED
    BY <1>3, <1>4, <1>5, HandlerKeeps DEF DeliveryInv

(* The metadata do not settle it: the bytes are read next. *)
LEMMA WantedStep ==
  ASSUME DeliveryInv, Handling, visitor.pc = "head",
         visitor' = [visitor EXCEPT !.pc = "get"], UNCHANGED kept
  PROVE  DeliveryInv'
  <1>1. /\ visitor' \in Asked /\ visitor'.pc = "get" /\ visitor'.at = visitor.at
        /\ visitor'.key = visitor.key /\ visitor'.if = visitor.if
    BY HandlerFinds, WantedFields
  <1>2. DeliveryTypeOK'
    BY <1>1, HandlerKeeps DEF DeliveryInv, DeliveryTypeOK, Asked, Stages, Validators, Statuses, Buckets
  <1>3. RequestIsNamed'
    BY <1>1, HandlerFinds, HandlerKeeps
       DEF DeliveryInv, RequestIsNamed, NamedBy, Settled, At, Handling, vars
  <1> QED
    BY <1>1, <1>2, <1>3, HandlerKeeps DEF DeliveryInv, RepliesHaveReasons

(* The bytes are sent, and the visitor has them. *)
LEMMA BytesStep ==
  ASSUME DeliveryInv, Handling, visitor.pc = "get", NEW bucket, Reply(200, bucket)
  PROVE  DeliveryInv'
  <1>1. visitor' = Waiting /\ kept' = [at |-> visitor.at, key |-> visitor.key]
    BY DEF Reply
  <1>2. kept'.at = visitor.at /\ kept'.key = visitor.key
    BY <1>1
  <1>3. DeliveryTypeOK'
    BY <1>1, HandlerFinds, HandlerKeeps DEF DeliveryInv, DeliveryTypeOK, Asked, Stages, Validators, Statuses, Buckets
  <1>4. RequestIsNamed'
    BY <1>1, <1>2, HandlerFinds, HandlerKeeps
       DEF RequestIsNamed, NamedBy, Settled, At, Handling, vars, Waiting
  <1>5. RepliesHaveReasons'
    BY <1>1 DEF RepliesHaveReasons, Waiting
  <1> QED
    BY <1>3, <1>4, <1>5, HandlerKeeps DEF DeliveryInv

(* The two reads of the handler. *)
LEMMA HandlerStep ==
  ASSUME DeliveryInv, NEW bucket \in {"ok", "wrong", "down"},
         headObject(bucket) \/ getObjectStream(bucket)
  PROVE  DeliveryInv'
  <1>1. CASE headObject(bucket)
    <2>1. visitor.pc = "head" /\ Handling
      BY <1>1 DEF headObject
    <2>2. CASE fresh /\ Reply(304, bucket)
      BY <2>1, <2>2, AnswerStep
    <2>3. CASE visitor' = [visitor EXCEPT !.pc = "get"] /\ UNCHANGED kept
      BY <2>1, <2>3, WantedStep
    <2>4. CASE Missing("HEAD", visitor.key, bucket) /\ Reply(404, bucket)
      BY <2>1, <2>4, MissingIsMissing, AnswerStep
    <2>5. CASE bucket # "ok" /\ Reply(503, bucket)
      BY <2>1, <2>5, AnswerStep
    <2> QED
      BY <1>1, <2>2, <2>3, <2>4, <2>5 DEF headObject
  <1>2. CASE getObjectStream(bucket)
    <2>1. visitor.pc = "get" /\ Handling
      BY <1>2 DEF getObjectStream
    <2>2. CASE Reply(200, bucket)
      BY <2>1, <2>2, BytesStep
    <2>3. CASE Missing("GET", visitor.key, bucket) /\ Reply(404, bucket)
      BY <2>1, <2>3, MissingIsMissing, AnswerStep
    <2>4. CASE bucket # "ok" /\ Reply(503, bucket)
      BY <2>1, <2>4, AnswerStep
    <2> QED
      BY <1>2, <2>2, <2>3, <2>4 DEF getObjectStream
  <1> QED
    BY <1>1, <1>2

(* Every step of the delivery keeps its invariant. *)
LEMMA DeliveryStep == DeliveryInv /\ [DeliveryNext]_deliveryVars => DeliveryInv'
  <1> SUFFICES ASSUME DeliveryInv, [DeliveryNext]_deliveryVars PROVE DeliveryInv'
    OBVIOUS
  <1>1. CASE UNCHANGED deliveryVars
    <2>1. MediaInv' /\ TypeOK'
      BY <1>1, MediaStep DEF deliveryVars, DeliveryInv, MediaInv
    <2>2. DeliveryTypeOK' /\ CopiesRecorded' /\ ShownAreStored'
      BY <1>1, <2>1 DEF deliveryVars, visits, vars, DeliveryInv, DeliveryTypeOK, CopiesRecorded, ShownAreStored
    <2>3. RequestIsNamed' /\ RepliesHaveReasons'
      BY <1>1 DEF deliveryVars, visits, vars, DeliveryInv, RequestIsNamed, RepliesHaveReasons,
         NamedBy, Settled, At, NotModifiedIsTrue, Bytes, LastModified, Position
    <2> QED
      BY <2>1, <2>2, <2>3 DEF DeliveryInv
  <1> QED
    BY <1>1, LibraryStep, AskStep, HandlerStep DEF DeliveryNext

(* Every behaviour of the delivery keeps its invariant.                    *)
LEMMA DeliveryCorrect == DeliverySpec => []DeliveryInv
  <1> QED
    BY InitDelivery, DeliveryStep, PTL DEF DeliverySpec

(* What a visitor is told of a file is so: the bytes are those of the      *)
(* address; a 304 keeps the bytes its row names, or a date alone could not *)
(* tell; a 404 is a file that is gone, or a wrong bucket seen by HEAD; a   *)
(* 503 is the store's fault (the two media routes over storage.ts).        *)
THEOREM RepliesAreSo == DeliverySpec => []RepliesAreTrue
  <1>1. DeliveryInv => RepliesAreTrue
    BY DEF DeliveryInv, MediaInv, RepliesHaveReasons, RepliesAreTrue, RowHasObject, GoneIsGone,
       BodyIsTrue, RequestIsNamed, NamedBy
  <1> QED
    BY <1>1, DeliveryCorrect, PTL

-----------------------------------------------------------------------------
(* The tables.                                                             *)

(* The number of the table a row is in.                                    *)
TableOf(x) == CHOOSE n \in 1 .. 13 : x \in Tables[n]

(* Every row is in one table.                                              *)
LEMMA TablesApart ==
  ASSUME NEW x
  PROVE  /\ x \in Products => TableOf(x) = 1
         /\ x \in Manufacturers => TableOf(x) = 2
         /\ x \in Categories => TableOf(x) = 3
         /\ x \in Series => TableOf(x) = 4
         /\ x \in Industries => TableOf(x) = 5
         /\ x \in Projects => TableOf(x) = 6
         /\ x \in Services => TableOf(x) = 7
         /\ x \in Datasheets => TableOf(x) = 8
         /\ x \in Certificates => TableOf(x) = 9
         /\ x \in Guides => TableOf(x) = 10
         /\ x = Home => TableOf(x) = 11
         /\ x = Settings => TableOf(x) = 12
         /\ x = Sla => TableOf(x) = 13
  <1>1. ASSUME NEW m \in 1 .. 13, NEW n \in 1 .. 13, x \in Tables[m], x \in Tables[n] PROVE m = n
    BY <1>1, LivePublishAssumption DEF Tables
  <1>2. \A n \in 1 .. 13 : x \in Tables[n] => TableOf(x) = n
    BY <1>1 DEF TableOf
  <1> HIDE DEF TableOf
  <1> QED
    BY <1>2 DEF Tables

(* What a row may refer to.                                                *)
LEMMA SchemaIs ==
  ASSUME NEW x
  PROVE  /\ x \in Products => Schema(x) = Categories \cup Manufacturers \cup Series \cup Industries \cup Products
         /\ x \in Manufacturers \cup Industries \cup {Home, Settings, Sla} => Schema(x) = {}
         /\ x \in Categories => Schema(x) = Categories
         /\ x \in Series => Schema(x) = Manufacturers
         /\ x \in Projects => Schema(x) = Industries \cup Products
         /\ x \in Services => Schema(x) = Industries
         /\ x \in Documents => Schema(x) = Products \cup Industries
         /\ x \in Guides => Schema(x) = Products \cup Categories
BY TablesApart DEF Schema, Documents

-----------------------------------------------------------------------------
(* The rows: well typed, no link dangles, every link fits the schema.      *)
RowsOK ==
  /\ text \in [Rows -> Texts \cup {Absent, Gone}]
  /\ public \subseteq {x \in Publishable : Exists(x)}
  /\ links \in [Rows -> SUBSET Rows]
  /\ \A x \in Rows : \A y \in links[x] : Exists(x) /\ Exists(y)
  /\ \A x \in Rows : Fits(x, links[x])

(* What an edit of one row leaves of the others: a link to it can go, from *)
(* a document or a guide and from nothing else.                            *)
RestStays(x) ==
  \A y \in Rows \ {x} :
    /\ text'[y] = text[y] /\ (y \in public' <=> y \in public)
    /\ links'[y] \ {x} = links[y] \ {x}
    /\ y \notin Documents \cup Guides => links'[y] = links[y]

LEMMA WriteKeepsRows ==
  ASSUME RowsOK, NEW x \in Rows, NEW t \in Texts, NEW visible \in BOOLEAN, NEW to,
         Write(x, t, visible, to),
         Fits(x, to), \A y \in to : y \in Rows /\ Exists(y)
  PROVE  RowsOK' /\ RestStays(x)
  <1>1. /\ text' = [text EXCEPT ![x] = t]
        /\ public' = IF visible /\ x \in Publishable THEN public \cup {x} ELSE public \ {x}
        /\ links' = [links EXCEPT ![x] = to]
    BY DEF Write
  <1>2. text' \in [Rows -> Texts \cup {Absent, Gone}] /\ links' \in [Rows -> SUBSET Rows]
    BY <1>1 DEF RowsOK
  <1>3. \A y \in Rows : text'[y] = IF y = x THEN t ELSE text[y]
    BY <1>1 DEF RowsOK
  <1>4. \A y \in Rows : links'[y] = IF y = x THEN to ELSE links[y]
    BY <1>1 DEF RowsOK
  <1>5. \A y \in Rows : Exists(y) => Exists(y)'
    BY <1>3 DEF Exists
  <1>6. Exists(x)'
    BY <1>3 DEF Exists
  <1>7. \A y \in Rows : \A z \in links'[y] : Exists(y)' /\ Exists(z)'
    BY <1>4, <1>5, <1>6 DEF RowsOK
  <1>8. \A y \in Rows : Fits(y, links'[y])
    BY <1>4 DEF RowsOK
  <1>9. public' \subseteq {y \in Publishable : Exists(y)'}
    <2> SUFFICES ASSUME NEW y \in public' PROVE y \in Publishable /\ Exists(y)'
      OBVIOUS
    <2>1. CASE y = x
      BY <1>1, <1>6, <2>1
    <2>2. CASE y # x
      <3>1. y \in public
        BY <1>1, <2>2
      <3>2. y \in Publishable /\ Exists(y) /\ y \in Rows
        BY <3>1 DEF RowsOK, Publishable, Rows
      <3> QED
        BY <3>2, <1>5
    <2> QED BY <2>1, <2>2
  <1>10. RowsOK'
    BY <1>2, <1>7, <1>8, <1>9 DEF RowsOK
  <1>11. RestStays(x)
    BY <1>1, <1>3, <1>4 DEF RestStays
  <1> QED BY <1>10, <1>11

LEMMA DeleteKeepsRows ==
  ASSUME RowsOK, NEW x \in Rows, Delete(x),
         \A y \in Rows \ {x} : x \in links[y] => y \in Documents \cup Guides
  PROVE  RowsOK' /\ RestStays(x)
  <1>1. /\ text' = [text EXCEPT ![x] = Gone]
        /\ public' = public \ {x}
        /\ links' = [y \in Rows |-> IF y = x THEN {} ELSE links[y] \ {x}]
    BY DEF Delete
  <1>2. text' \in [Rows -> Texts \cup {Absent, Gone}] /\ links' \in [Rows -> SUBSET Rows]
    BY <1>1 DEF RowsOK
  <1>3. \A y \in Rows : text'[y] = IF y = x THEN Gone ELSE text[y]
    BY <1>1 DEF RowsOK
  <1>4. \A y \in Rows : links'[y] = IF y = x THEN {} ELSE links[y] \ {x}
    BY <1>1
  <1>5. \A y \in Rows \ {x} : Exists(y) => Exists(y)'
    BY <1>3 DEF Exists
  <1>7. \A y \in Rows : \A z \in links'[y] : Exists(y)' /\ Exists(z)'
    BY <1>4, <1>5 DEF RowsOK
  <1>8. \A y \in Rows : Fits(y, links'[y])
    <2> SUFFICES ASSUME NEW y \in Rows PROVE Fits(y, links'[y])
      OBVIOUS
    <2>1. links'[y] \subseteq links[y]
      BY <1>4
    <2>2. Fits(y, links[y])
      BY DEF RowsOK
    <2> QED BY <2>1, <2>2 DEF Fits
  <1>9. public' \subseteq {y \in Publishable : Exists(y)'}
    <2> SUFFICES ASSUME NEW y \in public' PROVE y \in Publishable /\ Exists(y)'
      OBVIOUS
    <2>1. y # x /\ y \in Publishable /\ Exists(y) /\ y \in Rows
      BY <1>1 DEF RowsOK, Publishable, Rows
    <2> QED BY <2>1, <1>5
  <1>10. RowsOK'
    BY <1>2, <1>7, <1>8, <1>9 DEF RowsOK
  <1>11. RestStays(x)
    BY <1>1, <1>3, <1>4 DEF RestStays
  <1> QED BY <1>10, <1>11

-----------------------------------------------------------------------------
(* The edits: each leaves the rows in order and the other rows alone, and  *)
(* changes one row at most.                                                *)

LEMMA NoRowsLinkNone ==
  ASSUME RowsOK, NEW X \in SUBSET Rows, NEW x \in Rows, Referring(X, x) = {}
  PROVE  \A y \in X : x \notin links[y]
  BY DEF RowsOK, Referring

LEMMA LinksAreTyped ==
  ASSUME RowsOK, NEW x \in Rows, NEW y \in Rows, x \in links[y]
  PROVE  x \in Schema(y)
  BY DEF RowsOK, Fits

LEMMA DeletesKeepRows ==
  ASSUME RowsOK, NEW x \in Rows, Delete(x),
         \/ x \in Products /\ Referring(Projects \cup Products, x) = {}
         \/ x \in Categories /\ Referring(Products \cup Categories, x) = {}
         \/ x \in Manufacturers /\ Referring(Products \cup Series, x) = {}
         \/ x \in Series /\ Referring(Products, x) = {}
         \/ x \in Industries /\ Referring(Products \cup Documents \cup Services \cup Projects, x) = {}
         \/ x \in Projects \cup Services \cup Documents \cup Guides
  PROVE  RowsOK' /\ RestStays(x)
  <1> SUFFICES ASSUME NEW y \in Rows \ {x}, x \in links[y] PROVE y \in Documents \cup Guides
    BY DeleteKeepsRows
  <1>1. x \in Schema(y)
    BY LinksAreTyped
  <1>2. \A X \in SUBSET Rows : Referring(X, x) = {} => y \notin X
    BY NoRowsLinkNone
  <1>3. /\ Projects \cup Products \subseteq Rows /\ Products \cup Categories \subseteq Rows
        /\ Products \cup Series \subseteq Rows /\ Products \subseteq Rows
        /\ Products \cup Documents \cup Services \cup Projects \subseteq Rows
    BY DEF Rows
  <1>4. y \in Products \cup Manufacturers \cup Categories \cup Series \cup Industries
          \cup Projects \cup Services \cup Documents \cup Guides \cup {Home, Settings, Sla}
    BY DEF Rows
  <1> QED
    BY <1>1, <1>2, <1>3, <1>4, SchemaIs, TablesApart DEF Documents

(* Links a row may be saved with.                                          *)
MayLink(x, choices) ==
  \A to \in choices : Fits(x, to) /\ \A y \in to : y \in Rows /\ Exists(y)

LEMMA SavesKeepRows ==
  ASSUME RowsOK, NEW x \in Rows, NEW choices, Save(x, choices), MayLink(x, choices)
  PROVE  RowsOK' /\ RestStays(x)
  <1>1. PICK t \in Texts, visible \in BOOLEAN, to \in choices : Write(x, t, visible, to)
    BY DEF Save
  <1> QED
    BY <1>1, WriteKeepsRows DEF MayLink

LEMMA NothingFits ==
  ASSUME NEW x
  PROVE  MayLink(x, {{}})
  BY DEF MayLink, Fits

LEMMA ProductLinksFit ==
  ASSUME RowsOK, NEW p \in Products, NEW to \in ProductLinks(p), NEW is \in SUBSET Existing(Industries)
  PROVE  /\ to \subseteq Schema(p) /\ (to \ Industries) \cup is \subseteq Schema(p)
         /\ p \notin Projects
         /\ \A y \in to \cup is : y \in Rows /\ Exists(y)
  <1>1. PICK c \in Existing(Categories), m \in Existing(Manufacturers), s \in AtMostOne(Existing(Series)) :
          to = {c, m} \cup s \cup (links[p] \cap (Industries \cup Products))
    BY DEF ProductLinks
  <1>2. s \subseteq Existing(Series)
    BY DEF AtMostOne
  <1>3. p \in Rows
    BY DEF Rows
  <1>4. \A y \in links[p] : y \in Rows /\ Exists(y)
    BY <1>3 DEF RowsOK
  <1>5. \A y \in to \cup is : y \in Rows /\ Exists(y)
    BY <1>1, <1>2, <1>4 DEF Existing, Rows
  <1>6. to \subseteq Categories \cup Manufacturers \cup Series \cup Industries \cup Products
    BY <1>1, <1>2 DEF Existing
  <1>7. Schema(p) = Categories \cup Manufacturers \cup Series \cup Industries \cup Products
    BY SchemaIs
  <1>8. is \subseteq Industries
    BY DEF Existing
  <1>9. p \notin Projects
    BY TablesApart
  <1> QED
    BY <1>5, <1>6, <1>7, <1>8, <1>9

LEMMA CategoryLinksFit ==
  ASSUME NEW c \in Categories
  PROVE  MayLink(c, CategoryLinks(c))
  <1> SUFFICES ASSUME NEW to \in CategoryLinks(c)
               PROVE  Fits(c, to) /\ \A y \in to : y \in Rows /\ Exists(y)
    BY DEF MayLink
  <1>1. to \subseteq Existing(Categories)
    BY DEF CategoryLinks, AtMostOne
  <1>2. Schema(c) = Categories /\ c \notin Projects
    BY SchemaIs, TablesApart
  <1> QED
    BY <1>1, <1>2 DEF Fits, Existing, Rows

LEMMA SeriesLinksFit ==
  ASSUME NEW s \in Series
  PROVE  MayLink(s, SeriesLinks)
  <1>1. Schema(s) = Manufacturers /\ s \notin Projects
    BY SchemaIs, TablesApart
  <1> QED
    BY <1>1 DEF MayLink, Fits, SeriesLinks, Existing, Rows

LEMMA ProjectLinksFit ==
  ASSUME RowsOK, NEW j \in Projects
  PROVE  MayLink(j, ProjectLinks(j))
  <1> SUFFICES ASSUME NEW to \in ProjectLinks(j)
               PROVE  Fits(j, to) /\ \A y \in to : y \in Rows /\ Exists(y)
    BY DEF MayLink
  <1>1. PICK i \in AtMostOne(Existing(Industries)) : to = i \cup (links[j] \cap Products)
    BY DEF ProjectLinks
  <1>2. i = {} \/ \E k \in Existing(Industries) : i = {k}
    BY DEF AtMostOne
  <1>3. Schema(j) = Industries \cup Products
    BY SchemaIs
  <1>4. j \in Rows /\ \A y \in links[j] : y \in Rows /\ Exists(y)
    BY DEF RowsOK, Rows
  <1>5. to \cap Industries = i \cap Industries
    BY <1>1, TablesApart
  <1>6. \A k, n \in to \cap Industries : k = n
    BY <1>2, <1>5
  <1>7. to \subseteq Schema(j)
    BY <1>1, <1>2, <1>3 DEF Existing
  <1>8. \A y \in to : y \in Rows /\ Exists(y)
    BY <1>1, <1>2, <1>4 DEF Existing, Rows
  <1> QED
    BY <1>6, <1>7, <1>8 DEF Fits

LEMMA ServiceLinksFit ==
  ASSUME RowsOK, NEW v \in Services
  PROVE  MayLink(v, {links[v]})
  BY DEF MayLink, RowsOK, Rows

LEMMA DocumentLinksFit ==
  ASSUME NEW d \in Documents
  PROVE  MayLink(d, DocumentLinks)
  <1> SUFFICES ASSUME NEW to \in DocumentLinks
               PROVE  Fits(d, to) /\ \A y \in to : y \in Rows /\ Exists(y)
    BY DEF MayLink
  <1>1. to \subseteq Existing(Products) \cup Existing(Industries)
    BY DEF DocumentLinks, AtMostOne
  <1>2. Schema(d) = Products \cup Industries /\ d \notin Projects
    BY SchemaIs, TablesApart DEF Documents
  <1> QED
    BY <1>1, <1>2 DEF Fits, Existing, Rows

LEMMA GuideLinksFit ==
  ASSUME NEW g \in Guides
  PROVE  MayLink(g, GuideLinks)
  <1> SUFFICES ASSUME NEW to \in GuideLinks
               PROVE  Fits(g, to) /\ \A y \in to : y \in Rows /\ Exists(y)
    BY DEF MayLink
  <1>1. to \subseteq Existing(Products) \cup Existing(Categories)
    BY DEF GuideLinks, AtMostOne
  <1>2. Schema(g) = Products \cup Categories /\ g \notin Projects
    BY SchemaIs, TablesApart
  <1> QED
    BY <1>1, <1>2 DEF Fits, Existing, Rows

-----------------------------------------------------------------------------
(* What a read depends on.                                                 *)

(* The rows a read looks at, whose edits may change what it answers.       *)
Footprint ==
  CASE read.kind = "product-id" -> Products
    [] read.kind = "product" -> Products \cup Manufacturers \cup Categories
    [] read.kind \in {"products-all", "products-by-category", "related-products", "accessories"} ->
         Products \cup Manufacturers \cup Datasheets
    [] read.kind = "products-by-industry" -> Products \cup Manufacturers \cup Datasheets \cup {read.of}
    [] read.kind = "product-signals" -> Products \cup Manufacturers \cup Categories \cup Documents
    [] read.kind = "documents-by-product" -> Products \cup Documents
    [] read.kind = "categories" -> Categories
    [] read.kind \in {"category-tree", "category"} -> Categories \cup Products
    [] read.kind = "categories-by-industry" -> Categories \cup Products \cup {read.of}
    [] read.kind = "series-options" -> Series \cup Products
    [] read.kind = "manufacturer-options" -> Manufacturers \cup Products
    [] read.kind = "manufacturers" -> Manufacturers
    [] read.kind = "projects" -> Projects \cup Industries
    [] read.kind = "projects-by-industry" -> Projects \cup {read.of}
    [] read.kind = "project" ->
         Projects \cup Industries \cup Products \cup Manufacturers \cup Datasheets
    [] read.kind \in {"industries", "industry"} -> Industries
    [] read.kind = "services-all" -> Services
    [] read.kind = "services-by-industry" -> Services \cup {read.of}
    [] read.kind = "certificates-by-industry" -> Documents \cup {read.of}
    [] read.kind = "document" -> Documents
    [] read.kind = "guides-index" -> Guides
    [] read.kind = "guide" -> Guides \cup Products \cup Categories
    [] OTHER -> {read.of}

(* The kinds of reads, and what each is asked about.                       *)
LEMMA ReadsAre ==
  ASSUME read \in Reads
  PROVE  /\ read.kind \in {"product-id", "product", "related-products", "accessories",
                           "documents-by-product", "products-by-industry", "categories-by-industry",
                           "projects-by-industry", "services-by-industry",
                           "certificates-by-industry", "industry", "products-by-category",
                           "category", "products-all", "product-signals", "categories",
                           "category-tree", "projects", "industries", "services-all",
                           "series-options", "manufacturer-options", "manufacturers",
                           "guides-index", "project", "document", "guide", "home-content",
                           "site-phone", "contact-details", "sla-process"}
         /\ read.kind \in {"product-id", "product", "related-products", "accessories",
                           "documents-by-product"} => read.of \in Products
         /\ read.kind \in {"products-by-industry", "categories-by-industry",
                           "projects-by-industry", "services-by-industry",
                           "certificates-by-industry", "industry"} => read.of \in Industries
         /\ read.kind \in {"products-by-category", "category"} => read.of \in Categories
         /\ read.kind = "project" => read.of \in Projects
         /\ read.kind = "document" => read.of \in Documents
         /\ read.kind = "guide" => read.of \in Guides
         /\ read.kind = "home-content" => read.of = Home
         /\ read.kind \in {"site-phone", "contact-details"} => read.of = Settings
         /\ read.kind = "sla-process" => read.of = Sla
  BY DEF Reads

(* The kinds of the reads that are about products.                         *)
CatalogKinds ==
  {"product-id", "product", "products-by-industry", "products-all", "related-products",
   "accessories", "product-signals", "documents-by-product", "products-by-category",
   "series-options", "manufacturer-options", "category", "category-tree",
   "categories-by-industry"}

LEMMA CatalogTagged ==
  ASSUME read.kind \in CatalogKinds
  PROVE  "catalog" \in TagsOfRead /\ "import" \in Unfollowed
  <1>1. "catalog" \in CatalogTags
    BY DEF CatalogTags, treeTags, CatalogKinds
  <1>2. "import" \in Unfollowed
    BY <1>1 DEF Unfollowed, CatalogKinds
  <1> QED BY <1>1, <1>2 DEF TagsOfRead

(* What a project's and a guide's page, the list of projects and the SLA   *)
(* do not follow.                                                          *)
LEMMA UnfollowedIs ==
  /\ read.kind = "project" =>
       Unfollowed = {"product", "import", "manufacturer", "industry", "document"}
  /\ read.kind = "guide" => Unfollowed = {"product", "import", "category"}
  /\ read.kind = "projects" => Unfollowed = {"industry"}
  /\ read.kind = "sla-process" => Unfollowed = {"release"}
  <1>1. read.kind \in {"project", "guide", "projects", "sla-process"} => "catalog" \notin CatalogTags
    BY DEF CatalogTags
  <1> QED BY <1>1 DEF Unfollowed

(* The tags of a read that an edit of another class than products purges.  *)
LEMMA OtherTags ==
  ASSUME read \in Reads
  PROVE  /\ read.kind = "manufacturers" => "manufacturers" \in TagsOfRead
         /\ read.kind = "categories" => "categories" \in TagsOfRead
         /\ read.kind \in {"projects", "project", "projects-by-industry"} => "projects" \in TagsOfRead
         /\ read.kind \in {"industries", "industry"} => "industries" \in TagsOfRead
         /\ read.kind \in {"services-all", "services-by-industry"} => "services" \in TagsOfRead
         /\ read.kind \in {"document", "certificates-by-industry", "products-by-industry",
                           "products-all", "products-by-category", "related-products", "accessories",
                           "product-signals", "documents-by-product"} => "documents" \in TagsOfRead
         /\ read.kind \in {"guides-index", "guide"} => "guides" \in TagsOfRead
         /\ read.kind \in {"products-by-industry", "categories-by-industry", "projects-by-industry",
                           "services-by-industry", "certificates-by-industry", "industry",
                           "home-content", "site-phone", "contact-details", "sla-process"} =>
              read.of \in TagsOfRead
  BY DEF TagsOfRead, CatalogTags, ContentTags

(* A row of one table is in no other, and no read of another table asks    *)
(* about it.                                                               *)
OnlyIn(x, table) ==
  /\ table # "products" => x \notin Products
  /\ table # "manufacturers" => x \notin Manufacturers
  /\ table # "categories" => x \notin Categories
  /\ table # "series" => x \notin Series
  /\ table # "industries" => x \notin Industries
  /\ table # "projects" => x \notin Projects
  /\ table # "services" => x \notin Services
  /\ table # "documents" => x \notin Documents
  /\ table # "guides" => x \notin Guides
  /\ table # "documents" => x \notin Datasheets
  /\ table # "industries" /\ read.kind \in {"products-by-industry", "categories-by-industry",
                                       "projects-by-industry", "services-by-industry",
                                       "certificates-by-industry"} => x # read.of
  /\ table # "single" /\ read.kind \in {"home-content", "site-phone", "contact-details",
                                   "sla-process"} => x # read.of

LEMMA Elsewhere ==
  ASSUME read \in Reads, NEW x
  PROVE  /\ x \in Products => OnlyIn(x, "products")
         /\ x \in Manufacturers => OnlyIn(x, "manufacturers")
         /\ x \in Categories => OnlyIn(x, "categories")
         /\ x \in Series => OnlyIn(x, "series")
         /\ x \in Industries => OnlyIn(x, "industries")
         /\ x \in Projects => OnlyIn(x, "projects")
         /\ x \in Services => OnlyIn(x, "services")
         /\ x \in Documents => OnlyIn(x, "documents")
         /\ x \in Guides => OnlyIn(x, "guides")
         /\ x \in {Home, Settings, Sla} => OnlyIn(x, "single")
  <1>1. ASSUME NEW t \in 1 .. 13, TableOf(x) = t
        PROVE  /\ (t # 1 => x \notin Products) /\ (t # 2 => x \notin Manufacturers)
               /\ (t # 3 => x \notin Categories) /\ (t # 4 => x \notin Series)
               /\ (t # 5 => x \notin Industries) /\ (t # 6 => x \notin Projects)
               /\ (t # 7 => x \notin Services) /\ (t \notin {8, 9} => x \notin Documents)
               /\ (t \notin {8, 9} => x \notin Datasheets) /\ (t # 10 => x \notin Guides)
               /\ (t < 11 => x \notin {Home, Settings, Sla})
    BY <1>1, TablesApart DEF Documents
  <1>2. ASSUME x \in Products PROVE OnlyIn(x, "products")
    <2>1. TableOf(x) = 1
      BY <1>2, TablesApart
    <2>2. /\ x \notin Manufacturers /\ x \notin Categories /\ x \notin Series /\ x \notin Industries
          /\ x \notin Projects /\ x \notin Services /\ x \notin Documents /\ x \notin Guides
          /\ x \notin Datasheets /\ x \notin {Home, Settings, Sla}
      BY <1>1, <2>1
    <2> QED BY <2>2, ReadsAre DEF OnlyIn
  <1>3. ASSUME x \in Manufacturers PROVE OnlyIn(x, "manufacturers")
    <2>1. TableOf(x) = 2
      BY <1>3, TablesApart
    <2>2. /\ x \notin Products /\ x \notin Categories /\ x \notin Series /\ x \notin Industries
          /\ x \notin Projects /\ x \notin Services /\ x \notin Documents /\ x \notin Guides
          /\ x \notin Datasheets /\ x \notin {Home, Settings, Sla}
      BY <1>1, <2>1
    <2> QED BY <2>2, ReadsAre DEF OnlyIn
  <1>4. ASSUME x \in Categories PROVE OnlyIn(x, "categories")
    <2>1. TableOf(x) = 3
      BY <1>4, TablesApart
    <2>2. /\ x \notin Products /\ x \notin Manufacturers /\ x \notin Series /\ x \notin Industries
          /\ x \notin Projects /\ x \notin Services /\ x \notin Documents /\ x \notin Guides
          /\ x \notin Datasheets /\ x \notin {Home, Settings, Sla}
      BY <1>1, <2>1
    <2> QED BY <2>2, ReadsAre DEF OnlyIn
  <1>5. ASSUME x \in Series PROVE OnlyIn(x, "series")
    <2>1. TableOf(x) = 4
      BY <1>5, TablesApart
    <2>2. /\ x \notin Products /\ x \notin Manufacturers /\ x \notin Categories /\ x \notin Industries
          /\ x \notin Projects /\ x \notin Services /\ x \notin Documents /\ x \notin Guides
          /\ x \notin Datasheets /\ x \notin {Home, Settings, Sla}
      BY <1>1, <2>1
    <2> QED BY <2>2, ReadsAre DEF OnlyIn
  <1>6. ASSUME x \in Industries PROVE OnlyIn(x, "industries")
    <2>1. TableOf(x) = 5
      BY <1>6, TablesApart
    <2>2. /\ x \notin Products /\ x \notin Manufacturers /\ x \notin Categories /\ x \notin Series
          /\ x \notin Projects /\ x \notin Services /\ x \notin Documents /\ x \notin Guides
          /\ x \notin Datasheets /\ x \notin {Home, Settings, Sla}
      BY <1>1, <2>1
    <2> QED BY <2>2, ReadsAre DEF OnlyIn
  <1>7. ASSUME x \in Projects PROVE OnlyIn(x, "projects")
    <2>1. TableOf(x) = 6
      BY <1>7, TablesApart
    <2>2. /\ x \notin Products /\ x \notin Manufacturers /\ x \notin Categories /\ x \notin Series
          /\ x \notin Industries /\ x \notin Services /\ x \notin Documents /\ x \notin Guides
          /\ x \notin Datasheets /\ x \notin {Home, Settings, Sla}
      BY <1>1, <2>1
    <2> QED BY <2>2, ReadsAre DEF OnlyIn
  <1>8. ASSUME x \in Services PROVE OnlyIn(x, "services")
    <2>1. TableOf(x) = 7
      BY <1>8, TablesApart
    <2>2. /\ x \notin Products /\ x \notin Manufacturers /\ x \notin Categories /\ x \notin Series
          /\ x \notin Industries /\ x \notin Projects /\ x \notin Documents /\ x \notin Guides
          /\ x \notin Datasheets /\ x \notin {Home, Settings, Sla}
      BY <1>1, <2>1
    <2> QED BY <2>2, ReadsAre DEF OnlyIn
  <1>9. ASSUME x \in Documents PROVE OnlyIn(x, "documents")
    <2>1. TableOf(x) \in {8, 9}
      BY <1>9, TablesApart DEF Documents
    <2>2. /\ x \notin Products /\ x \notin Manufacturers /\ x \notin Categories /\ x \notin Series
          /\ x \notin Industries /\ x \notin Projects /\ x \notin Services /\ x \notin Guides
          /\ x \notin {Home, Settings, Sla}
      BY <1>1, <2>1
    <2> QED BY <2>2, ReadsAre DEF OnlyIn
  <1>10. ASSUME x \in Guides PROVE OnlyIn(x, "guides")
    <2>1. TableOf(x) = 10
      BY <1>10, TablesApart
    <2>2. /\ x \notin Products /\ x \notin Manufacturers /\ x \notin Categories /\ x \notin Series
          /\ x \notin Industries /\ x \notin Projects /\ x \notin Services /\ x \notin Documents
          /\ x \notin Datasheets /\ x \notin {Home, Settings, Sla}
      BY <1>1, <2>1
    <2> QED BY <2>2, ReadsAre DEF OnlyIn
  <1>11. ASSUME x \in {Home, Settings, Sla} PROVE OnlyIn(x, "single")
    <2>1. TableOf(x) \in {11, 12, 13}
      BY <1>11, TablesApart
    <2>2. /\ x \notin Products /\ x \notin Manufacturers /\ x \notin Categories /\ x \notin Series
          /\ x \notin Industries /\ x \notin Projects /\ x \notin Services /\ x \notin Documents
          /\ x \notin Guides /\ x \notin Datasheets
      BY <1>1, <2>1
    <2> QED BY <2>2, ReadsAre DEF OnlyIn
  <1> QED
    BY <1>2, <1>3, <1>4, <1>5, <1>6, <1>7, <1>8, <1>9, <1>10, <1>11

(* Class by class, what an edit has to purge, or not be followed by.       *)
LEMMA ProductsFollowed ==
  ASSUME read \in Reads, NEW p \in Products, p \in Footprint
  PROVE  /\ "catalog" \in TagsOfRead \/ {"product", "import"} \subseteq Unfollowed
         /\ "import" \in Unfollowed
  <1>0. OnlyIn(p, "products")
    BY Elsewhere
  <1>1. read.kind \in CatalogKinds \/ read.kind \in {"project", "guide"}
    BY <1>0, ReadsAre DEF OnlyIn, Footprint, CatalogKinds
  <1>2. read.kind \in {"project", "guide"} => {"product", "import"} \subseteq Unfollowed
    BY UnfollowedIs
  <1> QED BY <1>1, <1>2, CatalogTagged

LEMMA CategoriesFollowed ==
  ASSUME read \in Reads, NEW c \in Categories, c \in Footprint
  PROVE  {"categories", "catalog"} \cap TagsOfRead # {} \/ "category" \in Unfollowed
  <1>0. OnlyIn(c, "categories")
    BY Elsewhere
  <1>1. read.kind \in CatalogKinds \/ read.kind \in {"categories", "guide"}
    BY <1>0, ReadsAre DEF OnlyIn, Footprint, CatalogKinds
  <1>2. read.kind = "guide" => "category" \in Unfollowed
    BY UnfollowedIs
  <1> QED BY <1>1, <1>2, CatalogTagged, OtherTags

LEMMA ManufacturersFollowed ==
  ASSUME read \in Reads, NEW m \in Manufacturers, m \in Footprint
  PROVE  {"manufacturers", "catalog"} \cap TagsOfRead # {} \/ "manufacturer" \in Unfollowed
  <1>0. OnlyIn(m, "manufacturers")
    BY Elsewhere
  <1>1. read.kind \in CatalogKinds \/ read.kind \in {"manufacturers", "project"}
    BY <1>0, ReadsAre DEF OnlyIn, Footprint, CatalogKinds
  <1>2. read.kind = "project" => "manufacturer" \in Unfollowed
    BY UnfollowedIs
  <1> QED BY <1>1, <1>2, CatalogTagged, OtherTags

LEMMA SeriesFollowed ==
  ASSUME read \in Reads, NEW s \in Series, s \in Footprint
  PROVE  "catalog" \in TagsOfRead
  <1>0. OnlyIn(s, "series")
    BY Elsewhere
  <1>1. read.kind \in CatalogKinds
    BY <1>0, ReadsAre DEF OnlyIn, Footprint, CatalogKinds
  <1> QED BY <1>1, CatalogTagged

LEMMA IndustriesFollowed ==
  ASSUME read \in Reads, NEW i \in Industries, i \in Footprint
  PROVE  {"industries", i} \cap TagsOfRead # {} \/ "industry" \in Unfollowed
  <1>0. OnlyIn(i, "industries")
    BY Elsewhere
  <1>1. \/ read.kind \in {"industries", "industry", "projects", "project"}
        \/ /\ read.kind \in {"products-by-industry", "categories-by-industry", "projects-by-industry",
                             "services-by-industry", "certificates-by-industry"}
           /\ i = read.of
    BY <1>0, ReadsAre DEF OnlyIn, Footprint
  <1>2. read.kind \in {"projects", "project"} => "industry" \in Unfollowed
    BY UnfollowedIs
  <1> QED BY <1>1, <1>2, OtherTags

LEMMA ProjectsFollowed ==
  ASSUME read \in Reads, NEW j \in Projects, j \in Footprint
  PROVE  "projects" \in TagsOfRead
  <1>0. OnlyIn(j, "projects")
    BY Elsewhere
  <1>1. read.kind \in {"projects", "project", "projects-by-industry"}
    BY <1>0, ReadsAre DEF OnlyIn, Footprint
  <1> QED BY <1>1, OtherTags

LEMMA ServicesFollowed ==
  ASSUME read \in Reads, NEW v \in Services, v \in Footprint
  PROVE  "services" \in TagsOfRead
  <1>0. OnlyIn(v, "services")
    BY Elsewhere
  <1>1. read.kind \in {"services-all", "services-by-industry"}
    BY <1>0, ReadsAre DEF OnlyIn, Footprint
  <1> QED BY <1>1, OtherTags

LEMMA DocumentsFollowed ==
  ASSUME read \in Reads, NEW d \in Documents, d \in Footprint
  PROVE  "documents" \in TagsOfRead \/ "document" \in Unfollowed
  <1>0. OnlyIn(d, "documents")
    BY Elsewhere
  <1>1. read.kind \in {"document", "certificates-by-industry", "products-by-industry",
                       "products-all", "products-by-category", "related-products", "accessories",
                       "product-signals", "documents-by-product", "project"}
    BY <1>0, ReadsAre DEF OnlyIn, Footprint
  <1>2. read.kind = "project" => "document" \in Unfollowed
    BY UnfollowedIs
  <1> QED BY <1>1, <1>2, OtherTags

LEMMA GuidesFollowed ==
  ASSUME read \in Reads, NEW g \in Guides, g \in Footprint
  PROVE  "guides" \in TagsOfRead
  <1>0. OnlyIn(g, "guides")
    BY Elsewhere
  <1>1. read.kind \in {"guides-index", "guide"}
    BY <1>0, ReadsAre DEF OnlyIn, Footprint
  <1> QED BY <1>1, OtherTags

LEMMA SingletonsFollowed ==
  ASSUME read \in Reads, NEW x \in {Home, Settings, Sla}, x \in Footprint
  PROVE  /\ x \in TagsOfRead
         /\ x = Sla => "release" \in Unfollowed
  <1>0. OnlyIn(x, "single")
    BY Elsewhere
  <1>1. /\ read.kind \in {"home-content", "site-phone", "contact-details", "sla-process"}
        /\ x = read.of
    BY <1>0, ReadsAre DEF OnlyIn, Footprint
  <1>2. read.kind = "sla-process" => "release" \in Unfollowed
    BY UnfollowedIs
  <1>3. x = Sla => read.kind = "sla-process"
    BY <1>1, ReadsAre, TablesApart
  <1> QED BY <1>1, <1>2, <1>3, OtherTags

(* One edit, of row x: it purges the read, or it is not of a row the read  *)
(* looks at, or the read does not follow it.                               *)
OneEdit(x, kind) ==
  /\ RowsOK' /\ RestStays(x)
  /\ read' = read /\ edits < MaxEdits /\ edits' = edits + 1
  /\ \/ entry' = NoEntry /\ since' = {}
     \/ /\ entry' = entry /\ since' = (IF entry = NoEntry THEN {} ELSE since \cup {kind})
        /\ x \in Footprint => kind \in Unfollowed

LEMMA EditIs ==
  ASSUME NEW x, NEW kind, NEW tags, RowsOK', RestStays(x), edits < MaxEdits,
         Edit(kind, tags), x \in Footprint => kind \in Unfollowed \/ tags \cap TagsOfRead # {}
  PROVE  OneEdit(x, kind)
  BY DEF Edit, OneEdit

LEMMA RowsAreRows ==
  /\ Products \subseteq Rows /\ Manufacturers \subseteq Rows /\ Categories \subseteq Rows
  /\ Series \subseteq Rows /\ Industries \subseteq Rows /\ Projects \subseteq Rows
  /\ Services \subseteq Rows /\ Documents \subseteq Rows /\ Guides \subseteq Rows
  /\ {Home, Settings, Sla} \subseteq Rows
  /\ Datasheets \subseteq Rows /\ Certificates \subseteq Rows
  BY DEF Rows, Documents

LEMMA ProductEdits ==
  ASSUME RowsOK, read \in Reads, NEW p \in Products,
         SaveProduct(p) \/ DeleteProduct(p) \/ upsertProductFromImport(p)
  PROVE  OneEdit(p, "product") \/ OneEdit(p, "import")
  <1>1. p \in Rows
    BY RowsAreRows
  <1>2. CASE SaveProduct(p)
    <2>1. MayLink(p, ProductLinks(p))
      BY ProductLinksFit DEF MayLink, Fits
    <2>2. RowsOK' /\ RestStays(p) /\ edits < MaxEdits
      BY <1>1, <1>2, <2>1, SavesKeepRows DEF SaveProduct, Save
    <2> QED
      BY <1>2, <2>2, ProductsFollowed, EditIs DEF SaveProduct, productTags
  <1>3. CASE DeleteProduct(p)
    <2>1. RowsOK' /\ RestStays(p) /\ edits < MaxEdits
      BY <1>1, <1>3, DeletesKeepRows DEF DeleteProduct, Delete
    <2> QED
      BY <1>3, <2>1, ProductsFollowed, EditIs DEF DeleteProduct, productTags
  <1>4. CASE upsertProductFromImport(p)
    <2>1. PICK t \in Texts, visible \in BOOLEAN, to \in ProductLinks(p), is \in SUBSET Existing(Industries) :
            Write(p, t, visible, (to \ Industries) \cup is)
      BY <1>4 DEF upsertProductFromImport
    <2>2. Fits(p, (to \ Industries) \cup is)
      BY ProductLinksFit DEF Fits
    <2>3. \A y \in (to \ Industries) \cup is : y \in Rows /\ Exists(y)
      BY ProductLinksFit
    <2>4. RowsOK' /\ RestStays(p) /\ edits < MaxEdits
      BY <1>1, <1>4, <2>1, <2>2, <2>3, WriteKeepsRows DEF upsertProductFromImport
    <2> QED
      BY <1>4, <2>4, ProductsFollowed, EditIs DEF upsertProductFromImport
  <1> QED BY <1>2, <1>3, <1>4

LEMMA CategoryEdits ==
  ASSUME RowsOK, read \in Reads, NEW c \in Categories, SaveCategory(c) \/ DeleteCategory(c)
  PROVE  OneEdit(c, "category")
  <1>1. c \in Rows
    BY RowsAreRows
  <1>2. RowsOK' /\ RestStays(c) /\ edits < MaxEdits
    <2>1. CASE SaveCategory(c)
      BY <1>1, <2>1, CategoryLinksFit, SavesKeepRows DEF SaveCategory, Save
    <2>2. CASE DeleteCategory(c)
      BY <1>1, <2>2, DeletesKeepRows DEF DeleteCategory, Delete
    <2> QED BY <2>1, <2>2
  <1>3. Edit("category", {"categories", "catalog"})
    BY DEF SaveCategory, DeleteCategory, CategoryTags
  <1> QED
    BY <1>2, <1>3, CategoriesFollowed, EditIs

LEMMA ManufacturerEdits ==
  ASSUME RowsOK, read \in Reads, NEW m \in Manufacturers, SaveManufacturer(m) \/ DeleteManufacturer(m)
  PROVE  OneEdit(m, "manufacturer")
  <1>1. m \in Rows
    BY RowsAreRows
  <1>2. RowsOK' /\ RestStays(m) /\ edits < MaxEdits
    <2>1. CASE SaveManufacturer(m)
      BY <1>1, <2>1, NothingFits, SavesKeepRows DEF SaveManufacturer, Save
    <2>2. CASE DeleteManufacturer(m)
      BY <1>1, <2>2, DeletesKeepRows DEF DeleteManufacturer, Delete
    <2> QED BY <2>1, <2>2
  <1>3. Edit("manufacturer", {"manufacturers", "catalog", Home})
    BY DEF SaveManufacturer, DeleteManufacturer, ManufacturerTags
  <1> QED
    BY <1>2, <1>3, ManufacturersFollowed, EditIs

LEMMA SeriesEdits ==
  ASSUME RowsOK, read \in Reads, NEW s \in Series, SaveSeries(s) \/ DeleteSeries(s)
  PROVE  OneEdit(s, "series")
  <1>1. s \in Rows
    BY RowsAreRows
  <1>2. RowsOK' /\ RestStays(s) /\ edits < MaxEdits
    <2>1. CASE SaveSeries(s)
      BY <1>1, <2>1, SeriesLinksFit, SavesKeepRows DEF SaveSeries, Save
    <2>2. CASE DeleteSeries(s)
      BY <1>1, <2>2, DeletesKeepRows DEF DeleteSeries, Delete
    <2> QED BY <2>1, <2>2
  <1>3. Edit("series", {"catalog"})
    BY DEF SaveSeries, DeleteSeries, SeriesTags
  <1> QED
    BY <1>2, <1>3, SeriesFollowed, EditIs

LEMMA IndustryEdits ==
  ASSUME RowsOK, read \in Reads, NEW i \in Industries, SaveIndustry(i) \/ DeleteIndustry(i)
  PROVE  OneEdit(i, "industry")
  <1>1. i \in Rows
    BY RowsAreRows
  <1>2. RowsOK' /\ RestStays(i) /\ edits < MaxEdits
    <2>1. CASE SaveIndustry(i)
      BY <1>1, <2>1, NothingFits, SavesKeepRows DEF SaveIndustry, Save
    <2>2. CASE DeleteIndustry(i)
      BY <1>1, <2>2, DeletesKeepRows DEF DeleteIndustry, Delete
    <2> QED BY <2>1, <2>2
  <1>3. Edit("industry", {"industries", i})
    BY DEF SaveIndustry, DeleteIndustry, industryTags
  <1> QED
    BY <1>2, <1>3, IndustriesFollowed, EditIs

LEMMA ProjectEdits ==
  ASSUME RowsOK, read \in Reads, NEW j \in Projects, SaveProject(j) \/ DeleteProject(j)
  PROVE  OneEdit(j, "project")
  <1>1. j \in Rows
    BY RowsAreRows
  <1>2. RowsOK' /\ RestStays(j) /\ edits < MaxEdits
    <2>1. CASE SaveProject(j)
      BY <1>1, <2>1, ProjectLinksFit, SavesKeepRows DEF SaveProject, Save
    <2>2. CASE DeleteProject(j)
      BY <1>1, <2>2, DeletesKeepRows DEF DeleteProject, Delete
    <2> QED BY <2>1, <2>2
  <1>3. Edit("project", projectTags(j)) /\ "projects" \in projectTags(j)
    BY DEF SaveProject, DeleteProject, projectTags
  <1> QED
    BY <1>2, <1>3, ProjectsFollowed DEF Edit, OneEdit

LEMMA ServiceEdits ==
  ASSUME RowsOK, read \in Reads, NEW v \in Services, SaveService(v) \/ DeleteService(v)
  PROVE  OneEdit(v, "service")
  <1>1. v \in Rows
    BY RowsAreRows
  <1>2. RowsOK' /\ RestStays(v) /\ edits < MaxEdits
    <2>1. CASE SaveService(v)
      BY <1>1, <2>1, ServiceLinksFit, SavesKeepRows DEF SaveService, Save
    <2>2. CASE DeleteService(v)
      BY <1>1, <2>2, DeletesKeepRows DEF DeleteService, Delete
    <2> QED BY <2>1, <2>2
  <1>3. Edit("service", serviceTags(v)) /\ "services" \in serviceTags(v)
    BY DEF SaveService, DeleteService, serviceTags
  <1> QED
    BY <1>2, <1>3, ServicesFollowed DEF Edit, OneEdit

LEMMA DocumentEdits ==
  ASSUME RowsOK, read \in Reads, NEW d \in Documents, SaveDocument(d) \/ DeleteDocument(d)
  PROVE  OneEdit(d, "document")
  <1>1. d \in Rows
    BY RowsAreRows
  <1>2. RowsOK' /\ RestStays(d) /\ edits < MaxEdits
    <2>1. CASE SaveDocument(d)
      BY <1>1, <2>1, DocumentLinksFit, SavesKeepRows DEF SaveDocument, Save
    <2>2. CASE DeleteDocument(d)
      BY <1>1, <2>2, DeletesKeepRows DEF DeleteDocument, Delete
    <2> QED BY <2>1, <2>2
  <1>3. Edit("document", {"documents"})
    BY DEF SaveDocument, DeleteDocument, DocumentTags
  <1> QED
    BY <1>2, <1>3, DocumentsFollowed, EditIs

LEMMA GuideEdits ==
  ASSUME RowsOK, read \in Reads, NEW g \in Guides, SaveGuide(g) \/ DeleteGuide(g)
  PROVE  OneEdit(g, "guide")
  <1>1. g \in Rows
    BY RowsAreRows
  <1>2. RowsOK' /\ RestStays(g) /\ edits < MaxEdits
    <2>1. CASE SaveGuide(g)
      BY <1>1, <2>1, GuideLinksFit, SavesKeepRows DEF SaveGuide, Save
    <2>2. CASE DeleteGuide(g)
      BY <1>1, <2>2, DeletesKeepRows DEF DeleteGuide, Delete
    <2> QED BY <2>1, <2>2
  <1>3. Edit("guide", {"guides"})
    BY DEF SaveGuide, DeleteGuide, GuideTags
  <1> QED
    BY <1>2, <1>3, GuidesFollowed, EditIs

LEMMA SingleEdits ==
  ASSUME RowsOK, read \in Reads, NEW x \in {Home, Settings, Sla}, NEW kind,
         Save(x, {{}}),
         Edit(kind, {x}) \/ (x = Sla /\ kind = "release" /\ Edit(kind, {}))
  PROVE  OneEdit(x, kind)
  <1>1. x \in Rows
    BY RowsAreRows
  <1>2. RowsOK' /\ RestStays(x) /\ edits < MaxEdits
    BY <1>1, NothingFits, SavesKeepRows DEF Save
  <1> QED
    BY <1>2, SingletonsFollowed, EditIs

(* Every step but a miss is one edit.                                      *)
LEMMA StepsAreEdits ==
  ASSUME RowsOK, read \in Reads, SiteNext
  PROVE  Fill \/ \E x \in Rows, kind \in Kinds : OneEdit(x, kind)
  <1>0. {"product", "import", "category", "manufacturer", "series", "industry", "project",
         "service", "document", "guide", "home", "settings", "sla", "release"} \subseteq Kinds
    BY DEF Kinds
  <1>1. CASE \E p \in Products : SaveProduct(p) \/ DeleteProduct(p) \/ upsertProductFromImport(p)
    BY <1>0, <1>1, ProductEdits, RowsAreRows
  <1>2. CASE \E c \in Categories : SaveCategory(c) \/ DeleteCategory(c)
    BY <1>0, <1>2, CategoryEdits, RowsAreRows
  <1>3. CASE \E m \in Manufacturers : SaveManufacturer(m) \/ DeleteManufacturer(m)
    BY <1>0, <1>3, ManufacturerEdits, RowsAreRows
  <1>4. CASE \E s \in Series : SaveSeries(s) \/ DeleteSeries(s)
    BY <1>0, <1>4, SeriesEdits, RowsAreRows
  <1>5. CASE \E i \in Industries : SaveIndustry(i) \/ DeleteIndustry(i)
    BY <1>0, <1>5, IndustryEdits, RowsAreRows
  <1>6. CASE \E j \in Projects : SaveProject(j) \/ DeleteProject(j)
    BY <1>0, <1>6, ProjectEdits, RowsAreRows
  <1>7. CASE \E v \in Services : SaveService(v) \/ DeleteService(v)
    BY <1>0, <1>7, ServiceEdits, RowsAreRows
  <1>8. CASE \E d \in Documents : SaveDocument(d) \/ DeleteDocument(d)
    BY <1>0, <1>8, DocumentEdits, RowsAreRows
  <1>9. CASE \E g \in Guides : SaveGuide(g) \/ DeleteGuide(g)
    BY <1>0, <1>9, GuideEdits, RowsAreRows
  <1>10. CASE SaveHomeContent \/ SaveSiteSettings \/ SaveSla \/ ensureDefaultSla
    BY <1>0, <1>10, SingleEdits, RowsAreRows
       DEF SaveHomeContent, SaveSiteSettings, SaveSla, ensureDefaultSla
  <1> QED
    BY <1>1, <1>2, <1>3, <1>4, <1>5, <1>6, <1>7, <1>8, <1>9, <1>10 DEF SiteNext

-----------------------------------------------------------------------------
(* An edit of a row a read does not look at leaves its answer.             *)

LEMMA RowsStay ==
  ASSUME NEW x, RestStays(x), NEW X \in SUBSET Rows, x \notin X
  PROVE  /\ \A y \in X : /\ text'[y] = text[y] /\ (Exists(y)' <=> Exists(y))
                         /\ y \notin Documents \cup Guides => links'[y] = links[y]
         /\ Published(X)' = Published(X)
  BY DEF RestStays, Exists, Published

LEMMA ReferringStays ==
  ASSUME NEW x, RestStays(x), NEW X \in SUBSET Rows, x \notin X, NEW z,
         z # x \/ X \cap (Documents \cup Guides) = {}
  PROVE  /\ Referring(X, z)' = Referring(X, z)
         /\ Published(Referring(X, z))' = Published(Referring(X, z))
  <1>1. \A y \in X : /\ Exists(y)' <=> Exists(y)
                     /\ y \in public' <=> y \in public
                     /\ z \in links'[y] <=> z \in links[y]
    BY DEF RestStays, Exists
  <1> QED
    BY <1>1 DEF Referring, Published

LEMMA CardsStay ==
  ASSUME NEW x, RestStays(x), x \notin Products \cup Manufacturers \cup Datasheets, NEW p \in Products
  PROVE  Card(p)' = Card(p)
  <1> DEFINE S == {p} \cup MadeBy(p) \cup Published(Referring(Datasheets, p))
  <1>1. p \notin Documents \cup Guides
    BY TablesApart DEF Documents
  <1>2. text'[p] = text[p] /\ links'[p] = links[p]
    BY <1>1, RowsAreRows DEF RestStays
  <1>3. MadeBy(p)' = MadeBy(p)
    BY <1>2 DEF MadeBy
  <1>4. Published(Referring(Datasheets, p))' = Published(Referring(Datasheets, p))
    BY ReferringStays, RowsAreRows
  <1>5. S' = S
    BY <1>3, <1>4
  <1>6. S \subseteq Products \cup Manufacturers \cup Datasheets
    BY DEF MadeBy, Published, Referring
  <1>7. \A y \in S : text'[y] = text[y]
    BY <1>6, RowsAreRows DEF RestStays
  <1>8. Card(p) = [of |-> p, shows |-> {<<y, text[y]>> : y \in S}, count |-> 0]
    BY DEF Card, Item
  <1>9. Card(p)' = [of |-> p, shows |-> {<<y, text'[y]>> : y \in S'}, count |-> 0]
    BY DEF Card, Item
  <1> HIDE DEF S
  <1> QED
    BY <1>5, <1>7, <1>8, <1>9

(* No product refers to a row by a link a delete takes away.               *)
LEMMA TablesHoldLinks ==
  /\ Products \cap (Documents \cup Guides) = {} /\ Categories \cap (Documents \cup Guides) = {}
  /\ Projects \cap (Documents \cup Guides) = {} /\ Services \cap (Documents \cup Guides) = {}
  BY TablesApart DEF Documents

LEMMA CardListsStay ==
  ASSUME NEW x, RestStays(x), x \notin Products \cup Manufacturers \cup Datasheets
  PROVE  /\ queryPublishedProducts' = queryPublishedProducts
         /\ \A i : queryProductsByIndustry(i)' = queryProductsByIndustry(i)
         /\ \A c : queryProductsByCategory(c)' = queryProductsByCategory(c)
         /\ \A p : queryAccessoriesForProduct(p)' = queryAccessoriesForProduct(p)
         /\ \A p \in Products : queryRelatedProducts(p)' = queryRelatedProducts(p)
  <1>1. Published(Products)' = Published(Products) /\ Published(Products) \subseteq Products
    BY RowsStay, RowsAreRows DEF Published
  <1>2. \A z : /\ Published(Referring(Products, z))' = Published(Referring(Products, z))
               /\ Published(Referring(Products, z)) \subseteq Products
    BY ReferringStays, RowsAreRows, TablesHoldLinks DEF Published, Referring
  <1>3. \A q \in Products : Card(q)' = Card(q)
    BY CardsStay
  <1>4. queryPublishedProducts' = queryPublishedProducts
    BY <1>1, <1>3 DEF queryPublishedProducts, Cards
  <1>5. ASSUME NEW z
        PROVE  {Card(q)' : q \in Published(Referring(Products, z))'}
                 = {Card(q) : q \in Published(Referring(Products, z))}
    BY <1>2, <1>3
  <1>6. ASSUME NEW p \in Products PROVE queryRelatedProducts(p)' = queryRelatedProducts(p)
    <2>1. \A q \in Products : (Exists(q)' <=> Exists(q)) /\ links'[q] = links[q]
      BY RowsStay, RowsAreRows, TablesHoldLinks
    <2>2. \A q \in Products : InCategory(q)' = InCategory(q)
      BY <2>1 DEF InCategory
    <2>3. {q \in Published(Products) \ {p} : InCategory(q) = InCategory(p)}'
            = {q \in Published(Products) \ {p} : InCategory(q) = InCategory(p)}
      BY <1>1, <2>2
    <2> DEFINE R == {q \in Published(Products) \ {p} : InCategory(q) = InCategory(p)}
    <2>4. R \subseteq Products
      BY <1>1
    <2>5. queryRelatedProducts(p) = (IF Exists(p) THEN {Card(q) : q \in R} ELSE {})
      BY DEF queryRelatedProducts, Cards
    <2>6. queryRelatedProducts(p)' = (IF Exists(p)' THEN {Card(q)' : q \in R'} ELSE {})
      BY DEF queryRelatedProducts, Cards
    <2> HIDE DEF R
    <2>7. R' = R
      BY <2>3 DEF R
    <2>8. {Card(q)' : q \in R'} = {Card(q) : q \in R}
      BY <1>3, <2>4, <2>7
    <2> QED
      BY <2>1, <2>5, <2>6, <2>8
  <1> QED
    BY <1>4, <1>5, <1>6
       DEF queryProductsByIndustry, queryProductsByCategory, queryAccessoriesForProduct, Cards

LEMMA PlainStays ==
  ASSUME NEW X, \A y \in X : text'[y] = text[y]
  PROVE  {[of |-> y, shows |-> {<<z, text'[z]>> : z \in {y}}, count |-> 0] : y \in X}
           = {[of |-> y, shows |-> {<<z, text[z]>> : z \in {y}}, count |-> 0] : y \in X}
  <1>1. \A y \in X : {<<z, text'[z]>> : z \in {y}} = {<<z, text[z]>> : z \in {y}}
    OBVIOUS
  <1> QED BY <1>1

LEMMA ProductReadsStay ==
  ASSUME NEW x, RestStays(x), x \notin Products
  PROVE  /\ \A p \in Products : queryProductId(p)' = queryProductId(p)
         /\ x \notin Manufacturers \cup Categories =>
              \A p \in Products : queryProductDetail(p)' = queryProductDetail(p)
         /\ x \notin Manufacturers \cup Categories \cup Documents =>
              queryProductSignals' = queryProductSignals
         /\ x \notin Documents =>
              \A p \in Products : queryDocumentsByProduct(p)' = queryDocumentsByProduct(p)
  <1>1. \A X \in SUBSET Products : Published(X)' = Published(X) /\ Published(X) \subseteq Products
    BY RowsStay, RowsAreRows DEF Published
  <1>2. ASSUME NEW p \in Products PROVE queryProductId(p)' = queryProductId(p)
    <2>1. Published({p})' = Published({p})
      BY <1>1
    <2>2. \A q : {<<z, text'[z]>> : z \in {}} = {<<z, text[z]>> : z \in {}}
      OBVIOUS
    <2> QED
      BY <2>1, <2>2 DEF queryProductId, Item
  <1>3. ASSUME x \notin Manufacturers \cup Categories, NEW q \in Products, NEW n
        PROVE  /\ ({q} \cup MadeBy(q) \cup InCategory(q))' = {q} \cup MadeBy(q) \cup InCategory(q)
               /\ {<<z, text'[z]>> : z \in {q} \cup MadeBy(q) \cup InCategory(q)}
                    = {<<z, text[z]>> : z \in {q} \cup MadeBy(q) \cup InCategory(q)}
    <2>1. links'[q] = links[q]
      BY RowsStay, RowsAreRows, TablesHoldLinks
    <2>2. \A z \in {q} \cup MadeBy(q) \cup InCategory(q) : text'[z] = text[z]
      BY <1>3, RowsAreRows DEF RestStays, MadeBy, InCategory
    <2> QED
      BY <2>1, <2>2 DEF MadeBy, InCategory
  <1>4. ASSUME x \notin Manufacturers \cup Categories, NEW p \in Products
        PROVE  queryProductDetail(p)' = queryProductDetail(p)
    <2>1. Published({p})' = Published({p}) /\ Published({p}) \subseteq Products
      BY <1>1
    <2> DEFINE S(q) == {q} \cup MadeBy(q) \cup InCategory(q)
    <2>2. \A q \in Products : {<<z, text'[z]>> : z \in S(q)'} = {<<z, text[z]>> : z \in S(q)}
      BY <1>3, <1>4
    <2>3. queryProductDetail(p) =
            {[of |-> q, shows |-> {<<z, text[z]>> : z \in S(q)}, count |-> 0] : q \in Published({p})}
      BY DEF queryProductDetail, Item
    <2>4. queryProductDetail(p)' =
            {[of |-> q, shows |-> {<<z, text'[z]>> : z \in S(q)'}, count |-> 0] : q \in Published({p})'}
      BY DEF queryProductDetail, Item
    <2> HIDE DEF S
    <2>5. \A q \in Published({p}) : {<<z, text'[z]>> : z \in S(q)'} = {<<z, text[z]>> : z \in S(q)}
      BY <2>1, <2>2
    <2> QED
      BY <2>1, <2>3, <2>4, <2>5
  <1>5. ASSUME x \notin Manufacturers \cup Categories \cup Documents
        PROVE  queryProductSignals' = queryProductSignals
    <2>1. Published(Products)' = Published(Products) /\ Published(Products) \subseteq Products
      BY <1>1
    <2> DEFINE S(q) == {q} \cup MadeBy(q) \cup InCategory(q)
    <2> DEFINE N(q) == Cardinality(Published(Referring(Documents, q)))
    <2>2. \A q \in Products : {<<z, text'[z]>> : z \in S(q)'} = {<<z, text[z]>> : z \in S(q)}
      BY <1>3, <1>5
    <2>5. \A q \in Products : N(q)' = N(q)
      BY <1>5, ReferringStays, RowsAreRows
    <2>3. queryProductSignals =
            {[of |-> q, shows |-> {<<z, text[z]>> : z \in S(q)}, count |-> N(q)] : q \in Published(Products)}
      BY DEF queryProductSignals, Item
    <2>4. queryProductSignals' =
            {[of |-> q, shows |-> {<<z, text'[z]>> : z \in S(q)'}, count |-> N(q)'] : q \in Published(Products)'}
      BY DEF queryProductSignals, Item
    <2> HIDE DEF S, N
    <2> QED
      BY <2>1, <2>2, <2>3, <2>4, <2>5
  <1>6. ASSUME x \notin Documents, NEW p \in Products
        PROVE  queryDocumentsByProduct(p)' = queryDocumentsByProduct(p)
    <2>1. Published(Referring(Documents, p))' = Published(Referring(Documents, p))
      BY <1>6, ReferringStays, RowsAreRows
    <2>2. \A y \in Published(Referring(Documents, p)) : text'[y] = text[y]
      BY <1>6, RowsAreRows DEF RestStays, Published, Referring
    <2> QED
      BY <2>1, <2>2, PlainStays DEF queryDocumentsByProduct, Plain, Item
  <1> QED
    BY <1>2, <1>4, <1>5, <1>6

LEMMA CategoryReadsStay ==
  ASSUME NEW x, RestStays(x), RowsOK, x \notin Categories
  PROVE  /\ queryTopLevelCategories' = queryTopLevelCategories
         /\ x \notin Products => queryCategoryTree' = queryCategoryTree
         /\ x \notin Products => \A c \in Categories : queryCategoryBySlug(c)' = queryCategoryBySlug(c)
         /\ x \notin Products => \A i : queryCategoriesByIndustry(i)' = queryCategoriesByIndustry(i)
  <1>1. \A c \in Categories : /\ text'[c] = text[c] /\ (Exists(c)' <=> Exists(c))
                              /\ links'[c] = links[c] /\ links[c] \subseteq Categories
    <2>1. \A c \in Categories : links[c] \subseteq Categories
      BY RowsAreRows, SchemaIs DEF RowsOK, Fits
    <2> QED
      BY <2>1, RowsStay, RowsAreRows, TablesHoldLinks
  <1>2. queryTopLevelCategories' = queryTopLevelCategories
    <2> DEFINE X == {c \in Categories : Exists(c) /\ links[c] = {}}
    <2>1. X' = X /\ \A c \in X : text'[c] = text[c]
      BY <1>1
    <2>2. /\ queryTopLevelCategories = {[of |-> y, shows |-> {<<z, text[z]>> : z \in {y}}, count |-> 0] : y \in X}
          /\ queryTopLevelCategories' = {[of |-> y, shows |-> {<<z, text'[z]>> : z \in {y}}, count |-> 0] : y \in X'}
      BY DEF queryTopLevelCategories, Plain, Item
    <2> HIDE DEF X
    <2> QED
      BY <2>1, <2>2, PlainStays
  <1>3. ASSUME x \notin Products, NEW z
        PROVE  /\ Referring(Products, z)' = Referring(Products, z)
               /\ Published(Referring(Products, z))' = Published(Referring(Products, z))
    BY <1>3, ReferringStays, RowsAreRows, TablesHoldLinks
  <1>4. ASSUME x \notin Products, NEW c
        PROVE  PublishedCount(c)' = PublishedCount(c)
    BY <1>3, <1>4 DEF PublishedCount
  <1>5. ASSUME x \notin Products PROVE queryCategoryTree' = queryCategoryTree
    <2> DEFINE X == {d \in Categories : Exists(d)}
    <2> DEFINE S(c) == {c} \cup links[c]
    <2>1. X' = X /\ X \subseteq Categories
      BY <1>1
    <2>2. ASSUME NEW c \in X PROVE {<<z, text'[z]>> : z \in S(c)'} = {<<z, text[z]>> : z \in S(c)}
      <3>1. S(c)' = S(c) /\ \A z \in S(c) : text'[z] = text[z]
        BY <1>1
      <3> HIDE DEF S
      <3> QED BY <3>1
    <2>3. \A c \in X : PublishedCount(c)' = PublishedCount(c)
      BY <1>4, <1>5
    <2>4. /\ queryCategoryTree =
               {[of |-> c, shows |-> {<<z, text[z]>> : z \in S(c)}, count |-> PublishedCount(c)] : c \in X}
          /\ queryCategoryTree' =
               {[of |-> c, shows |-> {<<z, text'[z]>> : z \in S(c)'}, count |-> PublishedCount(c)'] : c \in X'}
      BY DEF queryCategoryTree, Item
    <2> HIDE DEF X, S
    <2> QED
      BY <2>1, <2>2, <2>3, <2>4
  <1>6. ASSUME x \notin Products, NEW c \in Categories
        PROVE  queryCategoryBySlug(c)' = queryCategoryBySlug(c)
    <2>1. ASSUME NEW d \in Categories PROVE Counted(d)' = Counted(d)
      <3>1. {<<z, text'[z]>> : z \in {d}} = {<<z, text[z]>> : z \in {d}}
        BY <1>1
      <3> QED
        BY <1>4, <1>6, <3>1 DEF Counted, Item
    <2>2. Referring(Categories, c)' = Referring(Categories, c) /\ Referring(Categories, c) \subseteq Categories
      <3>1. Referring(Categories, c)' = Referring(Categories, c)
        BY ReferringStays, RowsAreRows, TablesHoldLinks
      <3>2. Referring(Categories, c) \subseteq Categories
        BY DEF Referring
      <3> QED BY <3>1, <3>2
    <2>3. Plain(links[c])' = Plain(links[c])
      <3>1. links'[c] = links[c] /\ \A d \in links[c] : text'[d] = text[d]
        BY <1>1
      <3> QED
        BY <3>1, PlainStays DEF Plain, Item
    <2>4. {Counted(d) : d \in Referring(Categories, c)}' = {Counted(d) : d \in Referring(Categories, c)}
      BY <2>1, <2>2
    <2>5. Exists(c)' <=> Exists(c)
      BY <1>1
    <2>6. queryCategoryBySlug(c) =
            (IF Exists(c) THEN {Counted(c)} \cup Plain(links[c]) \cup {Counted(d) : d \in Referring(Categories, c)}
             ELSE {})
      BY DEF queryCategoryBySlug
    <2>7. queryCategoryBySlug(c)' =
            (IF Exists(c)' THEN {Counted(c)'} \cup Plain(links[c])'
                                  \cup {Counted(d) : d \in Referring(Categories, c)}'
             ELSE {})
      BY DEF queryCategoryBySlug
    <2>8. Counted(c)' = Counted(c)
      BY <2>1
    <2> QED
      BY <2>3, <2>4, <2>5, <2>6, <2>7, <2>8
  <1>7. ASSUME x \notin Products, NEW i
        PROVE  queryCategoriesByIndustry(i)' = queryCategoriesByIndustry(i)
    <2> DEFINE X == {c \in Categories : Published(Referring(Products, c)) \cap Referring(Products, i) # {}}
    <2>1. X' = X /\ \A c \in X : text'[c] = text[c]
      BY <1>1, <1>3, <1>7
    <2>2. /\ queryCategoriesByIndustry(i) = {[of |-> y, shows |-> {<<z, text[z]>> : z \in {y}}, count |-> 0] : y \in X}
          /\ queryCategoriesByIndustry(i)' = {[of |-> y, shows |-> {<<z, text'[z]>> : z \in {y}}, count |-> 0] : y \in X'}
      BY DEF queryCategoriesByIndustry, Plain, Item
    <2> HIDE DEF X
    <2> QED
      BY <2>1, <2>2, PlainStays
  <1> QED
    BY <1>2, <1>5, <1>6, <1>7

LEMMA ProjectReadsStay ==
  ASSUME NEW x, RestStays(x), RowsOK, x \notin Projects
  PROVE  /\ x \notin Industries =>
              queryPublishedProjects(Projects)' = queryPublishedProjects(Projects)
         /\ \A i \in Industries : x # i =>
              queryPublishedProjects(Referring(Projects, i))' = queryPublishedProjects(Referring(Projects, i))
         /\ x \notin Industries \cup Products \cup Manufacturers \cup Datasheets =>
              \A j \in Projects : queryProjectBySlug(j)' = queryProjectBySlug(j)
  <1>1. \A j \in Projects : text'[j] = text[j] /\ links'[j] = links[j]
    BY RowsStay, RowsAreRows, TablesHoldLinks
  <1>2. ASSUME NEW j \in Projects, x \notin links[j] \cap Industries
        PROVE  toProjectListItem(j)' = toProjectListItem(j)
    <2> DEFINE S == {j} \cup (links[j] \cap Industries)
    <2>1. S' = S /\ \A z \in S : text'[z] = text[z]
      <3>1. \A z \in links[j] \cap Industries : text'[z] = text[z]
        BY <1>2, RowsAreRows DEF RestStays
      <3> QED BY <1>1, <3>1
    <2>2. /\ toProjectListItem(j) = [of |-> j, shows |-> {<<z, text[z]>> : z \in S}, count |-> 0]
          /\ toProjectListItem(j)' = [of |-> j, shows |-> {<<z, text'[z]>> : z \in S'}, count |-> 0]
      BY DEF toProjectListItem, Item
    <2> HIDE DEF S
    <2> QED
      BY <2>1, <2>2
  <1>3. ASSUME x \notin Industries
        PROVE  queryPublishedProjects(Projects)' = queryPublishedProjects(Projects)
    <2>1. Published(Projects)' = Published(Projects) /\ Published(Projects) \subseteq Projects
      BY RowsStay, RowsAreRows DEF Published
    <2>2. \A j \in Projects : toProjectListItem(j)' = toProjectListItem(j)
      BY <1>2, <1>3
    <2> QED
      BY <2>1, <2>2 DEF queryPublishedProjects
  <1>4. ASSUME NEW i \in Industries, x # i
        PROVE  queryPublishedProjects(Referring(Projects, i))' = queryPublishedProjects(Referring(Projects, i))
    <2> DEFINE X == Published(Referring(Projects, i))
    <2>1. X' = X
      BY <1>4, ReferringStays, RowsAreRows
    <2>2. \A j \in X : j \in Projects /\ i \in links[j]
      BY DEF Published, Referring
    <2>3. ASSUME NEW j \in X PROVE x \notin links[j] \cap Industries
      <3>1. j \in Projects /\ j \in Rows /\ i \in links[j]
        BY <2>2, RowsAreRows
      <3>2. \A k, n \in links[j] \cap Industries : k = n
        BY <3>1 DEF RowsOK, Fits
      <3> QED BY <1>4, <3>1, <3>2
    <2>4. \A j \in X : toProjectListItem(j)' = toProjectListItem(j)
      BY <1>2, <2>2, <2>3
    <2>5. /\ queryPublishedProjects(Referring(Projects, i)) = {toProjectListItem(j) : j \in X}
          /\ queryPublishedProjects(Referring(Projects, i))' = {toProjectListItem(j)' : j \in X'}
      BY DEF queryPublishedProjects
    <2> HIDE DEF X
    <2> QED
      BY <2>1, <2>4, <2>5
  <1>5. ASSUME x \notin Industries \cup Products \cup Manufacturers \cup Datasheets, NEW j \in Projects
        PROVE  queryProjectBySlug(j)' = queryProjectBySlug(j)
    <2> DEFINE X == links[j] \cap Products
    <2> DEFINE Y == Published(X)
    <2>1. Published(Projects)' = Published(Projects)
      BY RowsStay, RowsAreRows
    <2>2. toProjectListItem(j)' = toProjectListItem(j)
      BY <1>2, <1>5
    <2>3. Y' = Y /\ Y \subseteq Products
      <3>1. X' = X
        BY <1>1
      <3>2. \A y \in X : (Exists(y)' <=> Exists(y)) /\ (y \in public' <=> y \in public)
        BY <1>5, RowsAreRows DEF RestStays, Exists
      <3>3. Y = {y \in X : Exists(y) /\ y \in public} /\ Y' = {y \in X' : Exists(y)' /\ y \in public'}
        BY DEF Published
      <3>4. X \subseteq Products
        OBVIOUS
      <3> HIDE DEF X, Y
      <3> QED BY <3>1, <3>2, <3>3, <3>4
    <2>4. \A q \in Products : Card(q)' = Card(q)
      BY <1>5, CardsStay
    <2>5. queryProjectBySlug(j) =
            (IF j \in Published(Projects) THEN {toProjectListItem(j)} \cup {Card(q) : q \in Y} ELSE {})
      BY DEF queryProjectBySlug, Cards
    <2>6. queryProjectBySlug(j)' =
            (IF j \in Published(Projects)' THEN {toProjectListItem(j)'} \cup {Card(q)' : q \in Y'} ELSE {})
      BY DEF queryProjectBySlug, Cards
    <2> HIDE DEF Y
    <2>7. {Card(q)' : q \in Y'} = {Card(q) : q \in Y}
      BY <2>3, <2>4
    <2> QED
      BY <2>1, <2>2, <2>5, <2>6, <2>7
  <1> QED
    BY <1>3, <1>4, <1>5

LEMMA GuideReadsStay ==
  ASSUME NEW x, RestStays(x), RowsOK, RowsOK', x \notin Guides
  PROVE  /\ queryPublishedGuides' = queryPublishedGuides
         /\ x \notin Products \cup Categories =>
              \A g \in Guides : queryGuideBySlug(g)' = queryGuideBySlug(g)
  <1>1. /\ Published(Guides)' = Published(Guides) /\ Published(Guides) \subseteq Guides
        /\ \A g \in Guides : text'[g] = text[g]
    BY RowsStay, RowsAreRows DEF Published
  <1>2. queryPublishedGuides' = queryPublishedGuides
    BY <1>1, PlainStays DEF queryPublishedGuides, Plain, Item
  <1>3. ASSUME x \notin Products \cup Categories, NEW g \in Guides
        PROVE  queryGuideBySlug(g)' = queryGuideBySlug(g)
    <2> DEFINE S == {g} \cup links[g]
    <2>1. links[g] \subseteq Products \cup Categories /\ links[g] \subseteq Rows
      BY RowsAreRows, SchemaIs DEF RowsOK, Fits
    <2>2. links'[g] \ {x} = links[g] \ {x}
      BY RowsAreRows DEF RestStays
    <2>3. x \notin links'[g]
      <3>1. Fits(g, links'[g])
        BY RowsAreRows DEF RowsOK
      <3> QED
        BY <1>3, <3>1, SchemaIs DEF Fits
    <2>4. S' = S /\ \A z \in S : text'[z] = text[z]
      BY <1>1, <1>3, <2>1, <2>2, <2>3 DEF RestStays
    <2>5. /\ queryGuideBySlug(g) =
               (IF g \in Published(Guides)
                THEN {[of |-> g, shows |-> {<<z, text[z]>> : z \in S}, count |-> 0]} ELSE {})
          /\ queryGuideBySlug(g)' =
               (IF g \in Published(Guides)'
                THEN {[of |-> g, shows |-> {<<z, text'[z]>> : z \in S'}, count |-> 0]} ELSE {})
      BY DEF queryGuideBySlug, Item
    <2> HIDE DEF S
    <2>6. {<<z, text'[z]>> : z \in S'} = {<<z, text[z]>> : z \in S}
      BY <2>4
    <2> QED
      BY <1>1, <2>5, <2>6
  <1> QED
    BY <1>2, <1>3

LEMMA PlainReadsStay ==
  ASSUME NEW x, RestStays(x), RowsOK
  PROVE  /\ x \notin Industries => queryIndustries' = queryIndustries
         /\ x \notin Industries => \A i \in Industries : queryIndustryBySlug(i)' = queryIndustryBySlug(i)
         /\ x \notin Documents => \A d \in Documents : queryDocumentBySlug(d)' = queryDocumentBySlug(d)
         /\ x \notin Documents =>
              \A i : x # i => queryCertificatesByIndustry(i)' = queryCertificatesByIndustry(i)
         /\ x \notin Services => queryServices' = queryServices
         /\ x \notin Services => \A i : x # i => queryServicesByIndustry(i)' = queryServicesByIndustry(i)
         /\ x \notin Manufacturers => queryManufacturers' = queryManufacturers
         /\ x \notin Series \cup Products => querySeriesOptions' = querySeriesOptions
         /\ x \notin Manufacturers \cup Products => queryManufacturerOptions' = queryManufacturerOptions
         /\ \A y \in {Home, Settings, Sla} : x # y => querySingleton(y)' = querySingleton(y)
  <1> DEFINE P(X) == {[of |-> y, shows |-> {<<z, text[z]>> : z \in {y}}, count |-> 0] : y \in X}
  <1> DEFINE Q(X) == {[of |-> y, shows |-> {<<z, text'[z]>> : z \in {y}}, count |-> 0] : y \in X}
  <1>1. ASSUME NEW X \in SUBSET (Rows \ {x}) PROVE Q(X) = P(X)
    <2>1. \A y \in X : text'[y] = text[y]
      BY <1>1 DEF RestStays
    <2> QED BY <2>1, PlainStays
  <1>2. ASSUME NEW X \in SUBSET Rows, x \notin X
        PROVE  /\ {y \in X : Exists(y)'} = {y \in X : Exists(y)} /\ {y \in X : Exists(y)} \in SUBSET (Rows \ {x})
    BY <1>2, RowsStay
  <1>3. ASSUME x \notin Industries PROVE queryIndustries' = queryIndustries
    <2>1. queryIndustries' = Q({y \in Industries : Exists(y)'}) /\ queryIndustries = P({y \in Industries : Exists(y)})
      BY DEF queryIndustries, Plain, Item
    <2> HIDE DEF P, Q
    <2> QED BY <1>1, <1>2, <1>3, <2>1, RowsAreRows
  <1>4. ASSUME x \notin Services PROVE queryServices' = queryServices
    <2>1. queryServices' = Q({y \in Services : Exists(y)'}) /\ queryServices = P({y \in Services : Exists(y)})
      BY DEF queryServices, Plain, Item
    <2> HIDE DEF P, Q
    <2> QED BY <1>1, <1>2, <1>4, <2>1, RowsAreRows
  <1>5. ASSUME x \notin Manufacturers PROVE queryManufacturers' = queryManufacturers
    <2>1. /\ queryManufacturers' = Q({y \in Manufacturers : Exists(y)'})
          /\ queryManufacturers = P({y \in Manufacturers : Exists(y)})
      BY DEF queryManufacturers, Plain, Item
    <2> HIDE DEF P, Q
    <2> QED BY <1>1, <1>2, <1>5, <2>1, RowsAreRows
  <1>6. ASSUME NEW y \in Rows, x # y PROVE Q({z \in {y} : Exists(z)'}) = P({z \in {y} : Exists(z)})
    <2> HIDE DEF P, Q
    <2>1. {y} \in SUBSET Rows /\ x \notin {y}
      BY <1>6
    <2> QED BY <1>1, <1>2, <2>1
  <1>7. ASSUME x \notin Industries, NEW i \in Industries PROVE queryIndustryBySlug(i)' = queryIndustryBySlug(i)
    <2>1. /\ queryIndustryBySlug(i)' = Q({z \in {i} : Exists(z)'})
          /\ queryIndustryBySlug(i) = P({z \in {i} : Exists(z)})
      BY DEF queryIndustryBySlug, Plain, Item
    <2> HIDE DEF P, Q
    <2> QED BY <1>6, <1>7, <2>1, RowsAreRows
  <1>8. ASSUME NEW y \in {Home, Settings, Sla}, x # y PROVE querySingleton(y)' = querySingleton(y)
    <2>1. /\ querySingleton(y)' = Q({z \in {y} : Exists(z)'})
          /\ querySingleton(y) = P({z \in {y} : Exists(z)})
      BY DEF querySingleton, Plain, Item
    <2> HIDE DEF P, Q
    <2> QED BY <1>6, <1>8, <2>1, RowsAreRows
  <1>9. ASSUME x \notin Documents, NEW d \in Documents PROVE queryDocumentBySlug(d)' = queryDocumentBySlug(d)
    <2>1. queryDocumentBySlug(d)' = Q(Published({d})') /\ queryDocumentBySlug(d) = P(Published({d}))
      BY DEF queryDocumentBySlug, Plain, Item
    <2>2. {d} \in SUBSET Rows /\ x \notin {d}
      BY <1>9, RowsAreRows
    <2>3. Published({d})' = Published({d})
      BY <2>2, RowsStay
    <2>4. Published({d}) \in SUBSET (Rows \ {x})
      BY <2>2 DEF Published
    <2> HIDE DEF P, Q
    <2> QED BY <1>1, <2>1, <2>3, <2>4
  <1>10. ASSUME x \notin Documents, NEW i, x # i
         PROVE  queryCertificatesByIndustry(i)' = queryCertificatesByIndustry(i)
    <2>1. /\ queryCertificatesByIndustry(i)' = Q(Published(Referring(Certificates, i))')
          /\ queryCertificatesByIndustry(i) = P(Published(Referring(Certificates, i)))
      BY DEF queryCertificatesByIndustry, Plain, Item
    <2>2. Certificates \in SUBSET Rows /\ x \notin Certificates
      BY <1>10, RowsAreRows DEF Documents
    <2>3. Published(Referring(Certificates, i))' = Published(Referring(Certificates, i))
      BY <1>10, <2>2, ReferringStays
    <2>4. Published(Referring(Certificates, i)) \in SUBSET (Rows \ {x})
      BY <2>2 DEF Published, Referring
    <2> HIDE DEF P, Q
    <2> QED BY <1>1, <2>1, <2>3, <2>4
  <1>11. ASSUME x \notin Services, NEW i, x # i
         PROVE  queryServicesByIndustry(i)' = queryServicesByIndustry(i)
    <2>1. /\ queryServicesByIndustry(i)' = Q(Referring(Services, i)')
          /\ queryServicesByIndustry(i) = P(Referring(Services, i))
      BY DEF queryServicesByIndustry, Plain, Item
    <2>2. Services \in SUBSET Rows /\ x \notin Services
      BY <1>11, RowsAreRows
    <2>3. Referring(Services, i)' = Referring(Services, i)
      BY <1>11, <2>2, ReferringStays
    <2>4. Referring(Services, i) \in SUBSET (Rows \ {x})
      BY <2>2 DEF Referring
    <2> HIDE DEF P, Q
    <2> QED BY <1>1, <2>1, <2>3, <2>4
  <1>12. ASSUME x \notin Products, NEW z
         PROVE  Published(Referring(Products, z))' = Published(Referring(Products, z))
    BY <1>12, ReferringStays, RowsAreRows, TablesHoldLinks
  <1>13. ASSUME x \notin Series \cup Products PROVE querySeriesOptions' = querySeriesOptions
    <2> DEFINE X == {s \in Series : Published(Referring(Products, s)) # {}}
    <2>1. querySeriesOptions' = Q(X') /\ querySeriesOptions = P(X)
      BY DEF querySeriesOptions, Plain, Item
    <2>2. X' = X /\ X \in SUBSET (Rows \ {x})
      BY <1>12, <1>13, RowsAreRows
    <2> HIDE DEF P, Q, X
    <2> QED BY <1>1, <2>1, <2>2
  <1>14. ASSUME x \notin Manufacturers \cup Products PROVE queryManufacturerOptions' = queryManufacturerOptions
    <2> DEFINE X == {m \in Manufacturers : Published(Referring(Products, m)) # {}}
    <2>1. queryManufacturerOptions' = Q(X') /\ queryManufacturerOptions = P(X)
      BY DEF queryManufacturerOptions, Plain, Item
    <2>2. X' = X /\ X \in SUBSET (Rows \ {x})
      BY <1>12, <1>14, RowsAreRows
    <2> HIDE DEF P, Q, X
    <2> QED BY <1>1, <2>1, <2>2
  <1> QED
    BY <1>3, <1>4, <1>5, <1>7, <1>8, <1>9, <1>10, <1>11, <1>13, <1>14

(* What a read answers depends on the rows it looks at alone.              *)
LEMMA QueryStays ==
  ASSUME RowsOK, RowsOK', read \in Reads, read' = read, NEW x, RestStays(x), x \notin Footprint
  PROVE  Query' = Query
  <1>1. CASE read.kind \in {"products-all", "products-by-category", "related-products", "accessories",
                            "products-by-industry"}
    <2>1. x \notin Products \cup Manufacturers \cup Datasheets
      BY <1>1 DEF Footprint
    <2> QED
      BY <1>1, <2>1, CardListsStay, ReadsAre DEF Query
  <1>2. CASE read.kind \in {"product-id", "product", "product-signals", "documents-by-product"}
    <2>1. /\ x \notin Products
          /\ read.kind = "product" => x \notin Manufacturers \cup Categories
          /\ read.kind = "product-signals" => x \notin Manufacturers \cup Categories \cup Documents
          /\ read.kind = "documents-by-product" => x \notin Documents
      BY <1>2 DEF Footprint
    <2> QED
      BY <1>2, <2>1, ProductReadsStay, ReadsAre DEF Query
  <1>3. CASE read.kind \in {"categories", "category-tree", "category", "categories-by-industry"}
    <2>1. /\ x \notin Categories
          /\ read.kind # "categories" => x \notin Products
      BY <1>3 DEF Footprint
    <2> QED
      BY <1>3, <2>1, CategoryReadsStay, ReadsAre DEF Query
  <1>4. CASE read.kind \in {"projects", "projects-by-industry", "project"}
    <2>1. /\ x \notin Projects
          /\ read.kind = "projects" => x \notin Industries
          /\ read.kind = "projects-by-industry" => x # read.of
          /\ read.kind = "project" => x \notin Industries \cup Products \cup Manufacturers \cup Datasheets
      BY <1>4 DEF Footprint
    <2> QED
      BY <1>4, <2>1, ProjectReadsStay, ReadsAre DEF Query
  <1>5. CASE read.kind \in {"guides-index", "guide"}
    <2>1. /\ x \notin Guides
          /\ read.kind = "guide" => x \notin Products \cup Categories
      BY <1>5 DEF Footprint
    <2> QED
      BY <1>5, <2>1, GuideReadsStay, ReadsAre DEF Query
  <1>6. CASE read.kind \in {"industries", "industry", "document", "certificates-by-industry",
                            "services-all", "services-by-industry", "manufacturers",
                            "series-options", "manufacturer-options"}
    <2>1. /\ read.kind \in {"industries", "industry"} => x \notin Industries
          /\ read.kind = "document" => x \notin Documents
          /\ read.kind = "certificates-by-industry" => x \notin Documents /\ x # read.of
          /\ read.kind = "services-all" => x \notin Services
          /\ read.kind = "services-by-industry" => x \notin Services /\ x # read.of
          /\ read.kind = "manufacturers" => x \notin Manufacturers
          /\ read.kind = "series-options" => x \notin Series \cup Products
          /\ read.kind = "manufacturer-options" => x \notin Manufacturers \cup Products
      BY <1>6 DEF Footprint
    <2> QED
      BY <1>6, <2>1, PlainReadsStay, ReadsAre DEF Query
  <1>7. CASE read.kind \in {"home-content", "site-phone", "contact-details", "sla-process"}
    <2>1. x # read.of /\ read.of \in {Home, Settings, Sla}
      BY <1>7, ReadsAre DEF Footprint
    <2>2. Query = querySingleton(read.of) /\ Query' = querySingleton(read.of)'
      BY <1>7 DEF Query
    <2> QED
      BY <2>1, <2>2, PlainReadsStay
  <1> QED
    BY <1>1, <1>2, <1>3, <1>4, <1>5, <1>6, <1>7, ReadsAre

-----------------------------------------------------------------------------
(* What a read answers: well typed, of rows that exist, and but for a      *)
(* guide nothing of a row that is not public.                              *)
Items == [of : Rows, shows : SUBSET (Rows \X Texts), count : 0 .. Cardinality(Rows)]
ShowsPublic(item) == \A cell \in item.shows : cell[1] \in Publishable => cell[1] \in public
Proper(item) == item \in Items /\ ShowsPublic(item)

LEMMA CountsFit ==
  ASSUME NEW X \in SUBSET Rows
  PROVE  Cardinality(X) \in 0 .. Cardinality(Rows)
  <1>1. IsFiniteSet(Rows)
    BY LivePublishAssumption
  <1>2. IsFiniteSet(X) /\ Cardinality(X) <= Cardinality(Rows)
    BY <1>1, FS_Subset
  <1>3. Cardinality(X) \in Nat /\ Cardinality(Rows) \in Nat
    BY <1>1, <1>2, FS_CardinalityType
  <1> QED BY <1>2, <1>3

LEMMA ItemIs ==
  ASSUME NEW y \in Rows, NEW S \in SUBSET Rows, \A z \in S : Exists(z),
         NEW n \in 0 .. Cardinality(Rows)
  PROVE  /\ Item(y, S, n) \in Items
         /\ (\A z \in S : z \in Publishable => z \in public) => Proper(Item(y, S, n))
  <1> DEFINE cell == {<<z, text[z]>> : z \in S}
  <1>1. cell \subseteq Rows \X Texts
    BY DEF Exists
  <1>2. Item(y, S, n) = [of |-> y, shows |-> cell, count |-> n]
    BY DEF Item
  <1>3. \A s \in cell : s[1] \in S
    OBVIOUS
  <1> HIDE DEF cell
  <1>4. Item(y, S, n) \in Items /\ Item(y, S, n).shows = cell
    BY <1>1, <1>2 DEF Items
  <1>5. ASSUME \A z \in S : z \in Publishable => z \in public PROVE ShowsPublic(Item(y, S, n))
    BY <1>3, <1>4, <1>5 DEF ShowsPublic
  <1> QED BY <1>4, <1>5 DEF Proper

LEMMA ZeroFits == 0 \in 0 .. Cardinality(Rows)
  <1>1. {} \in SUBSET Rows /\ Cardinality({}) = 0
    BY FS_EmptySet
  <1> QED BY <1>1, CountsFit

(* The tables that have no status.                                         *)
LEMMA NotPublishable ==
  ASSUME NEW z \in Manufacturers \cup Categories \cup Series \cup Industries \cup Services
                     \cup {Home, Settings, Sla}
  PROVE  z \notin Publishable
  BY TablesApart DEF Publishable, Documents

(* What is found in Postgres of some rows.                                 *)
LEMMA FoundRows ==
  ASSUME RowsOK, NEW X \in SUBSET Rows
  PROVE  /\ \A y \in Published(X) : y \in X /\ Exists(y) /\ y \in public
         /\ \A z, y : y \in Referring(X, z) => y \in X /\ Exists(y)
         /\ \A z, y : y \in Published(Referring(X, z)) => y \in X /\ Exists(y) /\ y \in public
         /\ \A y \in X : \A z : z \in links[y] => z \in Rows /\ Exists(z)
  BY DEF RowsOK, Published, Referring

LEMMA PlainIs ==
  ASSUME NEW X \in SUBSET Rows, \A y \in X : Exists(y) /\ (y \in Publishable => y \in public)
  PROVE  \A item \in Plain(X) : Proper(item)
  <1> SUFFICES ASSUME NEW y \in X PROVE Proper(Item(y, {y}, 0))
    BY DEF Plain
  <1> QED BY ItemIs, ZeroFits

LEMMA CardIs ==
  ASSUME RowsOK, NEW p \in Published(Products)
  PROVE  Proper(Card(p))
  <1> DEFINE S == {p} \cup MadeBy(p) \cup Published(Referring(Datasheets, p))
  <1>1. p \in Products /\ p \in Rows /\ Exists(p) /\ p \in public
    BY FoundRows, RowsAreRows
  <1>2. \A z \in MadeBy(p) : z \in Rows /\ Exists(z) /\ z \notin Publishable
    BY <1>1, NotPublishable, FoundRows DEF MadeBy
  <1>3. \A z \in Published(Referring(Datasheets, p)) : z \in Rows /\ Exists(z) /\ z \in public
    BY FoundRows, RowsAreRows
  <1>4. S \in SUBSET Rows /\ (\A z \in S : Exists(z) /\ (z \in Publishable => z \in public))
    BY <1>1, <1>2, <1>3
  <1>5. Card(p) = Item(p, S, 0)
    BY DEF Card
  <1> HIDE DEF S
  <1> QED
    BY <1>1, <1>4, <1>5, ItemIs, ZeroFits

LEMMA CardsAre ==
  ASSUME RowsOK, NEW X \in SUBSET Published(Products)
  PROVE  \A item \in Cards(X) : Proper(item)
  BY CardIs DEF Cards

LEMMA ProductAnswers ==
  ASSUME RowsOK
  PROVE  /\ \A p \in Products : \A item \in queryProductId(p) \cup queryProductDetail(p) : Proper(item)
         /\ \A item \in queryProductSignals \cup queryPublishedProducts : Proper(item)
         /\ \A z, item : item \in queryProductsByIndustry(z) \/ item \in queryProductsByCategory(z)
                           \/ item \in queryRelatedProducts(z) \/ item \in queryAccessoriesForProduct(z)
                           \/ item \in queryDocumentsByProduct(z) => Proper(item)
  <1>1. ASSUME NEW p \in Products, NEW item \in queryProductId(p) PROVE Proper(item)
    <2>1. PICK q \in Published({p}) : item = Item(q, {}, 0)
      BY DEF queryProductId
    <2>2. q \in Rows
      BY RowsAreRows DEF Published
    <2> QED
      BY <2>1, <2>2, ItemIs, ZeroFits
  <1>2. ASSUME NEW q \in Published(Products), NEW n \in 0 .. Cardinality(Rows)
        PROVE  Proper(Item(q, {q} \cup MadeBy(q) \cup InCategory(q), n))
    <2> DEFINE S == {q} \cup MadeBy(q) \cup InCategory(q)
    <2>1. q \in Rows /\ Exists(q) /\ q \in public
      BY FoundRows, RowsAreRows
    <2>2. \A z \in MadeBy(q) \cup InCategory(q) : z \in Rows /\ Exists(z) /\ z \notin Publishable
      BY <2>1, NotPublishable, FoundRows DEF MadeBy, InCategory
    <2>3. S \in SUBSET Rows /\ (\A z \in S : Exists(z) /\ (z \in Publishable => z \in public))
      BY <2>1, <2>2
    <2> HIDE DEF S
    <2>4. Proper(Item(q, S, n))
      BY <2>1, <2>3, ItemIs
    <2> QED BY <2>4 DEF S
  <1>3. ASSUME NEW p \in Products, NEW item \in queryProductDetail(p) PROVE Proper(item)
    <2>1. PICK q \in Published({p}) : item = Item(q, {q} \cup MadeBy(q) \cup InCategory(q), 0)
      BY DEF queryProductDetail
    <2>2. q \in Published(Products)
      BY DEF Published
    <2> QED
      BY <1>2, <2>1, <2>2, ZeroFits
  <1>4. ASSUME NEW item \in queryProductSignals PROVE Proper(item)
    <2>1. PICK q \in Published(Products) :
            item = Item(q, {q} \cup MadeBy(q) \cup InCategory(q), Cardinality(Published(Referring(Documents, q))))
      BY DEF queryProductSignals
    <2>2. Published(Referring(Documents, q)) \in SUBSET Rows
      BY FoundRows, RowsAreRows
    <2> QED
      BY <1>2, <2>1, <2>2, CountsFit
  <1>5. \A item \in queryPublishedProducts : Proper(item)
    BY CardsAre DEF queryPublishedProducts
  <1>6. ASSUME NEW z, NEW item, item \in queryProductsByIndustry(z) \/ item \in queryProductsByCategory(z)
                           \/ item \in queryRelatedProducts(z) \/ item \in queryAccessoriesForProduct(z)
        PROVE Proper(item)
    <2>1. Published(Referring(Products, z)) \in SUBSET Published(Products)
      BY DEF Published, Referring
    <2>2. \A X \in SUBSET Published(Products) : item \in Cards(X) => Proper(item)
      BY CardsAre
    <2>3. item \in queryRelatedProducts(z) =>
            item \in Cards({q \in Published(Products) \ {z} : InCategory(q) = InCategory(z)})
      BY DEF queryRelatedProducts
    <2>4. {q \in Published(Products) \ {z} : InCategory(q) = InCategory(z)} \in SUBSET Published(Products)
      OBVIOUS
    <2> QED
      BY <1>6, <2>1, <2>2, <2>3, <2>4
         DEF queryProductsByIndustry, queryProductsByCategory, queryAccessoriesForProduct
  <1>7. ASSUME NEW z, NEW item \in queryDocumentsByProduct(z) PROVE Proper(item)
    <2>1. /\ Published(Referring(Documents, z)) \in SUBSET Rows
          /\ \A y \in Published(Referring(Documents, z)) : Exists(y) /\ y \in public
      BY FoundRows, RowsAreRows
    <2> QED
      BY <1>7, <2>1, PlainIs DEF queryDocumentsByProduct
  <1> QED
    BY <1>1, <1>3, <1>4, <1>5, <1>6, <1>7

LEMMA CategoryAnswers ==
  ASSUME RowsOK
  PROVE  /\ \A item \in queryTopLevelCategories \cup queryCategoryTree : Proper(item)
         /\ \A c \in Categories : \A item \in queryCategoryBySlug(c) : Proper(item)
         /\ \A i : \A item \in queryCategoriesByIndustry(i) : Proper(item)
  <1>1. ASSUME NEW c \in Categories, Exists(c)
        PROVE  /\ c \in Rows /\ links[c] \subseteq Categories
               /\ \A d \in {c} \cup links[c] : d \in Rows /\ Exists(d) /\ d \notin Publishable
    <2>1. c \in Rows /\ Schema(c) = Categories
      BY RowsAreRows, SchemaIs
    <2>2. links[c] \subseteq Categories
      BY <2>1 DEF RowsOK, Fits
    <2>3. \A d \in links[c] : d \in Rows /\ Exists(d)
      BY <2>1 DEF RowsOK
    <2>4. \A d \in Categories : d \notin Publishable
      BY NotPublishable
    <2> QED
      BY <1>1, <2>1, <2>2, <2>3, <2>4
  <1>2. ASSUME NEW X \in SUBSET Categories, \A c \in X : Exists(c)
        PROVE  \A item \in Plain(X) : Proper(item)
    <2>1. X \in SUBSET Rows /\ (\A c \in X : c \notin Publishable)
      BY RowsAreRows, NotPublishable
    <2> QED BY <1>2, <2>1, PlainIs
  <1>3. \A item \in queryTopLevelCategories : Proper(item)
    <2>1. {c \in Categories : Exists(c) /\ links[c] = {}} \in SUBSET Categories
      OBVIOUS
    <2> QED BY <1>2, <2>1 DEF queryTopLevelCategories
  <1>4. ASSUME NEW c PROVE PublishedCount(c) \in 0 .. Cardinality(Rows)
    <2>1. Published(Referring(Products, c)) \in SUBSET Rows
      BY FoundRows, RowsAreRows
    <2> QED BY <2>1, CountsFit DEF PublishedCount
  <1>5. ASSUME NEW item \in queryCategoryTree PROVE Proper(item)
    <2>1. PICK c \in {d \in Categories : Exists(d)} : item = Item(c, {c} \cup links[c], PublishedCount(c))
      BY DEF queryCategoryTree
    <2>2. c \in Rows /\ {c} \cup links[c] \in SUBSET Rows /\ PublishedCount(c) \in 0 .. Cardinality(Rows)
      BY <1>1, <1>4
    <2>3. \A d \in {c} \cup links[c] : Exists(d) /\ d \notin Publishable
      BY <1>1
    <2> QED
      BY <2>1, <2>2, <2>3, ItemIs
  <1>6. ASSUME NEW c \in Categories, NEW item \in queryCategoryBySlug(c) PROVE Proper(item)
    <2>1. Exists(c)
      BY <1>6 DEF queryCategoryBySlug
    <2>2. ASSUME NEW d \in Categories, Exists(d) PROVE Proper(Counted(d))
      <3>1. d \in Rows /\ {d} \in SUBSET Rows /\ PublishedCount(d) \in 0 .. Cardinality(Rows)
        BY <1>4, RowsAreRows
      <3>2. d \notin Publishable
        BY NotPublishable
      <3> QED
        BY <2>2, <3>1, <3>2, ItemIs DEF Counted
    <2>3. \A k \in Plain(links[c]) : Proper(k)
      BY <1>1, <1>2, <2>1
    <2>4. \A d \in Referring(Categories, c) : d \in Categories /\ Exists(d)
      BY DEF Referring
    <2>5. item \in {Counted(c)} \cup Plain(links[c]) \cup {Counted(d) : d \in Referring(Categories, c)}
      BY <1>6, <2>1 DEF queryCategoryBySlug
    <2> QED
      BY <2>1, <2>2, <2>3, <2>4, <2>5
  <1>7. ASSUME NEW i, NEW item \in queryCategoriesByIndustry(i) PROVE Proper(item)
    <2> DEFINE X == {c \in Categories : Published(Referring(Products, c)) \cap Referring(Products, i) # {}}
    <2>1. X \in SUBSET Categories /\ item \in Plain(X)
      BY <1>7 DEF queryCategoriesByIndustry
    <2>2. ASSUME NEW c \in X PROVE Exists(c)
      <3>1. PICK p \in Referring(Products, c) : TRUE
        BY DEF Published
      <3>2. p \in Products /\ c \in links[p]
        BY DEF Referring
      <3> QED
        BY <3>2, FoundRows, RowsAreRows
    <2> HIDE DEF X
    <2> QED BY <1>2, <2>1, <2>2
  <1> QED
    BY <1>3, <1>5, <1>6, <1>7

LEMMA ProjectAnswers ==
  ASSUME RowsOK
  PROVE  /\ \A X \in SUBSET Projects : \A item \in queryPublishedProjects(X) : Proper(item)
         /\ \A j : \A item \in queryProjectBySlug(j) : Proper(item)
  <1>1. ASSUME NEW j \in Published(Projects) PROVE Proper(toProjectListItem(j))
    <2> DEFINE S == {j} \cup (links[j] \cap Industries)
    <2>1. j \in Rows /\ Exists(j) /\ j \in public
      BY FoundRows, RowsAreRows
    <2>2. \A z \in links[j] \cap Industries : z \in Rows /\ Exists(z) /\ z \notin Publishable
      BY <2>1, NotPublishable, FoundRows
    <2>3. S \in SUBSET Rows /\ (\A z \in S : Exists(z) /\ (z \in Publishable => z \in public))
      BY <2>1, <2>2
    <2>4. toProjectListItem(j) = Item(j, S, 0)
      BY DEF toProjectListItem
    <2> HIDE DEF S
    <2> QED
      BY <2>1, <2>3, <2>4, ItemIs, ZeroFits
  <1>2. ASSUME NEW X \in SUBSET Projects, NEW item \in queryPublishedProjects(X) PROVE Proper(item)
    <2>1. PICK j \in Published(X) : item = toProjectListItem(j)
      BY DEF queryPublishedProjects
    <2>2. j \in Published(Projects)
      BY DEF Published
    <2> QED BY <1>1, <2>1, <2>2
  <1>3. ASSUME NEW j, NEW item \in queryProjectBySlug(j) PROVE Proper(item)
    <2>1. /\ j \in Published(Projects)
          /\ item \in {toProjectListItem(j)} \cup Cards(Published(links[j] \cap Products))
      BY <1>3 DEF queryProjectBySlug
    <2>2. Published(links[j] \cap Products) \in SUBSET Published(Products)
      BY DEF Published
    <2> QED
      BY <1>1, <2>1, <2>2, CardsAre
  <1> QED BY <1>2, <1>3

LEMMA GuideAnswers ==
  ASSUME RowsOK
  PROVE  /\ \A item \in queryPublishedGuides : Proper(item)
         /\ \A g : \A item \in queryGuideBySlug(g) : item \in Items
  <1>1. \A item \in queryPublishedGuides : Proper(item)
    <2>1. Published(Guides) \in SUBSET Rows
      BY FoundRows, RowsAreRows
    <2>2. \A g \in Published(Guides) : Exists(g) /\ g \in public
      BY FoundRows, RowsAreRows
    <2> QED BY <2>1, <2>2, PlainIs DEF queryPublishedGuides
  <1>2. ASSUME NEW g, NEW item \in queryGuideBySlug(g) PROVE item \in Items
    <2>1. g \in Published(Guides) /\ item = Item(g, {g} \cup links[g], 0)
      BY <1>2 DEF queryGuideBySlug
    <2>2. g \in Rows /\ Exists(g)
      BY <2>1, FoundRows, RowsAreRows
    <2>3. {g} \cup links[g] \in SUBSET Rows /\ \A z \in {g} \cup links[g] : Exists(z)
      BY <2>2, FoundRows
    <2> QED
      BY <2>1, <2>2, <2>3, ItemIs, ZeroFits
  <1> QED BY <1>1, <1>2

LEMMA PlainAnswers ==
  ASSUME RowsOK
  PROVE  /\ \A item \in queryIndustries \cup queryServices \cup queryManufacturers : Proper(item)
         /\ \A item \in querySeriesOptions \cup queryManufacturerOptions : Proper(item)
         /\ \A i \in Industries : \A item \in queryIndustryBySlug(i) : Proper(item)
         /\ \A d \in Documents : \A item \in queryDocumentBySlug(d) : Proper(item)
         /\ \A i, item : item \in queryCertificatesByIndustry(i) \/ item \in queryServicesByIndustry(i) =>
              Proper(item)
         /\ \A y \in {Home, Settings, Sla} : \A item \in querySingleton(y) : Proper(item)
  <1>1. ASSUME NEW T \in SUBSET Rows, \A y \in T : y \notin Publishable
        PROVE  \A X \in SUBSET T : (\A y \in X : Exists(y)) => \A item \in Plain(X) : Proper(item)
    <2> SUFFICES ASSUME NEW X \in SUBSET T, \A y \in X : Exists(y)
                 PROVE  \A item \in Plain(X) : Proper(item)
      OBVIOUS
    <2> QED BY <1>1, PlainIs
  <1>2. /\ \A y \in Industries : y \notin Publishable
        /\ \A y \in Services : y \notin Publishable
        /\ \A y \in Manufacturers : y \notin Publishable
        /\ \A y \in Series : y \notin Publishable
        /\ \A y \in {Home, Settings, Sla} : y \notin Publishable
    BY NotPublishable
  <1>3. ASSUME NEW T \in SUBSET Rows, \A y \in T : y \notin Publishable
        PROVE  \A item \in Plain({y \in T : Exists(y)}) : Proper(item)
    BY <1>1, <1>3
  <1>4. \A item \in queryIndustries : Proper(item)
    BY <1>2, <1>3, RowsAreRows DEF queryIndustries
  <1>5. \A item \in queryServices : Proper(item)
    BY <1>2, <1>3, RowsAreRows DEF queryServices
  <1>6. \A item \in queryManufacturers : Proper(item)
    BY <1>2, <1>3, RowsAreRows DEF queryManufacturers
  <1>7. ASSUME NEW i \in Industries PROVE \A item \in queryIndustryBySlug(i) : Proper(item)
    <2>1. {i} \in SUBSET Rows /\ \A y \in {i} : y \notin Publishable
      BY <1>2, RowsAreRows
    <2> QED BY <1>3, <2>1 DEF queryIndustryBySlug
  <1>8. ASSUME NEW s \in {Home, Settings, Sla} PROVE \A item \in querySingleton(s) : Proper(item)
    <2>1. {s} \in SUBSET Rows /\ \A y \in {s} : y \notin Publishable
      BY <1>2, RowsAreRows
    <2> QED BY <1>3, <2>1 DEF querySingleton
  <1>9. ASSUME NEW d \in Documents PROVE \A item \in queryDocumentBySlug(d) : Proper(item)
    <2>1. {d} \in SUBSET Rows
      BY RowsAreRows
    <2>2. Published({d}) \in SUBSET Rows /\ \A y \in Published({d}) : Exists(y) /\ y \in public
      BY <2>1, FoundRows
    <2> QED BY <2>2, PlainIs DEF queryDocumentBySlug
  <1>10. ASSUME NEW i PROVE \A item \in queryCertificatesByIndustry(i) : Proper(item)
    <2>1. /\ Published(Referring(Certificates, i)) \in SUBSET Rows
          /\ \A y \in Published(Referring(Certificates, i)) : Exists(y) /\ y \in public
      BY FoundRows, RowsAreRows
    <2> QED BY <2>1, PlainIs DEF queryCertificatesByIndustry
  <1>11. ASSUME NEW i PROVE \A item \in queryServicesByIndustry(i) : Proper(item)
    <2>1. /\ Referring(Services, i) \in SUBSET Services
          /\ \A y \in Referring(Services, i) : Exists(y)
      BY DEF Referring
    <2> QED BY <1>1, <1>2, <2>1, RowsAreRows DEF queryServicesByIndustry
  <1>12. ASSUME NEW s, Published(Referring(Products, s)) # {} PROVE Exists(s)
    <2>1. PICK p \in Published(Referring(Products, s)) : TRUE
      BY <1>12
    <2>2. p \in Products /\ s \in links[p]
      BY DEF Published, Referring
    <2> QED
      BY <2>2, FoundRows, RowsAreRows
  <1>13. \A item \in querySeriesOptions : Proper(item)
    <2>1. {s \in Series : Published(Referring(Products, s)) # {}} \in SUBSET Series
      OBVIOUS
    <2> QED BY <1>1, <1>2, <1>12, <2>1, RowsAreRows DEF querySeriesOptions
  <1>14. \A item \in queryManufacturerOptions : Proper(item)
    <2>1. {m \in Manufacturers : Published(Referring(Products, m)) # {}} \in SUBSET Manufacturers
      OBVIOUS
    <2> QED BY <1>1, <1>2, <1>12, <2>1, RowsAreRows DEF queryManufacturerOptions
  <1> QED
    BY <1>4, <1>5, <1>6, <1>7, <1>8, <1>9, <1>10, <1>11, <1>13, <1>14

LEMMA AnswersAreProper ==
  ASSUME RowsOK, read \in Reads
  PROVE  \A item \in Query : item \in Items /\ (read.kind # "guide" => ShowsPublic(item))
  <1>1. CASE read.kind = "guide"
    BY <1>1, GuideAnswers DEF Query
  <1>2. ASSUME \A item \in Query : Proper(item)
        PROVE  \A item \in Query : item \in Items /\ (read.kind # "guide" => ShowsPublic(item))
    BY <1>2 DEF Proper
  <1>3. CASE read.kind \in {"product-id", "product", "related-products", "accessories",
                            "documents-by-product", "products-by-industry", "products-by-category",
                            "products-all", "product-signals"}
    BY <1>2, <1>3, ProductAnswers, ReadsAre DEF Query
  <1>4. CASE read.kind \in {"categories", "category-tree", "category", "categories-by-industry"}
    BY <1>2, <1>4, CategoryAnswers, ReadsAre DEF Query
  <1>5. CASE read.kind \in {"projects", "projects-by-industry", "project"}
    <2>1. Projects \in SUBSET Projects /\ Referring(Projects, read.of) \in SUBSET Projects
      BY DEF Referring
    <2> QED
      BY <1>2, <1>5, <2>1, ProjectAnswers DEF Query
  <1>6. CASE read.kind \in {"industries", "industry", "document", "certificates-by-industry",
                            "services-all", "services-by-industry", "manufacturers",
                            "series-options", "manufacturer-options"}
    BY <1>2, <1>6, PlainAnswers, ReadsAre DEF Query
  <1>7. CASE read.kind \in {"home-content", "site-phone", "contact-details", "sla-process"}
    <2>1. read.of \in {Home, Settings, Sla} /\ Query = querySingleton(read.of)
      BY <1>7, ReadsAre DEF Query
    <2> QED
      BY <1>2, <2>1, PlainAnswers
  <1>8. CASE read.kind = "guides-index"
    BY <1>2, <1>8, GuideAnswers DEF Query
  <1> QED
    BY <1>1, <1>3, <1>4, <1>5, <1>6, <1>7, <1>8, ReadsAre

-----------------------------------------------------------------------------
(* The invariant.                                                          *)

SiteInv ==
  /\ RowsOK /\ read \in Reads
  /\ entry = NoEntry \/ entry \in SUBSET Items
  /\ since \subseteq Kinds /\ edits \in 0 .. MaxEdits
  /\ EditsGoLive

LEMMA SiteStarts == SiteInit => SiteInv
  <1> SUFFICES ASSUME SiteInit PROVE SiteInv
    OBVIOUS
  <1>1. RowsOK
    <2>1. text \in [Rows -> Texts \cup {Absent, Gone}] /\ links \in [Rows -> SUBSET Rows]
      BY LivePublishAssumption DEF SiteInit
    <2>2. \A x \in Rows \ Later : Exists(x)
      BY LivePublishAssumption DEF SiteInit, Exists
    <2>3. \A x \in Rows : links[x] = (IF x \in Later THEN {} ELSE Links[x])
      BY DEF SiteInit
    <2>4. \A x \in Rows : \A y \in links[x] : Exists(x) /\ Exists(y)
      BY <2>1, <2>2, <2>3, LivePublishAssumption
    <2>5. \A x \in Rows : Fits(x, links[x])
      <3>1. \A x : Fits(x, {})
        BY DEF Fits
      <3> QED BY <2>3, <3>1, LivePublishAssumption
    <2>6. public \subseteq {x \in Publishable : Exists(x)}
      <3>1. Publishable \subseteq Rows
        BY RowsAreRows DEF Publishable
      <3> QED BY <2>2, <3>1 DEF SiteInit
    <2> QED BY <2>1, <2>4, <2>5, <2>6 DEF RowsOK
  <1>2. edits \in 0 .. MaxEdits
    BY LivePublishAssumption DEF SiteInit
  <1> QED
    BY <1>1, <1>2 DEF SiteInit, SiteInv, EditsGoLive

LEMMA Untouched ==
  ASSUME RowsOK, read \in Reads, UNCHANGED <<text, public, links, read>>
  PROVE  RowsOK' /\ Query' = Query
  <1>1. RowsOK'
    BY DEF RowsOK, Exists
  <1>2. PICK x : x \notin Rows \cup Footprint
    BY NoSetContainsEverything
  <1>3. RestStays(x)
    BY DEF RestStays
  <1> QED
    BY <1>1, <1>2, <1>3, QueryStays

LEMMA SiteSteps == SiteInv /\ [SiteNext]_siteVars => SiteInv'
  <1> SUFFICES ASSUME SiteInv, [SiteNext]_siteVars PROVE SiteInv'
    OBVIOUS
  <1>0. /\ RowsOK /\ read \in Reads /\ (entry = NoEntry \/ entry \in SUBSET Items)
        /\ since \subseteq Kinds /\ edits \in 0 .. MaxEdits /\ EditsGoLive
    BY DEF SiteInv
  <1>1. CASE UNCHANGED siteVars
    <2>1. UNCHANGED <<text, public, links, read, entry, since, edits>>
      BY <1>1 DEF siteVars
    <2>2. RowsOK' /\ Query' = Query
      BY <1>0, <2>1, Untouched
    <2>3. Unfollowed' = Unfollowed
      BY <2>1 DEF Unfollowed, CatalogTags, treeTags
    <2>4. EditsGoLive'
      BY <1>0, <2>1, <2>2, <2>3 DEF EditsGoLive
    <2> QED
      BY <1>0, <2>1, <2>2, <2>4 DEF SiteInv
  <1>2. CASE Fill
    <2>1. UNCHANGED <<text, public, links, read, edits>> /\ entry' = Query /\ since' = {}
      BY <1>2 DEF Fill
    <2>2. RowsOK' /\ Query' = Query
      BY <1>0, <2>1, Untouched
    <2>3. Query \in SUBSET Items
      BY <1>0, AnswersAreProper
    <2> QED
      BY <1>0, <2>1, <2>2, <2>3 DEF SiteInv, EditsGoLive
  <1>3. ASSUME NEW x \in Rows, NEW kind \in Kinds, OneEdit(x, kind)
        PROVE  SiteInv'
    <2>1. /\ RowsOK' /\ RestStays(x) /\ read' = read /\ edits' = edits + 1 /\ edits < MaxEdits
      BY <1>3 DEF OneEdit
    <2>2. edits' \in 0 .. MaxEdits
      BY <1>0, <2>1, LivePublishAssumption
    <2>3. Unfollowed' = Unfollowed
      BY <2>1 DEF Unfollowed, CatalogTags, treeTags
    <2>4. CASE entry' = NoEntry /\ since' = {}
      BY <1>0, <2>1, <2>2, <2>4 DEF SiteInv, EditsGoLive
    <2>5. CASE /\ entry' = entry /\ since' = (IF entry = NoEntry THEN {} ELSE since \cup {kind})
               /\ x \in Footprint => kind \in Unfollowed
      <3>1. since' \subseteq Kinds
        BY <1>0, <2>5
      <3>2. EditsGoLive'
        <4>1. CASE entry = NoEntry
          BY <2>5, <4>1 DEF EditsGoLive
        <4>2. CASE entry # NoEntry /\ (since \cap Unfollowed # {} \/ kind \in Unfollowed)
          BY <2>3, <2>5, <4>2 DEF EditsGoLive
        <4>3. CASE entry # NoEntry /\ since \cap Unfollowed = {} /\ kind \notin Unfollowed
          <5>1. Query' = Query
            BY <1>0, <2>1, <2>5, <4>3, QueryStays
          <5>2. entry = Query
            BY <1>0, <4>3 DEF EditsGoLive
          <5> QED BY <2>5, <5>1, <5>2 DEF EditsGoLive
        <4> QED BY <4>1, <4>2, <4>3
      <3> QED
        BY <1>0, <2>1, <2>2, <2>5, <3>1, <3>2 DEF SiteInv
    <2> QED
      BY <1>3, <2>4, <2>5 DEF OneEdit
  <1> QED
    BY <1>0, <1>1, <1>2, <1>3, StepsAreEdits

THEOREM SiteHolds == SiteSpec => []SiteInv
  BY SiteStarts, SiteSteps, PTL DEF SiteSpec

(* Type correctness.                                                       *)
THEOREM SiteTypes == SiteSpec => []SiteTypeOK
  <1>1. SiteInv => SiteTypeOK
    BY DEF SiteInv, RowsOK, Items, SiteTypeOK, Answers
  <1> QED BY SiteHolds, <1>1, PTL

(* An admin's edit goes live.                                              *)
THEOREM EditsDoGoLive == SiteSpec => []EditsGoLive
  <1>1. SiteInv => EditsGoLive
    BY DEF SiteInv
  <1> QED BY SiteHolds, <1>1, PTL

(* What is not published is not shown.                                     *)
THEOREM HiddenStaysHidden == SiteSpec => []UnpublishedIsHidden
  <1>1. SiteInv => UnpublishedIsHidden
    <2> SUFFICES ASSUME SiteInv, entry = Query, read.kind # "guide"
                 PROVE  \A item \in entry : \A cell \in item.shows :
                          cell[1] \in Publishable => cell[1] \in public
      BY DEF SiteInv, EditsGoLive, UnpublishedIsHidden
    <2>1. \A item \in Query : ShowsPublic(item)
      BY AnswersAreProper DEF SiteInv
    <2> QED BY <2>1 DEF ShowsPublic
  <1> QED BY SiteHolds, <1>1, PTL

-----------------------------------------------------------------------------
(* The sitemap.                                                            *)

(* The texts of one item, whatever it counts.                              *)
OwnText(item) == Own({item})
EveryText(item) == AllOf({item})

LEMMA ItemTexts ==
  ASSUME NEW y, NEW S, y \in S, NEW n
  PROVE  /\ Item(y, S, n).of = y /\ Item(y, S, n).count = n
         /\ OwnText(Item(y, S, n)) = {text[y]}
         /\ \A m : EveryText(Item(y, S, m)) = EveryText(Item(y, S, n))
  <1>1. \A k : /\ Item(y, S, k).of = y /\ Item(y, S, k).count = k
               /\ Item(y, S, k).shows = {<<z, text[z]>> : z \in S}
    BY DEF Item
  <1>2. \A item : EveryText(item) = {cell[2] : cell \in item.shows}
    <2> SUFFICES ASSUME NEW item PROVE EveryText(item) = {cell[2] : cell \in item.shows}
      OBVIOUS
    <2>1. UNION {i.shows : i \in {item}} = item.shows
      OBVIOUS
    <2> QED BY <2>1 DEF EveryText, AllOf
  <1>3. ASSUME NEW m PROVE EveryText(Item(y, S, m)) = EveryText(Item(y, S, n))
    <2>1. Item(y, S, n).shows = Item(y, S, m).shows
      BY <1>1
    <2>2. /\ EveryText(Item(y, S, n)) = {cell[2] : cell \in Item(y, S, n).shows}
          /\ EveryText(Item(y, S, m)) = {cell[2] : cell \in Item(y, S, m).shows}
      BY <1>2
    <2> QED BY <2>1, <2>2
  <1>4. OwnText(Item(y, S, n)) = {text[y]}
    <2> DEFINE item == Item(y, S, n)
    <2>1. UNION {{s \in i.shows : s[1] = i.of} : i \in {item}} = {s \in item.shows : s[1] = item.of}
      OBVIOUS
    <2>2. OwnText(item) = {cell[2] : cell \in {s \in item.shows : s[1] = item.of}}
      BY <2>1 DEF OwnText, Own
    <2>3. {s \in item.shows : s[1] = item.of} = {<<y, text[y]>>}
      BY <1>1
    <2>4. {cell[2] : cell \in {<<y, text[y]>>}} = {text[y]}
      OBVIOUS
    <2> HIDE DEF item
    <2>5. OwnText(item) = {text[y]}
      BY <2>2, <2>3, <2>4
    <2> QED BY <2>5 DEF item
  <1> QED
    BY <1>1, <1>3, <1>4

(* A product's row in the list says of it what its page says.              *)
LEMMA ProductPagesAgree ==
  ASSUME NEW l
  PROVE  {row.of : row \in {r \in queryProductSignals : signalsFromRow(l, r)}}
           = {p \in Products : productPage(l, p)}
  <1> DEFINE S(p) == {p} \cup MadeBy(p) \cup InCategory(p)
             N(p) == Cardinality(Published(Referring(Documents, p)))
             Row(p) == Item(p, S(p), N(p))
             Page(p) == Item(p, S(p), 0)
  <1>1. ASSUME NEW p
        PROVE  /\ Row(p).of = p /\ Row(p).count = N(p)
               /\ OwnText(Row(p)) = OwnText(Page(p)) /\ EveryText(Row(p)) = EveryText(Page(p))
    <2>1. p \in S(p)
      OBVIOUS
    <2> HIDE DEF S, N
    <2>2. /\ Row(p).of = p /\ Row(p).count = N(p)
          /\ OwnText(Row(p)) = {text[p]} /\ OwnText(Page(p)) = {text[p]}
      BY <2>1, ItemTexts
    <2>3. EveryText(Row(p)) = EveryText(Page(p))
      BY <2>1, ItemTexts
    <2> QED BY <2>2, <2>3
  <1>2. ASSUME NEW p PROVE N(p) > 0 <=> queryDocumentsByProduct(p) # {}
    <2> DEFINE X == Published(Referring(Documents, p))
    <2>1. X \subseteq Rows
      BY RowsAreRows DEF Published, Referring
    <2>2. IsFiniteSet(X)
      BY <2>1, LivePublishAssumption, FS_Subset
    <2>3. Cardinality(X) \in Nat /\ (Cardinality(X) = 0 <=> X = {})
      BY <2>2, FS_CardinalityType, FS_EmptySet
    <2>4. queryDocumentsByProduct(p) = {} <=> X = {}
      BY DEF queryDocumentsByProduct, Plain
    <2>5. N(p) = Cardinality(X)
      OBVIOUS
    <2> HIDE DEF X, N
    <2> QED BY <2>3, <2>4, <2>5
  <1>3. ASSUME NEW p PROVE signalsFromRow(l, Row(p)) <=> signalsFromPageData(l, Page(p), queryDocumentsByProduct(p))
    <2> HIDE DEF Row, Page, N
    <2>1. signalsFromRow(l, Row(p)) =
            productSignals(l, EveryText(Row(p)), OwnText(Row(p)) \subseteq Prose, N(p) > 0)
      BY <1>1 DEF signalsFromRow, EveryText, OwnText
    <2>2. signalsFromPageData(l, Page(p), queryDocumentsByProduct(p)) =
            productSignals(l, EveryText(Page(p)), OwnText(Page(p)) \subseteq Prose,
                           queryDocumentsByProduct(p) # {})
      BY DEF signalsFromPageData, EveryText, OwnText
    <2> QED BY <1>1, <1>2, <2>1, <2>2 DEF productSignals
  <1>4. queryProductSignals = {Row(p) : p \in Published(Products)}
    BY DEF queryProductSignals
  <1>5. ASSUME NEW p \in Products
        PROVE  productPage(l, p) <=>
                 p \in Published(Products) /\ signalsFromPageData(l, Page(p), queryDocumentsByProduct(p))
    <2>1. queryProductDetail(p) = {Page(q) : q \in Published({p})}
      BY DEF queryProductDetail
    <2>2. \A q : q \in Published({p}) <=> q = p /\ p \in Published(Products)
      BY DEF Published
    <2> HIDE DEF Page
    <2> QED BY <2>1, <2>2 DEF productPage
  <1>6. Published(Products) \subseteq Products
    BY DEF Published
  <1> HIDE DEF Row, Page, N, S
  <1>7. ASSUME NEW p
        PROVE  p \in {row.of : row \in {r \in queryProductSignals : signalsFromRow(l, r)}}
                 <=> p \in Published(Products) /\ signalsFromRow(l, Row(p))
    BY <1>1, <1>4
  <1> QED
    BY <1>3, <1>5, <1>6, <1>7

(* And so with projects and guides.                                        *)
LEMMA ItemPagesAgree ==
  ASSUME RowsOK, NEW l
  PROVE  {item.of : item \in {k \in queryPublishedProjects(Projects) \cup queryPublishedGuides :
                                itemSignals(l, k)}}
           = {j \in Projects : projectPage(l, j)} \cup {g \in Guides : guidePage(l, g)}
  <1> DEFINE J(j) == toProjectListItem(j)
             G(g) == Item(g, {g}, 0)
             H(g) == Item(g, {g} \cup links[g], 0)
  <1>1. ASSUME NEW j PROVE J(j).of = j
    BY DEF toProjectListItem, Item
  <1>2. ASSUME NEW j \in Projects
        PROVE  projectPage(l, j) <=> j \in Published(Projects) /\ itemSignals(l, J(j))
    <2>1. ASSUME NEW item \in Cards(Published(links[j] \cap Products)) PROVE item.of # j
      <3>1. PICK q \in Published(links[j] \cap Products) : item = Card(q)
        BY <2>1 DEF Cards
      <3>2. item.of = q
        BY <3>1 DEF Card, Item
      <3>3. q \in Products /\ j \notin Products
        BY TablesApart DEF Published
      <3> QED BY <3>2, <3>3
    <2>2. CASE j \in Published(Projects)
      <3>1. queryProjectBySlug(j) = {J(j)} \cup Cards(Published(links[j] \cap Products))
        BY <2>2 DEF queryProjectBySlug
      <3> HIDE DEF J
      <3> QED BY <1>1, <2>1, <2>2, <3>1 DEF projectPage
    <2>3. CASE j \notin Published(Projects)
      BY <2>3 DEF projectPage, queryProjectBySlug
    <2> QED BY <2>2, <2>3
  <1>3. ASSUME NEW g PROVE G(g).of = g /\ (itemSignals(l, G(g)) <=> itemSignals(l, H(g)))
    <2>1. g \in {g} /\ g \in {g} \cup links[g]
      OBVIOUS
    <2>2. G(g).of = g /\ OwnText(G(g)) = {text[g]}
      BY <2>1, ItemTexts
    <2>3. \A S : g \in S => OwnText(Item(g, S, 0)) = {text[g]}
      BY ItemTexts
    <2>4. OwnText(H(g)) = {text[g]}
      BY <2>1, <2>3
    <2> HIDE DEF G, H
    <2>5. \A item : itemSignals(l, item) = isIndexable(l, OwnText(item) \subseteq Prose, OwnText(item))
      BY DEF itemSignals, OwnText
    <2> QED BY <2>2, <2>4, <2>5
  <1>4. ASSUME NEW g \in Guides PROVE guidePage(l, g) <=> g \in Published(Guides) /\ itemSignals(l, H(g))
    BY DEF guidePage, queryGuideBySlug
  <1>5. /\ queryPublishedProjects(Projects) = {J(j) : j \in Published(Projects)}
        /\ queryPublishedGuides = {G(g) : g \in Published(Guides)}
    BY DEF queryPublishedProjects, queryPublishedGuides, Plain
  <1>6. Published(Projects) \subseteq Projects /\ Published(Guides) \subseteq Guides
    BY DEF Published
  <1> HIDE DEF J, G, H
  <1>7. ASSUME NEW y
        PROVE  y \in {item.of : item \in {k \in queryPublishedProjects(Projects) \cup queryPublishedGuides :
                                            itemSignals(l, k)}}
                 <=> \/ y \in Published(Projects) /\ itemSignals(l, J(y))
                     \/ y \in Published(Guides) /\ itemSignals(l, G(y))
    BY <1>1, <1>3, <1>5
  <1> QED
    BY <1>2, <1>3, <1>4, <1>6, <1>7

(* The sitemap lists the pages that may be indexed, and no other.          *)
THEOREM SitemapDoesAgree == SiteSpec => []SitemapAgrees
  <1>1. SiteInv => SitemapAgrees
    BY ProductPagesAgree, ItemPagesAgree DEF SiteInv, SitemapAgrees, sitemap, indexablePages
  <1> QED BY SiteHolds, <1>1, PTL
=============================================================================
