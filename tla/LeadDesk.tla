------------------------------ MODULE LeadDesk ------------------------------
(***************************************************************************)
(* The administrators' desk on the leads RfqIntake stores: the list, a     *)
(* lead's page with what it says of the buyer's file, the download behind  *)
(* the page's link, the change of a status. The page is read at one        *)
(* moment, its link is followed at a later one, and the download reads the *)
(* row and then the object, while requests come in and leads are erased.   *)
(*                                                                         *)
(* Administrators are signed in. The id of a lead is known from a list,    *)
(* which may have been read before the lead was erased.                    *)
(***************************************************************************)
EXTENDS RfqIntake

CONSTANT Desks   \* administrators' browsers

VARIABLE desk   \* the lead each desk has open, what its page says, the last reply

Views == {"none", "failed", "clean"}
Replies == {"none", "reading", "bytes", "notFound", "unavailable", "noLead"}

EmptyDesk == [lead |-> NoRequest, view |-> "none", reply |-> "none"]

DeskInit == Init /\ desk = [d \in Desks |-> EmptyDesk]

-----------------------------------------------------------------------------
(* A row of the list, and of the export, with its sign for a file.         *)
Listed(r) == lead[r].state # "none"
hasAttachment(r) == lead[r].scan # "none"

(* The verdict's column decides, then the key's. The values pending and    *)
(* infected are never written: the scan comes before the one insert.       *)
MutantTrustsName(r) == IF hasAttachment(r) THEN "clean" ELSE "none"

toLeadAttachmentView(r) ==
  CASE ~hasAttachment(r) -> "none"
    [] lead[r].scan = "clean" /\ lead[r].key -> "clean"
    [] OTHER -> "failed"

(* What the download serves: it reads the row again. *)
Servable(r) == lead[r].state = "stored" /\ lead[r].scan = "clean" /\ lead[r].key

-----------------------------------------------------------------------------
Show(d, s) ==
  /\ desk' = [desk EXCEPT ![d] = s]
  /\ UNCHANGED vars

Tell(d, reply) == Show(d, [desk[d] EXCEPT !.reply = reply])

(* getLeadForAdmin: the page of a lead that is there. *)
Page(r) == [lead |-> r, view |-> toLeadAttachmentView(r), reply |-> "none"]

(* View, in a row of the list. *)
OpenLead(d, r) ==
  /\ Listed(r) /\ desk[d].reply # "reading"
  /\ Show(d, IF lead[r].state = "stored" THEN Page(r)
             ELSE [EmptyDesk EXCEPT !.reply = "noLead"])

Open(d) == desk[d].lead # NoRequest /\ desk[d].reply # "reading"

(* A save refreshes the page it is made on; one that finds no row says so. *)
updateLeadStatus(d) ==
  LET r == desk[d].lead
  IN  Open(d) /\ IF lead[r].state = "stored" THEN Show(d, Page(r)) ELSE Tell(d, "noLead")

(* The link, or its address typed: the first read, of the row. *)
Follow(d) ==
  /\ Open(d)
  /\ Tell(d, IF Servable(desk[d].lead) THEN "reading" ELSE "notFound")

(* The second, of the object, which is gone, or sent, or out of reach.     *)
getObjectStream(d) ==
  /\ desk[d].reply = "reading"
  /\ Tell(d, IF desk[d].lead \in objects THEN "bytes" ELSE "notFound")

StorageFails(d) ==
  /\ desk[d].reply = "reading"
  /\ Tell(d, "unavailable")

-----------------------------------------------------------------------------
(* The handlers and the erasures go on beside the desks; an erasure that   *)
(* was pressed at a desk is one of them.                                   *)
Beside == Next /\ UNCHANGED desk

DeskNext ==
  \/ Beside
  \/ \E d \in Desks, r \in Requests : OpenLead(d, r)
  \/ \E d \in Desks : \/ updateLeadStatus(d) \/ Follow(d)
                      \/ getObjectStream(d) \/ StorageFails(d)

DeskSpec == DeskInit /\ [][DeskNext]_<<vars, desk>>

-----------------------------------------------------------------------------
(* Type correctness of the variable of this module. *)
DeskTypeOK ==
  desk \in [Desks -> [lead : Requests \cup {NoRequest}, view : Views, reply : Replies]]

(* What a desk is told of a lead is true, whatever is uploaded, inserted   *)
(* or erased between its reads. A link is shown, and bytes are sent, only  *)
(* of a clean file the buyer sent, and never of a lead the honeypot or the *)
(* scan stopped; a page says there is no file only when the buyer sent     *)
(* none, and that a file is not available only when its upload failed; a   *)
(* lead is gone for the desk, and a link it was offered is dead, only when *)
(* the lead, or its file, is erased.                                       *)
DeskIsTrue ==
  \A d \in Desks : LET r == desk[d].lead IN r # NoRequest =>
    /\ desk[d].view = "none" <=> form[r].file = "none"
    /\ desk[d].view = "failed" => upload[r] = "failed"
    /\ desk[d].view = "clean" \/ desk[d].reply = "bytes" =>
         form[r].file = "clean" /\ ~form[r].trap /\ Committed(r)
    /\ desk[d].reply = "noLead" => lead[r].state = "erased"
    /\ desk[d].view = "clean" /\ desk[d].reply = "notFound" => r \notin objects
=============================================================================
