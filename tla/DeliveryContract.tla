-------------------------- MODULE DeliveryContract --------------------------
(***************************************************************************)
(* What the mail pipeline promises about one inquiry, with no queue, no    *)
(* worker and no operator in sight: a committed lead may be mailed, at     *)
(* least once, until the e-mail is stamped as sent; a stamp follows an     *)
(* accepted mail and stays until the lead is erased, for good.             *)
(***************************************************************************)
EXTENDS Naturals

CONSTANT NumLeads

Leads == 1 .. NumLeads
Kinds == {"notify", "confirm"}

VARIABLES
  status,   \* "none", "stored", "erased"
  sent,     \* the e-mail's stamp is on the row
  mails     \* how often the provider accepted the e-mail

vars == <<status, sent, mails>>

Init ==
  /\ status = [l \in Leads |-> "none"]
  /\ sent = [l \in Leads |-> [k \in Kinds |-> FALSE]]
  /\ mails = [l \in Leads |-> [k \in Kinds |-> 0]]

Commit(l) ==
  /\ status[l] = "none"
  /\ status' = [status EXCEPT ![l] = "stored"]
  /\ UNCHANGED <<sent, mails>>

(* A run that had read the row before its erasure may still send. *)
Mail(l, k) ==
  /\ status[l] # "none" /\ ~sent[l][k]
  /\ mails' = [mails EXCEPT ![l][k] = @ + 1]
  /\ UNCHANGED <<status, sent>>

Stamp(l, k) ==
  /\ status[l] = "stored" /\ mails[l][k] > 0
  /\ sent' = [sent EXCEPT ![l][k] = TRUE]
  /\ UNCHANGED <<status, mails>>

Erase(l) ==
  /\ status[l] = "stored"
  /\ status' = [status EXCEPT ![l] = "erased"]
  /\ sent' = [sent EXCEPT ![l] = [k \in Kinds |-> FALSE]]
  /\ UNCHANGED mails

Next ==
  \E l \in Leads :
    \/ Commit(l)
    \/ Erase(l)
    \/ \E k \in Kinds : Mail(l, k) \/ Stamp(l, k)

Spec == Init /\ [][Next]_vars
=============================================================================
