----------------------------- MODULE SlaContent -----------------------------
(***************************************************************************)
(* The response process ("SLA") that the public pages quote: one process   *)
(* and its ordered steps, each with a text per locale. A deploy creates    *)
(* the default if there is none; an administrator edits the texts and      *)
(* moves the steps. Two deploys may overlap, and so may two moves: the     *)
(* rows of a transaction are locked one by one, and every other request    *)
(* sees them as they were until it commits.                                *)
(***************************************************************************)
EXTENDS Naturals, FiniteSets

CONSTANTS
  Steps,      \* the steps of the fixture
  Parts,      \* what has a text: the process, and the steps that are edited
  Locales,    \* "en", which is required, and the others
  Texts,      \* what a text may say
  Fixture,    \* the text the repository ships
  Moves,      \* reorder requests that may overlap
  Editors,    \* administrators' pages
  Deploys,    \* deploys that may overlap
  Idle,       \* a request or a deploy that is not under way
  None        \* no text, no row

N == Cardinality(Steps)
Orders == {o \in [1 .. N -> Steps] : \A i, j \in 1 .. N : o[i] = o[j] => i = j}
RowsOf == {t \in [Locales -> Texts \cup {None}] : t["en"] # None}

(* There is a step, English is required, and None is none of what it       *)
(* stands for the absence of.                                              *)
ASSUME SlaAssumption ==
  /\ "en" \in Locales /\ Fixture \in Texts /\ None \notin Texts
  /\ None \notin [Parts -> RowsOf] /\ None \notin [Steps -> 1 .. N]
  /\ IsFiniteSet(Steps) /\ Steps # {}

VARIABLES
  text,      \* the stored text of each part in each locale; None if it has no row
  sort,      \* the position of each step; None before there is a process
  page,      \* the order each editor's page shows; None if it is not open
  move,      \* each reorder: the order it writes and how many rows it has written
  deploy,    \* each deploy: Idle, or it found no process
  saved,     \* history: what the owner last saved of each part
  asked,     \* history: the order last asked for and committed
  collided   \* history: a reorder failed on the unique position

vars == <<text, sort, page, move, deploy, saved, asked, collided>>

Exists == text # None

Init ==
  /\ text = None /\ sort = None /\ asked = None
  /\ page = [e \in Editors |-> None]
  /\ move = [m \in Moves |-> Idle] /\ deploy = [d \in Deploys |-> Idle]
  /\ saved = [p \in Parts |-> None] /\ collided = FALSE

-----------------------------------------------------------------------------
(* A definition whose name begins with Mutant is not part of the model: it *)
(* is the definition after it with a plausible bug.                        *)
-----------------------------------------------------------------------------
(* A deploy: find, then create, in one transaction.                        *)

ensureDefaultSla(d) ==
  /\ deploy[d] = Idle /\ ~Exists
  /\ deploy' = [deploy EXCEPT ![d] = "absent"]
  /\ UNCHANGED <<text, sort, page, move, saved, asked, collided>>

CreateDefault ==
  /\ text' = [p \in Parts |-> [l \in Locales |-> Fixture]]
  /\ \E o \in Orders : sort' = [s \in Steps |-> CHOOSE i \in 1 .. N : o[i] = s] /\ asked' = o

MutantUpserts(d) ==
  /\ deploy[d] = "absent"
  /\ IF Exists THEN text' = [p \in Parts |-> [l \in Locales |-> Fixture]] /\ UNCHANGED <<sort, asked>>
               ELSE CreateDefault
  /\ deploy' = [deploy EXCEPT ![d] = Idle]
  /\ UNCHANGED <<page, move, saved, collided>>

(* The key is unique: if another deploy was first, this one fails.         *)
createProcess(d) ==
  /\ deploy[d] = "absent"
  /\ IF Exists THEN UNCHANGED <<text, sort, asked>> ELSE CreateDefault
  /\ deploy' = [deploy EXCEPT ![d] = Idle]
  /\ UNCHANGED <<page, move, saved, collided>>

-----------------------------------------------------------------------------
(* Saving a text: a locale left empty, or filled in half, is no row of the *)
(* request. The rows of the request are upserted.                          *)

Upserted(old, rows) == [l \in Locales |-> IF rows[l] # None THEN rows[l] ELSE old[l]]

Save(p, rows) ==
  /\ Exists
  /\ text' = [text EXCEPT ![p] = Upserted(@, rows)]
  /\ saved' = [saved EXCEPT ![p] = rows]
  /\ UNCHANGED <<sort, page, move, deploy, asked, collided>>

updateSlaProcessText(rows) == \E p \in Parts \ Steps : Save(p, rows)
updateSlaStepText(s, rows) == s \in Parts /\ Save(s, rows)

-----------------------------------------------------------------------------
(* Moving a step. The page was read at some time; its arrows send all the  *)
(* steps in the order it shows but for two neighbours. Nothing keeps an    *)
(* arrow from being pressed before the page is read again.                 *)

getSlaForEdit(e) ==
  /\ Exists
  /\ \E o \in Orders :
       (\A i \in 1 .. N : sort[o[i]] = i) /\ page' = [page EXCEPT ![e] = o]
  /\ UNCHANGED <<text, sort, move, deploy, saved, asked, collided>>

Swapped(o, i) == [o EXCEPT ![i] = o[i + 1], ![i + 1] = o[i]]

Active(m) == move[m] # Idle
Written(m) == {move[m].order[i] : i \in 1 .. move[m].done}

(* The positions as the transaction of m sees them.                        *)
Seen(m) ==
  [s \in Steps |-> IF s \in Written(m) THEN CHOOSE i \in 1 .. N : move[m].order[i] = s ELSE sort[s]]

Unique(f) == \A s, t \in Steps : f[s] = f[t] => s = t

Collide(m) ==
  /\ collided' = TRUE /\ move' = [move EXCEPT ![m] = Idle]
  /\ UNCHANGED <<text, sort, page, deploy, saved, asked>>

reorderSlaSteps(e, m, i) ==
  /\ page[e] # None /\ ~Active(m)
  /\ move' = [move EXCEPT ![m] = [order |-> Swapped(page[e], i), done |-> 0]]
  /\ UNCHANGED <<text, sort, page, deploy, saved, asked, collided>>

(* SET CONSTRAINTS ... DEFERRED: positions are compared at commit only.    *)
MutantImmediate == FALSE
Deferred == TRUE

(* Each row is updated by its id, and stays locked until the transaction   *)
(* ends.                                                                   *)
updateSort(m) ==
  /\ Active(m) /\ move[m].done < N
  /\ LET next == move[m].order[move[m].done + 1]
     IN  ~\E q \in Moves \ {m} : Active(q) /\ next \in Written(q)
  /\ IF Deferred \/ Unique([Seen(m) EXCEPT ![move[m].order[move[m].done + 1]] = move[m].done + 1])
     THEN /\ move' = [move EXCEPT ![m].done = @ + 1]
          /\ UNCHANGED <<text, sort, page, deploy, saved, asked, collided>>
     ELSE Collide(m)

commit(m) ==
  /\ Active(m) /\ move[m].done = N
  /\ IF Unique(Seen(m))
     THEN /\ sort' = Seen(m) /\ asked' = move[m].order
          /\ move' = [move EXCEPT ![m] = Idle]
          /\ UNCHANGED <<text, page, deploy, saved, collided>>
     ELSE Collide(m)

(* A timeout, a crash, or the database breaking a circle of waiting.       *)
rollback(m) ==
  /\ Active(m)
  /\ move' = [move EXCEPT ![m] = Idle]
  /\ UNCHANGED <<text, sort, page, deploy, saved, asked, collided>>

-----------------------------------------------------------------------------
(* What a public page quotes: the text of its locale, or the English one.  *)
toSlaContent(p, l) == IF text[p][l] # None THEN text[p][l] ELSE text[p]["en"]

Next ==
  \/ \E d \in Deploys : ensureDefaultSla(d) \/ createProcess(d)
  \/ \E rows \in RowsOf :
       updateSlaProcessText(rows) \/ \E s \in Steps : updateSlaStepText(s, rows)
  \/ \E e \in Editors : getSlaForEdit(e)
  \/ \E m \in Moves :
       \/ \E e \in Editors, i \in 1 .. N - 1 : reorderSlaSteps(e, m, i)
       \/ updateSort(m) \/ commit(m) \/ rollback(m)

Spec == Init /\ [][Next]_vars

-----------------------------------------------------------------------------
(* Type correctness; every text has its English row.                       *)
TypeOK ==
  /\ text # None => text \in [Parts -> RowsOf]
  /\ sort # None => sort \in [Steps -> 1 .. N] /\ asked \in Orders
  /\ Exists = (sort # None)
  /\ page \in [Editors -> Orders \cup {None}]
  /\ move \in [Moves -> [order : Orders, done : 0 .. N] \cup {Idle}]
  /\ deploy \in [Deploys -> {Idle, "absent"}]
  /\ saved \in [Parts -> RowsOf \cup {None}] /\ collided \in BOOLEAN

(* "A redeploy can never put back text the owner has changed", even when   *)
(* it looked before there was anything to change.                          *)
OwnerTextStays ==
  \A p \in Parts : saved[p] # None =>
    \A l \in Locales : saved[p][l] # None => toSlaContent(p, l) = saved[p][l]

(* Two moves that overlap do not mix: the steps stand in an order that     *)
(* somebody asked for as a whole, and no move fails because two steps were *)
(* for a moment in one position.                                           *)
MovesAreAtomic ==
  /\ ~collided
  /\ Exists => \A i \in 1 .. N : sort[asked[i]] = i
=============================================================================
