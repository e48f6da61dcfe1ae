--------------------------- MODULE Catalog_proofs ---------------------------
(***************************************************************************)
(* The schema, the tree of categories and the counts before a delete, for  *)
(* any number of rows, administrators and requests; and the catalogue      *)
(* page, for any products, categories, cap, clicks and saves.              *)
(***************************************************************************)
EXTENDS Catalog, CatalogListing, FiniteSetTheorems, FunctionTheorems, SequenceTheorems,
        WellFoundedInduction, TLAPS

-----------------------------------------------------------------------------
(* The schema.                                                             *)

LEMMA KeysAre ==
  /\ \A r \in Categories    : Keys(r) = [parent : Categories \cup {None}]
  /\ \A r \in Manufacturers : Keys(r) = {<<>>}
  /\ \A r \in Series        : Keys(r) = [manufacturer : Manufacturers]
  /\ \A r \in Products      : Keys(r) = [manufacturer : Manufacturers, category : Categories,
                                         series : Series \cup {None}]
BY CatalogAssumption DEF Keys

(* The links L with the ids u given out: what the schema guarantees.       *)
Schema(L, u) ==
  /\ DOMAIN L \subseteq u /\ u \subseteq Ids
  /\ \A r \in DOMAIN L : L[r] \in Keys(r) /\ \A f \in DOMAIN L[r] : L[r][f] \in DOMAIN L \cup {None}

SlugsDiffer(L) == \A p, q \in Products \cap DOMAIN L : Slug[p] = Slug[q] => p = q

Written(L, x, k) == [r \in DOMAIN L \cup {x} |-> IF r = x THEN k ELSE L[r]]

Detached(L, r) ==
  [x \in DOMAIN L \ {r} |-> [f \in DOMAIN L[x] |-> IF L[x][f] = r THEN None ELSE L[x][f]]]

LEMMA WriteKeepsSchema ==
  ASSUME NEW L, NEW u, Schema(L, u), NEW x \in Ids, NEW k \in Keys(x),
         \A f \in DOMAIN k : k[f] \in DOMAIN L \cup {None}
  PROVE  Schema(Written(L, x, k), u \cup {x})
BY DEF Schema, Written

(* A statement that deletes leaves no key behind that points nowhere.      *)
LEMMA DeleteKeepsSchema ==
  ASSUME NEW L, NEW u, Schema(L, u), NEW r \in Ids,
         ~\E x \in DOMAIN L : \E f \in DOMAIN L[x] \ Optional : L[x][f] = r
  PROVE  Schema(Detached(L, r), u)
<1> DEFINE M == Detached(L, r)
           k(x) == [f \in DOMAIN L[x] |-> IF L[x][f] = r THEN None ELSE L[x][f]]
<1>1. DOMAIN M = DOMAIN L \ {r} /\ \A x \in DOMAIN M : M[x] = k(x)
  BY DEF Detached
<1>2. ASSUME NEW x \in DOMAIN M
      PROVE  M[x] \in Keys(x) /\ \A f \in DOMAIN M[x] : M[x][f] \in DOMAIN M \cup {None}
  <2>1. /\ M[x] = k(x) /\ x \in DOMAIN L /\ L[x] \in Keys(x)
        /\ x \in Categories \cup Manufacturers \cup Series \cup Products
    BY <1>1 DEF Schema, Ids
  <2>2. \A f \in DOMAIN L[x] : L[x][f] = r => f \in Optional
    BY <2>1
  <2>3. \A f \in DOMAIN M[x] : M[x][f] \in DOMAIN M \cup {None}
    BY <1>1, <2>1 DEF Schema
  <2>4. CASE x \in Categories
    <3>1. L[x] \in [parent : Categories \cup {None}]
      BY <2>1, <2>4, KeysAre
    <3> QED BY <2>1, <2>3, <2>4, <3>1, KeysAre
  <2>5. CASE x \in Manufacturers
    <3>1. L[x] = <<>>
      BY <2>1, <2>5, KeysAre
    <3>2. k(x) = <<>>
      BY <3>1
    <3> QED BY <2>1, <2>3, <2>5, <3>2, KeysAre
  <2>6. CASE x \in Series
    <3>1. L[x] \in [manufacturer : Manufacturers]
      BY <2>1, <2>6, KeysAre
    <3>2. L[x].manufacturer # r
      BY <2>2, <3>1 DEF Optional
    <3> QED BY <2>1, <2>3, <2>6, <3>1, <3>2, KeysAre
  <2>7. CASE x \in Products
    <3>1. L[x] \in [manufacturer : Manufacturers, category : Categories, series : Series \cup {None}]
      BY <2>1, <2>7, KeysAre
    <3>2. L[x].manufacturer # r /\ L[x].category # r
      BY <2>2, <3>1 DEF Optional
    <3> QED BY <2>1, <2>3, <2>7, <3>1, <3>2, KeysAre
  <2> QED BY <2>1, <2>4, <2>5, <2>6, <2>7
<1> QED BY <1>1, <1>2 DEF Schema

-----------------------------------------------------------------------------
(* The tree. A set of categories that is closed under going up stands for  *)
(* the walks that never leave it.                                          *)

Closed(L, S) == \A x \in S \cap DOMAIN L : L[x].parent \in S

(* Every walk ends at a root.                                              *)
Tree(L) == \A S \in SUBSET Categories : Closed(L, S) => S \cap DOMAIN L = {}

(* No walk from p passes c.                                                *)
Blocked(L, c, p) ==
  \E S \in SUBSET (Categories \cup {None}) : p \in S /\ c \notin S /\ Closed(L, S)

(* Every category is below a root exactly if no set of categories keeps a  *)
(* walk for ever.                                                          *)
LEMMA TreeIsRooted == Tree(links) <=> \A c \in Categories \cap Rows : Rooted(c)
<1>1. ASSUME Tree(links), NEW c \in Categories \cap Rows,
             NEW S \in SUBSET (Categories \cup {None}), c \in S, ClosedUpwards(S), None \notin S
      PROVE  FALSE
  BY <1>1 DEF Tree, Closed, ClosedUpwards, Rows
<1>2. ASSUME \A c \in Categories \cap Rows : Rooted(c),
             NEW S \in SUBSET Categories, Closed(links, S), NEW c \in S \cap Rows
      PROVE  FALSE
  <2>1. ClosedUpwards(S) /\ S \in SUBSET (Categories \cup {None}) /\ c \in Categories \cap Rows
    BY <1>2 DEF Closed, ClosedUpwards, Rows
  <2>2. None \in S
    BY <1>2, <2>1 DEF Rooted, Above
  <2> QED BY <2>2, CatalogAssumption DEF Ids
<1> QED BY <1>1, <1>2 DEF Tree, Rooted, Above, Rows

LEMMA CheckedIsBlocked ==
  ASSUME NEW c, NEW p, ~wouldCreateCategoryCycle(c, p)
  PROVE  Blocked(links, c, p)
BY DEF wouldCreateCategoryCycle, Above, ClosedUpwards, Closed, Blocked, Rows

LEMMA ParentsAre ==
  ASSUME NEW L, NEW u, Schema(L, u), NEW x \in Categories \cap DOMAIN L
  PROVE  /\ L[x] \in [parent : Categories \cup {None}]
         /\ L[x].parent \in (Categories \cap DOMAIN L) \cup {None}
<1>1. L[x] \in [parent : Categories \cup {None}]
  BY KeysAre DEF Schema
<1>2. L[x].parent \in DOMAIN L \cup {None}
  BY <1>1 DEF Schema
<1> QED BY <1>1, <1>2

(* A new category is above nothing.                                        *)
LEMMA CreateKeepsTree ==
  ASSUME NEW L, NEW u, Schema(L, u), NEW x \in Ids, x \notin u,
         NEW k \in Keys(x), \A f \in DOMAIN k : k[f] \in DOMAIN L \cup {None}
  PROVE  /\ Tree(L) => Tree(Written(L, x, k))
         /\ \A c, p \in u : Blocked(L, c, p) => Blocked(Written(L, x, k), c, p)
<1> DEFINE M == Written(L, x, k)
<1>1. /\ x \notin DOMAIN L /\ x # None /\ DOMAIN M = DOMAIN L \cup {x}
      /\ M[x] = k /\ \A y \in DOMAIN L : M[y] = L[y]
  BY CatalogAssumption DEF Schema, Written
<1>2. \A y \in Categories \cap DOMAIN L : L[y].parent # x
  BY <1>1, ParentsAre
<1>3. ASSUME NEW S \in SUBSET (Categories \cup {None}), Closed(M, S)
      PROVE  Closed(L, S \ {x})
  <2> SUFFICES ASSUME NEW y \in (S \ {x}) \cap DOMAIN L PROVE L[y].parent \in S \ {x}
    BY DEF Closed
  <2>1. y \in Categories /\ M[y] = L[y] /\ y \in S \cap DOMAIN M
    BY <1>1, CatalogAssumption DEF Schema
  <2> QED BY <1>2, <1>3, <2>1 DEF Closed
<1>4. ASSUME Tree(L), NEW S \in SUBSET Categories, Closed(M, S), NEW y \in S \cap DOMAIN M
      PROVE  FALSE
  <2>1. (S \ {x}) \cap DOMAIN L = {}
    BY <1>3, <1>4 DEF Tree
  <2>2. y = x
    BY <1>1, <1>4, <2>1
  <2>3. k \in [parent : Categories \cup {None}]
    BY <2>2, KeysAre
  <2>4. k.parent \in S
    BY <1>1, <1>4, <2>2 DEF Closed
  <2>5. k.parent \in DOMAIN L
    BY <2>3, <2>4, CatalogAssumption DEF Ids
  <2> QED BY <1>1, <2>1, <2>4, <2>5
<1>5. ASSUME NEW c \in u, NEW p \in u, NEW S \in SUBSET (Categories \cup {None}),
             p \in S, c \notin S, Closed(L, S)
      PROVE  Blocked(M, c, p)
  <2>1. Closed(M, S \ {x})
    <3> SUFFICES ASSUME NEW y \in (S \ {x}) \cap DOMAIN M PROVE M[y].parent \in S \ {x}
      BY DEF Closed
    <3>1. y \in S \cap DOMAIN L /\ M[y] = L[y] /\ y \in Categories
      BY <1>1, CatalogAssumption DEF Schema
    <3> QED BY <1>2, <1>5, <3>1 DEF Closed
  <2> QED BY <1>5, <2>1 DEF Blocked
<1> QED BY <1>4, <1>5 DEF Tree, Blocked

(* A row that is not a category is in no walk.                             *)
LEMMA OtherRowsKeepTree ==
  ASSUME NEW L, NEW u, Schema(L, u), NEW x \in Ids \ Categories, NEW k
  PROVE  /\ Tree(L) => Tree(Written(L, x, k))
         /\ \A c, p : Blocked(L, c, p) => Blocked(Written(L, x, k), c, p)
<1>1. ASSUME NEW S \in SUBSET (Categories \cup {None})
      PROVE  /\ S \cap DOMAIN Written(L, x, k) = S \cap DOMAIN L
             /\ Closed(Written(L, x, k), S) <=> Closed(L, S)
  BY CatalogAssumption DEF Written, Closed, Schema
<1> QED BY <1>1 DEF Tree, Blocked

(* A category moves to a place from which no walk leads back to it.        *)
LEMMA MoveKeepsTree ==
  ASSUME NEW L, NEW u, Schema(L, u), Tree(L), NEW c \in Categories \cap DOMAIN L,
         NEW p \in Categories \cap DOMAIN L, Blocked(L, c, p)
  PROVE  Tree(Written(L, c, [parent |-> p]))
<1> DEFINE M == Written(L, c, [parent |-> p])
<1>1. DOMAIN M = DOMAIN L /\ M[c] = [parent |-> p] /\ \A y \in DOMAIN L \ {c} : M[y] = L[y]
  BY DEF Written
<1>2. PICK T \in SUBSET (Categories \cup {None}) : p \in T /\ c \notin T /\ Closed(L, T)
  BY DEF Blocked
<1> SUFFICES ASSUME NEW S \in SUBSET Categories, Closed(M, S), NEW z \in S \cap DOMAIN M
             PROVE  FALSE
  BY DEF Tree
<1>3. Closed(L, S \cap T)
  BY <1>1, <1>2 DEF Closed
<1>4. (S \cap T) \cap DOMAIN L = {}
  BY <1>3 DEF Tree
<1>5. c \notin S
  <2> SUFFICES ASSUME c \in S PROVE FALSE
    OBVIOUS
  <2>1. p \in S
    BY <1>1 DEF Closed
  <2> QED BY <1>2, <1>4, <2>1
<1>6. Closed(L, S)
  BY <1>1, <1>5 DEF Closed
<1> QED BY <1>1, <1>6 DEF Tree

(* To the top of the tree a category may always move.                      *)
LEMMA RootKeepsTree ==
  ASSUME NEW L, Tree(L), NEW c \in Categories \cap DOMAIN L
  PROVE  Tree(Written(L, c, [parent |-> None]))
<1> DEFINE M == Written(L, c, [parent |-> None])
<1>1. DOMAIN M = DOMAIN L /\ M[c] = [parent |-> None] /\ \A y \in DOMAIN L \ {c} : M[y] = L[y]
  BY DEF Written
<1> SUFFICES ASSUME NEW S \in SUBSET Categories, Closed(M, S), NEW z \in S \cap DOMAIN M
             PROVE  FALSE
  BY DEF Tree
<1>2. c \notin S
  BY <1>1, CatalogAssumption DEF Closed, Ids
<1>3. Closed(L, S)
  BY <1>1, <1>2 DEF Closed
<1> QED BY <1>1, <1>3 DEF Tree

(* What was below a deleted category is a root.                            *)
LEMMA DeleteKeepsTree ==
  ASSUME NEW L, NEW u, Schema(L, u), NEW r \in Ids
  PROVE  /\ Tree(L) => Tree(Detached(L, r))
         /\ \A c, p : c # None /\ Blocked(L, c, p) => Blocked(Detached(L, r), c, p)
<1> DEFINE M == Detached(L, r)
<1>1. DOMAIN M = DOMAIN L \ {r} /\ r # None
  BY CatalogAssumption DEF Detached
<1>2. ASSUME NEW y \in Categories \cap DOMAIN M
      PROVE  /\ M[y].parent = (IF L[y].parent = r THEN None ELSE L[y].parent)
             /\ y \in DOMAIN L
  <2>1. L[y] \in [parent : Categories \cup {None}]
    BY <1>1, ParentsAre
  <2> QED BY <1>1, <2>1 DEF Detached
<1>3. ASSUME Tree(L), NEW S \in SUBSET Categories, Closed(M, S), NEW z \in S \cap DOMAIN M
      PROVE  FALSE
  <2>1. None \notin S
    BY CatalogAssumption DEF Ids
  <2>2. Closed(L, S \ {r})
    <3> SUFFICES ASSUME NEW y \in (S \ {r}) \cap DOMAIN L PROVE L[y].parent \in S \ {r}
      BY DEF Closed
    <3>1. y \in S \cap DOMAIN M
      BY <1>1
    <3>2. M[y].parent \in S /\ M[y].parent = (IF L[y].parent = r THEN None ELSE L[y].parent)
      BY <1>2, <1>3, <3>1 DEF Closed
    <3> QED BY <2>1, <3>2
  <2> QED BY <1>1, <1>3, <2>2 DEF Tree
<1>4. ASSUME NEW c, NEW p, c # None,
             NEW S \in SUBSET (Categories \cup {None}), p \in S, c \notin S, Closed(L, S)
      PROVE  Blocked(M, c, p)
  <2>1. Closed(M, S \cup {None})
    <3> SUFFICES ASSUME NEW y \in (S \cup {None}) \cap DOMAIN M
                 PROVE  M[y].parent \in S \cup {None}
      BY DEF Closed
    <3>1. y \in Categories /\ y \in S \cap DOMAIN L
      BY <1>1, CatalogAssumption DEF Schema
    <3>2. L[y].parent \in S
      BY <1>4, <3>1 DEF Closed
    <3> QED BY <1>2, <3>1, <3>2
  <2> QED BY <1>4, <2>1 DEF Blocked
<1> QED BY <1>3, <1>4 DEF Tree, Blocked

-----------------------------------------------------------------------------
(* Types.                                                                  *)

Typed == admin \in [Admins -> Requests] /\ made \in 0 .. MaxRequests /\ raced \in BOOLEAN

LEMMA TypesAre == TypeOK <=> Schema(links, used) /\ SlugsDiffer(links) /\ Typed
BY DEF TypeOK, Typed, Schema, SlugsDiffer, Satisfied, Rows

LEMMA WriteIs ==
  ASSUME NEW a, NEW x, NEW k, NEW then, Write(a, x, k, then)
  PROVE  links' = Written(links, x, k) /\ used' = used \cup {x}
BY DEF Write, Written, Rows

LEMMA OvertakenTyped ==
  ASSUME NEW request \in Requests, NEW x, NEW k
  PROVE  Overtaken(request, x, k) \in Requests
<1>1. CASE request.op = "delete"
  <2>1. request \in [op : {"delete"}, row : Ids,
                     uncounted : SUBSET {Categories, Series, Products}, late : BOOLEAN]
    BY <1>1 DEF Requests, Idle
  <2>2. [request EXCEPT !.late = TRUE]
          \in [op : {"delete"}, row : Ids,
               uncounted : SUBSET {Categories, Series, Products}, late : BOOLEAN]
    BY <2>1
  <2> QED BY <2>2 DEF Overtaken, Requests
<1>2. CASE request.op # "delete"
  BY <1>2 DEF Overtaken
<1> QED BY <1>1, <1>2

(* What a write may be of: a row that is there, or a new one with a slug   *)
(* that is free.                                                           *)
LEMMA WriteTyped ==
  ASSUME TypeOK, NEW a \in Admins, NEW x \in Ids, NEW k \in Keys(x), NEW then \in Requests,
         x \in Rows \/ SlugFree(x), Write(a, x, k, then), made' \in 0 .. MaxRequests
  PROVE  TypeOK'
<1>1. Schema(links, used) /\ SlugsDiffer(links) /\ Typed
  BY TypesAre
<1>2. links' = Written(links, x, k) /\ used' = used \cup {x}
  BY WriteIs
<1>3. Schema(links', used')
  BY <1>1, <1>2, WriteKeepsSchema DEF Write, Satisfied, Rows
<1>4. SlugsDiffer(links')
  BY <1>1, <1>2 DEF SlugsDiffer, Written, SlugFree, Rows
<1>5. admin' \in [Admins -> Requests]
  BY <1>1, OvertakenTyped DEF Write, Typed
<1>6. Typed'
  BY <1>1, <1>5 DEF Write, Typed
<1> QED BY <1>3, <1>4, <1>6, TypesAre DEF TypeOK, Typed, Schema, SlugsDiffer, Satisfied, Rows

LEMMA RequestTyped ==
  ASSUME TypeOK, NEW a \in Admins, NEW request \in Requests,
         admin' = [admin EXCEPT ![a] = request], UNCHANGED <<links, used, raced>>,
         made' \in 0 .. MaxRequests
  PROVE  TypeOK'
BY DEF TypeOK, Satisfied, Rows

LEMMA Counting ==
  ASSUME TypeOK, made < MaxRequests PROVE made + 1 \in 0 .. MaxRequests
BY CatalogAssumption DEF TypeOK

Deletes ==
  [op : {"delete"}, row : Ids, uncounted : SUBSET {Categories, Series, Products}, late : BOOLEAN]
Moves == [op : {"move"}, row : Categories, parent : Categories]
Imports == [op : {"import"}, found : Products \cup {None, "unknown"}, rows : Seq(SheetRows)]

LEMMA RequestOf ==
  ASSUME TypeOK, NEW a \in Admins
  PROVE  /\ admin[a] \in Requests
         /\ admin[a].op = "move" => admin[a] \in Moves
         /\ admin[a].op = "delete" => admin[a] \in Deletes
         /\ admin[a].op = "import" => admin[a] \in Imports
<1>1. admin[a] \in Requests
  BY DEF TypeOK
<1>2. admin[a] \in {Idle} \cup Moves \cup Deletes \cup Imports
  BY <1>1 DEF Requests, Moves, Deletes, Imports
<1>3. /\ \A q \in Moves : q.op = "move"
      /\ \A q \in Deletes : q.op = "delete"
      /\ \A q \in Imports : q.op = "import"
      /\ Idle.op = "idle"
  BY DEF Moves, Deletes, Imports, Idle
<1> QED BY <1>1, <1>2, <1>3

LEMMA OpsAre == Idle \in Requests /\ Moves \cup Deletes \cup Imports \subseteq Requests
BY DEF Requests, Moves, Deletes, Imports

LEMMA ReferencesTyped ==
  ASSUME NEW r \in Ids PROVE ReferenceCounts(r) \in SUBSET {Categories, Series, Products}
BY DEF ReferenceCounts, categoryReferenceCounts, manufacturerReferenceCounts,
       seriesReferenceCounts, productReferenceCounts, Ids

LEMMA SheetsAre == Sheets \subseteq Seq(SheetRows)
<1> SUFFICES ASSUME NEW n \in 0 .. MaxRows, NEW sheet \in [1 .. n -> Resolved]
             PROVE  sheet \in Seq(SheetRows)
  BY DEF Sheets
<1>1. n \in Nat /\ \A i \in 1 .. n : sheet[i] \in SheetRows
  BY CatalogAssumption DEF Resolved
<1> QED BY <1>1

LEMMA SheetKeys ==
  ASSUME NEW row \in SheetRows, NEW p \in Products PROVE row.keys \in Keys(p)
BY KeysAre DEF SheetRows

(* The row an import has come to, and what is left after it.               *)
LEMMA ImportRow ==
  ASSUME TypeOK, NEW a \in Admins, Importing(a), admin[a].rows # <<>>
  PROVE  /\ admin[a] \in Imports /\ Head(admin[a].rows) \in SheetRows
         /\ NextRow(admin[a]) \in Imports
<1>1. admin[a] \in Imports
  BY RequestOf DEF Importing
<1>2. Head(admin[a].rows) \in SheetRows /\ Tail(admin[a].rows) \in Seq(SheetRows)
  BY <1>1, HeadTailProperties DEF Imports
<1>3. [admin[a] EXCEPT !.found = "unknown", !.rows = Tail(admin[a].rows)] \in Imports
  BY <1>1, <1>2 DEF Imports
<1> QED BY <1>1, <1>2, <1>3 DEF NextRow

(* The targets of an import are products: those there are, or new ones     *)
(* with a slug that is free.                                               *)
LEMMA TargetsAre ==
  ASSUME NEW a, admin[a] \in Imports, Importing(a), NEW p \in ImportTargets(admin[a])
  PROVE  p \in Products /\ (p \in Rows \/ (p \notin used /\ SlugFree(p)))
<1>1. admin[a].found \in Products \cup {None, "unknown"} /\ admin[a].found # "unknown"
  BY DEF Imports, Importing
<1>2. CASE admin[a].found = None
  BY <1>2 DEF ImportTargets
<1>3. CASE admin[a].found # None
  BY <1>1, <1>3 DEF ImportTargets
<1> QED BY <1>2, <1>3

-----------------------------------------------------------------------------
(* An import stands at a row until it has written it or given it up.       *)
RowAtHand == \A a \in Admins : Importing(a) => admin[a].rows # <<>>

TypeInv == TypeOK /\ RowAtHand

LEMMA OthersKeepRows ==
  ASSUME TypeInv, NEW a \in Admins, NEW then, then.op = "import" /\ then.found # "unknown" => then.rows # <<>>,
         \/ admin' = [admin EXCEPT ![a] = then]
         \/ \E x, k : admin' = [b \in Admins |-> IF b = a THEN then ELSE Overtaken(admin[b], x, k)]
  PROVE  RowAtHand'
<1> SUFFICES ASSUME NEW b \in Admins, Importing(b)' PROVE admin'[b].rows # <<>>
  BY DEF RowAtHand
<1>1. CASE b = a
  BY <1>1 DEF Importing, TypeInv, TypeOK
<1>2. CASE b # a
  <2>1. admin'[b] = admin[b] \/ \E x, k : admin'[b] = Overtaken(admin[b], x, k)
    BY <1>2 DEF TypeInv, TypeOK
  <2>2. admin'[b].op = "delete" \/ admin'[b] = admin[b]
    <3>1. ASSUME admin[b].op = "delete"
          PROVE  [admin[b] EXCEPT !.late = TRUE].op = "delete"
      <4>1. admin[b] \in Deletes
        BY <3>1, RequestOf DEF TypeInv
      <4> QED BY <4>1 DEF Deletes
    <3> QED BY <2>1, <3>1 DEF Overtaken
  <2> QED BY <1>2, <2>2 DEF Importing, RowAtHand, TypeInv
<1> QED BY <1>1, <1>2

(* What a request does not write leaves the catalogue alone.               *)
LEMMA AsksTyped ==
  ASSUME TypeInv, NEW a \in Admins, NEW request \in Requests,
         request.op = "import" /\ request.found # "unknown" => request.rows # <<>>,
         admin' = [admin EXCEPT ![a] = request], UNCHANGED <<links, used, raced>>,
         made' \in 0 .. MaxRequests
  PROVE  TypeInv'
BY RequestTyped, OthersKeepRows DEF TypeInv

LEMMA WritesTyped ==
  ASSUME TypeInv, NEW a \in Admins, NEW x \in Ids, NEW k \in Keys(x), NEW then \in Requests,
         then.op = "import" => then.found = "unknown",
         x \in Rows \/ SlugFree(x), Write(a, x, k, then), made' \in 0 .. MaxRequests
  PROVE  TypeInv'
<1>1. TypeOK'
  BY WriteTyped DEF TypeInv
<1>2. \E y, j : admin' = [b \in Admins |-> IF b = a THEN then ELSE Overtaken(admin[b], y, j)]
  BY DEF Write
<1>3. RowAtHand'
  BY <1>2, OthersKeepRows
<1> QED BY <1>1, <1>3 DEF TypeInv

LEMMA FormsTyped ==
  ASSUME TypeInv, NEW a \in Admins, NEW r \in Ids,
         Create(a, r) \/ Update(a, r) \/ askDelete(a, r)
  PROVE  TypeInv'
<1>1. Idle \in Requests /\ Idle.op = "idle" /\ TypeOK
  BY OpsAre DEF Idle, TypeInv
<1>2. CASE Create(a, r)
  BY <1>1, <1>2, WritesTyped, Counting DEF Create, Request
<1>3. CASE Update(a, r)
  BY <1>1, <1>3, WritesTyped, Counting DEF Update, Request
<1>4. CASE askDelete(a, r)
  <2>1. [op |-> "delete", row |-> r, uncounted |-> ReferenceCounts(r), late |-> FALSE] \in Deletes
    BY ReferencesTyped DEF Deletes
  <2> QED BY <1>1, <1>4, <2>1, AsksTyped, OpsAre, Counting DEF askDelete, Begin
<1> QED BY <1>2, <1>3, <1>4

LEMMA MovesTyped ==
  ASSUME TypeInv, NEW a \in Admins,
         \/ moveCategory(a) \/ moveRefused(a)
         \/ \E c \in Categories :
              makeRootCategory(a, c) \/ \E p \in Categories : checkCategoryMove(a, c, p)
  PROVE  TypeInv'
<1>1. Idle \in Requests /\ Idle.op = "idle" /\ TypeOK /\ made \in 0 .. MaxRequests
  BY OpsAre DEF Idle, TypeInv, TypeOK
<1>2. CASE moveCategory(a)
  <2>1. admin[a] \in Moves
    BY <1>1, <1>2, RequestOf DEF moveCategory
  <2>2. [parent |-> admin[a].parent] \in Keys(admin[a].row) /\ admin[a].row \in Ids
    BY <2>1, KeysAre DEF Moves, Ids
  <2> QED BY <1>1, <1>2, <2>2, WritesTyped DEF moveCategory
<1>3. CASE moveRefused(a)
  BY <1>1, <1>3, AsksTyped DEF moveRefused
<1>4. ASSUME NEW c \in Categories, makeRootCategory(a, c) PROVE TypeInv'
  <2>1. [parent |-> None] \in Keys(c) /\ c \in Ids
    BY KeysAre DEF Ids
  <2> QED BY <1>1, <1>4, <2>1, WritesTyped, Counting DEF makeRootCategory, Request
<1>5. ASSUME NEW c \in Categories, NEW p \in Categories, checkCategoryMove(a, c, p)
      PROVE  TypeInv'
  <2>1. [op |-> "move", row |-> c, parent |-> p] \in Moves
    BY DEF Moves
  <2> QED BY <1>1, <1>5, <2>1, AsksTyped, OpsAre, Counting DEF checkCategoryMove, Begin
<1> QED BY <1>2, <1>3, <1>4, <1>5

LEMMA ImportsTyped ==
  ASSUME TypeInv, NEW a \in Admins,
         \/ processImport(a) \/ importLookup(a) \/ upsertProductFromImport(a)
         \/ importRowFails(a) \/ importDone(a)
  PROVE  TypeInv'
<1>1. Idle \in Requests /\ Idle.op = "idle" /\ TypeOK /\ made \in 0 .. MaxRequests
  BY OpsAre DEF Idle, TypeInv, TypeOK
<1>2. CASE processImport(a)
  <2>1. PICK sheet \in Sheets : Begin(a, [op |-> "import", found |-> "unknown", rows |-> sheet])
    BY <1>2 DEF processImport
  <2>2. [op |-> "import", found |-> "unknown", rows |-> sheet] \in Imports
    BY SheetsAre DEF Imports
  <2> QED BY <1>1, <1>2, <2>1, <2>2, AsksTyped, OpsAre, Counting DEF processImport, Begin
<1>3. CASE importLookup(a)
  <2>1. admin[a] \in Imports /\ admin[a].rows # <<>>
    BY <1>1, <1>3, RequestOf DEF importLookup
  <2>2. PICK found \in Products \cup {None} : admin' = [admin EXCEPT ![a].found = found]
    BY <1>3 DEF importLookup
  <2> DEFINE next == [admin[a] EXCEPT !.found = found]
  <2>3. admin' = [admin EXCEPT ![a] = next]
    BY <2>2
  <2>4. next \in Imports /\ next.rows # <<>>
    BY <2>1 DEF Imports
  <2> QED BY <1>1, <1>3, <2>3, <2>4, AsksTyped, OpsAre DEF importLookup
<1>4. ASSUME Importing(a) PROVE admin[a] \in Imports /\ admin[a].rows # <<>>
                                /\ Head(admin[a].rows) \in SheetRows
                                /\ NextRow(admin[a]) \in Imports
                                /\ NextRow(admin[a]).found = "unknown"
  <2>1. admin[a].rows # <<>>
    BY <1>4 DEF TypeInv, RowAtHand
  <2>2. admin[a] \in Imports /\ Head(admin[a].rows) \in SheetRows /\ NextRow(admin[a]) \in Imports
    BY <1>1, <1>4, <2>1, ImportRow
  <2>3. NextRow(admin[a]).found = "unknown"
    BY <2>2 DEF NextRow, Imports
  <2> QED BY <2>1, <2>2, <2>3
<1>5. CASE upsertProductFromImport(a)
  <2>1. Importing(a)
    BY <1>5 DEF upsertProductFromImport
  <2>2. PICK p \in ImportTargets(admin[a]) :
          Write(a, p, Head(admin[a].rows).keys, NextRow(admin[a]))
    BY <1>5 DEF upsertProductFromImport
  <2>3. p \in Products /\ (p \in Rows \/ SlugFree(p)) /\ p \in Ids
    BY <1>4, <2>1, <2>2, TargetsAre DEF Ids
  <2>4. Head(admin[a].rows).keys \in Keys(p)
    BY <1>4, <2>1, <2>3, SheetKeys
  <2>5. NextRow(admin[a]) \in Requests
    BY <1>4, <2>1, OpsAre
  <2>6. made' = made
    BY <1>5 DEF upsertProductFromImport
  <2> QED BY <1>1, <1>4, <2>1, <2>2, <2>3, <2>4, <2>5, <2>6, WritesTyped
<1>6. CASE importRowFails(a)
  <2>1. admin' = [admin EXCEPT ![a] = NextRow(admin[a])] /\ Importing(a)
    BY <1>6 DEF importRowFails
  <2> QED BY <1>1, <1>4, <1>6, <2>1, AsksTyped, OpsAre DEF importRowFails
<1>7. CASE importDone(a)
  BY <1>1, <1>7, AsksTyped DEF importDone
<1> QED BY <1>2, <1>3, <1>5, <1>6, <1>7

LEMMA CountsTyped ==
  ASSUME TypeInv, NEW a \in Admins, NEW S, countReferences(a, S)
  PROVE  TypeInv'
<1>1. Idle \in Requests /\ Idle.op = "idle" /\ TypeOK /\ made' \in 0 .. MaxRequests
  BY OpsAre DEF Idle, TypeInv, TypeOK, countReferences
<1>2. admin[a] \in Deletes
  BY <1>1, RequestOf DEF countReferences
<1>3. [admin[a] EXCEPT !.uncounted = admin[a].uncounted \ {S}] \in Deletes
  BY <1>2 DEF Deletes
<1> DEFINE next == IF \E x \in S \cap Rows : PointsAt(x, admin[a].row) THEN Idle
                   ELSE [admin[a] EXCEPT !.uncounted = admin[a].uncounted \ {S}]
<1>4. next \in Requests /\ next.op # "import"
  BY <1>1, <1>3, OpsAre DEF Deletes
<1>5. admin' = [admin EXCEPT ![a] = next] /\ UNCHANGED <<links, used, raced>>
  BY DEF countReferences
<1> HIDE DEF next
<1> QED BY <1>1, <1>4, <1>5, AsksTyped

LEMMA DeleteIs ==
  ASSUME NEW a \in Admins, deleteRow(a)
  PROVE  /\ links' = IF Restricted(admin[a].row) THEN links ELSE Detached(links, admin[a].row)
         /\ admin' = [admin EXCEPT ![a] = Idle] /\ UNCHANGED <<used, made, raced>>
BY DEF deleteRow, Detached, Rows, Fields

LEMMA DeletesTyped ==
  ASSUME TypeInv, NEW a \in Admins, deleteRow(a)
  PROVE  TypeInv'
<1>1. Idle \in Requests /\ Idle.op = "idle" /\ TypeOK
  BY OpsAre DEF Idle, TypeInv
<1>2. admin[a] \in Deletes
  BY <1>1, RequestOf DEF deleteRow, Counted
<1>3. Schema(links, used) /\ SlugsDiffer(links) /\ Typed
  BY <1>1, TypesAre
<1>4. Schema(links', used') /\ DOMAIN links' \subseteq DOMAIN links
  <2>1. CASE Restricted(admin[a].row)
    BY <1>3, <2>1, DeleteIs
  <2>2. CASE ~Restricted(admin[a].row)
    <3>1. links' = Detached(links, admin[a].row) /\ used' = used
      BY <2>2, DeleteIs
    <3>2. Schema(Detached(links, admin[a].row), used)
      BY <1>2, <1>3, <2>2, DeleteKeepsSchema DEF Deletes, Restricted, Rows, Fields
    <3> QED BY <3>1, <3>2 DEF Detached
  <2> QED BY <2>1, <2>2
<1>5. SlugsDiffer(links')
  BY <1>3, <1>4 DEF SlugsDiffer
<1>6. Typed'
  BY <1>1, <1>3, DeleteIs DEF Typed
<1>7. TypeOK'
  BY <1>4, <1>5, <1>6 DEF TypeOK, Typed, Schema, SlugsDiffer, Satisfied, Rows
<1>8. RowAtHand'
  BY <1>1, DeleteIs, OthersKeepRows
<1> QED BY <1>7, <1>8 DEF TypeInv

LEMMA InitTyped == Init => TypeInv
<1> SUFFICES ASSUME Init PROVE TypeInv
  OBVIOUS
<1>1. PICK c \in KeysOf(Categories), m \in KeysOf(Manufacturers), s \in KeysOf(Series), p \in KeysOf(Products) :
        links = [r \in used |-> CASE r \in Categories -> c[r] [] r \in Manufacturers -> m[r]
                                  [] r \in Series -> s[r]     [] r \in Products -> p[r]]
  BY DEF Init
<1>2. Rows = used /\ used \subseteq Ids
  BY <1>1 DEF Init, Rows
<1>3. ASSUME NEW r \in Rows PROVE links[r] \in Keys(r)
  <2>1. /\ \A x, y \in Categories : Keys(x) = Keys(y)
        /\ \A x, y \in Manufacturers : Keys(x) = Keys(y)
        /\ \A x, y \in Series : Keys(x) = Keys(y)
        /\ \A x, y \in Products : Keys(x) = Keys(y)
    BY KeysAre
  <2>2. CASE r \in Categories
    BY <1>1, <1>2, <2>1, <2>2 DEF KeysOf
  <2>3. CASE r \in Manufacturers
    <3>1. links[r] = m[r]
      BY <1>1, <1>2, <2>3, CatalogAssumption
    <3> QED BY <2>1, <2>3, <3>1 DEF KeysOf
  <2>4. CASE r \in Series
    <3>1. links[r] = s[r]
      BY <1>1, <1>2, <2>4, CatalogAssumption
    <3> QED BY <2>1, <2>4, <3>1 DEF KeysOf
  <2>5. CASE r \in Products
    <3>1. links[r] = p[r]
      BY <1>1, <1>2, <2>5, CatalogAssumption
    <3> QED BY <2>1, <2>5, <3>1 DEF KeysOf
  <2> QED BY <1>2, <2>2, <2>3, <2>4, <2>5 DEF Ids
<1>4. admin \in [Admins -> Requests] /\ RowAtHand
  BY OpsAre DEF Init, RowAtHand, Importing, Idle
<1>5. made \in 0 .. MaxRequests /\ raced \in BOOLEAN
  <2>1. made = 0 /\ raced = FALSE
    BY DEF Init
  <2>2. raced \in BOOLEAN
    BY <2>1
  <2>3. made \in 0 .. MaxRequests
    BY <2>1, CatalogAssumption
  <2> QED BY <2>2, <2>3
<1> QED BY <1>2, <1>3, <1>4, <1>5 DEF Init, TypeInv, TypeOK

LEMMA TypesStand == Spec => []TypeInv
<1>1. TypeInv /\ [Next]_vars => TypeInv'
  <2> SUFFICES ASSUME TypeInv, [Next]_vars PROVE TypeInv'
    OBVIOUS
  <2>1. ASSUME NEW a \in Admins, NEW r \in Ids, Create(a, r) \/ Update(a, r) \/ askDelete(a, r)
        PROVE  TypeInv'
    BY <2>1, FormsTyped
  <2>2. ASSUME NEW a \in Admins, NEW S, countReferences(a, S) PROVE TypeInv'
    BY <2>2, CountsTyped
  <2>3. ASSUME NEW a \in Admins, deleteRow(a) PROVE TypeInv'
    BY <2>3, DeletesTyped
  <2>4. CASE UNCHANGED vars
    BY <2>4 DEF vars, TypeInv, TypeOK, RowAtHand, Importing, Satisfied, SlugFree, Rows
  <2> QED BY <2>1, <2>2, <2>3, <2>4, MovesTyped, ImportsTyped
          DEF Next, createCategory, createManufacturer, createSeries, createProduct,
              updateSeries, updateProduct
<1> QED BY InitTyped, <1>1, PTL DEF Spec

(* Every variable keeps its type; whatever the requests of administrators  *)
(* interleave to, a row points only at rows that are there and no two      *)
(* products have a slug in common.                                         *)
THEOREM CatalogTypes == Spec => []TypeOK
<1>1. TypeInv => TypeOK
  BY DEF TypeInv
<1> QED BY <1>1, TypesStand, PTL

-----------------------------------------------------------------------------
(* What the checks stand for. The check of a move holds until the move is  *)
(* written, whatever rows come and go: only another move can undo it. And  *)
(* what points at the row of a delete has yet to be counted.               *)

MovesStand ==
  \A a \in Admins : admin[a].op = "move" =>
    /\ admin[a].row \in used /\ admin[a].parent \in used
    /\ Blocked(links, admin[a].row, admin[a].parent)

CountStands(L, request) ==
  request.op = "delete" /\ ~request.late =>
    \A x \in DOMAIN L : (\E f \in DOMAIN L[x] : L[x][f] = request.row) => \E S \in request.uncounted : x \in S

CountsStand == \A a \in Admins : CountStands(links, admin[a])

RaceInv == (~raced => Tree(links) /\ MovesStand) /\ CountsStand

(* A write is overtaken by no move and takes no delete for one.            *)
LEMMA WriteMoves ==
  ASSUME TypeInv, NEW a \in Admins, NEW x, NEW k, NEW then, then.op # "move",
         Write(a, x, k, then), NEW b \in Admins, admin'[b].op = "move"
  PROVE  b # a /\ admin'[b] = admin[b]
<1>1. admin'[b] = IF b = a THEN then ELSE Overtaken(admin[b], x, k)
  BY DEF Write
<1>2. ASSUME admin[b].op = "delete" PROVE [admin[b] EXCEPT !.late = TRUE].op = "delete"
  <2>1. admin[b] \in Deletes
    BY <1>2, RequestOf DEF TypeInv
  <2> QED BY <2>1 DEF Deletes
<1> QED BY <1>1, <1>2 DEF Overtaken

(* Neither a new row nor one that is not a category concerns a check.      *)
LEMMA WriteKeepsMoves ==
  ASSUME TypeInv, Tree(links), MovesStand,
         NEW a \in Admins, NEW x \in Ids, NEW k \in Keys(x), NEW then, then.op # "move",
         x \notin used \/ x \notin Categories, Write(a, x, k, then)
  PROVE  Tree(links') /\ MovesStand'
<1>1. Schema(links, used)
  BY TypesAre DEF TypeInv
<1>2. links' = Written(links, x, k) /\ used' = used \cup {x}
  BY WriteIs
<1>3. \A f \in DOMAIN k : k[f] \in DOMAIN links \cup {None}
  BY DEF Write, Satisfied, Rows
<1>4. /\ Tree(links) => Tree(links')
      /\ \A c, p \in used : Blocked(links, c, p) => Blocked(links', c, p)
  <2>1. CASE x \notin used
    BY <1>1, <1>2, <1>3, <2>1, CreateKeepsTree
  <2>2. CASE x \notin Categories
    BY <1>1, <1>2, <2>2, OtherRowsKeepTree
  <2> QED BY <2>1, <2>2
<1>5. ASSUME NEW b \in Admins, admin'[b].op = "move"
      PROVE  /\ admin'[b].row \in used' /\ admin'[b].parent \in used'
             /\ Blocked(links', admin'[b].row, admin'[b].parent)
  <2>1. admin'[b] = admin[b]
    BY <1>5, WriteMoves
  <2> QED BY <1>2, <1>4, <1>5, <2>1 DEF MovesStand
<1> QED BY <1>4, <1>5 DEF MovesStand

(* A category that is there moves behind the back of every other move.     *)
LEMMA MoveRaces ==
  ASSUME TypeInv, NEW a \in Admins, NEW x \in Categories \cap Rows, NEW k,
         Write(a, x, k, Idle), ~raced'
  PROVE  MovesStand' /\ ~raced
<1>1. x \in used
  BY DEF TypeInv, TypeOK
<1>2. ~raced /\ \A b \in Admins \ {a} : admin[b].op # "move"
  BY <1>1 DEF Write
<1>3. \A b \in Admins : admin'[b].op # "move"
  BY <1>2, WriteMoves DEF Idle
<1> QED BY <1>2, <1>3 DEF MovesStand

LEMMA AskKeepsMoves ==
  ASSUME TypeInv, MovesStand, NEW a \in Admins, NEW request,
         admin' = [admin EXCEPT ![a] = request], UNCHANGED <<links, used>>,
         request.op = "move" =>
           /\ request.row \in used /\ request.parent \in used
           /\ Blocked(links, request.row, request.parent)
  PROVE  MovesStand'
<1> SUFFICES ASSUME NEW b \in Admins, admin'[b].op = "move"
             PROVE  /\ admin'[b].row \in used /\ admin'[b].parent \in used
                    /\ Blocked(links, admin'[b].row, admin'[b].parent)
  BY DEF MovesStand
<1>1. admin'[b] = IF b = a THEN request ELSE admin[b]
  BY DEF TypeInv, TypeOK
<1> QED BY <1>1 DEF MovesStand

(* One move at a time leaves the tree a tree.                              *)
LEMMA MovesKeepTree ==
  ASSUME TypeInv, Tree(links), MovesStand, NEW a \in Admins, ~raced',
         \/ moveCategory(a) \/ moveRefused(a)
         \/ \E c \in Categories :
              makeRootCategory(a, c) \/ \E p \in Categories : checkCategoryMove(a, c, p)
  PROVE  Tree(links') /\ MovesStand'
<1>1. Schema(links, used)
  BY TypesAre DEF TypeInv
<1>2. CASE moveCategory(a)
  <2> DEFINE c == admin[a].row
             p == admin[a].parent
  <2>1. Write(a, c, [parent |-> p], Idle) /\ admin[a].op = "move" /\ c \in Rows
    BY <1>2 DEF moveCategory
  <2>2. c \in Categories /\ p \in Categories
    BY <2>1, RequestOf DEF TypeInv, Moves
  <2>3. p \in DOMAIN links
    <3>1. p \in Rows \cup {None}
      BY <2>1 DEF Write, Satisfied
    <3> QED BY <2>2, <3>1, CatalogAssumption DEF Ids, Rows
  <2>4. Blocked(links, c, p)
    BY <2>1 DEF MovesStand
  <2>5. links' = Written(links, c, [parent |-> p])
    BY <2>1, WriteIs
  <2>6. c \in Categories \cap DOMAIN links
    BY <2>1, <2>2 DEF Rows
  <2> HIDE DEF c, p
  <2>7. Tree(links')
    BY <1>1, <2>2, <2>3, <2>4, <2>5, <2>6, MoveKeepsTree
  <2>8. MovesStand'
    BY <2>1, <2>2, MoveRaces
  <2> QED BY <2>7, <2>8
<1>3. CASE moveRefused(a)
  <2>1. MovesStand'
    BY <1>3, AskKeepsMoves DEF moveRefused, Idle
  <2> QED BY <1>3, <2>1 DEF moveRefused
<1>4. ASSUME NEW c \in Categories, makeRootCategory(a, c) PROVE Tree(links') /\ MovesStand'
  <2>1. Write(a, c, [parent |-> None], Idle) /\ c \in Rows
    BY <1>4 DEF makeRootCategory
  <2>2. Tree(links')
    BY <2>1, WriteIs, RootKeepsTree DEF Rows
  <2> QED BY <2>1, <2>2, MoveRaces
<1>5. ASSUME NEW c \in Categories, NEW p \in Categories, checkCategoryMove(a, c, p)
      PROVE  Tree(links') /\ MovesStand'
  <2>1. Blocked(links, c, p) /\ c \in used /\ p \in used
    BY <1>5, CheckedIsBlocked DEF checkCategoryMove
  <2> DEFINE request == [op |-> "move", row |-> c, parent |-> p]
  <2>2. request.row = c /\ request.parent = p
    OBVIOUS
  <2>3. admin' = [admin EXCEPT ![a] = request] /\ UNCHANGED <<links, used>>
    BY <1>5 DEF checkCategoryMove, Begin
  <2> HIDE DEF request
  <2>4. MovesStand'
    BY <2>1, <2>2, <2>3, AskKeepsMoves
  <2> QED BY <2>3, <2>4
<1> QED BY <1>2, <1>3, <1>4, <1>5

LEMMA DeletesKeepTree ==
  ASSUME TypeInv, Tree(links), MovesStand, NEW a \in Admins, deleteRow(a)
  PROVE  Tree(links') /\ MovesStand'
<1>1. Schema(links, used)
  BY TypesAre DEF TypeInv
<1>2. admin[a].row \in Ids
  BY RequestOf DEF deleteRow, Counted, Deletes, TypeInv
<1>3. /\ Tree(links')
      /\ \A c, p : c # None /\ Blocked(links, c, p) => Blocked(links', c, p)
  BY <1>1, <1>2, DeleteIs, DeleteKeepsTree
<1>4. ASSUME NEW b \in Admins, admin'[b].op = "move"
      PROVE  /\ admin'[b].row \in used' /\ admin'[b].parent \in used'
             /\ Blocked(links', admin'[b].row, admin'[b].parent)
  <2>1. admin'[b] = admin[b] /\ used' = used
    BY <1>4, DeleteIs DEF TypeInv, TypeOK, Idle
  <2>2. admin[b].row # None
    BY <1>4, <2>1, RequestOf, CatalogAssumption DEF TypeInv, Moves, Ids
  <2> QED BY <1>3, <1>4, <2>1, <2>2 DEF MovesStand
<1> QED BY <1>3, <1>4 DEF MovesStand

(* An import that writes nothing changes its own request only.             *)
LEMMA ImportAsks ==
  ASSUME TypeInv, NEW a \in Admins,
         processImport(a) \/ importLookup(a) \/ importRowFails(a) \/ importDone(a)
  PROVE  \E request : /\ admin' = [admin EXCEPT ![a] = request]
                      /\ request.op \notin {"move", "delete"}
<1>1. CASE processImport(a)
  <2>1. PICK sheet \in Sheets :
          admin' = [admin EXCEPT ![a] = [op |-> "import", found |-> "unknown", rows |-> sheet]]
    BY <1>1 DEF processImport, Begin
  <2>2. [op |-> "import", found |-> "unknown", rows |-> sheet].op \notin {"move", "delete"}
    OBVIOUS
  <2> QED BY <2>1, <2>2
<1>2. CASE importLookup(a)
  <2>1. PICK f : admin' = [admin EXCEPT ![a].found = f]
    BY <1>2 DEF importLookup
  <2>2. admin[a] \in Imports
    BY <1>2, RequestOf DEF importLookup, TypeInv
  <2>3. [admin[a] EXCEPT !.found = f].op \notin {"move", "delete"}
    BY <2>2 DEF Imports
  <2> QED BY <2>1, <2>3
<1>3. CASE importRowFails(a)
  <2>1. Importing(a) /\ admin[a].rows # <<>> /\ TypeOK
    BY <1>3 DEF importRowFails, TypeInv, RowAtHand
  <2>2. NextRow(admin[a]).op \notin {"move", "delete"}
    BY <2>1, ImportRow DEF Imports
  <2> QED BY <1>3, <2>2 DEF importRowFails
<1>4. CASE importDone(a)
  <2>1. Idle.op \notin {"move", "delete"}
    BY DEF Idle
  <2> QED BY <1>4, <2>1 DEF importDone
<1> QED BY <1>1, <1>2, <1>3, <1>4

LEMMA ImportsKeepTree ==
  ASSUME TypeInv, Tree(links), MovesStand, NEW a \in Admins,
         \/ processImport(a) \/ importLookup(a) \/ upsertProductFromImport(a)
         \/ importRowFails(a) \/ importDone(a)
  PROVE  Tree(links') /\ MovesStand'
<1>1. CASE upsertProductFromImport(a)
  <2>1. Importing(a) /\ admin[a].rows # <<>> /\ TypeOK
    BY <1>1 DEF upsertProductFromImport, TypeInv, RowAtHand
  <2>2. admin[a] \in Imports /\ Head(admin[a].rows) \in SheetRows /\ NextRow(admin[a]) \in Imports
    BY <2>1, ImportRow
  <2>3. PICK p \in ImportTargets(admin[a]) :
          Write(a, p, Head(admin[a].rows).keys, NextRow(admin[a]))
    BY <1>1 DEF upsertProductFromImport
  <2>4. p \in Products /\ p \in Ids /\ p \notin Categories
    BY <2>1, <2>2, <2>3, TargetsAre, CatalogAssumption DEF Ids
  <2>5. Head(admin[a].rows).keys \in Keys(p) /\ NextRow(admin[a]).op # "move"
    BY <2>2, <2>4, SheetKeys DEF Imports
  <2> QED BY <2>3, <2>4, <2>5, WriteKeepsMoves
<1>2. CASE processImport(a) \/ importLookup(a) \/ importRowFails(a) \/ importDone(a)
  <2>1. UNCHANGED <<links, used>>
    BY <1>2 DEF processImport, importLookup, importRowFails, importDone
  <2>2. PICK request : admin' = [admin EXCEPT ![a] = request] /\ request.op # "move"
    BY <1>2, ImportAsks
  <2> QED BY <2>1, <2>2, AskKeepsMoves
<1> QED BY <1>1, <1>2

-----------------------------------------------------------------------------
(* The counts.                                                             *)

(* A delete begins with a count for every table that can point at its row. *)
LEMMA CountsAreComplete ==
  ASSUME NEW L, NEW u, Schema(L, u), NEW r \in Ids, NEW x \in DOMAIN L, NEW f \in DOMAIN L[x],
         L[x][f] = r
  PROVE  \E S \in ReferenceCounts(r) : x \in S
<1>1. r # None /\ x \in Ids /\ L[x] \in Keys(x)
  BY CatalogAssumption DEF Schema
<1>2. CASE x \in Categories
  <2>1. L[x] \in [parent : Categories \cup {None}]
    BY <1>1, <1>2, KeysAre
  <2>2. r \in Categories
    BY <1>1, <2>1
  <2> QED BY <1>2, <2>2, CatalogAssumption 
         DEF ReferenceCounts, categoryReferenceCounts
<1>3. CASE x \in Manufacturers
  BY <1>1, <1>3, KeysAre
<1>4. CASE x \in Series
  <2>1. L[x] \in [manufacturer : Manufacturers]
    BY <1>1, <1>4, KeysAre
  <2>2. r \in Manufacturers
    BY <2>1
  <2> QED BY <1>4, <2>2, CatalogAssumption DEF ReferenceCounts, manufacturerReferenceCounts
<1>5. CASE x \in Products
  <2>1. L[x] \in [manufacturer : Manufacturers, category : Categories, series : Series \cup {None}]
    BY <1>1, <1>5, KeysAre
  <2>2. r \in Categories \cup Manufacturers \cup Series
    BY <1>1, <2>1
  <2>3. Products \in ReferenceCounts(r)
    BY <2>2, CatalogAssumption DEF ReferenceCounts, categoryReferenceCounts,
                                   manufacturerReferenceCounts, seriesReferenceCounts
  <2> QED BY <1>5, <2>3
<1> QED BY <1>1, <1>2, <1>3, <1>4, <1>5 DEF Ids

(* Who writes a reference behind a count makes the delete late.            *)
LEMMA WriteKeepsCounts ==
  ASSUME TypeInv, CountsStand, NEW a \in Admins, NEW x, NEW k, NEW then,
         then.op # "delete", Write(a, x, k, then)
  PROVE  CountsStand'
<1> SUFFICES ASSUME NEW b \in Admins PROVE CountStands(links', admin'[b])
  BY DEF CountsStand
<1>1. admin'[b] = (IF b = a THEN then ELSE Overtaken(admin[b], x, k)) /\ links' = Written(links, x, k)
  BY WriteIs DEF Write
<1>2. CASE b = a
  BY <1>1, <1>2 DEF CountStands
<1>3. CASE b # a /\ admin[b].op # "delete"
  BY <1>1, <1>3 DEF CountStands, Overtaken
<1>4. CASE b # a /\ admin[b].op = "delete"
  <2>1. admin[b] \in Deletes
    BY <1>4, RequestOf DEF TypeInv
  <2>2. CASE admin'[b] = [admin[b] EXCEPT !.late = TRUE]
    <3>1. admin'[b].late = TRUE
      BY <2>1, <2>2 DEF Deletes
    <3> QED BY <3>1 DEF CountStands
  <2>3. CASE /\ admin'[b] = admin[b]
             /\ (\E f \in DOMAIN k : k[f] = admin[b].row) => \E S \in admin[b].uncounted : x \in S
    <3>1. CountStands(links, admin[b])
      BY DEF CountsStand
    <3> QED BY <1>1, <2>3, <3>1 DEF CountStands, Written
  <2> QED BY <1>1, <1>4, <2>2, <2>3 DEF Overtaken
<1> QED BY <1>2, <1>3, <1>4

LEMMA AskKeepsCounts ==
  ASSUME TypeInv, CountsStand, NEW a \in Admins, NEW request, CountStands(links, request),
         admin' = [admin EXCEPT ![a] = request], UNCHANGED links
  PROVE  CountsStand'
<1> SUFFICES ASSUME NEW b \in Admins PROVE CountStands(links, admin'[b])
  BY DEF CountsStand
<1>1. admin'[b] = IF b = a THEN request ELSE admin[b]
  BY DEF TypeInv, TypeOK
<1> QED BY <1>1 DEF CountsStand

(* A table that is counted and does not point at the row is ticked off.    *)
LEMMA CountKeepsCounts ==
  ASSUME TypeInv, CountsStand, NEW a \in Admins, NEW S, countReferences(a, S)
  PROVE  CountsStand'
<1>1. admin[a] \in Deletes
  BY RequestOf DEF countReferences, TypeInv
<1>2. CountStands(links, Idle)
  BY DEF CountStands, Idle
<1>3. ASSUME ~\E x \in S \cap Rows : PointsAt(x, admin[a].row)
      PROVE  CountStands(links, [admin[a] EXCEPT !.uncounted = admin[a].uncounted \ {S}])
  <2> DEFINE next == [admin[a] EXCEPT !.uncounted = admin[a].uncounted \ {S}]
  <2>1. /\ next.op = admin[a].op /\ next.late = admin[a].late /\ next.row = admin[a].row
        /\ next.uncounted = admin[a].uncounted \ {S}
    BY <1>1 DEF Deletes
  <2>2. CountStands(links, admin[a])
    BY DEF CountsStand
  <2> HIDE DEF next
  <2> QED BY <1>3, <2>1, <2>2 DEF CountStands, PointsAt, Rows, Fields
<1>4. PICK next :
        admin' = [admin EXCEPT ![a] = next] /\ CountStands(links, next) /\ UNCHANGED links
  BY <1>2, <1>3 DEF countReferences
<1> QED BY <1>4, AskKeepsCounts

(* A delete points nothing anywhere.                                       *)
LEMMA DeleteKeepsCounts ==
  ASSUME TypeInv, CountsStand, NEW a \in Admins, deleteRow(a)
  PROVE  CountsStand'
<1> DEFINE r == admin[a].row
<1>1. CASE Restricted(r)
  BY <1>1, DeleteIs, AskKeepsCounts DEF CountStands, Idle
<1>2. CASE ~Restricted(r)
  <2>1. links' = Detached(links, r) /\ admin' = [admin EXCEPT ![a] = Idle]
    BY <1>2, DeleteIs
  <2> SUFFICES ASSUME NEW b \in Admins, b # a, admin[b].op = "delete", ~admin[b].late,
                      NEW x \in DOMAIN links', NEW f \in DOMAIN links'[x],
                      links'[x][f] = admin[b].row
               PROVE  \E S \in admin[b].uncounted : x \in S
    BY <2>1 DEF CountsStand, CountStands, Idle, TypeInv, TypeOK
  <2>2. admin[b].row # None
    BY RequestOf, CatalogAssumption DEF TypeInv, Deletes
  <2>3. x \in DOMAIN links /\ f \in DOMAIN links[x] /\ links[x][f] = admin[b].row
    BY <2>1, <2>2 DEF Detached
  <2> QED BY <2>3 DEF CountsStand, CountStands
<1> QED BY <1>1, <1>2

LEMMA InitRaceInv == Init => RaceInv
<1> SUFFICES ASSUME Init PROVE RaceInv
  OBVIOUS
<1>1. Tree(links)
  BY TreeIsRooted DEF Init
<1>2. \A a \in Admins : admin[a] = Idle
  BY DEF Init
<1> QED BY <1>1, <1>2 DEF RaceInv, MovesStand, CountsStand, CountStands, Idle

(* Each step keeps the tree while no moves have raced.                     *)
LEMMA NextKeepsTree ==
  ASSUME TypeInv, Tree(links), MovesStand, Next, ~raced'
  PROVE  Tree(links') /\ MovesStand'
<1>1. ASSUME NEW a \in Admins, NEW r \in Ids, Create(a, r) PROVE Tree(links') /\ MovesStand'
  <2>1. Idle.op # "move"
    BY DEF Idle
  <2> QED BY <1>1, <2>1, WriteKeepsMoves DEF Create
<1>2. ASSUME NEW a \in Admins, NEW r \in Series \cup Products, Update(a, r)
      PROVE  Tree(links') /\ MovesStand'
  <2>1. Idle.op # "move" /\ r \in Ids /\ r \notin Categories
    BY CatalogAssumption DEF Idle, Ids
  <2> QED BY <1>2, <2>1, WriteKeepsMoves DEF Update
<1>3. ASSUME NEW a \in Admins, NEW r \in Ids, askDelete(a, r)
      PROVE  Tree(links') /\ MovesStand'
  <2> DEFINE request == [op |-> "delete", row |-> r, uncounted |-> ReferenceCounts(r), late |-> FALSE]
  <2>1. request.op # "move"
    OBVIOUS
  <2>2. admin' = [admin EXCEPT ![a] = request] /\ UNCHANGED <<links, used>>
    BY <1>3 DEF askDelete, Begin
  <2> HIDE DEF request
  <2> QED BY <2>1, <2>2, AskKeepsMoves
<1>4. ASSUME NEW a \in Admins, NEW S, countReferences(a, S) PROVE Tree(links') /\ MovesStand'
  <2>1. admin[a] \in Deletes
    BY <1>4, RequestOf DEF countReferences, TypeInv
  <2>2. Idle.op # "move" /\ [admin[a] EXCEPT !.uncounted = admin[a].uncounted \ {S}].op # "move"
    BY <2>1 DEF Deletes, Idle
  <2>3. PICK next : admin' = [admin EXCEPT ![a] = next] /\ next.op # "move"
    BY <1>4, <2>2 DEF countReferences
  <2> QED BY <1>4, <2>3, AskKeepsMoves DEF countReferences
<1> QED BY <1>1, <1>2, <1>3, <1>4, MovesKeepTree, DeletesKeepTree, ImportsKeepTree
        DEF Next, createCategory, createManufacturer, createSeries, createProduct,
            updateSeries, updateProduct

(* Each step keeps what the counts stand for.                              *)
LEMMA NextKeepsCounts ==
  ASSUME TypeInv, CountsStand, Next
  PROVE  CountsStand'
<1>1. Idle.op # "delete" /\ CountStands(links, Idle)
  BY DEF Idle, CountStands
<1>2. ASSUME NEW a \in Admins, NEW r, Create(a, r) \/ Update(a, r) \/ makeRootCategory(a, r)
      PROVE  CountsStand'
  BY <1>1, <1>2, WriteKeepsCounts DEF Create, Update, makeRootCategory
<1>3. ASSUME NEW a \in Admins, moveCategory(a) PROVE CountsStand'
  BY <1>1, <1>3, WriteKeepsCounts DEF moveCategory
<1>4. ASSUME NEW a \in Admins, NEW r \in Ids, askDelete(a, r) PROVE CountsStand'
  <2> DEFINE request == [op |-> "delete", row |-> r, uncounted |-> ReferenceCounts(r), late |-> FALSE]
  <2>1. Schema(links, used)
    BY TypesAre DEF TypeInv
  <2>2. CountStands(links, request)
    BY <2>1, CountsAreComplete DEF CountStands
  <2>3. admin' = [admin EXCEPT ![a] = request] /\ UNCHANGED links
    BY <1>4 DEF askDelete, Begin
  <2> HIDE DEF request
  <2> QED BY <2>2, <2>3, AskKeepsCounts
<1>5. ASSUME NEW a \in Admins, NEW c, NEW p, checkCategoryMove(a, c, p) PROVE CountsStand'
  <2> DEFINE request == [op |-> "move", row |-> c, parent |-> p]
  <2>1. CountStands(links, request)
    BY DEF CountStands
  <2>2. admin' = [admin EXCEPT ![a] = request] /\ UNCHANGED links
    BY <1>5 DEF checkCategoryMove, Begin
  <2> HIDE DEF request
  <2> QED BY <2>1, <2>2, AskKeepsCounts
<1>6. ASSUME NEW a \in Admins, moveRefused(a) PROVE CountsStand'
  BY <1>1, <1>6, AskKeepsCounts DEF moveRefused
<1>7. ASSUME NEW a \in Admins, upsertProductFromImport(a) PROVE CountsStand'
  <2>1. NextRow(admin[a]).op # "delete"
    <3>1. Importing(a) /\ admin[a].rows # <<>> /\ TypeOK
      BY <1>7 DEF upsertProductFromImport, TypeInv, RowAtHand
    <3> QED BY <3>1, ImportRow DEF Imports
  <2> QED BY <1>7, <2>1, WriteKeepsCounts DEF upsertProductFromImport
<1>8. ASSUME NEW a \in Admins, processImport(a) \/ importLookup(a) \/ importRowFails(a) \/ importDone(a)
      PROVE  CountsStand'
  <2>1. PICK request : admin' = [admin EXCEPT ![a] = request] /\ request.op # "delete"
    BY <1>8, ImportAsks
  <2>2. CountStands(links, request) /\ UNCHANGED links
    BY <1>8, <2>1 DEF CountStands, processImport, importLookup, importRowFails, importDone
  <2> QED BY <2>1, <2>2, AskKeepsCounts
<1> QED BY <1>2, <1>3, <1>4, <1>5, <1>6, <1>7, <1>8, CountKeepsCounts, DeleteKeepsCounts
        DEF Next, createCategory, createManufacturer, createSeries, createProduct,
            updateSeries, updateProduct

LEMMA RacesStay ==
  ASSUME Next, raced PROVE raced'
<1>1. ASSUME NEW a, NEW x, NEW k, NEW then, Write(a, x, k, then) PROVE raced'
  BY <1>1 DEF Write
<1>2. ASSUME NEW a, NEW r, Create(a, r) \/ Update(a, r) \/ askDelete(a, r) PROVE raced'
  BY <1>1, <1>2 DEF Create, Update, askDelete
<1>3. ASSUME NEW a, NEW c, NEW p, makeRootCategory(a, c) \/ checkCategoryMove(a, c, p)
      PROVE  raced'
  BY <1>1, <1>3 DEF makeRootCategory, checkCategoryMove
<1>4. ASSUME NEW a, moveCategory(a) \/ moveRefused(a) \/ deleteRow(a) PROVE raced'
  BY <1>1, <1>4 DEF moveCategory, moveRefused, deleteRow
<1>5. ASSUME NEW a, NEW S, countReferences(a, S) PROVE raced'
  BY <1>5 DEF countReferences
<1>6. ASSUME NEW a,
             \/ processImport(a) \/ importLookup(a) \/ upsertProductFromImport(a)
             \/ importRowFails(a) \/ importDone(a)
      PROVE  raced'
  BY <1>1, <1>6 DEF processImport, importLookup, upsertProductFromImport, importRowFails, importDone
<1> QED BY <1>2, <1>3, <1>4, <1>5, <1>6
        DEF Next, createCategory, createManufacturer, createSeries, createProduct,
            updateSeries, updateProduct

(* No check is overtaken but by a race: unless a move has been written     *)
(* behind the check of another, every category is below a root; and a      *)
(* delete that has counted detaches nothing, unless the reference was      *)
(* written after the count of its table.                                   *)
THEOREM HarmsAreRaces == Spec => []HarmNeedsRace
<1>1. TypeInv /\ RaceInv /\ [Next]_vars => RaceInv'
  <2> SUFFICES ASSUME TypeInv, RaceInv, [Next]_vars PROVE RaceInv'
    OBVIOUS
  <2>1. CASE Next
    <3>1. CountsStand'
      BY <2>1, NextKeepsCounts DEF RaceInv
    <3>2. ~raced' => Tree(links)' /\ MovesStand'
      <4>1. ~raced' => ~raced
        BY <2>1, RacesStay
      <4> QED BY <2>1, <4>1, NextKeepsTree DEF RaceInv
    <3> QED BY <3>1, <3>2 DEF RaceInv
  <2>2. CASE UNCHANGED vars
    BY <2>2 DEF vars, RaceInv, MovesStand, CountsStand
  <2> QED BY <2>1, <2>2
<1>2. TypeInv /\ RaceInv => HarmNeedsRace
  <2> SUFFICES ASSUME TypeInv, RaceInv PROVE HarmNeedsRace
    OBVIOUS
  <2>1. TreeNeedsRace
    BY TreeIsRooted DEF TreeNeedsRace, RaceInv
  <2>2. DetachNeedsRace
    BY DEF DetachNeedsRace, Counted, RaceInv, CountsStand, CountStands, PointsAt, Rows, Fields
  <2> QED BY <2>1, <2>2 DEF HarmNeedsRace
<1>3. Spec => []TypeInv
  BY TypesStand
<1> QED BY InitRaceInv, <1>1, <1>2, <1>3, PTL DEF Spec

-----------------------------------------------------------------------------
(* The listing. What Published, InFacets and Matching are of any products. *)

Pub(I) == {p \in Items : I[p].status = "published"}
Fits(I, view) == {p \in Pub(I) : \A f \in Facets : view[f] \in {Unset, I[p][f]}}
Match(I, view) == {p \in Fits(I, view) : view.q = Unset \/ I[p].hit}
OfCategory(I, c) == {p \in Pub(I) : I[p].category = c}

LEMMA ListingIs ==
  /\ Published = Pub(item)
  /\ \A view : InFacets(view) = Fits(item, view) /\ Matching(view) = Match(item, view)
  /\ \A c : publishedCount(c) = Cardinality(OfCategory(item, c))
BY DEF Published, Pub, InFacets, Fits, Matching, Match, publishedCount, OfCategory

LEMMA ItemsFinite == IsFiniteSet(Items) /\ Cardinality(Items) = NumItems
<1>1. NumItems \in Nat
  BY ListingAssumption
<1> QED BY <1>1, FS_Interval DEF Items

(* More products, a larger count.                                          *)
LEMMA CountsGrow ==
  ASSUME NEW S \in SUBSET Items, NEW T \in SUBSET S
  PROVE  /\ IsFiniteSet(S) /\ Cardinality(S) \in Nat /\ Cardinality(S) <= NumItems
         /\ Cardinality(T) \in Nat /\ Cardinality(T) <= Cardinality(S)
<1>1. IsFiniteSet(S) /\ Cardinality(S) <= NumItems
  BY ItemsFinite, FS_Subset
<1>2. IsFiniteSet(T) /\ Cardinality(T) <= Cardinality(S)
  BY <1>1, FS_Subset
<1> QED BY <1>1, <1>2, FS_CardinalityType

LEMMA InjectiveIs ==
  ASSUME NEW S, NEW T, NEW F \in Injection(S, T), NEW x \in S, NEW y \in S, F[x] = F[y]
  PROVE  x = y
BY DEF Injection, IsInjective

(* Every published product is of one category, so the tree's counts add up *)
(* to all of them.                                                         *)
LEMMA CountsAddUp ==
  ASSUME NEW I \in [Items -> ItemType]
  PROVE  TreeTotal([c \in Nodes |-> Cardinality(OfCategory(I, c))]) = Cardinality(Pub(I))
<1> DEFINE n(c) == Cardinality(OfCategory(I, c))
           b(c) == CHOOSE f : f \in Bijection(1 .. n(c), OfCategory(I, c))
           T == {pair \in Nodes \X Items : pair[2] <= n(pair[1])}
           F == [pair \in T |-> b(pair[1])[pair[2]]]
<1>1. ASSUME NEW c \in Nodes
      PROVE  n(c) \in Nat /\ n(c) <= NumItems /\ b(c) \in Bijection(1 .. n(c), OfCategory(I, c))
  <2>1. OfCategory(I, c) \in SUBSET Items
    BY DEF OfCategory, Pub
  <2>2. IsFiniteSet(OfCategory(I, c)) /\ n(c) \in Nat /\ n(c) <= NumItems
    BY <2>1, CountsGrow
  <2>3. \E f : f \in Bijection(1 .. n(c), OfCategory(I, c))
    BY <2>2, FS_CardinalityType DEF ExistsBijection
  <2> QED BY <2>2, <2>3
<1> HIDE DEF n, b
<1>2. ASSUME NEW c \in Nodes
      PROVE  /\ \A i \in 1 .. n(c) : b(c)[i] \in OfCategory(I, c)
             /\ \A i, j \in 1 .. n(c) : b(c)[i] = b(c)[j] => i = j
             /\ \A p \in OfCategory(I, c) : \E i \in 1 .. n(c) : b(c)[i] = p
  <2>1. b(c) \in Bijection(1 .. n(c), OfCategory(I, c))
    BY <1>1
  <2>2. b(c) \in [1 .. n(c) -> OfCategory(I, c)]
    BY <2>1, Fun_BijectionProperties
  <2>3. ASSUME NEW i \in 1 .. n(c), NEW j \in 1 .. n(c), b(c)[i] = b(c)[j] PROVE i = j
    <3>1. b(c) \in Injection(1 .. n(c), OfCategory(I, c))
      BY <2>1 DEF Bijection
    <3> QED BY <2>3, <3>1, InjectiveIs
  <2>4. \A p \in OfCategory(I, c) : \E i \in 1 .. n(c) : b(c)[i] = p
    BY <2>1 DEF Bijection, Surjection
  <2>5. \A i \in 1 .. n(c) : b(c)[i] \in OfCategory(I, c)
    BY <2>2
  <2> QED BY <2>3, <2>4, <2>5
<1>3. ASSUME NEW pair \in T
      PROVE  pair[1] \in Nodes /\ pair[2] \in 1 .. n(pair[1]) /\ pair = <<pair[1], pair[2]>>
  <2>1. PICK c \in Nodes, i \in Items : pair = <<c, i>>
    OBVIOUS
  <2>2. i <= n(c) /\ i >= 1 /\ i \in Nat
    BY <2>1, ListingAssumption DEF Items
  <2> QED BY <1>1, <2>1, <2>2
<1>4. ASSUME NEW pair \in T PROVE F[pair] \in OfCategory(I, pair[1])
  BY <1>2, <1>3
<1>5. F \in [T -> Pub(I)]
  BY <1>4 DEF OfCategory
<1>6. ASSUME NEW x \in T, NEW y \in T, F[x] = F[y] PROVE x = y
  <2>1. x[1] = y[1]
    BY <1>4, <1>6 DEF OfCategory
  <2>2. x[2] = y[2]
    BY <1>2, <1>3, <1>6, <2>1
  <2> QED BY <1>3, <2>1, <2>2
<1>7. ASSUME NEW p \in Pub(I) PROVE \E pair \in T : F[pair] = p
  <2>1. I[p].category \in Nodes /\ p \in OfCategory(I, I[p].category)
    BY DEF Pub, ItemType, OfCategory
  <2>2. PICK i \in 1 .. n(I[p].category) : b(I[p].category)[i] = p
    BY <1>2, <2>1
  <2>3. <<I[p].category, i>> \in T
    BY <1>1, <2>1, <2>2, ListingAssumption DEF Items
  <2> QED BY <2>2, <2>3
<1> HIDE DEF F, T
<1>8. IsFiniteSet(Pub(I))
  BY CountsGrow DEF Pub
<1>9. ExistsBijection(Pub(I), T)
  <2>1. F \in Bijection(T, Pub(I))
    BY <1>5, <1>6, <1>7, Fun_IsBij
  <2> QED BY <2>1, Fun_ExistsBijSymmetric DEF ExistsBijection
<1>10. Cardinality(T) = Cardinality(Pub(I))
  BY <1>8, <1>9, FS_Bijection
<1> QED BY <1>10 DEF TreeTotal, T, n

-----------------------------------------------------------------------------
(* What is known of a page, x, while it is put together and when it is     *)
(* shown, of the products I.                                               *)

OptionType == [maker : SUBSET Makers, line : SUBSET Lines]
OptionsOf(I) == [f \in {"maker", "line"} |-> {I[p][f] : p \in Pub(I)} \ {Unset}]
CountsOf(I) == [c \in Nodes |-> Cardinality(OfCategory(I, c))]
ListTotal(I, view) ==
  IF view.category \in Nodes \/ isSearchView(view)
  THEN Cardinality(Match(I, view)) ELSE Cardinality(Pub(I))

PageType ==
  [pc : {"options", "tree", "search", "browse", "cards", "suggest", "shown"},
   view : Views, via : Facets \cup {"q", "address"}, promise : Nat \cup {Unset},
   options : {<<>>} \cup OptionType, counts : {<<>>} \cup [Nodes -> Nat], total : Nat,
   list : SUBSET Items, suggested : SUBSET Items, edited : SUBSET Items]

Loaded(x) ==
  /\ x \in PageType
  /\ x.pc # "options" => x.options \in OptionType
  /\ x.pc \notin {"options", "tree"} => x.counts \in [Nodes -> Nat] /\ TreeTotal(x.counts) \in Nat

(* If nothing has been saved meanwhile, every read agrees with the next.   *)
Steady(I, x) ==
  /\ x.pc # "options" => x.options = OptionsOf(I)
  /\ x.pc \notin {"options", "tree"} => x.counts = CountsOf(I)
  /\ x.pc \in {"cards", "suggest", "shown"} =>
       x.total = ListTotal(I, x.view) /\ x.list = Take(Match(I, x.view))

(* If something has, it is no worse than that.                             *)
Honest(I, x) ==
  /\ x.list \ x.edited \subseteq Match(I, x.view)
  /\ x.suggested \ x.edited \subseteq Fits(I, x.view) \ Match(I, x.view)
  /\ x.pc = "suggest" => Match(I, x.view) \subseteq x.edited
  /\ x.pc = "browse" => ~isSearchView(x.view)
  /\ x.pc \in {"search", "cards", "suggest"} => isSearchView(x.view)
  /\ x.edited = {} => Steady(I, x)

(* What a link of the page old promises of the page new.                   *)
LinkOf(old, f, o) ==
  \/ f = "category" /\ o \in Nodes \cup {Unset}
  \/ f \in {"maker", "line"} /\ o \in {Unset} \cup old.options[f]
  \/ f = "q" /\ o \in {Unset, "query"}
Followed(old, new) ==
  \E f \in Facets \cup {"q"} : \E o \in {new.view[f]} :
    /\ LinkOf(old, f, o) /\ new.via = f /\ new.view = catalogHref(old.view, f, o)
    /\ new.promise = IF f = "category" /\ o \in Nodes THEN old.counts[o] ELSE Unset

ListingInv ==
  /\ item \in [Items -> ItemType] /\ acts \in 0 .. MaxActs
  /\ load # Blank => Loaded(load) /\ Honest(item, load)
  /\ page # Blank => Loaded(page) /\ page.pc = "shown"
  /\ page # Blank /\ (load = Blank \/ load.edited = {}) => Honest(item, page)
  /\ page # Blank /\ load # Blank => Followed(page, load)

LEMMA ReadsTyped ==
  ASSUME NEW I \in [Items -> ItemType], NEW view
  PROVE  /\ OptionsOf(I) \in OptionType /\ CountsOf(I) \in [Nodes -> Nat]
         /\ Fits(I, view) \subseteq Pub(I) /\ Match(I, view) \subseteq Fits(I, view)
         /\ Pub(I) \subseteq Items /\ ListTotal(I, view) \in Nat
         /\ Cardinality(Match(I, view)) \in Nat
<1>1. Fits(I, view) \subseteq Pub(I) /\ Match(I, view) \subseteq Fits(I, view) /\ Pub(I) \subseteq Items
  BY DEF Fits, Match, Pub
<1>2. OptionsOf(I) \in OptionType
  <2>1. \A p \in Pub(I) : I[p].maker \in Makers /\ I[p].line \in Lines \cup {Unset}
    BY <1>1 DEF ItemType
  <2> QED BY <2>1 DEF OptionsOf, OptionType
<1>3. \A c \in Nodes : Cardinality(OfCategory(I, c)) \in Nat
  <2>1. \A c \in Nodes : OfCategory(I, c) \in SUBSET Items
    BY <1>1 DEF OfCategory
  <2> QED BY <2>1, CountsGrow
<1>4. Cardinality(Match(I, view)) \in Nat /\ Cardinality(Pub(I)) \in Nat
  BY <1>1, CountsGrow
<1> QED BY <1>1, <1>2, <1>3, <1>4 DEF CountsOf, ListTotal

LEMMA TakesSome ==
  ASSUME NEW S PROVE Take(S) \subseteq S
BY DEF Take

LEMMA LoadingIs ==
  ASSUME ListingInv, NEW pc, pc # "none", At(pc)
  PROVE  /\ load # Blank /\ Loaded(load) /\ Honest(item, load) /\ load.pc = pc
         /\ load \in PageType /\ item \in [Items -> ItemType]
BY DEF ListingInv, At, Blank, Loaded

(* A read that goes on with the same page.                                 *)
LEMMA GoesOn ==
  ASSUME ListingInv, load # Blank, NEW next, Goto(next), Loaded(next), Honest(item, next),
         next.view = load.view, next.via = load.via, next.promise = load.promise,
         next.edited = load.edited
  PROVE  ListingInv'
<1>1. load' = next /\ item' = item /\ page' = page /\ acts' = acts
  BY DEF Goto
<1>2. next # Blank
  <2>1. next.pc # Blank.pc
    BY DEF Loaded, PageType, Blank
  <2> QED BY <2>1
<1>3. page # Blank => Followed(page, next)
  BY DEF ListingInv, Followed
<1>4. load # Blank => Loaded(load)
  BY DEF ListingInv
<1> QED BY <1>1, <1>2, <1>3 DEF ListingInv

(* The last read shows it.                                                 *)
LEMMA IsShown ==
  ASSUME ListingInv, load # Blank, NEW next, next.pc \in {"browse", "search", "cards", "suggest"}, Show(next),
         next \in PageType, next.counts \in [Nodes -> Nat], TreeTotal(next.counts) \in Nat, next.options \in OptionType,
         Honest(item, [next EXCEPT !.pc = "shown"])
  PROVE  ListingInv'
<1> DEFINE shown == [next EXCEPT !.pc = "shown"]
<1>1. page' = shown /\ load' = Blank /\ item' = item /\ acts' = acts
  BY DEF Show
<1>2. shown \in PageType /\ shown.pc = "shown"
  BY DEF PageType
<1>3. shown.counts = next.counts /\ shown.options = next.options
  BY DEF PageType
<1>4. Loaded(shown)
  BY <1>2, <1>3 DEF Loaded
<1>5. Honest(item, shown)
  OBVIOUS
<1> HIDE DEF shown
<1> QED BY <1>1, <1>2, <1>4, <1>5 DEF ListingInv

LEMMA ReadOptionsKeeps ==
  ASSUME ListingInv, readOptions PROVE ListingInv'
<1> DEFINE next == [load EXCEPT !.pc = "tree", !.options = Options]
<1>1. /\ load # Blank /\ Loaded(load) /\ Honest(item, load) /\ load.pc = "options"
      /\ load \in PageType /\ item \in [Items -> ItemType]
  BY LoadingIs DEF readOptions
<1>2. Options = OptionsOf(item) /\ Options \in OptionType
  BY <1>1, ListingIs, ReadsTyped DEF Options, OptionsOf
<1>3. /\ next \in PageType /\ next.pc = "tree" /\ next.options = OptionsOf(item)
      /\ next.view = load.view /\ next.via = load.via /\ next.promise = load.promise
      /\ next.edited = load.edited /\ next.list = load.list /\ next.suggested = load.suggested
  BY <1>1, <1>2 DEF PageType
<1>4. Goto(next)
  BY DEF readOptions
<1> HIDE DEF next
<1>5. Loaded(next)
  BY <1>2, <1>3 DEF Loaded
<1>6. Honest(item, next)
  BY <1>1, <1>3 DEF Honest, Steady
<1> QED BY <1>1, <1>3, <1>4, <1>5, <1>6, GoesOn

LEMMA ListCategoryTreeKeeps ==
  ASSUME ListingInv, listCategoryTree PROVE ListingInv'
<1> DEFINE next == [load EXCEPT !.pc = IF isSearchView(load.view) THEN "search" ELSE "browse",
                                !.counts = [c \in Nodes |-> publishedCount(c)]]
<1>1. /\ load # Blank /\ Loaded(load) /\ Honest(item, load) /\ load.pc = "tree"
      /\ load \in PageType /\ item \in [Items -> ItemType]
  BY LoadingIs DEF listCategoryTree
<1>2. /\ [c \in Nodes |-> publishedCount(c)] = CountsOf(item) /\ CountsOf(item) \in [Nodes -> Nat]
      /\ TreeTotal(CountsOf(item)) \in Nat
  <2>1. Cardinality(Pub(item)) \in Nat
    BY CountsGrow DEF Pub
  <2> QED BY <1>1, <2>1, ListingIs, ReadsTyped, CountsAddUp DEF CountsOf
<1>3. /\ next \in PageType /\ next.counts = CountsOf(item) /\ next.options = load.options
      /\ next.pc = IF isSearchView(load.view) THEN "search" ELSE "browse"
      /\ next.view = load.view /\ next.via = load.via /\ next.promise = load.promise
      /\ next.edited = load.edited /\ next.list = load.list /\ next.suggested = load.suggested
  BY <1>1, <1>2 DEF PageType
<1>4. Goto(next)
  BY DEF listCategoryTree
<1> HIDE DEF next
<1>5. Loaded(next)
  BY <1>1, <1>2, <1>3 DEF Loaded
<1>6. Honest(item, next)
  BY <1>1, <1>3 DEF Honest, Steady
<1> QED BY <1>1, <1>3, <1>4, <1>5, <1>6, GoesOn

(* What a view that only browses matches.                                  *)
LEMMA Browsed ==
  ASSUME NEW I \in [Items -> ItemType], NEW view \in Views, ~isSearchView(view)
  PROVE  /\ view.category \in Nodes => Match(I, view) = OfCategory(I, view.category)
         /\ view.category = Unset => Match(I, view) = Pub(I)
<1>1. view.q = Unset /\ view.maker = Unset /\ view.line = Unset
  BY DEF isSearchView
<1>2. \A p \in Pub(I) : p \in Match(I, view) <=> view.category \in {Unset, I[p].category}
  BY <1>1 DEF Match, Fits, Facets
<1>3. \A p \in Pub(I) : I[p].category \in Nodes
  BY DEF Pub, ItemType
<1>4. Match(I, view) \subseteq Pub(I) /\ OfCategory(I, view.category) \subseteq Pub(I)
  BY DEF Match, Fits, OfCategory
<1>5. view.category \in Nodes => Match(I, view) = OfCategory(I, view.category)
  BY <1>2, <1>4, ListingAssumption DEF OfCategory
<1>6. view.category = Unset => Match(I, view) = Pub(I)
  BY <1>2, <1>4
<1> QED BY <1>5, <1>6

LEMMA ListProductsKeeps ==
  ASSUME ListingInv, listProducts PROVE ListingInv'
<1> DEFINE c == load.view.category
           total == IF c \in Nodes THEN load.counts[c] ELSE TreeTotal(load.counts)
           next == [load EXCEPT !.list = Take(Matching(load.view)), !.total = total]
<1>1. /\ load # Blank /\ Loaded(load) /\ Honest(item, load) /\ load.pc = "browse"
      /\ load \in PageType /\ item \in [Items -> ItemType]
  BY LoadingIs DEF listProducts
<1>2. load.counts \in [Nodes -> Nat] /\ TreeTotal(load.counts) \in Nat /\ load.options \in OptionType
  BY <1>1 DEF Loaded
<1>3. total \in Nat
  BY <1>2
<1>4. /\ Matching(load.view) = Match(item, load.view) /\ Take(Match(item, load.view)) \in SUBSET Items
      /\ Take(Match(item, load.view)) \subseteq Match(item, load.view)
  BY <1>1, ListingIs, ReadsTyped, TakesSome
<1>5. load.counts = CountsOf(item) => total = ListTotal(item, load.view)
  <2> SUFFICES ASSUME load.counts = CountsOf(item) PROVE total = ListTotal(item, load.view)
    OBVIOUS
  <2>1. ~isSearchView(load.view) /\ load.view \in Views
    BY <1>1 DEF Honest, PageType
  <2>2. CASE c \in Nodes
    BY <1>1, <2>1, <2>2, Browsed DEF CountsOf, ListTotal
  <2>3. CASE c \notin Nodes
    BY <1>1, <2>1, <2>3, CountsAddUp DEF CountsOf, ListTotal
  <2> QED BY <2>2, <2>3
<1> HIDE DEF c, total
<1> DEFINE shown == [next EXCEPT !.pc = "shown"]
<1>6. Show(next)
  BY DEF listProducts, total, c
<1>7. /\ next \in PageType /\ next.pc = "browse" /\ next.options = load.options /\ next.counts = load.counts
      /\ shown.pc = "shown" /\ shown.view = load.view /\ shown.options = load.options
      /\ shown.counts = load.counts /\ shown.edited = load.edited /\ shown.suggested = load.suggested
      /\ shown.total = total /\ shown.list = Take(Match(item, load.view))
  BY <1>1, <1>3, <1>4 DEF PageType
<1>8. Honest(item, shown)
  <2> HIDE DEF shown
  <2> QED BY <1>1, <1>4, <1>5, <1>7 DEF Honest, Steady
<1>9. Honest(item, [next EXCEPT !.pc = "shown"])
  BY <1>8
<1> HIDE DEF next
<1> QED BY <1>1, <1>2, <1>6, <1>7, <1>9, IsShown

LEMMA SearchIdsKeeps ==
  ASSUME ListingInv, searchIds PROVE ListingInv'
<1> DEFINE S == Match(item, load.view)
           found == [load EXCEPT !.list = Take(S), !.total = Cardinality(S)]
<1>1. /\ load # Blank /\ Loaded(load) /\ Honest(item, load) /\ load.pc = "search"
      /\ load \in PageType /\ item \in [Items -> ItemType]
  BY LoadingIs DEF searchIds
<1>2. /\ load.counts \in [Nodes -> Nat] /\ TreeTotal(load.counts) \in Nat /\ load.options \in OptionType
      /\ isSearchView(load.view)
  BY <1>1 DEF Loaded, Honest
<1>3. /\ Matching(load.view) = S /\ Take(S) \in SUBSET Items /\ Take(S) \subseteq S
      /\ Cardinality(S) \in Nat
  BY <1>1, ListingIs, ReadsTyped, TakesSome
<1>4. \/ S # {} /\ Goto([found EXCEPT !.pc = "cards"])
      \/ S = {} /\ Goto([found EXCEPT !.pc = "suggest"])
      \/ S = {} /\ Show(found)
  BY <1>3 DEF searchIds
<1>5. ListTotal(item, load.view) = Cardinality(S)
  BY <1>2 DEF ListTotal
<1> HIDE DEF S
<1>6. ASSUME NEW pc \in {"search", "cards", "suggest", "shown"}
      PROVE  LET next == [found EXCEPT !.pc = pc] IN
             /\ next \in PageType /\ next.pc = pc /\ next.options = load.options
             /\ next.counts = load.counts /\ next.view = load.view /\ next.via = load.via
             /\ next.promise = load.promise /\ next.edited = load.edited
             /\ next.suggested = load.suggested
             /\ next.list = Take(S) /\ next.total = Cardinality(S)
  BY <1>1, <1>3 DEF PageType
<1>7. ASSUME NEW pc \in {"cards", "suggest", "shown"}, pc = "suggest" => S = {}
      PROVE  Loaded([found EXCEPT !.pc = pc]) /\ Honest(item, [found EXCEPT !.pc = pc])
  <2> DEFINE next == [found EXCEPT !.pc = pc]
  <2>1. /\ next \in PageType /\ next.pc = pc /\ next.options = load.options
        /\ next.counts = load.counts /\ next.view = load.view
        /\ next.edited = load.edited /\ next.suggested = load.suggested
        /\ next.list = Take(S) /\ next.total = Cardinality(S)
    BY <1>6
  <2> HIDE DEF next
  <2>2. Loaded(next)
    BY <1>2, <2>1 DEF Loaded
  <2>3. Honest(item, next)
    BY <1>1, <1>2, <1>3, <1>5, <1>7, <2>1 DEF Honest, Steady, S
  <2> QED BY <2>2, <2>3 DEF next
<1>8. ASSUME NEW pc \in {"cards", "suggest"}, pc = "suggest" => S = {},
             Goto([found EXCEPT !.pc = pc])
      PROVE  ListingInv'
  <2> DEFINE next == [found EXCEPT !.pc = pc]
  <2>1. next.view = load.view /\ next.via = load.via /\ next.promise = load.promise /\ next.edited = load.edited
    BY <1>6
  <2>2. Loaded(next) /\ Honest(item, next) /\ Goto(next)
    BY <1>7, <1>8
  <2> HIDE DEF next
  <2> QED BY <1>1, <2>1, <2>2, GoesOn
<1>9. ASSUME Show(found) PROVE ListingInv'
  <2>1. found \in PageType /\ found.pc = "search" /\ found.counts = load.counts /\ found.options = load.options
    BY <1>1, <1>3 DEF PageType
  <2>2. Honest(item, [found EXCEPT !.pc = "shown"])
    BY <1>7
  <2> HIDE DEF found
  <2> QED BY <1>1, <1>2, <1>9, <2>1, <2>2, IsShown
<1> QED BY <1>4, <1>8, <1>9

LEMMA SearchCardsKeeps ==
  ASSUME ListingInv, searchCards PROVE ListingInv'
<1> DEFINE L == {p \in load.list : item[p].status # "deleted"}
           next == [load EXCEPT !.list = L]
           shown == [next EXCEPT !.pc = "shown"]
<1>1. /\ load # Blank /\ Loaded(load) /\ Honest(item, load) /\ load.pc = "cards"
      /\ load \in PageType /\ item \in [Items -> ItemType]
  BY LoadingIs DEF searchCards
<1>2. /\ load.counts \in [Nodes -> Nat] /\ TreeTotal(load.counts) \in Nat /\ load.options \in OptionType
  BY <1>1 DEF Loaded
<1>3. L \in SUBSET Items
  BY <1>1 DEF PageType
<1>4. load.edited = {} => L = load.list
  <2> SUFFICES ASSUME load.edited = {}, NEW p \in load.list PROVE item[p].status # "deleted"
    OBVIOUS
  <2>1. p \in Match(item, load.view)
    BY <1>1 DEF Honest
  <2>2. p \in Pub(item)
    BY <1>1, <2>1, ReadsTyped
  <2> QED BY <2>2 DEF Pub
<1>5. Show(next)
  BY DEF searchCards
<1>6. L \subseteq load.list
  OBVIOUS
<1> HIDE DEF L
<1>7. /\ next \in PageType /\ next.pc = "cards" /\ next.options = load.options /\ next.counts = load.counts
      /\ shown.pc = "shown" /\ shown.view = load.view /\ shown.options = load.options
      /\ shown.counts = load.counts /\ shown.edited = load.edited /\ shown.suggested = load.suggested
      /\ shown.total = load.total /\ shown.list = L
  BY <1>1, <1>3 DEF PageType
<1>8. Honest(item, shown)
  <2> HIDE DEF shown
  <2> QED BY <1>1, <1>4, <1>6, <1>7 DEF Honest, Steady
<1>9. Honest(item, [next EXCEPT !.pc = "shown"])
  BY <1>8
<1> HIDE DEF next
<1> QED BY <1>1, <1>2, <1>5, <1>7, <1>9, IsShown

LEMMA SuggestProductsKeeps ==
  ASSUME ListingInv, suggestProducts PROVE ListingInv'
<1>1. /\ load # Blank /\ Loaded(load) /\ Honest(item, load) /\ load.pc = "suggest"
      /\ load \in PageType /\ item \in [Items -> ItemType]
  BY LoadingIs DEF suggestProducts
<1>2. /\ load.counts \in [Nodes -> Nat] /\ TreeTotal(load.counts) \in Nat /\ load.options \in OptionType
  BY <1>1 DEF Loaded
<1>3. PICK S \in SUBSET Fits(item, load.view) : Show([load EXCEPT !.suggested = S])
  BY ListingIs DEF suggestProducts, SuggestionScope
<1> DEFINE next == [load EXCEPT !.suggested = S]
           shown == [next EXCEPT !.pc = "shown"]
<1>4. S \in SUBSET Items /\ Match(item, load.view) \subseteq load.edited
  BY <1>1, ReadsTyped DEF Honest
<1>5. /\ next \in PageType /\ next.pc = "suggest" /\ next.options = load.options /\ next.counts = load.counts
      /\ shown.pc = "shown" /\ shown.view = load.view /\ shown.options = load.options
      /\ shown.counts = load.counts /\ shown.edited = load.edited /\ shown.suggested = S
      /\ shown.total = load.total /\ shown.list = load.list
  BY <1>1, <1>4 DEF PageType
<1>6. Honest(item, shown)
  <2> HIDE DEF shown
  <2> QED BY <1>1, <1>4, <1>5 DEF Honest, Steady
<1>7. Honest(item, [next EXCEPT !.pc = "shown"]) /\ Show(next)
  BY <1>3, <1>6
<1> HIDE DEF next
<1> QED BY <1>1, <1>2, <1>5, <1>7, IsShown

(* A page that has just been asked for.                                    *)
LEMMA StartIs ==
  ASSUME NEW I \in [Items -> ItemType], NEW view \in Views, NEW via \in Facets \cup {"q", "address"},
         NEW promise \in Nat \cup {Unset}
  PROVE  LET x == Start(view, via, promise) IN
         /\ x # Blank /\ Loaded(x) /\ Honest(I, x) /\ x.edited = {}
         /\ x.view = view /\ x.via = via /\ x.promise = promise
<1> DEFINE x == Start(view, via, promise)
<1>1. /\ x.pc = "options" /\ x.view = view /\ x.via = via /\ x.promise = promise
      /\ x.list = {} /\ x.suggested = {} /\ x.edited = {}
  BY DEF Start
<1>2. x \in PageType
  BY DEF Start, PageType
<1>3. x # Blank
  <2>1. Blank.pc = "none"
    BY DEF Blank
  <2> QED BY <1>1, <2>1
<1> HIDE DEF x
<1>4. Loaded(x)
  BY <1>1, <1>2 DEF Loaded
<1>5. Honest(I, x)
  BY <1>1 DEF Honest, Steady
<1> QED BY <1>1, <1>3, <1>4, <1>5 DEF x

LEMMA FollowKeeps ==
  ASSUME ListingInv, follow PROVE ListingInv'
<1>1. /\ load = Blank /\ page # Blank /\ acts' = acts + 1 /\ acts' <= MaxActs /\ item' = item /\ page' = page
      /\ item \in [Items -> ItemType] /\ acts \in 0 .. MaxActs /\ MaxActs \in Nat
  BY ListingAssumption DEF follow, ListingInv
<1>2. acts' \in 0 .. MaxActs
  BY <1>1
<1>3. /\ Loaded(page) /\ Honest(item, page) /\ page.pc = "shown" /\ page \in PageType
      /\ page.view \in Views /\ page.options \in OptionType /\ page.counts \in [Nodes -> Nat]
  BY <1>1 DEF ListingInv, Loaded, PageType
<1>4. PICK link \in Links :
        load' = Start(catalogHref(page.view, link[1], link[2]), link[1],
                      IF link[1] = "category" /\ link[2] \in Nodes THEN page.counts[link[2]] ELSE Unset)
  BY DEF follow
<1>5. LinkOf(page, link[1], link[2]) /\ link[1] \in Facets \cup {"q"}
  <2>1. CategoryChips \subseteq Nodes \cup {Unset}
    BY DEF CategoryChips, BranchRow, Children
  <2>2. \A f \in {"maker", "line"} : FilterChips(f) \subseteq {Unset} \cup page.options[f]
    BY DEF FilterChips
  <2>3. CASE link \in {<<"category", c>> : c \in CategoryChips}
    <3>1. PICK c \in CategoryChips : link = <<"category", c>>
      BY <2>3
    <3> QED BY <2>1, <3>1 DEF LinkOf, Facets
  <2>4. CASE \E f \in {"maker", "line"} : link \in {<<f, o>> : o \in FilterChips(f)}
    <3>1. PICK f \in {"maker", "line"} : \E o \in FilterChips(f) : link = <<f, o>>
      BY <2>4
    <3>2. PICK o \in FilterChips(f) : link = <<f, o>>
      BY <3>1
    <3>3. o \in {Unset} \cup page.options[f]
      BY <2>2
    <3> QED BY <3>2, <3>3 DEF LinkOf, Facets
  <2>5. CASE link \in {<<"q", q>> : q \in {Unset, "query"}}
    BY <2>5 DEF LinkOf
  <2> QED BY <2>3, <2>4, <2>5 DEF Links
<1> DEFINE f == link[1]
           o == link[2]
           view == catalogHref(page.view, f, o)
           promise == IF f = "category" /\ o \in Nodes THEN page.counts[o] ELSE Unset
<1>6. load' = Start(view, f, promise)
  BY <1>4
<1> HIDE DEF f, o
<1>7. LinkOf(page, f, o) /\ f \in Facets \cup {"q"}
  BY <1>5 DEF f, o
<1>8. promise \in Nat \cup {Unset}
  BY <1>3
<1>9. view \in Views /\ view[f] = o
  <2>1. page.options.maker \subseteq Makers /\ page.options.line \subseteq Lines
    BY <1>3 DEF OptionType
  <2>2. f = "category" => o \in Nodes \cup {Unset, Unknown}
    BY <1>7 DEF LinkOf
  <2>3. (f = "maker" => o \in Makers \cup {Unset}) /\ (f = "line" => o \in Lines \cup {Unset})
    BY <1>7, <2>1 DEF LinkOf
  <2>4. f = "q" => o \in {Unset, "query"}
    BY <1>7 DEF LinkOf
  <2>5. f \in {"category", "maker", "line", "q"}
    BY <1>7 DEF Facets
  <2> QED BY <1>3, <2>2, <2>3, <2>4, <2>5 DEF catalogHref, Views
<1> HIDE DEF promise
<1>10. /\ load' # Blank /\ Loaded(load') /\ Honest(item, load') /\ load'.edited = {}
       /\ load'.view = view /\ load'.via = f /\ load'.promise = promise
  BY <1>1, <1>6, <1>7, <1>8, <1>9, StartIs
<1>11. Followed(page, load')
  BY <1>7, <1>9, <1>10 DEF Followed, promise
<1> QED BY <1>1, <1>2, <1>3, <1>10, <1>11 DEF ListingInv

LEMMA SaveKeeps ==
  ASSUME ListingInv, save PROVE ListingInv'
<1>1. /\ load # Blank /\ acts' = acts + 1 /\ acts' <= MaxActs /\ page' = page
      /\ item \in [Items -> ItemType] /\ acts \in 0 .. MaxActs /\ MaxActs \in Nat
  BY ListingAssumption DEF save, ListingInv
<1>2. acts' \in 0 .. MaxActs
  BY <1>1
<1>3. PICK p \in Items, s \in {"published", "draft", "deleted"}, c \in Nodes :
        /\ item' = [item EXCEPT ![p] = [item[p] EXCEPT !.status = s, !.category = c]]
        /\ load' = [load EXCEPT !.edited = load.edited \cup {p}]
  <2>1. PICK p \in Items, s \in {"published", "draft", "deleted"}, c \in Nodes :
        /\ item' = [item EXCEPT ![p].status = s, ![p].category = c]
        /\ load' = [load EXCEPT !.edited = @ \cup {p}]
    BY DEF save
  <2>2. [item EXCEPT ![p].status = s, ![p].category = c]
          = [item EXCEPT ![p] = [item[p] EXCEPT !.status = s, !.category = c]]
    BY <1>1
  <2> QED BY <2>1, <2>2
<1>4. Loaded(load) /\ Honest(item, load) /\ load \in PageType
  BY <1>1 DEF ListingInv, Loaded
<1>5. /\ load'.pc = load.pc /\ load'.view = load.view /\ load'.via = load.via
      /\ load'.promise = load.promise /\ load'.options = load.options /\ load'.counts = load.counts
      /\ load'.list = load.list /\ load'.suggested = load.suggested
      /\ load'.edited = load.edited \cup {p} /\ load' \in PageType
  BY <1>3, <1>4 DEF PageType
<1>6. [item[p] EXCEPT !.status = s, !.category = c] \in ItemType
  BY <1>1, <1>3 DEF ItemType
<1>7. item' \in [Items -> ItemType]
  BY <1>1, <1>3, <1>6
<1>8. \A q \in Items : q # p => item'[q] = item[q]
  BY <1>1, <1>3
<1>9. \A view : \A q \in Items : q # p =>
        /\ q \in Fits(item', view) <=> q \in Fits(item, view)
        /\ q \in Match(item', view) <=> q \in Match(item, view)
  BY <1>8 DEF Pub, Fits, Match
<1>10. load' # Blank
  <2>1. load.pc # Blank.pc
    BY <1>4 DEF PageType, Blank
  <2> QED BY <1>5, <2>1
<1>11. Loaded(load')
  BY <1>4, <1>5 DEF Loaded
<1>12. Honest(item', load')
  <2>1. load.list \subseteq Items /\ load.suggested \subseteq Items
    BY <1>4 DEF PageType
  <2>2. load'.list \ load'.edited \subseteq Match(item', load'.view)
    <3> SUFFICES ASSUME NEW q \in load.list, q \notin load.edited, q # p
                 PROVE  q \in Match(item', load.view)
      BY <1>5
    <3>1. q \in Match(item, load.view)
      BY <1>4 DEF Honest
    <3> QED BY <1>9, <2>1, <3>1
  <2>3. load'.suggested \ load'.edited \subseteq Fits(item', load'.view) \ Match(item', load'.view)
    <3> SUFFICES ASSUME NEW q \in load.suggested, q \notin load.edited, q # p
                 PROVE  q \in Fits(item', load.view) /\ q \notin Match(item', load.view)
      BY <1>5
    <3>1. q \in Fits(item, load.view) /\ q \notin Match(item, load.view)
      BY <1>4 DEF Honest
    <3> QED BY <1>9, <2>1, <3>1
  <2>4. load'.pc = "suggest" => Match(item', load'.view) \subseteq load'.edited
    <3> SUFFICES ASSUME load.pc = "suggest", NEW q \in Match(item', load.view), q # p
                 PROVE  q \in load.edited
      BY <1>5
    <3>1. q \in Items
      BY <1>7, ReadsTyped
    <3>2. q \in Match(item, load.view)
      BY <1>9, <3>1
    <3> QED BY <1>4, <3>2 DEF Honest
  <2>5. load'.edited # {}
    BY <1>5
  <2> QED BY <1>4, <1>5, <2>2, <2>3, <2>4, <2>5 DEF Honest
<1>13. page # Blank => Followed(page, load')
  <2>1. page # Blank => Followed(page, load)
    BY <1>1 DEF ListingInv
  <2> QED BY <1>5, <2>1 DEF Followed
<1>14. load'.edited # {}
  BY <1>5
<1> QED BY <1>1, <1>2, <1>7, <1>10, <1>11, <1>12, <1>13, <1>14 DEF ListingInv

LEMMA ListingStarts ==
  ListingInit => ListingInv
<1> SUFFICES ASSUME ListingInit PROVE ListingInv
  OBVIOUS
<1>1. item \in [Items -> ItemType] /\ page = Blank /\ acts = 0
  BY DEF ListingInit
<1>2. acts \in 0 .. MaxActs
  BY <1>1, ListingAssumption
<1>3. PICK view \in Views : load = Start(view, "address", Unset)
  BY DEF ListingInit
<1>4. Loaded(load) /\ Honest(item, load)
  BY <1>1, <1>3, StartIs
<1> QED BY <1>1, <1>2, <1>4 DEF ListingInv

LEMMA ListingStands == ListingSpec => []ListingInv
<1>1. ListingInv /\ [ListingNext]_listingVars => ListingInv'
  <2> SUFFICES ASSUME ListingInv, [ListingNext]_listingVars PROVE ListingInv'
    OBVIOUS
  <2>1. CASE UNCHANGED listingVars
    BY <2>1 DEF listingVars, ListingInv
  <2> QED BY <2>1, ReadOptionsKeeps, ListCategoryTreeKeeps, ListProductsKeeps, SearchIdsKeeps,
             SearchCardsKeeps, SuggestProductsKeeps, FollowKeeps, SaveKeeps DEF ListingNext
<1> QED BY <1>1, ListingStarts, PTL DEF ListingSpec

(* The listing's variables have their types: pages, while put together and *)
(* when shown, list and suggest products only.                             *)
THEOREM ListingTypes == ListingSpec => []ListingTypeOK
<1>1. ListingInv => ListingTypeOK
  <2> SUFFICES ASSUME ListingInv PROVE ListingTypeOK
    OBVIOUS
  <2>1. load # Blank => load \in PageType
    BY DEF ListingInv, Loaded
  <2>2. page # Blank => page \in PageType
    BY DEF ListingInv, Loaded
  <2> QED BY <2>1, <2>2 DEF ListingInv, ListingTypeOK, PageType
<1> QED BY <1>1, ListingStands, PTL

(* A page that is shown lists what matches and suggests only what the view *)
(* includes and the query missed, except what was saved while it was read; *)
(* if nothing was, the list is that of a single moment, and so is its      *)
(* count.                                                                  *)
THEOREM ListsAreSo == ListingSpec => []ListsAreTrue
<1>1. ListingInv => ListsAreTrue
  <2> SUFFICES ASSUME ListingInv, page # Blank, load = Blank
               PROVE  LET S == Matching(page.view) IN
                      /\ page.list \ page.edited \subseteq S
                      /\ page.suggested \ page.edited \subseteq InFacets(page.view) \ S
                      /\ page.edited = {} =>
                           /\ page.list = Take(S)
                           /\ \/ page.total = Cardinality(S)
                              \/ page.view.category = Unknown /\ ~isSearchView(page.view)
    BY DEF ListsAreTrue
  <2>1. /\ Honest(item, page) /\ page.pc = "shown" /\ page.view \in Views
        /\ item \in [Items -> ItemType]
    BY DEF ListingInv, Loaded, PageType
  <2>2. Matching(page.view) = Match(item, page.view) /\ InFacets(page.view) = Fits(item, page.view)
    BY ListingIs
  <2>3. page.edited = {} =>
          page.total = ListTotal(item, page.view) /\ page.list = Take(Match(item, page.view))
    BY <2>1 DEF Honest, Steady
  <2>4. \/ ListTotal(item, page.view) = Cardinality(Match(item, page.view))
        \/ page.view.category = Unknown /\ ~isSearchView(page.view)
    <3>1. CASE page.view.category = Unset
      BY <2>1, <3>1, Browsed DEF ListTotal
    <3>2. CASE page.view.category # Unset
      BY <2>1, <3>2 DEF ListTotal, Views
    <3> QED BY <3>1, <3>2
  <2> QED BY <2>1, <2>2, <2>3, <2>4 DEF Honest
<1> QED BY <1>1, ListingStands, PTL

-----------------------------------------------------------------------------
(* The clicks. The list is cut off only above the cap, and never to        *)
(* nothing.                                                                *)

LEMMA LeastExists ==
  ASSUME NEW S \in SUBSET Nat, S # {}
  PROVE  \E m \in S : \A k \in S : m <= k
<1>1. PICK m \in S : \A k \in S : <<k, m>> \notin OpToRel(<, Nat)
  BY NatLessThanWellFounded, WFMin
<1>2. ASSUME NEW k \in S PROVE m <= k
  <2>1. k < m => <<k, m>> \in OpToRel(<, Nat)
    BY DEF OpToRel
  <2>2. k \in Nat /\ m \in Nat /\ ~(k < m)
    BY <1>1, <2>1
  <2> QED BY <2>2
<1> QED BY <1>2

LEMMA TakesWhatFits ==
  ASSUME NEW S \in SUBSET Items
  PROVE  /\ Cardinality(S) <= Cap => Take(S) = S
         /\ S # {} => Take(S) # {}
<1> DEFINE Before(p) == {x \in S : x < p}
<1>1. Items \subseteq Nat /\ Cap \in Nat /\ Cap >= 1
  BY ListingAssumption DEF Items
<1>2. ASSUME NEW p \in S, Cardinality(S) <= Cap PROVE Cardinality(Before(p)) < Cap
  <2>1. IsFiniteSet(S) /\ Cardinality(S) \in Nat
    BY CountsGrow
  <2>2. IsFiniteSet(S \ {p}) /\ Cardinality(S \ {p}) = Cardinality(S) - 1
    BY <2>1, FS_RemoveElement
  <2>3. Before(p) \in SUBSET (S \ {p})
    BY <1>1
  <2>4. Cardinality(Before(p)) <= Cardinality(S \ {p}) /\ Cardinality(Before(p)) \in Nat
    BY <2>2, <2>3, FS_Subset, FS_CardinalityType
  <2> QED BY <1>1, <1>2, <2>1, <2>2, <2>4
<1>3. ASSUME S # {} PROVE \E p \in S : Cardinality(Before(p)) < Cap
  <2>1. PICK p \in S : \A k \in S : p <= k
    BY <1>1, <1>3, LeastExists
  <2>2. ASSUME NEW x \in S PROVE ~(x < p)
    <3>1. x \in Nat /\ p \in Nat /\ p <= x
      BY <1>1, <2>1
    <3> QED BY <3>1
  <2>3. Before(p) = {}
    BY <2>2
  <2> QED BY <1>1, <2>3, FS_EmptySet
<1> QED BY <1>2, <1>3 DEF Take

(* What a link does to a view, of the products of one moment.              *)
LEMMA LinksNarrow ==
  ASSUME NEW I \in [Items -> ItemType], NEW view \in Views, NEW f \in Facets \cup {"q"}, NEW o,
         view[f] = Unset
  PROVE  Match(I, catalogHref(view, f, o)) \subseteq Match(I, view)
<1> DEFINE next == catalogHref(view, f, o)
<1>1. \A g \in Facets \cup {"q"} : g # f => next[g] = view[g]
  BY DEF catalogHref, Facets, Views
<1> HIDE DEF next
<1>2. Fits(I, next) \subseteq Fits(I, view)
  BY <1>1 DEF Fits
<1>3. f # "q" => next.q = view.q
  BY <1>1 DEF Facets
<1>4. Match(I, next) \subseteq Match(I, view)
  BY <1>2, <1>3 DEF Match
<1> QED BY <1>4 DEF next

LEMMA TotalsCover ==
  ASSUME NEW I \in [Items -> ItemType], NEW view \in Views
  PROVE  /\ Cardinality(Match(I, view)) \in Nat /\ ListTotal(I, view) \in Nat
         /\ Cardinality(Match(I, view)) <= ListTotal(I, view)
<1>1. Match(I, view) \in SUBSET Pub(I) /\ Pub(I) \in SUBSET Items
  BY ReadsTyped
<1>2. Cardinality(Match(I, view)) <= Cardinality(Pub(I)) /\ Cardinality(Match(I, view)) \in Nat
  BY <1>1, CountsGrow
<1> QED BY <1>2, ReadsTyped DEF ListTotal

LEMMA KeepsItsWord ==
  ASSUME NEW I \in [Items -> ItemType], NEW old, NEW new, Loaded(old), Loaded(new),
         old.pc = "shown", new.pc = "shown", Steady(I, old), Steady(I, new), Followed(old, new)
  PROVE  ClickKeepsItsWord(old, new)
<1>0. PICK f \in Facets \cup {"q"} : \E o \in {new.view[f]} :
        /\ LinkOf(old, f, o) /\ new.via = f /\ new.view = catalogHref(old.view, f, o)
        /\ new.promise = IF f = "category" /\ o \in Nodes THEN old.counts[o] ELSE Unset
  BY DEF Followed
<1>1. PICK o \in {new.view[f]} :
        /\ LinkOf(old, f, o) /\ new.via = f /\ new.view = catalogHref(old.view, f, o)
        /\ new.promise = IF f = "category" /\ o \in Nodes THEN old.counts[o] ELSE Unset
  BY <1>0
<1>2. old.view \in Views /\ new.view \in Views
  BY DEF Loaded, PageType
<1>3. /\ old.options = OptionsOf(I) /\ old.counts = CountsOf(I)
      /\ old.total = ListTotal(I, old.view) /\ old.list = Take(Match(I, old.view))
      /\ new.total = ListTotal(I, new.view) /\ new.list = Take(Match(I, new.view))
  BY DEF Steady
<1>4. new.view[f] # Unset => new.total = Cardinality(Match(I, new.view))
  <2>1. CASE f = "category"
    <3>1. new.view[f] # Unset => new.view.category \in Nodes
      BY <1>1, <2>1 DEF LinkOf
    <3> QED BY <1>3, <3>1 DEF ListTotal
  <2>2. CASE f \in {"maker", "line", "q"}
    BY <1>3, <2>2 DEF ListTotal, isSearchView
  <2> QED BY <2>1, <2>2 DEF Facets
<1>5. Match(I, new.view) \in SUBSET Items /\ Match(I, old.view) \in SUBSET Items
  BY ReadsTyped
<1>6. ASSUME old.view[f] = Unset, new.view[f] # Unset
      PROVE  new.total <= old.total /\ (old.total <= Cap => new.list \subseteq old.list)
  <2>1. Match(I, new.view) \in SUBSET Match(I, old.view)
    BY <1>1, <1>2, <1>6, LinksNarrow
  <2>2. Cardinality(Match(I, new.view)) <= Cardinality(Match(I, old.view))
    BY <1>5, <2>1, CountsGrow
  <2>3. /\ Cardinality(Match(I, new.view)) \in Nat /\ Cardinality(Match(I, old.view)) \in Nat
        /\ Cardinality(Match(I, old.view)) <= old.total /\ old.total \in Nat
    BY <1>2, <1>3, TotalsCover
  <2>4. new.total <= old.total
    BY <1>4, <1>6, <2>2, <2>3
  <2>5. ASSUME old.total <= Cap PROVE new.list \subseteq old.list
    <3>1. Cardinality(Match(I, old.view)) <= Cap
      BY <2>3, <2>5, ListingAssumption
    <3>2. old.list = Match(I, old.view)
      BY <1>3, <1>5, <3>1, TakesWhatFits
    <3> QED BY <1>3, <2>1, <3>2, TakesSome
  <2> QED BY <2>4, <2>5
<1>7. ASSUME new.promise # Unset
      PROVE  new.total <= new.promise /\ (new.total < new.promise => isSearchView(new.view))
  <2>1. f = "category" /\ o \in Nodes /\ new.promise = CountsOf(I)[o] /\ new.view.category = o
    BY <1>1, <1>3, <1>7
  <2>2. new.promise = Cardinality(OfCategory(I, o)) /\ OfCategory(I, o) \in SUBSET Items
    BY <2>1 DEF CountsOf, OfCategory, Pub
  <2>3. Match(I, new.view) \in SUBSET OfCategory(I, o)
    BY <2>1, ListingAssumption DEF Match, Fits, OfCategory, Facets
  <2>4. Cardinality(Match(I, new.view)) <= new.promise /\ new.promise \in Nat
        /\ Cardinality(Match(I, new.view)) \in Nat
    BY <2>2, <2>3, CountsGrow
  <2>5. ~isSearchView(new.view) => new.total = new.promise
    BY <1>2, <1>3, <2>1, <2>2, Browsed DEF ListTotal
  <2>6. new.total = Cardinality(Match(I, new.view))
    BY <1>3, <2>1 DEF ListTotal
  <2> QED BY <2>4, <2>5, <2>6
<1>8. ASSUME f \in {"maker", "line"}, new.view[f] # Unset,
             \A g \in Facets \cup {"q"} : g = f \/ new.view[g] = Unset
      PROVE  new.list # {}
  <2>1. o \in OptionsOf(I)[f] /\ o = new.view[f]
    BY <1>1, <1>3, <1>8 DEF LinkOf
  <2>2. PICK p \in Pub(I) : I[p][f] = o
    BY <1>8, <2>1 DEF OptionsOf
  <2>3. p \in Fits(I, new.view)
    BY <1>8, <2>1, <2>2 DEF Fits
  <2>4. p \in Match(I, new.view)
    BY <1>8, <2>3 DEF Match
  <2> QED BY <1>3, <1>5, <2>4, TakesWhatFits
<1> QED BY <1>1, <1>6, <1>7, <1>8 DEF ClickKeepsItsWord

(* Another page is shown only by a page's last read.                       *)
LEMMA PagesComeFromLoads ==
  ASSUME ListingInv, ListingNext, page' # page
  PROVE  /\ load # Blank /\ load' = Blank /\ item' = item
         /\ page'.view = load.view /\ page'.via = load.via /\ page'.promise = load.promise
         /\ page'.edited = load.edited
<1>1. listProducts \/ searchIds \/ searchCards \/ suggestProducts
  BY DEF ListingNext, readOptions, listCategoryTree, follow, save, Goto
<1>2. load # Blank /\ load \in PageType
  BY <1>1, LoadingIs DEF listProducts, searchIds, searchCards, suggestProducts
<1>3. CASE listProducts
  <2>1. PICK list, total : Show([load EXCEPT !.list = list, !.total = total])
    BY <1>3 DEF listProducts
  <2> QED BY <1>2, <2>1 DEF Show, PageType
<1>4. CASE searchIds
  <2>1. PICK list, total : Show([load EXCEPT !.list = list, !.total = total])
    <3>1. Show([load EXCEPT !.list = Take(Matching(load.view)),
                            !.total = Cardinality(Matching(load.view))])
      BY <1>4 DEF searchIds, Goto
    <3> QED BY <3>1
  <2> QED BY <1>2, <2>1 DEF Show, PageType
<1>5. CASE searchCards
  <2>1. PICK list : Show([load EXCEPT !.list = list])
    BY <1>5 DEF searchCards
  <2> QED BY <1>2, <2>1 DEF Show, PageType
<1>6. CASE suggestProducts
  <2>1. PICK S : Show([load EXCEPT !.suggested = S])
    BY <1>6 DEF suggestProducts
  <2> QED BY <1>2, <2>1 DEF Show, PageType
<1> QED BY <1>1, <1>3, <1>4, <1>5, <1>6

(* Every click keeps its word: of two pages read with nothing saved        *)
(* meanwhile, the second is what the link on the first said it would be.   *)
THEOREM ClicksAreKept == ListingSpec => ClicksKeepTheirWord
<1>1. ASSUME ListingInv, ListingInv', [ListingNext]_listingVars, Quiet(page), Quiet(page'), page' # page
      PROVE  ClickKeepsItsWord(page, page')
  <2>1. ListingNext
    BY <1>1 DEF listingVars
  <2>2. /\ load # Blank /\ load' = Blank /\ item' = item
        /\ page'.view = load.view /\ page'.via = load.via /\ page'.promise = load.promise
        /\ page'.edited = load.edited
    BY <1>1, <2>1, PagesComeFromLoads
  <2>3. /\ item \in [Items -> ItemType] /\ page # Blank /\ page.edited = {}
        /\ Loaded(page) /\ page.pc = "shown" /\ Followed(page, load) /\ load.edited = {}
        /\ Honest(item, page)
    BY <1>1, <2>2 DEF ListingInv, Quiet
  <2>4. Loaded(page') /\ page'.pc = "shown" /\ Honest(item, page') /\ page'.edited = {}
    BY <1>1, <2>2 DEF ListingInv, Quiet
  <2>5. Followed(page, page')
    BY <2>2, <2>3 DEF Followed
  <2>6. Steady(item, page) /\ Steady(item, page')
    BY <2>3, <2>4 DEF Honest
  <2> QED BY <2>3, <2>4, <2>5, <2>6, KeepsItsWord
<1>2. ListingInv /\ ListingInv' /\ [ListingNext]_listingVars
        => [Quiet(page) /\ Quiet(page') /\ page' # page => ClickKeepsItsWord(page, page')]_listingVars
  BY <1>1
<1> QED BY <1>2, ListingStands, PTL DEF ListingSpec, ClicksKeepTheirWord
=============================================================================
