--------------------------- MODULE PageCache_proofs ---------------------------
(***************************************************************************)
(* Of PageCache, for any number of products, page views and edits: type    *)
(* correctness, and that an outdated page has a cause.                     *)
(***************************************************************************)
EXTENDS PageCache, TLAPS

(* What a query of Postgres answers. *)
Answers == Products \cup Texts \cup {Nothing}

LEMMA QueryType ==
  ASSUME TypeOK, NEW k \in Keys
  PROVE  /\ Query(k) \in Answers
         /\ k = "id" => Query(k) \in Products \cup {Nothing}
  BY CacheAssumption DEF Query, Keys, Answers

-----------------------------------------------------------------------------
(* There is no purge to come without an edit. *)
PurgesFollowEdits == \A p \in Products : purging[p] <= edits

(* Nothing has gone wrong, and every edit has purged. *)
Settled == ~faults /\ ~raced /\ \A p \in Products : purging[p] = 0

(* Then what is cached is what Postgres says, and so is what is on its way *)
(* into the cache.                                                         *)
SettledIsCurrent ==
  Settled => /\ \A k \in Keys : ~Outdated(k)
             /\ \A f \in fills : f.value = Query(f.key)

CacheInv ==
  /\ TypeOK
  /\ PurgesFollowEdits
  /\ SettledIsCurrent

(* The invariant holds of an empty cache. *)
LEMMA InitCache == Init => CacheInv
  <1> SUFFICES ASSUME Init PROVE CacheInv
    OBVIOUS
  <1>1. TypeOK
    <2>1. row \in [Products -> Contents \cup {Absent, Gone}]
      BY DEF Init, Contents
    <2>2. edits \in 0 .. MaxEdits /\ purging \in [Products -> 0 .. MaxEdits]
      BY CacheAssumption DEF Init
    <2> QED
      BY <2>1, <2>2 DEF Init, TypeOK
  <1>2. PurgesFollowEdits
    BY DEF Init, PurgesFollowEdits
  <1>3. SettledIsCurrent
    BY DEF Init, SettledIsCurrent, Outdated, Accepted, Cached
  <1> QED
    BY <1>1, <1>2, <1>3 DEF CacheInv

-----------------------------------------------------------------------------
(* An edit has its purge to come. *)
LEMMA CommitStep ==
  ASSUME CacheInv, NEW p \in Products, NEW content \in Contents \cup {Gone}, Commit(p, content)
  PROVE  CacheInv'
  <1> USE CacheAssumption DEF CacheInv, TypeOK, Commit
  <1>1. PurgesFollowEdits'
    BY DEF PurgesFollowEdits
  <1>2. purging[p] + 1 \in 0 .. MaxEdits
    BY DEF PurgesFollowEdits
  <1>3. TypeOK'
    BY <1>2
  <1>4. ~Settled'
    BY DEF Settled
  <1> QED
    BY <1>1, <1>3, <1>4 DEF SettledIsCurrent

(* A stamp of tags leaves every entry as it is, but for the tags. *)
LEMMA StampedEntries ==
  ASSUME TypeOK, NEW tags \in SUBSET Tags, stampTags(tags)
  PROVE  /\ entry' \in [Keys -> Entry \cup {NoEntry}]
         /\ \A k \in Keys :
              Accepted(k)' => Accepted(k) /\ entry'[k].value = entry[k].value
         /\ \A k \in Keys : Cached(k) /\ tags \cap TagsOf(k) # {} /\ Accepted(k)' => entry[k].age = 0
         /\ ~raced' => /\ ~raced
                       /\ \A f \in fills : f.value = Query(f.key)
                       /\ \A k \in Keys : Outdated(k) => entry[k].age # 0
  <1> USE CacheAssumption
  <1>1. \A k \in Keys : entry'[k] = IF Cached(k) THEN Revoke(entry[k], tags \cap TagsOf(k)) ELSE NoEntry
    BY DEF stampTags
  <1>2. ASSUME NEW k \in Keys, Cached(k)
        PROVE  /\ entry[k] \in Entry
               /\ entry'[k] \in Entry /\ entry'[k].value = entry[k].value
               /\ entry'[k].revoked = (IF entry[k].age > 0 THEN entry[k].revoked \cup (tags \cap TagsOf(k))
                                       ELSE entry[k].revoked)
    <2>1. entry[k] \in Entry
      BY <1>2 DEF TypeOK, Cached
    <2> QED
      BY <1>1, <1>2, <2>1 DEF Revoke, Entry
  <1>3. entry' \in [Keys -> Entry \cup {NoEntry}]
    BY <1>1, <1>2 DEF stampTags
  <1>4. ASSUME NEW k \in Keys, Accepted(k)'
        PROVE  Cached(k) /\ entry[k].revoked = {} /\ (tags \cap TagsOf(k) # {} => entry[k].age = 0)
    <2>1. Cached(k)
      BY <1>1, <1>4 DEF Accepted, Cached
    <2>2. entry'[k].revoked = {}
      BY <1>4 DEF Accepted
    <2>3. entry[k].revoked = {} /\ (tags \cap TagsOf(k) # {} => ~(entry[k].age > 0))
      BY <1>2, <2>1, <2>2
    <2>4. entry[k] \in Entry
      BY <1>2, <2>1
    <2>5. entry[k].age \in 0 .. TTL + 1
      BY <2>4 DEF Entry
    <2> QED
      BY <2>1, <2>3, <2>5
  <1>5. ~raced' => /\ ~raced
                   /\ \A f \in fills : f.value = Query(f.key)
                   /\ \A k \in Keys : Outdated(k) => entry[k].age # 0
    BY DEF stampTags
  <1> QED
    BY <1>2, <1>3, <1>4, <1>5 DEF Accepted

(* Once the rows stay as they are, so do the answers. *)
LEMMA QueryStays ==
  ASSUME UNCHANGED row, NEW k \in Keys
  PROVE  Query(k)' = Query(k)
  BY DEF Query

(* A purge revokes every entry of the site, unless it is overtaken. *)
LEMMA PurgeStep ==
  ASSUME CacheInv, NEW p \in Products, revalidateTags(p) \/ PurgeFails(p)
  PROVE  CacheInv'
  <1> USE CacheAssumption DEF CacheInv
  <1>1. CASE revalidateTags(p)
    <2>1. productTags(p) \in SUBSET Tags /\ \A k \in Keys : productTags(p) \cap TagsOf(k) # {}
      BY DEF productTags, Tags, TagsOf
    <2>2. stampTags(productTags(p)) /\ UNCHANGED <<row, edits, fills, visitor, faults>>
          /\ purging' = [purging EXCEPT ![p] = @ - 1] /\ purging[p] > 0
      BY <1>1 DEF revalidateTags
    <2>3. TypeOK'
      <3>1. entry' \in [Keys -> Entry \cup {NoEntry}]
        BY <2>1, <2>2, StampedEntries
      <3>2. raced' \in BOOLEAN
        BY <2>2 DEF stampTags
      <3>3. purging' \in [Products -> 0 .. MaxEdits]
        BY <2>2 DEF TypeOK
      <3> QED
        BY <2>2, <3>1, <3>2, <3>3 DEF TypeOK
    <2>4. PurgesFollowEdits'
      BY <2>2 DEF PurgesFollowEdits, TypeOK
    <2>5. SettledIsCurrent'
      <3> SUFFICES ASSUME Settled' PROVE (\A k \in Keys : ~Outdated(k)') /\ (\A f \in fills' : f.value = Query(f.key)')
        BY DEF SettledIsCurrent
      <3>1. ~raced'
        BY DEF Settled
      <3>2. ASSUME NEW k \in Keys PROVE ~Outdated(k)'
        BY <2>1, <2>2, <3>1, StampedEntries, QueryStays DEF Outdated, Accepted
      <3>3. ASSUME NEW f \in fills' PROVE f.value = Query(f.key)'
        <4>1. f \in fills /\ f.key \in Keys
          BY <2>2 DEF TypeOK, Fills
        <4>2. f.value = Query(f.key)
          BY <2>1, <2>2, <3>1, <4>1, StampedEntries
        <4> QED
          BY <2>2, <4>1, <4>2, QueryStays
      <3> QED
        BY <3>2, <3>3
    <2> QED
      BY <2>3, <2>4, <2>5
  <1>2. CASE PurgeFails(p)
    BY <1>2 DEF PurgeFails, TypeOK, PurgesFollowEdits, SettledIsCurrent, Settled
  <1> QED
    BY <1>1, <1>2

(* An operator's purge revokes some entries more. *)
LEMMA OperatorStep ==
  ASSUME CacheInv, NEW tag \in Tags, OperatorPurge(tag)
  PROVE  CacheInv'
  <1> USE CacheAssumption DEF CacheInv
  <1>1. {tag} \in SUBSET Tags /\ stampTags({tag}) /\ UNCHANGED <<row, edits, purging, fills, visitor, faults>>
    BY DEF OperatorPurge
  <1>2. TypeOK'
    <2>1. entry' \in [Keys -> Entry \cup {NoEntry}]
      BY <1>1, StampedEntries
    <2>2. raced' \in BOOLEAN
      BY <1>1 DEF stampTags
    <2> QED
      BY <1>1, <2>1, <2>2 DEF TypeOK
  <1>3. PurgesFollowEdits'
    BY <1>1 DEF PurgesFollowEdits
  <1>4. SettledIsCurrent'
    <2> SUFFICES ASSUME Settled' PROVE (\A k \in Keys : ~Outdated(k)') /\ (\A f \in fills' : f.value = Query(f.key)')
      BY DEF SettledIsCurrent
    <2>1. Settled
      BY <1>1, StampedEntries DEF Settled
    <2>2. ASSUME NEW k \in Keys PROVE ~Outdated(k)'
      BY <1>1, <2>1, StampedEntries, QueryStays DEF Outdated, Accepted, SettledIsCurrent
    <2>3. ASSUME NEW f \in fills' PROVE f.value = Query(f.key)'
      <3>1. f \in fills /\ f.key \in Keys
        BY <1>1 DEF TypeOK, Fills
      <3> QED
        BY <1>1, <2>1, <3>1, QueryStays DEF SettledIsCurrent
    <2> QED
      BY <2>2, <2>3
  <1> QED
    BY <1>2, <1>3, <1>4

-----------------------------------------------------------------------------
(* A read answers what is cached, or what Postgres says, and in that case  *)
(* brings it on its way into the cache.                                    *)
LEMMA ReadAnswers ==
  ASSUME CacheInv, NEW k \in Keys, NEW value, cached(k, value)
  PROVE  /\ fills' \subseteq Fills
         /\ \A f \in fills' : f \in fills \/ (f.key = k /\ f.value = Query(k))
  <1>1. Query(k) \in Answers
    BY QueryType DEF CacheInv
  <1>2. CASE Hit(k, value)
    BY <1>2 DEF Hit, CacheInv, TypeOK
  <1>3. CASE Miss(k, value)
    BY <1>1, <1>3 DEF Miss, CacheInv, TypeOK, Fills, Answers
  <1> QED
    BY <1>2, <1>3 DEF cached

(* New values on their way are those of the rows: nothing else changes the *)
(* cache in a view or a refresh.                                           *)
LEMMA ReadStep ==
  ASSUME CacheInv, UNCHANGED <<row, edits, purging, entry, faults, raced>>,
         visitor' \in [Visitors -> {"idle", "direct"} \cup Products],
         fills' \subseteq Fills,
         \A f \in fills' : f \in fills \/ f.value = Query(f.key)
  PROVE  CacheInv'
  <1>1. TypeOK' /\ PurgesFollowEdits'
    BY DEF CacheInv, TypeOK, PurgesFollowEdits
  <1>2. SettledIsCurrent'
    <2> SUFFICES ASSUME Settled' PROVE (\A k \in Keys : ~Outdated(k)') /\ (\A f \in fills' : f.value = Query(f.key)')
      BY DEF SettledIsCurrent
    <2>1. Settled
      BY DEF Settled
    <2>2. ASSUME NEW k \in Keys PROVE ~Outdated(k)'
      BY <2>1, QueryStays DEF CacheInv, SettledIsCurrent, Outdated, Accepted, Cached
    <2>3. ASSUME NEW f \in fills' PROVE f.value = Query(f.key)'
      <3>1. f.key \in Keys
        BY DEF Fills
      <3>2. f.value = Query(f.key)
        BY <2>1 DEF CacheInv, SettledIsCurrent
      <3> QED
        BY <3>1, <3>2, QueryStays
    <2> QED
      BY <2>2, <2>3
  <1> QED
    BY <1>1, <1>2 DEF CacheInv

(* A page view. *)
LEMMA ViewStep ==
  ASSUME CacheInv, NEW v \in Visitors, View(v)
  PROVE  CacheInv'
  <1> USE DEF Goto
  <1>1. CASE Resolve(v)
    <2>1. PICK id \in Products \cup {Nothing} :
            cached("id", id) /\ Goto(v, IF id = Nothing THEN "direct" ELSE id)
      BY <1>1 DEF Resolve
    <2>2. "id" \in Keys
      BY DEF Keys
    <2>3. visitor' \in [Visitors -> {"idle", "direct"} \cup Products]
      BY <2>1 DEF CacheInv, TypeOK
    <2> QED
      BY <2>1, <2>2, <2>3, ReadAnswers, ReadStep
  <1>2. CASE ResolveDirect(v)
    <2>1. "id" \in Keys
      BY DEF Keys
    <2>2. Query("id") \in Products \cup {Nothing}
      BY <2>1, QueryType DEF CacheInv
    <2>3. visitor' \in [Visitors -> {"idle", "direct"} \cup Products]
      BY <1>2, <2>2 DEF ResolveDirect, CacheInv, TypeOK
    <2>4. fills' = fills /\ fills \subseteq Fills
      BY <1>2 DEF ResolveDirect, CacheInv, TypeOK
    <2> QED
      BY <1>2, <2>3, <2>4, ReadStep DEF ResolveDirect
  <1>3. CASE ReadPage(v)
    <2>1. PICK text \in Texts \cup {Nothing} : cached(visitor[v], text) /\ Goto(v, "idle")
      BY <1>3 DEF ReadPage
    <2>2. visitor[v] \in Keys
      BY <1>3 DEF ReadPage, Keys
    <2>3. visitor' \in [Visitors -> {"idle", "direct"} \cup Products]
      BY <2>1 DEF CacheInv, TypeOK
    <2> QED
      BY <2>1, <2>2, <2>3, ReadAnswers, ReadStep
  <1> QED
    BY <1>1, <1>2, <1>3 DEF View

(* An entry older than its TTL is read again. *)
LEMMA RefreshStep ==
  ASSUME CacheInv, NEW k \in Keys, Refresh(k)
  PROVE  CacheInv'
  <1>1. cached(k, Query(k))
    BY DEF Refresh, cached
  <1>2. visitor' \in [Visitors -> {"idle", "direct"} \cup Products]
    BY DEF Refresh, CacheInv, TypeOK
  <1> QED
    BY <1>1, <1>2, ReadAnswers, ReadStep DEF Refresh

(* An entry that is written holds what was read for it. *)
LEMMA WriteStep ==
  ASSUME CacheInv, NEW f \in fills, writeEntry(f) \/ WriteLost(f)
  PROVE  CacheInv'
  <1> USE CacheAssumption DEF CacheInv
  <1>1. f \in Fills /\ f.key \in Keys /\ f.value \in Answers
    BY DEF TypeOK, Fills, Answers
  <1>2. CASE writeEntry(f)
    <2> DEFINE new == [value |-> f.value, age |-> 0, revoked |-> {}]
    <2>1. new \in Entry /\ new.value = f.value
      BY <1>1 DEF Entry, Answers
    <2>2. /\ entry' = [entry EXCEPT ![f.key] = new]
          /\ fills' = fills \ {f} /\ UNCHANGED <<row, edits, purging, visitor, faults, raced>>
      BY <1>2 DEF writeEntry
    <2> HIDE DEF new
    <2>3. TypeOK' /\ PurgesFollowEdits'
      BY <1>1, <2>1, <2>2 DEF TypeOK, PurgesFollowEdits
    <2>4. SettledIsCurrent'
      <3> SUFFICES ASSUME Settled' PROVE (\A k \in Keys : ~Outdated(k)') /\ (\A g \in fills' : g.value = Query(g.key)')
        BY DEF SettledIsCurrent
      <3>1. Settled
        BY <2>2 DEF Settled
      <3>2. ASSUME NEW k \in Keys PROVE ~Outdated(k)'
        <4>1. Query(k)' = Query(k)
          BY <2>2, QueryStays
        <4>2. CASE k = f.key
          BY <1>1, <2>1, <2>2, <3>1, <4>1, <4>2 DEF TypeOK, SettledIsCurrent, Outdated
        <4>3. CASE k # f.key
          BY <2>2, <3>1, <4>1, <4>3 DEF TypeOK, SettledIsCurrent, Outdated, Accepted, Cached
        <4> QED
          BY <4>2, <4>3
      <3>3. ASSUME NEW g \in fills' PROVE g.value = Query(g.key)'
        <4>1. g \in fills /\ g.key \in Keys
          BY <2>2 DEF TypeOK, Fills
        <4> QED
          BY <2>2, <3>1, <4>1, QueryStays DEF SettledIsCurrent
      <3> QED
        BY <3>2, <3>3
    <2> QED
      BY <2>3, <2>4
  <1>3. CASE WriteLost(f)
    <2>1. /\ UNCHANGED <<row, edits, purging, entry, visitor, faults, raced>>
          /\ fills' \subseteq fills /\ fills \subseteq Fills
      BY <1>3 DEF WriteLost, TypeOK
    <2>2. visitor' \in [Visitors -> {"idle", "direct"} \cup Products]
      BY <2>1 DEF TypeOK
    <2> QED
      BY <2>1, <2>2, ReadStep
  <1> QED
    BY <1>2, <1>3

(* Eviction and time take nothing that is current away.                    *)
LEMMA AgeStep ==
  ASSUME CacheInv, (\E k \in Keys : Evict(k)) \/ Tick
  PROVE  CacheInv'
  <1> USE CacheAssumption DEF CacheInv
  <1>1. /\ UNCHANGED <<row, edits, purging, fills, visitor, faults, raced>>
        /\ entry' \in [Keys -> Entry \cup {NoEntry}]
        /\ \A k \in Keys : Accepted(k)' => Accepted(k) /\ entry'[k].value = entry[k].value
    <2>1. ASSUME NEW k \in Keys, Evict(k)
          PROVE  /\ UNCHANGED <<row, edits, purging, fills, visitor, faults, raced>>
                 /\ entry' \in [Keys -> Entry \cup {NoEntry}]
                 /\ \A q \in Keys : Accepted(q)' => Accepted(q) /\ entry'[q].value = entry[q].value
      BY <2>1 DEF Evict, TypeOK, Accepted, Cached
    <2>2. CASE Tick
      <3>1. ASSUME NEW k \in Keys, Cached(k), entry[k].age <= TTL
            PROVE  /\ [entry[k] EXCEPT !.age = @ + 1] \in Entry
                   /\ [entry[k] EXCEPT !.age = @ + 1].value = entry[k].value
                   /\ [entry[k] EXCEPT !.age = @ + 1].revoked = entry[k].revoked
        <4>1. entry[k] \in Entry
          BY <3>1 DEF TypeOK, Cached
        <4> QED
          BY <3>1, <4>1 DEF Entry
      <3>2. \A k \in Keys :
              entry'[k] = IF Cached(k) /\ entry[k].age <= TTL
                          THEN [entry[k] EXCEPT !.age = @ + 1] ELSE entry[k]
        BY <2>2 DEF Tick
      <3>3. entry' \in [Keys -> Entry \cup {NoEntry}]
        BY <2>2, <3>1, <3>2 DEF Tick, TypeOK
      <3>4. \A k \in Keys : Accepted(k)' => Accepted(k) /\ entry'[k].value = entry[k].value
        BY <3>1, <3>2 DEF Accepted, Cached
      <3> QED
        BY <2>2, <3>3, <3>4 DEF Tick
    <2> QED
      BY <2>1, <2>2
  <1>2. TypeOK' /\ PurgesFollowEdits'
    BY <1>1 DEF TypeOK, PurgesFollowEdits
  <1>3. SettledIsCurrent'
    <2> SUFFICES ASSUME Settled' PROVE (\A k \in Keys : ~Outdated(k)') /\ (\A f \in fills' : f.value = Query(f.key)')
      BY DEF SettledIsCurrent
    <2>1. Settled
      BY <1>1 DEF Settled
    <2>2. ASSUME NEW k \in Keys PROVE ~Outdated(k)'
      BY <1>1, <2>1, QueryStays DEF SettledIsCurrent, Outdated
    <2>3. ASSUME NEW f \in fills' PROVE f.value = Query(f.key)'
      <3>1. f \in fills /\ f.key \in Keys
        BY <1>1 DEF TypeOK, Fills
      <3> QED
        BY <1>1, <2>1, <3>1, QueryStays DEF SettledIsCurrent
    <2> QED
      BY <2>2, <2>3
  <1> QED
    BY <1>2, <1>3

(* A stamp that Redis evicts is a fault. *)
LEMMA EvictStampStep ==
  ASSUME CacheInv, NEW t \in Tags, EvictStamp(t)
  PROVE  CacheInv'
  <1>1. \A k \in Keys : entry'[k] = IF Cached(k) THEN [entry[k] EXCEPT !.revoked = @ \ {t}] ELSE NoEntry
    BY DEF EvictStamp
  <1>2. ASSUME NEW k \in Keys, Cached(k) PROVE [entry[k] EXCEPT !.revoked = @ \ {t}] \in Entry
    <2>1. entry[k] \in Entry
      BY <1>2 DEF CacheInv, TypeOK, Cached
    <2> QED
      BY <2>1 DEF Entry
  <1>3. entry' \in [Keys -> Entry \cup {NoEntry}]
    BY <1>1, <1>2 DEF EvictStamp
  <1>4. TypeOK' /\ PurgesFollowEdits' /\ ~Settled'
    BY <1>3 DEF EvictStamp, CacheInv, TypeOK, PurgesFollowEdits, Settled
  <1> QED
    BY <1>4 DEF CacheInv, SettledIsCurrent

(* Every step keeps the invariant. *)
LEMMA CacheStep == CacheInv /\ [Next]_vars => CacheInv'
  <1> SUFFICES ASSUME CacheInv, [Next]_vars PROVE CacheInv'
    OBVIOUS
  <1>1. ASSUME NEW p \in Products, NEW c \in Contents, Create(p, c) \/ Update(p, c) PROVE CacheInv'
    BY <1>1, CommitStep DEF Create, Update
  <1>2. ASSUME NEW p \in Products, Delete(p) PROVE CacheInv'
    BY <1>2, CommitStep DEF Delete
  <1>3. CASE UNCHANGED vars
    <2>1. /\ UNCHANGED <<row, edits, purging, entry, fills, visitor, faults, raced>>
          /\ fills' \subseteq Fills /\ visitor' \in [Visitors -> {"idle", "direct"} \cup Products]
      BY <1>3 DEF vars, CacheInv, TypeOK
    <2> QED
      BY <2>1, ReadStep
  <1> QED
    BY <1>1, <1>2, <1>3, PurgeStep, OperatorStep, ViewStep, RefreshStep, WriteStep, AgeStep,
       EvictStampStep DEF Next

(* Every behaviour of the cache keeps the invariant.                       *)
LEMMA CacheCorrect == Spec => []CacheInv
  <1> QED
    BY InitCache, CacheStep, PTL DEF Spec

-----------------------------------------------------------------------------
(* The variables keep their types.                                         *)
THEOREM CacheTypes == Spec => []TypeOK
  <1>1. CacheInv => TypeOK
    BY DEF CacheInv
  <1> QED
    BY <1>1, CacheCorrect, PTL

(* What the cache handler accepts is what Postgres says, unless a purge is *)
(* to come, was lost, or was overtaken (cache-handler.js, revalidateTags).  *)
THEOREM OutdatedPagesHaveCause == Spec => []OutdatedNeedsCause
  <1>1. CacheInv => OutdatedNeedsCause
    <2> SUFFICES ASSUME CacheInv, ~OutdatedNeedsCause PROVE FALSE
      OBVIOUS
    <2>1. TypeOK /\ \A p \in Products : purging[p] = 0
      BY DEF OutdatedNeedsCause, CacheInv, TypeOK
    <2> QED
      BY <2>1 DEF OutdatedNeedsCause, CacheInv, SettledIsCurrent, Settled
  <1> QED
    BY <1>1, CacheCorrect, PTL
=============================================================================
