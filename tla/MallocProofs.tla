---------------------------- MODULE MallocProofs ----------------------------
(* Proof that ccmalloc frees no batch in use, for any number of allocators    *)
(* and batches of any size.                                                   *)
EXTENDS Ccmalloc, TLAPS

MallocSpec == init_bucket /\ [][MallocNext]_mallocVars

\* A batch that an allocator took from the spare and has not inserted yet; the
\* batches that are or were in the list; the ones no longer at its head; and the
\* allocators that cut from a batch and have not accounted for it.
IsInserting(b) == \E t \in Mallocs : mpc[t] = "insert" /\ mbatch[t] = b
IsListed(b) == b \in 1 .. made /\ b # spare /\ ~IsInserting(b)
IsPast(b) == IsListed(b) /\ b # head
IsWithin(t, b) == mpc[t] \in {"cut", "account"} /\ mbatch[t] = b
Accounting(b) == {t \in Mallocs : mpc[t] = "account" /\ mbatch[t] = b}

BucketTypes ==
    /\ head \in Batches /\ nxt \in [Batches -> Batches \cup {NULL}] /\ spare \in Batches \cup {NULL}
    /\ made \in 2 .. MaxBatches /\ bstatus \in [Batches -> {"none", "MAPPED", "INUSE", "FREED"}]
    /\ cut \in [Batches -> Nat] /\ allocated \in [Batches -> Nat] /\ freed \in [Batches -> Nat]
    /\ spare <= made /\ late \subseteq Batches
ThreadTypes ==
    /\ mpc \in [Mallocs -> {"idle", "spare", "insert", "cut", "account"}]
    /\ mbatch \in [Mallocs -> Batches \cup {NULL}] /\ seen \in [Mallocs -> Batches \cup {NULL}]
    /\ fpc \in {"idle", "walk", "compare"} /\ fbatch \in Batches \cup {NULL} /\ falloc \in Nat

\* What follows a batch was listed before it, and is never the head.
ListInv ==
    /\ IsListed(head)
    /\ \A b \in Batches : nxt[b] # NULL => IsListed(nxt[b])
    /\ \A b \in Batches : IsListed(b) => nxt[b] # head

\* Where the allocators are.
PlaceInv ==
    /\ \A t \in Mallocs : mpc[t] \in {"cut", "account"} => IsListed(mbatch[t])
    /\ \A t \in Mallocs : mpc[t] = "insert" =>
          /\ mbatch[t] \in 1 .. made /\ mbatch[t] # spare
          /\ nxt[mbatch[t]] = seen[t] /\ IsListed(seen[t])
    /\ \A t, u \in Mallocs : mpc[t] = "insert" /\ mpc[u] = "insert" /\ mbatch[t] = mbatch[u] => t = u

CountInv ==
    /\ \A b \in Batches : cut[b] = allocated[b] + Cardinality(Accounting(b)) /\ freed[b] <= allocated[b]
    /\ \A b \in Batches : ~IsListed(b) => cut[b] = 0

\* An allocator alone in a batch has room in it.
CrowdInv == ~crowded =>
    /\ \A t \in Mallocs : mpc[t] = "cut" => cut[mbatch[t]] < BatchSize
    /\ \A t, u \in Mallocs : IsWithin(t, mbatch[t]) /\ IsWithin(u, mbatch[t]) => t = u

\* Nobody is in a batch that left the head in order; only such a batch is freed.
PastInv ==
    /\ \A b \in Batches : IsPast(b) /\ b \notin late => \A t \in Mallocs : ~IsWithin(t, b)
    /\ \A b \in Batches : bstatus[b] = "FREED" => IsPast(b) /\ (b \notin late => cut[b] = freed[b])
    /\ fpc # "idle" => IsListed(fbatch)
    /\ fpc = "compare" => IsPast(fbatch) /\ (fbatch \notin late => falloc = allocated[fbatch])

\* Without a lost race at the head the list holds every batch.
ReachInv == ~lostrace => \A b \in Batches : IsListed(b) => b \in Reachable

DiedInv == (died = "bounds" => crowded) /\ (died = "nomapping" => lostrace)

MallocInv == /\ BucketTypes /\ ThreadTypes /\ ListInv /\ PlaceInv /\ CountInv
             /\ CrowdInv /\ PastInv /\ ReachInv /\ DiedInv

\* What is used of the sizes of sets of allocators; Counting, at the end, proves
\* it.
Counts ==
    /\ Cardinality({}) = 0
    /\ \A S \in SUBSET Mallocs : Cardinality(S) \in Nat
    /\ \A S \in SUBSET Mallocs, t \in Mallocs :
          /\ t \notin S => Cardinality(S \cup {t}) = Cardinality(S) + 1
          /\ t \in S => Cardinality(S \ {t}) = Cardinality(S) - 1

\* It holds of a new bucket.
LEMMA MallocInit == ASSUME Counts, init_bucket PROVE MallocInv
<1> USE BatchesAssumption
<1>1. /\ head = 1 /\ spare = 2 /\ made = 2 /\ nxt = [b \in Batches |-> NULL]
      /\ cut = [b \in Batches |-> 0] /\ allocated = [b \in Batches |-> 0] /\ freed = [b \in Batches |-> 0]
      /\ mpc = [t \in Mallocs |-> "idle"] /\ mbatch = [t \in Mallocs |-> NULL]
      /\ seen = [t \in Mallocs |-> NULL] /\ fpc = "idle" /\ fbatch = NULL /\ falloc = 0 /\ late = {}
      /\ died = "no" /\ 1 \in Batches /\ 2 \in Batches /\ NULL \notin Batches
  BY DEF init_bucket, Batches, NULL
<1>2. bstatus \in [Batches -> {"none", "MAPPED", "INUSE", "FREED"}] /\ \A b \in Batches : bstatus[b] # "FREED"
  BY Zenon DEF init_bucket
<1>3. \A b : IsListed(b) <=> b = 1
  BY <1>1 DEF IsListed, IsInserting
<1>4. BucketTypes
  BY <1>1, <1>2 DEF BucketTypes, Batches, NULL
<1>5. ThreadTypes
  BY <1>1, Zenon DEF ThreadTypes
<1>6. ListInv /\ PlaceInv /\ CrowdInv
  BY <1>1, <1>3, Zenon DEF ListInv, PlaceInv, CrowdInv, IsWithin
<1>7. CountInv
  <2>1. \A b \in Batches : Accounting(b) = {}
    BY <1>1, Zenon DEF Accounting
  <2>2. Cardinality({}) = 0
    BY Zenon DEF Counts
  <2> QED  BY <1>1, <2>1, <2>2 DEF CountInv
<1>8. PastInv /\ DiedInv
  BY <1>1, <1>2, <1>3, Zenon DEF PastInv, DiedInv, IsPast
<1>9. ReachInv
  BY <1>1, <1>3, Zenon DEF ReachInv, Reachable, Closed
<1> QED  BY <1>4, <1>5, <1>6, <1>7, <1>8, <1>9, Zenon DEF MallocInv

-----------------------------------------------------------------------------
\* The batches do not change.
LEMMA Fixed == Batches' = Batches
  BY Zenon DEF Batches

\* A step that moves allocator t between the steps that are not "insert" and
\* leaves the bucket alone keeps what is listed.
LEMMA SameListed ==
    ASSUME made' = made, spare' = spare,
           \A t \in Mallocs : (mpc'[t] = "insert" /\ mpc[t] = "insert" /\ mbatch'[t] = mbatch[t])
                              \/ (mpc'[t] # "insert" /\ mpc[t] # "insert")
    PROVE  \A b : IsListed(b)' <=> IsListed(b)
  BY Zenon DEF IsListed, IsInserting

\* What is reachable from the head depends on the list and on nothing else.
LEMMA ReachKept ==
    ASSUME ReachInv, head' = head, nxt' = nxt, lostrace' = lostrace, \A b : IsListed(b)' <=> IsListed(b)
    PROVE  ReachInv'
<1>1. Reachable' = Reachable
  BY Zenon DEF Reachable, Closed
<1> QED  BY <1>1, Zenon DEF ReachInv

\* The number of allocators that have not accounted is a number.
LEMMA AccountingCount ==
    ASSUME Counts, NEW b
    PROVE  Accounting(b) \in SUBSET Mallocs /\ Cardinality(Accounting(b)) \in Nat
<1>1. Accounting(b) \in SUBSET Mallocs
  BY Zenon DEF Accounting
<1> QED  BY <1>1, Zenon DEF Counts

\* The allocator finds room at the head, or goes for the spare.
LEMMA LookStep == ASSUME Counts, MallocInv, NEW t \in Mallocs, cocall_malloc(t) PROVE MallocInv'
<1>1. /\ mpc[t] = "idle"
      /\ UNCHANGED <<head, nxt, spare, made, cut, allocated, freed, seen, late, lostrace, died, fpc, fbatch, falloc>>
      /\ BucketTypes /\ ThreadTypes /\ head \in Batches
  BY Zenon DEF cocall_malloc, MallocInv, BucketTypes, Emptier
<1>2. \/ mpc' = [mpc EXCEPT ![t] = "spare"] /\ UNCHANGED <<mbatch, bstatus, crowded>>
      \/ BatchSize - cut[head] >= 1 /\ Enter(t, head)
  BY <1>1, BatchesAssumption DEF cocall_malloc, mem_remaining, BucketTypes
<1>3. /\ mpc' \in [Mallocs -> {"idle", "spare", "insert", "cut", "account"}]
      /\ mbatch' \in [Mallocs -> Batches \cup {NULL}]
      /\ mpc'[t] \in {"spare", "cut"} /\ \A u \in Mallocs \ {t} : mpc'[u] = mpc[u] /\ mbatch'[u] = mbatch[u]
      /\ bstatus' \in [Batches -> {"none", "MAPPED", "INUSE", "FREED"}]
      /\ \A b \in Batches : bstatus'[b] = "FREED" <=> bstatus[b] = "FREED"
  BY <1>1, <1>2 DEF Enter, BucketTypes, ThreadTypes
<1>4. \A b : IsListed(b)' <=> IsListed(b)
  BY <1>1, <1>3, SameListed, Zenon
<1>5. mpc'[t] = "cut" => mbatch'[t] = head /\ cut[head] < BatchSize /\ (crowded' \/ \A u \in Mallocs : ~IsWithin(u, head))
  <2>1. Within(head) = {} => \A u \in Mallocs : ~IsWithin(u, head)
    BY Zenon DEF Within, IsWithin
  <2>2. CASE mpc' = [mpc EXCEPT ![t] = "spare"]
    BY <1>1, <2>2, Zenon DEF ThreadTypes
  <2>3. CASE BatchSize - cut[head] >= 1 /\ Enter(t, head)
    <3>1. mbatch'[t] = head /\ (crowded' \/ Within(head) = {})
      BY <1>1, <2>3, Zenon DEF Enter, ThreadTypes
    <3>2. cut[head] < BatchSize
      BY <1>1, <2>3, BatchesAssumption DEF BucketTypes
    <3> QED  BY <2>1, <3>1, <3>2, Zenon
  <2> QED  BY <1>2, <2>2, <2>3, Zenon
<1>6. crowded => crowded'
  BY <1>2, Zenon DEF Enter
<1>7. BucketTypes' /\ ThreadTypes'
  <2>1. BucketTypes'
    BY <1>1, <1>3, Fixed, Zenon DEF BucketTypes
  <2>2. ThreadTypes'
    BY <1>1, <1>3, Fixed, Zenon DEF ThreadTypes
  <2> QED  BY <2>1, <2>2, Zenon
<1>8. ListInv'
  BY <1>1, <1>4, Zenon DEF MallocInv, ListInv
<1>9. PlaceInv'
  BY <1>1, <1>3, <1>4, <1>5 DEF MallocInv, PlaceInv, ListInv
<1>10. CountInv'
  <2>1. \A b : Accounting(b)' = Accounting(b)
    BY <1>1, <1>3, ZenonT(60) DEF Accounting
  <2> QED  BY <1>1, <1>4, <2>1, Fixed, Zenon DEF MallocInv, CountInv
<1>11. CrowdInv'
  BY <1>1, <1>3, <1>5, <1>6 DEF MallocInv, CrowdInv, IsWithin
<1>12. PastInv'
  BY <1>1, <1>3, <1>4, <1>5, Fixed DEF MallocInv, PastInv, IsPast, IsWithin
<1>13. ReachInv'
  BY <1>1, <1>4, ReachKept, Zenon DEF MallocInv
<1>14. DiedInv'
  BY <1>1, <1>6, Zenon DEF MallocInv, DiedInv
<1> QED  BY <1>7, <1>8, <1>9, <1>10, <1>11, <1>12, <1>13, <1>14, Zenon DEF MallocInv

\* It takes the spare, which is not listed before it is inserted.
LEMMA SpareStep == ASSUME Counts, MallocInv, NEW t \in Mallocs, get_spare(t) PROVE MallocInv'
<1>1. /\ mpc[t] = "spare"
      /\ UNCHANGED <<head, made, bstatus, cut, allocated, freed, fpc, fbatch, falloc, late, crowded, lostrace>>
      /\ BucketTypes /\ ThreadTypes /\ died = "no"
  BY Zenon DEF get_spare, MallocInv, Emptier, History
<1>2. CASE spare = NULL
  <2>1. /\ UNCHANGED <<spare, mbatch, seen, nxt>> /\ mpc' = [mpc EXCEPT ![t] = "idle"]
        /\ died' \in {"no", "null"}
    BY <1>1, <1>2, Zenon DEF get_spare, cocall_calloc
  <2>2. /\ mpc' \in [Mallocs -> {"idle", "spare", "insert", "cut", "account"}]
        /\ mpc'[t] = "idle" /\ \A u \in Mallocs \ {t} : mpc'[u] = mpc[u]
    BY <2>1, <1>1, Zenon DEF ThreadTypes
  <2>4. \A b : IsListed(b)' <=> IsListed(b)
    BY <1>1, <2>1, <2>2, SameListed, Zenon
  <2>7. BucketTypes' /\ ThreadTypes'
    <3>1. BucketTypes'
      BY <1>1, <2>1, <2>2, Fixed, Zenon DEF BucketTypes
    <3>2. ThreadTypes'
      BY <1>1, <2>1, <2>2, Fixed, Zenon DEF ThreadTypes
    <3> QED  BY <3>1, <3>2, Zenon
  <2>8. ListInv' /\ PlaceInv'
    BY <1>1, <2>1, <2>2, <2>4, ZenonT(60) DEF MallocInv, ListInv, PlaceInv
  <2>9. \A b : Accounting(b)' = Accounting(b)
    BY <1>1, <2>1, <2>2, Zenon DEF Accounting
  <2>10. CountInv'
    BY <1>1, <2>4, <2>9, Fixed, Zenon DEF MallocInv, CountInv
  <2>11. CrowdInv' /\ PastInv' /\ DiedInv'
    BY <1>1, <2>1, <2>2, <2>4, Fixed DEF MallocInv, CrowdInv, PastInv, DiedInv, IsPast, IsWithin
  <2>12. ReachInv'
    BY <1>1, <2>1, <2>4, ReachKept, Zenon DEF MallocInv
  <2> QED  BY <2>7, <2>8, <2>10, <2>11, <2>12, Zenon DEF MallocInv
<1>3. CASE spare # NULL
  <2>1. /\ spare' = NULL /\ mpc' = [mpc EXCEPT ![t] = "insert"] /\ mbatch' = [mbatch EXCEPT ![t] = spare]
        /\ seen' = [seen EXCEPT ![t] = head] /\ nxt' = [nxt EXCEPT ![spare] = head] /\ died' = died
    BY <1>1, <1>3, Zenon DEF get_spare
  <2>2. /\ mpc' \in [Mallocs -> {"idle", "spare", "insert", "cut", "account"}]
        /\ mbatch' \in [Mallocs -> Batches \cup {NULL}] /\ seen' \in [Mallocs -> Batches \cup {NULL}]
        /\ mpc'[t] = "insert" /\ mbatch'[t] = spare /\ seen'[t] = head
        /\ \A u \in Mallocs \ {t} : mpc'[u] = mpc[u] /\ mbatch'[u] = mbatch[u] /\ seen'[u] = seen[u]
        /\ nxt' \in [Batches -> Batches \cup {NULL}] /\ nxt'[spare] = head
        /\ \A b \in Batches \ {spare} : nxt'[b] = nxt[b]
        /\ spare \in 1 .. made /\ spare \in Batches
    <3>1. spare \in Batches /\ spare \in 1 .. made
      BY <1>1, <1>3, BatchesAssumption DEF BucketTypes, Batches, NULL
    <3> QED  BY <2>1, <1>1, <3>1, Zenon DEF ThreadTypes, BucketTypes
  <2>3. spare # head /\ ~IsListed(spare)
    BY Zenon DEF MallocInv, ListInv, IsListed
  <2>4. ASSUME NEW b PROVE IsListed(b)' <=> IsListed(b)
    <3>1. CASE b = spare
      BY <2>2, <2>3, <3>1, Zenon DEF IsListed, IsInserting
    <3>2. CASE b # spare
      <4>1. IsInserting(b)' <=> IsInserting(b)
        BY <1>1, <2>2, <3>2, Zenon DEF IsInserting
      <4> QED  BY <1>1, <2>1, <3>2, <4>1, Fixed DEF IsListed, BucketTypes, NULL
    <3> QED  BY <3>1, <3>2, Zenon
  <2>7. BucketTypes' /\ ThreadTypes'
    <3>1. BucketTypes'
      BY <1>1, <2>1, <2>2, Fixed DEF BucketTypes, NULL
    <3>2. ThreadTypes'
      BY <1>1, <2>1, <2>2, Fixed, Zenon DEF ThreadTypes, NULL
    <3> QED  BY <3>1, <3>2, Zenon
  <2>8. ListInv'
    BY <1>1, <2>1, <2>2, <2>3, <2>4, Fixed, ZenonT(60) DEF MallocInv, ListInv
  <2>9. PlaceInv'
    <3>1. \A u \in Mallocs : mpc[u] = "insert" => mbatch[u] \in Batches \ {spare} /\ mbatch[u] \in 1 .. made
      BY <1>1 DEF MallocInv, PlaceInv, ThreadTypes, NULL
    <3>2. 0 \notin 1 .. made
      BY <1>1 DEF BucketTypes
    <3> QED  BY <1>1, <2>1, <2>2, <2>3, <2>4, <3>1, <3>2 DEF MallocInv, PlaceInv, ListInv, NULL
  <2>10. \A b : Accounting(b)' = Accounting(b)
    BY <1>1, <2>2, Zenon DEF Accounting
  <2>11. CountInv'
    BY <1>1, <2>4, <2>10, Fixed, Zenon DEF MallocInv, CountInv
  <2>12. CrowdInv' /\ PastInv' /\ DiedInv'
    BY <1>1, <2>1, <2>2, <2>4, Fixed DEF MallocInv, CrowdInv, PastInv, DiedInv, IsPast, IsWithin
  <2>13. ReachInv'
    <3> SUFFICES ASSUME ~lostrace, NEW b \in Batches, IsListed(b), NEW S \in SUBSET Batches, Closed(S)'
                 PROVE  b \in S
      BY <1>1, <2>4, Fixed, Zenon DEF ReachInv, Reachable
    <3>1. Closed(S \ {spare})
      <4>1. head \in S /\ \A x \in S : nxt'[x] # NULL => nxt'[x] \in S
        BY <1>1, Zenon DEF Closed
      <4>2. \A x \in Batches : nxt[x] # spare \/ nxt[x] = NULL
        BY <2>3, Zenon DEF MallocInv, ListInv
      <4> QED  BY <2>2, <2>3, <1>3, <4>1, <4>2, Zenon DEF Closed
    <3>2. b \in Reachable
      BY Zenon DEF MallocInv, ReachInv
    <3> QED  BY <3>1, <3>2, Zenon DEF Reachable
  <2> QED  BY <2>7, <2>8, <2>9, <2>11, <2>12, <2>13, Zenon DEF MallocInv
<1> QED  BY <1>2, <1>3, Zenon

\* It puts the batch it took at the head; the old head is past.
LEMMA InsertStep == ASSUME Counts, MallocInv, NEW t \in Mallocs, LIST_INSERT_HEAD(t) PROVE MallocInv'
<1>1. /\ mpc[t] = "insert" /\ head' = mbatch[t] /\ Enter(t, mbatch[t])
      /\ UNCHANGED <<nxt, spare, made, cut, allocated, freed, seen, died, fpc, fbatch, falloc>>
      /\ late' = late \cup (IF Within(head) # {} THEN {head} ELSE {}) /\ lostrace' = (lostrace \/ head # seen[t])
      /\ BucketTypes /\ ThreadTypes
  BY Zenon DEF LIST_INSERT_HEAD, MallocInv, Emptier
<1>2. PICK n : n = mbatch[t]
  BY Zenon
<1>3. /\ n \in 1 .. made /\ n # spare /\ nxt[n] = seen[t] /\ n \in Batches /\ ~IsListed(n) /\ n # head
      /\ \A u \in Mallocs : u # t => ~(mpc[u] = "insert" /\ mbatch[u] = n)
      /\ \A u \in Mallocs : ~IsWithin(u, n)
  <2>1. n \in 1 .. made /\ n # spare /\ nxt[n] = seen[t]
    BY <1>1, <1>2, Zenon DEF MallocInv, PlaceInv
  <2>2. n \in Batches
    BY <1>1, <2>1, BatchesAssumption DEF BucketTypes, Batches
  <2>3. ~IsListed(n)
    BY <1>1, <1>2, Zenon DEF IsListed, IsInserting
  <2> QED  BY <1>1, <1>2, <2>1, <2>2, <2>3, Zenon DEF MallocInv, PlaceInv, ListInv, IsWithin
<1>4. /\ mpc' \in [Mallocs -> {"idle", "spare", "insert", "cut", "account"}]
      /\ mbatch' \in [Mallocs -> Batches \cup {NULL}] /\ mpc'[t] = "cut" /\ mbatch'[t] = n
      /\ \A u \in Mallocs \ {t} : mpc'[u] = mpc[u] /\ mbatch'[u] = mbatch[u]
      /\ bstatus' \in [Batches -> {"none", "MAPPED", "INUSE", "FREED"}]
      /\ \A b \in Batches : bstatus'[b] = "FREED" <=> bstatus[b] = "FREED"
  BY <1>1, <1>2, <1>3, Zenon DEF Enter, BucketTypes, ThreadTypes
<1>5. crowded => crowded'
  BY <1>1, Zenon DEF Enter
<1>6. late' \subseteq Batches /\ late \subseteq late' /\ (head \notin late' => \A u \in Mallocs : ~IsWithin(u, head))
  BY <1>1, Zenon DEF BucketTypes, Within, IsWithin
<1>7. ASSUME NEW b PROVE IsListed(b)' <=> IsListed(b) \/ b = n
  <2>1. IsInserting(b)' <=> IsInserting(b) /\ b # n
    BY <1>1, <1>2, <1>3, <1>4, ZenonT(60) DEF IsInserting
  <2> QED  BY <1>1, <1>3, <2>1, Zenon DEF IsListed
<1>8. BucketTypes' /\ ThreadTypes'
  <2>1. BucketTypes'
    BY <1>1, <1>2, <1>3, <1>4, <1>6, Fixed, Zenon DEF BucketTypes
  <2>2. ThreadTypes'
    BY <1>1, <1>2, <1>3, <1>4, <1>6, Fixed, Zenon DEF ThreadTypes
  <2> QED  BY <2>1, <2>2, Zenon
<1>9. ListInv'
  <2>1. /\ head' = n /\ nxt' = nxt /\ ~IsListed(n) /\ n \in Batches /\ n # head
    BY <1>1, <1>2, <1>3, Zenon
  <2>2. /\ IsListed(head)
        /\ \A b \in Batches : nxt[b] # NULL => IsListed(nxt[b])
        /\ \A b \in Batches : IsListed(b) => nxt[b] # head
    BY Zenon DEF MallocInv, ListInv
  <2>3. n # NULL
    BY <2>1 DEF NULL, Batches
  <2> QED  BY ONLY <1>7, <2>1, <2>2, <2>3, Fixed DEF ListInv
<1>10. PlaceInv'
  BY <1>1, <1>3, <1>4, <1>7 DEF MallocInv, PlaceInv
<1>11. \A b : Accounting(b)' = Accounting(b)
  BY <1>1, <1>4, Zenon DEF Accounting
<1>12. CountInv'
  BY <1>1, <1>7, <1>11, Fixed, Zenon DEF MallocInv, CountInv
<1>13. CrowdInv'
  <2>1. cut[n] = 0
    BY <1>3, Zenon DEF MallocInv, CountInv
  <2> QED  BY <1>1, <1>3, <1>4, <1>5, <2>1, BatchesAssumption DEF MallocInv, CrowdInv, IsWithin
<1>14. PastInv'
  <2>1. \A b \in Batches : IsPast(b)' <=> IsListed(b)
    BY <1>1, <1>2, <1>3, <1>7, Zenon DEF IsPast
  <2>2. ASSUME NEW b \in Batches, IsListed(b), b \notin late', NEW u \in Mallocs PROVE ~IsWithin(u, b)'
    <3>1. ~IsWithin(u, b)
      BY <1>6, <2>2, Zenon DEF MallocInv, PastInv, IsPast
    <3> QED  BY <1>3, <1>4, <2>2, <3>1, ZenonT(60) DEF IsWithin
  <2>3. \A b \in Batches : bstatus'[b] = "FREED" => IsListed(b) /\ (b \notin late' => cut'[b] = freed'[b])
    BY <1>1, <1>4, <1>6, Zenon DEF MallocInv, PastInv, IsPast
  <2>4. fpc # "idle" => fbatch \in Batches /\ IsListed(fbatch)
    BY <1>1 DEF MallocInv, PastInv, IsListed, ThreadTypes, NULL
  <2>5. fpc = "compare" /\ fbatch \notin late' => falloc = allocated[fbatch]
    BY <1>6, Zenon DEF MallocInv, PastInv
  <2> QED  BY <1>1, <1>7, <2>1, <2>2, <2>3, <2>4, <2>5, Fixed, Zenon DEF PastInv
<1>15. ReachInv'
  <2> SUFFICES ASSUME ~lostrace', NEW b \in Batches, IsListed(b) \/ b = n, NEW S \in SUBSET Batches, Closed(S)'
               PROVE  b \in S
    BY <1>7, Fixed, Zenon DEF ReachInv, Reachable
  <2>1. n \in S /\ \A x \in S : nxt[x] # NULL => nxt[x] \in S
    BY <1>1, <1>2, Zenon DEF Closed
  <2>2. nxt[n] = head /\ head # NULL /\ ~lostrace
    <3>1. ~lostrace /\ head = seen[t]
      BY <1>1, Zenon
    <3> QED  BY <1>1, <1>3, <3>1 DEF BucketTypes, Batches, NULL
  <2>3. Closed(S)
    BY <2>1, <2>2, Zenon DEF Closed
  <2>4. IsListed(b) => b \in Reachable
    BY <2>2, Zenon DEF MallocInv, ReachInv
  <2> QED  BY <2>1, <2>3, <2>4, Zenon DEF Reachable
<1>16. DiedInv'
  BY <1>1, <1>5, Zenon DEF MallocInv, DiedInv
<1> QED  BY <1>8, <1>9, <1>10, <1>12, <1>13, <1>14, <1>15, <1>16, Zenon DEF MallocInv

\* It moves mem; a cut past the end needs another allocator in the batch.
LEMMA CutStep == ASSUME Counts, MallocInv, NEW t \in Mallocs, CutObject(t) PROVE MallocInv'
<1>1. /\ mpc[t] = "cut" /\ died = "no" /\ BucketTypes /\ ThreadTypes
      /\ UNCHANGED <<head, nxt, spare, made, bstatus, allocated, freed, mbatch, seen, fpc, fbatch, falloc, late, crowded, lostrace>>
  BY Zenon DEF CutObject, MallocInv, Emptier, History
<1>2. PICK m : m = mbatch[t]
  BY Zenon
<1>3. IsListed(m) /\ m \in Batches
  BY <1>1, <1>2 DEF MallocInv, PlaceInv, ThreadTypes, IsListed, NULL
<1>4. CASE UNCHANGED <<cut, mpc>> /\ died' = "bounds" /\ mem_remaining(m) < 1
  <2>1. crowded
    BY <1>1, <1>2, <1>3, <1>4, BatchesAssumption DEF MallocInv, CrowdInv, mem_remaining, BucketTypes
  <2>2. DiedInv'
    BY <1>1, <1>4, <2>1, Zenon DEF DiedInv
  <2>4. \A b : IsListed(b)' <=> IsListed(b)
    BY <1>1, <1>4, SameListed, Zenon
  <2>5. \A b : Accounting(b)' = Accounting(b)
    BY <1>1, <1>4, Zenon DEF Accounting
  <2>6. ReachInv'
    BY <1>1, <2>4, ReachKept, Zenon DEF MallocInv
  <2>7. BucketTypes' /\ ThreadTypes'
    <3>1. BucketTypes'
      BY <1>1, <1>4, Fixed, Zenon DEF BucketTypes
    <3>2. ThreadTypes'
      BY <1>1, <1>4, Fixed, Zenon DEF ThreadTypes
    <3> QED  BY <3>1, <3>2, Zenon
  <2>8. ListInv' /\ PlaceInv' /\ CountInv'
    BY <1>1, <1>4, <2>4, <2>5, Fixed, Zenon DEF MallocInv, ListInv, PlaceInv, CountInv
  <2>9. CrowdInv' /\ PastInv'
    BY <1>1, <1>4, <2>4, Fixed, Zenon DEF MallocInv, CrowdInv, PastInv, IsPast, IsWithin
  <2> QED  BY <2>2, <2>6, <2>7, <2>8, <2>9, Zenon DEF MallocInv
<1>5. CASE cut' = [cut EXCEPT ![m] = @ + 1] /\ mpc' = [mpc EXCEPT ![t] = "account"] /\ died' = died
  <2>1. /\ cut' \in [Batches -> Nat] /\ cut'[m] = cut[m] + 1 /\ \A b \in Batches \ {m} : cut'[b] = cut[b]
        /\ mpc' \in [Mallocs -> {"idle", "spare", "insert", "cut", "account"}] /\ mpc'[t] = "account"
        /\ \A u \in Mallocs \ {t} : mpc'[u] = mpc[u]
    BY <1>1, <1>3, <1>5 DEF BucketTypes, ThreadTypes
  <2>4. \A b : IsListed(b)' <=> IsListed(b)
    BY <1>1, <2>1, SameListed, Zenon
  <2>5. /\ Accounting(m)' = Accounting(m) \cup {t} /\ t \notin Accounting(m)
        /\ \A b : b # m => Accounting(b)' = Accounting(b)
    BY <1>1, <1>2, <2>1, Zenon DEF Accounting
  <2>6. ReachInv'
    BY <1>1, <2>4, ReachKept, Zenon DEF MallocInv
  <2>7. BucketTypes' /\ ThreadTypes'
    <3>1. BucketTypes'
      BY <1>1, <2>1, Fixed, Zenon DEF BucketTypes
    <3>2. ThreadTypes'
      BY <1>1, <2>1, Fixed, Zenon DEF ThreadTypes
    <3> QED  BY <3>1, <3>2, Zenon
  <2>8. ListInv' /\ PlaceInv'
    BY <1>1, <2>1, <2>4, Fixed DEF MallocInv, ListInv, PlaceInv
  <2>9. CountInv'
    <3>1. Cardinality(Accounting(m)') = Cardinality(Accounting(m)) + 1
      BY <2>5, AccountingCount, Zenon DEF Counts
    <3>2. /\ cut[m] = allocated[m] + Cardinality(Accounting(m)) /\ cut[m] \in Nat /\ allocated[m] \in Nat
          /\ Cardinality(Accounting(m)) \in Nat
      BY <1>1, <1>3, AccountingCount, Zenon DEF MallocInv, CountInv, BucketTypes
    <3>3. cut'[m] = allocated[m] + Cardinality(Accounting(m)')
      BY <2>1, <3>1, <3>2
    <3>4. ASSUME NEW b \in Batches
          PROVE  /\ cut'[b] = allocated'[b] + Cardinality(Accounting(b)') /\ freed'[b] <= allocated'[b]
                 /\ ~IsListed(b)' => cut'[b] = 0
      <4>1. CASE b = m
        BY <1>1, <1>3, <2>4, <3>3, <4>1, Zenon DEF MallocInv, CountInv
      <4>2. CASE b # m
        BY <1>1, <2>1, <2>4, <2>5, <4>2 DEF MallocInv, CountInv
      <4> QED  BY <4>1, <4>2, Zenon
    <3> QED  BY <3>4, Fixed, Zenon DEF CountInv
  <2>10. CrowdInv'
    BY <1>1, <1>2, <2>1 DEF MallocInv, CrowdInv, IsWithin, PlaceInv, IsListed, ThreadTypes, NULL
  <2>11. PastInv'
    <3>1. ~IsPast(m) \/ m \in late
      BY <1>1, <1>2, <1>3, Zenon DEF MallocInv, PastInv, IsWithin
    <3>2. \A u \in Mallocs, b \in Batches : IsWithin(u, b)' <=> IsWithin(u, b)
      BY <1>1, <2>1, Zenon DEF IsWithin
    <3>3. \A b : IsPast(b)' <=> IsPast(b)
      BY <1>1, <2>4, Zenon DEF IsPast
    <3> QED  BY <1>1, <2>1, <2>4, <3>1, <3>2, <3>3, Fixed, Zenon DEF MallocInv, PastInv
  <2>12. DiedInv'
    BY <1>1, <1>5, Zenon DEF MallocInv, DiedInv
  <2> QED  BY <2>6, <2>7, <2>8, <2>9, <2>10, <2>11, <2>12, Zenon DEF MallocInv
<1> QED  BY <1>2, <1>4, <1>5, Zenon DEF CutObject

\* It counts what it cut.
LEMMA AccountStep == ASSUME Counts, MallocInv, NEW t \in Mallocs, Account(t) PROVE MallocInv'
<1>1. /\ mpc[t] = "account" /\ BucketTypes /\ ThreadTypes
      /\ UNCHANGED <<head, nxt, spare, made, bstatus, cut, freed, fpc, fbatch, falloc, late, crowded, lostrace, died>>
      /\ allocated' = [allocated EXCEPT ![mbatch[t]] = @ + 1]
      /\ mpc' = [mpc EXCEPT ![t] = "idle"] /\ mbatch' = [mbatch EXCEPT ![t] = NULL]
      /\ seen' = [seen EXCEPT ![t] = NULL]
  BY Zenon DEF Account, MallocInv, Emptier, History
<1>2. PICK m : m = mbatch[t]
  BY Zenon
<1>3. IsListed(m) /\ m \in Batches /\ t \in Accounting(m)
  BY <1>1, <1>2 DEF MallocInv, PlaceInv, ThreadTypes, IsListed, NULL, Accounting
<1>4. /\ allocated' \in [Batches -> Nat] /\ allocated'[m] = allocated[m] + 1
      /\ \A b \in Batches \ {m} : allocated'[b] = allocated[b]
  BY <1>1, <1>2, <1>3 DEF BucketTypes
<1>5. /\ mpc' \in [Mallocs -> {"idle", "spare", "insert", "cut", "account"}]
      /\ mbatch' \in [Mallocs -> Batches \cup {NULL}] /\ seen' \in [Mallocs -> Batches \cup {NULL}]
      /\ mpc'[t] = "idle"
      /\ \A u \in Mallocs \ {t} : mpc'[u] = mpc[u] /\ mbatch'[u] = mbatch[u] /\ seen'[u] = seen[u]
  BY <1>1, Zenon DEF ThreadTypes
<1>6. \A b : IsListed(b)' <=> IsListed(b)
  BY <1>1, <1>5, SameListed, Zenon
<1>7. Accounting(m)' = Accounting(m) \ {t} /\ \A b : b # m => Accounting(b)' = Accounting(b)
  BY <1>1, <1>2, <1>5, ZenonT(60) DEF Accounting
<1>8. ReachInv'
  BY <1>1, <1>6, ReachKept, Zenon DEF MallocInv
<1>9. BucketTypes' /\ ThreadTypes'
  <2>1. BucketTypes'
    BY <1>1, <1>4, <1>5, Fixed, Zenon DEF BucketTypes
  <2>2. ThreadTypes'
    BY <1>1, <1>4, <1>5, Fixed, Zenon DEF ThreadTypes
  <2> QED  BY <2>1, <2>2, Zenon
<1>10. ListInv' /\ PlaceInv'
  BY <1>1, <1>5, <1>6, Fixed DEF MallocInv, ListInv, PlaceInv
<1>11. CountInv'
  <2>1. Cardinality(Accounting(m)') = Cardinality(Accounting(m)) - 1
    BY <1>3, <1>7, AccountingCount, Zenon DEF Counts
  <2>2. /\ cut[m] = allocated[m] + Cardinality(Accounting(m)) /\ cut[m] \in Nat /\ allocated[m] \in Nat
        /\ Cardinality(Accounting(m)) \in Nat /\ freed[m] <= allocated[m] /\ freed[m] \in Nat
    BY <1>1, <1>3, AccountingCount, Zenon DEF MallocInv, CountInv, BucketTypes
  <2>3. cut[m] = allocated'[m] + Cardinality(Accounting(m)') /\ freed[m] <= allocated'[m]
    BY <1>4, <2>1, <2>2
  <2>4. ASSUME NEW b \in Batches
        PROVE  /\ cut'[b] = allocated'[b] + Cardinality(Accounting(b)') /\ freed'[b] <= allocated'[b]
               /\ ~IsListed(b)' => cut'[b] = 0
    <3>1. CASE b = m
      BY <1>1, <1>3, <1>6, <2>3, <3>1, Zenon
    <3>2. CASE b # m
      BY <1>1, <1>4, <1>6, <1>7, <3>2, Zenon DEF MallocInv, CountInv
    <3> QED  BY <3>1, <3>2, Zenon
  <2> QED  BY <2>4, Fixed, Zenon DEF CountInv
<1>12. CrowdInv'
  BY <1>1, <1>5 DEF MallocInv, CrowdInv, IsWithin
<1>13. PastInv'
  <2>1. ~IsPast(m) \/ m \in late
    BY <1>1, <1>2, <1>3, Zenon DEF MallocInv, PastInv, IsWithin
  <2>2. \A u \in Mallocs, b \in Batches : IsWithin(u, b)' => IsWithin(u, b)
    BY <1>1, <1>5, Zenon DEF IsWithin
  <2>3. \A b : IsPast(b)' <=> IsPast(b)
    BY <1>1, <1>6, ZenonT(60) DEF IsPast
  <2>4. fpc = "compare" => IsPast(fbatch) /\ fbatch \in Batches /\ (fbatch \notin late => falloc = allocated'[fbatch])
    BY <1>1, <1>4, <2>1 DEF MallocInv, PastInv, IsPast, IsListed, ThreadTypes, NULL
  <2> QED  BY <1>1, <1>6, <2>2, <2>3, <2>4, Fixed, Zenon DEF MallocInv, PastInv
<1>14. DiedInv'
  BY <1>1, Zenon DEF MallocInv, DiedInv
<1> QED  BY <1>8, <1>9, <1>10, <1>11, <1>12, <1>13, <1>14, Zenon DEF MallocInv

\* An object comes back to a batch that is listed, so that it is found.
LEMMA FreeStep == ASSUME Counts, MallocInv, NEW x \in Batches, cocall_free(x) PROVE MallocInv'
<1>1. /\ allocated[x] - freed[x] > 0 /\ BucketTypes /\ ThreadTypes
      /\ UNCHANGED <<head, nxt, spare, made, bstatus, cut, allocated, mpc, mbatch, seen, fpc, fbatch, falloc, late, crowded, lostrace>>
  BY Zenon DEF cocall_free, Live, MallocInv, Allocators, Emptier, History
<1>2. /\ allocated[x] \in Nat /\ freed[x] \in Nat /\ cut[x] \in Nat /\ cut[x] >= allocated[x] /\ IsListed(x)
  <2>1. allocated[x] \in Nat /\ freed[x] \in Nat /\ cut[x] \in Nat
    BY <1>1, Zenon DEF BucketTypes
  <2>2. cut[x] = allocated[x] + Cardinality(Accounting(x)) /\ Cardinality(Accounting(x)) \in Nat
    BY AccountingCount, Zenon DEF MallocInv, CountInv
  <2>3. cut[x] # 0
    BY <1>1, <2>1, <2>2
  <2> QED  BY <2>1, <2>2, <2>3 DEF MallocInv, CountInv
<1>3. \/ freed' = [freed EXCEPT ![x] = @ + 1] /\ died' = died
      \/ x \notin Reachable /\ died' = "nomapping" /\ freed' = freed
  BY Zenon DEF cocall_free
<1>4. /\ freed' \in [Batches -> Nat] /\ freed'[x] \in {freed[x], freed[x] + 1} /\ \A b \in Batches \ {x} : freed'[b] = freed[b]
  BY <1>1, <1>3 DEF BucketTypes
<1>5. \A b : /\ IsListed(b)' <=> IsListed(b)
             /\ Accounting(b)' = Accounting(b)
             /\ IsPast(b)' <=> IsPast(b)
  BY <1>1, Zenon DEF IsListed, IsInserting, Accounting, IsPast
<1>6. BucketTypes' /\ ThreadTypes'
  <2>1. BucketTypes'
    BY <1>1, <1>4, Fixed, Zenon DEF BucketTypes
  <2>2. ThreadTypes'
    BY <1>1, <1>4, Fixed, Zenon DEF ThreadTypes
  <2> QED  BY <2>1, <2>2, Zenon
<1>7. ReachInv'
  BY <1>1, <1>5, ReachKept, Zenon DEF MallocInv
<1>8. ListInv' /\ PlaceInv' /\ CrowdInv'
  BY <1>1, <1>5, Fixed, Zenon DEF MallocInv, ListInv, PlaceInv, CrowdInv, IsWithin
<1>9. CountInv'
  <2>1. freed'[x] <= allocated[x]
    BY <1>1, <1>2, <1>4
  <2> QED  BY <1>1, <1>4, <1>5, <2>1, Fixed, Zenon DEF MallocInv, CountInv
<1>10. PastInv'
  <2>0. bstatus[x] = "FREED" => x \in late \/ cut[x] = freed[x]
    BY Zenon DEF MallocInv, PastInv
  <2>1. bstatus[x] = "FREED" => x \in late
    BY <1>1, <1>2, <2>0
  <2> QED  BY <1>1, <1>4, <1>5, <2>1, Fixed, Zenon DEF MallocInv, PastInv, IsWithin
<1>11. DiedInv'
  BY <1>1, <1>2, <1>3, Zenon DEF MallocInv, DiedInv, ReachInv
<1> QED  BY <1>6, <1>7, <1>8, <1>9, <1>10, <1>11, Zenon DEF MallocInv

\* A new spare is not listed.
LEMMA RefillStep == ASSUME Counts, MallocInv, refill_buckets PROVE MallocInv'
<1>1. /\ spare = NULL /\ made < MaxBatches /\ made' = made + 1 /\ spare' = made + 1 /\ BucketTypes
      /\ ThreadTypes
      /\ bstatus' = [bstatus EXCEPT ![made + 1] = "MAPPED"]
      /\ UNCHANGED <<head, nxt, cut, allocated, freed, mpc, mbatch, seen, fpc, fbatch, falloc, late, crowded, lostrace, died>>
  BY Zenon DEF refill_buckets, needs_new_batch, MallocInv, Allocators, Emptier, History
<1>2. made \in Nat /\ made + 1 \in Batches /\ made + 1 \in 2 .. MaxBatches
  BY <1>1, BatchesAssumption DEF BucketTypes, Batches
<1>3. \A b : /\ IsListed(b)' <=> IsListed(b)
             /\ Accounting(b)' = Accounting(b)
             /\ IsPast(b)' <=> IsPast(b)
  <2>1. \A b : IsListed(b)' <=> IsListed(b)
    <3>1. \A b : IsInserting(b)' <=> IsInserting(b)
      BY <1>1, Zenon DEF IsInserting
    <3> QED  BY <1>1, <1>2, <3>1 DEF IsListed, NULL
  <2> QED  BY <1>1, <2>1, Zenon DEF IsPast, Accounting
<1>4. ~IsListed(made + 1) /\ \A u \in Mallocs : mpc[u] = "insert" => mbatch[u] # made + 1
  BY <1>2 DEF MallocInv, PlaceInv, IsListed
<1>5. BucketTypes' /\ ThreadTypes'
  <2>1. BucketTypes'
    BY <1>1, <1>2, Fixed DEF BucketTypes
  <2>2. ThreadTypes'
    BY <1>1, <1>2, Fixed, Zenon DEF ThreadTypes
  <2> QED  BY <2>1, <2>2, Zenon
<1>6. ReachInv'
  BY <1>1, <1>3, ReachKept, Zenon DEF MallocInv
<1>7. ListInv' /\ CountInv' /\ CrowdInv' /\ DiedInv'
  BY <1>1, <1>3, Fixed, Zenon DEF MallocInv, ListInv, CountInv, CrowdInv, DiedInv, IsWithin
<1>8. PlaceInv'
  <2>1. \A u \in Mallocs : mpc[u] = "insert" => mbatch[u] \in 1 .. (made + 1)
    BY <1>2 DEF MallocInv, PlaceInv
  <2>2. \A u \in Mallocs : mpc[u] = "insert" => nxt[mbatch[u]] = seen[u] /\ IsListed(seen[u])
    BY Zenon DEF MallocInv, PlaceInv
  <2>3. ASSUME NEW u \in Mallocs, mpc'[u] = "insert"
        PROVE  mbatch'[u] \in 1 .. made' /\ mbatch'[u] # spare' /\ nxt'[mbatch'[u]] = seen'[u] /\ IsListed(seen[u])'
    BY <1>1, <1>3, <1>4, <2>1, <2>2, <2>3, Zenon
  <2>4. ASSUME NEW u \in Mallocs, mpc'[u] \in {"cut", "account"} PROVE IsListed(mbatch[u])'
    BY <1>1, <1>3, <2>4, Zenon DEF MallocInv, PlaceInv
  <2>5. \A t, u \in Mallocs : (mpc[t] = "insert" /\ mpc[u] = "insert" /\ mbatch[t] = mbatch[u])' => t = u
    BY <1>1, Zenon DEF MallocInv, PlaceInv
  <2> QED  BY <2>3, <2>4, <2>5, Zenon DEF PlaceInv
<1>9. PastInv'
  <2>1. \A b \in Batches : bstatus'[b] = "FREED" => bstatus[b] = "FREED"
    BY <1>1, <1>2, Zenon DEF BucketTypes
  <2> QED  BY <1>1, <1>3, <2>1, Fixed, Zenon DEF MallocInv, PastInv, IsWithin
<1> QED  BY <1>5, <1>6, <1>7, <1>8, <1>9, Zenon DEF MallocInv

\* The emptier frees a batch that nothing is cut from any more.
LEMMA EmptierStep == ASSUME Counts, MallocInv, empty_buckets \/ EmptierNext \/ EmptierFree PROVE MallocInv'
<1>1. /\ BucketTypes /\ ThreadTypes
      /\ UNCHANGED <<head, nxt, spare, made, cut, allocated, freed, mpc, mbatch, seen, late, crowded, lostrace, died>>
  BY Zenon DEF empty_buckets, EmptierNext, EmptierFree, MallocInv, Allocators, History
<1>2. \A b : /\ IsListed(b)' <=> IsListed(b)
             /\ Accounting(b)' = Accounting(b)
             /\ IsPast(b)' <=> IsPast(b)
  BY <1>1, Zenon DEF IsListed, IsInserting, Accounting, IsPast
<1>3. ReachInv'
  BY <1>1, <1>2, ReachKept, Zenon DEF MallocInv
<1>4. ListInv' /\ CountInv' /\ CrowdInv' /\ DiedInv' /\ PlaceInv'
  BY <1>1, <1>2, Fixed, Zenon DEF MallocInv, ListInv, CountInv, CrowdInv, DiedInv, PlaceInv, IsWithin
<1>5. CASE empty_buckets
  <2>1. bstatus' = bstatus /\ fpc' = "walk" /\ fbatch' = head /\ falloc' = falloc /\ IsListed(head)
    BY <1>5, Zenon DEF empty_buckets, MallocInv, ListInv
  <2>2. BucketTypes' /\ ThreadTypes'
    <3>1. BucketTypes'
      BY <1>1, <2>1, Fixed, Zenon DEF BucketTypes
    <3>2. ThreadTypes'
      <4>1. head \in Batches
        BY <1>1, Zenon DEF BucketTypes
      <4> QED  BY <1>1, <2>1, <4>1, Fixed DEF ThreadTypes
    <3> QED  BY <3>1, <3>2, Zenon
  <2>3. PastInv'
    <3>1. \A b \in Batches : IsPast(b) /\ b \notin late => \A t \in Mallocs : ~IsWithin(t, b)'
      BY <1>1, Zenon DEF MallocInv, PastInv, IsWithin
    <3>2. \A b \in Batches : bstatus[b] = "FREED" => IsPast(b) /\ (b \notin late => cut[b] = freed[b])
      BY Zenon DEF MallocInv, PastInv
    <3> QED  BY <1>1, <1>2, <2>1, <3>1, <3>2, Fixed, Zenon DEF PastInv
  <2> QED  BY <1>3, <1>4, <2>2, <2>3, Zenon DEF MallocInv
<1>6. CASE EmptierNext
  <2>1. fpc = "walk" /\ IsListed(fbatch) /\ fbatch \in Batches /\ bstatus' = bstatus
    BY <1>1, <1>6 DEF EmptierNext, MallocInv, PastInv, ThreadTypes, IsListed, NULL
  <2>2. PICK b : b = nxt[fbatch]
    BY Zenon
  <2>3. b # NULL => IsPast(b) /\ b \in Batches
    BY <1>1, <2>1, <2>2, Zenon DEF MallocInv, ListInv, IsPast, BucketTypes
  <2>4. \/ b = NULL /\ fpc' = "idle" /\ fbatch' = NULL /\ falloc' = 0
        \/ b # NULL /\ fbatch' = b /\ fpc' = fpc /\ falloc' = falloc
        \/ b # NULL /\ fbatch' = b /\ fpc' = "compare" /\ falloc' = allocated[b]
    BY <1>6, <2>2, Zenon DEF EmptierNext
  <2>5. BucketTypes' /\ ThreadTypes'
    <3>1. BucketTypes'
      BY <1>1, <2>1, Fixed, Zenon DEF BucketTypes
    <3>2. fpc' \in {"idle", "walk", "compare"} /\ fbatch' \in Batches \cup {NULL} /\ falloc' \in Nat
      BY <1>1, <2>1, <2>3, <2>4 DEF BucketTypes, ThreadTypes, NULL
    <3> QED  BY <1>1, <3>1, <3>2, Fixed, Zenon DEF ThreadTypes
  <2>6. PastInv'
    BY <1>1, <1>2, <2>1, <2>3, <2>4, Fixed, Zenon DEF MallocInv, PastInv, IsWithin, IsPast
  <2> QED  BY <1>3, <1>4, <2>5, <2>6, Zenon DEF MallocInv
<1>7. CASE EmptierFree
  <2>1. /\ fpc = "compare" /\ fpc' = "walk" /\ falloc' = 0 /\ fbatch' = fbatch
        /\ IsPast(fbatch) /\ fbatch \in Batches /\ IsListed(fbatch)
        /\ fbatch \notin late => falloc = allocated[fbatch]
    BY <1>1, <1>7 DEF EmptierFree, MallocInv, PastInv, ThreadTypes, IsPast, IsListed, NULL
  <2>2. /\ bstatus' \in [Batches -> {"none", "MAPPED", "INUSE", "FREED"}]
        /\ \A b \in Batches \ {fbatch} : bstatus'[b] = bstatus[b]
        /\ bstatus'[fbatch] = "FREED" => bstatus[fbatch] = "FREED" \/ falloc = freed[fbatch]
    BY <1>1, <1>7, <2>1, Zenon DEF EmptierFree, BucketTypes
  <2>3. fbatch \notin late => cut[fbatch] = allocated[fbatch]
    <3>1. fbatch \notin late => Accounting(fbatch) = {}
      BY <2>1, Zenon DEF MallocInv, PastInv, IsWithin, Accounting
    <3>2. cut[fbatch] \in Nat /\ allocated[fbatch] \in Nat
      BY <1>1, <2>1, Zenon DEF BucketTypes
    <3>3. cut[fbatch] = allocated[fbatch] + Cardinality(Accounting(fbatch))
      BY <2>1, Zenon DEF MallocInv, CountInv
    <3>4. fbatch \notin late => Cardinality(Accounting(fbatch)) = 0
      BY <3>1, Zenon DEF Counts
    <3> QED  BY <3>2, <3>3, <3>4
  <2>4. BucketTypes' /\ ThreadTypes'
    <3>1. BucketTypes'
      BY <1>1, <2>1, <2>2, Fixed, Zenon DEF BucketTypes
    <3>2. ThreadTypes'
      BY <1>1, <2>1, <2>2, Fixed, Zenon DEF ThreadTypes
    <3> QED  BY <3>1, <3>2, Zenon
  <2>5. PastInv'
    BY <1>1, <1>2, <2>1, <2>2, <2>3, Fixed, Zenon DEF MallocInv, PastInv, IsWithin
  <2> QED  BY <1>3, <1>4, <2>4, <2>5, Zenon DEF MallocInv
<1> QED  BY <1>5, <1>6, <1>7, Zenon

\* Every step preserves it.
LEMMA MallocStep == ASSUME Counts, MallocInv, [MallocNext]_mallocVars PROVE MallocInv'
<1>1. CASE UNCHANGED mallocVars
  <2>1. \A b : /\ IsListed(b)' <=> IsListed(b)
               /\ Accounting(b)' = Accounting(b)
               /\ IsPast(b)' <=> IsPast(b)
    BY <1>1, Zenon DEF mallocVars, IsListed, IsInserting, Accounting, IsPast
  <2>2. ReachInv'
    BY <1>1, <2>1, ReachKept, Zenon DEF MallocInv, mallocVars
  <2>3. BucketTypes' /\ ThreadTypes'
    <3>1. BucketTypes'
      BY <1>1, Fixed, Zenon DEF BucketTypes, MallocInv, mallocVars
    <3>2. ThreadTypes'
      BY <1>1, Fixed, Zenon DEF ThreadTypes, MallocInv, mallocVars
    <3> QED  BY <3>1, <3>2, Zenon
  <2>4. ListInv' /\ CountInv' /\ PlaceInv'
    <3>1. ListInv'
      BY <1>1, <2>1, Fixed, Zenon DEF MallocInv, ListInv, mallocVars
    <3>2. CountInv'
      BY <1>1, <2>1, Fixed, Zenon DEF MallocInv, CountInv, mallocVars
    <3>3. PlaceInv'
      BY <1>1, <2>1, Fixed, Zenon DEF MallocInv, PlaceInv, mallocVars
    <3> QED  BY <3>1, <3>2, <3>3, Zenon
  <2>5. CrowdInv' /\ PastInv' /\ DiedInv'
    BY <1>1, <2>1, Fixed, Zenon DEF MallocInv, CrowdInv, PastInv, DiedInv, mallocVars, IsWithin
  <2> QED  BY <2>2, <2>3, <2>4, <2>5, Zenon DEF MallocInv
<1> QED  BY <1>1, LookStep, SpareStep, InsertStep, CutStep, AccountStep, FreeStep, RefillStep,
            EmptierStep, Zenon
         DEF MallocNext

-----------------------------------------------------------------------------
INSTANCE FiniteSetTheorems

\* The allocators are finitely many (BatchesAssumption).
LEMMA Counting == Counts
<1>1. IsFiniteSet(Mallocs)
  BY BatchesAssumption, Zenon
<1>2. \A S \in SUBSET Mallocs : IsFiniteSet(S) /\ Cardinality(S) \in Nat
  BY <1>1, FS_Subset, FS_CardinalityType, Zenon
<1>3. \A S \in SUBSET Mallocs, t \in Mallocs : t \notin S => Cardinality(S \cup {t}) = Cardinality(S) + 1
  BY <1>2, FS_AddElement, Zenon
<1>4. \A S \in SUBSET Mallocs, t \in Mallocs : t \in S => Cardinality(S \ {t}) = Cardinality(S) - 1
  BY <1>2, FS_RemoveElement, Zenon
<1> QED  BY <1>2, <1>3, <1>4, FS_EmptySet, Zenon DEF Counts

\* Memory is freed, an object goes past its batch and an object is not found only
\* as FreedBatchesAreEmpty says, for any number of allocators and batches of any
\* size (ccmalloc.c 256-352).
THEOREM FreedMemoryIsEmpty == MallocSpec => []FreedBatchesAreEmpty
<1>1. ASSUME MallocInv, [MallocNext]_mallocVars PROVE MallocInv'
  BY <1>1, Counting, MallocStep, Zenon
<1>2. MallocInv => FreedBatchesAreEmpty
  BY Zenon DEF MallocInv, PastInv, DiedInv, FreedBatchesAreEmpty
<1>3. init_bucket => MallocInv
  BY Counting, MallocInit, Zenon
<1> QED  BY <1>1, <1>2, <1>3, PTL DEF MallocSpec
=============================================================================
