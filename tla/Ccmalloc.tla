------------------------------ MODULE Ccmalloc ------------------------------
(* One bucket of libccmalloc: a list of batches, objects cut from the head    *)
(* one, a spare that a refiller renews and an emptier that frees the memory   *)
(* of every batch but the head once all that was cut from it came back.       *)
(* There is no lock.  Sizes are counted in objects.                           *)
EXTENDS Integers, Sequences, FiniteSets

CONSTANTS Mallocs,          \* the threads that allocate
          BatchSize,        \* objects in a batch
          MaxBatches        \* bound: batches ever made

ASSUME BatchesAssumption ==
    IsFiniteSet(Mallocs) /\ BatchSize \in Nat \ {0} /\ MaxBatches \in Nat /\ MaxBatches >= 2

NULL == 0
Batches == 1 .. MaxBatches

VARIABLES head, nxt, spare, made,   \* the list, the spare, batches made so far
          bstatus, cut, allocated, freed, \* per batch: status, offset of mem, counters
          mpc, mbatch, seen,        \* each allocator: step, batch, head it read
          fpc, fbatch, falloc,      \* the emptier: step, batch, allocated it read
          late, crowded, lostrace,  \* history: see the property
          died

mallocVars == <<head, nxt, spare, made, bstatus, cut, allocated, freed, mpc, mbatch, seen,
                fpc, fbatch, falloc, late, crowded, lostrace, died>>
Allocators == <<mpc, mbatch, seen>>
Emptier == <<fpc, fbatch, falloc>>
History == <<late, crowded, lostrace>>

-----------------------------------------------------------------------------
\* init_bucket: one batch in the list, one spare.
init_bucket ==
    /\ head = 1 /\ spare = 2 /\ made = 2 /\ nxt = [b \in Batches |-> NULL]
    /\ bstatus = [b \in Batches |-> IF b <= 2 THEN "MAPPED" ELSE "none"]
    /\ cut = [b \in Batches |-> 0] /\ allocated = cut /\ freed = cut
    /\ mpc = [t \in Mallocs |-> "idle"] /\ mbatch = [t \in Mallocs |-> NULL] /\ seen = mbatch
    /\ fpc = "idle" /\ fbatch = NULL /\ falloc = 0
    /\ late = {} /\ crowded = FALSE /\ lostrace = FALSE /\ died = "no"

mem_remaining(b) == BatchSize - cut[b]

\* The allocators that are about to cut from, or account for, batch b.
Within(b) == {t \in Mallocs : mpc[t] \in {"cut", "account"} /\ mbatch[t] = b}

Enter(t, b) ==
    /\ mpc' = [mpc EXCEPT ![t] = "cut"] /\ mbatch' = [mbatch EXCEPT ![t] = b]
    /\ bstatus' = [bstatus EXCEPT ![b] = IF @ = "MAPPED" THEN "INUSE" ELSE @]
    /\ crowded' = (crowded \/ Within(b) # {})

\* cocall_malloc looks at the head, and takes the spare if that is used up.
cocall_malloc(t) ==
    /\ mpc[t] = "idle" /\ died = "no"
    /\ IF mem_remaining(head) < 1 \/ bstatus[head] = "FREED"
       THEN mpc' = [mpc EXCEPT ![t] = "spare"] /\ UNCHANGED <<mbatch, bstatus, crowded>>
       ELSE Enter(t, head)
    /\ UNCHANGED <<head, nxt, spare, made, cut, allocated, freed, seen, late, lostrace, died, Emptier>>

\* calloc clears what malloc returned, NULL included.
cocall_calloc == died' = "null"

\* get_spare: without a spare malloc returns NULL.
\* With one, it is inserted at the head: the old head is read, then replaced.
get_spare(t) ==
    /\ mpc[t] = "spare" /\ died = "no"
    /\ \/ /\ spare = NULL /\ mpc' = [mpc EXCEPT ![t] = "idle"]
          /\ UNCHANGED died \/ cocall_calloc
          /\ UNCHANGED <<spare, mbatch, seen, nxt>>
       \/ /\ spare # NULL /\ spare' = NULL /\ mpc' = [mpc EXCEPT ![t] = "insert"]
          /\ mbatch' = [mbatch EXCEPT ![t] = spare] /\ seen' = [seen EXCEPT ![t] = head]
          /\ nxt' = [nxt EXCEPT ![spare] = head] /\ UNCHANGED died
    /\ UNCHANGED <<head, made, bstatus, cut, allocated, freed, Emptier, History>>

LIST_INSERT_HEAD(t) ==
    /\ mpc[t] = "insert" /\ died = "no"
    /\ head' = mbatch[t]
    /\ Enter(t, mbatch[t])
    /\ late' = late \cup IF Within(head) # {} THEN {head} ELSE {}
    /\ lostrace' = (lostrace \/ head # seen[t])
    /\ UNCHANGED <<nxt, spare, made, cut, allocated, freed, seen, died, Emptier>>

\* The compare-and-swap on mem; past the end of the batch the capability is
\* out of bounds.
CutObject(t) ==
    /\ mpc[t] = "cut" /\ died = "no"
    /\ IF mem_remaining(mbatch[t]) < 1 THEN died' = "bounds" /\ UNCHANGED <<cut, mpc>>
       ELSE /\ cut' = [cut EXCEPT ![mbatch[t]] = @ + 1]
            /\ mpc' = [mpc EXCEPT ![t] = "account"] /\ UNCHANGED died
    /\ UNCHANGED <<head, nxt, spare, made, bstatus, allocated, freed, mbatch, seen, Emptier, History>>

Account(t) ==
    /\ mpc[t] = "account" /\ died = "no"
    /\ allocated' = [allocated EXCEPT ![mbatch[t]] = @ + 1]
    /\ mpc' = [mpc EXCEPT ![t] = "idle"] /\ mbatch' = [mbatch EXCEPT ![t] = NULL]
    /\ seen' = [seen EXCEPT ![t] = NULL]
    /\ UNCHANGED <<head, nxt, spare, made, bstatus, cut, freed, Emptier, History, died>>

\* Objects handed out and not given back.
Live(b) == allocated[b] - freed[b]

\* What the list holds: all that is in every set with the head and, for each
\* batch in it, the next.
Closed(S) == head \in S /\ \A b \in S : nxt[b] # NULL => nxt[b] \in S
Reachable == {b \in Batches : \A S \in SUBSET Batches : Closed(S) => b \in S}

\* cocall_free of an object of batch b: the batch is searched in the list.
cocall_free(b) ==
    /\ Live(b) > 0 /\ died = "no"
    /\ IF b \in Reachable THEN freed' = [freed EXCEPT ![b] = @ + 1] /\ UNCHANGED died
       ELSE died' = "nomapping" /\ UNCHANGED freed
    /\ UNCHANGED <<head, nxt, spare, made, bstatus, cut, allocated, Allocators, Emptier, History>>

needs_new_batch == spare = NULL

\* The refiller renews a spare that was taken.
refill_buckets ==
    /\ needs_new_batch /\ made < MaxBatches /\ died = "no"
    /\ made' = made + 1 /\ spare' = made + 1
    /\ bstatus' = [bstatus EXCEPT ![made + 1] = "MAPPED"]
    /\ UNCHANGED <<head, nxt, cut, allocated, freed, Allocators, Emptier, History, died>>

\* Mutant: the emptier's walk starts with the head itself.
empty_from_head ==
    /\ fpc = "idle" /\ died = "no"
    /\ IF allocated[head] # 0
       THEN fpc' = "compare" /\ fbatch' = head /\ falloc' = allocated[head]
       ELSE fpc' = "walk" /\ fbatch' = head /\ falloc' = 0
    /\ UNCHANGED <<head, nxt, spare, made, bstatus, cut, allocated, freed, Allocators, History, died>>

\* The emptier walks the list from the head's successor.
empty_buckets ==
    /\ fpc = "idle" /\ died = "no"
    /\ fpc' = "walk" /\ fbatch' = head /\ UNCHANGED falloc
    /\ UNCHANGED <<head, nxt, spare, made, bstatus, cut, allocated, freed, Allocators, History, died>>

EmptierNext ==
    /\ fpc = "walk" /\ died = "no"
    /\ LET b == nxt[fbatch] IN
       IF b = NULL THEN fpc' = "idle" /\ fbatch' = NULL /\ falloc' = 0
       ELSE /\ fbatch' = b
            /\ IF bstatus[b] = "FREED" \/ allocated[b] = 0 THEN UNCHANGED <<fpc, falloc>>
               ELSE fpc' = "compare" /\ falloc' = allocated[b]
    /\ UNCHANGED <<head, nxt, spare, made, bstatus, cut, allocated, freed, Allocators, History, died>>

EmptierFree ==
    /\ fpc = "compare" /\ died = "no"
    /\ bstatus' = [bstatus EXCEPT ![fbatch] = IF falloc = freed[fbatch] THEN "FREED" ELSE @]
    /\ fpc' = "walk" /\ falloc' = 0
    /\ UNCHANGED <<fbatch, head, nxt, spare, made, cut, allocated, freed, Allocators, History, died>>

MallocNext ==
    \/ \E t \in Mallocs : \/ cocall_malloc(t) \/ get_spare(t) \/ LIST_INSERT_HEAD(t)
                          \/ CutObject(t) \/ Account(t)
    \/ \E b \in Batches : cocall_free(b)
    \/ refill_buckets \/ empty_buckets \/ EmptierNext \/ EmptierFree

-----------------------------------------------------------------------------
\* The memory of a batch is freed only when nothing cut from it is in use,
\* unless an allocator was still inside the batch when another replaced it at
\* the head (the emptier reads allocated, then freed, without excluding
\* allocators); an object goes past its batch only if two allocators were in
\* that batch at once; and an object given back is not found only if two
\* insertions at the head overlapped (ccmalloc.c 256-352).
FreedBatchesAreEmpty ==
    /\ \A b \in Batches \ late : bstatus[b] = "FREED" => cut[b] = freed[b]
    /\ died = "bounds" => crowded
    /\ died = "nomapping" => lostrace
=============================================================================
