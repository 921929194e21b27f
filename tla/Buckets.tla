------------------------------- MODULE Buckets ------------------------------
(* libccmalloc's table of buckets: how it is made from the sizes given to     *)
(* ccmalloc_init and how malloc and free find the bucket of a length.         *)
EXTENDS Integers, Sequences, FiniteSets
LOCAL INSTANCE SequencesExt

\* Sizes are small numbers: a batch's memory is a multiple of Unit, itself
\* representable; lengths from Exact on are rounded up to what a capability can
\* represent.
Unit == 9
Exact == 6
RoundUp(len, k) == ((len + k - 1) \div k) * k
Representable(len) == IF len < Exact THEN len ELSE RoundUp(len, 3)

bucket_alloc_size(len, extra) ==
    (IF len <= Unit THEN Unit ELSE RoundUp(len, Unit)) * (IF extra THEN 32 ELSE 1)

\* ccmalloc_init: one bucket for each distinct size, in order; the last size
\* gets more memory unless it occurs twice, a repeated one a further unit.
ccmalloc_init(sizes) ==
    LET sorted == SortSeq(sizes, LAMBDA x, y : x < y)
        First(k) == k = 1 \/ sorted[k - 1] # sorted[k]
        places == SetToSortSeq({k \in 1 .. Len(sorted) : First(k)}, LAMBDA x, y : x < y)
    IN [j \in 1 .. Len(places) |-> LET len == sorted[places[j]] IN
          [size |-> len, cherisize |-> Representable(len),
           alloc_size |-> bucket_alloc_size(len, places[j] = Len(sorted))
             + Unit * Cardinality({k \in 1 .. Len(sorted) : sorted[k] = len /\ ~First(k)})]]

\* The first bucket made for this size, else the last, if size is below its own.
get_bucket(table, size) ==
    LET fit == {j \in DOMAIN table : size \in {table[j].size, table[j].cherisize}}
    IN IF fit # {} THEN {CHOOSE j \in fit : \A k \in fit : j <= k}
       ELSE {j \in {Len(table)} : size < table[j].size}

\* Every request up to the largest size has a bucket whose batches can hold it,
\* and free, which knows only the rounded length, looks in the bucket malloc
\* took it from, unless the request was for no bucket's size and was rounded to
\* one (a rounded size may also exceed the largest and find none).
BucketsFound == \A sizes \in UNION {[1 .. k -> {3, 7, 9, 11}] : k \in 1 .. 3} :
    LET table == ccmalloc_init(sizes) IN
    \A len \in 1 .. table[Len(table)].size :
        LET at == get_bucket(table, len)  back == get_bucket(table, Representable(len))
            known == \E j \in DOMAIN table : len \in {table[j].size, table[j].cherisize} IN
        /\ Cardinality(at) = 1
        /\ \A j \in at : table[j].alloc_size >= len
        /\ known => back = at
        /\ back # at => Representable(len) # len

ASSUME BucketsAssumption == BucketsFound
=============================================================================
