-------------------------- MODULE NamespaceProofs --------------------------
(* Proofs about Namespace, for any number of workers, names and calls and any *)
(* size of the tables.                                                        *)
EXTENDS Namespace, SequenceTheorems, WellFoundedInduction, TLAPS

Object == [name : Names \cup {""}, type : Types \cup {"INVALID"}, obj : Handles \cup {"NULL"}]
Selecting == {"sel_type", "sel_obj", "sel_tag"}

\* What a worker at p has in its locals l; an nsd about to die is not live.
Holds(p, l, live) ==
    /\ p \in {"ins_new", "ins_link", "ins_name", "ins_obj"} => l.name \in Names /\ l.type \in Types
    /\ p = "ins_link" => l.rest \in Seq(Slots) /\ (live => l.slot \in Slots)
    /\ p \in {"ins_name", "ins_obj", "upd_type", "upd_obj", "del_remove", "del_obj", "del_type"}
         \cup Selecting => l.slot \in Slots
    /\ p \in {"upd_type", "upd_obj"} => l.type \in Handles

WorkerTypes == /\ pc = [w \in Workers |-> pc[w]] /\ loc = [w \in Workers |-> loc[w]]
               /\ \A w \in Workers : Holds(pc[w], loc[w], alive)

TableTypes == /\ objects \in [Slots -> Object] /\ next_nsobject \in Nat /\ next_namespace \in Nat
              /\ members \in Seq(Slots) /\ owned \subseteq Slots

TypeInv == WorkerTypes /\ TableTypes

-----------------------------------------------------------------------------
(* Lemmas about the operators *)

\* A set of numbers has a least one.
LEMMA Least ==
    ASSUME NEW T, T \subseteq Nat, T # {}
    PROVE  \E x \in T : \A y \in T : x <= y
<1>1. PICK R : R = OpToRel(<, Nat)
  BY Zenon
<1>2. IsWellFoundedOn(R, Nat)
  BY <1>1, NatLessThanWellFounded, Zenon
<1>3. PICK x \in T : \A y \in T : <<y, x>> \notin R
  BY <1>2, WFMin, Zenon
<1>4. ASSUME NEW y \in Nat, NEW z \in Nat, y < z PROVE <<y, z>> \in R
  BY <1>1, <1>4, Zenon DEF OpToRel
<1>5. ASSUME NEW y \in T PROVE x <= y
  <2>1. x \in Nat /\ y \in Nat /\ ~(y < x)
    BY <1>3, <1>4, <1>5, Zenon
  <2> QED  BY <2>1
<1> QED  BY <1>3, <1>5, Zenon

\* No member has that name.
Free(name) == \A i \in DOMAIN members : objects[members[i]].name # name

\* Find gives a member with that name, or -1 if there is none.
LEMMA FindMember ==
    ASSUME TableTypes, NEW name
    PROVE  /\ Find(name) = -1 <=> Free(name)
           /\ Find(name) # -1 => /\ Find(name) \in Slots /\ objects[Find(name)].name = name
                                 /\ \E i \in DOMAIN members : members[i] = Find(name)
<1> DEFINE hits == {i \in DOMAIN members : objects[members[i]].name = name}
<1>1. hits \subseteq Nat /\ members \in Seq(Slots)
  BY DEF TableTypes
<1>2. CASE hits = {}
  BY <1>2, Zenon DEF Find, Free
<1>3. CASE hits # {}
  <2>1. \E i \in hits : \A j \in hits : i <= j
    BY <1>1, <1>3, Least, Zenon
  <2>2. PICK k : k = CHOOSE i \in hits : \A j \in hits : i <= j
    BY Zenon
  <2> HIDE DEF hits
  <2>3. k \in hits
    BY <2>1, <2>2, Zenon
  <2>4. Find(name) = members[k]
    BY <1>3, <2>2, Zenon DEF Find, hits
  <2>5. k \in DOMAIN members /\ objects[members[k]].name = name
    BY <2>3, Zenon DEF hits
  <2>6. members[k] \in Slots
    BY <1>1, <2>5
  <2>7. members[k] # -1
    BY <2>6, TableSizes DEF Slots
  <2> QED  BY <2>4, <2>5, <2>6, <2>7, Zenon DEF Free
<1> QED  BY <1>2, <1>3, Zenon

\* A free name is not looked up.
LEMMA FreeNotFound ==
    ASSUME TableTypes, NEW name, NEW type
    PROVE  /\ Free(name) => lookup_nsobject(name, type) = -1
           /\ in_namespace(name) \/ Free(name)
  BY FindMember, Zenon DEF lookup_nsobject, in_namespace

\* A found object is a member.
LEMMA LookupMember ==
    ASSUME TableTypes, NEW name, NEW type, lookup_nsobject(name, type) # -1
    PROVE  \E i \in DOMAIN members : members[i] = lookup_nsobject(name, type)
  BY FindMember, Zenon DEF lookup_nsobject

\* Removing one entry of a sequence.
LEMMA RemoveOne ==
    ASSUME NEW S, NEW s \in Seq(S), NEW i \in DOMAIN s
    PROVE  /\ LIST_REMOVE(s, i) \in Seq(S)
           /\ DOMAIN LIST_REMOVE(s, i) = 1 .. Len(s) - 1
           /\ \A j \in 1 .. Len(s) - 1 : LIST_REMOVE(s, i)[j] = IF j < i THEN s[j] ELSE s[j + 1]
<1> DEFINE a == SubSeq(s, 1, i - 1)
           b == SubSeq(s, i + 1, Len(s))
<1>1. Len(s) \in Nat /\ DOMAIN s = 1 .. Len(s) /\ i \in 1 .. Len(s)
  OBVIOUS
<1>2. a \in Seq(S) /\ Len(a) = i - 1 /\ \A j \in 1 .. i - 1 : a[j] = s[j]
  BY <1>1
<1>3. b \in Seq(S) /\ Len(b) = Len(s) - i /\ \A j \in 1 .. Len(s) - i : b[j] = s[i + j]
  <2>1. \A j \in i + 1 .. Len(s) : s[j] \in S
    BY <1>1
  <2>2. i + 1 \in Int /\ Len(s) \in Int
    BY ONLY <1>1
  <2>3. /\ b \in Seq(S) /\ Len(b) = IF i + 1 <= Len(s) THEN Len(s) - (i + 1) + 1 ELSE 0
        /\ \A j \in 1 .. Len(s) - (i + 1) + 1 : b[j] = s[(i + 1) + j - 1]
    BY ONLY <2>1, <2>2, SubSeqProperties
  <2> HIDE DEF b
  <2>4. Len(b) = Len(s) - i
    BY ONLY <1>1, <2>3
  <2>5. \A j \in 1 .. Len(s) - i : j \in 1 .. Len(s) - (i + 1) + 1 /\ (i + 1) + j - 1 = i + j
    BY ONLY <1>1
  <2> QED  BY ONLY <2>3, <2>4, <2>5, Zenon
<1>4. LIST_REMOVE(s, i) = a \o b
  BY Zenon DEF LIST_REMOVE
<1> HIDE DEF a, b
<1>5. a \o b \in Seq(S) /\ Len(a \o b) = Len(s) - 1 /\ DOMAIN (a \o b) = 1 .. Len(s) - 1
  <2>1. a \o b \in Seq(S) /\ Len(a \o b) = Len(a) + Len(b)
    BY <1>2, <1>3, ConcatProperties, Zenon
  <2>2. Len(a) + Len(b) = Len(s) - 1
    BY <1>1, <1>2, <1>3
  <2>3. DOMAIN (a \o b) = 1 .. Len(a \o b)
    BY <2>1
  <2> QED  BY <2>1, <2>2, <2>3, Zenon
<1>6. ASSUME NEW j \in 1 .. Len(s) - 1 PROVE (a \o b)[j] = IF j < i THEN s[j] ELSE s[j + 1]
  <2>1. CASE j < i
    <3>1. j \in 1 .. Len(a) + Len(b) /\ j <= Len(a) /\ j \in 1 .. i - 1
      <4>1. Len(a) = i - 1 /\ Len(b) = Len(s) - i
        BY ONLY <1>2, <1>3, Zenon
      <4> QED  BY ONLY <1>1, <1>6, <2>1, <4>1
    <3>2. (a \o b)[j] = a[j]
      BY <1>2, <1>3, <3>1, ConcatProperties, Zenon
    <3> QED  BY <1>2, <2>1, <3>1, <3>2, Zenon
  <2>2. CASE ~(j < i)
    <3>1. (a \o b)[j] = b[j - (i - 1)] /\ j - (i - 1) \in 1 .. Len(s) - i
      <4>1. j \in 1 .. Len(a) + Len(b) /\ ~(j <= Len(a)) /\ j - (i - 1) \in 1 .. Len(s) - i
        <5>1. Len(a) = i - 1 /\ Len(b) = Len(s) - i
          BY ONLY <1>2, <1>3, Zenon
        <5> QED  BY ONLY <1>1, <1>6, <2>2, <5>1
      <4>2. (a \o b)[j] = b[j - Len(a)]
        BY <1>2, <1>3, <4>1, ConcatProperties, ZenonT(60)
      <4> QED  BY <1>2, <4>1, <4>2, Zenon
    <3>2. b[j - (i - 1)] = s[i + (j - (i - 1))] /\ i + (j - (i - 1)) = j + 1
      <4>1. i + (j - (i - 1)) = j + 1
        BY ONLY <1>1, <1>6
      <4> QED  BY <1>3, <3>1, <4>1, Zenon
    <3> QED  BY <2>2, <3>1, <3>2, Zenon
  <2> QED  BY <2>1, <2>2, Zenon
<1> QED  BY <1>4, <1>5, <1>6, Zenon

Without(s, e, t) ==
    /\ \A i, j \in DOMAIN t : t[i] = t[j] => i = j
    /\ \A x : (\E i \in DOMAIN t : t[i] = x) <=> x # e /\ \E i \in DOMAIN s : s[i] = x

\* It leaves the other elements, each at one place.
LEMMA RemoveElement ==
    ASSUME NEW S, NEW s \in Seq(S), NEW e, \E i \in DOMAIN s : s[i] = e,
           \A i, j \in DOMAIN s : s[i] = s[j] => i = j,
           NEW t, t = LIST_REMOVE(s, CHOOSE i \in DOMAIN s : s[i] = e)
    PROVE  Without(s, e, t)
<1>1. PICK k : k = CHOOSE i \in DOMAIN s : s[i] = e
  BY Zenon
<1>2. k \in DOMAIN s /\ s[k] = e
  BY <1>1, Zenon
<1>3. /\ t \in Seq(S) /\ DOMAIN t = 1 .. Len(s) - 1
      /\ \A j \in 1 .. Len(s) - 1 : t[j] = IF j < k THEN s[j] ELSE s[j + 1]
  BY <1>1, <1>2, RemoveOne, ZenonT(60)
<1>4. Len(s) \in Nat /\ DOMAIN s = 1 .. Len(s) /\ k \in 1 .. Len(s)
  BY <1>2
<1>5. PICK g : /\ g \in [1 .. Len(s) - 1 -> 1 .. Len(s)]
               /\ \A j \in 1 .. Len(s) - 1 : g[j] = IF j < k THEN j ELSE j + 1
  <2>1. PICK g : g = [j \in 1 .. Len(s) - 1 |-> IF j < k THEN j ELSE j + 1]
    BY Zenon
  <2> QED  BY ONLY <1>4, <2>1
<1>6. ASSUME NEW j \in DOMAIN t PROVE t[j] = s[g[j]] /\ g[j] \in DOMAIN s /\ g[j] # k
  <2>1. /\ g[j] = IF j < k THEN j ELSE j + 1
        /\ t[j] = IF j < k THEN s[j] ELSE s[j + 1]
        /\ g[j] \in 1 .. Len(s) /\ j \in 1 .. Len(s) - 1
    BY <1>3, <1>5, <1>6, Zenon
  <2>2. g[j] # k
    BY ONLY <1>4, <2>1
  <2> QED  BY ONLY <1>4, <2>1, <2>2, Zenon
<1>7. ASSUME NEW i \in DOMAIN t, NEW j \in DOMAIN t, g[i] = g[j] PROVE i = j
  <2>1. i \in 1 .. Len(s) - 1 /\ j \in 1 .. Len(s) - 1
    BY <1>3, <1>7, Zenon
  <2>2. g[i] = (IF i < k THEN i ELSE i + 1) /\ g[j] = (IF j < k THEN j ELSE j + 1)
    BY <1>5, <2>1, Zenon
  <2>3. (IF i < k THEN i ELSE i + 1) = (IF j < k THEN j ELSE j + 1)
    BY ONLY <1>7, <2>2, Zenon
  <2> QED  BY ONLY <1>4, <2>1, <2>3
<1>8. ASSUME NEW i \in DOMAIN s, i # k PROVE \E j \in DOMAIN t : g[j] = i
  <2>1. CASE i < k
    <3>1. i \in 1 .. Len(s) - 1
      BY <1>4, <2>1
    <3> QED  BY <1>3, <1>5, <2>1, <3>1, Zenon
  <2>2. CASE i > k
    <3>1. i - 1 \in 1 .. Len(s) - 1 /\ ~(i - 1 < k) /\ (i - 1) + 1 = i
      BY <1>4, <2>2
    <3> QED  BY <1>3, <1>5, <3>1, Zenon
  <2>3. i < k \/ i > k
    BY ONLY <1>4, <1>8
  <2> QED  BY <2>1, <2>2, <2>3, Zenon
<1>9. \A i, j \in DOMAIN t : t[i] = t[j] => i = j
  BY <1>6, <1>7
<1>10. ASSUME NEW i \in DOMAIN t PROVE t[i] # e /\ \E j \in DOMAIN s : s[j] = t[i]
  BY <1>2, <1>6
<1>11. ASSUME NEW i \in DOMAIN s, s[i] # e PROVE \E j \in DOMAIN t : t[j] = s[i]
  <2>1. i # k
    BY <1>2, <1>11, Zenon
  <2>2. PICK j \in DOMAIN t : g[j] = i
    BY <1>8, <1>11, <2>1, Zenon
  <2> QED  BY <1>6, <2>2, Zenon
<1>13. ASSUME NEW x PROVE (\E i \in DOMAIN t : t[i] = x) <=> x # e /\ \E i \in DOMAIN s : s[i] = x
  <2>1. ASSUME NEW i \in DOMAIN t, t[i] = x PROVE x # e /\ \E j \in DOMAIN s : s[j] = x
    BY <1>10, <2>1, Zenon
  <2>2. ASSUME x # e, NEW i \in DOMAIN s, s[i] = x PROVE \E j \in DOMAIN t : t[j] = x
    BY <1>11, <2>2, Zenon
  <2> QED  BY <2>1, <2>2, Zenon
<1> QED  BY <1>9, <1>13, Zenon DEF Without

\* Putting an element in front.
LEMMA PutFirst ==
    ASSUME NEW S, NEW s \in Seq(S), NEW e \in S, NEW t, t = <<e>> \o s
    PROVE  /\ t \in Seq(S) /\ DOMAIN t = 1 .. Len(s) + 1 /\ DOMAIN s = 1 .. Len(s) /\ Len(s) \in Nat
           /\ t[1] = e
           /\ \A i \in DOMAIN s : t[i + 1] = s[i] /\ i + 1 \in DOMAIN t
           /\ \A i \in DOMAIN t : i # 1 => i - 1 \in DOMAIN s /\ t[i] = s[i - 1]
<1>1. <<e>> \in Seq(S) /\ Len(<<e>>) = 1 /\ <<e>>[1] = e
  OBVIOUS
<1>2. Len(s) \in Nat /\ DOMAIN s = 1 .. Len(s)
  OBVIOUS
<1>3. t \in Seq(S) /\ Len(t) = Len(s) + 1
  BY <1>1
<1>4. \A i \in 1 .. Len(s) + 1 : t[i] = IF i = 1 THEN e ELSE s[i - 1]
  BY <1>1, <1>2
<1>5. DOMAIN t = 1 .. Len(s) + 1
  BY <1>3
<1>6. /\ 1 \in 1 .. Len(s) + 1
      /\ \A i \in 1 .. Len(s) : i + 1 \in 1 .. Len(s) + 1 /\ i + 1 # 1 /\ (i + 1) - 1 = i
      /\ \A i \in 1 .. Len(s) + 1 : i # 1 => i - 1 \in 1 .. Len(s)
  BY ONLY <1>2
<1> QED  BY ONLY <1>2, <1>3, <1>4, <1>5, <1>6, Zenon

-----------------------------------------------------------------------------
(* What the steps do *)

Others(w) == \A u \in Workers : u # w => pc'[u] = pc[u] /\ loc'[u] = loc[u]

\* A step of worker w and no other; while nothing races, a changing call starts
\* only when none is under way.
Step(w, from, to) ==
    /\ alive /\ pc[w] = from /\ pc'[w] = to /\ Others(w)
    /\ ~raced' => ~raced /\ (from = "idle" /\ to \in Changing =>
                               \A u \in Workers : pc[u] \notin Changing)

\* What Go does to the worker that steps.
LEMMA GoEffect ==
    ASSUME WorkerTypes, NEW w \in Workers, NEW from, NEW to, NEW l, Go(w, from, to, l)
    PROVE  Step(w, from, to) /\ (to # "idle" => loc'[w] = l)
<1>1. /\ alive /\ pc[w] = from /\ pc'[w] = to /\ (to # "idle" => loc'[w] = l)
      /\ Others(w)
  BY Zenon DEF WorkerTypes, Go, Others
<1>2. ~raced' => ~raced /\ (from = "idle" /\ to \in Changing =>
                              \A u \in Workers : pc[u] \notin Changing)
  BY Zenon DEF Go
<1> QED  BY <1>1, <1>2, Zenon DEF Step

\* pc and loc stay functions of the workers.
LEMMA GoFunctions ==
    ASSUME WorkerTypes, NEW w \in Workers, NEW from, NEW to, NEW l, Go(w, from, to, l)
    PROVE  pc' = [u \in Workers |-> pc'[u]] /\ loc' = [u \in Workers |-> loc'[u]]
  BY Zenon DEF WorkerTypes, Go

\* Entry s gets these values and no other entry changes.
Sets(s, name, type, obj) ==
    /\ objects' \in [Slots -> Object]
    /\ objects'[s].name = name /\ objects'[s].type = type /\ objects'[s].obj = obj
    /\ \A t \in Slots : t # s => objects'[t] = objects[t]

\* A whole entry is stored.
LEMMA Stored ==
    ASSUME TableTypes, NEW s \in Slots, NEW o \in Object, objects' = [objects EXCEPT ![s] = o]
    PROVE  Sets(s, o.name, o.type, o.obj)
  BY Zenon DEF TableTypes, Sets

\* The fields of an entry have their types.
LEMMA EntryFields ==
    ASSUME TableTypes, NEW s \in Slots
    PROVE  /\ objects[s].name \in Names \cup {""} /\ objects[s].type \in Types \cup {"INVALID"}
           /\ objects[s].obj \in Handles \cup {"NULL"} /\ objects[s] \in Object
  BY Zenon DEF TableTypes, Object

\* The handle stored for a type: a reservation has none.
Handle(type) == IF type = "RESERVATION" THEN "NULL" ELSE type

\* The field that each step stores, with the others of the entry as they were.
LEMMA SetsEffect ==
    ASSUME TypeInv, NEW w \in Workers, NEW s, s = loc[w].slot
    PROVE  /\ InsertName(w) => Sets(s, loc[w].name, loc[w].type, objects[s].obj)
           /\ InsertObj(w) => Sets(s, objects[s].name, objects[s].type, Handle(loc[w].type))
           /\ UpdateType(w) => Sets(s, objects[s].name, loc[w].type, objects[s].obj)
           /\ UpdateObj(w) => Sets(s, objects[s].name, objects[s].type, loc[w].type)
           /\ DeleteObj(w) => Sets(s, objects[s].name, objects[s].type, "NULL")
           /\ DeleteType(w) => Sets(s, objects[s].name, "INVALID", objects[s].obj)
           /\ delete_nsobject(w) => \/ Sets(s, "", objects[s].type, objects[s].obj)
                                    \/ UNCHANGED objects
<1>0. TableTypes /\ Holds(pc[w], loc[w], alive)
  BY Zenon DEF TypeInv, WorkerTypes
<1>1. ASSUME InsertName(w) PROVE Sets(s, loc[w].name, loc[w].type, objects[s].obj)
  <2>1. s \in Slots /\ loc[w].name \in Names /\ loc[w].type \in Types
    BY <1>0, <1>1, Zenon DEF InsertName, Go, Holds
  <2>2. PICK o : o = [objects[s] EXCEPT !.name = loc[w].name, !.type = loc[w].type]
    BY Zenon
  <2>3. o \in Object /\ o.name = loc[w].name /\ o.type = loc[w].type /\ o.obj = objects[s].obj
    BY <1>0, <2>1, <2>2, EntryFields, Zenon DEF Object
  <2>4. objects' = [objects EXCEPT ![s] = o]
    BY <1>0, <1>1, <2>1, <2>2, Zenon DEF InsertName, TableTypes
  <2> QED  BY <1>0, <2>1, <2>3, <2>4, Stored, Zenon
<1>2. ASSUME InsertObj(w) PROVE Sets(s, objects[s].name, objects[s].type, Handle(loc[w].type))
  <2>1. s \in Slots /\ Handle(loc[w].type) \in Handles \cup {"NULL"}
    BY <1>0, <1>2, Zenon DEF InsertObj, Go, Holds, Handle, Types
  <2>2. PICK o : o = [objects[s] EXCEPT !.obj = Handle(loc[w].type)]
    BY Zenon
  <2>3. o \in Object /\ o.name = objects[s].name /\ o.type = objects[s].type /\ o.obj = Handle(loc[w].type)
    BY <1>0, <2>1, <2>2, EntryFields, Zenon DEF Object
  <2>4. objects' = [objects EXCEPT ![s] = o]
    BY <1>0, <1>2, <2>1, <2>2, Zenon DEF InsertObj, TableTypes, Handle
  <2> QED  BY <1>0, <2>1, <2>3, <2>4, Stored, Zenon
<1>3. ASSUME UpdateType(w) PROVE Sets(s, objects[s].name, loc[w].type, objects[s].obj)
  <2>1. s \in Slots /\ loc[w].type \in Types
    BY <1>0, <1>3, Zenon DEF UpdateType, Go, Holds, Types
  <2>2. PICK o : o = [objects[s] EXCEPT !.type = loc[w].type]
    BY Zenon
  <2>3. o \in Object /\ o.name = objects[s].name /\ o.type = loc[w].type /\ o.obj = objects[s].obj
    BY <1>0, <2>1, <2>2, EntryFields, Zenon DEF Object
  <2>4. objects' = [objects EXCEPT ![s] = o]
    BY <1>0, <1>3, <2>1, <2>2, Zenon DEF UpdateType, TableTypes
  <2> QED  BY <1>0, <2>1, <2>3, <2>4, Stored, Zenon
<1>4. ASSUME UpdateObj(w) PROVE Sets(s, objects[s].name, objects[s].type, loc[w].type)
  <2>1. s \in Slots /\ loc[w].type \in Handles
    BY <1>0, <1>4, Zenon DEF UpdateObj, Go, Holds
  <2>2. PICK o : o = [objects[s] EXCEPT !.obj = loc[w].type]
    BY Zenon
  <2>3. o \in Object /\ o.name = objects[s].name /\ o.type = objects[s].type /\ o.obj = loc[w].type
    BY <1>0, <2>1, <2>2, EntryFields, Zenon DEF Object
  <2>4. objects' = [objects EXCEPT ![s] = o]
    BY <1>0, <1>4, <2>1, <2>2, Zenon DEF UpdateObj, TableTypes
  <2> QED  BY <1>0, <2>1, <2>3, <2>4, Stored, Zenon
<1>5. ASSUME DeleteObj(w) PROVE Sets(s, objects[s].name, objects[s].type, "NULL")
  <2>1. s \in Slots
    BY <1>0, <1>5, Zenon DEF DeleteObj, Go, Holds
  <2>2. PICK o : o = [objects[s] EXCEPT !.obj = "NULL"]
    BY Zenon
  <2>3. o \in Object /\ o.name = objects[s].name /\ o.type = objects[s].type /\ o.obj = "NULL"
    BY <1>0, <2>1, <2>2, EntryFields, Zenon DEF Object
  <2>4. objects' = [objects EXCEPT ![s] = o]
    BY <1>0, <1>5, <2>1, <2>2, Zenon DEF DeleteObj, TableTypes
  <2> QED  BY <1>0, <2>1, <2>3, <2>4, Stored, Zenon
<1>6. ASSUME DeleteType(w) PROVE Sets(s, objects[s].name, "INVALID", objects[s].obj)
  <2>1. s \in Slots
    BY <1>0, <1>6, Zenon DEF DeleteType, Go, Holds
  <2>2. PICK o : o = [objects[s] EXCEPT !.type = "INVALID"]
    BY Zenon
  <2>3. o \in Object /\ o.name = objects[s].name /\ o.type = "INVALID" /\ o.obj = objects[s].obj
    BY <1>0, <2>1, <2>2, EntryFields, Zenon DEF Object
  <2>4. objects' = [objects EXCEPT ![s] = o]
    BY <1>0, <1>6, <2>1, <2>2, Zenon DEF DeleteType, TableTypes
  <2> QED  BY <1>0, <2>1, <2>3, <2>4, Stored, ZenonT(60)
<1>7. ASSUME delete_nsobject(w), ~UNCHANGED objects
      PROVE  Sets(s, "", objects[s].type, objects[s].obj)
  <2>1. s \in Slots
    BY <1>0, <1>7, Zenon DEF delete_nsobject, Go, Holds
  <2>2. PICK o : o = [objects[s] EXCEPT !.name = ""]
    BY Zenon
  <2>3. o \in Object /\ o.name = "" /\ o.type = objects[s].type /\ o.obj = objects[s].obj
    BY <1>0, <2>1, <2>2, EntryFields, Zenon DEF Object
  <2>4. objects' = [objects EXCEPT ![s] = o]
    BY <1>0, <1>7, <2>1, <2>2, Zenon DEF delete_nsobject, TableTypes
  <2> QED  BY <1>0, <2>1, <2>3, <2>4, Stored, Zenon
<1> QED  BY <1>1, <1>2, <1>3, <1>4, <1>5, <1>6, <1>7, ZenonT(60)

-----------------------------------------------------------------------------
(* Types *)

\* A worker that goes on with well-typed locals keeps the workers' types.
LEMMA WorkerMoves ==
    ASSUME WorkerTypes, NEW w \in Workers, NEW from, NEW to, NEW l, Go(w, from, to, l),
           Holds(to, l, alive')
    PROVE  WorkerTypes'
<1>1. Step(w, from, to) /\ (to # "idle" => loc'[w] = l)
  BY GoEffect
<1>2. Holds(pc'[w], loc'[w], alive')
  BY <1>1, Zenon DEF Step, Holds, Selecting
<1>3. \A u \in Workers : u # w => Holds(pc'[u], loc'[u], alive')
  BY <1>1, Zenon DEF Step, Others, WorkerTypes, Holds
<1> QED  BY <1>2, <1>3, GoFunctions, Zenon DEF WorkerTypes

\* The calls, and the steps that leave the tables alone.
LEMMA CallTypes ==
    ASSUME TypeInv, NEW w \in Workers,
           \/ namespace_object_insert(w) \/ namespace_object_update(w) \/ namespace_object_delete(w)
           \/ namespace_object_select(w) \/ SelectType(w) \/ SelectObj(w) \/ SelectTag(w)
           \/ SelectReturn(w) \/ namespace_create(w)
    PROVE  TypeInv' /\ UNCHANGED tables
<1> USE DEF Selecting
<1>0. WorkerTypes /\ TableTypes /\ Holds(pc[w], loc[w], alive)
  BY Zenon DEF TypeInv, WorkerTypes
<1>1. UNCHANGED tables
  BY Zenon DEF namespace_object_insert, namespace_object_update, namespace_object_delete,
     namespace_object_select, SelectType, SelectObj, SelectTag, SelectReturn, namespace_create
<1>2. TableTypes' /\ alive' = alive
  BY <1>0, <1>1, Zenon DEF tables, TableTypes
<1>3. CASE namespace_object_insert(w)
  <2>1. PICK name \in Names, type \in Types, to \in {"idle", "ins_new"} :
          Go(w, "idle", to, [slot |-> -1, name |-> name, type |-> type])
    BY <1>3, Zenon DEF namespace_object_insert
  <2>2. Holds(to, [slot |-> -1, name |-> name, type |-> type], alive')
    BY Zenon DEF Holds
  <2> QED  BY <1>0, <1>1, <1>2, <2>1, <2>2, WorkerMoves, Zenon DEF TypeInv
<1>4. CASE namespace_object_update(w)
  <2>1. PICK s \in owned, type \in Handles : Go(w, "idle", "upd_type", [slot |-> s, type |-> type])
    BY <1>4, Zenon DEF namespace_object_update
  <2>2. Holds("upd_type", [slot |-> s, type |-> type], alive')
    BY <1>0, Zenon DEF Holds, TableTypes
  <2> QED  BY <1>0, <1>1, <1>2, <2>1, <2>2, WorkerMoves, ZenonT(60) DEF TypeInv
<1>5. CASE namespace_object_delete(w)
  <2>1. PICK s \in owned : Go(w, "idle", "del_remove", [slot |-> s])
    BY <1>5, Zenon DEF namespace_object_delete
  <2>2. Holds("del_remove", [slot |-> s], alive')
    BY <1>0, Zenon DEF Holds, TableTypes
  <2> QED  BY <1>0, <1>1, <1>2, <2>1, <2>2, WorkerMoves, Zenon DEF TypeInv
<1>6. CASE namespace_object_select(w)
  <2>1. PICK name \in Names, type \in Types :
          Find(name) # -1 /\ Go(w, "idle", "sel_type", [slot |-> Find(name), type |-> type])
    BY <1>6, Zenon DEF namespace_object_select
  <2>2. Find(name) \in Slots
    BY <1>0, <2>1, FindMember, Zenon
  <2>3. Holds("sel_type", [slot |-> Find(name), type |-> type], alive')
    BY <2>2, Zenon DEF Holds
  <2> QED  BY <1>0, <1>1, <1>2, <2>1, <2>3, WorkerMoves, Zenon DEF TypeInv
<1>7. CASE SelectType(w) \/ SelectObj(w)
  <2>1. PICK from \in Selecting, to \in {"idle", "sel_obj", "sel_tag"} : Go(w, from, to, loc[w])
    BY <1>7, Zenon DEF SelectType, SelectObj
  <2>2. Holds(to, loc[w], alive')
    BY <1>0, <2>1, Zenon DEF Holds, Go
  <2> QED  BY <1>0, <1>1, <1>2, <2>1, <2>2, WorkerMoves, Zenon DEF TypeInv
<1>8. CASE SelectTag(w) \/ SelectReturn(w)
  <2>1. PICK from, to, l : to \in {"idle", "sel_ret"} /\ Go(w, from, to, l)
    BY <1>8 DEF SelectTag, SelectReturn
  <2>2. Holds(to, l, alive')
    BY <2>1, Zenon DEF Holds
  <2> QED  BY <1>0, <1>1, <1>2, <2>1, <2>2, WorkerMoves, ZenonT(60) DEF TypeInv
<1>9. CASE namespace_create(w)
  <2>1. PICK l : Go(w, "idle", "create", l)
    BY <1>9, Zenon DEF namespace_create
  <2>2. Holds("create", l, alive')
    BY Zenon DEF Holds
  <2> QED  BY <1>0, <1>1, <1>2, <2>1, <2>2, WorkerMoves, Zenon DEF TypeInv
<1> QED  BY <1>3, <1>4, <1>5, <1>6, <1>7, <1>8, <1>9, Zenon

\* The steps that change an object.
LEMMA SetTypes ==
    ASSUME TypeInv, NEW w \in Workers,
           \/ InsertName(w) \/ InsertObj(w) \/ UpdateType(w) \/ UpdateObj(w)
           \/ DeleteObj(w) \/ DeleteType(w)
    PROVE  /\ TypeInv' /\ UNCHANGED <<next_nsobject, next_namespace, members, spaces, alive>>
           /\ InsertObj(w) \/ UNCHANGED owned
<1> USE DEF Selecting
<1>0. WorkerTypes /\ TableTypes /\ Holds(pc[w], loc[w], alive)
  BY Zenon DEF TypeInv, WorkerTypes
<1>1. UNCHANGED <<next_nsobject, next_namespace, members, spaces, alive>>
  BY Zenon DEF InsertName, InsertObj, UpdateType, UpdateObj, DeleteObj, DeleteType
<1>2. owned' = owned \/ (InsertObj(w) /\ owned' = owned \cup {loc[w].slot} /\ pc[w] = "ins_obj")
  BY Zenon DEF InsertName, InsertObj, UpdateType, UpdateObj, DeleteObj, DeleteType, Go
<1>3. PICK n, t, b : Sets(loc[w].slot, n, t, b)
  BY SetsEffect, Zenon
<1>4. TableTypes'
  BY <1>0, <1>1, <1>2, <1>3, Zenon DEF TableTypes, Sets, Holds
<1>5. PICK from, to, l : /\ Go(w, from, to, l) 
                         /\ \/ to = "idle"
                            \/ <<from, to>> = <<"ins_name", "ins_obj">> /\ l = loc[w]
                            \/ <<from, to>> = <<"upd_type", "upd_obj">> /\ l = loc[w]
                            \/ <<from, to>> = <<"del_obj", "del_type">> /\ l = loc[w]
  BY Zenon DEF InsertName, InsertObj, UpdateType, UpdateObj, DeleteObj, DeleteType
<1>6. Holds(to, l, alive')
  BY <1>0, <1>5, Zenon DEF Holds, Go
<1> QED  BY <1>0, <1>1, <1>2, <1>4, <1>5, <1>6, WorkerMoves, Zenon DEF TypeInv
\* new_nsobject: an entry is claimed, or nsd dies.
LEMMA NewTypes ==
    ASSUME TypeInv, NEW w \in Workers, new_nsobject(w)
    PROVE  /\ TypeInv' /\ UNCHANGED <<objects, next_namespace, members, spaces, owned>>
           /\ Step(w, "ins_new", "ins_link") /\ loc'[w].rest = members
           /\ loc'[w].slot = next_nsobject /\ loc'[w].name = loc[w].name /\ loc'[w].type = loc[w].type
           /\ \/ next_nsobject' = next_nsobject + 1 /\ (~alive' => next_nsobject >= max_nsobjects)
              \/ UNCHANGED next_nsobject /\ ~alive' /\ ~Free(loc[w].name)
           /\ alive' => next_nsobject \in Slots /\ next_nsobject' = next_nsobject + 1
<1>0. WorkerTypes /\ TableTypes /\ Holds(pc[w], loc[w], alive)
  BY Zenon DEF TypeInv, WorkerTypes
<1> DEFINE l == [slot |-> next_nsobject, name |-> loc[w].name, type |-> loc[w].type, rest |-> members]
<1>1. Go(w, "ins_new", "ins_link", l) /\ UNCHANGED <<objects, next_namespace, members, spaces, owned>>
  BY Zenon DEF new_nsobject
<1>2. /\ \/ next_nsobject' = next_nsobject + 1 /\ (~alive' => ~(next_nsobject < max_nsobjects))
         \/ UNCHANGED next_nsobject /\ ~alive' /\ lookup_nsobject(loc[w].name, loc[w].type) # -1
      /\ alive' => next_nsobject < max_nsobjects /\ next_nsobject' = next_nsobject + 1
  BY Zenon DEF new_nsobject, new_nsobject_entry
<1>3. next_nsobject \in Nat /\ max_nsobjects \in Nat
  BY <1>0, TableSizes, Zenon DEF TableTypes
<1>4. alive' => next_nsobject \in Slots
  BY <1>2, <1>3 DEF Slots
<1>5. l.slot = next_nsobject /\ l.name = loc[w].name /\ l.type = loc[w].type /\ l.rest = members
  BY Zenon
<1>6. loc'[w] = l /\ Step(w, "ins_new", "ins_link")
  BY <1>0, <1>1, GoEffect
<1> HIDE DEF l
<1>7. Holds("ins_link", l, alive')
  BY <1>0, <1>1, <1>4, <1>5, Zenon DEF Holds, Go, Selecting, TableTypes
<1>8. WorkerTypes' /\ TableTypes'
  BY <1>0, <1>1, <1>2, <1>3, <1>7, WorkerMoves DEF TableTypes
<1>9. lookup_nsobject(loc[w].name, loc[w].type) # -1 => ~Free(loc[w].name)
  BY <1>0, FreeNotFound, Zenon
<1> QED  BY <1>1, <1>2, <1>3, <1>4, <1>5, <1>6, <1>8, <1>9 DEF TypeInv

\* Linking a new object at the head of the list.
LEMMA LinkTypes ==
    ASSUME TypeInv, NEW w \in Workers, allocate_nsobject(w)
    PROVE  /\ TypeInv' /\ UNCHANGED <<objects, next_nsobject, next_namespace, spaces, owned, alive>>
           /\ Step(w, "ins_link", "ins_name")
           /\ loc'[w].slot = loc[w].slot /\ loc'[w].name = loc[w].name /\ loc'[w].type = loc[w].type
           /\ members' = <<loc[w].slot>> \o loc[w].rest
<1>0. WorkerTypes /\ TableTypes /\ Holds(pc[w], loc[w], alive)
  BY Zenon DEF TypeInv, WorkerTypes
<1> DEFINE l == [k \in {"slot", "name", "type"} |-> loc[w][k]]
<1>1. Go(w, "ins_link", "ins_name", l) /\ members' = <<loc[w].slot>> \o loc[w].rest
  BY Zenon DEF allocate_nsobject
<1>2. UNCHANGED <<objects, next_nsobject, next_namespace, spaces, owned, alive>>
  BY Zenon DEF allocate_nsobject
<1>3. l.slot = loc[w].slot /\ l.name = loc[w].name /\ l.type = loc[w].type
  BY Zenon
<1>4. loc'[w] = l /\ Step(w, "ins_link", "ins_name")
  BY <1>0, <1>1, GoEffect
<1> HIDE DEF l
<1>5. /\ loc[w].slot \in Slots /\ loc[w].rest \in Seq(Slots)
      /\ loc[w].name \in Names /\ loc[w].type \in Types
  BY <1>0, <1>1, Zenon DEF Holds, Go
<1>6. Holds("ins_name", l, alive')
  BY <1>3, <1>5, Zenon DEF Holds, Selecting
<1>7. WorkerTypes' /\ TableTypes'
  <2>1. members' \in Seq(Slots)
    BY <1>1, <1>5, PutFirst
  <2> QED  BY <1>0, <1>1, <1>2, <1>6, <2>1, WorkerMoves, ZenonT(60) DEF TableTypes
<1> QED  BY <1>1, <1>2, <1>3, <1>4, <1>7, ZenonT(60) DEF TypeInv

\* Taking an object out of the list, or finding it gone.
LEMMA DeleteTypes ==
    ASSUME TypeInv, NEW w \in Workers, delete_nsobject(w)
    PROVE  /\ TypeInv' /\ UNCHANGED <<next_nsobject, next_namespace, spaces, owned, alive>>
           /\ \/ /\ Step(w, "del_remove", "del_obj") /\ loc'[w] = loc[w]
                 /\ \E i \in DOMAIN members : members[i] = loc[w].slot
                 /\ members' = LIST_REMOVE(members, CHOOSE i \in DOMAIN members : members[i] = loc[w].slot)
                 /\ Sets(loc[w].slot, "", objects[loc[w].slot].type, objects[loc[w].slot].obj)
              \/ /\ Step(w, "del_remove", "idle") /\ UNCHANGED <<members, objects>>
                 /\ ~\E i \in DOMAIN members : members[i] = loc[w].slot
<1>0. WorkerTypes /\ TableTypes /\ Holds(pc[w], loc[w], alive)
  BY Zenon DEF TypeInv, WorkerTypes
<1>1. UNCHANGED <<next_nsobject, next_namespace, spaces, owned, alive>>
  BY Zenon DEF delete_nsobject
<1>2. loc[w].slot \in Range(members) <=> \E i \in DOMAIN members : members[i] = loc[w].slot
  BY Zenon DEF Range
<1>3. CASE loc[w].slot \notin Range(members)
  <2>1. Go(w, "del_remove", "idle", NoLocals) /\ UNCHANGED <<members, objects>>
    BY <1>3, Zenon DEF delete_nsobject
  <2>2. Holds("idle", NoLocals, alive')
    BY Zenon DEF Holds, Selecting
  <2>3. WorkerTypes' /\ TableTypes' /\ Step(w, "del_remove", "idle")
    BY <1>0, <1>1, <2>1, <2>2, WorkerMoves, GoEffect, Zenon DEF TableTypes
  <2> QED  BY <1>1, <1>2, <1>3, <2>1, <2>3, Zenon DEF TypeInv
<1>4. CASE loc[w].slot \in Range(members)
  <2>1. /\ Go(w, "del_remove", "del_obj", loc[w])
        /\ members' = LIST_REMOVE(members, CHOOSE i \in DOMAIN members : members[i] = loc[w].slot)
        /\ objects' = [objects EXCEPT ![loc[w].slot].name = ""]
    BY <1>4, Zenon DEF delete_nsobject
  <2>2. Holds("del_obj", loc[w], alive') /\ loc[w].slot \in Slots
    BY <1>0, <2>1, Zenon DEF Holds, Selecting, Go
  <2>3. WorkerTypes' /\ Step(w, "del_remove", "del_obj") /\ loc'[w] = loc[w]
    <3>1. WorkerTypes'
      BY <1>0, <2>1, <2>2, WorkerMoves, Zenon
    <3>2. Go(w, "del_remove", "del_obj", loc[w])
      BY <2>1, Zenon
    <3> QED  BY <1>0, <3>1, <3>2, GoEffect
  <2>4. PICK k \in DOMAIN members : k = CHOOSE i \in DOMAIN members : members[i] = loc[w].slot
    BY <1>2, <1>4, Zenon
  <2>5. members' \in Seq(Slots)
    BY <1>0, <2>1, <2>4, RemoveOne, Zenon DEF TableTypes
  <2>6. Sets(loc[w].slot, "", objects[loc[w].slot].type, objects[loc[w].slot].obj)
    <3>1. PICK o : o = [objects[loc[w].slot] EXCEPT !.name = ""]
      BY Zenon
    <3>2. /\ o \in Object /\ o.name = "" /\ o.type = objects[loc[w].slot].type
          /\ o.obj = objects[loc[w].slot].obj
      BY <1>0, <2>2, <3>1, EntryFields, Zenon DEF Object
    <3>3. objects' = [objects EXCEPT ![loc[w].slot] = o]
      BY <1>0, <2>1, <2>2, <3>1, Zenon DEF TableTypes
    <3> QED  BY <1>0, <2>2, <3>2, <3>3, Stored, Zenon
  <2>7. TableTypes'
    BY <1>0, <1>1, <2>5, <2>6, Zenon DEF TableTypes, Sets
  <2> QED  BY <1>1, <1>2, <1>4, <2>1, <2>3, <2>6, <2>7, ZenonT(60) DEF TypeInv
<1> QED  BY <1>3, <1>4, Zenon

\* The operations on child namespaces.
LEMMA SpaceTypesStep ==
    ASSUME TypeInv, NEW w \in Workers,
           new_namespace(w) \/ allocate_namespace(w) \/ namespace_drop(w)
    PROVE  /\ TypeInv' /\ UNCHANGED <<objects, next_nsobject, members, owned>>
           /\ \/ /\ new_namespace(w) /\ Step(w, "create", "create_link")
                 /\ loc'[w].name = loc[w].name /\ loc'[w].rest = spaces /\ UNCHANGED spaces
                 /\ next_namespace' = next_namespace + 1
                 /\ ~alive' => next_namespace >= max_namespaces
              \/ /\ allocate_namespace(w) /\ Step(w, "create_link", "idle") /\ alive'
                 /\ spaces' = <<[name |-> loc[w].name, type |-> loc[w].type]>> \o loc[w].rest
              \/ Step(w, "idle", "idle") /\ UNCHANGED <<spaces, alive>>
<1>0. WorkerTypes /\ TableTypes /\ Holds(pc[w], loc[w], alive)
  BY Zenon DEF TypeInv, WorkerTypes
<1>1. UNCHANGED <<objects, next_nsobject, members, owned>>
  BY Zenon DEF new_namespace, allocate_namespace, namespace_drop
<1>2. CASE new_namespace(w)
  <2> DEFINE l == [slot |-> next_namespace, name |-> loc[w].name, type |-> loc[w].type, rest |-> spaces]
  <2>1. /\ Go(w, "create", "create_link", l) /\ next_namespace' = next_namespace + 1
        /\ alive' = (next_namespace < max_namespaces) /\ UNCHANGED spaces
    BY <1>2, Zenon DEF new_namespace, new_namespace_entry
  <2>2. l.name = loc[w].name /\ l.rest = spaces
    BY Zenon
  <2> HIDE DEF l
  <2>3. Holds("create_link", l, alive')
    BY Zenon DEF Holds, Selecting
  <2>4. WorkerTypes' /\ TableTypes' /\ Step(w, "create", "create_link") /\ loc'[w] = l
    BY <1>0, <1>1, <2>1, <2>3, WorkerMoves, GoEffect DEF TableTypes
  <2>5. ~alive' => next_namespace >= max_namespaces
    <3>1. ~alive' => ~(next_namespace < max_namespaces)
      BY <2>1, Zenon
    <3> QED  BY <1>0, <3>1, TableSizes DEF TableTypes
  <2> QED  BY <1>1, <1>2, <2>1, <2>2, <2>4, <2>5, Zenon DEF TypeInv
<1>3. CASE allocate_namespace(w)
  <2>1. /\ Go(w, "create_link", "idle", NoLocals) /\ UNCHANGED <<next_namespace, alive>>
        /\ spaces' = <<[name |-> loc[w].name, type |-> loc[w].type]>> \o loc[w].rest
    BY <1>3, Zenon DEF allocate_namespace
  <2>2. Holds("idle", NoLocals, alive')
    BY Zenon DEF Holds, Selecting
  <2>3. WorkerTypes' /\ TableTypes' /\ Step(w, "create_link", "idle")
    BY <1>0, <1>1, <2>1, <2>2, WorkerMoves, GoEffect, ZenonT(60) DEF TableTypes
  <2> QED  BY <1>1, <1>3, <2>1, <2>3, Zenon DEF TypeInv, Step
<1>4. CASE namespace_drop(w)
  <2>1. /\ Go(w, "idle", "idle", NoLocals) /\ UNCHANGED <<next_namespace, alive>>
        /\ spaces' = spaces
    BY <1>4, Zenon DEF namespace_drop, delete_namespace, children
  <2>2. Holds("idle", NoLocals, alive')
    BY Zenon DEF Holds, Selecting
  <2>3. WorkerTypes' /\ TableTypes' /\ Step(w, "idle", "idle")
    BY <1>0, <1>1, <2>1, <2>2, WorkerMoves, GoEffect, ZenonT(60) DEF TableTypes
  <2> QED  BY <1>1, <2>1, <2>3, Zenon DEF TypeInv
<1> QED  BY <1>2, <1>3, <1>4, Zenon
-----------------------------------------------------------------------------
(* The other steps, and the lists of steps *)

Calls(w) == \/ namespace_object_insert(w) \/ namespace_object_update(w) \/ namespace_object_delete(w)
            \/ namespace_object_select(w) \/ namespace_create(w)
Looks(w) == SelectType(w) \/ SelectObj(w) \/ SelectTag(w) \/ SelectReturn(w)
Stores(w) == \/ InsertName(w) \/ InsertObj(w) \/ UpdateType(w) \/ UpdateObj(w)
             \/ DeleteObj(w) \/ DeleteType(w)
Links(w) == \/ new_nsobject(w) \/ allocate_nsobject(w) \/ delete_nsobject(w)
            \/ new_namespace(w) \/ allocate_namespace(w) \/ namespace_drop(w)

\* Every step is a call, a look, a store or a change of a list.
LEMMA NextSteps ==
    ASSUME Next
    PROVE  \E w \in Workers : Calls(w) \/ Looks(w) \/ Stores(w) \/ Links(w)
  BY Zenon DEF Next, Calls, Looks, Stores, Links

\* What a call finds before it changes anything.
LEMMA CallEffect ==
    ASSUME TypeInv, NEW w \in Workers, Calls(w)
    PROVE  \/ Step(w, "idle", "idle")
           \/ Step(w, "idle", "ins_new") /\ Free(loc'[w].name)
           \/ /\ Step(w, "idle", "upd_type")
              /\ loc'[w].slot \in owned /\ objects[loc'[w].slot].type = "RESERVATION"
              /\ loc'[w].type \in Handles
           \/ /\ Step(w, "idle", "del_remove")
              /\ loc'[w].slot \in owned /\ \E i \in DOMAIN members : members[i] = loc'[w].slot
           \/ Step(w, "idle", "sel_type")
           \/ Step(w, "idle", "create") /\ lookup_namespace(loc'[w].name) = {}
<1>0. WorkerTypes /\ TableTypes
  BY Zenon DEF TypeInv
<1>1. CASE namespace_object_insert(w)
  <2>1. PICK name \in Names, type \in Types :
          Go(w, "idle", IF in_namespace(name) THEN "idle" ELSE "ins_new",
             [slot |-> -1, name |-> name, type |-> type])
    BY <1>1, Zenon DEF namespace_object_insert
  <2>2. CASE in_namespace(name)
    <3>1. Go(w, "idle", "idle", [slot |-> -1, name |-> name, type |-> type])
      BY <2>1, <2>2, Zenon
    <3> QED  BY <1>0, <3>1, GoEffect, Zenon
  <2>3. CASE ~in_namespace(name)
    <3>1. Go(w, "idle", "ins_new", [slot |-> -1, name |-> name, type |-> type])
      BY <2>1, <2>3, Zenon
    <3>2. Step(w, "idle", "ins_new") /\ loc'[w].name = name
      BY <1>0, <3>1, GoEffect
    <3>3. Free(name)
      BY <1>0, <2>3, FreeNotFound, Zenon
    <3> QED  BY <3>2, <3>3, Zenon
  <2> QED  BY <2>2, <2>3, Zenon
<1>2. CASE namespace_object_update(w)
  <2>1. PICK s \in owned, type \in Handles :
          /\ objects[s].type = "RESERVATION"
          /\ Go(w, "idle", "upd_type", [slot |-> s, type |-> type])
    BY <1>2, Zenon DEF namespace_object_update
  <2>2. Step(w, "idle", "upd_type") /\ loc'[w].slot = s /\ loc'[w].type = type
    BY <1>0, <2>1, GoEffect
  <2> QED  BY <2>1, <2>2, Zenon
<1>3. CASE namespace_object_delete(w)
  <2>1. PICK s \in owned :
          /\ lookup_nsobject(objects[s].name, objects[s].type) = s
          /\ Go(w, "idle", "del_remove", [slot |-> s])
    BY <1>3, Zenon DEF namespace_object_delete
  <2>2. Step(w, "idle", "del_remove") /\ loc'[w].slot = s
    BY <1>0, <2>1, GoEffect
  <2>3. s # -1
    BY <1>0, TableSizes DEF TableTypes, Slots
  <2>4. \E i \in DOMAIN members : members[i] = s
    BY <1>0, <2>1, <2>3, LookupMember, Zenon
  <2> QED  BY <2>2, <2>4, Zenon
<1>4. CASE namespace_object_select(w)
  <2>1. PICK l : Go(w, "idle", "sel_type", l)
    BY <1>4, Zenon DEF namespace_object_select
  <2> QED  BY <1>0, <2>1, GoEffect, Zenon
<1>5. CASE namespace_create(w)
  <2>1. PICK name \in Names, type \in SpaceTypes :
          /\ lookup_namespace(name) = {}
          /\ Go(w, "idle", "create", [slot |-> -1, name |-> name, type |-> type])
    BY <1>5, Zenon DEF namespace_create
  <2>2. Step(w, "idle", "create") /\ loc'[w].name = name
    BY <1>0, <2>1, GoEffect
  <2> QED  BY <2>1, <2>2, Zenon
<1> QED  BY <1>1, <1>2, <1>3, <1>4, <1>5, Zenon DEF Calls

\* The steps of a lookup: it ends, or goes on with what it read.
LEMMA LookEffect ==
    ASSUME TypeInv, NEW w \in Workers, Looks(w)
    PROVE  \/ \E from \in {"sel_type", "sel_obj", "sel_tag", "sel_ret"} : Step(w, from, "idle")
           \/ /\ Step(w, "sel_type", "sel_obj") /\ loc'[w] = loc[w]
              /\ objects[loc[w].slot].type = loc[w].type
           \/ Step(w, "sel_obj", "sel_tag") /\ loc'[w] = loc[w]
           \/ /\ Step(w, "sel_tag", "sel_ret") /\ loc'[w].type = loc[w].type
              /\ loc'[w].handle = objects[loc[w].slot].obj
              /\ loc[w].type = "RESERVATION" \/ objects[loc[w].slot].obj # "NULL"
<1>0. WorkerTypes
  BY Zenon DEF TypeInv
<1>1. ASSUME NEW from \in {"sel_type", "sel_obj", "sel_tag", "sel_ret"}, NEW l, Go(w, from, "idle", l)
      PROVE  \E f \in {"sel_type", "sel_obj", "sel_tag", "sel_ret"} : Step(w, f, "idle")
  BY <1>0, <1>1, GoEffect, Zenon
<1>2. CASE SelectType(w)
  <2>1. \/ Go(w, "sel_type", "sel_obj", loc[w]) /\ objects[loc[w].slot].type = loc[w].type
        \/ Go(w, "sel_type", "idle", loc[w])
    BY <1>2, Zenon DEF SelectType
  <2> QED  BY <1>0, <1>1, <2>1, GoEffect, Zenon
<1>3. CASE SelectObj(w)
  <2>1. Go(w, "sel_obj", "sel_tag", loc[w]) \/ Go(w, "sel_obj", "idle", loc[w])
    BY <1>3, Zenon DEF SelectObj
  <2> QED  BY <1>0, <1>1, <2>1, GoEffect, Zenon
<1>4. CASE SelectTag(w)
  <2> DEFINE l == [slot |-> loc[w].slot, type |-> loc[w].type, handle |-> objects[loc[w].slot].obj]
  <2>1. \/ Go(w, "sel_tag", "sel_ret", l) /\ ~Missing(w)
        \/ Go(w, "sel_tag", "idle", l)
    BY <1>4, Zenon DEF SelectTag
  <2>2. l.type = loc[w].type /\ l.handle = objects[loc[w].slot].obj
    BY Zenon
  <2> HIDE DEF l
  <2> QED  BY <1>0, <1>1, <2>1, <2>2, GoEffect, Zenon DEF Missing
<1>5. CASE SelectReturn(w)
  BY <1>1, <1>5, Zenon DEF SelectReturn
<1> QED  BY <1>2, <1>3, <1>4, <1>5, Zenon DEF Looks

\* Where each store takes the worker, and what it does to owned.
LEMMA StoreEffect ==
    ASSUME TypeInv, NEW w \in Workers
    PROVE  /\ InsertName(w) => Step(w, "ins_name", "ins_obj") /\ loc'[w] = loc[w] /\ UNCHANGED owned
           /\ InsertObj(w) => Step(w, "ins_obj", "idle") /\ owned' = owned \cup {loc[w].slot}
           /\ UpdateType(w) => Step(w, "upd_type", "upd_obj") /\ loc'[w] = loc[w] /\ UNCHANGED owned
           /\ UpdateObj(w) => Step(w, "upd_obj", "idle") /\ UNCHANGED owned
           /\ DeleteObj(w) => Step(w, "del_obj", "del_type") /\ loc'[w] = loc[w] /\ UNCHANGED owned
           /\ DeleteType(w) => Step(w, "del_type", "idle") /\ UNCHANGED owned
<1>0. WorkerTypes
  BY Zenon DEF TypeInv
<1>1. InsertName(w) => Step(w, "ins_name", "ins_obj") /\ loc'[w] = loc[w] /\ UNCHANGED owned
  BY <1>0, GoEffect DEF InsertName
<1>2. InsertObj(w) => Step(w, "ins_obj", "idle") /\ owned' = owned \cup {loc[w].slot}
  BY <1>0, GoEffect, Zenon DEF InsertObj
<1>3. UpdateType(w) => Step(w, "upd_type", "upd_obj") /\ loc'[w] = loc[w] /\ UNCHANGED owned
  BY <1>0, GoEffect DEF UpdateType
<1>4. UpdateObj(w) => Step(w, "upd_obj", "idle") /\ UNCHANGED owned
  BY <1>0, GoEffect, Zenon DEF UpdateObj
<1>5. DeleteObj(w) => Step(w, "del_obj", "del_type") /\ loc'[w] = loc[w] /\ UNCHANGED owned
  BY <1>0, GoEffect DEF DeleteObj
<1>6. DeleteType(w) => Step(w, "del_type", "idle") /\ UNCHANGED owned
  BY <1>0, GoEffect, Zenon DEF DeleteType
<1> QED  BY <1>1, <1>2, <1>3, <1>4, <1>5, <1>6, ZenonT(60)
\* Every step keeps the types.
LEMMA TypeStep == ASSUME TypeInv, [Next]_vars PROVE TypeInv'
<1>1. CASE UNCHANGED vars
  BY <1>1, Zenon DEF vars, TypeInv, WorkerTypes, TableTypes, Holds
<1>2. CASE Next
  <2>1. PICK w \in Workers : Calls(w) \/ Looks(w) \/ Stores(w) \/ Links(w)
    BY <1>2, NextSteps, Zenon
  <2>2. CASE Calls(w) \/ Looks(w)
    BY <2>2, CallTypes, Zenon DEF Calls, Looks
  <2>3. CASE Stores(w)
    BY <2>3, SetTypes, Zenon DEF Stores
  <2>4. CASE Links(w)
    BY <2>4, NewTypes, LinkTypes, DeleteTypes, SpaceTypesStep, ZenonT(60) DEF Links
  <2> QED  BY <2>1, <2>2, <2>3, <2>4, Zenon
<1> QED  BY <1>1, <1>2, Zenon

-----------------------------------------------------------------------------
(* One changing call at a time *)

OneChanger == ~raced =>
    \A u, w \in Workers : pc[u] \in Changing /\ pc[w] \in Changing => u = w

\* Every step keeps that, without a race, one worker at a time changes something.
LEMMA ChangerStep == ASSUME TypeInv, OneChanger, [Next]_vars PROVE OneChanger'
<1>1. CASE UNCHANGED vars
  BY <1>1, Zenon DEF vars, OneChanger
<1>2. ASSUME NEW w \in Workers, NEW from, NEW to, Step(w, from, to),
             from = "idle" \/ from \in Changing \/ to \notin Changing
      PROVE  OneChanger'
  BY <1>2, Zenon DEF Step, Others, OneChanger
<1>3. CASE Next
  <2>1. PICK w \in Workers : Calls(w) \/ Looks(w) \/ Stores(w) \/ Links(w)
    BY <1>3, NextSteps, Zenon
  <2>2. CASE Calls(w)
    BY <1>2, <2>2, CallEffect, Zenon
  <2>3. CASE Looks(w)
    <3>1. PICK from, to : Step(w, from, to) /\ to \in {"idle", "sel_obj", "sel_tag", "sel_ret"}
      BY <2>3, LookEffect, Zenon
    <3> QED  BY <1>2, <3>1, Zenon DEF Changing
  <2>4. CASE Stores(w)
    <3>1. PICK from, to : Step(w, from, to) /\ from \in Changing
      BY <2>4, StoreEffect, Zenon DEF Stores, Changing
    <3> QED  BY <1>2, <3>1, Zenon
  <2>5. CASE Links(w)
    <3>1. PICK from, to : Step(w, from, to) /\ from \in Changing \cup {"idle"}
      BY <2>5, NewTypes, LinkTypes, DeleteTypes, SpaceTypesStep, Zenon DEF Links, Changing
    <3> QED  BY <1>2, <3>1, Zenon
  <2> QED  BY <2>1, <2>2, <2>3, <2>4, <2>5, Zenon
<1> QED  BY <1>1, <1>3, Zenon

-----------------------------------------------------------------------------
(* The objects *)

Blank(s) == objects[s].name = "" /\ objects[s].type = "RESERVATION" /\ objects[s].obj = "NULL"

\* A handle is of its object's type; entries not yet claimed are blank.
EntryInv == ~raced => \A s \in Slots :
    /\ objects[s].type \in {"RESERVATION", "INVALID"} => objects[s].obj = "NULL"
    /\ objects[s].obj # "NULL" => objects[s].obj = objects[s].type
    /\ s >= next_nsobject => Blank(s) /\ s \notin owned

\* What a worker in the middle of a call knows of its object, whose entry no
\* other changing call can touch; coselect knows that a type it saw has only
\* given way to INVALID.
Knows(w) == LET s == loc[w].slot IN
    /\ (pc[w] = "ins_link" /\ alive) \/ pc[w] = "ins_name" =>
          s < next_nsobject /\ Blank(s) /\ s \notin owned
    /\ pc[w] = "ins_obj" => /\ s < next_nsobject /\ s \notin owned
                            /\ objects[s].obj = "NULL" /\ objects[s].type = loc[w].type
    /\ pc[w] \in {"upd_type", "upd_obj", "del_remove", "del_obj", "del_type"} => s \in owned
    /\ pc[w] = "upd_type" => objects[s].type = "RESERVATION"
    /\ pc[w] = "upd_obj" => objects[s].obj = "NULL" /\ objects[s].type = loc[w].type
    /\ pc[w] = "del_type" => objects[s].obj = "NULL"
    /\ pc[w] \in {"sel_obj", "sel_tag"} /\ loc[w].type # "RESERVATION" =>
         objects[s].type \in {loc[w].type, "INVALID"}

CallInv == ~raced => \A w \in Workers : Knows(w)
ObjectInv == EntryInv /\ CallInv

\* Steps that store nothing in an object and claim none.
LEMMA ObjectKept ==
    ASSUME TypeInv, ObjectInv, UNCHANGED <<objects, next_nsobject, owned>>,
           NEW w \in Workers, NEW from, NEW to, Step(w, from, to),
           to = "ins_name" => from = "ins_link" /\ loc'[w].slot = loc[w].slot,
           to \notin {"ins_link", "ins_obj", "upd_obj", "del_type"},
           to = "upd_type" => loc'[w].slot \in owned /\ objects[loc'[w].slot].type = "RESERVATION",
           to = "del_remove" => loc'[w].slot \in owned,
           to = "del_obj" => from = "del_remove" /\ loc'[w] = loc[w],
           to = "sel_obj" => loc'[w] = loc[w] /\ objects[loc[w].slot].type = loc[w].type,
           to = "sel_tag" => from = "sel_obj" /\ loc'[w] = loc[w]
    PROVE  ObjectInv'
<1>1. ~raced' => ~raced
  BY Zenon DEF Step
<1>2. EntryInv'
  BY <1>1, Zenon DEF ObjectInv, EntryInv, Blank
<1>3. alive
  BY Zenon DEF Step
<1>4. ASSUME ~raced', NEW u \in Workers, u # w PROVE Knows(u)'
  <2>1. Knows(u) /\ pc'[u] = pc[u] /\ loc'[u] = loc[u]
    BY <1>1, <1>4, Zenon DEF ObjectInv, CallInv, Step, Others
  <2> QED  BY <1>3, <2>1, Zenon DEF Knows, Blank
<1>5. ASSUME ~raced' PROVE Knows(w)'
  <2>1. Knows(w) /\ pc'[w] = to /\ pc[w] = from
    BY <1>1, <1>5, Zenon DEF ObjectInv, CallInv, Step
  <2> QED  BY <1>3, <2>1, Zenon DEF Knows, Blank
<1> QED  BY <1>2, <1>4, <1>5, Zenon DEF ObjectInv, CallInv

\* Steps that store in the one object of a changing call: what the other workers
\* know stays true, since none of them changes anything.
LEMMA OthersKnow ==
    ASSUME TypeInv, OneChanger, ObjectInv, NEW w \in Workers, NEW from \in Changing, NEW to,
           Step(w, from, to), UNCHANGED next_nsobject, ~raced',
           NEW s \in Slots, NEW name, NEW type, NEW obj, Sets(s, name, type, obj),
           objects[s].type \in {"RESERVATION", type} \/ type = "INVALID"
    PROVE  \A u \in Workers : u # w => Knows(u)'
<1> SUFFICES ASSUME NEW u \in Workers, u # w PROVE Knows(u)'
  BY Zenon
<1>1. /\ Knows(u) /\ pc'[u] = pc[u] /\ loc'[u] = loc[u] /\ pc[u] \notin Changing /\ ~raced
      /\ Holds(pc[u], loc[u], alive)
  BY Zenon DEF Step, Others, OneChanger, ObjectInv, CallInv, TypeInv, WorkerTypes
<1>2. CASE pc[u] \in {"sel_obj", "sel_tag"} /\ loc[u].type # "RESERVATION"
  <2>1. loc[u].slot \in Slots /\ objects[loc[u].slot].type \in {loc[u].type, "INVALID"}
    BY <1>1, <1>2, Zenon DEF Holds, Selecting, Knows
  <2>2. objects'[loc[u].slot].type \in {loc[u].type, "INVALID"}
    BY <1>2, <2>1, Zenon DEF Sets
  <2> QED  BY <1>1, <1>2, <2>2, Zenon DEF Knows
<1>3. CASE ~(pc[u] \in {"sel_obj", "sel_tag"} /\ loc[u].type # "RESERVATION")
  BY <1>1, <1>3, Zenon DEF Knows, Changing
<1> QED  BY <1>2, <1>3, Zenon

\* A store keeps the invariant of the objects.
LEMMA StoreKeeps ==
    ASSUME TypeInv, OneChanger, ObjectInv, NEW w \in Workers, Stores(w)
    PROVE  ObjectInv'
<1>1. PICK s : s = loc[w].slot
  BY Zenon
<1>2. UNCHANGED <<next_nsobject, alive>>
  BY SetTypes, Zenon DEF Stores
<1>3. ~raced' => ~raced
  BY StoreEffect, Zenon DEF Stores, Step
<1> SUFFICES ASSUME ~raced' PROVE EntryInv' /\ \A u \in Workers : Knows(u)'
  BY Zenon DEF ObjectInv, CallInv, EntryInv
<1>4. Knows(w) /\ Holds(pc[w], loc[w], alive) /\ next_nsobject \in Nat
  BY <1>3, Zenon DEF ObjectInv, CallInv, TypeInv, WorkerTypes, TableTypes
<1>n. next_nsobject \in Int
  BY <1>4
<1>5. \A t \in Slots :
        /\ objects[t].type \in {"RESERVATION", "INVALID"} => objects[t].obj = "NULL"
        /\ objects[t].obj # "NULL" => objects[t].obj = objects[t].type
        /\ t >= next_nsobject => Blank(t) /\ t \notin owned
  BY <1>3, Zenon DEF ObjectInv, EntryInv
<1>6. \A t \in Slots : t \in Int
  BY TableSizes DEF Slots
<1>7. "RESERVATION" \notin Handles /\ "INVALID" \notin Handles /\ "NULL" \notin Handles
  BY HandleTypes, Zenon
<1>8. ASSUME InsertName(w) PROVE EntryInv' /\ \A u \in Workers : Knows(u)'
  <2>1. /\ Step(w, "ins_name", "ins_obj") /\ loc'[w] = loc[w] /\ UNCHANGED owned
        /\ Sets(s, loc[w].name, loc[w].type, objects[s].obj) /\ s \in Slots /\ loc[w].type \in Types
    BY <1>1, <1>4, <1>8, StoreEffect, SetsEffect, ZenonT(60) DEF Step, Holds
  <2>2. s < next_nsobject /\ Blank(s) /\ s \notin owned
    BY <1>1, <1>4, <2>1, Zenon DEF Knows, Step
  <2>3. EntryInv'
    <3>0. s \in Int /\ s < next_nsobject /\ next_nsobject \in Int /\ next_nsobject' = next_nsobject
      BY <1>2, <1>n, <1>6, <2>1, <2>2, ZenonT(60)
    <3>1. ~(s >= next_nsobject')
      BY <3>0
    <3>2. objects'[s].obj = "NULL"
      BY <2>1, <2>2, Zenon DEF Sets, Blank
    <3> QED  BY <1>2, <1>5, <2>1, <3>1, <3>2, ZenonT(60) DEF EntryInv, Sets, Blank
  <2>4. Knows(w)'
    BY <1>1, <1>2, <2>1, <2>2, ZenonT(60) DEF Knows, Sets, Step, Blank
  <2> QED  BY <1>2, <2>1, <2>2, <2>3, <2>4, OthersKnow, ZenonT(60) DEF Changing, Blank
<1>9. ASSUME InsertObj(w) PROVE EntryInv' /\ \A u \in Workers : Knows(u)'
  <2>1. /\ Step(w, "ins_obj", "idle") /\ owned' = owned \cup {s}
        /\ Sets(s, objects[s].name, objects[s].type, Handle(loc[w].type)) /\ s \in Slots
    BY <1>1, <1>4, <1>9, StoreEffect, SetsEffect, ZenonT(60) DEF Step, Holds
  <2>2. /\ s < next_nsobject /\ objects[s].type = loc[w].type /\ loc[w].type \in Types
    BY <1>1, <1>4, <2>1, Zenon DEF Knows, Step, Holds
  <2>3. EntryInv'
    <3>0. s \in Int /\ s < next_nsobject /\ next_nsobject \in Int /\ next_nsobject' = next_nsobject
      BY <1>2, <1>n, <1>6, <2>1, <2>2, Zenon
    <3>1. ~(s >= next_nsobject')
      BY <3>0
    <3>2. /\ objects'[s].type \in {"RESERVATION", "INVALID"} => objects'[s].obj = "NULL"
          /\ objects'[s].obj # "NULL" => objects'[s].obj = objects'[s].type
      BY <1>7, <2>1, <2>2, Zenon DEF Sets, Handle, Types
    <3> QED  BY <1>2, <1>5, <2>1, <3>1, <3>2, ZenonT(60) DEF EntryInv, Sets, Blank
  <2>4. Knows(w)'
    BY <2>1, Zenon DEF Knows, Step
  <2> QED  BY <1>2, <2>1, <2>2, <2>3, <2>4, OthersKnow, ZenonT(60) DEF Changing
<1>10. ASSUME UpdateType(w) PROVE EntryInv' /\ \A u \in Workers : Knows(u)'
  <2>1. /\ Step(w, "upd_type", "upd_obj") /\ loc'[w] = loc[w] /\ UNCHANGED owned
        /\ Sets(s, objects[s].name, loc[w].type, objects[s].obj) /\ s \in Slots /\ loc[w].type \in Handles
    BY <1>1, <1>4, <1>10, StoreEffect, SetsEffect, ZenonT(60) DEF Step, Holds
  <2>2. s \in owned /\ objects[s].type = "RESERVATION"
    BY <1>1, <1>4, <2>1, Zenon DEF Knows, Step
  <2>3. objects[s].obj = "NULL" /\ ~(s >= next_nsobject)
    BY <1>5, <2>1, <2>2, Zenon
  <2>4. EntryInv'
    BY <1>2, <1>4, <1>5, <1>6, <1>7, <2>1, <2>2, <2>3, ZenonT(60) DEF EntryInv, Sets, Blank
  <2>5. Knows(w)'
    BY <1>1, <1>2, <2>1, <2>2, <2>3, ZenonT(60) DEF Knows, Sets, Step, Blank
  <2> QED  BY <1>2, <2>1, <2>2, <2>4, <2>5, OthersKnow, ZenonT(60) DEF Changing
<1>11. ASSUME UpdateObj(w) PROVE EntryInv' /\ \A u \in Workers : Knows(u)'
  <2>1. /\ Step(w, "upd_obj", "idle") /\ UNCHANGED owned
        /\ Sets(s, objects[s].name, objects[s].type, loc[w].type) /\ s \in Slots /\ loc[w].type \in Handles
    BY <1>1, <1>4, <1>11, StoreEffect, SetsEffect, ZenonT(60) DEF Step, Holds
  <2>2. s \in owned /\ objects[s].type = loc[w].type
    BY <1>1, <1>4, <2>1, Zenon DEF Knows, Step
  <2>3. EntryInv'
    BY <1>2, <1>4, <1>5, <1>6, <1>7, <2>1, <2>2, ZenonT(60) DEF EntryInv, Sets, Blank
  <2>4. Knows(w)'
    BY <2>1, Zenon DEF Knows, Step
  <2> QED  BY <1>2, <2>1, <2>2, <2>3, <2>4, OthersKnow, ZenonT(60) DEF Changing
<1>12. ASSUME DeleteObj(w) PROVE EntryInv' /\ \A u \in Workers : Knows(u)'
  <2>1. /\ Step(w, "del_obj", "del_type") /\ loc'[w] = loc[w] /\ UNCHANGED owned
        /\ Sets(s, objects[s].name, objects[s].type, "NULL") /\ s \in Slots
    BY <1>1, <1>4, <1>12, StoreEffect, SetsEffect, ZenonT(60) DEF Step, Holds
  <2>2. s \in owned
    BY <1>1, <1>4, <2>1, Zenon DEF Knows, Step
  <2>3. EntryInv'
    BY <1>2, <1>4, <1>5, <1>6, <2>1, <2>2, ZenonT(60) DEF EntryInv, Sets, Blank
  <2>4. Knows(w)'
    BY <1>1, <1>2, <2>1, <2>2, ZenonT(60) DEF Knows, Sets, Step, Blank
  <2> QED  BY <1>2, <2>1, <2>2, <2>3, <2>4, OthersKnow, ZenonT(60) DEF Changing
<1>13. ASSUME DeleteType(w) PROVE EntryInv' /\ \A u \in Workers : Knows(u)'
  <2>1. /\ Step(w, "del_type", "idle") /\ UNCHANGED owned
        /\ Sets(s, objects[s].name, "INVALID", objects[s].obj) /\ s \in Slots
    BY <1>1, <1>4, <1>13, StoreEffect, SetsEffect, ZenonT(60) DEF Step, Holds
  <2>2. s \in owned /\ objects[s].obj = "NULL"
    BY <1>1, <1>4, <2>1, Zenon DEF Knows, Step
  <2>3. EntryInv'
    BY <1>2, <1>4, <1>5, <1>6, <2>1, <2>2, ZenonT(60) DEF EntryInv, Sets, Blank
  <2>4. Knows(w)'
    BY <2>1, Zenon DEF Knows, Step
  <2> QED  BY <1>2, <2>1, <2>2, <2>3, <2>4, OthersKnow, ZenonT(60) DEF Changing
<1> QED  BY <1>8, <1>9, <1>10, <1>11, <1>12, <1>13, ZenonT(60) DEF Stores

\* So does every step.
LEMMA ObjectStep ==
    ASSUME TypeInv, OneChanger, ObjectInv, [Next]_vars
    PROVE  ObjectInv'
<1>1. CASE UNCHANGED vars
  BY <1>1, ZenonT(60) DEF vars, ObjectInv, EntryInv, CallInv, Knows, Blank
<1>2. ASSUME NEW w \in Workers, Calls(w) PROVE ObjectInv'
  <2>1. UNCHANGED <<objects, next_nsobject, owned>>
    BY <1>2, CallTypes, Zenon DEF Calls, tables
  <2> QED  BY <1>2, <2>1, CallEffect, ObjectKept, Zenon
<1>3. ASSUME NEW w \in Workers, Looks(w) PROVE ObjectInv'
  <2>1. UNCHANGED <<objects, next_nsobject, owned>>
    BY <1>3, CallTypes, Zenon DEF Looks, tables
  <2> QED  BY <1>3, <2>1, LookEffect, ObjectKept, Zenon
<1>4. ASSUME NEW w \in Workers, new_nsobject(w) PROVE ObjectInv'
  <2>1. /\ Step(w, "ins_new", "ins_link") /\ UNCHANGED <<objects, owned>>
        /\ loc'[w].slot = next_nsobject
        /\ next_nsobject' = next_nsobject + 1 \/ UNCHANGED next_nsobject
        /\ alive' => next_nsobject \in Slots /\ next_nsobject' = next_nsobject + 1
    BY <1>4, NewTypes, Zenon
  <2>2. /\ next_nsobject \in Nat /\ alive /\ (~raced' => ~raced)
        /\ \A t \in Slots : t \in Int
    BY <2>1, TableSizes DEF TypeInv, TableTypes, Slots, Step
  <2>3. EntryInv'
    <3>1. \A t \in Slots : t >= next_nsobject' => t >= next_nsobject
      BY <2>1, <2>2
    <3> QED  BY <2>1, <2>2, <3>1, Zenon DEF ObjectInv, EntryInv, Blank
  <2>4. ASSUME ~raced', NEW u \in Workers, u # w PROVE Knows(u)'
    <3>1. /\ Knows(u) /\ pc'[u] = pc[u] /\ loc'[u] = loc[u] /\ pc[u] \notin Changing
      BY <2>1, <2>2, <2>4, Zenon DEF ObjectInv, CallInv, Step, Others, OneChanger, Changing
    <3> QED  BY <2>1, <3>1, Zenon DEF Knows, Changing
  <2>5. ASSUME ~raced' PROVE Knows(w)'
    <3>1. alive' => next_nsobject < next_nsobject' /\ Blank(next_nsobject) /\ next_nsobject \notin owned
      BY <2>1, <2>2, <2>5 DEF ObjectInv, EntryInv
    <3> QED  BY <2>1, <3>1, Zenon DEF Knows, Step, Blank
  <2> QED  BY <2>3, <2>4, <2>5, Zenon DEF ObjectInv, CallInv
<1>5. ASSUME NEW w \in Workers, allocate_nsobject(w) PROVE ObjectInv'
  <2>1. /\ Step(w, "ins_link", "ins_name") /\ loc'[w].slot = loc[w].slot
        /\ UNCHANGED <<objects, next_nsobject, owned>>
    BY <1>5, LinkTypes, Zenon
  <2> QED  BY <2>1, ObjectKept, Zenon
<1>6. ASSUME NEW w \in Workers, delete_nsobject(w) PROVE ObjectInv'
  <2>1. UNCHANGED <<next_nsobject, owned>>
    BY <1>6, DeleteTypes, Zenon
  <2>2. CASE UNCHANGED objects
    <3>1. Step(w, "del_remove", "idle") \/ (Step(w, "del_remove", "del_obj") /\ loc'[w] = loc[w])
      BY <1>6, DeleteTypes, Zenon
    <3> QED  BY <2>1, <2>2, <3>1, ObjectKept, Zenon
  <2>3. CASE ~UNCHANGED objects
    <3>1. PICK s : s = loc[w].slot
      BY Zenon
    <3>2. /\ Step(w, "del_remove", "del_obj") /\ loc'[w] = loc[w]
          /\ Sets(s, "", objects[s].type, objects[s].obj)
      BY <1>6, <2>3, <3>1, DeleteTypes, ZenonT(60)
    <3>3. (~raced' => ~raced /\ Knows(w)) /\ pc[w] = "del_remove" /\ Holds(pc[w], loc[w], alive)
      BY <3>2, Zenon DEF Step, ObjectInv, CallInv, TypeInv, WorkerTypes
    <3>4. s \in Slots /\ (~raced' => s \in owned)
      BY <3>1, <3>3, Zenon DEF Holds, Selecting, Knows
    <3>5. EntryInv'
      BY <2>1, <3>2, <3>3, <3>4, ZenonT(60) DEF ObjectInv, EntryInv, Sets, Blank
    <3>6. ~raced' => Knows(w)'
      BY <2>1, <3>1, <3>2, <3>4, ZenonT(60) DEF Knows, Step
    <3>7. ~raced' => \A u \in Workers : u # w => Knows(u)'
      BY <2>1, <3>2, <3>4, OthersKnow, Zenon DEF Changing
    <3> QED  BY <3>5, <3>6, <3>7, Zenon DEF ObjectInv, CallInv
  <2> QED  BY <2>2, <2>3, Zenon
<1>7. ASSUME NEW w \in Workers, new_namespace(w) \/ allocate_namespace(w) \/ namespace_drop(w)
      PROVE  ObjectInv'
  <2>1. /\ UNCHANGED <<objects, next_nsobject, owned>>
        /\ Step(w, "create", "create_link") \/ Step(w, "create_link", "idle") \/ Step(w, "idle", "idle")
    BY <1>7, SpaceTypesStep, Zenon
  <2> QED  BY <2>1, ObjectKept, Zenon
<1>8. ASSUME NEW w \in Workers, Links(w) PROVE ObjectInv'
  BY <1>4, <1>5, <1>6, <1>7, <1>8, ZenonT(60) DEF Links
<1> QED  BY <1>1, <1>2, <1>3, <1>8, NextSteps, StoreKeeps, ZenonT(60)

-----------------------------------------------------------------------------
(* The list of objects *)

Inserted(s) == \E w \in Workers : pc[w] \in {"ins_name", "ins_obj"} /\ loc[w].slot = s
Deleted(s) == \E w \in Workers : pc[w] \in {"del_obj", "del_type"} /\ loc[w].slot = s
Named(name) == {s \in Range(members) : objects[s].name = name}

\* The members are the objects that were inserted and not deleted, and the one
\* that is being inserted, without the one that is being deleted; each is listed
\* once and under a name of its own.
ListInv ==
    /\ \A i, j \in DOMAIN members : members[i] = members[j] => i = j
    /\ \A s \in Range(members) : (s \in owned /\ objects[s].type # "INVALID") \/ Inserted(s)
    /\ \A s \in owned : objects[s].type # "INVALID" => s \in Range(members) \/ Deleted(s)
    /\ \A s, t \in Range(members) : objects[s].name = objects[t].name /\ objects[s].name # "" => s = t

\* What the worker in the middle of a changing call knows of the list.
Listed(w) == LET s == loc[w].slot IN
    /\ pc[w] \in {"ins_new", "ins_link"} => Named(loc[w].name) = {}
    /\ pc[w] = "ins_link" => loc[w].rest = members
    /\ pc[w] = "ins_name" => s \in Range(members) /\ Named(loc[w].name) \subseteq {s}
    /\ pc[w] \in {"ins_obj", "del_remove"} => s \in Range(members)
    /\ pc[w] \in {"del_obj", "del_type"} => s \notin Range(members)

MemberInv == ~raced => ListInv /\ \A w \in Workers : Listed(w)

\* A name is free when no member has it.
LEMMA FreeNamed ==
    ASSUME NEW name
    PROVE  Free(name) <=> Named(name) = {}
  BY Zenon DEF Free, Named, Range

\* A worker that changes nothing is not concerned.
LEMMA OthersListed ==
    ASSUME TypeInv, OneChanger, NEW w \in Workers, NEW from, NEW to, Step(w, from, to), ~raced',
           from \in Changing \/ (from = "idle" /\ to \in Changing)
    PROVE  /\ \A u \in Workers : u # w => Listed(u)' /\ pc[u] \notin Changing /\ pc'[u] \notin Changing
           /\ ~raced
<1>1. ~raced /\ \A u \in Workers : u # w => pc[u] \notin Changing /\ pc'[u] \notin Changing
  BY Zenon DEF Step, Others, OneChanger
<1>2. ASSUME NEW u \in Workers, pc'[u] \notin Changing PROVE Listed(u)'
  BY <1>2, Zenon DEF Listed, Changing
<1> QED  BY <1>1, <1>2, Zenon

\* Steps of coselect, codrop and cocreate leave the list of objects alone.
LEMMA ListKept ==
    ASSUME TypeInv, OneChanger, MemberInv, UNCHANGED <<objects, owned, members>>,
           NEW w \in Workers, NEW from, NEW to, Step(w, from, to),
           from \notin {"ins_name", "ins_obj", "del_obj", "del_type"},
           to \notin {"ins_name", "ins_obj", "del_obj", "del_type"},
           to = "ins_new" => Named(loc'[w].name) = {},
           to = "ins_link" => loc'[w].rest = members /\ Named(loc'[w].name) = {},
           to = "del_remove" => loc'[w].slot \in Range(members)
    PROVE  MemberInv'
<1> SUFFICES ASSUME ~raced' PROVE ListInv' /\ \A u \in Workers : Listed(u)'
  BY Zenon DEF MemberInv
<1>1. ~raced /\ ListInv /\ \A u \in Workers : Listed(u)
  BY Zenon DEF MemberInv, Step
<1>2. (Range(members))' = Range(members) /\ \A n : Named(n)' = Named(n)
  BY Zenon DEF Range, Named
<1>3. \A s : (Inserted(s) => Inserted(s)') /\ (Deleted(s) => Deleted(s)')
  BY Zenon DEF Inserted, Deleted, Step, Others
<1>4. ListInv'
  BY <1>1, <1>2, <1>3, Zenon DEF ListInv
<1>5. ASSUME NEW u \in Workers, u # w PROVE Listed(u)'
  <2>1. Listed(u) /\ pc'[u] = pc[u] /\ loc'[u] = loc[u]
    BY <1>1, <1>5, Zenon DEF Step, Others
  <2> QED  BY <1>2, <2>1, Zenon DEF Listed
<1>6. Listed(w)'
  <2>1. Listed(w) /\ pc'[w] = to /\ pc[w] = from
    BY <1>1, Zenon DEF Step
  <2> QED  BY <1>2, <2>1, Zenon DEF Listed
<1> QED  BY <1>4, <1>5, <1>6, Zenon

\* Steps that store in an object leave the list alone.
LEMMA ListStores ==
    ASSUME TypeInv, OneChanger, ObjectInv, MemberInv, NEW w \in Workers, Stores(w)
    PROVE  MemberInv'
<1> SUFFICES ASSUME ~raced' PROVE ListInv' /\ \A u \in Workers : Listed(u)'
  BY Zenon DEF MemberInv
<1>0. PICK s, R : s = loc[w].slot /\ R = Range(members)
  BY Zenon
<1>1. members' = members /\ (Range(members))' = R
  <2>1. members' = members
    BY SetTypes, Zenon DEF Stores
  <2> QED  BY <1>0, <2>1, Zenon
<1>2. PICK from, to : Step(w, from, to) /\ from \in Changing
  BY StoreEffect, Zenon DEF Stores, Changing
<1>3. /\ \A u \in Workers : u # w => Listed(u)' /\ pc[u] \notin Changing /\ pc'[u] \notin Changing
      /\ ~raced
  BY <1>2, OthersListed, ZenonT(60)
<1>4. /\ ListInv /\ Listed(w) /\ Knows(w) /\ Holds(pc[w], loc[w], alive)
      /\ R \subseteq Slots /\ owned \subseteq Slots
  BY <1>0, <1>3 DEF MemberInv, ObjectInv, CallInv, TypeInv, WorkerTypes, TableTypes, Range
<1>5. "RESERVATION" \notin Handles /\ "INVALID" \notin Handles /\ "NULL" \notin Handles
  BY HandleTypes, Zenon
<1>6. \A u \in Workers : u # w => /\ pc[u] \notin {"ins_name", "ins_obj", "del_obj", "del_type"}
                                  /\ pc'[u] \notin {"ins_name", "ins_obj", "del_obj", "del_type"}
  BY <1>3, Zenon DEF Changing
<1>7. /\ \A i, j \in DOMAIN members : members[i] = members[j] => i = j
      /\ \A t \in R : (t \in owned /\ objects[t].type # "INVALID") \/ Inserted(t)
      /\ \A t \in owned : objects[t].type # "INVALID" => t \in R \/ Deleted(t)
      /\ \A t, u \in R : objects[t].name = objects[u].name /\ objects[t].name # "" => t = u
  BY <1>0, <1>4, Zenon DEF ListInv
<1>8. ASSUME \A t \in R : (t \in owned' /\ objects'[t].type # "INVALID") \/ Inserted(t)',
             \A t \in owned' : objects'[t].type # "INVALID" => t \in R \/ Deleted(t)',
             \A t, u \in R : objects'[t].name = objects'[u].name /\ objects'[t].name # "" => t = u,
             Listed(w)'
      PROVE  ListInv' /\ \A u \in Workers : Listed(u)'
  BY <1>1, <1>3, <1>7, <1>8, ZenonT(60) DEF ListInv
<1> DEFINE Goal == ListInv' /\ \A u \in Workers : Listed(u)'
<1>9. ASSUME InsertName(w) PROVE Goal
  <2>1. /\ pc[w] = "ins_name" /\ pc'[w] = "ins_obj" /\ loc'[w] = loc[w] /\ UNCHANGED owned
        /\ Sets(s, loc[w].name, loc[w].type, objects[s].obj)
    BY <1>0, <1>9, StoreEffect, SetsEffect, ZenonT(60) DEF Step
  <2>2. /\ s \in R /\ s \notin owned /\ loc[w].type \in Types
        /\ \A t \in R : objects[t].name = loc[w].name => t = s
    BY <1>0, <1>4, <2>1, ZenonT(60) DEF Listed, Knows, Holds, Named
  <2>3. \A t : Inserted(t) => Inserted(t)'
    BY <1>6, <2>1, ZenonT(60) DEF Inserted
  <2>4. \A t : ~Deleted(t)
    BY <1>6, <2>1, ZenonT(60) DEF Deleted
  <2>5. Listed(w)'
    BY <1>0, <1>1, <2>1, <2>2, ZenonT(60) DEF Listed
  <2>6. \A t \in R : (t \in owned' /\ objects'[t].type # "INVALID") \/ Inserted(t)'
    BY <1>4, <1>7, <2>1, <2>2, <2>3, ZenonT(60) DEF Sets
  <2>7. \A t \in owned' : objects'[t].type # "INVALID" => t \in R \/ Deleted(t)'
    BY <1>4, <1>7, <2>1, <2>2, <2>4, ZenonT(60) DEF Sets
  <2>8. \A t, u \in R : objects'[t].name = objects'[u].name /\ objects'[t].name # "" => t = u
    <3>1. \A t \in R : objects'[t].name = IF t = s THEN loc[w].name ELSE objects[t].name
      BY <1>4, <2>1, ZenonT(60) DEF Sets
    <3> QED  BY <1>7, <2>2, <3>1, ZenonT(60)
  <2> QED  BY <1>8, <2>5, <2>6, <2>7, <2>8, ZenonT(60)
<1>10. ASSUME InsertObj(w) PROVE Goal
  <2>1. /\ pc[w] = "ins_obj" /\ pc'[w] = "idle" /\ owned' = owned \cup {s}
        /\ Sets(s, objects[s].name, objects[s].type, Handle(loc[w].type))
    BY <1>0, <1>10, StoreEffect, SetsEffect, ZenonT(60) DEF Step
  <2>2. s \in R /\ s \in Slots /\ objects[s].type = loc[w].type /\ loc[w].type \in Types
    BY <1>0, <1>4, <2>1, ZenonT(60) DEF Listed, Knows, Holds
  <2>3. objects[s].type # "INVALID"
    BY <1>5, <2>2, ZenonT(60) DEF Types
  <2>4. \A t : (Inserted(t) => t = s) /\ ~Deleted(t)
    BY <1>0, <1>6, <2>1, ZenonT(60) DEF Inserted, Deleted
  <2>5. Listed(w)'
    BY <2>1, ZenonT(60) DEF Listed
  <2>6. \A t \in R : (t \in owned' /\ objects'[t].type # "INVALID") \/ Inserted(t)'
    BY <1>4, <1>7, <2>1, <2>2, <2>3, <2>4, ZenonT(60) DEF Sets
  <2>7. \A t \in owned' : objects'[t].type # "INVALID" => t \in R \/ Deleted(t)'
    BY <1>4, <1>7, <2>1, <2>2, <2>4, ZenonT(60) DEF Sets
  <2>8. \A t, u \in R : objects'[t].name = objects'[u].name /\ objects'[t].name # "" => t = u
    <3>1. \A t \in R : objects'[t].name = objects[t].name
      BY <1>4, <2>1, ZenonT(60) DEF Sets
    <3> QED  BY <1>7, <3>1, ZenonT(60)
  <2> QED  BY <1>8, <2>5, <2>6, <2>7, <2>8, Zenon
<1>11. ASSUME UpdateType(w) \/ UpdateObj(w) PROVE Goal
  <2>1. /\ pc[w] \in {"upd_type", "upd_obj"} /\ pc'[w] \in {"upd_obj", "idle"} /\ UNCHANGED owned
        /\ \E type, obj : /\ Sets(s, objects[s].name, type, obj)
                          /\ type = loc[w].type \/ type = objects[s].type
    BY <1>0, <1>11, StoreEffect, SetsEffect, ZenonT(60) DEF Step
  <2>2. PICK type, obj : Sets(s, objects[s].name, type, obj) /\ (type = loc[w].type \/ type = objects[s].type)
    BY <2>1, Zenon
  <2>3. /\ s \in Slots /\ objects[s].type \in {"RESERVATION", loc[w].type} /\ loc[w].type \in Handles
    BY <1>0, <1>4, <2>1, ZenonT(60) DEF Knows, Holds
  <2>4. \A t : ~Inserted(t) /\ ~Deleted(t)
    BY <1>6, <2>1, ZenonT(60) DEF Inserted, Deleted
  <2>5. Listed(w)'
    BY <2>1, ZenonT(60) DEF Listed
  <2>6. \A t \in Slots : /\ objects'[t].name = objects[t].name
                         /\ objects'[t].type = "INVALID" <=> objects[t].type = "INVALID"
    BY <1>5, <2>2, <2>3, ZenonT(60) DEF Sets
  <2>7. \A t \in R : (t \in owned' /\ objects'[t].type # "INVALID") \/ Inserted(t)'
    BY <1>4, <1>7, <2>1, <2>4, <2>6, ZenonT(60)
  <2>8. \A t \in owned' : objects'[t].type # "INVALID" => t \in R \/ Deleted(t)'
    BY <1>4, <1>7, <2>1, <2>4, <2>6, ZenonT(60)
  <2>9. \A t, u \in R : objects'[t].name = objects'[u].name /\ objects'[t].name # "" => t = u
    BY <1>4, <1>7, <2>6, ZenonT(60)
  <2> QED  BY <1>8, <2>5, <2>7, <2>8, <2>9, Zenon
<1>12. ASSUME DeleteObj(w) \/ DeleteType(w) PROVE Goal
  <2>1. /\ UNCHANGED owned
        /\ \/ /\ pc[w] = "del_obj" /\ pc'[w] = "del_type" /\ loc'[w] = loc[w]
              /\ Sets(s, objects[s].name, objects[s].type, "NULL")
           \/ /\ pc[w] = "del_type" /\ pc'[w] = "idle"
              /\ Sets(s, objects[s].name, "INVALID", objects[s].obj)
    BY <1>0, <1>12, StoreEffect, SetsEffect, Zenon DEF Step
  <2>2. s \in Slots /\ s \notin R
    BY <1>0, <1>4, <2>1, ZenonT(60) DEF Holds, Listed
  <2>3. \A t : ~Inserted(t) /\ (Deleted(t) <=> t = s)
    BY <1>0, <1>6, <2>1, ZenonT(60) DEF Inserted, Deleted
  <2>4. pc'[w] = "del_type" => Deleted(s)'
    BY <1>0, <2>1, Zenon DEF Deleted
  <2>5. Listed(w)'
    BY <1>0, <1>1, <2>1, <2>2, ZenonT(60) DEF Listed
  <2>6. \A t \in R : (t \in owned' /\ objects'[t].type # "INVALID") \/ Inserted(t)'
    BY <1>4, <1>7, <2>1, <2>2, <2>3, ZenonT(60) DEF Sets
  <2>7. \A t \in owned' : objects'[t].type # "INVALID" => t \in R \/ Deleted(t)'
    BY <1>4, <1>7, <2>1, <2>2, <2>3, <2>4, ZenonT(60) DEF Sets
  <2>8. \A t, u \in R : objects'[t].name = objects'[u].name /\ objects'[t].name # "" => t = u
    <3>1. \A t \in R : objects'[t] = objects[t]
      BY <1>4, <2>1, <2>2, ZenonT(60) DEF Sets
    <3> QED  BY <1>7, <3>1, ZenonT(60)
  <2> QED  BY <1>8, <2>5, <2>6, <2>7, <2>8, Zenon
<1> QED  BY <1>9, <1>10, <1>11, <1>12, ZenonT(60) DEF Stores

\* The new object, in front of the list, is no member yet, and it has no name.
LEMMA ListLink ==
    ASSUME TypeInv, OneChanger, ObjectInv, MemberInv, NEW w \in Workers, allocate_nsobject(w)
    PROVE  MemberInv'
<1> SUFFICES ASSUME ~raced' PROVE ListInv' /\ \A u \in Workers : Listed(u)'
  BY Zenon DEF MemberInv
<1>0. PICK s, R : s = loc[w].slot /\ R = Range(members)
  BY Zenon
<1>1. /\ Step(w, "ins_link", "ins_name") /\ UNCHANGED <<objects, owned>>
      /\ loc'[w].slot = s /\ loc'[w].name = loc[w].name
      /\ members' = <<s>> \o loc[w].rest
  BY <1>0, LinkTypes, Zenon
<1>2. /\ \A u \in Workers : u # w => Listed(u)' /\ pc[u] \notin Changing /\ pc'[u] \notin Changing
      /\ ~raced /\ pc[w] = "ins_link" /\ alive /\ pc'[w] = "ins_name"
  BY <1>1, OthersListed, Zenon DEF Changing, Step
<1>3. ListInv /\ Listed(w) /\ Knows(w) /\ Holds(pc[w], loc[w], alive) /\ members \in Seq(Slots)
  BY <1>2, Zenon DEF MemberInv, ObjectInv, CallInv, TypeInv, WorkerTypes, TableTypes
<1>4. /\ Blank(s) /\ s \notin owned /\ s \in Slots /\ loc[w].rest = members
      /\ Named(loc[w].name) = {}
  BY <1>0, <1>2, <1>3, Zenon DEF Knows, Holds, Listed
<1>5. \A t : ~Inserted(t) /\ ~Deleted(t)
  BY <1>2, Zenon DEF Inserted, Deleted, Changing
<1>6. s \notin R
  BY <1>0, <1>3, <1>4, <1>5, ZenonT(60) DEF ListInv
<1>7. /\ DOMAIN members' = 1 .. Len(members) + 1 /\ DOMAIN members = 1 .. Len(members)
      /\ Len(members) \in Nat /\ members'[1] = s
      /\ \A i \in DOMAIN members : members'[i + 1] = members[i] /\ i + 1 \in DOMAIN members'
      /\ \A i \in DOMAIN members' : i # 1 => i - 1 \in DOMAIN members /\ members'[i] = members[i - 1]
  <2>1. members' = <<s>> \o members /\ members \in Seq(Slots) /\ s \in Slots
    BY <1>1, <1>3, <1>4, Zenon
  <2> QED  BY <2>1, PutFirst
<1>8. (Range(members))' = R \cup {s}
  <2>1. ASSUME NEW i \in DOMAIN members' PROVE members'[i] \in R \cup {s}
    BY <1>0, <1>7, Zenon DEF Range
  <2>2. ASSUME NEW i \in DOMAIN members PROVE \E j \in DOMAIN members' : members'[j] = members[i]
    BY <1>7, Zenon
  <2>3. \E j \in DOMAIN members' : members'[j] = s
    BY <1>7
  <2>4. ASSUME NEW x \in R \cup {s} PROVE x \in (Range(members))'
    BY <1>0, <2>2, <2>3, Zenon DEF Range
  <2>5. ASSUME NEW x \in (Range(members))' PROVE x \in R \cup {s}
    BY <2>1, Zenon DEF Range
  <2> QED  BY <2>4, <2>5, Zenon
<1>9. ASSUME NEW i \in DOMAIN members', NEW j \in DOMAIN members', members'[i] = members'[j]
      PROVE  i = j
  <2>1. \A k \in DOMAIN members : members[k] # s
    BY <1>0, <1>6, Zenon DEF Range
  <2>2. CASE i = 1 \/ j = 1
    BY <1>7, <1>9, <2>1, <2>2
  <2>3. CASE i # 1 /\ j # 1
    <3>1. PICK k \in DOMAIN members, l \in DOMAIN members : k = i - 1 /\ l = j - 1 /\ members[k] = members[l]
      BY <1>7, <1>9, <2>3
    <3>2. k = l
      BY <1>3, <3>1, Zenon DEF ListInv
    <3> QED  BY <1>7, <3>1, <3>2
  <2> QED  BY <2>2, <2>3, Zenon
<1>10. Inserted(s)'
  BY <1>1, <1>2, Zenon DEF Inserted
<1>11. ListInv'
  <2>1. \A t \in R \cup {s} : (t \in owned' /\ objects'[t].type # "INVALID") \/ Inserted(t)'
    BY <1>0, <1>1, <1>3, <1>5, <1>10, ZenonT(60) DEF ListInv
  <2>2. \A t \in owned' : objects'[t].type # "INVALID" => t \in R \cup {s} \/ Deleted(t)'
    BY <1>0, <1>1, <1>3, <1>5, Zenon DEF ListInv
  <2>3. \A t, u \in R \cup {s} :
          objects'[t].name = objects'[u].name /\ objects'[t].name # "" => t = u
    <3>1. objects[s].name = ""
      BY <1>4, Zenon DEF Blank
    <3> QED  BY <1>0, <1>1, <1>3, <3>1, Zenon DEF ListInv
  <2> QED  BY <1>8, <1>9, <2>1, <2>2, <2>3, ZenonT(60) DEF ListInv
<1>12. Listed(w)'
  <2>1. \A t \in R \cup {s} : objects[t].name = loc[w].name => t = s
    BY <1>0, <1>4, Zenon DEF Named
  <2>2. Named(loc[w].name)' \subseteq {s}
    BY <1>1, <1>8, <2>1, Zenon DEF Named
  <2> QED  BY <1>1, <1>2, <1>8, <2>2, Zenon DEF Listed
<1> QED  BY <1>2, <1>11, <1>12, ZenonT(60)

\* Taking a member out of the list keeps the invariant of the list.
LEMMA ListRemove ==
    ASSUME TypeInv, OneChanger, ObjectInv, MemberInv, NEW w \in Workers, delete_nsobject(w)
    PROVE  MemberInv'
<1> SUFFICES ASSUME ~raced' PROVE ListInv' /\ \A u \in Workers : Listed(u)'
  BY Zenon DEF MemberInv
<1>0. PICK s, R : s = loc[w].slot /\ R = Range(members)
  BY Zenon
<1>1. /\ \A u \in Workers : u # w => Listed(u)' /\ pc[u] \notin Changing /\ pc'[u] \notin Changing
      /\ ~raced /\ pc[w] = "del_remove"
  <2>1. PICK to : Step(w, "del_remove", to)
    BY DeleteTypes, Zenon
  <2> QED  BY <2>1, OthersListed, Zenon DEF Changing, Step
<1>2. ListInv /\ Listed(w) /\ Knows(w) /\ Holds(pc[w], loc[w], alive) /\ members \in Seq(Slots)
  BY <1>1, Zenon DEF MemberInv, ObjectInv, CallInv, TypeInv, WorkerTypes, TableTypes
<1>3. s \in R /\ s \in owned /\ s \in Slots /\ owned \subseteq Slots /\ R \subseteq Slots
  <2>1. s \in R /\ s \in owned
    BY <1>0, <1>1, <1>2, Zenon DEF Listed, Knows, Holds
  <2>2. owned \subseteq Slots
    BY Zenon DEF TypeInv, TableTypes
  <2>3. R \subseteq Slots
    BY <1>0, <1>2 DEF Range
  <2> QED  BY <2>1, <2>2, <2>3, Zenon
<1>4. \E i \in DOMAIN members : members[i] = s
  BY <1>0, <1>3, Zenon DEF Range
<1>5. /\ Step(w, "del_remove", "del_obj") /\ loc'[w] = loc[w] /\ UNCHANGED owned
      /\ members' = LIST_REMOVE(members, CHOOSE i \in DOMAIN members : members[i] = s)
      /\ Sets(s, "", objects[s].type, objects[s].obj)
  BY <1>0, <1>4, DeleteTypes, Zenon
<1>6. /\ \A i, j \in DOMAIN members' : members'[i] = members'[j] => i = j
      /\ \A x : (\E i \in DOMAIN members' : members'[i] = x)
                  <=> x # s /\ \E i \in DOMAIN members : members[i] = x
  <2>1. \A i, j \in DOMAIN members : members[i] = members[j] => i = j
    BY <1>2, Zenon DEF ListInv
  <2>2. members' = LIST_REMOVE(members, CHOOSE i \in DOMAIN members : members[i] = s)
    BY <1>5, Zenon
  <2>3. members \in Seq(Slots)
    BY <1>2, Zenon
  <2>4. Without(members, s, members')
    BY <2>1, <2>2, <2>3, <1>4, RemoveElement, ZenonT(60)
  <2> QED  BY <2>4, Zenon DEF Without
<1>7. (Range(members))' = R \ {s}
  BY <1>0, <1>6 DEF Range
<1>8. \A t : ~Inserted(t) /\ ~Deleted(t)
  BY <1>1, Zenon DEF Inserted, Deleted, Changing
<1>9. Deleted(s)'
  BY <1>0, <1>5, Zenon DEF Deleted, Step
<1>10. ListInv'
  <2>1. \A t \in R \ {s} : (t \in owned' /\ objects'[t].type # "INVALID") \/ Inserted(t)'
    BY <1>0, <1>2, <1>3, <1>5, <1>8, ZenonT(60) DEF ListInv, Sets
  <2>2. \A t \in owned' : objects'[t].type # "INVALID" => t \in R \ {s} \/ Deleted(t)'
    BY <1>0, <1>2, <1>3, <1>5, <1>8, <1>9, ZenonT(60) DEF ListInv, Sets
  <2>3. \A t, u \in R \ {s} :
          objects'[t].name = objects'[u].name /\ objects'[t].name # "" => t = u
    BY <1>0, <1>2, <1>3, <1>5, ZenonT(60) DEF ListInv, Sets
  <2> QED  BY <1>6, <1>7, <2>1, <2>2, <2>3, Zenon DEF ListInv
<1>11. Listed(w)'
  BY <1>0, <1>5, <1>7, Zenon DEF Listed, Step
<1> QED  BY <1>1, <1>10, <1>11, ZenonT(60)

\* Every step keeps the invariant of the list.
LEMMA MemberStep ==
    ASSUME TypeInv, OneChanger, ObjectInv, MemberInv, [Next]_vars
    PROVE  MemberInv'
<1>1. CASE UNCHANGED vars
  <2>1. /\ raced' = raced /\ objects' = objects /\ members' = members /\ owned' = owned
        /\ pc' = pc /\ loc' = loc
    BY <1>1, Zenon DEF vars
  <2>2. \A s : Inserted(s)' = Inserted(s) /\ Deleted(s)' = Deleted(s)
    BY <2>1, Zenon DEF Inserted, Deleted
  <2>3. SUFFICES ASSUME ListInv, \A w \in Workers : Listed(w)
                 PROVE  ListInv' /\ \A w \in Workers : Listed(w)'
    BY <2>1, Zenon DEF MemberInv
  <2>4. ListInv'
    BY <2>1, <2>2, <2>3, Zenon DEF ListInv
  <2>5. ASSUME NEW w \in Workers PROVE Listed(w)'
    BY <2>1, <2>3, Zenon DEF Listed, Named
  <2> QED  BY <2>4, <2>5, Zenon
<1>2. ASSUME NEW w \in Workers, Calls(w) PROVE MemberInv'
  <2>1. UNCHANGED <<objects, owned, members>>
    BY <1>2, CallTypes, Zenon DEF Calls, tables
  <2>2. PICK to : /\ Step(w, "idle", to)
                  /\ to \in {"idle", "ins_new", "upd_type", "del_remove", "sel_type", "create"}
                  /\ to = "ins_new" => Free(loc'[w].name)
                  /\ to = "del_remove" => \E i \in DOMAIN members : members[i] = loc'[w].slot
    BY <1>2, CallEffect
  <2>3. /\ to = "ins_new" => Named(loc'[w].name) = {}
        /\ to = "del_remove" => loc'[w].slot \in Range(members)
    BY <2>2, FreeNamed, Zenon DEF Range
  <2> QED  BY <2>1, <2>2, <2>3, ListKept, Zenon
<1>3. ASSUME NEW w \in Workers, Looks(w) PROVE MemberInv'
  <2>1. UNCHANGED <<objects, owned, members>>
    BY <1>3, CallTypes, Zenon DEF Looks, tables
  <2>2. PICK from, to : /\ Step(w, from, to)
                        /\ from \in {"sel_type", "sel_obj", "sel_tag", "sel_ret"}
                        /\ to \in {"idle", "sel_obj", "sel_tag", "sel_ret"}
    BY <1>3, LookEffect, Zenon
  <2> QED  BY <2>1, <2>2, ListKept, Zenon
<1>4. ASSUME NEW w \in Workers, new_nsobject(w) PROVE MemberInv'
  <2>1. /\ UNCHANGED <<objects, owned, members>> /\ Step(w, "ins_new", "ins_link")
        /\ loc'[w].rest = members /\ loc'[w].name = loc[w].name
    BY <1>4, NewTypes, Zenon
  <2>2. CASE raced
    BY <2>1, <2>2, Zenon DEF Step, MemberInv
  <2>3. CASE ~raced
    <3>1. Named(loc'[w].name) = {}
      BY <2>1, <2>3, Zenon DEF MemberInv, Listed, Step
    <3> QED  BY <2>1, <3>1, ListKept, Zenon
  <2> QED  BY <2>2, <2>3, Zenon
<1>5. ASSUME NEW w \in Workers, new_namespace(w) \/ allocate_namespace(w) \/ namespace_drop(w)
      PROVE  MemberInv'
  <2>1. /\ UNCHANGED <<objects, owned, members>>
        /\ Step(w, "create", "create_link") \/ Step(w, "create_link", "idle") \/ Step(w, "idle", "idle")
    BY <1>5, SpaceTypesStep, Zenon
  <2> QED  BY <2>1, ListKept, Zenon
<1>6. ASSUME NEW w \in Workers, Links(w) PROVE MemberInv'
  BY <1>4, <1>5, <1>6, ListLink, ListRemove, Zenon DEF Links
<1> QED  BY <1>1, <1>2, <1>3, <1>6, NextSteps, ListStores, Zenon

-----------------------------------------------------------------------------
\* The child namespaces.  A worker that creates one knows that the name is free
\* and, once it has read the head of the list, that the list is still what it
\* read.
Creates(w) ==
    /\ pc[w] \in {"create", "create_link"} => lookup_namespace(loc[w].name) = {}
    /\ pc[w] = "create_link" => loc[w].rest = spaces

SpaceInv == ~raced =>
    /\ \E S : spaces \in Seq(S)
    /\ \A i, j \in DOMAIN spaces : spaces[i].name = spaces[j].name => i = j
    /\ \A w \in Workers : Creates(w)

\* A step that leaves the list of namespaces as it is.
LEMMA SpacesKept ==
    ASSUME SpaceInv, spaces' = spaces, NEW w \in Workers, NEW from, NEW to, Step(w, from, to),
           to = "create" => lookup_namespace(loc'[w].name) = {},
           to = "create_link" =>
             from = "create" /\ loc'[w].name = loc[w].name /\ loc'[w].rest = spaces
    PROVE  SpaceInv'
<1> SUFFICES ASSUME ~raced', ~raced
             PROVE  /\ \E S : spaces' \in Seq(S)
                    /\ \A i, j \in DOMAIN spaces' : spaces'[i].name = spaces'[j].name => i = j
                    /\ \A u \in Workers : Creates(u)'
  BY Zenon DEF SpaceInv, Step
<1>1. \A name : lookup_namespace(name)' = lookup_namespace(name)
  BY Zenon DEF lookup_namespace
<1>2. ASSUME NEW u \in Workers PROVE Creates(u)'
  <2>1. CASE u = w
    <3>1. Creates(w) /\ pc[w] = from /\ pc'[w] = to
      BY Zenon DEF SpaceInv, Step
    <3>2. CASE to = "create"
      BY <2>1, <3>1, <3>2, Zenon DEF Creates, lookup_namespace
    <3>3. CASE to = "create_link"
      BY <2>1, <3>1, <3>3, Zenon DEF Creates, lookup_namespace
    <3> QED  BY <2>1, <3>1, <3>2, <3>3, Zenon DEF Creates
  <2>2. CASE u # w
    <3>1. Creates(u) /\ pc'[u] = pc[u] /\ loc'[u] = loc[u]
      BY <2>2, Zenon DEF SpaceInv, Step, Others
    <3> QED  BY <3>1, Zenon DEF Creates, lookup_namespace
  <2> QED  BY <2>1, <2>2, Zenon
<1> QED  BY <1>2, Zenon DEF SpaceInv

\* The new namespace, in front of the list, has a name of its own.
LEMMA SpaceLinked ==
    ASSUME TypeInv, OneChanger, SpaceInv, NEW w \in Workers, Step(w, "create_link", "idle"),
           NEW e, e.name = loc[w].name, spaces' = <<e>> \o loc[w].rest
    PROVE  SpaceInv'
<1> SUFFICES ASSUME ~raced', ~raced
             PROVE  /\ \E S : spaces' \in Seq(S)
                    /\ \A i, j \in DOMAIN spaces' : spaces'[i].name = spaces'[j].name => i = j
                    /\ \A u \in Workers : Creates(u)'
  BY Zenon DEF SpaceInv, Step
<1>1. PICK S : spaces \in Seq(S)
  BY Zenon DEF SpaceInv
<1>2. Creates(w) /\ pc[w] = "create_link"
  BY Zenon DEF SpaceInv, Step
<1>3. loc[w].rest = spaces /\ \A i \in DOMAIN spaces : spaces[i].name # e.name
  BY <1>2, Zenon DEF Creates, lookup_namespace
<1>4. PICK T : T = S \cup {e}
  BY Zenon
<1>5. spaces \in Seq(T) /\ e \in T
  BY <1>1, <1>4
<1>6. /\ spaces' \in Seq(T) /\ DOMAIN spaces' = 1 .. Len(spaces) + 1
      /\ DOMAIN spaces = 1 .. Len(spaces) /\ Len(spaces) \in Nat /\ spaces'[1] = e
      /\ \A i \in DOMAIN spaces' : i # 1 => i - 1 \in DOMAIN spaces /\ spaces'[i] = spaces[i - 1]
  BY <1>3, <1>5, PutFirst
<1>7. ASSUME NEW i \in DOMAIN spaces', NEW j \in DOMAIN spaces', spaces'[i].name = spaces'[j].name
      PROVE  i = j
  <2>1. CASE i = 1 \/ j = 1
    BY <1>3, <1>6, <1>7, <2>1, ZenonT(60)
  <2>2. CASE i # 1 /\ j # 1
    <3>1. PICK k \in DOMAIN spaces, l \in DOMAIN spaces :
            k = i - 1 /\ l = j - 1 /\ spaces[k].name = spaces[l].name
      BY <1>6, <1>7, <2>2, ZenonT(60)
    <3>2. k = l
      BY <3>1, Zenon DEF SpaceInv
    <3> QED  BY <1>6, <3>1, <3>2
  <2> QED  BY <2>1, <2>2, Zenon
<1>8. ASSUME NEW u \in Workers PROVE Creates(u)'
  <2>1. pc'[u] \notin {"create", "create_link"}
    BY <1>2, Zenon DEF Step, Others, OneChanger, Changing
  <2> QED  BY <2>1, Zenon DEF Creates
<1> QED  BY <1>6, <1>7, <1>8, Zenon

\* Every step keeps the names of the child namespaces apart.
LEMMA SpaceStep ==
    ASSUME TypeInv, OneChanger, SpaceInv, [Next]_vars
    PROVE  SpaceInv'
<1>1. CASE UNCHANGED vars
  <2>1. raced' = raced /\ spaces' = spaces /\ pc' = pc /\ loc' = loc
    BY <1>1, Zenon DEF vars
  <2>2. \A w \in Workers : Creates(w) => Creates(w)'
    BY <2>1, Zenon DEF Creates, lookup_namespace
  <2> QED  BY <2>1, <2>2, Zenon DEF SpaceInv
<1>2. ASSUME NEW w \in Workers, Calls(w) PROVE SpaceInv'
  <2>1. spaces' = spaces
    BY <1>2, CallTypes, Zenon DEF Calls, tables
  <2>2. PICK to : /\ Step(w, "idle", to) /\ to # "create_link"
                  /\ to = "create" => lookup_namespace(loc'[w].name) = {}
    BY <1>2, CallEffect
  <2> QED  BY <2>1, <2>2, SpacesKept, Zenon
<1>3. ASSUME NEW w \in Workers, Looks(w) PROVE SpaceInv'
  <2>1. spaces' = spaces
    BY <1>3, CallTypes, Zenon DEF Looks, tables
  <2>2. \E from, to : Step(w, from, to) /\ to \in {"idle", "sel_obj", "sel_tag", "sel_ret"}
    BY <1>3, LookEffect, Zenon
  <2>3. PICK from, to : Step(w, from, to) /\ to \notin {"create", "create_link"}
    BY ONLY <2>2
  <2> QED  BY <2>1, <2>3, SpacesKept, Zenon
<1>4. ASSUME NEW w \in Workers, Stores(w) PROVE SpaceInv'
  <2>1. spaces' = spaces
    BY <1>4, SetTypes, Zenon DEF Stores
  <2>2. PICK from, to : Step(w, from, to) /\ to \notin {"create", "create_link"}
    BY <1>4, StoreEffect DEF Stores
  <2> QED  BY <2>1, <2>2, SpacesKept, Zenon
<1>5. ASSUME NEW w \in Workers, new_nsobject(w) \/ allocate_nsobject(w) \/ delete_nsobject(w)
      PROVE  SpaceInv'
  <2>1. spaces' = spaces
    BY <1>5, NewTypes, LinkTypes, DeleteTypes, Zenon
  <2>2. \/ Step(w, "ins_new", "ins_link") \/ Step(w, "ins_link", "ins_name")
        \/ Step(w, "del_remove", "del_obj") \/ Step(w, "del_remove", "idle")
    BY <1>5, NewTypes, LinkTypes, DeleteTypes, Zenon
  <2> QED  BY <2>1, <2>2, SpacesKept, Zenon
<1>6. ASSUME NEW w \in Workers, new_namespace(w) \/ allocate_namespace(w) \/ namespace_drop(w)
      PROVE  SpaceInv'
  <2>1. CASE /\ Step(w, "create", "create_link") /\ loc'[w].name = loc[w].name
             /\ loc'[w].rest = spaces /\ spaces' = spaces
    BY <2>1, SpacesKept, Zenon
  <2>2. CASE /\ Step(w, "create_link", "idle")
             /\ spaces' = <<[name |-> loc[w].name, type |-> loc[w].type]>> \o loc[w].rest
    <3>1. PICK e : e = [name |-> loc[w].name, type |-> loc[w].type] 
      BY Zenon
    <3>2. e.name = loc[w].name
      BY <3>1, Zenon
    <3> QED  BY <2>2, <3>1, <3>2, SpaceLinked, Zenon
  <2>3. CASE Step(w, "idle", "idle") /\ spaces' = spaces
    BY <2>3, SpacesKept, Zenon
  <2> QED  BY <1>6, <2>1, <2>2, <2>3, SpaceTypesStep, ZenonT(60)
<1> QED  BY <1>1, <1>2, <1>3, <1>4, <1>5, <1>6, NextSteps, ZenonT(60) DEF Links

-----------------------------------------------------------------------------
\* A handle that coselect reads, and finds present, is of the object's type; the
\* type is still the one that was asked for, as only a reservation changes its.
LEMMA HandlesTyped ==
    ASSUME TypeInv, OneChanger, ObjectInv, TypedHandles, [Next]_vars
    PROVE  TypedHandles'
<1> SUFFICES ASSUME ~raced', NEW u \in Workers, pc'[u] = "sel_ret", loc'[u].type # "RESERVATION"
             PROVE  loc'[u].handle = loc'[u].type
  BY Zenon DEF TypedHandles
<1>1. CASE UNCHANGED vars
  BY <1>1, Zenon DEF vars, TypedHandles
<1>2. ASSUME NEW w \in Workers, NEW from, NEW to, Step(w, from, to), to # "sel_ret"
      PROVE  loc'[u].handle = loc'[u].type
  <2>1. u # w
    BY <1>2, Zenon DEF Step
  <2> QED  BY <1>2, <2>1, Zenon DEF Step, Others, TypedHandles
<1>3. ASSUME NEW w \in Workers, Calls(w) PROVE loc'[u].handle = loc'[u].type
  <2>1. PICK to : Step(w, "idle", to) /\ to # "sel_ret"
    BY <1>3, CallEffect
  <2> QED  BY <1>2, <2>1, Zenon
<1>4. ASSUME NEW w \in Workers, Stores(w) PROVE loc'[u].handle = loc'[u].type
  <2>1. PICK from, to : Step(w, from, to) /\ to # "sel_ret"
    BY <1>4, StoreEffect DEF Stores
  <2> QED  BY <1>2, <2>1, Zenon
<1>5. ASSUME NEW w \in Workers, Links(w) PROVE loc'[u].handle = loc'[u].type
  <2>1. \/ Step(w, "ins_new", "ins_link") \/ Step(w, "ins_link", "ins_name")
        \/ Step(w, "del_remove", "del_obj") \/ Step(w, "del_remove", "idle")
        \/ Step(w, "create", "create_link") \/ Step(w, "create_link", "idle")
        \/ Step(w, "idle", "idle")
    BY <1>5, NewTypes, LinkTypes, DeleteTypes, SpaceTypesStep, ZenonT(60) DEF Links
  <2> QED  BY <1>2, <2>1, Zenon
<1>6. ASSUME NEW w \in Workers, Looks(w) PROVE loc'[u].handle = loc'[u].type
  <2>1. CASE \/ \E from \in {"sel_type", "sel_obj", "sel_tag", "sel_ret"} : Step(w, from, "idle")
             \/ Step(w, "sel_type", "sel_obj") \/ Step(w, "sel_obj", "sel_tag")
    BY <1>2, <2>1, Zenon
  <2>2. CASE /\ Step(w, "sel_tag", "sel_ret") /\ loc'[w].type = loc[w].type
             /\ loc'[w].handle = objects[loc[w].slot].obj
             /\ loc[w].type = "RESERVATION" \/ objects[loc[w].slot].obj # "NULL"
    <3>1. CASE u # w
      BY <2>2, <3>1, Zenon DEF Step, Others, TypedHandles
    <3>2. CASE u = w
      <4>1. PICK s : s = loc[w].slot
        BY Zenon
      <4>2. ~raced /\ pc[w] = "sel_tag" /\ Knows(w) /\ Holds(pc[w], loc[w], alive)
        BY <2>2, Zenon DEF Step, ObjectInv, CallInv, TypeInv, WorkerTypes
      <4>3. s \in Slots /\ objects[s].type \in {loc[w].type, "INVALID"} /\ objects[s].obj # "NULL"
        BY <2>2, <3>2, <4>1, <4>2, Zenon DEF Holds, Knows, Selecting
      <4>4. objects[s].obj = objects[s].type /\ objects[s].type # "INVALID"
        BY <4>2, <4>3, Zenon DEF ObjectInv, EntryInv
      <4> QED  BY <2>2, <3>2, <4>1, <4>3, <4>4, ZenonT(60)
    <3> QED  BY <3>1, <3>2, Zenon
  <2> QED  BY <1>6, <2>1, <2>2, LookEffect, Zenon
<1> QED  BY <1>1, <1>3, <1>4, <1>5, <1>6, NextSteps, Zenon

\* A fault: an index past the end of a table.  The other one, a name found in
\* new_nsobject, is excluded by what the worker knows of the list.
LEMMA FaultStep ==
    ASSUME TypeInv, MemberInv, FaultOnlyWhenFull, [Next]_vars
    PROVE  FaultOnlyWhenFull'
<1> SUFFICES ASSUME ~raced', ~alive'
             PROVE  next_nsobject' > max_nsobjects \/ next_namespace' > max_namespaces
  BY Zenon DEF FaultOnlyWhenFull
<1>1. CASE UNCHANGED vars
  BY <1>1, Zenon DEF vars, FaultOnlyWhenFull
<1>2. ASSUME NEW w \in Workers, NEW from, NEW to, Step(w, from, to), alive' = alive
      PROVE  FALSE
  BY <1>2, Zenon DEF Step
<1>3. ASSUME NEW w \in Workers, Calls(w) PROVE FALSE
  <2>1. PICK to : Step(w, "idle", to)
    BY <1>3, CallEffect, Zenon
  <2>2. alive' = alive
    BY <1>3, CallTypes, Zenon DEF Calls, tables
  <2> QED  BY <1>2, <2>1, <2>2, Zenon
<1>4. ASSUME NEW w \in Workers, Looks(w) PROVE FALSE
  <2>1. PICK from, to : Step(w, from, to)
    BY <1>4, LookEffect, Zenon
  <2>2. alive' = alive
    BY <1>4, CallTypes, ZenonT(60) DEF Looks, tables
  <2> QED  BY <1>2, <2>1, <2>2, Zenon
<1>5. ASSUME NEW w \in Workers, Stores(w) PROVE FALSE
  <2>1. PICK from, to : Step(w, from, to)
    BY <1>5, StoreEffect, Zenon DEF Stores
  <2>2. alive' = alive
    BY <1>5, SetTypes, Zenon DEF Stores
  <2> QED  BY <1>2, <2>1, <2>2, Zenon
<1>6. ASSUME NEW w \in Workers, allocate_nsobject(w) \/ delete_nsobject(w) PROVE FALSE
  <2>1. \/ Step(w, "ins_link", "ins_name")
        \/ Step(w, "del_remove", "del_obj") \/ Step(w, "del_remove", "idle")
    BY <1>6, LinkTypes, DeleteTypes, Zenon
  <2>2. alive' = alive
    BY <1>6, LinkTypes, DeleteTypes, Zenon
  <2> QED  BY <1>2, <2>1, <2>2, Zenon
<1>7. ASSUME NEW w \in Workers, new_nsobject(w) PROVE next_nsobject' > max_nsobjects
  <2>1. Step(w, "ins_new", "ins_link")
    BY <1>7, NewTypes, Zenon
  <2>2. Listed(w) /\ pc[w] = "ins_new"
    BY <2>1, Zenon DEF Step, MemberInv
  <2>3. Free(loc[w].name)
    BY <2>2, FreeNamed, Zenon DEF Listed
  <2>4. next_nsobject' = next_nsobject + 1 /\ next_nsobject >= max_nsobjects
    BY <1>7, <2>3, NewTypes, Zenon
  <2> QED  BY <2>4, TableSizes DEF TypeInv, TableTypes
<1>8. ASSUME NEW w \in Workers, new_namespace(w) \/ allocate_namespace(w) \/ namespace_drop(w)
      PROVE  next_namespace' > max_namespaces
  <2>1. CASE next_namespace' = next_namespace + 1 /\ next_namespace >= max_namespaces
    BY <2>1, TableSizes DEF TypeInv, TableTypes
  <2>2. CASE Step(w, "idle", "idle") /\ alive' = alive
    BY <1>2, <2>2, Zenon
  <2> QED  BY <1>8, <2>1, <2>2, SpaceTypesStep, Zenon
<1> QED  BY <1>1, <1>3, <1>4, <1>5, <1>6, <1>7, <1>8, NextSteps, ZenonT(60) DEF Links

-----------------------------------------------------------------------------
\* What a step may do to an object (ObjectsOnlyAdvance).
Advance == ~raced' => \A s \in Slots :
    LET old == objects[s]  new == objects'[s] IN
    /\ old.obj # "NULL" => new.obj \in {old.obj, "NULL"}
    /\ old.type # new.type => old.type = "RESERVATION" \/ new.type = "INVALID"

\* A handle is stored where there is none, and a type where there is a reservation.
LEMMA ObjectAdvances ==
    ASSUME TypeInv, ObjectInv, [Next]_vars
    PROVE  Advance
<1> SUFFICES ASSUME ~raced' PROVE Advance
  BY Zenon DEF Advance
<1>1. CASE UNCHANGED objects
  BY <1>1, Zenon DEF Advance
<1>2. ASSUME NEW s \in Slots, NEW name, NEW type, NEW obj, Sets(s, name, type, obj),
             objects[s].obj \in {obj, "NULL"} \/ obj = "NULL",
             objects[s].type \in {type, "RESERVATION"} \/ type = "INVALID"
      PROVE  Advance
  BY <1>2, Zenon DEF Advance, Sets
<1>3. ASSUME NEW w \in Workers, Stores(w) PROVE Advance
  <2>1. PICK s : s = loc[w].slot
    BY Zenon
  <2>2. ~raced
    BY <1>3, StoreEffect, Zenon DEF Stores, Step
  <2>3. Knows(w) /\ Holds(pc[w], loc[w], alive)
    BY <2>2, Zenon DEF ObjectInv, CallInv, TypeInv, WorkerTypes
  <2>4. CASE InsertName(w)
    <3>1. pc[w] = "ins_name" /\ Sets(s, loc[w].name, loc[w].type, objects[s].obj)
      BY <2>1, <2>4, StoreEffect, SetsEffect, Zenon DEF Step
    <3>2. s \in Slots /\ objects[s].type = "RESERVATION"
      BY <2>1, <2>3, <3>1, Zenon DEF Knows, Holds, Blank
    <3> QED  BY <1>2, <3>1, <3>2, Zenon
  <2>5. CASE InsertObj(w)
    <3>1. pc[w] = "ins_obj" /\ Sets(s, objects[s].name, objects[s].type, Handle(loc[w].type))
      BY <2>1, <2>5, StoreEffect, SetsEffect, Zenon DEF Step
    <3>2. s \in Slots /\ objects[s].obj = "NULL"
      BY <2>1, <2>3, <3>1, Zenon DEF Knows, Holds
    <3> QED  BY <1>2, <3>1, <3>2, Zenon
  <2>6. CASE UpdateType(w)
    <3>1. pc[w] = "upd_type" /\ Sets(s, objects[s].name, loc[w].type, objects[s].obj)
      BY <2>1, <2>6, StoreEffect, SetsEffect, Zenon DEF Step
    <3>2. s \in Slots /\ objects[s].type = "RESERVATION"
      BY <2>1, <2>3, <3>1, Zenon DEF Knows, Holds
    <3> QED  BY <1>2, <3>1, <3>2, Zenon
  <2>7. CASE UpdateObj(w)
    <3>1. pc[w] = "upd_obj" /\ Sets(s, objects[s].name, objects[s].type, loc[w].type)
      BY <2>1, <2>7, StoreEffect, SetsEffect, Zenon DEF Step
    <3>2. s \in Slots /\ objects[s].obj = "NULL"
      BY <2>1, <2>3, <3>1, Zenon DEF Knows, Holds
    <3> QED  BY <1>2, <3>1, <3>2, Zenon
  <2>8. CASE DeleteObj(w)
    <3>1. pc[w] = "del_obj" /\ Sets(s, objects[s].name, objects[s].type, "NULL")
      BY <2>1, <2>8, StoreEffect, SetsEffect, Zenon DEF Step
    <3>2. s \in Slots
      BY <2>1, <2>3, <3>1, Zenon DEF Holds
    <3> QED  BY <1>2, <3>1, <3>2, Zenon
  <2>9. CASE DeleteType(w)
    <3>1. pc[w] = "del_type" /\ Sets(s, objects[s].name, "INVALID", objects[s].obj)
      BY <2>1, <2>9, StoreEffect, SetsEffect, Zenon DEF Step
    <3>2. s \in Slots
      BY <2>1, <2>3, <3>1, Zenon DEF Holds
    <3> QED  BY <1>2, <3>1, <3>2, Zenon
  <2> QED  BY <1>3, <2>4, <2>5, <2>6, <2>7, <2>8, <2>9, ZenonT(60) DEF Stores
<1>4. ASSUME NEW w \in Workers, delete_nsobject(w), ~UNCHANGED objects PROVE Advance
  <2>1. PICK s : s = loc[w].slot
    BY Zenon
  <2>2. pc[w] = "del_remove" /\ Sets(s, "", objects[s].type, objects[s].obj)
    BY <1>4, <2>1, DeleteTypes, Zenon DEF Step
  <2>3. s \in Slots
    BY <2>1, <2>2, Zenon DEF TypeInv, WorkerTypes, Holds
  <2> QED  BY <1>2, <2>2, <2>3, Zenon
<1>5. ASSUME NEW w \in Workers, Calls(w) \/ Looks(w) PROVE UNCHANGED objects
  BY <1>5, CallTypes, Zenon DEF Calls, Looks, tables
<1>6. ASSUME NEW w \in Workers,
             \/ new_nsobject(w) \/ allocate_nsobject(w)
             \/ new_namespace(w) \/ allocate_namespace(w) \/ namespace_drop(w)
      PROVE  UNCHANGED objects
  BY <1>6, NewTypes, LinkTypes, SpaceTypesStep, Zenon
<1>7. CASE UNCHANGED vars
  BY <1>1, <1>7, Zenon DEF vars
<1> QED  BY <1>1, <1>3, <1>4, <1>5, <1>6, <1>7, NextSteps, ZenonT(60) DEF Links

-----------------------------------------------------------------------------
NamespaceInv == TypeInv /\ OneChanger /\ ObjectInv /\ MemberInv /\ SpaceInv
                /\ TypedHandles /\ FaultOnlyWhenFull

\* The empty namespace that nsd starts with.
LEMMA NamespaceInit == Init => NamespaceInv
<1> SUFFICES ASSUME Init PROVE NamespaceInv
  BY Zenon
<1>1. /\ \A w \in Workers : pc[w] = "idle" /\ loc[w] = NoLocals
      /\ \A s \in Slots : objects[s] = Empty
      /\ members = <<>> /\ spaces = <<>> /\ owned = {} /\ alive = TRUE
  BY Zenon DEF Init
<1>2. /\ Empty \in Object /\ Empty.name = "" /\ Empty.type = "RESERVATION" /\ Empty.obj = "NULL"
  BY Zenon DEF Empty, Object, Types
<1>3. TypeInv
  <2>1. \A w \in Workers : Holds(pc[w], loc[w], alive)
    BY <1>1, Zenon DEF Holds, Selecting
  <2>2. WorkerTypes
    BY <2>1, Zenon DEF WorkerTypes, Init
  <2>3. TableTypes
    <3>1. objects = [s \in Slots |-> Empty] /\ next_nsobject = 0 /\ next_namespace = 0
      BY Zenon DEF Init
    <3>2. objects \in [Slots -> Object]
      BY <1>2, <3>1, Zenon
    <3>3. members \in Seq(Slots)
      BY <1>1
    <3> QED  BY <1>1, <3>1, <3>2, <3>3, Zenon DEF TableTypes
  <2> QED  BY <2>2, <2>3, Zenon DEF TypeInv
<1>4. OneChanger
  BY <1>1, Zenon DEF OneChanger, Changing
<1>5. ObjectInv
  BY <1>1, <1>2, Zenon DEF ObjectInv, EntryInv, CallInv, Knows, Blank
<1>6. DOMAIN members = {} /\ DOMAIN spaces = {} /\ spaces \in Seq({})
  BY <1>1
<1>7. MemberInv
  <2>1. Range(members) = {}
    BY <1>6, Zenon DEF Range
  <2> QED  BY <1>1, <1>6, <2>1, Zenon DEF MemberInv, ListInv, Listed
<1>8. SpaceInv
  BY <1>1, <1>6, Zenon DEF SpaceInv, Creates
<1>9. TypedHandles /\ FaultOnlyWhenFull
  BY <1>1, Zenon DEF TypedHandles, FaultOnlyWhenFull
<1> QED  BY <1>3, <1>4, <1>5, <1>7, <1>8, <1>9, ZenonT(60) DEF NamespaceInv

\* The invariant holds in every state.
LEMMA NamespaceInvariant == Spec => []NamespaceInv
<1>1. NamespaceInv /\ [Next]_vars => NamespaceInv'
  <2> SUFFICES ASSUME NamespaceInv, [Next]_vars PROVE NamespaceInv'
    BY Zenon
  <2>1. TypeInv /\ OneChanger /\ ObjectInv /\ MemberInv /\ SpaceInv /\ TypedHandles /\ FaultOnlyWhenFull
    BY Zenon DEF NamespaceInv
  <2> QED  BY <2>1, TypeStep, ChangerStep, ObjectStep, MemberStep, SpaceStep, HandlesTyped, FaultStep, ZenonT(60)
           DEF NamespaceInv
<1> QED  BY <1>1, NamespaceInit, PTL DEF Spec

\* With one changing call at a time no two objects and no two child namespaces
\* of a namespace have the same name (coinsert.c 69-74, cocreate.c).
THEOREM NamesAreUnique == Spec => []UniqueNames
<1>1. NamespaceInv => UniqueNames
  <2> SUFFICES ASSUME NamespaceInv, ~raced PROVE
        /\ \A i, j \in DOMAIN members :
             objects[members[i]].name = objects[members[j]].name /\ objects[members[i]].name # "" => i = j
        /\ \A i, j \in DOMAIN spaces : spaces[i].name = spaces[j].name => i = j
    BY Zenon DEF UniqueNames
  <2>1. ListInv /\ \A i \in DOMAIN members : members[i] \in Range(members)
    BY Zenon DEF NamespaceInv, MemberInv, Range
  <2>2. ASSUME NEW i \in DOMAIN members, NEW j \in DOMAIN members,
               objects[members[i]].name = objects[members[j]].name, objects[members[i]].name # ""
        PROVE  i = j
    <3>1. members[i] = members[j]
      BY <2>1, <2>2, ZenonT(60) DEF ListInv
    <3> QED  BY <2>1, <3>1, Zenon DEF ListInv
  <2> QED  BY <2>2, Zenon DEF NamespaceInv, SpaceInv
<1> QED  BY <1>1, NamespaceInvariant, PTL

\* When no changing call is under way, the list holds the objects that were
\* inserted and not deleted: none is lost and no deleted one is found
\* (namespace_table.c 168, nsd_crud.c 205-211).
THEOREM NoObjectLost == Spec => []ListIsComplete
<1>1. NamespaceInv => ListIsComplete
  <2> SUFFICES ASSUME NamespaceInv, ~raced, Quiet
               PROVE  Range(members) = {s \in owned : objects[s].type # "INVALID"}
    BY Zenon DEF ListIsComplete
  <2>1. ListInv
    BY Zenon DEF NamespaceInv, MemberInv
  <2>2. \A s : ~Inserted(s) /\ ~Deleted(s)
    BY Zenon DEF Quiet, Inserted, Deleted, Changing
  <2> QED  BY <2>1, <2>2, Zenon DEF ListInv
<1> QED  BY <1>1, NamespaceInvariant, PTL

\* With one changing call at a time, a coselect that asks for a type gets a handle
\* of that type, whatever that call does to the object meanwhile (nsd_lookup.c 78-84, coselect.c 61-66).
THEOREM SelectedHandlesTyped == Spec => []TypedHandles
<1>1. NamespaceInv => TypedHandles
  BY Zenon DEF NamespaceInv
<1> QED  BY <1>1, NamespaceInvariant, PTL

\* With one changing call at a time nsd faults only when a table is full: the
\* result of new_nsobject that coinsert does not look at (coinsert.c 74-85) is
\* an entry otherwise.
THEOREM NsdFaultsOnlyWhenFull == Spec => []FaultOnlyWhenFull
<1>1. NamespaceInv => FaultOnlyWhenFull
  BY Zenon DEF NamespaceInv
<1> QED  BY <1>1, NamespaceInvariant, PTL

\* With one changing call at a time, a step never replaces a type or a handle by
\* another (coupdate.c 69-86).
THEOREM NothingReplaced == Spec => ObjectsOnlyAdvance
<1>1. NamespaceInv /\ [Next]_vars => [Advance]_vars
  BY ObjectAdvances, Zenon DEF NamespaceInv
<1> QED  BY <1>1, NamespaceInvariant, PTL DEF Spec, ObjectsOnlyAdvance, Advance
=============================================================================
