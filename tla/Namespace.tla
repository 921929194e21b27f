----------------------------- MODULE Namespace -----------------------------
(* nsd: the objects and child namespaces of one namespace.  Every handler is  *)
(* run by a pool of workers without a lock; a step here is the code between   *)
(* two accesses to shared memory that another worker can come between.        *)
(* Entries of both tables are claimed by fetch-and-add and never reused.  An  *)
(* access through a NULL or out-of-range entry kills nsd (capability fault).  *)
EXTENDS Integers, Sequences, FiniteSets, Functions

CONSTANTS Workers, Names,
          Handles,         \* object types with a handle: COPORT, COSERVICE, COMMAP
          SpaceTypes,      \* types cocreate may ask for
          max_nsobjects, max_namespaces,
          MaxCalls         \* bound: calls made in all

ASSUME TableSizes == max_nsobjects \in Nat /\ max_namespaces \in Nat
ASSUME HandleTypes == Handles \cap {"RESERVATION", "INVALID", "NULL"} = {}

VARIABLES objects,         \* nsobject_table: name, type and handle of each entry
          next_nsobject, next_namespace,
          members,         \* the namespace's list of objects, newest first
          spaces,          \* its list of namespaces, newest first
          owned,           \* entries whose capability coinsert returned
          alive, raced,    \* raced: two changing calls ever overlapped
          pc, loc, calls

vars == <<objects, next_nsobject, next_namespace, members, spaces, owned,
          alive, raced, pc, loc, calls>>
tables == <<objects, next_nsobject, next_namespace, members, spaces, owned, alive>>

Types == Handles \cup {"RESERVATION"}
Slots == 0 .. max_nsobjects - 1
Empty == [name |-> "", type |-> "RESERVATION", obj |-> "NULL"]  \* all zeroes
NoLocals == [slot |-> -1]

Init == /\ objects = [s \in Slots |-> Empty]
        /\ next_nsobject = 0 /\ next_namespace = 0
        /\ members = <<>> /\ spaces = <<>> /\ owned = {}
        /\ alive = TRUE /\ raced = FALSE
        /\ pc = [w \in Workers |-> "idle"]
        /\ loc = [w \in Workers |-> NoLocals]
        /\ calls = MaxCalls

Changing == {"ins_new", "ins_link", "ins_name", "ins_obj", "upd_type", "upd_obj",
             "del_remove", "del_obj", "del_type", "create", "create_link"}

\* Step of worker w; a call of a changing handler notes whether it overlaps one.
Go(w, from, to, locals) ==
    /\ alive /\ pc[w] = from
    /\ pc' = [pc EXCEPT ![w] = to]
    /\ loc' = [loc EXCEPT ![w] = IF to = "idle" THEN NoLocals ELSE locals]
    /\ calls' = IF from = "idle" THEN calls - 1 ELSE calls
    /\ raced' = (raced \/ /\ from = "idle" /\ to \in Changing
                          /\ \E u \in Workers : pc[u] \in Changing)

-----------------------------------------------------------------------------
\* The first member with that name, or none (-1).
Find(name) ==
    LET hits == {i \in DOMAIN members : objects[members[i]].name = name}
    IN  IF hits = {} THEN -1 ELSE members[CHOOSE i \in hits : \A j \in hits : i <= j]

\* It decides the result: another type, or no handle yet, and nothing is found.
lookup_nsobject(name, type) == LET s == Find(name) IN
    IF s = -1 THEN -1
    ELSE IF objects[s].type # type \/ (type # "RESERVATION" /\ objects[s].obj = "NULL")
    THEN -1 ELSE s

lookup_namespace(name) == {i \in DOMAIN spaces : spaces[i].name = name}

\* Mutant: only namespaces are searched.
in_namespace_spaces(name) == \E i \in DOMAIN spaces : spaces[i].name = name

in_namespace(name) == Find(name) # -1 \/ \E i \in DOMAIN spaces : spaces[i].name = name

new_nsobject_entry(s) == s < max_nsobjects
new_namespace_entry(s) == s < max_namespaces

-----------------------------------------------------------------------------
\* coinsert: look for the name, claim an entry, link it, name it, give it its
\* handle.  LIST_INSERT_HEAD reads the head (with the claim) and stores it.
namespace_object_insert(w) == \E name \in Names, type \in Types :
    /\ calls > 0
    /\ Go(w, "idle", IF in_namespace(name) THEN "idle" ELSE "ins_new",   \* EEXIST
          [slot |-> -1, name |-> name, type |-> type])
    /\ UNCHANGED tables

\* new_nsobject returns NULL for a name found meanwhile; its caller does not
\* look at the result.
new_nsobject(w) ==
    /\ Go(w, "ins_new", "ins_link",
          [slot |-> next_nsobject, name |-> loc[w].name, type |-> loc[w].type, rest |-> members])
    /\ IF lookup_nsobject(loc[w].name, loc[w].type) # -1
       THEN alive' = FALSE /\ UNCHANGED next_nsobject
       ELSE /\ next_nsobject' = next_nsobject + 1
            /\ alive' = new_nsobject_entry(next_nsobject)
    /\ UNCHANGED <<objects, next_namespace, members, spaces, owned>>

allocate_nsobject(w) ==
    /\ Go(w, "ins_link", "ins_name", [k \in {"slot", "name", "type"} |-> loc[w][k]])
    /\ members' = <<loc[w].slot>> \o loc[w].rest
    /\ UNCHANGED <<objects, next_nsobject, next_namespace, spaces, owned, alive>>

InsertName(w) ==
    /\ Go(w, "ins_name", "ins_obj", loc[w])
    /\ objects' = [objects EXCEPT ![loc[w].slot].name = loc[w].name,
                                  ![loc[w].slot].type = loc[w].type]
    /\ UNCHANGED <<next_nsobject, next_namespace, members, spaces, owned, alive>>

InsertObj(w) ==
    /\ Go(w, "ins_obj", "idle", NoLocals)
    /\ objects' = [objects EXCEPT ![loc[w].slot].obj =
                     IF loc[w].type = "RESERVATION" THEN "NULL" ELSE loc[w].type]
    /\ owned' = owned \cup {loc[w].slot}
    /\ UNCHANGED <<next_nsobject, next_namespace, members, spaces, alive>>

-----------------------------------------------------------------------------
\* coupdate of a reservation: test the type, store the type, store the handle.
\* Mutant: the test of the type is dropped.
update_unchecked(w) == \E s \in owned, type \in Handles :
    /\ calls > 0
    /\ Go(w, "idle", "upd_type", [slot |-> s, type |-> type])
    /\ UNCHANGED tables

namespace_object_update(w) == \E s \in owned, type \in Handles :
    /\ calls > 0
    /\ objects[s].type = "RESERVATION"                     \* else ENODEV
    /\ Go(w, "idle", "upd_type", [slot |-> s, type |-> type])
    /\ UNCHANGED tables

UpdateType(w) ==
    /\ Go(w, "upd_type", "upd_obj", loc[w])
    /\ objects' = [objects EXCEPT ![loc[w].slot].type = loc[w].type]
    /\ UNCHANGED <<next_nsobject, next_namespace, members, spaces, owned, alive>>

UpdateObj(w) ==
    /\ Go(w, "upd_obj", "idle", NoLocals)
    /\ objects' = [objects EXCEPT ![loc[w].slot].obj = loc[w].type]
    /\ UNCHANGED <<next_nsobject, next_namespace, members, spaces, owned, alive>>

-----------------------------------------------------------------------------
\* codelete: the name and type of the object must lead back to it.
namespace_object_delete(w) == \E s \in owned :
    /\ calls > 0
    /\ lookup_nsobject(objects[s].name, objects[s].type) = s   \* else ENOENT, EPERM
    /\ Go(w, "idle", "del_remove", [slot |-> s])
    /\ UNCHANGED tables

\* A list without its k-th entry.
LIST_REMOVE(list, k) == SubSeq(list, 1, k - 1) \o SubSeq(list, k + 1, Len(list))

\* Mutant: the member stays in the list.
delete_stays_linked(w) ==
    /\ Go(w, "del_remove", "del_obj", loc[w])
    /\ objects' = [objects EXCEPT ![loc[w].slot].name = ""]
    /\ UNCHANGED <<next_nsobject, next_namespace, members, spaces, owned, alive>>

delete_nsobject(w) == LET s == loc[w].slot IN
    /\ \/ /\ s \in Range(members)
          /\ Go(w, "del_remove", "del_obj", loc[w])
          /\ members' = LIST_REMOVE(members, CHOOSE i \in DOMAIN members : members[i] = s)
          /\ objects' = [objects EXCEPT ![s].name = ""]
       \/ /\ s \notin Range(members)                            \* ENOENT
          /\ Go(w, "del_remove", "idle", NoLocals)
          /\ UNCHANGED <<members, objects>>
    /\ UNCHANGED <<next_nsobject, next_namespace, spaces, owned, alive>>

DeleteObj(w) ==
    /\ Go(w, "del_obj", "del_type", loc[w])
    /\ objects' = [objects EXCEPT ![loc[w].slot].obj = "NULL"]
    /\ UNCHANGED <<next_nsobject, next_namespace, members, spaces, owned, alive>>

DeleteType(w) ==
    /\ Go(w, "del_type", "idle", NoLocals)
    /\ objects' = [objects EXCEPT ![loc[w].slot].type = "INVALID"]
    /\ UNCHANGED <<next_nsobject, next_namespace, members, spaces, owned, alive>>

-----------------------------------------------------------------------------
\* coselect: find the name, then look at the type, at the handle, and at the
\* handle again before the capability is returned.
namespace_object_select(w) == \E name \in Names, type \in Types :
    /\ calls > 0
    /\ Find(name) # -1                                          \* else ENOENT
    /\ Go(w, "idle", "sel_type", [slot |-> Find(name), type |-> type])
    /\ UNCHANGED tables

SelectType(w) ==
    /\ Go(w, "sel_type", IF objects[loc[w].slot].type = loc[w].type THEN "sel_obj" ELSE "idle",
          loc[w])
    /\ UNCHANGED tables

Missing(w) == loc[w].type # "RESERVATION" /\ objects[loc[w].slot].obj = "NULL"

SelectObj(w) == /\ Go(w, "sel_obj", IF Missing(w) THEN "idle" ELSE "sel_tag", loc[w])
                /\ UNCHANGED tables

\* Mutant: the handle is not looked at again.
SelectTagUnchecked(w) ==
    /\ Go(w, "sel_tag", "sel_ret",
          [slot |-> loc[w].slot, type |-> loc[w].type, handle |-> objects[loc[w].slot].obj])
    /\ UNCHANGED tables

SelectTag(w) ==
    /\ Go(w, "sel_tag", IF Missing(w) THEN "idle" ELSE "sel_ret",
          [slot |-> loc[w].slot, type |-> loc[w].type, handle |-> objects[loc[w].slot].obj])
    /\ UNCHANGED tables

SelectReturn(w) == Go(w, "sel_ret", "idle", NoLocals) /\ UNCHANGED tables

-----------------------------------------------------------------------------
\* cocreate: a namespace of that name is returned if its type allows it (no
\* change); otherwise one is made.
namespace_create(w) == \E name \in Names, type \in SpaceTypes :
    /\ calls > 0
    /\ lookup_namespace(name) = {}
    /\ Go(w, "idle", "create", [slot |-> -1, name |-> name, type |-> type])
    /\ UNCHANGED tables

new_namespace(w) ==
    /\ Go(w, "create", "create_link",
          [slot |-> next_namespace, name |-> loc[w].name, type |-> loc[w].type, rest |-> spaces])
    /\ next_namespace' = next_namespace + 1
    /\ alive' = new_namespace_entry(next_namespace)
    /\ UNCHANGED <<objects, next_nsobject, members, spaces, owned>>

allocate_namespace(w) ==
    /\ Go(w, "create_link", "idle", NoLocals)
    /\ spaces' = <<[name |-> loc[w].name, type |-> loc[w].type]>> \o loc[w].rest
    /\ UNCHANGED <<objects, next_nsobject, next_namespace, members, owned, alive>>

\* codrop looks for the namespace among its own children, and finds it nowhere.
children(n) == {}
delete_namespace(n) == n \in children(n)

namespace_drop(w) == \E n \in Range(spaces) :
    /\ calls > 0 /\ Go(w, "idle", "idle", NoLocals)
    /\ spaces' = IF delete_namespace(n)
                 THEN LIST_REMOVE(spaces, CHOOSE i \in DOMAIN spaces : spaces[i] = n) ELSE spaces
    /\ UNCHANGED <<objects, next_nsobject, next_namespace, members, owned, alive>>

-----------------------------------------------------------------------------
Next == \E w \in Workers :
    \/ namespace_object_insert(w) \/ new_nsobject(w) \/ allocate_nsobject(w)
    \/ InsertName(w) \/ InsertObj(w)
    \/ namespace_object_update(w) \/ UpdateType(w) \/ UpdateObj(w)
    \/ namespace_object_delete(w) \/ delete_nsobject(w) \/ DeleteObj(w) \/ DeleteType(w)
    \/ namespace_object_select(w) \/ SelectType(w) \/ SelectObj(w) \/ SelectTag(w)
    \/ SelectReturn(w)
    \/ namespace_create(w) \/ new_namespace(w) \/ allocate_namespace(w) \/ namespace_drop(w)

Spec == Init /\ [][Next]_vars

-----------------------------------------------------------------------------
Quiet == \A w \in Workers : pc[w] \notin Changing

\* With one changing call at a time, whatever coselects run beside it, no two
\* objects of a namespace have the same name, nor two child namespaces: the
\* test in coinsert and the insertion are separate (coinsert.c 69-74).
UniqueNames == ~raced =>
    /\ \A i, j \in DOMAIN members :
         /\ objects[members[i]].name = objects[members[j]].name
         /\ objects[members[i]].name # ""
         => i = j
    /\ \A i, j \in DOMAIN spaces : spaces[i].name = spaces[j].name => i = j

\* Under the same condition an object that coinsert returned stays in the list
\* until a codelete of it, and none other is there: nothing is lost, and no
\* deleted object can be found (namespace_table.c 168, nsd_crud.c 205-211).
ListIsComplete == ~raced /\ Quiet /\ alive =>
    Range(members) = {s \in owned : objects[s].type # "INVALID"}

\* Under the same condition a coselect that asks for a type gets a handle of
\* that type, even when the object is being inserted, updated or deleted while
\* coselect looks at it (nsd_lookup.c 78-84, coselect.c 61-66, coupdate.c 72-80).
TypedHandles == ~raced => \A w \in Workers :
    pc[w] = "sel_ret" /\ loc[w].type # "RESERVATION" => loc[w].handle = loc[w].type

\* Under the same condition nsd can only fault by running out of entries: the
\* unchecked result of new_nsobject (coinsert.c 74-85) is never NULL otherwise.
FaultOnlyWhenFull == ~raced /\ ~alive =>
    next_nsobject > max_nsobjects \/ next_namespace > max_namespaces

\* A reservation gets one type and one handle and then only loses them to
\* codelete: coupdate replaces nothing (coupdate.c 69-86; the comment there
\* expects races, and two overlapping coupdates do replace each other's).
ObjectsOnlyAdvance == [][~raced' => \A s \in Slots :
    LET old == objects[s]  new == objects'[s] IN
    /\ old.obj # "NULL" => new.obj \in {old.obj, "NULL"}
    /\ old.type # new.type => old.type = "RESERVATION" \/ new.type = "INVALID"]_vars
=============================================================================
