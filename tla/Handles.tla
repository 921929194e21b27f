------------------------------ MODULE Handles ------------------------------
(* What a capability handed to a client says of the object behind it.  ipcd,  *)
(* coserviced and nsd seal their objects with object types taken from ranges  *)
(* agreed upon by constants in each; libcomsg computes two of ipcd's types    *)
(* itself and learns the third from the first handle it cannot place.  One    *)
(* client process, its handles, and what becomes of the calls it makes.       *)
EXTENDS Integers, Sequences, FiniteSets

UNSEALED == -1
NsTypes == {"ROOT", "APPLICATION", "PRIVATE", "PUBLIC", "LIBRARY"}
ObjTypes == {"RESERVATION", "COSERVICE", "COPORT", "COMMAP"}
CoportTypes == {"COPIPE", "COCHANNEL", "COCARRIER"}

\* make_otypes gives the names consecutive types; base is where the component's
\* range begins in the sealing root capability.
make_otypes(base, names) ==
    [x \in {names[k] : k \in DOMAIN names} |->
        base + (CHOOSE k \in DOMAIN names : names[k] = x) - 1]

setup_ipcd_otypes == make_otypes(32, <<"COPIPE", "COCHANNEL", "COCARRIER">>)
coport_ipc_utils_init == make_otypes(32, <<"COPIPE", "COCHANNEL">>)
setup_coserviced_otypes == make_otypes(64, <<"ENDPOINT">>)
setup_otypes == make_otypes(96, <<"ROOT", "APPLICATION", "PRIVATE", "PUBLIC", "LIBRARY",
                                  "RESERVATION", "COSERVICE", "COPORT", "COMMAP">>)

Cap(kind, type) == [kind |-> kind, type |-> type, otype |-> UNSEALED]

\* ipcd
seal_coport(c) == IF c.otype # UNSEALED THEN c
                  ELSE [c EXCEPT !.otype = setup_ipcd_otypes[c.type]]
unseal_coport(c) == [c EXCEPT !.otype = UNSEALED]
valid_coport(c) == c.kind = "coport" /\ unseal_coport(c).type \in CoportTypes
valid_cocarrier(c) == valid_coport(c) /\ c.otype = setup_ipcd_otypes["COCARRIER"]

\* coserviced
create_coservice_handle(c) == [c EXCEPT !.otype = setup_coserviced_otypes["ENDPOINT"]]
is_valid_endpoint(c) == c.otype = setup_coserviced_otypes["ENDPOINT"]
in_table(c) == c.kind = "coservice"
unseal_endpoint(c) == IF c.otype = UNSEALED THEN {c}
                      ELSE {[x EXCEPT !.otype = UNSEALED] : x \in {y \in {c} : is_valid_endpoint(y)}}

\* codiscover is given the name's object, codiscover2 the service itself.
validate_codiscover_args(c) == c.otype = UNSEALED /\ c.type = "COSERVICE"
validate_codiscover2_args(c) == c.otype = UNSEALED /\ in_table(c)

\* nsd: the type of a sealed capability is found from its object type, that of
\* an unsealed one in the object.
get_ns_sealcap(type) == setup_otypes[type]
get_ns_unsealcap(type) == setup_otypes[type]
get_nsobj_sealcap(type) == setup_otypes[type]
get_nsobj_unsealcap(type) == setup_otypes[type]
ns_otype_to_type(otype) == {y \in NsTypes : setup_otypes[y] = otype}
nsobj_otype_to_type(otype) == {y \in ObjTypes : setup_otypes[y] = otype}
get_ns_type(c) == IF c.otype = UNSEALED THEN {c.type} \cap NsTypes ELSE ns_otype_to_type(c.otype)
get_nsobject_type(c) ==
    IF c.otype = UNSEALED THEN {c.type} \cap ObjTypes ELSE nsobj_otype_to_type(c.otype)

seal_ns(c) == [c EXCEPT !.otype = get_ns_sealcap(c.type)]
make_ns_handle(c) == seal_ns(c)
seal_nsobj(c) == [c EXCEPT !.otype = get_nsobj_sealcap(c.type)]
make_nsobj_handle(c) == IF c.type = "RESERVATION" THEN seal_nsobj(c) ELSE c

\* Unsealing needs the key of the capability's own type; {} stands for NULL.
Unsealed(c, key) == IF key = c.otype THEN [c EXCEPT !.otype = UNSEALED] ELSE Cap("fault", c.type)
unseal_ns(c) == IF c.otype = UNSEALED THEN {c}
                ELSE {Unsealed(c, get_ns_unsealcap(y)) : y \in get_ns_type(c)}
unseal_nsobj(c) == IF c.otype = UNSEALED THEN {c}
                   ELSE {Unsealed(c, get_nsobj_unsealcap(y)) : y \in get_nsobject_type(c)}

in_ns_table(c) == c.kind = "ns"
in_nsobject_table(c) == c.kind = "nsobj"
valid_namespace_cap(c) == in_ns_table(c) /\ get_ns_type(c) # {}
valid_nsobject_cap(c) == in_nsobject_table(c) /\ get_nsobject_type(c) # {}
valid_reservation_cap(c) ==
    c.otype # UNSEALED /\ get_nsobject_type(c) = {"RESERVATION"} /\ valid_nsobject_cap(c)

Coports == {seal_coport(Cap("coport", y)) : y \in CoportTypes}
Others == {make_ns_handle(Cap("ns", y)) : y \in NsTypes}
          \cup {make_nsobj_handle(Cap("nsobj", y)) : y \in ObjTypes}
          \cup {create_coservice_handle(Cap("endpoint", "ENDPOINT")),
                Cap("coservice", "SERVICE"), Cap("coevent", "COEVENT")}

\* ipcd's checks of what it is handed with a call.  args says of the message
\* "long" (more than COCARRIER_MAX_MSG_LEN); an attachment has a type and an item.
Null == Cap("null", "NULL")
validate_cosend_args(c, args) == args # "long" /\ valid_cocarrier(c)
validate_corecv_args(c) == valid_cocarrier(c)
validate_comsg_free_args(c) == valid_coport(c)

clear_attachment == [type |-> "INVALID", item |-> Null]

\* Attachments are copied; what fails the check of its type is cleared.
handle_attachments(attachments) == [k \in DOMAIN attachments |->
    LET a == attachments[k] IN
    CASE a.type = "COPORT" -> IF valid_cocarrier(a.item) THEN a ELSE clear_attachment
      [] a.type = "RESERVATION" -> a
      [] a.type = "COEVENT" -> IF a.item # Null THEN a ELSE clear_attachment
      [] OTHER -> clear_attachment]

coport_send(c) == IF unseal_coport(c).type = "COCARRIER" THEN "ipcd" ELSE "ENOSYS"
coport_recv(c) == IF unseal_coport(c).type = "COCARRIER" THEN "ipcd" ELSE "ENOSYS"

-----------------------------------------------------------------------------
VARIABLES cocarrier_otype,  \* learned by this process; 0 before
          held,             \* its handles
          ran,              \* the last call: operation, handle, who served it
          mail, received,   \* attachments on their way (one message); last received
          misused           \* history: a handle was given a type that is not its own

handleVars == <<cocarrier_otype, held, ran, mail, received, misused>>
HandlesInit == cocarrier_otype = 0 /\ held = Others /\ ran = <<>> /\ misused = FALSE
               /\ mail = <<>> /\ received = <<>>

IPCD_OTYPE_RANGE == 32 .. 63

\* libcomsg's view of a handle.
coport_gettype(c) ==
    IF c.otype = UNSEALED THEN "INVALID_COPORT"
    ELSE IF c.otype = cocarrier_otype THEN "COCARRIER"
    ELSE IF c.otype = coport_ipc_utils_init["COCHANNEL"] THEN "COCHANNEL"
    ELSE IF c.otype = coport_ipc_utils_init["COPIPE"] THEN "COPIPE"
    ELSE IF cocarrier_otype = 0 /\ c.otype \in IPCD_OTYPE_RANGE THEN "COCARRIER"
    ELSE "INVALID_COPORT"

\* Looking at an unplaced handle of that range fixes the cocarriers' type.
Learn(c) == cocarrier_otype' = IF cocarrier_otype = 0 /\ coport_gettype(c) = "COCARRIER"
                               THEN c.otype ELSE cocarrier_otype

\* Mutant: the switch on the type is lost and every handle tells it.
process_any_handle(c, type) ==
    cocarrier_otype' = IF cocarrier_otype = 0 THEN c.otype ELSE cocarrier_otype

\* ipcd's handles come sealed; only a cocarrier's tells libcomsg something.
process_coport_handle(c, type) ==
    cocarrier_otype' = IF type = "COCARRIER" /\ cocarrier_otype = 0 THEN c.otype ELSE cocarrier_otype

open_coport(type) == LET c == seal_coport(Cap("coport", type)) IN
    /\ process_coport_handle(c, type)
    /\ held' = held \cup {c} /\ ran' = <<>> /\ UNCHANGED <<mail, received, misused>>

\* When the name cannot be inserted the port is closed again.
open_named_coport(type) == \E inserted \in BOOLEAN :
    LET c == seal_coport(Cap("coport", type)) IN
    /\ process_coport_handle(c, type)
    /\ held' = IF inserted THEN held \cup {c} ELSE held
    /\ ran' = IF inserted THEN <<>>
              ELSE <<"coclose", c, IF valid_coport(c) THEN "ipcd" ELSE "EINVAL", "ok">>
    /\ UNCHANGED <<mail, received, misused>>

\* A handle found by its name.
SelectCoport(c) == /\ held' = held \cup {c} /\ ran' = <<>>
                   /\ UNCHANGED <<cocarrier_otype, mail, received, misused>>

set_coport_handle_type(c, type) ==
    /\ c.kind = "coport" /\ process_coport_handle(c, type)
    /\ misused' = (misused \/ type # c.type) /\ ran' = <<>> /\ UNCHANGED <<held, mail, received>>

\* setup_cinvoke_targets seals each entry point with the type of the ports it
\* is for; invoking it with another port's handle faults.
setup_cinvoke_targets == [copipe |-> coport_ipc_utils_init["COPIPE"],
                          cochannel |-> coport_ipc_utils_init["COCHANNEL"]]

\* args says of the buffer and its length: "zero" (a length of 0), "short" (the
\* buffer is shorter than the length) or "ok".
validate_coport_op_args(args) == CASE args = "zero" -> {"EINVAL"}
                                   [] args = "short" -> {"ENOBUFS"} [] OTHER -> {}

\* Entered directly (RISC-V), the code is that of the entry point; by the
\* trampoline (elsewhere), that of the port's own type.
ByType(c) == CASE c.type = "COPIPE" -> {"copipe"} [] c.type = "COCHANNEL" -> {"cochannel"}
               [] OTHER -> {"EINVAL"}
Checked(args, served) == IF validate_coport_op_args(args) # {} THEN validate_coport_op_args(args)
                         ELSE served
cosend_impl(c, args) == Checked(args, ByType(c))
corecv_impl(c, args) == Checked(args, ByType(c))
cosend_impl_copipe(args) == Checked(args, {"copipe"})
corecv_impl_copipe(args) == Checked(args, {"copipe"})
cosend_impl_cochannel(args) == Checked(args, {"cochannel"})
corecv_impl_cochannel(args) == Checked(args, {"cochannel"})
coport_cinvoke_trampoline_landing(c, args, op) ==
    IF op = "cosend" THEN cosend_impl(c, args) ELSE corecv_impl(c, args)

Serve(c, op, args, by) ==
    /\ Learn(c) /\ ran' = <<op, c, by, args>> /\ UNCHANGED <<held, mail, received, misused>>
Invoke(c, entry, op, args, direct) == \E by \in
        IF args = "zero" THEN {"EINVAL"}
        ELSE IF setup_cinvoke_targets[entry] # c.otype THEN {"fault"}
        ELSE direct \cup coport_cinvoke_trampoline_landing(c, args, op) :
    Serve(c, op, args, by)
SendTo(c, args) == IF validate_cosend_args(c, args) THEN coport_send(c) ELSE "EINVAL"
RecvFrom(c) == IF validate_corecv_args(c) THEN coport_recv(c) ELSE "EINVAL"

\* cosend and corecv dispatch on libcomsg's view of the handle; a cocarrier's
\* length is a hint and is not looked at here.
cosend(c, args) ==
    \/ /\ coport_gettype(c) = "COCHANNEL"
       /\ Invoke(c, "cochannel", "cosend", args, cosend_impl_cochannel(args))
    \/ /\ coport_gettype(c) = "COPIPE"
       /\ Invoke(c, "copipe", "cosend", args, cosend_impl_copipe(args))
    \/ coport_gettype(c) = "COCARRIER" /\ Serve(c, "cosend", args, SendTo(c, args))
    \/ coport_gettype(c) = "INVALID_COPORT" /\ Serve(c, "cosend", args, "EINVAL")

corecv(c, args) ==
    \/ /\ coport_gettype(c) = "COCHANNEL"
       /\ Invoke(c, "cochannel", "corecv", args, corecv_impl_cochannel(args))
    \/ /\ coport_gettype(c) = "COPIPE"
       /\ Invoke(c, "copipe", "corecv", args, corecv_impl_copipe(args))
    \/ coport_gettype(c) = "COCARRIER" /\ Serve(c, "corecv", args, RecvFrom(c))
    \/ coport_gettype(c) = "INVALID_COPORT" /\ Serve(c, "corecv", args, "EINVAL")

\* What a client attaches is labelled for what it is, or is nothing.
Attachments ==
    {[type |-> "COPORT", item |-> c] : c \in {h \in held : h.kind = "coport"}}
    \cup {[type |-> "RESERVATION", item |-> c] : c \in {h \in held : h.type = "RESERVATION"}}
    \cup {[type |-> "COEVENT", item |-> c] : c \in {h \in held : h.kind = "coevent"} \cup {Null}}

cosend_oob(c) ==
    \/ coport_gettype(c) \in {"COPIPE", "COCHANNEL"} /\ Serve(c, "cosend_oob", "ok", "EOPNOTSUPP")
    \/ /\ coport_gettype(c) = "COCARRIER" /\ mail = <<>>
       /\ \E a \in Attachments :
            mail' = IF SendTo(c, "ok") = "ipcd" THEN handle_attachments(<<a>>) ELSE mail
       /\ Learn(c) /\ ran' = <<"cosend_oob", c, SendTo(c, "ok"), "ok">>
       /\ UNCHANGED <<held, received, misused>>
    \/ coport_gettype(c) = "INVALID_COPORT" /\ Serve(c, "cosend_oob", "ok", "EINVAL")

corecv_oob(c) ==
    \/ coport_gettype(c) \in {"COPIPE", "COCHANNEL"} /\ Serve(c, "corecv_oob", "ok", "EOPNOTSUPP")
    \/ /\ coport_gettype(c) = "COCARRIER"
       /\ IF RecvFrom(c) = "ipcd"
          THEN /\ received' = mail /\ mail' = <<>>
               /\ held' = (held \cup {mail[k].item : k \in DOMAIN mail}) \ {Null}
          ELSE UNCHANGED <<received, mail, held>>
       /\ Learn(c) /\ ran' = <<"corecv_oob", c, RecvFrom(c), "ok">> /\ UNCHANGED misused
    \/ coport_gettype(c) = "INVALID_COPORT" /\ Serve(c, "corecv_oob", "ok", "EINVAL")

\* The checks at the head of the daemons' handlers.  (codiscover's looks into
\* what it is given, and coport_msg_free's unseals it, before testing it.)
Present(c) == \E check \in {"ns", "nsobj", "reservation", "endpoint", "codiscover", "coservice"}
                    \cup (IF c.kind = "coport" THEN {"coport"} ELSE {}) :
    LET ok == CASE check = "ns" -> valid_namespace_cap(c)
                [] check = "nsobj" -> valid_nsobject_cap(c)
                [] check = "reservation" -> valid_reservation_cap(c)
                [] check = "endpoint" -> is_valid_endpoint(c)
                [] check = "codiscover" -> validate_codiscover_args(c)
                [] check = "coservice" -> validate_codiscover2_args(c)
                [] check = "coport" -> validate_comsg_free_args(c)
    IN /\ check = "codiscover" => c.otype = UNSEALED
       /\ ran' = <<check, c, IF ok THEN "accepted" ELSE "EINVAL", "ok">>
       /\ UNCHANGED <<cocarrier_otype, held, mail, received, misused>>

\* One call at a time; its result is there until it returned.
Returned == ran # <<>> /\ ran' = <<>> /\ UNCHANGED <<cocarrier_otype, held, mail, received, misused>>

HandlesNext ==
    \/ Returned
    \/ /\ ran = <<>>
       /\ \/ \E y \in CoportTypes : open_coport(y) \/ open_named_coport(y)
          \/ \E c \in Coports : SelectCoport(c)
          \/ \E c \in held :
               \/ \E y \in CoportTypes : set_coport_handle_type(c, y)
               \/ \E args \in {"ok", "zero", "short", "long"} : cosend(c, args) \/ corecv(c, args)
               \/ cosend_oob(c) \/ corecv_oob(c) \/ Present(c)

-----------------------------------------------------------------------------
\* Whatever the order in which handles come in and are used, and although
\* libcomsg guesses the cocarriers' type from the first handle it sees:
\* every call is served by the code for the type of the object that the daemon
\* sealed, and no handle of one daemon passes for another's
\* (coport_ipc_utils.c 77-99, ipcd_cap.c 74-96, nsd_cap.c 285-336).
\* A coport received as an attachment is a cocarrier (cosend.c 83-126).
\* Excepted is a process that gave a handle a wrong type by
\* set_coport_handle_type.  Unsealing gives back what was sealed.
HandlesRouted ==
    /\ ran # <<>> => LET c == ran[2]  by == ran[3] IN
        /\ by = "copipe" => c.type = "COPIPE"
        /\ by = "cochannel" => c.type = "COCHANNEL"
        /\ by = "ipcd" /\ ran[1] # "coclose" => c.type = "COCARRIER"
        /\ by = "accepted" => \/ ran[1] = c.kind
                              \/ ran[1] = "reservation" /\ c.type = "RESERVATION"
                              \/ ran[1] = "codiscover" /\ c.kind = "nsobj"
        /\ ~misused => by # "fault" /\ (c.kind = "coport" /\ ran[4] = "ok" /\ by = "EINVAL" =>
                                        ran[1] \notin {"cosend", "corecv", "cosend_oob", "corecv_oob"})
    /\ \A k \in DOMAIN received : LET a == received[k] IN
        /\ a.type = "COPORT" => a.item.type = "COCARRIER" /\ valid_cocarrier(a.item)
        /\ a.type = "COEVENT" => a.item.kind = "coevent"
    /\ ~misused => \A c \in held :
        coport_gettype(c) = IF c.kind = "coport" THEN c.type ELSE "INVALID_COPORT"
    /\ \A y \in NsTypes : unseal_ns(make_ns_handle(Cap("ns", y))) = {Cap("ns", y)}
    /\ \A y \in ObjTypes : unseal_nsobj(make_nsobj_handle(Cap("nsobj", y))) = {Cap("nsobj", y)}
    /\ \A c \in Others : c.kind = "endpoint" => unseal_endpoint(c) = {Cap("endpoint", "ENDPOINT")}
    /\ \A c \in Coports : unseal_coport(c) = Cap("coport", c.type)
=============================================================================
