----------------------------- MODULE MCServices -----------------------------
(* Two threads of one process and two providers; the polling service has two  *)
(* workers, every other has one.                                              *)
EXTENDS UkernCalls

MCCalls == {coinsert, copoll, codiscover2, cocarrier_recv}

\* Between them the calls made end the process in every way some wrapper does.
AllCalls == {coinsert, coselect, codiscover, codiscover2, coprovide, coprovide2,
             cocreate, coupdate, codelete, codrop, coopen, coclose, cocarrier_send,
             cocarrier_send_oob, cocarrier_recv, cocarrier_recv_oob, coport_msg_free,
             ccb_install, ccb_register, colisten, coproc_init_done, copoll}

ASSUME CallsRepresentative ==
    \A w \in AllCalls : w.ends \subseteq UNION {c.ends : c \in MCCalls}
=============================================================================
