--------------------------- MODULE UkernWrappers ---------------------------
(* The calls libcomsg offers.  Each marshals its arguments, makes one call of *)
(* the microkernel and looks at two results: whether the call went through    *)
(* and, if it did, whether the handler refused it.  What a wrapper is here:   *)
(* the function called, and the outcomes on which it ends the process (err)   *)
(* instead of returning an error.                                             *)
(*   args     the wrapper itself rejects an argument                          *)
(*   failed   the call did not go through                                     *)
(*   refused  the handler answered status -1                                  *)
(*   oob      the answer carries attachments                                  *)
Wrapper(f, ends) == [func |-> f, ends |-> ends, then |-> "none"]

coinsert    == Wrapper("COINSERT", {"args"})    \* tests for 0, so a failure gives NULL
coselect    == Wrapper("COSELECT", {"args", "failed"})
codiscover  == Wrapper("CODISCOVER", {"failed", "refused"})
codiscover2 == Wrapper("CODISCOVER2", {"failed", "refused"})
coprovide   == Wrapper("COPROVIDE", {"args", "failed"})
coprovide2  == Wrapper("COPROVIDE2", {"failed"})
cocreate    == Wrapper("COCREATE", {"failed"})
coupdate    == Wrapper("COUPDATE", {"args", "failed"})
codelete    == Wrapper("CODELETE", {"failed"})
codrop      == Wrapper("CODROP", {"failed"})
coopen      == Wrapper("COOPEN", {"failed"})
coclose     == Wrapper("COCLOSE", {"failed"})
cocarrier_send     == Wrapper("COSEND", {"failed"})
cocarrier_send_oob == Wrapper("COSEND", {"failed"})
cocarrier_recv     == Wrapper("CORECV", {"failed", "oob"})
cocarrier_recv_oob == Wrapper("CORECV", {"failed"})
coport_msg_free    == Wrapper("COPORT_MSG_FREE", {"failed"})
ccb_install  == Wrapper("CCB_INSTALL", {"failed"})
ccb_register == Wrapper("CCB_REGISTER", {"failed"})
colisten     == Wrapper("COLISTEN", {"failed"})
coproc_init_done == Wrapper("COPROC_INIT_DONE", {"args", "failed", "refused"})  \* daemons only

\* An answer EWOULDBLOCK to copoll is followed by the slow call.
copoll == [Wrapper("COPOLL", {"failed"}) EXCEPT !.then = "SLOPOLL"]
=============================================================================
