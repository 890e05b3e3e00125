--------------------------- MODULE MCProtothreads ---------------------------
(* Instances of Protothreads for TLC.                                      *)
EXTENDS Protothreads

AllUses == {"timer", "stop", "post", "start", "exit", "exit other", "exit owner"}
=============================================================================
