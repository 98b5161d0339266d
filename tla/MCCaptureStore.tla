--------------------------- MODULE MCCaptureStore ---------------------------
(* TLC instances of CaptureStore.                                          *)
EXTENDS CaptureStore

MCOneKind ==
    {[method |-> "GET", status |-> 200, url |-> "u1", reqLen |-> 0, respLen |-> 2,
      headers |-> {}]}
=============================================================================
