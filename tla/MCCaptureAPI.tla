---------------------------- MODULE MCCaptureAPI ----------------------------
(* TLC instances of CaptureAPI.                                            *)
EXTENDS CaptureAPI

(* Two exchanges that differ in every field a filter or the byte counter   *)
(* looks at; the second one's request body was skipped, and its URL cannot *)
(* be replayed.                                                            *)
MCKinds ==
    {[method |-> "GET",  status |-> 200, url |-> "u1", reqLen |-> 0,   respLen |-> 2,
      headers |-> {"authorization", "connection", "accept"}],
     [method |-> "POST", status |-> 500, url |-> "u2", reqLen |-> Nil, respLen |-> 1,
      headers |-> {}]}

(* Every single filter, on its own and on a page; pages up to and past the *)
(* end, and every way to write no filter.                                  *)
MCRawQueries ==
    {[f EXCEPT !.limit = p, !.offset = p] :
        f \in {NoQuery,
               [NoQuery EXCEPT !.since = 2],
               [NoQuery EXCEPT !.method = "GET"],
               [NoQuery EXCEPT !.status = 500],
               [NoQuery EXCEPT !.url = "u2"]},
        p \in {Absent, 1}}
    \cup {[NoQuery EXCEPT !.status = Unparsable, !.limit = Unparsable, !.offset = -1],
          [NoQuery EXCEPT !.since = Unparsable, !.status = -1, !.limit = 2],
          [NoQuery EXCEPT !.offset = Unparsable, !.limit = -1],
          [NoQuery EXCEPT !.limit = 1], [NoQuery EXCEPT !.offset = 1],
          [NoQuery EXCEPT !.offset = 3], [NoQuery EXCEPT !.offset = 2, !.limit = 2]}
=============================================================================
