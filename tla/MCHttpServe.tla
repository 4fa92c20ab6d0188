---------------------------- MODULE MCHttpServe ----------------------------
(* Small instances of HttpServe: a body beyond the limit, and one of       *)
(* exactly the limit whose client may stall.                               *)
EXTENDS HttpServe

CONSTANTS large, stalled

BodySize == [r \in Requests |-> IF r = large THEN 4 ELSE 2]
=============================================================================
