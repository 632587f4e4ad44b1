----------------------------- MODULE MCStore -----------------------------
(* Small instances of Store for TLC.                                       *)
EXTENDS Store

(* Every log row is about the same instance.                               *)
OneSubject == [l \in Logs |-> CHOOSE i \in Instances : TRUE]
==========================================================================
