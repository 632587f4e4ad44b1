----------------------------- MODULE MCExternal -----------------------------
(* Instances of External: an only_once external task, an ordinary one and  *)
(* a task of another kind.                                                 *)
EXTENDS External

CONSTANTS once, wait, other, w1, w2
=============================================================================
