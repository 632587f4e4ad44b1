-------------------------------- MODULE Lazy --------------------------------
(***************************************************************************)
(* Keeping large values outside the row is meant to be invisible to a      *)
(* process: with every marker read as the value it stands for, the tree    *)
(* behaves as one whose rows hold everything (specs/lazy-context.md).      *)
(***************************************************************************)
EXTENDS Process, Row

loaded == [k \in DOMAIN inst |-> [inst[k] EXCEPT !.state = Materialize(Obj(@)).m]]

Eager == INSTANCE Process WITH Large <- {}, inst <- loaded

\* Every step of the engine on rows with markers is a step of the engine on whole rows, for
\* definitions that name what they look through where the analysis of roots finds it, and whose url,
\* headers, query and declared slots copy nothing large: no expression, collect or upgrade of such a
\* definition sees whether a value was cut (evaluator.go buildEnv, objectcut.go).  Others do see it: the
\* analysis takes what is placed in a literal for a copy, also where the literal is then read (refs.go),
\* and those slots copy a marker as it is.
Invisible == Eager!Spec
=============================================================================
