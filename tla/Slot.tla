-------------------------------- MODULE Slot --------------------------------
(***************************************************************************)
(* The life of one stored value and of the type registration believes it   *)
(* has: created by a caller and checked at the boundary, computed by a     *)
(* shape, filled into a declared slot, carried to another version by an    *)
(* upgrade.  Each static answer is given before the value it is about is   *)
(* looked at; `broke` records that the value then contradicted it.         *)
(***************************************************************************)
EXTENDS Naturals

\* The operations on a value, as functions (Typing.tla).
CONSTANTS
    Created(_, _),       \* version, document
    Upgraded(_, _, _),   \* type, version, value
    Filled(_, _, _),     \* type, version, value
    Computed(_, _, _),   \* type, shape, value
    IsOf(_, _)           \* whether a type has a value

CONSTANTS
    Versions,   \* the schemas a version may declare for the slot
    Documents,  \* what a caller may send
    Shapes,     \* expressions over `input` whose value replaces the slot's
    MaxMoves    \* bound: the operations after the creation

VARIABLES
    type,    \* the static type of the slot; <<>> before the creation
    val,     \* the stored value; <<>> before the creation
    clean,   \* no operation so far met a case the relation is known to get wrong
    moves,   \* operations so far
    broke    \* the last operation was promised statically and failed on the value

vars == <<type, val, moves, clean, broke>>

Init == type = <<>> /\ val = <<>> /\ moves = 0 /\ clean = TRUE /\ broke = FALSE

\* The slot after an operation that was promised.
Becomes(p) ==
    /\ p # <<>>
    /\ clean' = ~p[1].known
    /\ IF p[1].val = <<>> THEN broke' = TRUE /\ UNCHANGED <<type, val>>
       ELSE broke' = FALSE /\ type' = <<p[1].type>> /\ val' = p[1].val

Stored == type # <<>> /\ ~broke /\ clean /\ moves < MaxMoves

Create(s, doc) == type = <<>> /\ Becomes(Created(s, doc)) /\ UNCHANGED moves
Upgrade(s) == Stored /\ Becomes(Upgraded(type[1], s, val[1])) /\ moves' = moves + 1
Fill(s) == Stored /\ Becomes(Filled(type[1], s, val[1])) /\ moves' = moves + 1
Compute(e) == Stored /\ Becomes(Computed(type[1], e, val[1])) /\ moves' = moves + 1

Next ==
    \/ \E s \in Versions, doc \in Documents : Create(s, doc)
    \/ \E s \in Versions : Upgrade(s) \/ Fill(s)
    \/ \E e \in Shapes : Compute(e)

Spec == Init /\ [][Next]_vars

\* What was said before the value was looked at is true of it: a value of a type that fits a version
\* can be carried to it (compat.go, upgrade.go), one whose type conforms to a declaration can be
\* filled into it (declared.go: a violation is "a defect in genroc's type checking"), and an
\* expression that was typed can be evaluated (infer.go, eval.go).
NeverBroke == clean => ~broke

\* The type registration believes a slot has is a type the stored value has, through every chain of
\* upgrades, fills and computations (conformed.go, infer.go): the next static answer starts from it.
Fits == clean /\ type # <<>> => IsOf(type[1], val[1])

=============================================================================
