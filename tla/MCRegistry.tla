----------------------------- MODULE MCRegistry -----------------------------
(***************************************************************************)
(* A caller P and a callee C in contents that agree only in pairs, a C     *)
(* that calls P (a cycle within a batch), and a process that calls itself  *)
(* and, by version, a C.                                                   *)
(***************************************************************************)
EXTENDS Registry

Doc(n, body, refs) == [name |-> n, body |-> body, refs |-> refs]
Calls(n, v) == [name |-> n, version |-> v]

old == Doc("C", "old", <<>>)
new == Doc("C", "new", <<>>)
back == Doc("C", "back", [t |-> Calls("P", 0)])
callsOld == Doc("P", "old", [t |-> Calls("C", 0)])
callsNew == Doc("P", "new", [t |-> Calls("C", 0), own |-> Calls("P", 0)])
callsFirst == Doc("P", "first", [t |-> Calls("C", 1)])
broken == Doc("P", "broken", <<>>)

docs == {old, new, back, callsOld, callsNew, callsFirst, broken}
sound == docs \ {broken}
agree == {<<callsOld, old>>, <<callsNew, new>>, <<callsNew, callsNew>>, <<callsFirst, old>>, <<back, callsOld>>, <<back, callsNew>>}
batches == {{old}, {callsOld}, {callsFirst}, {new, callsNew}, {back, callsOld}, {new, broken}}

symmetry == Permutations(Clients) \cup Permutations(Servers)

=============================================================================
