------------------------------- MODULE MCTree -------------------------------
(* Instances of Tree: a root r with children a and b, of which a may have  *)
(* a child a1, cut to the rows Ids names.                                  *)
EXTENDS Tree, TLC

CONSTANTS r, a, b, a1

ParentOf ==
    [i \in Ids |-> CASE i = r -> NoId
                     [] i = a1 -> a
                     [] OTHER -> r]

StackOf ==
    [i \in Ids |-> CASE i = r -> {}
                     [] i = a1 -> {r, a}
                     [] OTHER -> {r}]

(* settleUp as the code has it: one parent after the other.                *)
RECURSIVE settleLoop(_, _)
settleLoop(rows, k) ==
    LET p == Parent[k]
        active == { s \in Siblings(rows, k) : rows[s].status \notin Terminal }
        woken == IF active # {} THEN rows
                 ELSE [rows EXCEPT ![p].phase =
                         IF rows[p].status \in {"running", "pausing", "paused"}
                         THEN "collecting" ELSE ""]
        settled == [woken EXCEPT
                      ![p].status = SettleDrained(rows[p].status),
                      ![p].phase = IF rows[p].status = "failing" THEN ""
                                   ELSE woken[p].phase]
    IN  IF p = NoId \/ rows[p].phase # "children" THEN rows
        ELSE IF rows[p].status \notin Draining THEN woken
        ELSE IF \E s \in active : rows[s].status \in Busy THEN woken
        ELSE settleLoop(settled, p)

(* The closed form of settleUp is the loop: for every row an advance may   *)
(* save, with every status it may save, with and without the failure       *)
(* marking its ancestors.                                                  *)
SettleUpIsTheLoop ==
    \A k \in Ids \ {Root} : row[k].held # "" =>
      \A s \in Terminal \cup {"paused"} :
        LET saved == Released(k, s, row[k].phase, row[k].tepoch, FALSE)
            failing == PauseTree(FailAncestors(saved, k))
        IN  /\ settleUp(saved, k) = settleLoop(saved, k)
            /\ settleUp(failing, k) = settleLoop(failing, k)
=============================================================================
