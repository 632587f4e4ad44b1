------------------------------- MODULE Compat -------------------------------
(***************************************************************************)
(* Two versions of a process compared, and one instance moved between them *)
(* (internal/validation/compat.go, changedslots.go, upgrade.go and the     *)
(* upgrade gate of internal/api/handlers_upgrade.go).                      *)
(*                                                                         *)
(* An analysis `sf` is what Generate returns for one version.  An issue    *)
(* names the question it answers and the place it is filed at; a place is  *)
(* a sequence of names.                                                    *)
(***************************************************************************)
EXTENDS Children

(***************************************************************************)
(* What an action leaves behind between two advances.                      *)
(***************************************************************************)
Holds(type) ==
    CASE type = "external" -> {"wait", "timer", "result"}
      [] type \in {"child", "child_map", "child_list"} -> {"wait", "result"}
      [] type = "delay" -> {"timer"}
      [] OTHER -> {}

parksMidTask(type) == "result" \in Holds(type)
holdsAnInstance(type) == Holds(type) # {}

typeChanged(old, new) == actionTypeOf(old) # actionTypeOf(new)

(***************************************************************************)
(* The context an instance holds on entry to a task: no config, and none   *)
(* of what the conditions on the way have proved.                          *)
(***************************************************************************)
taskContexts(sf, input) ==
    LET sc == [sf.sc EXCEPT !.input = input, !.config = <<>>, !.refinements = [id \in DOMAIN @ |-> <<>>]]
    IN  [id \in taskIDs(sc.d) |-> entry(sc, taskNamed(sc.d, id)).s]

TaskContexts(sf) == taskContexts(sf, sf.sc.input)

(***************************************************************************)
(* Issues.                                                                 *)
(***************************************************************************)
Issue(member, address) == [member |-> member, address |-> address]
When(cond, x) == IF cond THEN {x} ELSE {}

addressInput == <<"input">>
addressOutput == <<"output">>
childKeyAddress(id, key) == <<id, "child_map", key>>

fits(old, oldSf, new, newSf, mode) == subsetWith(old, oldSf.sc.defs, new, newSf.sc.defs, mode)

\* The wrapper makes a newly required input and a changed one the same question.
inputObject(sf) ==
    IF Set(sf.sc.input) THEN WithProperty(Type({"object"}), "input", sf.sc.input[1], TRUE) ELSE Type({"object"})

typeChangeIssue(old, new) ==
    When(typeChanged(old, new) /\ holdsAnInstance(actionTypeOf(old)), Issue("upgrade", <<old.id, "action.type">>))

bothActions(old, new) == Set(old.action) /\ Set(new.action)

addedChildKeyIssues(old, new) ==
    IF ~bothActions(old, new) \/ actionTypeOf(old) # "child_map" THEN {}
    ELSE {Issue("upgrade", childKeyAddress(old.id, k)) :
             k \in DOMAIN new.action[1].children \ DOMAIN old.action[1].children}

fetchResultContract(a) == IF a.type # "fetch" \/ a.responses = <<>> THEN <<>> ELSE fetchResultType(a)

\* The declarations compared, each with its place: one per shared key of a map, else one.
Declared(old, new) ==
    LET a == old.action[1]
        b == new.action[1]
        pair(address, x, y) == [address |-> address, old |-> x, new |-> y]
    IN  IF ~bothActions(old, new) THEN {}
        ELSE IF a.type = "child_map"
          THEN {pair(childKeyAddress(old.id, k), a.children[k], b.children[k]) :
                   k \in DOMAIN a.children \cap DOMAIN b.children}
        ELSE {pair(<<old.id, a.type>>, a, b)}

resultContracts(old, new) ==
    LET result(c) == IF actionTypeOf(old) = "fetch" THEN fetchResultContract(c) ELSE c.result_schema
    IN  {[address |-> Append(d.address, "result"), old |-> result(d.old), new |-> result(d.new)] :
            d \in Declared(old, new)}

raiseContracts(old, new) ==
    {[address |-> Append(d.address, "raises"), old |-> d.old.raises, new |-> d.new.raises] : d \in Declared(old, new)}

\* A schema where there was none constrains an answer already on its way, unless it is {}.
declarationBreaks(old, oldDefs, new, newDefs) ==
    Set(new) /\ ~subsetWith(IF Set(old) THEN old[1] ELSE Top, oldDefs, new[1], newDefs, strictMode)

raiseBreaks(old, oldDefs, new, newDefs) ==
    \E c \in DOMAIN old : c \notin DOMAIN new \/ declarationBreaks(old[c], oldDefs, new[c], newDefs)

\* A break is a contract issue and, where an instance parks on the task, an upgrade issue too.
filed(old, addresses) ==
    {Issue(m, a) : m \in {"contract"} \cup When(parksMidTask(actionTypeOf(old)), "upgrade"),
                   a \in addresses}

raiseIssues(old, oldDefs, new, newDefs) ==
    filed(old, {rc.address : rc \in {rc \in raiseContracts(old, new) : raiseBreaks(rc.old, oldDefs, rc.new, newDefs)}})

resultIssues(old, oldDefs, new, newDefs) ==
    filed(old, {rc.address : rc \in {rc \in resultContracts(old, new) :
                                        declarationBreaks(rc.old, oldDefs, rc.new, newDefs)}})
    \cup raiseIssues(old, oldDefs, new, newDefs)

outputBreaks(old, new) ==
    Set(old.output) /\ (~Set(new.output) \/ ~fits(new.output[1], new, old.output[1], old, strictMode))

taskIssues_reversed(old, new, t) ==
    LET nt == taskNamed(new.sc.d, t.id)
        before == taskContexts(old, <<>>)[t.id]
        after == taskContexts(new, <<>>)[t.id]
    IN  IF t.id \notin taskIDs(new.sc.d) THEN {Issue("upgrade", <<t.id>>)}
        ELSE When(~fits(after, new, before, old, storedMode), Issue("upgrade", <<t.id>>))
             \cup IF typeChanged(t, nt) THEN typeChangeIssue(t, nt)
                  ELSE addedChildKeyIssues(t, nt) \cup resultIssues(t, old.sc.defs, nt, new.sc.defs)

taskIssues(old, new, t) ==
    LET nt == taskNamed(new.sc.d, t.id)
        before == taskContexts(old, <<>>)[t.id]
        after == taskContexts(new, <<>>)[t.id]
    IN  IF t.id \notin taskIDs(new.sc.d) THEN {Issue("upgrade", <<t.id>>)}
        ELSE When(~fits(before, old, after, new, storedMode), Issue("upgrade", <<t.id>>))
             \cup IF typeChanged(t, nt) THEN typeChangeIssue(t, nt)
                  ELSE addedChildKeyIssues(t, nt) \cup resultIssues(t, old.sc.defs, nt, new.sc.defs)

issues(old, new) ==
    LET inputs(mode) == fits(inputObject(old), old, inputObject(new), new, mode)
    IN  When(~inputs(storedMode), Issue("upgrade", addressInput))
        \cup When(~inputs(strictMode), Issue("contract", addressInput))
        \cup UNION {taskIssues(old, new, t) : t \in ToSet(old.sc.d.tasks)}
        \cup When(outputBreaks(old, new), Issue("contract", addressOutput))

(***************************************************************************)
(* The edits no issue accounts for.                                        *)
(***************************************************************************)
taskSlots == {"output", "switch", "onError", "onlyOnce", "outputSchema"}
definitionSlots == {"input", "config", "defs", "output", "outputSchema"}
slotLeafName(slot) == IF slot \in {"result_schema", "responses"} THEN "result" ELSE slot

Change(address, affects) == [address |-> address, affects |-> affects]

slotAffects(slot, type) ==
    CASE slot \in {"output", "outputSchema"} -> {"upgrade"}
      [] slot \in {"result_schema", "raises"} -> {"contract"} \cup When(parksMidTask(type), "upgrade")
      [] slot = "responses" -> {"contract"}
      [] OTHER -> {}

definitionSlotAffects(slot) ==
    CASE slot \in {"output", "outputSchema"} -> {"contract"} [] slot = "input" -> {"upgrade", "contract"} [] OTHER -> {}

edited(x, y, slots) == {s \in slots : x[s] # y[s]}

changedChildKeySlots(old, new) ==
    LET a == old.action[1].children
        b == new.action[1].children
        affects(s) == IF s \in {"result_schema", "raises"} THEN {"upgrade", "contract"} ELSE {}
    IN  IF actionTypeOf(old) # "child_map" THEN {}
        ELSE {Change(childKeyAddress(old.id, k), {}) : k \in DOMAIN a \ DOMAIN b}
             \cup UNION {{Change(Append(childKeyAddress(old.id, k), slotLeafName(s)), affects(s)) :
                             s \in edited(a[k], b[k], DOMAIN a[k])} : k \in DOMAIN a \cap DOMAIN b}

changedTaskSlots(old, new) ==
    LET type == actionTypeOf(old) IN
    {Change(<<old.id, s>>, slotAffects(s, type)) : s \in edited(old, new, taskSlots)}
    \cup IF typeChanged(old, new) THEN {Change(<<old.id, "action.type">>, {})}
         ELSE IF ~Set(old.action) THEN {}
         ELSE {Change(<<old.id, type, slotLeafName(s)>>, slotAffects(s, type)) :
                  s \in edited(old.action[1], new.action[1], DOMAIN old.action[1] \ {"children"})}
              \cup changedChildKeySlots(old, new)

reordered(old, new) ==
    LET shared(d, ids) == SelectSeq([i \in DOMAIN d.tasks |-> d.tasks[i].id], LAMBDA id : id \in ids)
    IN  shared(old, taskIDs(new)) # shared(new, taskIDs(old))

changedDefinitionSlots(old, new) ==
    {Change(<<s>>, definitionSlotAffects(s)) : s \in edited(old, new, definitionSlots)}
    \cup When(reordered(old, new), Change(<<"tasks">>, {}))

changes(old, new) ==
    changedDefinitionSlots(old, new)
    \cup UNION {changedTaskSlots(taskNamed(old, id), taskNamed(new, id)) : id \in taskIDs(old) \cap taskIDs(new)}

\* Task order counts: "next" routes by position.
documentsDiffer(old, new) ==
    \/ [i \in DOMAIN old.tasks |-> old.tasks[i].id] # [i \in DOMAIN new.tasks |-> new.tasks[i].id]
    \/ changes(old, new) # {}

accountedFor(changed, found) == {c \in changed : c.address \notin {i.address : i \in found}}

\* The report on one pair of versions.
Compare(old, new) ==
    LET found == issues(old, new)
        clean(m) == \A i \in found : i.member # m
    IN  [issues |-> found, upgrade |-> clean("upgrade"), contract |-> clean("contract"),
         changed |-> accountedFor(changes(old.sc.d, new.sc.d), found),
         added |-> taskIDs(new.sc.d) \ taskIDs(old.sc.d)]

(***************************************************************************)
(* Moving one instance: its state is conformed to the entry context of its *)
(* task, and what it still waits for must be acceptable to the target.     *)
(* Keys the context does not describe are kept.                            *)
(***************************************************************************)
MigrateState(to, task, state) ==
    LET layers == TaskContexts(to)
        moved == Validate(layers[task], to.sc.defs, state, Exactly)
    IN  IF task \notin DOMAIN layers THEN Fail
        ELSE IF moved = Fail THEN Fail
        ELSE Ok(Obj(moved[1].m @@ [k \in DOMAIN state.m \ DOMAIN layers[task].props |-> state.m[k]]))

TypeChangeBreak(from, to) == typeChangeIssue(from, to) # {}

InFlightResultBreaks(from, fromDefs, to, toDefs) ==
    \E i \in resultIssues(from, fromDefs, to, toDefs) : i.member = "upgrade"

\* `waiting` is the phase of the instance, `timed` whether it holds a wake-up time.
inFlightBreak(from, to, task, waiting, timed) ==
    LET old == taskNamed(from.sc.d, task)
        new == taskNamed(to.sc.d, task)
    IN  /\ waiting \/ timed
        /\ {task} \subseteq taskIDs(from.sc.d) \cap taskIDs(to.sc.d)
        /\ Set(old.action)
        /\ \/ TypeChangeBreak(old, new)
           \/ /\ waiting /\ parksMidTask(old.action[1].type)
              /\ InFlightResultBreaks(old, from.sc.defs, new, to.sc.defs)

=============================================================================
