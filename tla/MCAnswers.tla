----------------------------- MODULE MCAnswers -----------------------------
EXTENDS Answers

Entry(type, agent, task, what) ==
  [type |-> type, agent |-> agent, wt |-> IF agent = None THEN None ELSE "w", task |-> task,
   src |-> IF agent = "a" THEN "hook" ELSE "relay", what |-> what]

Call(agent, task) == Entry("tool.requested", agent, task, "ask")
Change(agent, task, f) == Entry("file.changed", agent, task, f)

MCWork == [s \in Scenes |->
  IF s = "work"
  THEN {Change("a", "t1", "f"), Change("a", "t2", "f"),
        Call("b", None), Change("b", None, "f"), Change("b", "t1", "f")}
  ELSE IF s = "roles"
  THEN {Change("a", "t1", "f"), Change("b", None, "f"), Change("b", None, "g"),
        Entry("agent.role.claimed", "a", None, "ui"), Entry("agent.role.claimed", "b", None, "ui")}
  ELSE IF s = "after"
  THEN {Call("a", "t1"), Change("a", "t1", "f"), Change("b", None, "f"),
        Entry("tool.completed", "a", None, FALSE), Entry("attribution.corrected", "b", "t1", "t2")}
  ELSE {Call("a", "t1"), Change("a", "t1", "f"), Change("b", None, "f")}]
MCMaxActs == [s \in Scenes |-> CASE s = "read" -> 3 [] OTHER -> 4]
MCMaxLate == [s \in Scenes |-> IF s = "work" THEN 1 ELSE 0]
MCMaxTime == [s \in Scenes |-> IF s \in {"after", "read"} THEN 1 ELSE 2]

MCTier(s) == IF s = "hook" THEN "observed" ELSE "session"
MCTarget(tool) == IF tool = "ask" THEN "f" ELSE None
MCRoles == [r \in {"ui"} |-> {"g"}]
=============================================================================
