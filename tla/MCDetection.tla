---------------------------- MODULE MCDetection -----------------------------
EXTENDS Detection

MCLife == [l \in Lifecycles |->
  [agent |-> <<"agent", l>>, task |-> <<"task", l>>, wt |-> "worktree_" \o l,
   src |-> <<"adapter", l>>]]
ASSUME LivesApart

Write(as, after, f, v) ==
  [as |-> as, bound |-> {TRUE}, after |-> after, writes |-> {<<f, v>>}, reports |-> {f},
   read |-> None, opaque |-> FALSE, dependent |-> FALSE]

MCCall ==
  [a1 |-> Write("a", None, "f", 1),
   a2 |-> [Write("a", "a1", "g", 1) EXCEPT !.read = Symbol("f")],
   a3 |-> [Write("a", "a2", "g", 2) EXCEPT !.dependent = TRUE, !.bound = BOOLEAN, !.reports = {"f", "g"},
             !.writes = {<<"f", 2>>, <<"g", 2>>}],
   b1 |-> Write("b", None, "f", 2)]

MCSignature(v) == v
MCForeign == {<<"f", 3>>}
MCImports == {<<"g", "f">>}
MCCapabilities == {"observedRead", "dependentToken", "exactEffects"}
MCBreaking(old, new) == old # new
=============================================================================
