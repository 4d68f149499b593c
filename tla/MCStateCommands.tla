-------------------------- MODULE MCStateCommands --------------------------
(* Scenarios of three or four commands about one thesis, one list of groups    *)
(* and the screens and universe, each sent more than once.  Two moves at once  *)
(* write the rows of the two groups in opposite orders.                        *)
EXTENDS StateCommands

DB ==
  [theses |-> {[id |-> 1, symbol |-> "A", version |-> 1]},
   conditions |-> {[id |-> <<"c">>, thesis |-> 1, deleted |-> FALSE]},
   groups |-> (1 :> [name |-> "g", order |-> 0, version |-> 1, deleted |-> FALSE, removed |-> FALSE,
                     members |-> ("S" :> 0)]) @@
              (2 :> [name |-> "h", order |-> 1, version |-> 1, deleted |-> FALSE, removed |-> FALSE,
                     members |-> <<>>]),
   screens |-> (1 :> [name |-> "s", version |-> 1, deleted |-> FALSE]),
   universe |-> [version |-> 0, changed |-> <<>>]]

Scenario(cs) == [commands |-> cs, db |-> DB]

MCScenarios ==
  {Scenario(cs) : cs \in
    {{[key |-> "k1", kind |-> "thesis.create", symbol |-> "A"],
      [key |-> "k2", kind |-> "conditions.create", symbol |-> "A", thesis |-> 1, conditions |-> {<<"d">>}],
      [key |-> "k3", kind |-> "condition.delete", condition |-> <<"c">>]},
     {[key |-> "k1", kind |-> "thesis.create", symbol |-> "A"],
      [key |-> "k2", kind |-> "thesis.create", symbol |-> "A"],
      [key |-> "k3", kind |-> "conditions.copy", thesis |-> 11, source |-> 1]},
     {[key |-> "k1", kind |-> "group.create", name |-> "i"],
      [key |-> "k2", kind |-> "group.create", name |-> "j"],
      [key |-> "k3", kind |-> "group.move", group |-> 1, target |-> 5]},
     {[key |-> "k1", kind |-> "group.move", group |-> 1, target |-> 1],
      [key |-> "k2", kind |-> "group.move", group |-> 2, target |-> 1],
      [key |-> "k3", kind |-> "group.remove", group |-> 2]},
     {[key |-> "k1", kind |-> "group.rename", group |-> 1, name |-> "x", version |-> 1],
      [key |-> "k2", kind |-> "group.rename", group |-> 1, name |-> "y", version |-> 1],
      [key |-> "k3", kind |-> "group.remove", group |-> 1],
      [key |-> "k4", kind |-> "group.restore", group |-> 1]},
     {[key |-> "k1", kind |-> "symbol.add", group |-> 1, symbol |-> "T"],
      [key |-> "k2", kind |-> "symbol.add", group |-> 1, symbol |-> "U"],
      [key |-> "k2", kind |-> "symbol.add", group |-> 2, symbol |-> "U"],
      [key |-> "k3", kind |-> "symbol.remove", group |-> 1, symbol |-> "S"]},
     {[key |-> "k1", kind |-> "universe.add", symbol |-> "S", version |-> 0],
      [key |-> "k2", kind |-> "universe.remove", symbol |-> "S", version |-> 0],
      [key |-> "k3", kind |-> "universe.restore", symbol |-> "S", version |-> 1]},
     {[key |-> "k1", kind |-> "screen.create", name |-> "t"],
      [key |-> "k2", kind |-> "screen.duplicate", screen |-> 1],
      [key |-> "k3", kind |-> "screen.rename", screen |-> 1, name |-> "u", version |-> 1],
      [key |-> "k4", kind |-> "screen.remove", screen |-> 1, version |-> 1]}}}
=============================================================================
