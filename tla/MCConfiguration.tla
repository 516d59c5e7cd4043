-------------------------- MODULE MCConfiguration --------------------------
EXTENDS Configuration

MCSecret == [s |-> "p", t |-> "r", empty |-> ""]

Production == [user |-> "u", secret |-> "s", cert |-> "c"]
Moved == [user |-> "u", secret |-> "t", cert |-> "c", addr |-> "b"]
Development == [dev |-> TRUE, tls |-> FALSE, pass |-> "p"]

MCEnvironment ==
  [server |-> {<< >>, [pass |-> "q"], [addr |-> "b", secret |-> "t"]},
   cli |-> {<< >>, [pass |-> "q"]}]

MCArguments ==
  [server |-> {<< >>, Production, Moved, Development, [dev |-> TRUE], [tls |-> FALSE],
               [user |-> "v", cert |-> "c"]},
   cli |-> {<< >>, [user |-> "u", secret |-> "s", dir |-> "d"], [user |-> "v"],
            [user |-> "u", secret |-> "t", addr |-> "b"], [addr |-> "default", user |-> "v"],
            [dev |-> TRUE, pass |-> "p"], [dev |-> TRUE, insecure |-> TRUE, dir |-> "e"],
            [user |-> "u", secret |-> "empty"]}]
=============================================================================
