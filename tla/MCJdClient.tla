----------------------------- MODULE MCJdClient -----------------------------
(* This device with one service and another with two, of which one is left *)
(* after a restart; two roles of the same class, one with a hint.          *)
EXTENDS JdClient
MCFirst == (0 :> (0 :> 0 @@ 1 :> 1) @@ 1 :> (0 :> 0 @@ 1 :> 1 @@ 2 :> 1))
MCTables == {(0 :> 0 @@ 1 :> 1)}
MCRoleClass == (1 :> 1 @@ 2 :> 1)
MCRoleHint == (1 :> [dev |-> "none", srvo |-> 0] @@ 2 :> [dev |-> "app", srvo |-> 1])
=============================================================================
