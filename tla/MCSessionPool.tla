---------------------------- MODULE MCSessionPool ----------------------------
(* The instance of SessionPool that TLC checks: the calls are alike. *)
EXTENDS SessionPool, TLC

CallSymmetry == Permutations(Calls)

=============================================================================
