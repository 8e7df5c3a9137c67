---------------------------- MODULE MCEvaluations ----------------------------
(***************************************************************************)
(* Small instances of Evaluations: two reads and an update of one caller   *)
(* beside a read of the host; and reads of two callers and the host.       *)
(***************************************************************************)
EXTENDS Evaluations, TLC

CONSTANTS a1, a2, b1, u, h, alice, bob

(* alice's capabilities but for h's, which may use the reserve; b1 is       *)
(* anonymous where bob stands for the callers without a principal.         *)
MCCapability ==
  LET holds(principal, reserve) == [principal |-> principal, reserve |-> reserve]
  IN  a1 :> holds(alice, FALSE) @@ a2 :> holds(alice, FALSE) @@ u :> holds(alice, FALSE)
      @@ b1 :> holds(bob, FALSE) @@ h :> holds(alice, TRUE)

CallerOfRequests == [r \in Requests |-> CallerFor(MCCapability[r])]
=============================================================================
