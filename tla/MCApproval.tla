----------------------------- MODULE MCApproval -----------------------------
(* The stages of MCStageMachine in sequence, and who may approve a stage.  *)
(* The two share no variable, so that every interleaving projects to the    *)
(* same behaviours of each: the bound of this instance is that a behaviour  *)
(* takes steps of one of them.                                              *)
EXTENDS MCStageMachine, Approvers

CONSTANTS manager, u1, u2, pm, staff, stageHead, director

Positions == {stageHead, director}
SeedMap   == (stageHead :> {pm}) @@ (director :> {pm})
Hirings   == (manager :> pm) @@ (u1 :> staff) @@ (u2 :> staff)

ApprovalInit == Init /\ ApproversInit
ApprovalNext == \/ ApproversInit /\ Next /\ UNCHANGED approverVars
                \/ Init /\ ApproversNext /\ UNCHANGED vars
ApprovalSpec == ApprovalInit /\ [][ApprovalNext]_<<vars, approverVars>>

Alike == Permutations({u1, u2})
=============================================================================
