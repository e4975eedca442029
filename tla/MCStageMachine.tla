--------------------------- MODULE MCStageMachine ---------------------------
(* Three stages in sequence: 1 waits for documents; 2 has a gate, returns   *)
(* the project to 1 and reserves stock; 3 has a gate and holds it.  Four    *)
(* stages of the concurrent workflow (seed.concurrent_variant): 2 and 3     *)
(* after 1, 4 after both; 2 advances without an approver.                   *)
EXTENDS StageMachine, TLC

Sequence   == {<<{}, {1}, {2}>>}
Concurrent == {<<{}, {1}, {1}, {2, 3}>>}
Returning  == <<"reopen", "return", "hold">>
BackToOne  == <<1, 1, 1>>
Forked     == <<"reopen", "reopen", "return", "hold">>
BackToTwo  == <<1, 1, 2, 1>>

Requests == Permutations(Req)
=============================================================================
