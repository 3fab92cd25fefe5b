---------------------------- MODULE MCCoalition ----------------------------
(***************************************************************************)
(* TLC instance of CoalitionWorkflow: propose, critique, revise, verify.   *)
(***************************************************************************)
EXTENDS CoalitionWorkflow, TLC

CONSTANTS ann, bob, cyd, w1, w2, o1

MCRoles == {"planner", "critic", "verifier"}
MCPhases == <<"propose", "critique", "revise", "verify">>
MCRequired == [propose |-> <<"planner">>, critique |-> <<"critic">>,
               revise |-> <<"planner">>, verify |-> <<"verifier">>]
MCRoleOrder == <<"critic", "planner", "verifier">>
MCAssigned == [planner |-> ann, critic |-> bob, verifier |-> cyd]
MCWorkers == {w1, w2}
MCOutsiders == {o1}
MCSessions == {w1, w2, o1}
=============================================================================
