--------------------------- MODULE MCConversation ---------------------------
(***************************************************************************)
(* Values for where a human has a say.                                     *)
(***************************************************************************)
EXTENDS HumanSay

(* An approval of the first request, which is refused for good, and one of *)
(* the second with a rival answer and somebody else's; anyone may move the *)
(* HEAD meanwhile.                                                         *)
Response(id, req, disposition, bound) ==
    [id |-> id, req |-> req, disposition |-> disposition, bound |-> bound]

MCRequests == {"q1", "q2"}
RivalResponses ==
    {Response("x1", "q1", "approve_exact", TRUE),
     Response("x2", "q2", "approve_exact", TRUE),
     Response("x3", "q2", "request_revision", TRUE),
     Response("x4", "q2", "decline", FALSE)}

(* Actions of each mode and of each route.                                 *)
Action(id, mode, route) == [id |-> id, mode |-> mode, route |-> route]

Actions ==
    {Action("a", "confirmed", "service"), Action("b", "direct", "capability"),
     Action("c", "proposal_only", "service")}

ASSUME /\ Gate!ResponseAssumption /\ Gate!BoundAssumption /\ Gate!NoResponseAssumption
       /\ Conversation!InputAssumption /\ Conversation!BoundAssumption
=============================================================================
