--------------------------- MODULE MCWorkflowRuns ---------------------------
(* Instances of module WorkflowRuns for TLC.  Solo: one run, in which an   *)
(* approval and a detached tool call may be parked at the same time.       *)
(* Nested: a run, its child, and one step of the child.                    *)
EXTENDS WorkflowRuns, TLC

CONSTANTS r1, r2, e1, e2, e3

SoloRunOf == e1 :> r1 @@ e2 :> r1
SoloParent == r1 :> NoRun
SoloKind == e1 :> "approval" @@ e2 :> "tool"

NestedRunOf == e3 :> r2
NestedParent == r1 :> NoRun @@ r2 :> r1
NestedKind == e3 :> "step"
=============================================================================
