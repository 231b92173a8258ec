---------------------------- MODULE MCSqliteRuns ----------------------------
(* One run on the SQLite store with two approvals, one of them detached,   *)
(* and two callers of resolveSuspend.                                      *)
EXTENDS SqliteRuns, TLC

CONSTANTS r1, e1, e2, c1, c2

SqlRunOf == e1 :> r1 @@ e2 :> r1
SqlParent == r1 :> NoRun
SqlKind == e1 :> "approval" @@ e2 :> "approval"

\* The callers are interchangeable.
SqlSymmetry == Permutations(Callers)
=============================================================================
