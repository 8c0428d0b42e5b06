--------------------------- MODULE MCPullRequest ---------------------------
(* Instances of PullRequest for TLC: the automatic policy with two suites and *)
(* without CI, the others with one suite or none, and a task that requires    *)
(* review under the automatic policy; some tasks belong to no mission.        *)
EXTENDS PullRequest

Start(t, s, h, m) == [tier |-> t, suites |-> s, held |-> h, mission |-> m]

MCStarts == {Start("auto-threshold", {"build", "test"}, FALSE, TRUE),
             Start("auto-threshold", {}, FALSE, TRUE),
             Start("auto-threshold", {"build"}, TRUE, TRUE),
             Start("auto-threshold", {"build"}, FALSE, FALSE),
             Start("agent-review", {"build"}, FALSE, TRUE),
             Start("approve-only", {}, FALSE, FALSE)}

MCHeld == {Start("auto-threshold", {"build"}, TRUE, TRUE)}
=============================================================================
