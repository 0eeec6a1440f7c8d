------------------------------ MODULE MCResume -----------------------------
(* Runners for TLC: what each of them meets is a question of its own.      *)
EXTENDS Resume

a1 == [id |-> 1, name |-> "t", args |-> "x"]
b1 == [id |-> 1, name |-> "t", args |-> "y"]
b2 == [id |-> 2, name |-> "t", args |-> "y"]
g2 == [id |-> 2, name |-> "ghost", args |-> "x"]

Runner(responses, policy, iterations, tokenBudget, historyBudget, answers, maxDepth, lossy) ==
    [responses |-> responses, tools |-> {"t"}, policy |-> policy, iterations |-> iterations,
     tokenBudget |-> tokenBudget, historyBudget |-> historyBudget, recentResults |-> 1,
     answers |-> answers, maxDepth |-> maxDepth, lossy |-> lossy]

\* A call as it came, and one that is rewritten or denied.
Plainly == [call \in {a1, b1, b2, g2} |-> {call.args}]

Freely == [Plainly EXCEPT ![a1] = {"denied", "y"}]

\* Two calls under one id beside an unknown tool, or two distinct calls, in a
\* store that may lose them.
Crowded == Runner({<<>>, <<a1, b1>>, <<g2>>}, Freely, 3, 3, 5, {"short"}, 0, TRUE)

Paired == Runner({<<>>, <<a1, b2>>}, Freely, 3, 3, 5, {"short"}, 0, TRUE)

\* Of two distinct calls one is denied and one rewritten, over two passes that
\* may be split once or fail.
Compacted ==
    Runner({<<>>, <<a1, b2>>}, [Plainly EXCEPT ![a1] = {"y"}, ![b2] = {"denied"}],
           4, 9, 7, {"short", "error"}, 1, FALSE)

\* Passes as deep as the code splits them, with every failure.
Split == Runner({<<>>, <<a1>>}, Plainly, 4, 5, 5, {"short", "error", "empty"}, 3, FALSE)

MCRunners == {Crowded, Paired, Compacted, Split}

\* A half of the summary is paid for, the other fails: the pass serves nothing.
Failing == {Runner({<<>>, <<a1>>}, Plainly, 3, 9, 5, {"short", "error"}, 1, FALSE)}

\* The summarizer's answer is too long to use: the pass is paid and discarded.
Discarding == {Runner({<<a1>>}, Plainly, 4, 9, 6, {"long"}, 0, FALSE)}
=============================================================================
