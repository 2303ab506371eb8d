--------------------------- MODULE MCStrategyBridge --------------------------
(* A finite instance of StrategyBridge. *)
EXTENDS StrategyBridge, TLC

CONSTANTS A, B, a1, a2, b1, c1, e1

MCChallengeOf == (a1 :> A) @@ (a2 :> A) @@ (b1 :> B)

MCTask(s, n) == [scope |-> s, order |-> n, cost |-> Unknown, benefit |-> Unknown,
                 requires |-> {"model"}]
MCTasks == {MCTask(a1, 1), MCTask(a2, 2), MCTask(b1, 3)}
MCBatches == {{MCTask(a1, 1), MCTask(b1, 3)}, {MCTask(a2, 2)}}

MCPerAttempt == [models |-> 1, tools |-> 1]
MCInTotal == [models |-> 2, tools |-> 1]

Transient == [Classified("transient", "model") EXCEPT !.documented = TRUE]
MCModelFailures == {Transient, Classified("stale_instance", "model"),
                    Classified("ambiguous_submission", "model")}
MCToolFailures == {Classified("configuration", "tool")}

=============================================================================
