------------------------ MODULE MCAdaptiveGovernor ------------------------
(* TLC instance of AdaptiveGovernor: the timers keep the order of the        *)
(* source's, a tick stands for the shortest of them.                         *)
EXTENDS AdaptiveGovernor

MCDwell == [drop |-> 1, emergency |-> 1, intervention |-> 1, warning |-> 1,
            healthy |-> 1, low |-> 1]
MCInterval == [emergency |-> 0, intervention |-> 1, recovery |-> 1]

Heavy(of) == [CalmSample EXCEPT !.live = 2, !.sustained = 2,
                 !.resources = [@ EXCEPT !.primary = of, !.safe = FALSE]]
MCSamples ==
    {CalmSample, Heavy("gpu"), [Heavy("gpu") EXCEPT !.drop = TRUE],
     [CalmSample EXCEPT !.kind = "stale_window"],
     [CalmSample EXCEPT !.kind = "transition"],
     [CalmSample EXCEPT !.low = "correct", !.resources.primary = "gpu"]}
=============================================================================
