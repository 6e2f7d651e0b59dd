-------------------------- MODULE MCCoalescedScan --------------------------
(* Filtered and sorted requests, over a collection of up to three documents and a second one. *)
EXTENDS CoalescedScan, TLC

CONSTANTS a, b
Ask(kind, col, want, need, up) == [kind |-> kind, col |-> col, want |-> want, need |-> need, up |-> up]
MCRequests == {Ask("filtered", a, {0, 1}, 2, FALSE), Ask("sorted", a, {0, 1, 2}, 2, FALSE),
               Ask("filtered", b, {1}, 1, TRUE)}
MCStarts == {(a :> <<1, 2, 1>>) @@ (b :> <<1>>), (a :> <<2>>) @@ (b :> NoCol)}
MCBatches == {(2 :> 1) @@ (3 :> 1), (1 :> 0) @@ (2 :> 1)}
=============================================================================
