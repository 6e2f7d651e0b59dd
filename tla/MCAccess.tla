------------------------------ MODULE MCAccess ------------------------------
(* An admin's token 1 and a client's token 2, and room for the tokens minted from them. *)
(* Two ticks to a second.                                                               *)
EXTENDS Access

MCIds == 1..5
Ask(kind, id, ttl) == [kind |-> kind, id |-> id, ttl |-> ttl]
AskRevoke(target, exp) == [kind |-> "revoke", id |-> 1, target |-> target, exp |-> exp]
MCMenu == {Ask("refresh", 2, 4), Ask("delegate", 1, 2), AskRevoke(2, TRUE), AskRevoke(3, FALSE)}
PassMenu == {Ask("refresh", 2, 4), Ask("delegate", 1, 2), Ask("connect", 2, 0), AskRevoke(2, FALSE)}
SocketMenu == {Ask("refresh", 2, 2), Ask("connect", 2, 0), AskRevoke(2, TRUE)}
OverlapMenu == {Ask("refresh", 2, 4)}
MCSymmetry == Permutations(Handlers)
=============================================================================
