----------------------------- MODULE MCGateway -----------------------------
(***************************************************************************)
(* An operator q, a player p and a guest g.                                *)
(***************************************************************************)
EXTENDS Gateway

CONSTANTS p, q, g

Quota(ps, qs, gs, version, drops, losses, commands) ==
    [asks |-> (p :> ps @@ q :> qs @@ g :> gs), version |-> version,
     drops |-> drops, losses |-> losses, commands |-> commands]

\* Nobody sits, and q and g find their way to a seat; q and p sit, and g comes when
\* a hand may start; q sits, and p is admitted, sits down and watches; q and p play,
\* and p comes back and loses a connection and an event, or a connection and a
\* command, or comes and goes, with or without a session.
MCStarts ==
    {[sitting |-> <<>>, playing |-> FALSE, quota |-> Quota(0, 2, 2, 5, 0, 0, 0)],
     [sitting |-> <<q, p>>, playing |-> FALSE, quota |-> Quota(0, 0, 2, 5, 0, 0, 0)],
     [sitting |-> <<q>>, playing |-> FALSE, quota |-> Quota(2, 0, 0, 5, 0, 0, 0)],
     [sitting |-> <<q, p>>, playing |-> TRUE, quota |-> Quota(1, 0, 0, 6, 1, 1, 0)],
     [sitting |-> <<q, p>>, playing |-> TRUE, quota |-> Quota(1, 0, 0, 5, 1, 0, 1)],
     [sitting |-> <<q, p>>, playing |-> TRUE, quota |-> Quota(2, 0, 0, 5, 0, 0, 1)]}
============================================================================
