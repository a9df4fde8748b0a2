---------------------------- MODULE MCDashboard -----------------------------
(* Small dashboards for TLC.                                               *)
EXTENDS Dashboard

CONSTANTS example, p1, c1, c2

MCPage == {p1}
MCConn == {c1, c2}
MCName == {example}

=============================================================================
