--------------------------- MODULE MCHubLifecycle ---------------------------
(* Model-checking instance of HubLifecycle: one instrument and two ports, the *)
(* ends of findAvailablePort's two ranges.                                    *)
EXTENDS HubLifecycle, TLC

MCNatsPorts == <<4222, 14222>>

=============================================================================
