------------------------------ MODULE MCMission ------------------------------
(* Instances of Mission for TLC. *)
EXTENDS MCHorst, Mission

\* The one call in enter_manualmode.sh is taken to succeed.
AllButManual   == Kind \ {"EnterManualMode"}
OffText        == {"false"}
LeopUndeployed == {Exit(1)}

=============================================================================
