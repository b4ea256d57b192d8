------------------------------- MODULE MCHorst -------------------------------
(***************************************************************************)
(* Instances of Horst for TLC: sets of texts and values small enough to    *)
(* enumerate, one of every class the handlers tell apart.                  *)
(***************************************************************************)
EXTENDS Horst

BothTexts     == {"true", "false"}
BoolTexts     == {"true", "FALSE", "maybe"}
OnText        == {"true"}
SpelledTemps  == {"OK", "ok"}
OkTemp        == {"OK"}
LowAndFull    == {29, 300}
FullLevel     == {300}
AdcsDetumb    == {"detumb"}
PayloadAll    == {"payloadConditionsNotFulfilled", "payloadMeasurementDone",
                  "payloadConditionsFulfilled"}
OneCaller     == {"ground"}
Nobody        == {}
Cleared       == {FALSE}
Undefined     == BOOLEAN
Exit(status)  == 256 * status
LeopIsDone    == {Exit(0)}
LeopFailed    == {Exit(127)}
LeopEnds      == {"done", "undeployed"}

=============================================================================
