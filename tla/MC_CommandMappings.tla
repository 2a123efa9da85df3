------------------------- MODULE MC_CommandMappings -------------------------
(* One mapping of each kind and one that addMap refuses, with commands     *)
(* that overlap across mappings and within one.                            *)
EXTENDS CommandMappings, TLC

MCCommand == 0..3
MCSubsystem == 0..1
MCRequirements == (0 :> {0}) @@ (1 :> {0, 1}) @@ (2 :> {1}) @@ (3 :> {0})
MCDefaultCommand == (0 :> 0) @@ (1 :> NoCommand)

MCMapping == {"drive", "spin", "beep", "light", "again"}
MCAddMapCalls == <<"drive", "again", "beep", "light", "spin">>
MCKind == [m \in MCMapping |->
  CASE m \in {"drive", "again"} -> "hold"
    [] m = "spin" -> "hold repeat"
    [] m = "beep" -> "press"
    [] m = "light" -> "toggle"]
MCInputs == [m \in MCMapping |->
  CASE m \in {"drive", "again"} -> {"W"}
    [] m = "spin" -> {"left up"}
    [] m = "beep" -> {"W", "F"}
    [] m = "light" -> {"F"}]
MCGivenNegKeys == [m \in MCMapping |->
  IF m \in {"drive", "again", "light"} THEN {"CTRL"} ELSE {}]

\* The repeating mapping's commands exclude each other.
MCMappedCommands == [m \in MCMapping |->
  CASE m = "drive" -> <<1>> [] m = "again" -> <<3>> [] m = "spin" -> <<2, 1>>
    [] m = "beep" -> <<0>> [] m = "light" -> <<3>>]

MCRemoteStates ==
  {{}, {"W"}, {"W", "F"}, {"F"}, {"W", "CTRL"}, {"CTRL"}, {"W", "left up"}, {"F", "CTRL", "left up"}}
=============================================================================
