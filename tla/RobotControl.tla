---------------------------- MODULE RobotControl ----------------------------
(***************************************************************************)
(* The main loop of the robot: it reads the remote, turns sticks and       *)
(* switches into speeds through global variables that outlive an iteration *)
(* and, when the 2 ms timer is due, hands the speeds to the motors and     *)
(* sends the four CAN frames that carry them.  The remote is reduced to    *)
(* what read() leaves behind, the motors to the speed in the last frame    *)
(* that bus 1 accepted; bus 2, with vertical gimbal and turret, is fed by  *)
(* the same code.  An iteration is one step: no interrupt handler touches  *)
(* its variables.                                                          *)
(*                                                                         *)
(* A stick position x stands for the ratio x / StickMax; a value assigned  *)
(* to an int is truncated towards zero, the rounding of floats is left out.*)
(***************************************************************************)
EXTENDS Integers

CONSTANTS
  StickMax,     \* STICK_MAX_VALUE
  Packet        \* what the packets of the remote are parsed to

Switch == {"UP", "MID", "DOWN", "UNKNOWN"}

ASSUME StickMaxType == StickMax \in Nat \ {0}
ASSUME PacketType ==
  Packet \subseteq [rightHoriz : Int, rightVert : Int, leftHoriz : Int, leftVert : Int,
                    left : Switch, right : Switch]

VARIABLES
  connected,
  remote,      \* the remote's channels and switches
  MAX_RPM, CURR_RPM, GH_RPM, GV_RPM, LEFT_RAIL_RPM, RIGHT_RAIL_RPM,
  LOAD_RPM, FEED_RPM, TURRET_RPM,
  percent_LR, percent_RR,   \* in units of 1 / (2 * StickMax)
  mode, GIMBAL_OVERRIDE,
  driven,      \* speed each motor was last told over its bus
  settled      \* the two frames of bus 1 that were last sent were both accepted
rpms == <<MAX_RPM, CURR_RPM, GH_RPM, GV_RPM, LEFT_RAIL_RPM, RIGHT_RAIL_RPM,
          LOAD_RPM, FEED_RPM, TURRET_RPM, percent_LR, percent_RR, mode, GIMBAL_OVERRIDE>>
vars == <<connected, remote, rpms, driven, settled>>

DESIRED_RPM == 12000
GIMBAL_RPM == 12000

Released == [rightHoriz |-> 0, rightVert |-> 0, leftHoriz |-> 0, leftVert |-> 0,
             left |-> "UNKNOWN", right |-> "UNKNOWN"]

Motor == {"leftRail", "rightRail", "load", "feed", "horizontal"}

Init ==
  /\ connected = FALSE /\ remote = Released
  /\ MAX_RPM = 0 /\ CURR_RPM = 0 /\ GH_RPM = 0 /\ GV_RPM = 0
  /\ LEFT_RAIL_RPM = 0 /\ RIGHT_RAIL_RPM = 0
  /\ LOAD_RPM = 0 /\ FEED_RPM = 0 /\ TURRET_RPM = 0
  /\ percent_LR = 0 /\ percent_RR = 0
  /\ mode = 0 /\ GIMBAL_OVERRIDE = FALSE
  /\ driven = [m \in Motor |-> 0] /\ settled = TRUE

-----------------------------------------------------------------------------
(* remote.read(): a packet is complete, the remote is silent, or neither.  *)

Read ==
  \/ connected' = TRUE /\ remote' \in Packet
  \/ connected' = FALSE /\ remote' = Released
  \/ UNCHANGED <<connected, remote>>

-----------------------------------------------------------------------------
(* One pass of the control code.                                           *)

\* (a * ratio of a stick) assigned to an int, for integers a and x.
Truncated(n, d) == IF n >= 0 THEN n \div d ELSE -((-n) \div d)
Scaled(x, a) == Truncated(x * a, StickMax)

\* Faulty variants (here and below): slips that each stop a property from
\* holding; no action uses them.
LimitUnscaled(left) ==
  DESIRED_RPM * (CASE left = "MID" -> 8 [] left = "UP" -> 10
                   [] left = "DOWN" -> 6 [] OTHER -> 2)

Limit(left) ==
  (DESIRED_RPM * (CASE left = "MID" -> 8 [] left = "UP" -> 10
                    [] left = "DOWN" -> 6 [] OTHER -> 2)) \div 10

SelectModeKeepingOverride ==
  /\ mode' = CASE remote'.right = "MID" -> 1 [] remote'.right = "UP" -> 2 [] OTHER -> 0
  /\ GIMBAL_OVERRIDE' = (GIMBAL_OVERRIDE \/ remote'.right = "DOWN")

\* An unknown position selects mode 0 and leaves the override as it is.
SelectMode ==
  /\ mode' = CASE remote'.right = "MID" -> 1 [] remote'.right = "UP" -> 2 [] OTHER -> 0
  /\ GIMBAL_OVERRIDE' = CASE remote'.right \in {"MID", "UP"} -> FALSE
                          [] remote'.right = "DOWN" -> TRUE
                          [] OTHER -> GIMBAL_OVERRIDE

SpeedUnshared(steer) ==
  /\ percent_LR' = StickMax + steer
  /\ percent_RR' = StickMax + steer
  /\ CURR_RPM' = Scaled(IF remote'.rightVert = 0 THEN steer ELSE remote'.rightHoriz, MAX_RPM')

\* The speed for the rails: that of the right stick, replaced in the modes
\* that drive by the steering stick's unless the right stick is tilted.
Speed(steer) ==
  /\ percent_LR' = StickMax + steer
  /\ percent_RR' = StickMax - steer
  /\ CURR_RPM' = Scaled(IF remote'.rightVert = 0 THEN steer ELSE remote'.rightHoriz, MAX_RPM')

\* BB_FACTOR is 0.092.
Beyblade(steer) == IF remote'.rightVert = 0 THEN Truncated(steer * MAX_RPM' * 92, StickMax * 1000)
                                           ELSE GH_RPM

FireHoldingLoad ==
  /\ percent_LR' = 0 /\ percent_RR' = 0
  /\ CURR_RPM' = Scaled(remote'.rightHoriz, MAX_RPM')
  /\ IF remote'.leftVert # 0
       THEN /\ LOAD_RPM' = Scaled(remote'.leftVert, MAX_RPM')
            /\ FEED_RPM' = -Scaled(remote'.leftHoriz, 8000)
       ELSE FEED_RPM' = 0 /\ UNCHANGED LOAD_RPM
  /\ UNCHANGED TURRET_RPM

\* case 0 of mainControl().
Fire ==
  /\ percent_LR' = 0 /\ percent_RR' = 0
  /\ CURR_RPM' = Scaled(remote'.rightHoriz, MAX_RPM')
  /\ IF remote'.leftVert # 0
       THEN /\ LOAD_RPM' = Scaled(remote'.leftVert, MAX_RPM')
            /\ FEED_RPM' = -Scaled(remote'.leftHoriz, 8000)
       ELSE LOAD_RPM' = 0 /\ FEED_RPM' = 0
  /\ UNCHANGED TURRET_RPM

DriveKeepingTurret(steer) ==
  /\ UNCHANGED <<LOAD_RPM, FEED_RPM, TURRET_RPM>>
  /\ Speed(steer)

\* cases 2 and 1.
Drive(steer) ==
  /\ LOAD_RPM' = 0 /\ FEED_RPM' = 0 /\ TURRET_RPM' = 0
  /\ Speed(steer)

\* mainControl() and the gimbal override that follows it.
MainControl ==
  /\ MAX_RPM' = Limit(remote'.left)
  /\ SelectMode
  /\ CASE mode' = 0 -> Fire
       [] mode' = 1 -> Drive(remote'.rightHoriz)
       [] mode' = 2 -> Drive(remote'.leftHoriz)
  /\ LEFT_RAIL_RPM' = Truncated(percent_LR' * CURR_RPM', 2 * StickMax)
  /\ RIGHT_RAIL_RPM' = Truncated(percent_RR' * CURR_RPM', 2 * StickMax)
  /\ GH_RPM' = CASE GIMBAL_OVERRIDE' -> -Scaled(remote'.rightHoriz, GIMBAL_RPM)
                 [] ~GIMBAL_OVERRIDE' /\ mode' = 1 -> Beyblade(remote'.rightHoriz)
                 [] ~GIMBAL_OVERRIDE' /\ mode' = 2 -> Beyblade(remote'.leftHoriz)
                 [] OTHER -> GH_RPM
  /\ GV_RPM' = IF GIMBAL_OVERRIDE' THEN -Scaled(remote'.rightVert, GIMBAL_RPM) ELSE GV_RPM

\* The speeds that the control code has just computed, by motor.
Commanded ==
  [m \in Motor |->
     CASE m = "leftRail" -> LEFT_RAIL_RPM' [] m = "rightRail" -> -RIGHT_RAIL_RPM'
       [] m = "load" -> LOAD_RPM' [] m = "feed" -> FEED_RPM'
       [] m = "horizontal" -> GH_RPM']

Rails == {"leftRail", "rightRail"}

Told(room) == (IF room > 0 THEN Rails ELSE {}) \cup (IF room = 2 THEN Motor \ Rails ELSE {})

SendOnChange(room) ==
  IF rpms' = rpms
    THEN UNCHANGED <<driven, settled>>
    ELSE /\ driven' = [m \in Motor |-> IF m \in Told(room) THEN Commanded[m] ELSE driven[m]]
         /\ settled' = IF room > 0 THEN room = 2 ELSE settled

\* room: how many of the two frames bus 1 accepts.  The low frame carries the
\* identifiers 1 to 4 of the rails, the high one those of the other motors.
Send(room) ==
  /\ driven' = [m \in Motor |-> IF m \in Told(room) THEN Commanded[m] ELSE driven[m]]
  /\ settled' = IF room > 0 THEN room = 2 ELSE settled

Pass(due, room) ==
  /\ Read /\ connected'
  /\ MainControl
  /\ IF due THEN Send(room) ELSE UNCHANGED <<driven, settled>>

Skip ==
  /\ Read /\ ~connected'
  /\ UNCHANGED <<rpms, driven, settled>>

Next == Skip \/ \E due \in BOOLEAN, room \in 0..2 : Pass(due, room)

Spec == Init /\ [][Next]_vars

\* The timer is due every 2 ms, a packet every 14 ms: passes that find no new
\* packet, but a due timer and room for both frames, come again and again.
FairSpec == Spec /\ WF_vars(Pass(TRUE, 2) /\ UNCHANGED <<connected, remote>>)
-----------------------------------------------------------------------------
(* Properties.                                                             *)

Magnitude(n) == IF n < 0 THEN -n ELSE n

\* Every variable stays in its range.
TypeOK ==
  /\ connected \in BOOLEAN /\ remote \in Packet \cup {Released}
  /\ MAX_RPM \in 0..DESIRED_RPM /\ mode \in 0..2 /\ GIMBAL_OVERRIDE \in BOOLEAN
  /\ \A r \in {CURR_RPM, GH_RPM, GV_RPM, LEFT_RAIL_RPM, RIGHT_RAIL_RPM, LOAD_RPM, FEED_RPM,
               TURRET_RPM} : Magnitude(r) <= DESIRED_RPM
  /\ percent_LR \in 0..(2 * StickMax) /\ percent_RR \in 0..(2 * StickMax)
  /\ driven \in [Motor -> -DESIRED_RPM..DESIRED_RPM] /\ settled \in BOOLEAN

\* The two rails share the speed that the left switch allows and never pull
\* against each other, in whichever mode the percentages were left.
RailsShareSpeed ==
  /\ Magnitude(LEFT_RAIL_RPM) + Magnitude(RIGHT_RAIL_RPM) <= MAX_RPM
  /\ LEFT_RAIL_RPM * RIGHT_RAIL_RPM >= 0

\* "stop rails", "stop firing mechanism" (mainControl): the robot does not
\* drive and fire at once, although each of the two is stopped through globals
\* and told to the motors in a frame of its own; a lost high frame excepted.
DriveOrFire ==
  settled => \/ driven["leftRail"] = 0 /\ driven["rightRail"] = 0
             \/ driven["load"] = 0 /\ driven["feed"] = 0

\* "single stick is mode 1, double stick is mode 2": after a pass with all
\* sticks released in a known mode every speed is 0 but the vertical
\* gimbal's, which is 0 under the gimbal override.
Centred == /\ connected /\ remote.right # "UNKNOWN"
           /\ {remote.rightHoriz, remote.rightVert, remote.leftHoriz, remote.leftVert} = {0}
ReleasedSticksStop ==
  Centred =>
    /\ {LEFT_RAIL_RPM, RIGHT_RAIL_RPM, LOAD_RPM, FEED_RPM, TURRET_RPM, GH_RPM} = {0}
    /\ remote.right = "DOWN" => GV_RPM = 0

\* The vertical gimbal's speed changes only under the gimbal override, and
\* the rails are at rest as long as that lasts.
OverrideOwnsVertical ==
  [][(GV_RPM' # GV_RPM => GIMBAL_OVERRIDE') /\
     (GIMBAL_OVERRIDE' => LEFT_RAIL_RPM' = 0 /\ RIGHT_RAIL_RPM' = 0)]_vars

\* Sticks released for good bring every motor of bus 1 to rest, whatever was
\* lost on the bus before.
ReleasedRobotRests == <>[]Centred => <>[](\A m \in Motor : driven[m] = 0)

\* "The value of the given channel, between [-1, 1]" (Remote::getChannel).
ChannelInRange ==
  \A x \in {remote.rightHoriz, remote.rightVert, remote.leftHoriz, remote.leftVert} :
    Magnitude(x) <= StickMax
=============================================================================
