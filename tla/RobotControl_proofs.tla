------------------------ MODULE RobotControl_proofs -------------------------
(***************************************************************************)
(* The main loop of the robot, proved for any resolution of the sticks and *)
(* any packets.                                                            *)
(***************************************************************************)
EXTENDS RobotControl, TLAPS

-----------------------------------------------------------------------------
(* Assigning a ratio of an integer to an int.                              *)

LEMMA Quotient ==
  ASSUME NEW d \in Nat \ {0}, NEW n \in Nat
  PROVE  n \div d \in Nat /\ d * (n \div d) <= n
  OBVIOUS

LEMMA NoMoreThan ==
  ASSUME NEW d \in Nat \ {0}, NEW q \in Int, NEW b \in Int, d * q <= d * b
  PROVE  q <= b
<1>1. SUFFICES ASSUME q - b >= 1 PROVE FALSE
  OBVIOUS
<1>2. d * (q - b - 1) >= 0
  BY <1>1
<1>3. d * (q - b - 1) = d * q - d * b - d
  OBVIOUS
<1> QED
  BY <1>2, <1>3

LEMMA Times ==
  ASSUME NEW x \in Int, NEW a \in Int
  PROVE  x * a \in Int /\ (x = 0 \/ a = 0 => x * a = 0)
  OBVIOUS

LEMMA Monotone ==
  ASSUME NEW s \in Nat, NEW a \in Nat, NEW b \in Nat, a <= b
  PROVE  s * a <= s * b
<1>1. s * (b - a) >= 0 /\ s * (b - a) = s * b - s * a
  OBVIOUS
<1> QED
  BY <1>1

LEMMA TruncatedSign ==
  ASSUME NEW d \in Nat \ {0}, NEW n \in Int
  PROVE  /\ Truncated(n, d) \in Int
         /\ n >= 0 => Truncated(n, d) >= 0
         /\ n <= 0 => Truncated(n, d) <= 0
         /\ n = 0 => Truncated(n, d) = 0
         /\ d * Magnitude(Truncated(n, d)) <= Magnitude(n)
         /\ Magnitude(Truncated(n, d)) \in Nat
<1>1. CASE n >= 0
  <2> DEFINE q == n \div d
  <2>1. q \in Nat /\ d * q <= n
    BY <1>1, Quotient
  <2>2. Truncated(n, d) = q
    BY <1>1 DEF Truncated
  <2>3. n = 0 => q = 0
    OBVIOUS
  <2> HIDE DEF q
  <2>4. Magnitude(q) = q /\ Magnitude(n) = n
    BY <1>1, <2>1 DEF Magnitude
  <2> QED
    BY <1>1, <2>1, <2>2, <2>3, <2>4
<1>2. CASE n < 0
  <2> DEFINE q == (-n) \div d
  <2>1. q \in Nat /\ d * q <= -n
    BY <1>2, Quotient
  <2>2. Truncated(n, d) = -q
    BY <1>2 DEF Truncated
  <2> HIDE DEF q
  <2>3. Magnitude(-q) = q /\ Magnitude(n) = -n
    BY <1>2, <2>1 DEF Magnitude
  <2> QED
    BY <1>2, <2>1, <2>2, <2>3
<1> QED
  BY <1>1, <1>2

LEMMA TruncatedBound ==
  ASSUME NEW d \in Nat \ {0}, NEW n \in Int, NEW b \in Nat, Magnitude(n) <= d * b
  PROVE  Magnitude(Truncated(n, d)) <= b
<1> DEFINE q == Magnitude(Truncated(n, d))
<1>1. q \in Nat /\ d * q <= Magnitude(n) /\ Magnitude(n) \in Int
  BY TruncatedSign DEF Magnitude
<1> HIDE DEF q
<1>2. d * q \in Int /\ d * b \in Int
  BY <1>1
<1>3. d * q <= d * b
  BY <1>1, <1>2
<1> QED
  BY <1>1, <1>3, NoMoreThan DEF q

LEMMA Product ==
  ASSUME NEW x \in Int, NEW a \in Nat, NEW s \in Nat, Magnitude(x) <= s
  PROVE  x * a \in Int /\ Magnitude(x * a) <= s * a
<1>1. x * a \in Int /\ s * a \in Int
  OBVIOUS
<1>2. (s - x) * a >= 0 /\ (s + x) * a >= 0
  BY DEF Magnitude
<1>3. (s - x) * a = s * a - x * a /\ (s + x) * a = s * a + x * a
  OBVIOUS
<1> QED
  BY <1>1, <1>2, <1>3 DEF Magnitude

\* A stick within its range scales a speed down.
LEMMA ScaledBound ==
  ASSUME NEW x \in Int, NEW a \in Nat, Magnitude(x) <= StickMax
  PROVE  Scaled(x, a) \in Int /\ Magnitude(Scaled(x, a)) <= a
<1>1. StickMax \in Nat \ {0}
  BY StickMaxType
<1>2. x * a \in Int /\ Magnitude(x * a) <= StickMax * a
  BY <1>1, Product
<1> QED
  BY <1>1, <1>2, TruncatedSign, TruncatedBound DEF Scaled

LEMMA ScaledType ==
  ASSUME NEW x \in Int, NEW a \in Int
  PROVE  Scaled(x, a) \in Int /\ (x = 0 => Scaled(x, a) = 0)
<1>1. x * a \in Int /\ (x = 0 => x * a = 0) /\ StickMax \in Nat \ {0}
  BY StickMaxType
<1> QED
  BY <1>1, TruncatedSign DEF Scaled

\* Two shares of one speed: together no more than the speed, both in its
\* direction.
LEMMA Shares ==
  ASSUME NEW d \in Nat \ {0}, NEW c \in Int, NEW p \in 0..d, NEW r \in 0..d, p + r = d
  PROVE  LET left  == Truncated(p * c, d)
             right == Truncated(r * c, d)
         IN  /\ left \in Int /\ right \in Int
             /\ Magnitude(left) + Magnitude(right) <= Magnitude(c)
             /\ left * right >= 0
<1> DEFINE n == p * c
<1> DEFINE m == r * c
<1>1. n \in Int /\ m \in Int /\ n + m = d * c
  BY (p + r) * c = p * c + r * c
<1>2. /\ c >= 0 => n >= 0 /\ m >= 0
      /\ c < 0 => n <= 0 /\ m <= 0
  OBVIOUS
<1> DEFINE left  == Truncated(n, d)
<1> DEFINE right == Truncated(m, d)
<1> HIDE DEF n, m
<1>3. /\ left \in Int /\ right \in Int
      /\ Magnitude(left) \in Nat /\ Magnitude(right) \in Nat
      /\ d * Magnitude(left) <= Magnitude(n) /\ d * Magnitude(right) <= Magnitude(m)
      /\ n >= 0 => left >= 0
      /\ n <= 0 => left <= 0
      /\ m >= 0 => right >= 0
      /\ m <= 0 => right <= 0
  BY <1>1, TruncatedSign
<1> HIDE DEF left, right
<1>4. left * right >= 0
  <2>1. (left >= 0 /\ right >= 0) \/ (left <= 0 /\ right <= 0)
    BY <1>1, <1>2, <1>3
  <2>2. CASE left >= 0 /\ right >= 0
    BY <1>3, <2>2
  <2>3. CASE left <= 0 /\ right <= 0
    <3>1. (-left) * (-right) >= 0
      BY <1>3, <2>3
    <3>2. (-left) * (-right) = left * right
      BY <1>3
    <3> QED
      BY <3>1, <3>2
  <2> QED
    BY <2>1, <2>2, <2>3
<1>5. Magnitude(n) + Magnitude(m) = d * Magnitude(c)
  <2>1. CASE c >= 0
    BY <1>1, <1>2, <2>1 DEF Magnitude
  <2>2. CASE c < 0
    <3>1. Magnitude(n) = -n /\ Magnitude(m) = -m
      BY <1>1, <1>2, <2>2 DEF Magnitude
    <3>2. Magnitude(c) = -c /\ d * (-c) = -(d * c)
      BY <2>2 DEF Magnitude
    <3>3. d * c \in Int
      OBVIOUS
    <3> QED
      BY <1>1, <3>1, <3>2, <3>3
  <2> QED
    BY <2>1, <2>2
<1> DEFINE a == Magnitude(left)
<1> DEFINE b == Magnitude(right)
<1>6. /\ d * (a + b) = d * a + d * b
      /\ d * a \in Int /\ d * b \in Int
      /\ Magnitude(n) \in Int /\ Magnitude(m) \in Int /\ Magnitude(c) \in Int
  BY <1>1, <1>3 DEF Magnitude
<1>7. d * (a + b) <= d * Magnitude(c)
  BY <1>3, <1>5, <1>6
<1>8. a + b <= Magnitude(c)
  BY <1>3, <1>6, <1>7, NoMoreThan
<1> QED
  BY <1>3, <1>4, <1>8 DEF left, right, n, m

-----------------------------------------------------------------------------
(* What every pass computes, whatever the packets report.                  *)

Whole ==
  /\ connected \in BOOLEAN /\ remote \in Packet \cup {Released}
  /\ MAX_RPM \in 0..DESIRED_RPM /\ mode \in 0..2 /\ GIMBAL_OVERRIDE \in BOOLEAN
  /\ CURR_RPM \in Int /\ GH_RPM \in Int /\ GV_RPM \in Int
  /\ LEFT_RAIL_RPM \in Int /\ RIGHT_RAIL_RPM \in Int /\ LOAD_RPM \in Int /\ FEED_RPM \in Int
  /\ percent_LR \in Int /\ percent_RR \in Int
  /\ driven \in [Motor -> Int] /\ settled \in BOOLEAN

\* The override belongs to mode 0, in which the rails rest; nothing ever
\* starts the turret.
ModesApart ==
  /\ GIMBAL_OVERRIDE => mode = 0
  /\ mode = 0 => LEFT_RAIL_RPM = 0 /\ RIGHT_RAIL_RPM = 0
  /\ mode # 0 => LOAD_RPM = 0 /\ FEED_RPM = 0
  /\ TURRET_RPM = 0

Inv == Whole /\ ModesApart /\ DriveOrFire /\ ReleasedSticksStop

LEMMA RemoteType ==
  ASSUME remote \in Packet \cup {Released}
  PROVE  /\ remote.rightHoriz \in Int /\ remote.rightVert \in Int
         /\ remote.leftHoriz \in Int /\ remote.leftVert \in Int
         /\ remote.left \in Switch /\ remote.right \in Switch
BY PacketType DEF Released, Switch

LEMMA ReadType ==
  ASSUME Whole, Read
  PROVE  /\ connected' \in BOOLEAN /\ remote' \in Packet \cup {Released}
         /\ remote'.rightHoriz \in Int /\ remote'.rightVert \in Int
         /\ remote'.leftHoriz \in Int /\ remote'.leftVert \in Int
         /\ remote'.left \in Switch /\ remote'.right \in Switch
<1>1. connected' \in BOOLEAN /\ remote' \in Packet \cup {Released}
  BY DEF Whole, Read
<1> QED
  BY <1>1, PacketType DEF Released, Switch

LEMMA FullSpeedType == DESIRED_RPM \in Nat
BY DEF DESIRED_RPM

LEMMA LimitType ==
  ASSUME NEW left \in Switch
  PROVE  Limit(left) \in 0..DESIRED_RPM
<1>1. \A r \in Nat : /\ (r * 8) \div 10 \in 0..r /\ (r * 10) \div 10 \in 0..r
                    /\ (r * 6) \div 10 \in 0..r /\ (r * 2) \div 10 \in 0..r
  OBVIOUS
<1>2. CASE left = "MID"
  BY <1>1, <1>2, FullSpeedType DEF Limit
<1>3. CASE left = "UP"
  BY <1>1, <1>3, FullSpeedType DEF Limit
<1>4. CASE left = "DOWN"
  BY <1>1, <1>4, FullSpeedType DEF Limit
<1>5. CASE left \notin {"MID", "UP", "DOWN"}
  BY <1>1, <1>5, FullSpeedType DEF Limit
<1> QED
  BY <1>2, <1>3, <1>4, <1>5

LEMMA ModeSelected ==
  ASSUME Whole, GIMBAL_OVERRIDE => mode = 0, SelectMode, remote'.right \in Switch
  PROVE  /\ mode' \in 0..2 /\ GIMBAL_OVERRIDE' \in BOOLEAN
         /\ GIMBAL_OVERRIDE' => mode' = 0
         /\ remote'.right = "DOWN" => GIMBAL_OVERRIDE'
         /\ remote'.right # "UNKNOWN" => mode' # 0 \/ GIMBAL_OVERRIDE'
<1>1. CASE remote'.right = "MID"
  BY <1>1 DEF SelectMode
<1>2. CASE remote'.right = "UP"
  BY <1>2 DEF SelectMode
<1>3. CASE remote'.right = "DOWN"
  BY <1>3 DEF SelectMode
<1>4. CASE remote'.right = "UNKNOWN"
  BY <1>4 DEF SelectMode, Whole
<1> QED
  BY <1>1, <1>2, <1>3, <1>4 DEF Switch

\* The three ways through mainControl() by what they leave.
LEMMA ModesControl ==
  ASSUME Whole, MainControl, mode' \in 0..2
  PROVE  \/ mode' = 0 /\ Fire
         \/ mode' = 1 /\ Drive(remote'.rightHoriz)
         \/ mode' = 2 /\ Drive(remote'.leftHoriz)
<1>1. CASE mode' = 0
  BY <1>1 DEF MainControl
<1>2. CASE mode' = 1
  BY <1>2 DEF MainControl
<1>3. CASE mode' = 2
  BY <1>3 DEF MainControl
<1> QED
  BY <1>1, <1>2, <1>3

LEMMA FireType ==
  ASSUME Whole, Fire, MAX_RPM' \in 0..DESIRED_RPM,
         remote'.rightHoriz \in Int, remote'.leftHoriz \in Int, remote'.leftVert \in Int
  PROVE  /\ percent_LR' = 0 /\ percent_RR' = 0 /\ TURRET_RPM' = TURRET_RPM
         /\ CURR_RPM' \in Int /\ LOAD_RPM' \in Int /\ FEED_RPM' \in Int
         /\ remote'.leftVert = 0 => LOAD_RPM' = 0 /\ FEED_RPM' = 0
<1>1. MAX_RPM' \in Int
  BY DEF DESIRED_RPM
<1>2. /\ Scaled(remote'.rightHoriz, MAX_RPM') \in Int
      /\ Scaled(remote'.leftVert, MAX_RPM') \in Int
      /\ Scaled(remote'.leftHoriz, 8000) \in Int
  <2>1. Scaled(remote'.rightHoriz, MAX_RPM') \in Int
    BY <1>1, ScaledType, Zenon
  <2>2. Scaled(remote'.leftVert, MAX_RPM') \in Int
    BY <1>1, ScaledType, Zenon
  <2>3. ASSUME NEW a \in Int PROVE Scaled(remote'.leftHoriz, a) \in Int
    BY ScaledType, Zenon
  <2>4. Scaled(remote'.leftHoriz, 8000) \in Int
    BY <2>3
  <2> QED
    BY <2>1, <2>2, <2>4
<1> QED
  BY <1>2 DEF Fire

LEMMA DriveType ==
  ASSUME Whole, NEW steer \in Int, Drive(steer), MAX_RPM' \in 0..DESIRED_RPM,
         remote'.rightHoriz \in Int
  PROVE  /\ percent_LR' = StickMax + steer /\ percent_RR' = StickMax - steer
         /\ percent_LR' \in Int /\ percent_RR' \in Int
         /\ CURR_RPM' = Scaled(IF remote'.rightVert = 0 THEN steer ELSE remote'.rightHoriz, MAX_RPM')
         /\ CURR_RPM' \in Int
         /\ LOAD_RPM' = 0 /\ FEED_RPM' = 0 /\ TURRET_RPM' = 0
<1>1. MAX_RPM' \in Int
  BY DEF DESIRED_RPM
<1>2. Scaled(IF remote'.rightVert = 0 THEN steer ELSE remote'.rightHoriz, MAX_RPM') \in Int
  BY <1>1, ScaledType
<1> QED
  BY <1>2, StickMaxType DEF Drive, Speed

LEMMA BeybladeType ==
  ASSUME Whole, NEW steer \in Int, MAX_RPM' \in 0..DESIRED_RPM
  PROVE  /\ Beyblade(steer) \in Int
         /\ steer = 0 /\ remote'.rightVert = 0 => Beyblade(steer) = 0
<1> DEFINE n == steer * MAX_RPM' * 92
<1> DEFINE d == StickMax * 1000
<1>1. MAX_RPM' \in Int
  BY DEF DESIRED_RPM
<1>2. n \in Int /\ (steer = 0 => n = 0) /\ d \in Nat \ {0}
  <2> DEFINE a == steer * MAX_RPM'
  <2>1. a \in Int /\ (steer = 0 => a = 0)
    BY <1>1, Times, Zenon
  <2>2. d \in Nat \ {0}
    BY StickMaxType
  <2> HIDE DEF a, d
  <2>3. n = a * 92
    BY DEF a
  <2> HIDE DEF n
  <2> QED
    BY <2>1, <2>2, <2>3
<1>3. Beyblade(steer) = IF remote'.rightVert = 0 THEN Truncated(n, d) ELSE GH_RPM
  BY DEF Beyblade
<1> HIDE DEF n, d
<1>4. Truncated(n, d) \in Int /\ (n = 0 => Truncated(n, d) = 0)
  BY <1>2, TruncatedSign
<1> QED
  BY <1>2, <1>3, <1>4 DEF Whole

LEMMA RailsType ==
  ASSUME MainControl, percent_LR' \in Int, percent_RR' \in Int, CURR_RPM' \in Int
  PROVE  /\ LEFT_RAIL_RPM' \in Int /\ RIGHT_RAIL_RPM' \in Int
         /\ percent_LR' = 0 \/ CURR_RPM' = 0 => LEFT_RAIL_RPM' = 0
         /\ percent_RR' = 0 \/ CURR_RPM' = 0 => RIGHT_RAIL_RPM' = 0
<1> DEFINE n == percent_LR' * CURR_RPM'
<1> DEFINE m == percent_RR' * CURR_RPM'
<1> DEFINE d == 2 * StickMax
<1>1. /\ n \in Int /\ m \in Int /\ d \in Nat \ {0}
      /\ percent_LR' = 0 \/ CURR_RPM' = 0 => n = 0
      /\ percent_RR' = 0 \/ CURR_RPM' = 0 => m = 0
  <2>1. d \in Nat \ {0}
    BY StickMaxType
  <2> QED
    BY <2>1, Times
<1>2. LEFT_RAIL_RPM' = Truncated(n, d) /\ RIGHT_RAIL_RPM' = Truncated(m, d)
  BY DEF MainControl
<1> HIDE DEF n, m, d
<1>3. /\ Truncated(n, d) \in Int /\ Truncated(m, d) \in Int
      /\ n = 0 => Truncated(n, d) = 0
      /\ m = 0 => Truncated(m, d) = 0
  BY <1>1, TruncatedSign
<1> QED
  BY <1>1, <1>2, <1>3

LEMMA GimbalType ==
  ASSUME Whole, MainControl, MAX_RPM' \in 0..DESIRED_RPM, mode' \in 0..2,
         GIMBAL_OVERRIDE' \in BOOLEAN, remote'.rightHoriz \in Int, remote'.leftHoriz \in Int,
         remote'.rightVert \in Int
  PROVE  /\ GH_RPM' \in Int /\ GV_RPM' \in Int
         /\ ~GIMBAL_OVERRIDE' => GV_RPM' = GV_RPM
         /\ GIMBAL_OVERRIDE' /\ remote'.rightVert = 0 => GV_RPM' = 0
         /\ /\ remote'.rightHoriz = 0 /\ remote'.leftHoriz = 0 /\ remote'.rightVert = 0
            /\ mode' # 0 \/ GIMBAL_OVERRIDE'
            => GH_RPM' = 0
<1>1. /\ Scaled(remote'.rightHoriz, GIMBAL_RPM) \in Int
      /\ Scaled(remote'.rightVert, GIMBAL_RPM) \in Int
      /\ remote'.rightHoriz = 0 => Scaled(remote'.rightHoriz, GIMBAL_RPM) = 0
      /\ remote'.rightVert = 0 => Scaled(remote'.rightVert, GIMBAL_RPM) = 0
  <2>1. GIMBAL_RPM \in Int
    BY DEF GIMBAL_RPM
  <2> QED
    BY <2>1, ScaledType, Zenon
<1>2. /\ Beyblade(remote'.rightHoriz) \in Int /\ Beyblade(remote'.leftHoriz) \in Int
      /\ remote'.rightHoriz = 0 /\ remote'.rightVert = 0 => Beyblade(remote'.rightHoriz) = 0
      /\ remote'.leftHoriz = 0 /\ remote'.rightVert = 0 => Beyblade(remote'.leftHoriz) = 0
  BY BeybladeType
<1>3. GV_RPM' = IF GIMBAL_OVERRIDE' THEN -Scaled(remote'.rightVert, GIMBAL_RPM) ELSE GV_RPM
  BY DEF MainControl
<1>4. GH_RPM' = IF GIMBAL_OVERRIDE' THEN -Scaled(remote'.rightHoriz, GIMBAL_RPM)
                ELSE IF mode' = 1 THEN Beyblade(remote'.rightHoriz)
                ELSE IF mode' = 2 THEN Beyblade(remote'.leftHoriz)
                ELSE GH_RPM
  BY DEF MainControl
<1>5. GH_RPM \in Int /\ GV_RPM \in Int
  BY DEF Whole
<1> QED
  BY <1>1, <1>2, <1>3, <1>4, <1>5

-----------------------------------------------------------------------------
(* The inductive invariant.                                                *)

LEMMA PassComputes ==
  ASSUME Whole, ModesApart, Read, MainControl
  PROVE  /\ MAX_RPM' = Limit(remote'.left) /\ MAX_RPM' \in 0..DESIRED_RPM
         /\ mode' \in 0..2 /\ GIMBAL_OVERRIDE' \in BOOLEAN
         /\ CURR_RPM' \in Int /\ GH_RPM' \in Int /\ GV_RPM' \in Int
         /\ LEFT_RAIL_RPM' \in Int /\ RIGHT_RAIL_RPM' \in Int
         /\ LOAD_RPM' \in Int /\ FEED_RPM' \in Int
         /\ percent_LR' \in Int /\ percent_RR' \in Int
         /\ ModesApart'
         /\ ~GIMBAL_OVERRIDE' => GV_RPM' = GV_RPM
<1>1. /\ remote'.rightHoriz \in Int /\ remote'.rightVert \in Int
      /\ remote'.leftHoriz \in Int /\ remote'.leftVert \in Int
      /\ remote'.left \in Switch /\ remote'.right \in Switch
  BY ReadType
<1>2. MAX_RPM' = Limit(remote'.left) /\ MAX_RPM' \in 0..DESIRED_RPM
  BY <1>1, LimitType DEF MainControl
<1>3. /\ mode' \in 0..2 /\ GIMBAL_OVERRIDE' \in BOOLEAN
      /\ GIMBAL_OVERRIDE' => mode' = 0
  BY <1>1, ModeSelected DEF MainControl, ModesApart
<1>4. GH_RPM' \in Int /\ GV_RPM' \in Int /\ (~GIMBAL_OVERRIDE' => GV_RPM' = GV_RPM)
  BY <1>1, <1>2, <1>3, GimbalType
<1>5. CASE mode' = 0
  <2>1. /\ percent_LR' = 0 /\ percent_RR' = 0 /\ TURRET_RPM' = TURRET_RPM
        /\ CURR_RPM' \in Int /\ LOAD_RPM' \in Int /\ FEED_RPM' \in Int
    BY <1>1, <1>2, <1>3, <1>5, ModesControl, FireType
  <2>2. LEFT_RAIL_RPM' = 0 /\ RIGHT_RAIL_RPM' = 0
    BY <2>1, RailsType
  <2>3. ModesApart'
    BY <1>3, <1>5, <2>1, <2>2 DEF ModesApart
  <2> QED
    BY <1>2, <1>3, <1>4, <2>1, <2>2, <2>3
<1>6. ASSUME NEW steer \in Int, Drive(steer), mode' # 0
      PROVE  /\ CURR_RPM' \in Int /\ LEFT_RAIL_RPM' \in Int /\ RIGHT_RAIL_RPM' \in Int
             /\ LOAD_RPM' = 0 /\ FEED_RPM' = 0
             /\ percent_LR' \in Int /\ percent_RR' \in Int
             /\ ModesApart'
  <2>1. /\ percent_LR' \in Int /\ percent_RR' \in Int /\ CURR_RPM' \in Int
        /\ LOAD_RPM' = 0 /\ FEED_RPM' = 0 /\ TURRET_RPM' = 0
    BY <1>1, <1>2, <1>6, DriveType
  <2>2. LEFT_RAIL_RPM' \in Int /\ RIGHT_RAIL_RPM' \in Int
    BY <2>1, RailsType
  <2>3. ModesApart'
    BY <1>3, <1>6, <2>1 DEF ModesApart
  <2> QED
    BY <2>1, <2>2, <2>3
<1>7. CASE mode' # 0
  <2>1. PICK steer \in Int : Drive(steer)
    BY <1>1, <1>3, <1>7, ModesControl
  <2> QED
    BY <1>2, <1>3, <1>4, <1>6, <1>7, <2>1
<1> QED
  BY <1>5, <1>7

LEMMA CommandedType ==
  ASSUME LEFT_RAIL_RPM' \in Int, RIGHT_RAIL_RPM' \in Int, LOAD_RPM' \in Int, FEED_RPM' \in Int,
         GH_RPM' \in Int
  PROVE  /\ Commanded \in [Motor -> Int]
         /\ Commanded["leftRail"] = LEFT_RAIL_RPM' /\ (RIGHT_RAIL_RPM' = 0 => Commanded["rightRail"] = 0)
         /\ Commanded["load"] = LOAD_RPM' /\ Commanded["feed"] = FEED_RPM'
         /\ Commanded["horizontal"] = GH_RPM'
BY DEF Commanded, Motor

LEMMA SendType ==
  ASSUME Whole, NEW room \in 0..2, Send(room), Commanded \in [Motor -> Int]
  PROVE  driven' \in [Motor -> Int] /\ settled' \in BOOLEAN
BY DEF Whole, Send

\* Of a pass that sends, either both frames arrive, and with them one
\* consistent set of speeds, or the robot is not settled, or nothing changes.
LEMMA DriveOrFireKept ==
  ASSUME Whole, ModesApart', mode' \in 0..2, DriveOrFire, NEW room \in 0..2, Send(room),
         Commanded["leftRail"] = LEFT_RAIL_RPM', (RIGHT_RAIL_RPM' = 0 => Commanded["rightRail"] = 0),
         Commanded["load"] = LOAD_RPM', Commanded["feed"] = FEED_RPM'
  PROVE  DriveOrFire'
<1>1. CASE room = 0
  <2>1. Told(room) = {}
    BY <1>1 DEF Told
  <2>2. driven' = [m \in Motor |-> driven[m]] /\ settled' = settled
    BY <1>1, <2>1 DEF Send
  <2> QED
    BY <2>2 DEF DriveOrFire, Whole
<1>2. CASE room = 1
  <2>1. room > 0 /\ room # 2
    BY <1>2
  <2>2. settled' = FALSE
    BY <2>1, Zenon DEF Send
  <2> QED
    BY <2>2 DEF DriveOrFire
<1>3. CASE room = 2
  <2>1. \A m \in Motor : m \in Told(room)
    BY <1>3 DEF Told
  <2>2. \A m \in Motor : driven'[m] = Commanded[m]
    BY <2>1 DEF Send
  <2>3. /\ driven'["leftRail"] = LEFT_RAIL_RPM' /\ (RIGHT_RAIL_RPM' = 0 => driven'["rightRail"] = 0)
        /\ driven'["load"] = LOAD_RPM' /\ driven'["feed"] = FEED_RPM'
    BY <2>2 DEF Motor
  <2>4. CASE mode' = 0
    <3>1. LEFT_RAIL_RPM' = 0 /\ RIGHT_RAIL_RPM' = 0
      BY <2>4 DEF ModesApart
    <3>2. driven'["leftRail"] = 0 /\ driven'["rightRail"] = 0
      BY <2>3, <3>1
    <3> QED
      BY <3>2 DEF DriveOrFire
  <2>5. CASE mode' # 0
    BY <2>3, <2>5 DEF ModesApart, DriveOrFire
  <2> QED
    BY <2>4, <2>5
<1> QED
  BY <1>1, <1>2, <1>3

LEMMA ReleasedSticksStopped ==
  ASSUME Whole, ModesApart, Read, MainControl
  PROVE  ReleasedSticksStop'
<1>1. SUFFICES ASSUME remote'.right # "UNKNOWN", remote'.rightHoriz = 0, remote'.rightVert = 0,
                      remote'.leftHoriz = 0, remote'.leftVert = 0
               PROVE  /\ LEFT_RAIL_RPM' = 0 /\ RIGHT_RAIL_RPM' = 0 /\ LOAD_RPM' = 0
                      /\ FEED_RPM' = 0 /\ TURRET_RPM' = 0 /\ GH_RPM' = 0
                      /\ remote'.right = "DOWN" => GV_RPM' = 0
  BY DEF ReleasedSticksStop, Centred
<1>2. /\ MAX_RPM' \in 0..DESIRED_RPM /\ MAX_RPM' \in Int
      /\ mode' \in 0..2 /\ GIMBAL_OVERRIDE' \in BOOLEAN
      /\ percent_LR' \in Int /\ percent_RR' \in Int /\ CURR_RPM' \in Int /\ ModesApart'
  <2>1. \A n \in 0..DESIRED_RPM : n \in Int
    BY DEF DESIRED_RPM
  <2> QED
    BY <2>1, PassComputes
<1>3. /\ remote'.right = "DOWN" => GIMBAL_OVERRIDE'
      /\ mode' # 0 \/ GIMBAL_OVERRIDE'
  BY <1>1, ReadType, ModeSelected DEF MainControl, ModesApart
<1>4. remote'.rightHoriz \in Int /\ remote'.leftHoriz \in Int /\ remote'.rightVert \in Int
  BY ReadType
<1>5. GH_RPM' = 0 /\ (GIMBAL_OVERRIDE' => GV_RPM' = 0)
  BY <1>1, <1>2, <1>3, <1>4, GimbalType
<1>6. CASE mode' = 0
  <2>1. LOAD_RPM' = 0 /\ FEED_RPM' = 0
    BY <1>1, <1>2, <1>6, ModesControl DEF Fire
  <2> QED
    BY <1>2, <1>3, <1>5, <1>6, <2>1 DEF ModesApart
<1>7. CASE mode' # 0
  <2>1. PICK steer \in Int : Drive(steer) /\ steer = 0
    BY <1>1, <1>2, <1>4, <1>7, ModesControl
  <2>2. CURR_RPM' = Scaled(0, MAX_RPM')
    BY <1>1, <2>1 DEF Drive, Speed
  <2>3. 0 \in Int /\ Scaled(0, MAX_RPM') = 0
    BY <1>2, ScaledType
  <2>4. LEFT_RAIL_RPM' = 0 /\ RIGHT_RAIL_RPM' = 0
    BY <1>2, <2>2, <2>3, RailsType
  <2> QED
    BY <1>2, <1>3, <1>5, <1>7, <2>4 DEF ModesApart
<1> QED
  BY <1>6, <1>7

LEMMA PassKeeps ==
  ASSUME Inv, NEW due \in BOOLEAN, NEW room \in 0..2, Pass(due, room)
  PROVE  Inv' /\ (~GIMBAL_OVERRIDE' => GV_RPM' = GV_RPM)
<1>1. Whole /\ ModesApart /\ DriveOrFire /\ Read /\ MainControl
  BY DEF Inv, Pass
<1>2. /\ MAX_RPM' \in 0..DESIRED_RPM
      /\ mode' \in 0..2 /\ GIMBAL_OVERRIDE' \in BOOLEAN
      /\ CURR_RPM' \in Int /\ GH_RPM' \in Int /\ GV_RPM' \in Int
      /\ LEFT_RAIL_RPM' \in Int /\ RIGHT_RAIL_RPM' \in Int
      /\ LOAD_RPM' \in Int /\ FEED_RPM' \in Int
      /\ percent_LR' \in Int /\ percent_RR' \in Int
      /\ ModesApart'
      /\ ~GIMBAL_OVERRIDE' => GV_RPM' = GV_RPM
  BY <1>1, PassComputes
<1>3. ReleasedSticksStop'
  BY <1>1, ReleasedSticksStopped
<1>4. connected' \in BOOLEAN /\ remote' \in Packet \cup {Released}
  BY <1>1, ReadType
<1>5. CASE due
  <2>1. Send(room)
    BY <1>5 DEF Pass
  <2>2. /\ Commanded \in [Motor -> Int]
        /\ Commanded["leftRail"] = LEFT_RAIL_RPM' /\ (RIGHT_RAIL_RPM' = 0 => Commanded["rightRail"] = 0)
        /\ Commanded["load"] = LOAD_RPM' /\ Commanded["feed"] = FEED_RPM'
    BY <1>2, CommandedType
  <2>3. driven' \in [Motor -> Int] /\ settled' \in BOOLEAN
    BY <1>1, <2>1, <2>2, SendType
  <2>4. DriveOrFire'
    BY <1>1, <1>2, <2>1, <2>2, DriveOrFireKept
  <2> QED
    BY <1>2, <1>3, <1>4, <2>3, <2>4 DEF Inv, Whole
<1>6. CASE ~due
  <2>1. driven' = driven /\ settled' = settled
    BY <1>6 DEF Pass
  <2> QED
    BY <1>1, <1>2, <1>3, <1>4, <2>1 DEF Inv, Whole, DriveOrFire
<1> QED
  BY <1>5, <1>6

LEMMA SkipKeeps ==
  ASSUME Inv, Skip
  PROVE  Inv'
<1>1. connected' = FALSE /\ remote' \in Packet \cup {Released} /\ UNCHANGED <<rpms, driven, settled>>
  BY ReadType DEF Inv, Skip
<1> QED
  BY <1>1 DEF Inv, Whole, ModesApart, DriveOrFire, ReleasedSticksStop, Centred, rpms

LEMMA InitInv == Init => Inv
<1>1. SUFFICES ASSUME Init PROVE Inv
  OBVIOUS
<1>2. Whole /\ ModesApart
  <2>1. driven \in [Motor -> Int] /\ settled \in BOOLEAN
    BY <1>1 DEF Init
  <2>2. 0 \in 0..DESIRED_RPM
    BY DEF DESIRED_RPM
  <2>3. /\ connected \in BOOLEAN /\ remote \in Packet \cup {Released}
        /\ GIMBAL_OVERRIDE \in BOOLEAN /\ ~GIMBAL_OVERRIDE
    BY <1>1 DEF Init
  <2>4. /\ MAX_RPM \in 0..DESIRED_RPM /\ mode \in 0..2
        /\ CURR_RPM = 0 /\ GH_RPM = 0 /\ GV_RPM = 0 /\ LEFT_RAIL_RPM = 0 /\ RIGHT_RAIL_RPM = 0
        /\ LOAD_RPM = 0 /\ FEED_RPM = 0 /\ TURRET_RPM = 0 /\ percent_LR = 0 /\ percent_RR = 0
    BY <1>1, <2>2 DEF Init
  <2>5. Whole
    BY <2>1, <2>3, <2>4 DEF Whole
  <2>6. ModesApart
    <3>1. ~GIMBAL_OVERRIDE
      BY <2>3
    <3> QED
      BY <2>4, <3>1 DEF ModesApart
  <2> QED
    BY <2>5, <2>6
<1>3. DriveOrFire /\ ReleasedSticksStop
  BY <1>1 DEF Init, DriveOrFire, ReleasedSticksStop, Centred, Motor
<1> QED
  BY <1>2, <1>3 DEF Inv

LEMMA NextInv == Inv /\ [Next]_vars => Inv'
<1>1. SUFFICES ASSUME Inv, [Next]_vars PROVE Inv'
  OBVIOUS
<1>2. CASE Skip
  BY <1>1, <1>2, SkipKeeps
<1>3. CASE \E due \in BOOLEAN, room \in 0..2 : Pass(due, room)
  BY <1>1, <1>3, PassKeeps
<1>4. CASE UNCHANGED vars
  BY <1>1, <1>4 DEF Inv, Whole, ModesApart, DriveOrFire, ReleasedSticksStop, Centred, vars, rpms
<1> QED
  BY <1>1, <1>2, <1>3, <1>4 DEF Next

\* The robot does not drive and fire at once, whatever the packets report
\* and whichever frames the bus refuses: a refused high frame excepted.
THEOREM NeverBoth == Spec => []DriveOrFire
<1>1. Inv => DriveOrFire
  BY DEF Inv
<1> QED
  BY InitInv, NextInv, <1>1, PTL DEF Spec

\* Released sticks stop everything in a known mode, but the vertical gimbal.
THEOREM SticksStop == Spec => []ReleasedSticksStop
<1>1. Inv => ReleasedSticksStop
  BY DEF Inv
<1> QED
  BY InitInv, NextInv, <1>1, PTL DEF Spec

\* Only the override moves the vertical gimbal, and it never lets the rails
\* move.
THEOREM VerticalOwned == Spec => OverrideOwnsVertical
<1>1. Inv /\ Inv' /\ [Next]_vars
        => [(GV_RPM' # GV_RPM => GIMBAL_OVERRIDE') /\
            (GIMBAL_OVERRIDE' => LEFT_RAIL_RPM' = 0 /\ RIGHT_RAIL_RPM' = 0)]_vars
  <2>1. SUFFICES ASSUME Inv, Inv', Next
                 PROVE  /\ GV_RPM' # GV_RPM => GIMBAL_OVERRIDE'
                        /\ GIMBAL_OVERRIDE' => LEFT_RAIL_RPM' = 0 /\ RIGHT_RAIL_RPM' = 0
    OBVIOUS
  <2>2. GIMBAL_OVERRIDE' => LEFT_RAIL_RPM' = 0 /\ RIGHT_RAIL_RPM' = 0
    BY <2>1 DEF Inv, ModesApart
  <2>3. CASE Skip
    BY <2>2, <2>3 DEF Skip, rpms
  <2>4. CASE \E due \in BOOLEAN, room \in 0..2 : Pass(due, room)
    BY <2>1, <2>2, <2>4, PassKeeps
  <2> QED
    BY <2>1, <2>3, <2>4 DEF Next
<1> QED
  BY InitInv, NextInv, <1>1, PTL DEF Spec, OverrideOwnsVertical

-----------------------------------------------------------------------------
(* Ranges.  Remote checks the integrity of a frame by no means but its     *)
(* length, so a garbled one can report more than a stick does, and the     *)
(* ranges of the speeds are those of packets that hold stick positions.    *)

StickPositions ==
  \A p \in Packet : /\ Magnitude(p.rightHoriz) <= StickMax /\ Magnitude(p.rightVert) <= StickMax
                    /\ Magnitude(p.leftHoriz) <= StickMax /\ Magnitude(p.leftVert) <= StickMax

Bounded(n) == n \in Int /\ Magnitude(n) <= DESIRED_RPM

Ranges ==
  /\ Bounded(CURR_RPM) /\ Bounded(GH_RPM) /\ Bounded(GV_RPM)
  /\ Bounded(LEFT_RAIL_RPM) /\ Bounded(RIGHT_RAIL_RPM)
  /\ Bounded(LOAD_RPM) /\ Bounded(FEED_RPM)
  /\ percent_LR \in 0..(2 * StickMax) /\ percent_RR \in 0..(2 * StickMax)
  /\ \A m \in Motor : Bounded(driven[m])

LEMMA BoundedRange ==
  ASSUME NEW n
  PROVE  /\ Bounded(n) <=> n \in -DESIRED_RPM..DESIRED_RPM
         /\ Bounded(0)
         /\ Bounded(n) => Bounded(-n)
<1>1. ASSUME NEW d \in Nat
      PROVE  n \in Int /\ Magnitude(n) <= d <=> n \in -d..d
  BY DEF Magnitude
<1>2. DESIRED_RPM \in Nat
  BY DEF DESIRED_RPM
<1>3. Bounded(0)
  BY DEF Bounded, Magnitude, DESIRED_RPM
<1>4. Bounded(n) => Bounded(-n)
  BY DEF Bounded, Magnitude, DESIRED_RPM
<1> QED
  BY <1>1, <1>2, <1>3, <1>4 DEF Bounded

LEMMA MagnitudeType ==
  ASSUME NEW n \in Int
  PROVE  Magnitude(n) \in Nat
BY DEF Magnitude

LEMMA PassLimit ==
  ASSUME Whole, ModesApart, Read, MainControl
  PROVE  MAX_RPM' \in 0..DESIRED_RPM /\ MAX_RPM' \in Nat /\ MAX_RPM' <= DESIRED_RPM
<1>1. MAX_RPM' \in 0..DESIRED_RPM
  BY PassComputes
<1>2. PICK max : max = MAX_RPM'
  OBVIOUS
<1>3. max \in 0..DESIRED_RPM /\ max \in Nat /\ max <= DESIRED_RPM
  BY <1>1, <1>2, FullSpeedType
<1> QED
  BY <1>2, <1>3

LEMMA BoundedScaled ==
  ASSUME NEW x \in Int, Magnitude(x) <= StickMax, NEW a \in 0..DESIRED_RPM
  PROVE  Bounded(Scaled(x, a)) /\ Magnitude(Scaled(x, a)) <= a
<1>1. a \in Nat /\ a <= DESIRED_RPM /\ DESIRED_RPM \in Nat
  BY DEF DESIRED_RPM
<1>2. Scaled(x, a) \in Int /\ Magnitude(Scaled(x, a)) <= a
  BY <1>1, ScaledBound
<1>3. Magnitude(Scaled(x, a)) \in Int
  BY <1>2 DEF Magnitude
<1> QED
  BY <1>1, <1>2, <1>3 DEF Bounded

LEMMA RangesGiveTypes ==
  ASSUME Whole, ModesApart, Ranges
  PROVE  TypeOK
<1>1. \A r \in {CURR_RPM, GH_RPM, GV_RPM, LEFT_RAIL_RPM, RIGHT_RAIL_RPM, LOAD_RPM, FEED_RPM,
                TURRET_RPM} : Bounded(r)
  BY BoundedRange DEF Ranges, ModesApart
<1>2. driven \in [Motor -> -DESIRED_RPM..DESIRED_RPM]
  <2>1. \A m \in Motor : driven[m] \in -DESIRED_RPM..DESIRED_RPM
    BY BoundedRange DEF Ranges
  <2> QED
    BY <2>1 DEF Whole
<1> QED
  BY <1>1, <1>2 DEF TypeOK, Whole, Ranges, Bounded

LEMMA ReadRange ==
  ASSUME StickPositions, Whole, Read
  PROVE  /\ Magnitude(remote'.rightHoriz) <= StickMax /\ Magnitude(remote'.rightVert) <= StickMax
         /\ Magnitude(remote'.leftHoriz) <= StickMax /\ Magnitude(remote'.leftVert) <= StickMax
<1>1. remote' \in Packet \cup {Released}
  BY ReadType
<1>2. CASE remote' \in Packet
  BY <1>2 DEF StickPositions
<1>3. CASE remote' = Released
  BY <1>3, StickMaxType DEF Released, Magnitude
<1> QED
  BY <1>1, <1>2, <1>3

LEMMA FireRange ==
  ASSUME Whole, ModesApart, StickPositions, Read, MainControl, Fire
  PROVE  /\ Bounded(CURR_RPM') /\ Bounded(LOAD_RPM') /\ Bounded(FEED_RPM')
         /\ percent_LR' = 0 /\ percent_RR' = 0
<1>1. MAX_RPM' \in 0..DESIRED_RPM /\ 8000 \in 0..DESIRED_RPM
  <2>1. 8000 \in 0..DESIRED_RPM
    BY DEF DESIRED_RPM
  <2> QED
    BY <2>1, PassLimit
<1>2. Bounded(Scaled(remote'.rightHoriz, MAX_RPM')) /\ Bounded(Scaled(remote'.leftVert, MAX_RPM'))
  BY <1>1, ReadType, ReadRange, BoundedScaled
<1>3. Bounded(Scaled(remote'.leftHoriz, 8000))
  BY <1>1, ReadType, ReadRange, BoundedScaled
<1>4. Bounded(-Scaled(remote'.leftHoriz, 8000)) /\ Bounded(0)
  BY <1>3, BoundedRange
<1> QED
  BY <1>2, <1>4 DEF Fire

LEMMA DriveRange ==
  ASSUME Whole, ModesApart, StickPositions, Read, MainControl,
         NEW steer \in Int, Magnitude(steer) <= StickMax, Drive(steer)
  PROVE  /\ Bounded(CURR_RPM') /\ Magnitude(CURR_RPM') <= MAX_RPM'
         /\ percent_LR' \in 0..(2 * StickMax) /\ percent_RR' \in 0..(2 * StickMax)
         /\ percent_LR' + percent_RR' = 2 * StickMax
         /\ LOAD_RPM' = 0 /\ FEED_RPM' = 0
<1>1. MAX_RPM' \in 0..DESIRED_RPM /\ remote'.rightHoriz \in Int
  BY PassComputes, ReadType
<1>2. /\ percent_LR' = StickMax + steer /\ percent_RR' = StickMax - steer
      /\ CURR_RPM' = Scaled(IF remote'.rightVert = 0 THEN steer ELSE remote'.rightHoriz, MAX_RPM')
      /\ LOAD_RPM' = 0 /\ FEED_RPM' = 0
  BY <1>1, DriveType
<1> DEFINE x == IF remote'.rightVert = 0 THEN steer ELSE remote'.rightHoriz
<1>3. x \in Int /\ Magnitude(x) <= StickMax
  BY <1>1, ReadRange
<1> HIDE DEF x
<1>4. Bounded(Scaled(x, MAX_RPM')) /\ Magnitude(Scaled(x, MAX_RPM')) <= MAX_RPM'
  BY <1>1, <1>3, BoundedScaled
<1>5. /\ percent_LR' \in 0..(2 * StickMax) /\ percent_RR' \in 0..(2 * StickMax)
      /\ percent_LR' + percent_RR' = 2 * StickMax
  BY <1>2, StickMaxType DEF Magnitude
<1> QED
  BY <1>2, <1>4, <1>5 DEF x

LEMMA BeybladeRange ==
  ASSUME Ranges, NEW steer \in Int, Magnitude(steer) <= StickMax, MAX_RPM' \in 0..DESIRED_RPM
  PROVE  Bounded(Beyblade(steer))
<1> DEFINE p == steer * MAX_RPM'
<1> DEFINE d == StickMax * 1000
<1>1. MAX_RPM' \in Nat /\ MAX_RPM' <= DESIRED_RPM /\ StickMax \in Nat \ {0}
  BY StickMaxType DEF DESIRED_RPM
<1>2. p \in Int /\ Magnitude(p) <= StickMax * MAX_RPM'
  BY <1>1, Product
<1>3. StickMax * MAX_RPM' <= StickMax * DESIRED_RPM
  <2>1. DESIRED_RPM \in Nat
    BY DEF DESIRED_RPM
  <2> QED
    BY <1>1, <2>1, Monotone
<1>4. d \in Nat \ {0} /\ Beyblade(steer) = IF remote'.rightVert = 0 THEN Truncated(p * 92, d) ELSE GH_RPM
  BY <1>1 DEF Beyblade
<1>5. d * DESIRED_RPM = 1000 * (StickMax * DESIRED_RPM)
  BY <1>1 DEF DESIRED_RPM
<1>6. StickMax * MAX_RPM' \in Int /\ StickMax * DESIRED_RPM \in Int /\ DESIRED_RPM \in Nat
  BY <1>1 DEF DESIRED_RPM
<1> HIDE DEF p, d
<1>7. p * 92 \in Int /\ Magnitude(p * 92) <= d * DESIRED_RPM
  <2>1. Magnitude(p) <= StickMax * DESIRED_RPM /\ Magnitude(p) \in Nat
    BY <1>2, <1>3, <1>6 DEF Magnitude
  <2>2. p * 92 \in Int /\ Magnitude(p * 92) = 92 * Magnitude(p)
    BY <1>2 DEF Magnitude
  <2> QED
    BY <1>5, <1>6, <2>1, <2>2
<1>8. Bounded(Truncated(p * 92, d))
  BY <1>4, <1>6, <1>7, TruncatedSign, TruncatedBound DEF Bounded
<1> QED
  BY <1>4, <1>8 DEF Ranges

LEMMA GimbalRange ==
  ASSUME Whole, ModesApart, Ranges, StickPositions, Read, MainControl
  PROVE  Bounded(GH_RPM') /\ Bounded(GV_RPM')
<1>1. MAX_RPM' \in 0..DESIRED_RPM /\ mode' \in 0..2 /\ GIMBAL_OVERRIDE' \in BOOLEAN
  BY PassComputes
<1>2. GIMBAL_RPM \in 0..DESIRED_RPM
  BY DEF GIMBAL_RPM, DESIRED_RPM
<1>3. Bounded(Scaled(remote'.rightHoriz, GIMBAL_RPM)) /\ Bounded(Scaled(remote'.rightVert, GIMBAL_RPM))
  BY <1>2, ReadType, ReadRange, BoundedScaled
<1>4. Bounded(-Scaled(remote'.rightHoriz, GIMBAL_RPM)) /\ Bounded(-Scaled(remote'.rightVert, GIMBAL_RPM))
  BY <1>3, BoundedRange
<1>5. Bounded(Beyblade(remote'.rightHoriz)) /\ Bounded(Beyblade(remote'.leftHoriz))
  BY <1>1, ReadType, ReadRange, BeybladeRange
<1>6. GV_RPM' = IF GIMBAL_OVERRIDE' THEN -Scaled(remote'.rightVert, GIMBAL_RPM) ELSE GV_RPM
  BY DEF MainControl
<1>7. GH_RPM' = IF GIMBAL_OVERRIDE' THEN -Scaled(remote'.rightHoriz, GIMBAL_RPM)
                ELSE IF mode' = 1 THEN Beyblade(remote'.rightHoriz)
                ELSE IF mode' = 2 THEN Beyblade(remote'.leftHoriz)
                ELSE GH_RPM
  BY DEF MainControl
<1>8. Bounded(GH_RPM) /\ Bounded(GV_RPM)
  BY DEF Ranges
<1> QED
  BY <1>4, <1>5, <1>6, <1>7, <1>8

\* In a driving mode the percentages add up to the whole, so the rails share
\* what the speed was scaled to.
LEMMA RailsRange ==
  ASSUME Whole, ModesApart, StickPositions, Read, MainControl,
         NEW steer \in Int, Magnitude(steer) <= StickMax, Drive(steer)
  PROVE  Bounded(LEFT_RAIL_RPM') /\ Bounded(RIGHT_RAIL_RPM') /\ RailsShareSpeed'
<1> DEFINE left == LEFT_RAIL_RPM'
<1> DEFINE right == RIGHT_RAIL_RPM'
<1> DEFINE c == CURR_RPM'
<1>1. /\ c \in Int /\ Magnitude(c) <= MAX_RPM'
      /\ percent_LR' \in 0..(2 * StickMax) /\ percent_RR' \in 0..(2 * StickMax)
      /\ percent_LR' + percent_RR' = 2 * StickMax
  BY DriveRange DEF Bounded
<1>2. MAX_RPM' \in Nat /\ MAX_RPM' <= DESIRED_RPM /\ 2 * StickMax \in Nat \ {0}
  BY PassLimit, StickMaxType
<1>3. /\ left = Truncated(percent_LR' * CURR_RPM', 2 * StickMax)
      /\ right = Truncated(percent_RR' * CURR_RPM', 2 * StickMax)
  BY DEF MainControl
<1>4. /\ left \in Int /\ right \in Int
      /\ Magnitude(left) + Magnitude(right) <= Magnitude(c)
      /\ left * right >= 0
  BY <1>1, <1>2, <1>3, Shares
<1>5. Magnitude(left) \in Nat /\ Magnitude(right) \in Nat /\ Magnitude(c) \in Nat
  BY <1>1, <1>4, MagnitudeType
<1>6. Magnitude(left) + Magnitude(right) <= MAX_RPM'
  BY <1>1, <1>2, <1>4, <1>5
<1>7. Bounded(left) /\ Bounded(right)
  BY <1>2, <1>4, <1>5, <1>6 DEF Bounded, DESIRED_RPM
<1> QED
  BY <1>4, <1>6, <1>7 DEF RailsShareSpeed, Magnitude

LEMMA PassRanges ==
  ASSUME StickPositions, Inv, Ranges, NEW due \in BOOLEAN, NEW room \in 0..2, Pass(due, room)
  PROVE  Ranges' /\ RailsShareSpeed'
<1>1. Whole /\ ModesApart /\ Read /\ MainControl
  BY DEF Inv, Pass
<1>2. Bounded(GH_RPM') /\ Bounded(GV_RPM') /\ mode' \in 0..2 /\ ModesApart'
  BY <1>1, GimbalRange, PassComputes
<1>3. /\ Bounded(CURR_RPM') /\ Bounded(LOAD_RPM') /\ Bounded(FEED_RPM')
      /\ Bounded(LEFT_RAIL_RPM') /\ Bounded(RIGHT_RAIL_RPM')
      /\ percent_LR' \in 0..(2 * StickMax) /\ percent_RR' \in 0..(2 * StickMax)
      /\ RailsShareSpeed'
  <2>1. CASE mode' = 0
    <3>1. /\ Bounded(CURR_RPM') /\ Bounded(LOAD_RPM') /\ Bounded(FEED_RPM')
          /\ percent_LR' = 0 /\ percent_RR' = 0
      BY <1>1, <1>2, <2>1, ModesControl, FireRange
    <3>2. LEFT_RAIL_RPM' = 0 /\ RIGHT_RAIL_RPM' = 0
      BY <1>2, <2>1 DEF ModesApart
    <3>3. 0 \in 0..(2 * StickMax) /\ Bounded(0) /\ MAX_RPM' \in Nat
      BY <1>1, BoundedRange, StickMaxType, PassLimit
    <3>4. RailsShareSpeed'
      BY <3>2, <3>3 DEF RailsShareSpeed, Magnitude
    <3> QED
      BY <3>1, <3>2, <3>3, <3>4
  <2>2. CASE mode' # 0
    <3>1. PICK steer \in Int : Drive(steer) /\ Magnitude(steer) <= StickMax
      BY <1>1, <1>2, <2>2, ModesControl, ReadType, ReadRange
    <3>2. /\ Bounded(CURR_RPM') /\ LOAD_RPM' = 0 /\ FEED_RPM' = 0
          /\ percent_LR' \in 0..(2 * StickMax) /\ percent_RR' \in 0..(2 * StickMax)
      BY <1>1, <3>1, DriveRange
    <3>3. Bounded(LEFT_RAIL_RPM') /\ Bounded(RIGHT_RAIL_RPM') /\ RailsShareSpeed' /\ Bounded(0)
      BY <1>1, <3>1, RailsRange, BoundedRange
    <3> QED
      BY <3>2, <3>3
  <2> QED
    BY <2>1, <2>2
<1>4. \A m \in Motor : Bounded(Commanded[m])
  BY <1>2, <1>3, BoundedRange DEF Commanded, Motor
<1>5. \A m \in Motor : Bounded(driven'[m])
  <2>1. CASE due
    BY <1>4, <2>1 DEF Pass, Send, Ranges
  <2>2. CASE ~due
    BY <2>2 DEF Pass, Ranges
  <2> QED
    BY <2>1, <2>2
<1> QED
  BY <1>2, <1>3, <1>5 DEF Ranges

LEMMA NextRanges ==
  ASSUME StickPositions
  PROVE  Inv /\ Ranges /\ RailsShareSpeed /\ [Next]_vars => Ranges' /\ RailsShareSpeed'
<1>1. SUFFICES ASSUME Inv, Ranges, RailsShareSpeed, [Next]_vars
               PROVE  Ranges' /\ RailsShareSpeed'
  OBVIOUS
<1>2. CASE Skip \/ UNCHANGED vars
  <2>1. UNCHANGED <<rpms, driven>>
    BY <1>2 DEF Skip, vars
  <2> QED
    BY <1>1, <2>1 DEF Ranges, RailsShareSpeed, rpms
<1>3. CASE \E due \in BOOLEAN, room \in 0..2 : Pass(due, room)
  BY <1>1, <1>3, PassRanges
<1> QED
  BY <1>1, <1>2, <1>3 DEF Next

LEMMA InitRanges == Init => Ranges /\ RailsShareSpeed
<1>1. SUFFICES ASSUME Init PROVE Ranges /\ RailsShareSpeed
  OBVIOUS
<1>2. 0 \in 0..(2 * StickMax) /\ Bounded(0)
  BY BoundedRange, StickMaxType
<1>3. Ranges
  BY <1>1, <1>2 DEF Init, Ranges
<1>4. RailsShareSpeed
  BY <1>1 DEF Init, RailsShareSpeed, Magnitude
<1> QED
  BY <1>3, <1>4

\* With sticks within their range, every speed is one the motors may be
\* asked for, in whatever order modes and positions follow one another.
THEOREM TypeCorrect ==
  ASSUME StickPositions
  PROVE  Spec => []TypeOK
<1>1. Inv /\ Ranges => TypeOK
  BY RangesGiveTypes DEF Inv
<1> QED
  BY InitInv, NextInv, InitRanges, NextRanges, <1>1, PTL DEF Spec

\* With sticks within their range, the rails never turn faster together than
\* the left switch allows one, nor against each other.
THEOREM RailsShare ==
  ASSUME StickPositions
  PROVE  Spec => []RailsShareSpeed
BY InitInv, NextInv, InitRanges, NextRanges, PTL DEF Spec
=============================================================================
