------------------------------ MODULE DjiMotors ------------------------------
(***************************************************************************)
(* DJI motors and the handlers that connect them to the two CAN buses:     *)
(* the motor stores of DjiMotorTxHandler and CanRxHandler, the outputs the *)
(* motors are asked for, and processCanSendData(), which packs the outputs *)
(* of a bus into two frames of four two-byte fields.  The speed            *)
(* controllers (external) read the field of their own identifier.          *)
(***************************************************************************)
EXTENDS Integers

CONSTANTS
  Motor,
  nullptr,
  BusOf,      \* getCanBus
  SlotOf,     \* DJI_MOTOR_NORMALIZED_ID of getMotorIdentifier: 0 for MOTOR1
  Inverted,   \* motors with isInverted
  Base,       \* values of a byte, 256 in the code
  Request     \* values handed to setDesiredOutput

Bus == 1..2
Slot == 0..7
Half == {"low", "high"}

ASSUME NullIsNoMotor == nullptr \notin Motor
ASSUME BusType == BusOf \in [Motor -> Bus]
ASSUME SlotType == SlotOf \in [Motor -> Slot]
ASSUME InvertedType == Inverted \subseteq Motor
ASSUME BaseType == Base \in Nat /\ Base % 2 = 0 /\ Base > 0
ASSUME RequestType == Request \subseteq Int

VARIABLES
  life,      \* "none" before the constructor and after the destructor,
             \* "built", "live" after initialize()
  desired,   \* desiredOutput
  txStore,   \* can1MotorStore and can2MotorStore
  rxStore,   \* messageHandlerStoreCan1 and messageHandlerStoreCan2
  heard,     \* output each speed controller was last told
  current,   \* buses whose controllers were all told since the last change
  pass       \* last processCanSendData(): its failures and its error
vars == <<life, desired, txStore, rxStore, heard, current, pass>>

-----------------------------------------------------------------------------
(* int16_t and bytes.                                                      *)

ShortMin == -((Base * Base) \div 2)
ShortMax == (Base * Base) \div 2 - 1
Int16(v) == ((v - ShortMin) % (Base * Base)) + ShortMin

limitVal(v, min, max) == IF v < min THEN min ELSE IF v > max THEN max ELSE v

OutputUnlimited(m, v) == IF m \in Inverted THEN -v ELSE v

Output(m, v) ==
  LET limited == Int16(limitVal(v, ShortMin, ShortMax)) IN
  IF m \in Inverted THEN Int16(-limited) ELSE limited

-----------------------------------------------------------------------------
(* Frames.                                                                 *)

HalfOfFirstThree(m) == IF SlotOf[m] + 1 < 4 THEN "low" ELSE "high"

HalfOf(m) == IF SlotOf[m] + 1 <= 4 THEN "low" ELSE "high"

\* serializeCanSendData of motor m into its message.
Serialize(frames, m) ==
  LET id == SlotOf[m] % 4 IN
  [frames EXCEPT ![HalfOf(m)][2 * id] = (desired[m] \div Base) % Base,
                 ![HalfOf(m)][2 * id + 1] = desired[m] % Base]

\* The two frames of a bus: zeroed, then filled store entry by store entry.
Frames(store) ==
  LET upTo[i \in 0..8] ==
        IF i = 0 THEN [h \in Half |-> [j \in 0..7 |-> 0]]
        ELSE IF store[i - 1] = nullptr THEN upTo[i - 1]
        ELSE Serialize(upTo[i - 1], store[i - 1])
  IN upTo[8]

\* The controller with identifier s + 1 reads field s of 0x200 or s - 4 of 0x1FF.
Listens(s) == IF s < 4 THEN "low" ELSE "high"
Heard(frames, s) ==
  LET data == frames[Listens(s)] IN
  Int16(data[2 * (s % 4)] * Base + data[2 * (s % 4) + 1])

-----------------------------------------------------------------------------
Init ==
  /\ life = [m \in Motor |-> "none"]
  /\ desired = [m \in Motor |-> 0]
  /\ txStore = [b \in Bus |-> [s \in Slot |-> nullptr]]
  /\ rxStore = txStore
  /\ heard = [b \in Bus |-> [s \in Slot |-> 0]]
  /\ current = {}
  /\ pass = [failures |-> 0, error |-> FALSE]

Construct(m) ==
  /\ life[m] = "none"
  /\ life' = [life EXCEPT ![m] = "built"]
  /\ desired' = [desired EXCEPT ![m] = 0]
  /\ UNCHANGED <<txStore, rxStore, heard, current, pass>>

\* The entry must be vacant.
addMotorToManager(m) ==
  /\ txStore[BusOf[m]][SlotOf[m]] = nullptr
  /\ txStore' = [txStore EXCEPT ![BusOf[m]][SlotOf[m]] = m]

\* The listener is stored whether or not its entry is vacant.
attachReceiveHandler(m) == rxStore' = [rxStore EXCEPT ![BusOf[m]][SlotOf[m]] = m]

Initialize(m) ==
  /\ life[m] = "built"
  /\ addMotorToManager(m) /\ attachReceiveHandler(m)
  /\ life' = [life EXCEPT ![m] = "live"]
  /\ current' = current \ {BusOf[m]}
  /\ UNCHANGED <<desired, heard, pass>>

\* Faulty variants (here and in the other sections): slips that each stop a property from
\* holding; no action uses them.
DestroyByBusOne(m) ==
  /\ life[m] # "none"
  /\ life' = [life EXCEPT ![m] = "none"]
  /\ txStore' = [txStore EXCEPT ![1][SlotOf[m]] = nullptr]
  /\ rxStore' = [rxStore EXCEPT ![1][SlotOf[m]] = nullptr]
  /\ current' = current \ {BusOf[m]}
  /\ UNCHANGED <<desired, heard, pass>>

\* The destructors of DjiMotor and CanRxListener empty the entries of the
\* motor's identifier, whoever is in them.
Destroy(m) ==
  /\ life[m] # "none"
  /\ life' = [life EXCEPT ![m] = "none"]
  /\ txStore' = [txStore EXCEPT ![BusOf[m]][SlotOf[m]] = nullptr]
  /\ rxStore' = [rxStore EXCEPT ![BusOf[m]][SlotOf[m]] = nullptr]
  /\ current' = current \ {BusOf[m]}
  /\ UNCHANGED <<desired, heard, pass>>

SetDesiredOutput(m, v) ==
  /\ life[m] # "none"
  /\ desired' = [desired EXCEPT ![m] = Output(m, v)]
  /\ current' = current \ {BusOf[m]}
  /\ UNCHANGED <<life, txStore, rxStore, heard, pass>>

\* room[b]: how many of the two frames the driver of bus b can still take;
\* isReadyToSend() is asked once, before the first.
ProcessCanSendData ==
  \E room \in [Bus -> 0..2] :
    LET ready == {b \in Bus : room[b] > 0}
        full  == {b \in Bus : room[b] = 2}
        told(b, s) == b \in full \/ (b \in ready /\ Listens(s) = "low")
    IN
    /\ heard' = [b \in Bus |->
                   LET frames == Frames(txStore[b]) IN
                   [s \in Slot |-> IF told(b, s) THEN Heard(frames, s) ELSE heard[b][s]]]
    /\ current' = current \cup full
    \* messageFailure collects what sendMessage() returned
    /\ pass' = [failures |-> (IF room[1] = 1 THEN 1 ELSE 0) + (IF room[2] = 1 THEN 1 ELSE 0),
                error |-> ready # {}]
    /\ UNCHANGED <<life, desired, txStore, rxStore>>

Next ==
  \/ \E m \in Motor : Construct(m) \/ Initialize(m) \/ Destroy(m)
  \/ \E m \in Motor, v \in Request : SetDesiredOutput(m, v)
  \/ ProcessCanSendData

Spec == Init /\ [][Next]_vars
-----------------------------------------------------------------------------
(* Properties.                                                             *)

Short == ShortMin..ShortMax

\* Every variable stays in its range; outputs are 16 bit integers.
TypeOK ==
  /\ life \in [Motor -> {"none", "built", "live"}]
  /\ desired \in [Motor -> Short]
  /\ txStore \in [Bus -> [Slot -> Motor \cup {nullptr}]]
  /\ rxStore \in [Bus -> [Slot -> Motor \cup {nullptr}]]
  /\ heard \in [Bus -> [Slot -> Short]]
  /\ current \in SUBSET Bus
  /\ pass \in [failures : 0..2, error : BOOLEAN]

\* After a pass that both frames of a bus survive, every controller of the
\* bus runs the output its own live motor was asked for, and one without a
\* live motor stands still: no field is swapped, shared, torn or left over.
ControllersFollowMotors ==
  \A b \in current, s \in Slot :
    LET here == {m \in Motor : life[m] = "live" /\ BusOf[m] = b /\ SlotOf[m] = s} IN
    IF here = {} THEN heard[b][s] = 0
    ELSE \E m \in here : heard[b][s] = desired[m]

\* Both handlers know exactly the live motors: commands go out to the motor
\* whose feedback comes in, whatever was constructed and destroyed before.
HandlersAgreeOnLiveMotors ==
  \A m \in Motor :
    /\ (life[m] = "live") <=> (txStore[BusOf[m]][SlotOf[m]] = m)
    /\ (life[m] = "live") <=> (rxStore[BusOf[m]][SlotOf[m]] = m)

\* RAISE_ERROR(drivers, "sendMessage failure"): the error is raised exactly
\* when a sendMessage() of the pass failed.
ErrorMeansFailure == pass.error = (pass.failures > 0)
=============================================================================
