-------------------------- MODULE DjiMotors_proofs --------------------------
(***************************************************************************)
(* DJI motors and their handlers, proved for any motors, requests and even *)
(* number of byte values: what two frames carry is what the motors of the  *)
(* bus were asked for, field by field.                                     *)
(***************************************************************************)
EXTENDS DjiMotors, TLAPS

-----------------------------------------------------------------------------
(* Shorts and bytes.                                                       *)

LEMMA Division ==
  ASSUME NEW q \in Nat \ {0}, NEW a \in Int
  PROVE  /\ a % q \in 0..q - 1
         /\ a = q * (a \div q) + (a % q)
         /\ a \div q \in Int
  OBVIOUS

LEMMA Remainder ==
  ASSUME NEW q \in Nat \ {0}, NEW k \in Int, NEW r \in 0..q - 1, NEW a \in Int,
         a = q * k + r
  PROVE  a % q = r
<1> DEFINE d == a \div q
<1> DEFINE e == a % q
<1>1. /\ e \in 0..q - 1 /\ a = q * d + e /\ d \in Int
  BY Division
<1> HIDE DEF d, e
<1>2. q * (k - d) = e - r
  <2>1. q * (k - d) = q * k - q * d /\ q * k \in Int /\ q * d \in Int
    BY <1>1
  <2> QED
    BY <1>1, <2>1
<1>3. k - d < 1
  <2>1. SUFFICES ASSUME k - d >= 1 PROVE FALSE
    BY <1>1
  <2>2. q * (k - d - 1) >= 0
    BY <1>1, <2>1
  <2>3. q * (k - d - 1) = q * (k - d) - q
    BY <1>1
  <2> QED
    BY <1>1, <1>2, <2>2, <2>3
<1>4. k - d > -1
  <2>1. SUFFICES ASSUME k - d <= -1 PROVE FALSE
    BY <1>1
  <2>2. q * (d - k - 1) >= 0
    BY <1>1, <2>1
  <2>3. q * (d - k - 1) = -(q * (k - d)) - q
    BY <1>1
  <2> QED
    BY <1>1, <1>2, <2>2, <2>3
<1>5. k = d
  BY <1>1, <1>3, <1>4
<1> QED
  BY <1>1, <1>2, <1>5 DEF e

Span == Base * Base

LEMMA ShortRange ==
  /\ Span \in Nat \ {0}
  /\ ShortMin \in Int /\ ShortMax = ShortMin + Span - 1
  /\ ShortMin <= 0 /\ 0 <= ShortMax
<1>1. PICK k \in Nat : Base = 2 * k /\ k > 0
  <2>1. Base = 2 * (Base \div 2) /\ Base \div 2 \in Nat /\ Base \div 2 > 0
    BY BaseType
  <2> QED
    BY <2>1
<1> DEFINE n == 2 * (k * k)
<1>2. k * k \in Nat /\ k * k >= k
  BY <1>1
<1>3. Span = 2 * n
  BY <1>1 DEF Span
<1>4. n \in Nat /\ n >= 1
  BY <1>1, <1>2
<1> HIDE DEF n
<1>5. Span \div 2 = n
  BY <1>3, <1>4
<1>6. ShortMin = -n /\ ShortMax = n - 1
  BY <1>5 DEF ShortMin, ShortMax, Span
<1> QED
  BY <1>3, <1>4, <1>6

LEMMA Int16Short ==
  ASSUME NEW v \in Int
  PROVE  Int16(v) \in Short
<1>1. (v - ShortMin) % Span \in 0..Span - 1
  BY ShortRange, Division
<1> DEFINE e == (v - ShortMin) % Span
<1>2. Int16(v) = e + ShortMin
  BY DEF Int16, Span
<1> HIDE DEF e
<1>3. e \in 0..Span - 1
  BY <1>1 DEF e
<1> QED
  BY <1>2, <1>3, ShortRange DEF Short

LEMMA Int16Wraps ==
  ASSUME NEW d \in Short, NEW k \in Int, NEW v \in Int, v = d + Span * k
  PROVE  Int16(v) = d
<1>1. d \in Int /\ d - ShortMin \in 0..Span - 1 /\ Span * k \in Int
  BY ShortRange DEF Short
<1>2. v - ShortMin = Span * k + (d - ShortMin)
  BY <1>1, ShortRange
<1>3. v - ShortMin \in Int /\ Span \in Nat \ {0}
  BY ShortRange
<1> DEFINE r == d - ShortMin
<1> DEFINE a == v - ShortMin
<1>4. a % Span = r
  <2>1. r \in 0..Span - 1 /\ a \in Int /\ a = Span * k + r /\ Span \in Nat \ {0}
    BY <1>1, <1>2, <1>3
  <2> HIDE DEF r, a
  <2> QED
    BY <2>1, Remainder, Zenon
<1>5. Int16(v) = (d - ShortMin) + ShortMin
  BY <1>4 DEF Int16, Span
<1> QED
  BY <1>1, <1>5, ShortRange

HighByte(v) == (v \div Base) % Base
LowByte(v) == v % Base

\* A short survives the way through two bytes.
LEMMA BytesCarryShorts ==
  ASSUME NEW d \in Short
  PROVE  /\ HighByte(d) \in Int /\ LowByte(d) \in Int
         /\ Int16(HighByte(d) * Base + LowByte(d)) = d
<1> DEFINE q == d \div Base
<1> DEFINE r == d % Base
<1> DEFINE p == q \div Base
<1> DEFINE h == q % Base
<1>1. Base \in Nat \ {0} /\ d \in Int
  BY BaseType, ShortRange DEF Short
<1>2. r \in 0..Base - 1 /\ d = Base * q + r /\ q \in Int
  BY <1>1, Division
<1>3. h \in 0..Base - 1 /\ q = Base * p + h /\ p \in Int
  BY <1>1, <1>2, Division
<1>4. HighByte(d) = h /\ LowByte(d) = r
  BY DEF HighByte, LowByte
<1> HIDE DEF q, r, p, h
<1>5. Base * q = Base * (Base * p) + Base * h
  BY <1>1, <1>3
<1>6. Base * (Base * p) = Span * p
  BY <1>1, <1>3 DEF Span
<1>7. Span * p \in Int /\ Span * (-p) = -(Span * p) /\ Base * h = h * Base /\ h * Base \in Int
  BY <1>1, <1>3, ShortRange
<1>8. h * Base + r = d + Span * (-p)
  BY <1>1, <1>2, <1>3, <1>5, <1>6, <1>7
<1>9. h * Base + r \in Int /\ -p \in Int
  BY <1>2, <1>3, <1>7
<1>10. Int16(h * Base + r) = d
  BY <1>8, <1>9, Int16Wraps, Zenon
<1> QED
  BY <1>2, <1>3, <1>4, <1>10

LEMMA ZeroShort == 0 \in Short /\ Int16(0 * Base + 0) = 0
<1>1. 0 \in Short
  BY ShortRange DEF Short
<1>2. 0 = 0 + Span * 0 /\ 0 * Base + 0 = 0
  BY ShortRange, BaseType
<1> QED
  BY <1>1, <1>2, Int16Wraps

LEMMA OutputShort ==
  ASSUME NEW m \in Motor, NEW v \in Int
  PROVE  Output(m, v) \in Short
<1> DEFINE limited == Int16(limitVal(v, ShortMin, ShortMax))
<1>1. limitVal(v, ShortMin, ShortMax) \in Int
  BY ShortRange DEF limitVal
<1>2. limited \in Short
  BY <1>1, Int16Short
<1>3. Output(m, v) = IF m \in Inverted THEN Int16(-limited) ELSE limited
  BY DEF Output
<1> HIDE DEF limited
<1>4. -limited \in Int
  BY <1>2, ShortRange DEF Short
<1> QED
  BY <1>2, <1>3, <1>4, Int16Short

-----------------------------------------------------------------------------
(* Frames.  Field j of frame h belongs to one slot; after i entries of the *)
(* store, the fields of the first i slots are filled.                      *)

Owner(h, j) == (IF h = "low" THEN 0 ELSE 4) + (j \div 2)

Byte(store, s, j) ==
  IF store[s] = nullptr THEN 0
  ELSE IF j % 2 = 0 THEN HighByte(desired[store[s]]) ELSE LowByte(desired[store[s]])

Filled(store, i) ==
  [h \in Half |-> [j \in 0..7 |-> IF Owner(h, j) < i THEN Byte(store, Owner(h, j), j) ELSE 0]]

\* A store whose motors are at their own slots.
InPlace(store) ==
  /\ store \in [Slot -> Motor \cup {nullptr}]
  /\ \A s \in Slot : store[s] # nullptr => SlotOf[store[s]] = s

LEMMA FieldsOfSlot ==
  ASSUME NEW s \in Slot, NEW h \in Half, NEW j \in 0..7, NEW at \in Half,
         at = IF s + 1 <= 4 THEN "low" ELSE "high"
  PROVE  /\ Owner(h, j) \in Slot
         /\ (h = at /\ j = 2 * (s % 4)) <=> (Owner(h, j) = s /\ j % 2 = 0)
         /\ (h = at /\ j = 2 * (s % 4) + 1) <=> (Owner(h, j) = s /\ j % 2 # 0)
<1>1. s \in {0, 1, 2, 3, 4, 5, 6, 7} /\ j \in {0, 1, 2, 3, 4, 5, 6, 7}
  BY DEF Slot
<1>2. h \in {"low", "high"}
  BY DEF Half
<1>3. /\ j \div 2 = (IF j < 2 THEN 0 ELSE IF j < 4 THEN 1 ELSE IF j < 6 THEN 2 ELSE 3)
      /\ j % 2 = (IF j \in {0, 2, 4, 6} THEN 0 ELSE 1)
      /\ s % 4 = (IF s < 4 THEN s ELSE s - 4)
  BY <1>1
<1> QED
  BY <1>1, <1>2, <1>3 DEF Owner, Slot

LEMMA OneMoreEntry ==
  ASSUME NEW store, InPlace(store), NEW i \in 1..8
  PROVE  Filled(store, i) = IF store[i - 1] = nullptr THEN Filled(store, i - 1)
                            ELSE Serialize(Filled(store, i - 1), store[i - 1])
<1> DEFINE s == i - 1
<1>1. s \in Slot /\ s = i - 1 /\ s + 1 = i
  BY DEF Slot
<1>2. CASE store[s] = nullptr
  <2>1. ASSUME NEW h \in Half, NEW j \in 0..7
        PROVE  Filled(store, i)[h][j] = Filled(store, i - 1)[h][j]
    <3>1. Owner(h, j) \in Int
      BY DEF Owner, Half
    <3>2. CASE Owner(h, j) = s
      BY <1>1, <1>2, <3>1, <3>2 DEF Filled, Byte
    <3>3. CASE Owner(h, j) # s
      <4>1. (Owner(h, j) < i) <=> (Owner(h, j) < i - 1)
        BY <1>1, <3>1, <3>3
      <4> QED
        BY <4>1 DEF Filled
    <3> QED
      BY <3>2, <3>3
  <2>2. Filled(store, i) = Filled(store, i - 1)
    BY <2>1 DEF Filled
  <2> QED
    BY <1>2, <2>2
<1>3. CASE store[s] # nullptr
  <2> DEFINE m == store[s]
  <2> DEFINE f == Filled(store, i - 1)
  <2> DEFINE g == Serialize(f, m)
  <2>1. m \in Motor /\ SlotOf[m] = s
    BY <1>1, <1>3 DEF InPlace
  <2>2. HalfOf(m) \in Half /\ HalfOf(m) = IF s + 1 <= 4 THEN "low" ELSE "high"
    BY <2>1 DEF HalfOf, Half
  <2>3. ASSUME NEW h \in Half, NEW j \in 0..7
        PROVE  g[h][j] = IF h = HalfOf(m) /\ j = 2 * (s % 4) THEN HighByte(desired[m])
                         ELSE IF h = HalfOf(m) /\ j = 2 * (s % 4) + 1 THEN LowByte(desired[m])
                         ELSE f[h][j]
    <3>1. s % 4 \in 0..3
      BY <1>1 DEF Slot
    <3> QED
      BY <2>1, <2>2, <3>1 DEF Serialize, Filled, HighByte, LowByte
  <2>4. g = [h \in Half |-> [j \in 0..7 |-> g[h][j]]]
    BY <2>1, <2>2 DEF Serialize, Filled
  <2>5. ASSUME NEW h \in Half, NEW j \in 0..7
        PROVE  Filled(store, i)[h][j] = g[h][j]
    <3>1. /\ Owner(h, j) \in Slot
          /\ (h = HalfOf(m) /\ j = 2 * (s % 4)) <=> (Owner(h, j) = s /\ j % 2 = 0)
          /\ (h = HalfOf(m) /\ j = 2 * (s % 4) + 1) <=> (Owner(h, j) = s /\ j % 2 # 0)
      BY <1>1, <2>2, FieldsOfSlot
    <3>2. CASE Owner(h, j) = s
      <4>1. s < i /\ (j % 2 = 0 \/ j % 2 # 0)
        BY <1>1 DEF Slot
      <4>2. Filled(store, i)[h][j] = Byte(store, s, j)
        BY <3>2, <4>1 DEF Filled
      <4>3. Byte(store, s, j) = IF j % 2 = 0 THEN HighByte(desired[m]) ELSE LowByte(desired[m])
        BY <1>3 DEF Byte
      <4>4. g[h][j] = IF j % 2 = 0 THEN HighByte(desired[m]) ELSE LowByte(desired[m])
        BY <2>3, <3>1, <3>2, Zenon
      <4> QED
        BY <4>2, <4>3, <4>4
    <3>3. CASE Owner(h, j) # s
      <4>1. (Owner(h, j) < i) <=> (Owner(h, j) < i - 1)
        BY <1>1, <3>1, <3>3 DEF Slot
      <4>2. g[h][j] = f[h][j]
        BY <2>3, <3>1, <3>3
      <4> QED
        BY <4>1, <4>2 DEF Filled
    <3> QED
      BY <3>2, <3>3
  <2>6. Filled(store, i) = g
    BY <2>4, <2>5 DEF Filled
  <2> QED
    BY <1>3, <2>6
<1> QED
  BY <1>2, <1>3

\* The recursion of Frames as an equation.
Zero == [h \in Half |-> [j \in 0..7 |-> 0]]

Fills(f, store) ==
  f = [i \in 0..8 |-> IF i = 0 THEN Zero
                      ELSE IF store[i - 1] = nullptr THEN f[i - 1]
                      ELSE Serialize(f[i - 1], store[i - 1])]

LEMMA NothingFilled ==
  ASSUME NEW store
  PROVE  Filled(store, 0) = Zero
<1>1. ASSUME NEW h \in Half, NEW j \in 0..7 PROVE ~(Owner(h, j) < 0)
  BY DEF Owner, Half
<1> QED
  BY <1>1 DEF Filled, Zero

LEMMA FilledFills ==
  ASSUME NEW store, InPlace(store)
  PROVE  \E g : Fills(g, store)
<1> DEFINE g == [i \in 0..8 |-> Filled(store, i)]
<1>1. ASSUME NEW i \in 0..8
      PROVE  g[i] = IF i = 0 THEN Zero
                    ELSE IF store[i - 1] = nullptr THEN g[i - 1]
                    ELSE Serialize(g[i - 1], store[i - 1])
  <2>1. CASE i = 0
    BY <2>1, NothingFilled
  <2>2. CASE i # 0
    <3>1. i \in 1..8 /\ i - 1 \in 0..8
      BY <2>2
    <3>2. g[i] = Filled(store, i) /\ g[i - 1] = Filled(store, i - 1)
      BY <3>1
    <3>3. Filled(store, i) = IF store[i - 1] = nullptr THEN Filled(store, i - 1)
                             ELSE Serialize(Filled(store, i - 1), store[i - 1])
      BY <3>1, OneMoreEntry
    <3> HIDE DEF g
    <3> QED
      BY <2>2, <3>2, <3>3
  <2> QED
    BY <2>1, <2>2
<1>2. g = [i \in 0..8 |-> g[i]]
  OBVIOUS
<1> HIDE DEF g
<1>3. Fills(g, store)
  BY <1>1, <1>2 DEF Fills
<1> QED
  BY <1>3

LEMMA FillsIsFilled ==
  ASSUME NEW store, InPlace(store), NEW f, Fills(f, store)
  PROVE  f[8] = Filled(store, 8)
<1>1. f[0] = Filled(store, 0)
  BY NothingFilled DEF Fills
<1>2. ASSUME NEW i \in 1..8, f[i - 1] = Filled(store, i - 1)
      PROVE  f[i] = Filled(store, i)
  <2>1. f[i] = IF store[i - 1] = nullptr THEN f[i - 1] ELSE Serialize(f[i - 1], store[i - 1])
    BY DEF Fills
  <2> QED
    BY <1>2, <2>1, OneMoreEntry
<1>3. f[1] = Filled(store, 1)
  BY <1>1, <1>2
<1>4. f[2] = Filled(store, 2)
  BY <1>2, <1>3
<1>5. f[3] = Filled(store, 3)
  BY <1>2, <1>4
<1>6. f[4] = Filled(store, 4)
  BY <1>2, <1>5
<1>7. f[5] = Filled(store, 5)
  BY <1>2, <1>6
<1>8. f[6] = Filled(store, 6)
  BY <1>2, <1>7
<1>9. f[7] = Filled(store, 7)
  BY <1>2, <1>8
<1> QED
  BY <1>2, <1>9

LEMMA FramesAreFilled ==
  ASSUME NEW store, InPlace(store)
  PROVE  Frames(store) = Filled(store, 8)
<1>1. Frames(store) = (CHOOSE f : Fills(f, store))[8]
  BY DEF Frames, Fills, Zero
<1>2. Fills(CHOOSE f : Fills(f, store), store)
  BY FilledFills
<1> QED
  BY <1>1, <1>2, FillsIsFilled

\* What the controller of a slot reads: its own motor's output, or nothing.
Meant(store, s) == IF store[s] = nullptr THEN 0 ELSE desired[store[s]]

LEMMA HeardIsMeant ==
  ASSUME NEW store, InPlace(store), desired \in [Motor -> Short], NEW s \in Slot
  PROVE  Heard(Frames(store), s) = Meant(store, s) /\ Meant(store, s) \in Short
<1> DEFINE h == Listens(s)
<1> DEFINE j == 2 * (s % 4)
<1>1. /\ h \in Half /\ h = IF s + 1 <= 4 THEN "low" ELSE "high"
      /\ j \in 0..7 /\ j + 1 \in 0..7
  BY DEF Listens, Half, Slot
<1>2. Owner(h, j) = s /\ j % 2 = 0 /\ Owner(h, j + 1) = s /\ (j + 1) % 2 # 0
  BY <1>1, FieldsOfSlot
<1>3. s < 8
  BY DEF Slot
<1>4. /\ Filled(store, 8)[h][j] = Byte(store, s, j)
      /\ Filled(store, 8)[h][j + 1] = Byte(store, s, j + 1)
  BY <1>1, <1>2, <1>3 DEF Filled
<1>5. Heard(Frames(store), s) = Int16(Byte(store, s, j) * Base + Byte(store, s, j + 1))
  BY <1>4, FramesAreFilled DEF Heard
<1>6. CASE store[s] = nullptr
  BY <1>5, <1>6, ZeroShort DEF Byte, Meant
<1>7. CASE store[s] # nullptr
  <2>1. desired[store[s]] \in Short
    BY <1>7 DEF InPlace
  <2>2. Byte(store, s, j) = HighByte(desired[store[s]]) /\ Byte(store, s, j + 1) = LowByte(desired[store[s]])
    BY <1>2, <1>7 DEF Byte
  <2> QED
    BY <1>5, <1>7, <2>1, <2>2, BytesCarryShorts DEF Meant
<1> QED
  BY <1>6, <1>7

-----------------------------------------------------------------------------
(* The inductive invariant.                                                *)

Stores == [Bus -> [Slot -> Motor \cup {nullptr}]]

\* An entry holds only a live motor of that bus and identifier.
Registered(store) ==
  \A b \in Bus, s \in Slot :
    store[b][s] # nullptr => /\ BusOf[store[b][s]] = b
                             /\ SlotOf[store[b][s]] = s
                             /\ life[store[b][s]] = "live"

Told ==
  \A b \in current, s \in Slot : heard[b][s] = Meant(txStore[b], s)

Inv == TypeOK /\ Registered(txStore) /\ Registered(rxStore) /\ Told

LEMMA RegisteredInPlace ==
  ASSUME NEW store \in Stores, Registered(store), NEW b \in Bus
  PROVE  InPlace(store[b])
BY DEF Stores, Registered, InPlace

LEMMA InitInv == Init => Inv
<1>1. SUFFICES ASSUME Init PROVE Inv
  OBVIOUS
<1>2. TypeOK
  BY <1>1, ZeroShort DEF Init, TypeOK
<1>3. Registered(txStore) /\ Registered(rxStore)
  BY <1>1 DEF Init, Registered
<1>4. Told
  BY <1>1 DEF Init, Told
<1> QED
  BY <1>2, <1>3, <1>4 DEF Inv

\* What registering a motor, or taking it out, leaves of the stores.
LEMMA BothReplaced ==
  ASSUME NEW m \in Motor, NEW x \in {m, nullptr}, txStore \in Stores, rxStore \in Stores,
         txStore' = [txStore EXCEPT ![BusOf[m]][SlotOf[m]] = x],
         rxStore' = [rxStore EXCEPT ![BusOf[m]][SlotOf[m]] = x]
  PROVE  /\ txStore' \in Stores /\ rxStore' \in Stores
         /\ BusOf[m] \in Bus /\ SlotOf[m] \in Slot
         /\ \A b \in Bus, s \in Slot :
              /\ txStore'[b][s] = IF b = BusOf[m] /\ s = SlotOf[m] THEN x ELSE txStore[b][s]
              /\ rxStore'[b][s] = IF b = BusOf[m] /\ s = SlotOf[m] THEN x ELSE rxStore[b][s]
<1>1. /\ txStore' \in Stores
      /\ \A b \in Bus, s \in Slot :
           txStore'[b][s] = IF b = BusOf[m] /\ s = SlotOf[m] THEN x ELSE txStore[b][s]
  BY BusType, SlotType DEF Stores
<1>2. /\ rxStore' \in Stores
      /\ \A b \in Bus, s \in Slot :
           rxStore'[b][s] = IF b = BusOf[m] /\ s = SlotOf[m] THEN x ELSE rxStore[b][s]
  BY BusType, SlotType DEF Stores
<1>3. BusOf[m] \in Bus /\ SlotOf[m] \in Slot
  BY BusType, SlotType
<1> QED
  BY <1>1, <1>2, <1>3

LEMMA ConstructKeeps ==
  ASSUME Inv, NEW m \in Motor, Construct(m)
  PROVE  Inv'
<1>1. TypeOK'
  BY ZeroShort DEF Inv, TypeOK, Construct
<1>2. /\ life[m] = "none" /\ txStore' = txStore /\ rxStore' = rxStore
      /\ \A n \in Motor : n # m => life'[n] = life[n] /\ desired'[n] = desired[n]
  BY DEF Inv, TypeOK, Construct
<1>3. \A b \in Bus, s \in Slot : /\ txStore[b][s] \in (Motor \ {m}) \cup {nullptr}
                                 /\ rxStore[b][s] \in (Motor \ {m}) \cup {nullptr}
  BY <1>2 DEF Inv, TypeOK, Registered
<1>4. Registered(txStore)' /\ Registered(rxStore)'
  BY <1>2, <1>3 DEF Inv, Registered
<1>5. Told'
  <2>1. SUFFICES ASSUME NEW b \in current, NEW s \in Slot
                 PROVE  heard[b][s] = Meant(txStore[b], s)'
    BY DEF Told, Construct
  <2>2. b \in Bus
    BY DEF Inv, TypeOK
  <2>3. Meant(txStore[b], s)' = Meant(txStore[b], s)
    BY <1>2, <1>3, <2>2 DEF Meant
  <2> QED
    BY <2>3 DEF Inv, Told
<1> QED
  BY <1>1, <1>4, <1>5 DEF Inv

LEMMA InitializeKeeps ==
  ASSUME Inv, NEW m \in Motor, Initialize(m)
  PROVE  Inv'
<1>1. /\ txStore \in Stores /\ rxStore \in Stores
      /\ txStore' = [txStore EXCEPT ![BusOf[m]][SlotOf[m]] = m]
      /\ rxStore' = [rxStore EXCEPT ![BusOf[m]][SlotOf[m]] = m]
      /\ life' = [life EXCEPT ![m] = "live"] /\ desired' = desired /\ heard' = heard
      /\ current' = current \ {BusOf[m]} /\ pass' = pass
  BY DEF Inv, TypeOK, Stores, Initialize, addMotorToManager, attachReceiveHandler
<1>2. txStore' \in Stores /\ rxStore' \in Stores /\ BusOf[m] \in Bus /\ SlotOf[m] \in Slot
  BY <1>1, BothReplaced
<1>3. \A b \in Bus, s \in Slot :
        /\ txStore'[b][s] = IF b = BusOf[m] /\ s = SlotOf[m] THEN m ELSE txStore[b][s]
        /\ rxStore'[b][s] = IF b = BusOf[m] /\ s = SlotOf[m] THEN m ELSE rxStore[b][s]
  BY <1>1, BothReplaced
<1>4. life'[m] = "live" /\ \A n \in Motor : life[n] = "live" => life'[n] = "live"
  BY <1>1 DEF Inv, TypeOK
<1>5. TypeOK'
  BY <1>1, <1>2 DEF Inv, TypeOK, Stores
<1>6. Registered(txStore)' /\ Registered(rxStore)'
  BY <1>1, <1>3, <1>4 DEF Inv, Registered, Stores
<1>7. Told'
  <2>1. SUFFICES ASSUME NEW b \in current', NEW s \in Slot
                 PROVE  heard[b][s] = Meant(txStore[b], s)'
    BY <1>1 DEF Told
  <2>2. b \in current /\ b \in Bus /\ b # BusOf[m]
    BY <1>1 DEF Inv, TypeOK
  <2>3. Meant(txStore[b], s)' = Meant(txStore[b], s)
    BY <1>1, <1>3, <2>2 DEF Meant
  <2> QED
    BY <2>2, <2>3 DEF Inv, Told
<1> QED
  BY <1>5, <1>6, <1>7 DEF Inv

LEMMA DestroyKeeps ==
  ASSUME Inv, NEW m \in Motor, Destroy(m)
  PROVE  Inv'
<1>1. /\ txStore \in Stores /\ rxStore \in Stores
      /\ txStore' = [txStore EXCEPT ![BusOf[m]][SlotOf[m]] = nullptr]
      /\ rxStore' = [rxStore EXCEPT ![BusOf[m]][SlotOf[m]] = nullptr]
      /\ life' = [life EXCEPT ![m] = "none"] /\ desired' = desired /\ heard' = heard
      /\ current' = current \ {BusOf[m]} /\ pass' = pass
  BY DEF Inv, TypeOK, Stores, Destroy
<1>2. txStore' \in Stores /\ rxStore' \in Stores /\ BusOf[m] \in Bus /\ SlotOf[m] \in Slot
  BY <1>1, BothReplaced
<1>3. \A b \in Bus, s \in Slot :
        /\ txStore'[b][s] = IF b = BusOf[m] /\ s = SlotOf[m] THEN nullptr ELSE txStore[b][s]
        /\ rxStore'[b][s] = IF b = BusOf[m] /\ s = SlotOf[m] THEN nullptr ELSE rxStore[b][s]
  BY <1>1, BothReplaced
<1>4. \A n \in Motor : n # m => life'[n] = life[n]
  BY <1>1 DEF Inv, TypeOK
<1>5. TypeOK'
  BY <1>1, <1>2 DEF Inv, TypeOK, Stores
<1>6. Registered(txStore)' /\ Registered(rxStore)'
  BY <1>1, <1>3, <1>4, NullIsNoMotor DEF Inv, Registered, Stores
<1>7. Told'
  <2>1. SUFFICES ASSUME NEW b \in current', NEW s \in Slot
                 PROVE  heard[b][s] = Meant(txStore[b], s)'
    BY <1>1 DEF Told
  <2>2. b \in current /\ b \in Bus /\ b # BusOf[m]
    BY <1>1 DEF Inv, TypeOK
  <2>3. Meant(txStore[b], s)' = Meant(txStore[b], s)
    BY <1>1, <1>3, <2>2 DEF Meant
  <2> QED
    BY <2>2, <2>3 DEF Inv, Told
<1> QED
  BY <1>5, <1>6, <1>7 DEF Inv

LEMMA SetDesiredOutputKeeps ==
  ASSUME Inv, NEW m \in Motor, NEW v \in Request, SetDesiredOutput(m, v)
  PROVE  Inv'
<1>1. Output(m, v) \in Short
  BY OutputShort, RequestType
<1>2. TypeOK'
  BY <1>1 DEF Inv, TypeOK, SetDesiredOutput
<1>3. Registered(txStore)' /\ Registered(rxStore)'
  BY DEF Inv, Registered, SetDesiredOutput
<1>4. Told'
  <2>1. SUFFICES ASSUME NEW b \in current', NEW s \in Slot
                 PROVE  heard[b][s] = Meant(txStore[b], s)'
    BY DEF Told, SetDesiredOutput
  <2>2. b \in current /\ b \in Bus /\ b # BusOf[m]
    BY DEF Inv, TypeOK, SetDesiredOutput
  <2>3. txStore[b][s] \in (Motor \ {m}) \cup {nullptr}
    BY <2>2 DEF Inv, TypeOK, Registered
  <2>4. Meant(txStore[b], s)' = Meant(txStore[b], s)
    BY <2>3 DEF Meant, SetDesiredOutput, Inv, TypeOK
  <2> QED
    BY <2>2, <2>4 DEF Inv, Told
<1> QED
  BY <1>2, <1>3, <1>4 DEF Inv

LEMMA ProcessCanSendDataKeeps ==
  ASSUME Inv, ProcessCanSendData
  PROVE  Inv'
<1>1. PICK room \in [Bus -> 0..2] :
        LET ready == {b \in Bus : room[b] > 0}
            full  == {b \in Bus : room[b] = 2}
            told(b, s) == b \in full \/ (b \in ready /\ Listens(s) = "low")
        IN
        /\ heard' = [b \in Bus |->
                       LET frames == Frames(txStore[b]) IN
                       [s \in Slot |-> IF told(b, s) THEN Heard(frames, s) ELSE heard[b][s]]]
        /\ current' = current \cup full
        /\ pass' = [failures |-> (IF room[1] = 1 THEN 1 ELSE 0) + (IF room[2] = 1 THEN 1 ELSE 0),
                    error |-> ready # {}]
        /\ UNCHANGED <<life, desired, txStore, rxStore>>
  BY DEF ProcessCanSendData
<1> DEFINE told(b, s) == room[b] = 2 \/ (room[b] > 0 /\ Listens(s) = "low")
<1>2. /\ heard' = [b \in Bus |-> [s \in Slot |->
                     IF told(b, s) THEN Heard(Frames(txStore[b]), s) ELSE heard[b][s]]]
      /\ current' = current \cup {b \in Bus : room[b] = 2}
      /\ life' = life /\ desired' = desired /\ txStore' = txStore /\ rxStore' = rxStore
  BY <1>1
<1>3. \A b \in Bus, s \in Slot : /\ Heard(Frames(txStore[b]), s) = Meant(txStore[b], s)
                                 /\ Meant(txStore[b], s) \in Short
  <2>1. SUFFICES ASSUME NEW b \in Bus, NEW s \in Slot
                 PROVE  /\ Heard(Frames(txStore[b]), s) = Meant(txStore[b], s)
                        /\ Meant(txStore[b], s) \in Short
    OBVIOUS
  <2>2. InPlace(txStore[b]) /\ desired \in [Motor -> Short]
    BY RegisteredInPlace DEF Inv, TypeOK, Stores
  <2> QED
    BY <2>2, HeardIsMeant
<1>4. heard' = [b \in Bus |-> [s \in Slot |->
                  IF told(b, s) THEN Meant(txStore[b], s) ELSE heard[b][s]]]
  BY <1>2, <1>3
<1> HIDE DEF told
<1>5. TypeOK'
  <2>1. heard' \in [Bus -> [Slot -> Short]]
    BY <1>3, <1>4 DEF Inv, TypeOK
  <2>2. pass' \in [failures : 0..2, error : BOOLEAN]
    BY <1>1
  <2>3. current' \in SUBSET Bus
    BY <1>2 DEF Inv, TypeOK
  <2> QED
    BY <1>2, <2>1, <2>2, <2>3 DEF Inv, TypeOK
<1>6. Registered(txStore)' /\ Registered(rxStore)'
  BY <1>2 DEF Inv, Registered
<1>7. Told'
  <2>1. SUFFICES ASSUME NEW b \in current', NEW s \in Slot
                 PROVE  heard'[b][s] = Meant(txStore[b], s)
    BY <1>2 DEF Told, Meant
  <2>2. b \in Bus
    BY <1>2 DEF Inv, TypeOK
  <2>3. CASE told(b, s)
    BY <1>4, <2>2, <2>3
  <2>4. CASE ~told(b, s)
    <3>1. b \in current
      BY <1>2, <2>4 DEF told
    <3> QED
      BY <1>4, <2>2, <2>4, <3>1 DEF Inv, Told
  <2> QED
    BY <2>3, <2>4
<1> QED
  BY <1>5, <1>6, <1>7 DEF Inv

LEMMA NextInv == Inv /\ [Next]_vars => Inv'
<1>1. SUFFICES ASSUME Inv, [Next]_vars PROVE Inv'
  OBVIOUS
<1>2. CASE \E m \in Motor : Construct(m)
  BY <1>1, <1>2, ConstructKeeps
<1>3. CASE \E m \in Motor : Initialize(m)
  BY <1>1, <1>3, InitializeKeeps
<1>4. CASE \E m \in Motor : Destroy(m)
  BY <1>1, <1>4, DestroyKeeps
<1>5. CASE \E m \in Motor, v \in Request : SetDesiredOutput(m, v)
  BY <1>1, <1>5, SetDesiredOutputKeeps
<1>6. CASE ProcessCanSendData
  BY <1>1, <1>6, ProcessCanSendDataKeeps
<1>7. CASE UNCHANGED vars
  BY <1>1, <1>7 DEF vars, Inv, TypeOK, Registered, Told, Meant
<1> QED
  BY <1>1, <1>2, <1>3, <1>4, <1>5, <1>6, <1>7 DEF Next

\* What a motor is asked for fits the 16 bits of its field, and the stores
\* hold motors: for whatever motors, twins included, and whatever requests.
THEOREM TypeCorrect == Spec => []TypeOK
<1>1. Inv => TypeOK
  BY DEF Inv
<1> QED
  BY InitInv, NextInv, <1>1, PTL DEF Spec

\* Every controller of a bus that was served runs what the motor in its own
\* entry of the store was asked for, or stands still if the entry is empty.
THEOREM FramesCarryOutputs == Spec => []Told
<1>1. Inv => Told
  BY DEF Inv
<1> QED
  BY InitInv, NextInv, <1>1, PTL DEF Spec

-----------------------------------------------------------------------------
(* Two motors with one identifier on one bus unregister each other: the    *)
(* destructor of the one that never got in empties the entry of the other. *)
(* The agreement of the handlers with the motors is about programs that    *)
(* keep identifiers apart, as the nine motors of main.cpp do.              *)

DistinctIdentifiers ==
  \A m, n \in Motor : BusOf[m] = BusOf[n] /\ SlotOf[m] = SlotOf[n] => m = n

LiveRegistered ==
  \A m \in Motor : life[m] = "live" => /\ txStore[BusOf[m]][SlotOf[m]] = m
                                       /\ rxStore[BusOf[m]][SlotOf[m]] = m

LEMMA NextLiveRegistered ==
  ASSUME DistinctIdentifiers
  PROVE  Inv /\ LiveRegistered /\ [Next]_vars => LiveRegistered'
<1>1. SUFFICES ASSUME Inv, LiveRegistered, [Next]_vars, NEW n \in Motor, life'[n] = "live"
               PROVE  txStore'[BusOf[n]][SlotOf[n]] = n /\ rxStore'[BusOf[n]][SlotOf[n]] = n
  BY DEF LiveRegistered
<1>2. /\ BusOf[n] \in Bus /\ SlotOf[n] \in Slot
      /\ txStore \in Stores /\ rxStore \in Stores
  BY <1>1, BusType, SlotType DEF Inv, TypeOK, Stores
<1>3. ASSUME NEW m \in Motor, Construct(m)
      PROVE  txStore'[BusOf[n]][SlotOf[n]] = n /\ rxStore'[BusOf[n]][SlotOf[n]] = n
  <2>1. life[n] = "live"
    BY <1>1, <1>3 DEF Construct, Inv, TypeOK
  <2> QED
    BY <1>1, <1>3, <2>1 DEF Construct, LiveRegistered
<1>4. ASSUME NEW m \in Motor, Initialize(m)
      PROVE  txStore'[BusOf[n]][SlotOf[n]] = n /\ rxStore'[BusOf[n]][SlotOf[n]] = n
  <2>1. \A b \in Bus, s \in Slot :
          /\ txStore'[b][s] = IF b = BusOf[m] /\ s = SlotOf[m] THEN m ELSE txStore[b][s]
          /\ rxStore'[b][s] = IF b = BusOf[m] /\ s = SlotOf[m] THEN m ELSE rxStore[b][s]
    BY <1>2, <1>4, BothReplaced DEF Initialize, addMotorToManager, attachReceiveHandler
  <2>2. CASE n = m
    BY <1>2, <2>1, <2>2
  <2>3. CASE n # m
    <3>1. life[n] = "live"
      BY <1>1, <1>4, <2>3 DEF Initialize, Inv, TypeOK
    <3> QED
      BY <1>1, <1>2, <2>1, <2>3, <3>1 DEF LiveRegistered, DistinctIdentifiers
  <2> QED
    BY <2>2, <2>3
<1>5. ASSUME NEW m \in Motor, Destroy(m)
      PROVE  txStore'[BusOf[n]][SlotOf[n]] = n /\ rxStore'[BusOf[n]][SlotOf[n]] = n
  <2>1. \A b \in Bus, s \in Slot :
          /\ txStore'[b][s] = IF b = BusOf[m] /\ s = SlotOf[m] THEN nullptr ELSE txStore[b][s]
          /\ rxStore'[b][s] = IF b = BusOf[m] /\ s = SlotOf[m] THEN nullptr ELSE rxStore[b][s]
    BY <1>2, <1>5, BothReplaced DEF Destroy
  <2>2. n # m /\ life[n] = "live"
    BY <1>1, <1>5 DEF Destroy, Inv, TypeOK
  <2> QED
    BY <1>1, <1>2, <2>1, <2>2 DEF LiveRegistered, DistinctIdentifiers
<1>6. ASSUME NEW m \in Motor, NEW v \in Request, SetDesiredOutput(m, v)
      PROVE  txStore'[BusOf[n]][SlotOf[n]] = n /\ rxStore'[BusOf[n]][SlotOf[n]] = n
  BY <1>1, <1>6 DEF SetDesiredOutput, LiveRegistered
<1>7. ASSUME ProcessCanSendData
      PROVE  txStore'[BusOf[n]][SlotOf[n]] = n /\ rxStore'[BusOf[n]][SlotOf[n]] = n
  BY <1>1, <1>7 DEF ProcessCanSendData, LiveRegistered
<1>8. ASSUME UNCHANGED vars
      PROVE  txStore'[BusOf[n]][SlotOf[n]] = n /\ rxStore'[BusOf[n]][SlotOf[n]] = n
  BY <1>1, <1>8 DEF vars, LiveRegistered
<1> QED
  BY <1>1, <1>3, <1>4, <1>5, <1>6, <1>7, <1>8 DEF Next

\* As long as no two motors share an identifier, both handlers know exactly
\* the live motors, however motors come and go.
THEOREM HandlersAgree ==
  ASSUME DistinctIdentifiers
  PROVE  Spec => []HandlersAgreeOnLiveMotors
<1>1. Init => LiveRegistered
  BY DEF Init, LiveRegistered
<1>2. Inv /\ LiveRegistered => HandlersAgreeOnLiveMotors
  <2>1. SUFFICES ASSUME Inv, LiveRegistered, NEW m \in Motor
                 PROVE  /\ (life[m] = "live") <=> (txStore[BusOf[m]][SlotOf[m]] = m)
                        /\ (life[m] = "live") <=> (rxStore[BusOf[m]][SlotOf[m]] = m)
    BY DEF HandlersAgreeOnLiveMotors
  <2>2. BusOf[m] \in Bus /\ SlotOf[m] \in Slot /\ m # nullptr
    BY BusType, SlotType, NullIsNoMotor
  <2> QED
    BY <2>1, <2>2 DEF Inv, Registered, LiveRegistered
<1> QED
  BY InitInv, NextInv, NextLiveRegistered, <1>1, <1>2, PTL DEF Spec

\* As long as no two motors share an identifier, the controllers of a bus
\* that was served follow its live motors and the others stand still.
THEOREM ControllersFollow ==
  ASSUME DistinctIdentifiers
  PROVE  Spec => []ControllersFollowMotors
<1>1. Init => LiveRegistered
  BY DEF Init, LiveRegistered
<1>2. Inv /\ LiveRegistered => ControllersFollowMotors
  <2>1. SUFFICES ASSUME Inv, LiveRegistered, NEW b \in current, NEW s \in Slot
                 PROVE  LET here == {m \in Motor : life[m] = "live" /\ BusOf[m] = b /\ SlotOf[m] = s} IN
                        IF here = {} THEN heard[b][s] = 0
                        ELSE \E m \in here : heard[b][s] = desired[m]
    BY DEF ControllersFollowMotors
  <2>2. b \in Bus /\ txStore[b][s] \in Motor \cup {nullptr} /\ heard[b][s] = Meant(txStore[b], s)
    BY <2>1 DEF Inv, TypeOK, Told
  <2> DEFINE here == {m \in Motor : life[m] = "live" /\ BusOf[m] = b /\ SlotOf[m] = s}
  <2>3. CASE txStore[b][s] = nullptr
    <3>1. here = {}
      BY <2>1, <2>3, NullIsNoMotor DEF LiveRegistered
    <3> QED
      BY <2>2, <2>3, <3>1 DEF Meant
  <2>4. CASE txStore[b][s] # nullptr
    <3>1. txStore[b][s] \in here /\ heard[b][s] = desired[txStore[b][s]]
      BY <2>1, <2>2, <2>4 DEF Inv, Registered, Meant
    <3> QED
      BY <3>1
  <2> QED
    BY <2>3, <2>4
<1> QED
  BY InitInv, NextInv, NextLiveRegistered, <1>1, <1>2, PTL DEF Spec
=============================================================================
