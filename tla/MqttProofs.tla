------------------------------ MODULE MqttProofs ------------------------------
(***************************************************************************)
(* Theorems about MqttSession, for every list of retained topics, every    *)
(* capacity of the outbound queue and every size of the batches.           *)
(***************************************************************************)
EXTENDS MqttSession, SequenceTheorems, TLAPS

(***************************************************************************)
(* Messages and the queue.                                                 *)
(***************************************************************************)

(***************************************************************************)
(* The batches are small enough for the buffers, so that every message can *)
(* be encoded; and packing loses nothing, however many samples there are.  *)
(***************************************************************************)

LEMMA SamplesFit == SamplesEncode
<1>1. EncodedLen(FastBatchSamples) = 150
  BY DEF EncodedLen, FastBatchSamples
<1>2. /\ SensorPayload.fast = 158 /\ SensorPayload.slow = 6
      /\ SensorPayload.temperature = 48
      /\ DOMAIN SensorPayload = {"fast", "slow", "temperature", "armed", "servo"}
  BY <1>1 DEF SensorPayload, TempBatch
<1>3. ASSUME NEW sensor \in 0..255 PROVE Len(Decimal(sensor)) <= 3
  BY DEF Decimal
<1>4. TempTopicFits
  BY <1>3 DEF TempTopicFits, TopicPrefix, TopicBuffer, Decimal
<1> QED
  BY <1>2, <1>4 DEF SamplesEncode, Encodable, PayloadBuffer

LEMMA StatusesFit == StatusesEncode
<1>1. /\ SensorPayload.armed = 5 /\ SensorPayload.servo = 6
      /\ DOMAIN SensorPayload = {"fast", "slow", "temperature", "armed", "servo"}
  BY DEF SensorPayload
<1> QED
  BY <1>1 DEF StatusesEncode, Encodable, PayloadBuffer

LEMMA TakingSends ==
  ASSUME TakeOutbound
  PROVE  /\ queue # <<>> /\ phase = "session" /\ sending = <<>>
         /\ sending' = <<Head(queue)>> /\ queue' = Rest(queue)
         /\ UNCHANGED <<value, phase, subacks, shutdown, linkVars, retained, delivered, lost>>
BY SamplesFit, StatusesFit DEF TakeOutbound, InSession, Encodes

LEMMA BytesOfAPair ==
  ASSUME NEW first \in 0..U12Max, NEW second \in 0..U12Max
  PROVE  /\ LowByte(first) \in 0..255 /\ HighByte(second) \in 0..255
         /\ MiddleByte(first, second) \in 0..255
         /\ LowByte(first) + (256 * (MiddleByte(first, second) % 16)) = first
         /\ (MiddleByte(first, second) \div 16) + (16 * HighByte(second)) = second
<1> DEFINE high == first \div 256
           low  == second % 16
<1>1. /\ high \in 0..15 /\ LowByte(first) \in 0..255
      /\ LowByte(first) + (256 * high) = first
  BY DEF LowByte, U12Max
<1>2. /\ low \in 0..15 /\ HighByte(second) \in 0..255
      /\ low + (16 * HighByte(second)) = second
  BY DEF HighByte, U12Max
<1>3. MiddleByte(first, second) = high + (16 * low)
  BY DEF MiddleByte
<1> HIDE DEF high, low
<1>4. /\ high + (16 * low) \in 0..255
      /\ (high + (16 * low)) % 16 = high
      /\ (high + (16 * low)) \div 16 = low
  BY <1>1, <1>2
<1> QED
  BY <1>1, <1>2, <1>3, <1>4

LEMMA SamplesOfAPacket ==
  ASSUME NEW S, NEW samples \in Seq(S), NEW i \in 1..Len(samples)
  PROVE  samples[i] \in S
OBVIOUS

LEMMA PlacesOfAPair ==
  ASSUME NEW p \in Nat
  PROVE  /\ (3 * p) \div 3 = p /\ (3 * p + 1) \div 3 = p /\ (3 * p + 2) \div 3 = p
         /\ (3 * p) % 3 = 0 /\ (3 * p + 1) % 3 = 1 /\ (3 * p + 2) % 3 = 2
         /\ (3 * p + 3) % 3 = 0
OBVIOUS

LEMMA LengthOfPacking ==
  ASSUME NEW k \in Nat, NEW n \in Nat, n = 2 * k \/ n = 2 * k + 1
  PROVE  /\ EncodedLen(n) \in Nat
         /\ n = 2 * k => EncodedLen(n) = 3 * k
         /\ n = 2 * k + 1 => EncodedLen(n) = 3 * k + 2
         /\ (2 * (EncodedLen(n) \div 3)) + ((EncodedLen(n) % 3) \div 2) = n
<1>1. CASE n = 2 * k
  <2>1. n \div 2 = k /\ n % 2 = 0
    BY <1>1
  <2>2. EncodedLen(n) = 3 * k
    BY <2>1 DEF EncodedLen
  <2>3. (3 * k) \div 3 = k /\ (3 * k) % 3 = 0
    OBVIOUS
  <2> QED
    BY <1>1, <2>2, <2>3
<1>2. CASE n = 2 * k + 1
  <2>1. n \div 2 = k /\ n % 2 = 1
    BY <1>2
  <2>2. EncodedLen(n) = 3 * k + 2
    BY <2>1 DEF EncodedLen
  <2>3. (3 * k + 2) \div 3 = k /\ (3 * k + 2) % 3 = 2
    OBVIOUS
  <2> QED
    BY <1>2, <2>2, <2>3
<1> QED
  BY <1>1, <1>2

\* The bytes of pair p and the samples they hold.
LEMMA BytesInPlace ==
  ASSUME NEW samples \in Seq(0..U12Max), NEW p \in Nat, 2 * p + 1 <= Len(samples),
         NEW first, first = samples[2 * p + 1],
         NEW second,
         second = IF 2 * p + 2 <= Len(samples) THEN samples[2 * p + 2] ELSE 0
  PROVE  /\ PackedByte(samples, 3 * p + 1) = LowByte(first)
         /\ PackedByte(samples, 3 * p + 2) = MiddleByte(first, second)
         /\ PackedByte(samples, 3 * p + 3) = HighByte(second)
         /\ first \in 0..U12Max /\ second \in 0..U12Max
<1>1. /\ (3 * p + 1) - 1 = 3 * p /\ (3 * p + 2) - 1 = 3 * p + 1
      /\ (3 * p + 3) - 1 = 3 * p + 2
  OBVIOUS
<1>2. /\ 2 * p + 1 \in Nat /\ 1 <= 2 * p + 1 /\ 2 * p + 2 \in Nat /\ 1 <= 2 * p + 2
  OBVIOUS
<1>3. first \in 0..U12Max
  <2>1. 2 * p + 1 \in 1..Len(samples)
    BY <1>2
  <2> QED
    BY <2>1, SamplesOfAPacket, Zenon
<1>4. second \in 0..U12Max
  <2>1. CASE 2 * p + 2 <= Len(samples)
    <3>1. samples[2 * p + 2] \in 0..U12Max
      <4>1. 2 * p + 2 \in 1..Len(samples)
        BY <1>2, <2>1
      <4> QED
        BY <4>1, SamplesOfAPacket, Zenon
    <3> QED
      BY <2>1, <3>1
  <2>2. CASE ~ (2 * p + 2 <= Len(samples))
    BY <2>2 DEF U12Max
  <2> QED
    BY <2>1, <2>2
<1> QED
  BY <1>1, <1>3, <1>4, PlacesOfAPair DEF PackedByte

\* What Pack makes of samples, Unpack makes samples again, the odd one out included.
THEOREM PackingIsLossless ==
  ASSUME NEW samples \in Seq(0..U12Max)
  PROVE  /\ Pack(samples) \in Seq(0..255)
         /\ Unpack(Pack(samples)) = samples
<1> DEFINE n == Len(samples)
           bytes == Pack(samples)
           Second(p) == IF 2 * p + 2 <= n THEN samples[2 * p + 2] ELSE 0
           Pair(p) ==
             \E first, second \in 0..U12Max :
               /\ first = samples[2 * p + 1] /\ second = Second(p)
               /\ PackedByte(samples, 3 * p + 1) = LowByte(first)
               /\ PackedByte(samples, 3 * p + 2) = MiddleByte(first, second)
               /\ PackedByte(samples, 3 * p + 3) = HighByte(second)
               /\ LowByte(first) \in 0..255 /\ HighByte(second) \in 0..255
               /\ MiddleByte(first, second) \in 0..255
               /\ LowByte(first) + (256 * (MiddleByte(first, second) % 16)) = first
               /\ (MiddleByte(first, second) \div 16) + (16 * HighByte(second)) = second
<1>1. n \in Nat
  OBVIOUS
<1>2. PICK k \in Nat : n = 2 * k \/ n = 2 * k + 1
  <2>1. n = 2 * (n \div 2) \/ n = 2 * (n \div 2) + 1
    BY <1>1
  <2>2. n \div 2 \in Nat
    BY <1>1
  <2> QED
    BY <2>1, <2>2
<1>3. /\ EncodedLen(n) \in Nat
      /\ n = 2 * k => EncodedLen(n) = 3 * k
      /\ n = 2 * k + 1 => EncodedLen(n) = 3 * k + 2
      /\ (2 * (EncodedLen(n) \div 3)) + ((EncodedLen(n) % 3) \div 2) = n
  BY <1>1, <1>2, LengthOfPacking
<1>4. ASSUME NEW p \in Nat, 2 * p + 1 <= n
      PROVE  Pair(p)
  <2> DEFINE first == samples[2 * p + 1]
             second == Second(p)
  <2>1. /\ first = samples[2 * p + 1]
        /\ second = IF 2 * p + 2 <= Len(samples) THEN samples[2 * p + 2] ELSE 0
        /\ second = Second(p)
    OBVIOUS
  <2>2. 2 * p + 1 <= Len(samples)
    BY <1>4
  <2> HIDE DEF first, second
  <2>3. /\ PackedByte(samples, 3 * p + 1) = LowByte(first)
        /\ PackedByte(samples, 3 * p + 2) = MiddleByte(first, second)
        /\ PackedByte(samples, 3 * p + 3) = HighByte(second)
        /\ first \in 0..U12Max /\ second \in 0..U12Max
    <3> HIDE DEF Second, n
    <3> QED
      BY <2>1, <2>2, BytesInPlace
  <2>4. /\ LowByte(first) \in 0..255 /\ HighByte(second) \in 0..255
        /\ MiddleByte(first, second) \in 0..255
        /\ LowByte(first) + (256 * (MiddleByte(first, second) % 16)) = first
        /\ (MiddleByte(first, second) \div 16) + (16 * HighByte(second)) = second
    BY <2>3, BytesOfAPair
  <2> QED
    BY <2>1, <2>3, <2>4
<1>5. bytes = [b \in 1..EncodedLen(n) |-> PackedByte(samples, b)]
  BY DEF Pack
<1> HIDE DEF n, bytes, Second, Pair
<1>6. ASSUME NEW b \in 1..EncodedLen(n)
      PROVE  PackedByte(samples, b) \in 0..255
  <2>1. PICK p \in Nat : b = 3 * p + 1 \/ b = 3 * p + 2 \/ b = 3 * p + 3
    <3>1. /\ (b - 1) \div 3 \in Nat
          /\ \/ b = 3 * ((b - 1) \div 3) + 1
             \/ b = 3 * ((b - 1) \div 3) + 2
             \/ b = 3 * ((b - 1) \div 3) + 3
      BY <1>3
    <3> QED
      BY <3>1
  <2>2. 2 * p + 1 <= n
    BY <1>2, <1>3, <2>1
  <2>3. PICK first, second \in 0..U12Max :
               /\ first = samples[2 * p + 1] /\ second = Second(p)
               /\ PackedByte(samples, 3 * p + 1) = LowByte(first)
               /\ PackedByte(samples, 3 * p + 2) = MiddleByte(first, second)
               /\ PackedByte(samples, 3 * p + 3) = HighByte(second)
               /\ LowByte(first) \in 0..255 /\ HighByte(second) \in 0..255
               /\ MiddleByte(first, second) \in 0..255
               /\ LowByte(first) + (256 * (MiddleByte(first, second) % 16)) = first
               /\ (MiddleByte(first, second) \div 16) + (16 * HighByte(second)) = second
    <3>1. Pair(p)
      BY <1>4, <2>2
    <3> QED
      BY <3>1, Zenon DEF Pair
  <2>4. /\ PackedByte(samples, 3 * p + 1) \in 0..255
        /\ PackedByte(samples, 3 * p + 2) \in 0..255
        /\ PackedByte(samples, 3 * p + 3) \in 0..255
    <3>1. PackedByte(samples, 3 * p + 1) = LowByte(first) /\ LowByte(first) \in 0..255
      BY <2>3, Zenon
    <3>2. /\ PackedByte(samples, 3 * p + 2) = MiddleByte(first, second)
          /\ MiddleByte(first, second) \in 0..255
      BY <2>3, Zenon
    <3>3. PackedByte(samples, 3 * p + 3) = HighByte(second) /\ HighByte(second) \in 0..255
      BY <2>3, Zenon
    <3> QED
      BY <3>1, <3>2, <3>3, Zenon
  <2> QED
    BY <2>1, <2>4, Zenon
<1>7. bytes \in Seq(0..255) /\ Len(bytes) = EncodedLen(n)
  <2> DEFINE Byte == 0..255
  <2>1. \A b \in 1..EncodedLen(n) : PackedByte(samples, b) \in Byte
    BY <1>6
  <2>2. EncodedLen(n) \in Nat
    BY <1>3
  <2> HIDE DEF Byte
  <2>3. bytes \in Seq(Byte) /\ Len(bytes) = EncodedLen(n)
    BY <1>5, <2>1, <2>2
  <2> QED
    BY <2>3 DEF Byte
<1>8. PackedSamples(bytes) = n
  BY <1>3, <1>7, Zenon DEF PackedSamples
<1>9. ASSUME NEW i \in 1..n
      PROVE  Unpack(bytes)[i] = samples[i]
  <2>1. PICK p \in Nat : i = 2 * p + 1 \/ i = 2 * p + 2
    <3>1. /\ (i - 1) \div 2 \in Nat
          /\ i = 2 * ((i - 1) \div 2) + 1 \/ i = 2 * ((i - 1) \div 2) + 2
      BY <1>1
    <3> QED
      BY <3>1
  <2>2. (i - 1) \div 2 = p /\ 2 * p + 1 <= n
    BY <1>1, <2>1
  <2>3. /\ {3 * p + 1, 3 * p + 2} \subseteq 1..EncodedLen(n)
        /\ i = 2 * p + 2 => 3 * p + 3 \in 1..EncodedLen(n)
    BY <1>2, <1>3, <2>1
  <2>4. PICK first, second \in 0..U12Max :
               /\ first = samples[2 * p + 1] /\ second = Second(p)
               /\ PackedByte(samples, 3 * p + 1) = LowByte(first)
               /\ PackedByte(samples, 3 * p + 2) = MiddleByte(first, second)
               /\ PackedByte(samples, 3 * p + 3) = HighByte(second)
               /\ LowByte(first) + (256 * (MiddleByte(first, second) % 16)) = first
               /\ (MiddleByte(first, second) \div 16) + (16 * HighByte(second)) = second
    <3>1. Pair(p)
      BY <1>4, <2>2
    <3> QED
      BY <3>1 DEF Pair
  <2>5. CASE i = 2 * p + 1
    <3>1. i % 2 = 1
      BY <2>5
    <3>2. bytes[3 * p + 1] = LowByte(first) /\ bytes[3 * p + 2] = MiddleByte(first, second)
      BY <1>5, <2>3, <2>4
    <3>3. Unpack(bytes)[i] = bytes[3 * p + 1] + (256 * (bytes[3 * p + 2] % 16))
      BY <1>8, <2>2, <3>1 DEF Unpack
    <3> QED
      BY <2>4, <2>5, <3>2, <3>3
  <2>6. CASE i = 2 * p + 2
    <3>1. i % 2 # 1 /\ second = samples[i]
      BY <1>1, <2>4, <2>6 DEF Second
    <3>2. bytes[3 * p + 2] = MiddleByte(first, second) /\ bytes[3 * p + 3] = HighByte(second)
      BY <1>5, <2>3, <2>4, <2>6
    <3>3. Unpack(bytes)[i] = (bytes[3 * p + 2] \div 16) + (16 * bytes[3 * p + 3])
      BY <1>8, <2>2, <3>1 DEF Unpack
    <3> QED
      BY <2>4, <3>1, <3>2, <3>3
  <2> QED
    BY <2>1, <2>5, <2>6
<1>10. Unpack(bytes) = samples
  <2>1. Unpack(bytes) = [i \in 1..n |-> Unpack(bytes)[i]]
    BY <1>8 DEF Unpack
  <2>2. samples = [i \in 1..n |-> samples[i]]
    BY <1>1 DEF n
  <2> QED
    BY <1>9, <2>1, <2>2
<1>11. Pack(samples) = bytes
  BY DEF bytes
<1> QED
  BY <1>7, <1>10, <1>11

-----------------------------------------------------------------------------
(* Words, and the payloads made of them. *)

\* What an unsigned number of four bytes or of two may be.
U32 == {n \in Nat : ((n \div 256) \div 256) \div 256 < 256}
U16 == {n \in Nat : n \div 256 < 256}
Bytes == 0..255

LEMMA LowestByte ==
  ASSUME NEW n \in Nat
  PROVE  n % 256 \in Bytes /\ n \div 256 \in Nat /\ n = (n % 256) + 256 * (n \div 256)
BY DEF Bytes

LEMMA WordOfFour ==
  ASSUME NEW number \in U32
  PROVE  /\ Word(number, 4) \in Seq(Bytes) /\ Len(Word(number, 4)) = 4
         /\ FourBytes(Word(number, 4), 0) = number
<1> DEFINE w == Word(number, 4)
           second == number \div 256
           third  == second \div 256
           fourth == third \div 256
<1>1. w = [i \in 1..4 |-> Shifted(number)[i] % 256]
  BY DEF Word
<1>2. /\ w[1] = number % 256 /\ w[2] = second % 256
      /\ w[3] = third % 256 /\ w[4] = fourth % 256
  BY <1>1 DEF Shifted
<1>3. number \in Nat /\ fourth < 256
  BY DEF U32
<1>4. /\ number % 256 \in Bytes /\ second \in Nat /\ number = (number % 256) + 256 * second
  BY <1>3, LowestByte
<1> HIDE DEF second
<1>5. /\ second % 256 \in Bytes /\ third \in Nat /\ second = (second % 256) + 256 * third
  BY <1>4, LowestByte
<1> HIDE DEF third
<1>6. fourth % 256 = fourth /\ fourth \in Bytes
  BY <1>3, <1>5 DEF Bytes
<1>7. /\ third % 256 \in Bytes /\ third = (third % 256) + 256 * fourth
  BY <1>5, LowestByte
<1>8. DOMAIN w = 1..4 /\ w = [i \in 1..4 |-> w[i]]
  BY <1>1
<1> HIDE DEF fourth, w
<1>9. /\ w[1] \in Bytes /\ w[2] \in Bytes /\ w[3] \in Bytes /\ w[4] \in Bytes
  BY <1>2, <1>4, <1>5, <1>6, <1>7
<1>10. number = w[1] + (256 * (w[2] + (256 * (w[3] + (256 * w[4])))))
  BY <1>2, <1>4, <1>5, <1>6, <1>7
<1>11. \A i \in 1..4 : w[i] \in Bytes
  <2>1. 1..4 = {1, 2, 3, 4}
    OBVIOUS
  <2> QED
    BY <1>9, <2>1
<1>12. w \in [1..4 -> Bytes]
  BY <1>8, <1>11
<1>13. w \in Seq(Bytes) /\ Len(w) = 4
  <2>1. w = [i \in 1..4 |-> w[i]] /\ \A i \in 1..4 : w[i] \in Bytes
    BY <1>8, <1>11
  <2> HIDE DEF Bytes
  <2> QED
    BY <2>1, <1>12, LenProperties, SeqDef
<1>14. FourBytes(w, 0) = number
  BY <1>10 DEF FourBytes
<1> QED
  BY <1>13, <1>14 DEF w

LEMMA WordOfTwo ==
  ASSUME NEW number \in U16
  PROVE  /\ Word(number, 2)[1] \in Bytes /\ Word(number, 2)[2] \in Bytes
         /\ Word(number, 2)[1] + 256 * Word(number, 2)[2] = number
         /\ Len(Word(number, 2)) = 2
<1> DEFINE w == Word(number, 2)
<1>1. w = [i \in 1..2 |-> Shifted(number)[i] % 256]
  BY DEF Word
<1>2. w[1] = number % 256 /\ w[2] = (number \div 256) % 256
  BY <1>1 DEF Shifted
<1>3. number \in Nat /\ number \div 256 < 256
  BY DEF U16
<1>4. /\ number % 256 \in Bytes /\ number \div 256 \in Nat
      /\ number = (number % 256) + 256 * (number \div 256)
  BY <1>3, LowestByte
<1>5. (number \div 256) % 256 = number \div 256 /\ number \div 256 \in Bytes
  BY <1>3, <1>4 DEF Bytes
<1>6. Len(w) = 2
  BY <1>1
<1> HIDE DEF w
<1> QED
  BY <1>2, <1>4, <1>5, <1>6 DEF w

LEMMA Concatenation ==
  ASSUME NEW S, NEW a \in Seq(S), NEW b \in Seq(S)
  PROVE  /\ a \o b \in Seq(S)
         /\ Len(a \o b) = Len(a) + Len(b)
         /\ \A i \in 1..Len(a) : (a \o b)[i] = a[i]
         /\ \A i \in 1..Len(b) : (a \o b)[Len(a) + i] = b[i]
<1>1. /\ a \o b \in Seq(S)
      /\ Len(a \o b) = Len(a) + Len(b)
      /\ \A i \in 1..Len(a) + Len(b) :
           (a \o b)[i] = IF i <= Len(a) THEN a[i] ELSE b[i - Len(a)]
  BY ConcatProperties
<1>2. Len(a) \in Nat /\ Len(b) \in Nat
  OBVIOUS
<1>3. \A i \in 1..Len(a) : i \in 1..Len(a) + Len(b) /\ i <= Len(a)
  BY <1>2
<1>4. \A i \in 1..Len(b) : /\ Len(a) + i \in 1..Len(a) + Len(b)
                            /\ ~(Len(a) + i <= Len(a))
                            /\ (Len(a) + i) - Len(a) = i
  BY <1>2
<1> QED
  BY <1>1, <1>3, <1>4

LEMMA BytesAfterBytes ==
  ASSUME NEW a \in Seq(Bytes), NEW b \in Seq(Bytes), NEW n \in Nat, Len(a) = n
  PROVE  /\ a \o b \in Seq(Bytes) /\ Len(a \o b) = n + Len(b)
         /\ \A i \in 1..n : (a \o b)[i] = a[i]
         /\ \A i \in 1..Len(b) : (a \o b)[n + i] = b[i]
<1>1. a \o b \in Seq(Bytes) /\ Len(a \o b) = Len(a) + Len(b)
  BY Concatenation
<1>2. \A i \in 1..Len(a) : (a \o b)[i] = a[i]
  BY Concatenation
<1>3. \A i \in 1..Len(b) : (a \o b)[Len(a) + i] = b[i]
  BY Concatenation
<1> DEFINE ab == a \o b
<1> HIDE DEF ab
<1>4. /\ ab \in Seq(Bytes) /\ Len(ab) = n + Len(b)
      /\ \A i \in 1..n : ab[i] = a[i]
      /\ \A i \in 1..Len(b) : ab[n + i] = b[i]
  BY <1>1, <1>2, <1>3, Zenon DEF ab
<1> QED
  BY <1>4, Zenon DEF ab

\* The two times of a packet stand before its samples.
LEMMA TimesBeforeSamples ==
  ASSUME NEW packet, packet.first \in U32, packet.last \in U32,
         NEW bytes \in Seq(Bytes)
  PROVE  LET payload == TimedSamples(packet, bytes)
         IN  /\ payload \in Seq(Bytes) /\ Len(payload) = 8 + Len(bytes)
             /\ FourBytes(payload, 0) = packet.first
             /\ FourBytes(payload, 4) = packet.last
             /\ \A i \in 1..Len(bytes) : payload[8 + i] = bytes[i]
<1> DEFINE f == Word(packet.first, 4)
           l == Word(packet.last, 4)
           payload == TimedSamples(packet, bytes)
<1>1. /\ f \in Seq(Bytes) /\ Len(f) = 4 /\ FourBytes(f, 0) = packet.first
      /\ l \in Seq(Bytes) /\ Len(l) = 4 /\ FourBytes(l, 0) = packet.last
  BY WordOfFour
<1>2. payload = f \o l \o bytes
  BY DEF TimedSamples
<1> HIDE DEF f, l, payload
<1> DEFINE times == f \o l
<1>3. /\ times \in Seq(Bytes) /\ Len(times) = 8
      /\ \A i \in 1..4 : times[i] = f[i] /\ times[4 + i] = l[i]
  <2>0. f \in Seq(Bytes) /\ l \in Seq(Bytes) /\ 4 \in Nat /\ Len(f) = 4
    BY <1>1
  <2>1. /\ times \in Seq(Bytes) /\ Len(times) = 4 + Len(l)
        /\ \A i \in 1..4 : times[i] = f[i]
        /\ \A i \in 1..Len(l) : times[4 + i] = l[i]
    <3>1. /\ f \o l \in Seq(Bytes) /\ Len(f \o l) = 4 + Len(l)
          /\ \A i \in 1..4 : (f \o l)[i] = f[i]
          /\ \A i \in 1..Len(l) : (f \o l)[4 + i] = l[i]
      <4> HIDE DEF times
      <4> QED
        BY <2>0, BytesAfterBytes
    <3> QED
      BY <3>1, Zenon
  <2> HIDE DEF times
  <2> QED
    BY <1>1, <2>1
<1>4. /\ payload \in Seq(Bytes) /\ Len(payload) = 8 + Len(bytes)
      /\ \A i \in 1..8 : payload[i] = times[i]
      /\ \A i \in 1..Len(bytes) : payload[8 + i] = bytes[i]
  <2>1. payload = times \o bytes
    BY <1>2
  <2> HIDE DEF times
  <2>2. times \in Seq(Bytes) /\ 8 \in Nat /\ Len(times) = 8
    BY <1>3
  <2>3. /\ times \o bytes \in Seq(Bytes) /\ Len(times \o bytes) = 8 + Len(bytes)
        /\ \A i \in 1..8 : (times \o bytes)[i] = times[i]
        /\ \A i \in 1..Len(bytes) : (times \o bytes)[8 + i] = bytes[i]
    BY <2>2, BytesAfterBytes, Zenon
  <2> QED
    BY <2>1, <2>3, Zenon
<1> HIDE DEF times
<1>5. \A i \in 1..4 : payload[i] = f[i] /\ payload[4 + i] = l[i]
  <2>1. \A i \in 1..4 : i \in 1..8 /\ 4 + i \in 1..8
    OBVIOUS
  <2> QED
    BY <1>3, <1>4, <2>1
<1>6. /\ payload[1] = f[1] /\ payload[2] = f[2] /\ payload[3] = f[3] /\ payload[4] = f[4]
      /\ payload[5] = l[1] /\ payload[6] = l[2] /\ payload[7] = l[3] /\ payload[8] = l[4]
  BY <1>5
<1>7. FourBytes(payload, 0) = FourBytes(f, 0) /\ FourBytes(payload, 4) = FourBytes(l, 0)
  BY <1>6 DEF FourBytes
<1> QED
  BY <1>1, <1>4, <1>7 DEF payload

\* The bytes of a temperature packet after its times.
TempBytes(samples) ==
  [b \in 1..(2 * Len(samples)) |-> Word(samples[(b + 1) \div 2], 2)[2 - (b % 2)]]

LEMMA BytesOfTemperatures ==
  ASSUME NEW samples \in Seq(U16)
  PROVE  /\ TempBytes(samples) \in Seq(Bytes)
         /\ Len(TempBytes(samples)) = 2 * Len(samples)
         /\ \A i \in 1..Len(samples) :
              TwoBytes(TempBytes(samples), 2 * i - 2) = samples[i]
<1> DEFINE n == Len(samples)
           bytes == TempBytes(samples)
<1>1. n \in Nat
  OBVIOUS
<1>2. bytes = [b \in 1..(2 * n) |-> Word(samples[(b + 1) \div 2], 2)[2 - (b % 2)]]
  BY DEF TempBytes
<1>3. \A i \in 1..n : samples[i] \in U16
  BY SamplesOfAPacket
<1> HIDE DEF n, bytes
<1>4. ASSUME NEW b \in 1..(2 * n)
      PROVE  bytes[b] \in Bytes
  <2>1. (b + 1) \div 2 \in 1..n /\ 2 - (b % 2) \in {1, 2}
    BY <1>1
  <2>2. samples[(b + 1) \div 2] \in U16
    BY <1>3, <2>1
  <2> QED
    BY <1>2, <2>1, <2>2, WordOfTwo
<1>5. bytes \in Seq(Bytes) /\ Len(bytes) = 2 * n
  <2>1. bytes \in [1..(2 * n) -> Bytes]
    BY <1>2, <1>4
  <2> QED
    BY <1>1, <2>1
<1>6. ASSUME NEW i \in 1..n
      PROVE  TwoBytes(bytes, 2 * i - 2) = samples[i]
  <2>1. /\ 2 * i - 2 + 1 = 2 * i - 1 /\ 2 * i - 2 + 2 = 2 * i
        /\ 2 * i - 1 \in 1..(2 * n) /\ 2 * i \in 1..(2 * n)
        /\ (2 * i - 1 + 1) \div 2 = i /\ (2 * i + 1) \div 2 = i
        /\ (2 * i - 1) % 2 = 1 /\ (2 * i) % 2 = 0
    BY <1>1
  <2>2. bytes[2 * i - 1] = Word(samples[i], 2)[1] /\ bytes[2 * i] = Word(samples[i], 2)[2]
    BY <1>2, <2>1
  <2> QED
    BY <1>3, <2>1, <2>2, WordOfTwo DEF TwoBytes
<1> QED
  BY <1>5, <1>6 DEF n, bytes

\* A reader finds in a packet of temperatures its two times and every sample, as
\* TempPacket::encode_payload was given them, and nothing else.
THEOREM TemperaturesAreLossless ==
  ASSUME NEW packet, packet.first \in U32, packet.last \in U32,
         packet.samples \in Seq(U16)
  PROVE  LET payload == TempPayload(packet)
         IN  /\ payload \in Seq(Bytes) /\ Len(payload) = 8 + 2 * Len(packet.samples)
             /\ FourBytes(payload, 0) = packet.first
             /\ FourBytes(payload, 4) = packet.last
             /\ \A i \in 1..Len(packet.samples) :
                  TwoBytes(payload, 8 + (2 * i - 2)) = packet.samples[i]
<1> DEFINE payload == TempPayload(packet)
           bytes == TempBytes(packet.samples)
           n == Len(packet.samples)
<1>1. /\ bytes \in Seq(Bytes) /\ Len(bytes) = 2 * n
      /\ \A i \in 1..n : TwoBytes(bytes, 2 * i - 2) = packet.samples[i]
  BY BytesOfTemperatures
<1>2. payload = TimedSamples(packet, bytes)
  BY DEF TempPayload, TempBytes
<1>3. n \in Nat
  OBVIOUS
<1> HIDE DEF bytes, payload, n
<1>4. /\ payload \in Seq(Bytes) /\ Len(payload) = 8 + Len(bytes)
      /\ FourBytes(payload, 0) = packet.first
      /\ FourBytes(payload, 4) = packet.last
      /\ \A i \in 1..Len(bytes) : payload[8 + i] = bytes[i]
  BY <1>1, <1>2, TimesBeforeSamples
<1>5. ASSUME NEW i \in 1..n
      PROVE  TwoBytes(payload, 8 + (2 * i - 2)) = packet.samples[i]
  <2>1. 2 * i - 2 + 1 \in 1..Len(bytes) /\ 2 * i - 2 + 2 \in 1..Len(bytes)
    BY <1>1, <1>3
  <2>2. /\ payload[8 + (2 * i - 2 + 1)] = bytes[2 * i - 2 + 1]
        /\ payload[8 + (2 * i - 2 + 2)] = bytes[2 * i - 2 + 2]
    BY <1>4, <2>1
  <2>3. /\ 8 + (2 * i - 2 + 1) = 8 + (2 * i - 2) + 1
        /\ 8 + (2 * i - 2 + 2) = 8 + (2 * i - 2) + 2
    BY <1>3
  <2> QED
    BY <1>1, <2>2, <2>3 DEF TwoBytes
<1> QED
  BY <1>1, <1>4, <1>5 DEF payload, n

\* And in a packet of fast samples its two times and, after them, the packed samples.
THEOREM FastSamplesAreLossless ==
  ASSUME NEW packet, packet.first \in U32, packet.last \in U32,
         packet.samples \in Seq(0..U12Max)
  PROVE  LET payload == FastPayload(packet)
             packed  == Pack(packet.samples)
         IN  /\ payload \in Seq(Bytes) /\ Len(payload) = 8 + EncodedLen(Len(packet.samples))
             /\ FourBytes(payload, 0) = packet.first
             /\ FourBytes(payload, 4) = packet.last
             /\ \A i \in 1..Len(packed) : payload[8 + i] = packed[i]
             /\ Unpack(packed) = packet.samples
<1> DEFINE payload == FastPayload(packet)
           packed == Pack(packet.samples)
<1>1. packed \in Seq(Bytes) /\ Unpack(packed) = packet.samples
  BY PackingIsLossless DEF Bytes
<1>2. Len(packed) = EncodedLen(Len(packet.samples))
  <2>1. \A n \in Nat : EncodedLen(n) \in Nat
    BY DEF EncodedLen
  <2>2. EncodedLen(Len(packet.samples)) \in Nat
    BY <2>1
  <2> QED
    BY <2>2 DEF Pack
<1>3. payload = TimedSamples(packet, packed)
  BY DEF FastPayload
<1> HIDE DEF payload, packed
<1>4. /\ payload \in Seq(Bytes) /\ Len(payload) = 8 + Len(packed)
      /\ FourBytes(payload, 0) = packet.first
      /\ FourBytes(payload, 4) = packet.last
      /\ \A i \in 1..Len(packed) : payload[8 + i] = packed[i]
  BY <1>1, <1>3, TimesBeforeSamples
<1> QED
  BY <1>1, <1>2, <1>4 DEF payload, packed

\* write_u8_decimal: no two sensors are given the same topic.
THEOREM TopicsAreDistinct ==
  ASSUME NEW s \in 0..255, NEW t \in 0..255, Decimal(s) = Decimal(t)
  PROVE  s = t
<1>1. ASSUME NEW n \in Nat
      PROVE  n \div 10 \in Nat /\ n % 10 \in 0..9 /\ n = 10 * (n \div 10) + (n % 10)
  OBVIOUS
<1>2. ASSUME NEW n \in Nat
      PROVE  n = 100 * (n \div 100) + 10 * ((n \div 10) % 10) + (n % 10)
  <2>1. (n \div 10) \div 10 = n \div 100
    OBVIOUS
  <2> QED
    BY <1>1, <2>1
<1> DEFINE Long(n)  == /\ n >= 100 /\ Len(Decimal(n)) = 3
                       /\ n = 100 * Decimal(n)[1] + 10 * Decimal(n)[2] + Decimal(n)[3]
           Short(n) == /\ n < 100 /\ n >= 10 /\ Len(Decimal(n)) = 2
                       /\ n = 10 * Decimal(n)[1] + Decimal(n)[2]
           Digit(n) == n < 10 /\ Len(Decimal(n)) = 1 /\ n = Decimal(n)[1]
<1>3. ASSUME NEW n \in 0..255
      PROVE  Long(n) \/ Short(n) \/ Digit(n)
  <2>1. CASE n >= 100
    <3>1. Decimal(n) = <<n \div 100, (n \div 10) % 10, n % 10>>
      BY <2>1 DEF Decimal
    <3> QED
      BY <1>2, <2>1, <3>1
  <2>2. CASE n < 100 /\ n >= 10
    <3>1. Decimal(n) = <<n \div 10, n % 10>>
      BY <2>2 DEF Decimal
    <3> QED
      BY <1>1, <2>2, <3>1
  <2>3. CASE n < 10
    BY <2>3 DEF Decimal
  <2> QED
    BY <2>1, <2>2, <2>3
<1>4. Long(s) \/ Short(s) \/ Digit(s)
  BY <1>3
<1>5. Long(t) \/ Short(t) \/ Digit(t)
  BY <1>3
<1>6. \/ Long(s) /\ Long(t)
      \/ Short(s) /\ Short(t)
      \/ Digit(s) /\ Digit(t)
  BY <1>4, <1>5
<1> QED
  BY <1>6

\* What SentCanBeRead asks of some samples and words holds of all.
LEMMA PayloadsLossless == PayloadsAreLossless
<1>1. EdgeSamples \subseteq 0..U12Max
  BY DEF EdgeSamples, U12Max
<1>2. \A n \in 0..U12Max : n \in U16
  BY DEF U12Max, U16
<1>3. ASSUME NEW n \in 1..5, NEW samples \in [1..n -> EdgeSamples]
      PROVE  /\ Unpack(Pack(samples)) = samples
             /\ \A b \in 1..EncodedLen(n) : Pack(samples)[b] \in 0..255
  <2>1. samples = [i \in 1..n |-> samples[i]] /\ n \in Nat
    OBVIOUS
  <2> DEFINE U12 == 0..U12Max
  <2>2. samples \in Seq(U12) /\ Len(samples) = n
    <3>1. \A i \in 1..n : samples[i] \in U12
      BY <1>1
    <3> HIDE DEF U12
    <3> QED
      BY <2>1, <3>1
  <2>3. Pack(samples) \in Seq(Bytes) /\ Unpack(Pack(samples)) = samples
    BY <2>2, PackingIsLossless DEF Bytes
  <2>4. Len(Pack(samples)) = EncodedLen(n)
    <3>1. \A m \in Nat : EncodedLen(m) \in Nat
      BY DEF EncodedLen
    <3> QED
      BY <2>2, <3>1 DEF Pack
  <2>5. \A b \in 1..EncodedLen(n) : Pack(samples)[b] \in Bytes
    BY <2>3, <2>4, SamplesOfAPacket
  <2> QED
    BY <2>3, <2>5 DEF Bytes
<1>4. ASSUME NEW number \in EdgeWords
      PROVE  FourBytes(Word(number, 4), 0) = number
  <2>1. PICK a \in {0, 1, 255}, b \in {0, 1, 255}, c \in {0, 1, 255}, d \in {0, 127} :
          number = FourBytes(<<a, b, c, d>>, 0)
    BY DEF EdgeWords
  <2>2. ASSUME NEW low \in 0..255, NEW high \in Nat
        PROVE  /\ low + (256 * high) \in Nat
               /\ (low + (256 * high)) \div 256 = high
    OBVIOUS
  <2>3. number = a + (256 * (b + (256 * (c + (256 * d)))))
    BY <2>1 DEF FourBytes
  <2> DEFINE third == c + (256 * d)
             second == b + (256 * third)
  <2>4. third \in Nat /\ third \div 256 = d /\ d < 256
    BY <2>2
  <2>5. number = a + (256 * second)
    BY <2>3
  <2> HIDE DEF third
  <2>6. second \in Nat /\ second \div 256 = third
    BY <2>2, <2>4
  <2> HIDE DEF second
  <2>7. number \in Nat /\ number \div 256 = second
    BY <2>2, <2>5, <2>6
  <2> QED
    BY <2>4, <2>6, <2>7, WordOfFour DEF U32
<1>5. ASSUME NEW a \in EdgeSamples, NEW b \in EdgeSamples
      PROVE  LET bytes == TempPayload([first |-> 0, last |-> 0, samples |-> <<a, b>>])
             IN  TwoBytes(bytes, 8) = a /\ TwoBytes(bytes, 10) = b
  <2> DEFINE packet == [first |-> 0, last |-> 0, samples |-> <<a, b>>]
             payload == TempPayload(packet)
  <2>1. /\ packet.first \in U32 /\ packet.last \in U32
        /\ packet.samples = <<a, b>> /\ packet.samples \in Seq(U16)
    <3>1. 0 \in U32
      BY DEF U32
    <3>2. a \in U16 /\ b \in U16
      BY <1>1, <1>2
    <3> QED
      BY <3>1, <3>2
  <2> HIDE DEF packet
  <2>2. \A i \in 1..2 : TwoBytes(payload, 8 + (2 * i - 2)) = packet.samples[i]
    BY <2>1, TemperaturesAreLossless
  <2>3. TwoBytes(payload, 8) = packet.samples[1] /\ TwoBytes(payload, 10) = packet.samples[2]
    BY <2>2
  <2> QED
    BY <2>1, <2>3 DEF packet
<1>6. ASSUME NEW n \in Nat
      PROVE  LET packet == [first |-> 0, last |-> 0, samples |-> [i \in 1..n |-> U12Max]]
             IN  /\ Len(FastPayload(packet)) = 8 + EncodedLen(n)
                 /\ Len(TempPayload(packet)) = 8 + (2 * n)
  <2> DEFINE samples == [i \in 1..n |-> U12Max]
             packet == [first |-> 0, last |-> 0, samples |-> samples]
  <2>1. U12Max \in 0..U12Max
    BY DEF U12Max
  <2>2. samples \in Seq(0..U12Max) /\ Len(samples) = n
    BY <2>1
  <2>3. samples \in Seq(U16)
    BY <1>2, <2>1
  <2>4. packet.first \in U32 /\ packet.last \in U32 /\ packet.samples = samples
    BY DEF U32
  <2> HIDE DEF packet, samples
  <2>5. Len(FastPayload(packet)) = 8 + EncodedLen(Len(packet.samples))
    BY <2>2, <2>4, FastSamplesAreLossless
  <2>6. Len(TempPayload(packet)) = 8 + (2 * Len(packet.samples))
    BY <2>3, <2>4, TemperaturesAreLossless
  <2> QED
    BY <2>2, <2>4, <2>5, <2>6 DEF packet, samples
<1>7. /\ Len(SlowPayload([time |-> 0, value |-> U12Max])) = SensorPayload.slow
      /\ Len(ArmedPayload([time |-> 0, value |-> 1])) = SensorPayload.armed
  BY DEF SlowPayload, ArmedPayload, SensorPayload, Word
<1> QED
  BY <1>3, <1>4, <1>5, <1>6, <1>7, TopicsAreDistinct, Zenon
     DEF PayloadsAreLossless, SensorPayload, FastBatchSamples, TempBatch

\* SentCanBeRead: whatever a session sends can be read as what was measured.
THEOREM SentIsReadable == Spec => []SentCanBeRead
<1>1. SentCanBeRead
  BY PayloadsLossless DEF SentCanBeRead
<1> QED
  BY <1>1, PTL

LEMMA StatusType ==
  ASSUME NEW t \in Topics, NEW v \in Values
  PROVE  /\ [topic |-> t, value |-> v] \in Messages
         /\ Other \in Messages
         /\ Other.topic \notin Topics
BY MqttAssumption DEF Messages, Other

LEMMA MessagesAfterMessages ==
  ASSUME NEW a \in Seq(Messages), NEW b \in Seq(Messages)
  PROVE  /\ a \o b \in Seq(Messages)
         /\ Len(a \o b) = Len(a) + Len(b)
         /\ \A i \in 1..Len(a) : (a \o b)[i] = a[i]
         /\ \A i \in 1..Len(b) : (a \o b)[Len(a) + i] = b[i]
<1>1. a \o b \in Seq(Messages) /\ Len(a \o b) = Len(a) + Len(b)
  BY Concatenation
<1>2. \A i \in 1..Len(a) : (a \o b)[i] = a[i]
  BY Concatenation
<1>3. \A i \in 1..Len(b) : (a \o b)[Len(a) + i] = b[i]
  BY Concatenation
<1> QED
  BY <1>1, <1>2, <1>3, Zenon

LEMMA FitsType ==
  ASSUME NEW q \in Seq(Messages), Len(q) <= Capacity, NEW n \in Nat
  PROVE  /\ Fits(q, n) \in 0..n
         /\ Len(q) + Fits(q, n) <= Capacity
BY MqttAssumption DEF Fits

\* Offering appends the first messages, as many as there is room for.
LEMMA OfferAppends ==
  ASSUME NEW q \in Seq(Messages), Len(q) <= Capacity, NEW ms \in Seq(Messages)
  PROVE  /\ Offer(q, ms) \in Seq(Messages)
         /\ Len(Offer(q, ms)) = Len(q) + Fits(q, Len(ms))
         /\ \A i \in 1..Len(q) : Offer(q, ms)[i] = q[i]
         /\ \A i \in 1..Fits(q, Len(ms)) : Offer(q, ms)[Len(q) + i] = ms[i]
<1> DEFINE n == Fits(q, Len(ms))
<1>1. n \in 0..Len(ms)
  BY FitsType
<1> HIDE DEF n
<1> DEFINE new == SubSeq(ms, 1, n)
<1>2. new \in Seq(Messages) /\ Len(new) = n /\ \A i \in 1..n : new[i] = ms[i]
  BY <1>1
<1> HIDE DEF new
<1>3. Offer(q, ms) = q \o new
  BY DEF Offer, new, n
<1>4. /\ q \o new \in Seq(Messages)
      /\ Len(q \o new) = Len(q) + n
      /\ \A i \in 1..Len(q) : (q \o new)[i] = q[i]
      /\ \A i \in 1..n : (q \o new)[Len(q) + i] = new[i]
  BY <1>1, <1>2, MessagesAfterMessages
<1> QED
  BY <1>2, <1>3, <1>4 DEF n

LEMMA OfferType ==
  ASSUME NEW q \in Seq(Messages), Len(q) <= Capacity, NEW ms \in Seq(Messages)
  PROVE  Offer(q, ms) \in Seq(Messages) /\ Len(Offer(q, ms)) <= Capacity
BY OfferAppends, FitsType

\* What was on the line stays at its front, and the first n messages of ms follow.
Grows(line, longer, n, ms) ==
  /\ line \in Seq(Messages) /\ longer \in Seq(Messages)
  /\ Len(longer) = Len(line) + n
  /\ \A i \in 1..Len(line) : longer[i] = line[i]
  /\ \A i \in 1..n : longer[Len(line) + i] = ms[i]

\* A queue behind a line grows by the messages offered, as many as there was room for.
LEMMA OfferGrows ==
  ASSUME NEW s \in Seq(Messages), NEW q \in Seq(Messages), Len(q) <= Capacity,
         NEW ms \in Seq(Messages)
  PROVE  Grows(s \o q, s \o Offer(q, ms), Fits(q, Len(ms)), ms)
<1> DEFINE n == Fits(q, Len(ms))
           o == Offer(q, ms)
<1>1. n \in Nat
  BY FitsType
<1>2. /\ o \in Seq(Messages)
      /\ Len(o) = Len(q) + n
      /\ \A i \in 1..Len(q) : o[i] = q[i]
      /\ \A i \in 1..n : o[Len(q) + i] = ms[i]
  BY OfferAppends
<1> HIDE DEF n, o
<1>3. /\ s \o q \in Seq(Messages) /\ Len(s \o q) = Len(s) + Len(q)
      /\ \A i \in 1..Len(s) : (s \o q)[i] = s[i]
      /\ \A i \in 1..Len(q) : (s \o q)[Len(s) + i] = q[i]
  BY <1>2, MessagesAfterMessages, Zenon
<1>4. /\ s \o o \in Seq(Messages) /\ Len(s \o o) = Len(s) + Len(o)
      /\ \A i \in 1..Len(s) : (s \o o)[i] = s[i]
      /\ \A i \in 1..Len(o) : (s \o o)[Len(s) + i] = o[i]
  BY <1>2, MessagesAfterMessages, Zenon
<1>5. Len(s) \in Nat /\ Len(q) \in Nat
  OBVIOUS
<1> DEFINE old == s \o q
           new == s \o o
           a == Len(s)
           b == Len(q)
<1> HIDE DEF old, new, a, b
<1>6. /\ old \in Seq(Messages) /\ new \in Seq(Messages)
      /\ Len(old) = a + b /\ Len(new) = a + (b + n)
      /\ a \in Nat /\ b \in Nat
  BY <1>2, <1>3, <1>4, <1>5, Zenon DEF old, new, a, b
<1>7. /\ \A i \in 1..a : old[i] = s[i] /\ new[i] = s[i]
      /\ \A i \in 1..b : old[a + i] = q[i]
      /\ \A i \in 1..(b + n) : new[a + i] = o[i]
      /\ \A i \in 1..b : o[i] = q[i]
      /\ \A i \in 1..n : o[b + i] = ms[i]
  BY <1>2, <1>3, <1>4, Zenon DEF old, new, a, b
<1>8. ASSUME NEW i \in 1..(a + b)
      PROVE  new[i] = old[i]
  <2>1. CASE i <= a
    BY <1>6, <1>7, <2>1
  <2>2. CASE i > a
    <3>1. PICK k \in 1..b : i = a + k
      <4>1. i - a \in 1..b /\ i = a + (i - a)
        BY <1>1, <1>6, <2>2
      <4> QED
        BY <4>1
    <3>2. k \in 1..(b + n)
      BY <1>1, <1>6
    <3> QED
      BY <1>7, <3>1, <3>2, Zenon
  <2> QED
    BY <1>1, <1>6, <2>1, <2>2
<1>9. ASSUME NEW i \in 1..n
      PROVE  new[(a + b) + i] = ms[i]
  <2>1. b + i \in 1..(b + n) /\ (a + b) + i = a + (b + i)
    BY <1>1, <1>6
  <2> QED
    BY <1>7, <2>1, Zenon
<1>10. Len(new) = Len(old) + n
  BY <1>1, <1>6
<1> QED
  <2>1. Grows(old, new, n, ms)
    BY <1>6, <1>8, <1>9, <1>10, Zenon DEF Grows
  <2> QED
    BY <2>1 DEF n, o, old, new

\* The same of the pipeline.
LEMMA PipelineGrows ==
  ASSUME TypeOK, NEW ms \in Seq(Messages)
  PROVE  queue' = Offer(queue, ms) /\ sending' = sending =>
           /\ Pipeline \in Seq(Messages) /\ Pipeline' \in Seq(Messages)
           /\ Len(Pipeline') = Len(Pipeline) + Fits(queue, Len(ms))
           /\ \A i \in 1..Len(Pipeline) : Pipeline'[i] = Pipeline[i]
           /\ \A i \in 1..Fits(queue, Len(ms)) : Pipeline'[Len(Pipeline) + i] = ms[i]
<1>1. sending \in Seq(Messages) /\ queue \in Seq(Messages) /\ Len(queue) <= Capacity
  BY DEF TypeOK
<1>2. Grows(sending \o queue, sending \o Offer(queue, ms), Fits(queue, Len(ms)), ms)
  BY <1>1, OfferGrows
<1>3. ASSUME queue' = Offer(queue, ms), sending' = sending
      PROVE  Pipeline = sending \o queue /\ Pipeline' = sending \o Offer(queue, ms)
  BY <1>3 DEF Pipeline
<1>4. ASSUME queue' = Offer(queue, ms), sending' = sending
      PROVE  Grows(Pipeline, Pipeline', Fits(queue, Len(ms)), ms)
  BY <1>2, <1>3, <1>4
<1> QED
  BY <1>4, Zenon DEF Grows

(***************************************************************************)
(* What a line says of a topic.                                            *)
(***************************************************************************)

\* Messages of other topics change nothing of it.
LEMMA OthersSayNothing ==
  ASSUME NEW old \in Seq(Messages), NEW new \in Seq(Messages), NEW kept, NEW m,
         Len(old) <= Len(new),
         \A i \in 1..Len(old) : new[i] = old[i],
         \A i \in (Len(old) + 1)..Len(new) : new[i].topic # m.topic,
         Says(old, kept, m)
  PROVE  Says(new, kept, m)
<1>1. CASE \A i \in 1..Len(old) : old[i].topic # m.topic
  <2>1. \A i \in 1..Len(new) : new[i].topic # m.topic
    BY <1>1
  <2>2. ~ \E i \in 1..Len(old) : old[i] = m
    BY <1>1
  <2> QED
    BY <2>1, <2>2 DEF Says
<1>2. CASE \E i \in 1..Len(old) :
             /\ old[i] = m
             /\ \A j \in (i + 1)..Len(old) : old[j].topic # m.topic
  <2>1. PICK i \in 1..Len(old) :
          /\ old[i] = m
          /\ \A j \in (i + 1)..Len(old) : old[j].topic # m.topic
    BY <1>2
  <2>2. i \in 1..Len(new) /\ new[i] = m
    BY <2>1
  <2>3. \A j \in (i + 1)..Len(new) : new[j].topic # m.topic
    BY <2>1
  <2> QED
    BY <2>2, <2>3 DEF Says
<1> QED
  BY <1>1, <1>2 DEF Says

\* The first message leaves the line and is kept.
LEMMA KeptWhenSent ==
  ASSUME NEW s \in Seq(Messages), Len(s) = 1, NEW q \in Seq(Messages),
         NEW kept, NEW m, Says(s \o q, kept, m)
  PROVE  Says(q, IF Head(s).topic = m.topic THEN {Head(s).value} ELSE kept, m)
<1> DEFINE line == s \o q
<1>1. /\ Len(line) = Len(q) + 1
      /\ line[1] = Head(s)
      /\ \A i \in 1..Len(q) : line[i + 1] = q[i]
  <2>1. /\ Len(line) = 1 + Len(q)
        /\ line[1] = s[1]
        /\ \A i \in 1..Len(q) : line[1 + i] = q[i]
    BY MessagesAfterMessages
  <2>2. s[1] = Head(s) /\ \A i \in 1..Len(q) : i + 1 = 1 + i
    OBVIOUS
  <2> QED
    BY <2>1, <2>2
<1> HIDE DEF line
<1>2. CASE \A i \in 1..Len(line) : line[i].topic # m.topic
  <2>1. Len(q) \in Nat /\ 1 \in 1..Len(line) /\ \A i \in 1..Len(q) : i + 1 \in 1..Len(line)
    BY <1>1
  <2>2. Head(s).topic # m.topic /\ \A i \in 1..Len(q) : q[i].topic # m.topic
    BY <1>1, <1>2, <2>1
  <2>3. ~ \E i \in 1..Len(line) : line[i] = m
    BY <1>2
  <2> QED
    BY <1>2, <2>2, <2>3 DEF Says, line
<1>3. CASE \E i \in 1..Len(line) :
             /\ line[i] = m
             /\ \A j \in (i + 1)..Len(line) : line[j].topic # m.topic
  <2>1. PICK i \in 1..Len(line) :
          /\ line[i] = m
          /\ \A j \in (i + 1)..Len(line) : line[j].topic # m.topic
    BY <1>3
  <2>2. Len(q) \in Nat
    OBVIOUS
  <2>3. \A j \in i..Len(q) : q[j].topic # m.topic
    <3> TAKE j \in i..Len(q)
    <3>1. j \in 1..Len(q) /\ j + 1 \in (i + 1)..Len(line)
      BY <1>1, <2>2
    <3> QED
      BY <1>1, <2>1, <3>1
  <2>4. CASE i = 1
    <3>1. Head(s) = m
      BY <1>1, <2>1, <2>4
    <3> QED
      BY <2>3, <2>4, <3>1 DEF Says
  <2>5. CASE i # 1
    <3>1. i - 1 \in 1..Len(q) /\ (i - 1) + 1 = i
      BY <1>1, <2>2, <2>5
    <3>2. q[i - 1] = m
      BY <1>1, <2>1, <3>1
    <3> QED
      BY <2>3, <3>1, <3>2 DEF Says
  <2> QED
    BY <2>4, <2>5
<1> QED
  BY <1>2, <1>3 DEF Says, line

(***************************************************************************)
(* What publish_state_on_connect queues.                                   *)
(***************************************************************************)

LEMMA OthersType ==
  ASSUME NEW n \in Nat
  PROVE  /\ Others(n) \in Seq(Messages)
         /\ Len(Others(n)) = n
         /\ \A i \in 1..n : Others(n)[i] = Other
<1>1. Others(n) \in [1..n -> Messages]
  BY DEF Others, Messages
<1>2. Others(n) \in Seq(Messages)
  BY <1>1, SeqDef
<1>3. Len(Others(n)) = n
  BY <1>2 DEF Others
<1> QED
  BY <1>2, <1>3 DEF Others

LEMMA RepublicationType ==
  ASSUME value \in [Topics -> Values]
  PROVE  /\ Republication \in Seq(Messages)
         /\ Len(Republication) = Len(Order) + 1
         /\ \A i \in 1..Len(Order) : Republication[i] = Status(Order[i])
         /\ Republication[Len(Order) + 1] = Other
<1> DEFINE n == Len(Order)
           names == [i \in 1..n |-> Status(Order[i])]
<1>1. n \in Nat
  BY MqttAssumption
<1>2. \A i \in 1..n : Status(Order[i]) \in Messages
  <2> TAKE i \in 1..n
  <2>1. Order[i] \in Topics /\ value[Order[i]] \in Values
    BY DEF Topics
  <2> QED
    BY <2>1, StatusType DEF Status
<1> HIDE DEF n
<1>3. names \in [1..n -> Messages]
  BY <1>2
<1>4. names \in Seq(Messages)
  BY <1>1, <1>3, SeqDef
<1>5. Len(names) = n /\ \A i \in 1..n : names[i] = Status(Order[i])
  BY <1>1, <1>4
<1> HIDE DEF names
<1>6. <<Other>> \in Seq(Messages) /\ Len(<<Other>>) = 1 /\ <<Other>>[1] = Other
  BY DEF Messages
<1>7. /\ names \o <<Other>> \in Seq(Messages)
      /\ Len(names \o <<Other>>) = n + 1
      /\ \A i \in 1..n : (names \o <<Other>>)[i] = names[i]
      /\ (names \o <<Other>>)[n + 1] = <<Other>>[1]
  BY <1>1, <1>4, <1>5, <1>6, MessagesAfterMessages
<1>8. Republication = names \o <<Other>>
  BY DEF Republication, names, n
<1> QED
  BY <1>5, <1>6, <1>7, <1>8 DEF n

(***************************************************************************)
(* Types.                                                                  *)
(***************************************************************************)

LEMMA OtherTasksType ==
  ASSUME TypeOK, \/ \E t \in Topics : Change(t)
                 \/ CollectSamples
                 \/ CollectTemperatures
  PROVE  TypeOK'
<1>1. ASSUME NEW t \in Topics, Change(t) PROVE TypeOK'
  <2>1. PICK v \in Values \ {value[t]}, logs \in 0..1 :
          /\ value' = [value EXCEPT ![t] = v]
          /\ queue' = Offer(queue, <<[topic |-> t, value |-> v]>> \o Others(logs))
    BY <1>1 DEF Change
  <2>2. value' \in [Topics -> Values]
    BY <2>1 DEF TypeOK
  <2>3. <<[topic |-> t, value |-> v]>> \in Seq(Messages)
    BY StatusType
  <2>4. <<[topic |-> t, value |-> v]>> \o Others(logs) \in Seq(Messages)
    BY <2>3, OthersType, MessagesAfterMessages
  <2>5. queue' \in Seq(Messages) /\ Len(queue') <= Capacity
    BY <2>1, <2>4, OfferType DEF TypeOK
  <2>6. lost' \in [Topics -> BOOLEAN]
    BY <1>1 DEF Change, TypeOK
  <2> QED
    BY <1>1, <2>2, <2>5, <2>6 DEF Change, TypeOK, taskVars, linkVars
<1>2. ASSUME NEW n \in Nat, Collect(n) PROVE TypeOK'
  <2>1. queue' \in Seq(Messages) /\ Len(queue') <= Capacity
    BY <1>2, OthersType, OfferType DEF Collect, TypeOK
  <2> QED
    BY <1>2, <2>1 DEF Collect, TypeOK, taskVars, linkVars
<1>3. BatchSize \in Nat /\ 1..MaxSensors \subseteq Nat
  BY MqttAssumption
<1> QED
  BY <1>1, <1>2, <1>3 DEF CollectSamples, CollectTemperatures

LEMMA LinkType ==
  ASSUME TypeOK, NetworkDown \/ NetworkUp \/ Broker \/ Deliver
  PROVE  TypeOK'
<1>1. CASE NetworkDown
  BY <1>1 DEF NetworkDown, TypeOK, taskVars
<1>2. CASE NetworkUp
  BY <1>2 DEF NetworkUp, TypeOK, taskVars
<1>3. CASE BrokerAcks
  <2>1. Subscriptions \in Nat
    BY MqttAssumption DEF Subscriptions
  <2>2. subscribed' \in 0..Subscriptions
    BY <1>3, <2>1 DEF BrokerAcks, TypeOK
  <2>3. inbox' \in Seq({"connack", "suback", "state", "servo", "shutdown"})
    BY <1>3 DEF BrokerAcks, TypeOK
  <2> QED
    BY <1>3, <2>2, <2>3 DEF BrokerAcks, TypeOK, taskVars
<1>4. CASE Deliver
  <2>1. PICK i \in 1..subscribed : inbox' = Append(inbox, CommandTopics[i])
    BY <1>4 DEF Deliver
  <2>2. i \in 1..Len(CommandTopics)
    BY MqttAssumption DEF TypeOK, Subscriptions
  <2>3. CommandTopics[i] \in {"state", "servo", "shutdown"}
    BY <2>2, MqttAssumption
  <2>4. inbox' \in Seq({"connack", "suback", "state", "servo", "shutdown"})
    BY <2>1, <2>3 DEF TypeOK
  <2>5. delivered' \in 0..MaxCommands
    BY <1>4, MqttAssumption DEF Deliver, TypeOK
  <2> QED
    BY <1>4, <2>4, <2>5 DEF Deliver, TypeOK, taskVars
<1>5. CASE BrokerAccepts
  <2>1. inbox' \in Seq({"connack", "suback", "state", "servo", "shutdown"})
    BY <1>5 DEF BrokerAccepts
  <2> QED
    BY <1>5, <2>1 DEF BrokerAccepts, TypeOK, taskVars
<1>6. CASE RestArrives
  BY <1>6 DEF RestArrives, TypeOK, taskVars
<1> QED
  BY <1>1, <1>2, <1>3, <1>4, <1>5, <1>6 DEF Broker

LEMMA MqttTaskType ==
  ASSUME TypeOK, MqttTask
  PROVE  TypeOK'
<1> USE DEF taskVars, linkVars
<1>1. CASE LinkUp
  BY <1>1 DEF LinkUp, TypeOK
<1>2. CASE Connect
  BY <1>2 DEF Connect, TypeOK
<1>3. CASE ReadSuback
  <2>1. subacks' \in 0..Subscriptions
    BY <1>3, MqttAssumption DEF ReadSuback, TypeOK, AllAcked, Subscriptions
  <2>2. inbox' \in Seq({"connack", "suback", "state", "servo", "shutdown"})
    BY <1>3 DEF ReadSuback, TypeOK, PacketArrived
  <2> QED
    BY <1>3, <2>1, <2>2 DEF ReadSuback, TypeOK
<1>4. CASE DiscardCommand
  <2>1. inbox' \in Seq({"connack", "suback", "state", "servo", "shutdown"})
    BY <1>4 DEF DiscardCommand, TypeOK, PacketArrived
  <2> QED
    BY <1>4, <2>1 DEF DiscardCommand, TypeOK
<1>5. CASE StartSession
  <2>1. queue' \in Seq(Messages) /\ Len(queue') <= Capacity
    BY <1>5, RepublicationType, OfferType DEF StartSession, TypeOK
  <2>2. lost' \in [Topics -> BOOLEAN]
    BY <1>5 DEF StartSession
  <2> QED
    BY <1>5, <2>1, <2>2 DEF StartSession, TypeOK
<1>6. CASE HandleCommand
  <2>1. <<Other>> \in Seq(Messages)
    BY DEF Messages
  <2>2. queue' \in Seq(Messages) /\ Len(queue') <= Capacity
    BY <1>6, <2>1, OfferType DEF HandleCommand, TypeOK
  <2>3. inbox' \in Seq({"connack", "suback", "state", "servo", "shutdown"})
    BY <1>6 DEF HandleCommand, TypeOK, PacketArrived
  <2>4. shutdown' \in BOOLEAN
    BY <1>6 DEF HandleCommand, TypeOK
  <2> QED
    BY <1>6, <2>2, <2>3, <2>4 DEF HandleCommand, TypeOK
<1>7. CASE TakeOutbound
  <2>0. /\ queue # <<>> /\ sending' = <<Head(queue)>> /\ queue' = Rest(queue)
        /\ UNCHANGED <<value, phase, subacks, shutdown, linkVars, retained, delivered, lost>>
    BY <1>7, TakingSends
  <2>1. queue' \in Seq(Messages) /\ Len(queue') <= Capacity
    BY <1>7, <2>0, MqttAssumption DEF TypeOK, Rest
  <2>2. sending' \in Seq(Messages) /\ Len(sending') <= 1
    BY <2>0 DEF TypeOK
  <2> QED
    BY <2>0, <2>1, <2>2 DEF TypeOK, linkVars
<1>8. CASE Sent
  <2>1. Head(sending) \in Messages
    BY <1>8 DEF Sent, TypeOK
  <2>2. retained' \in [Topics -> {{}} \cup {{v} : v \in Values}]
    <3>1. CASE Head(sending) = Other
      BY <1>8, <3>1 DEF Sent, TypeOK
    <3>2. CASE Head(sending) # Other
      <4>1. Head(sending).value \in Values
        BY <2>1, <3>2 DEF Messages
      <4> QED
        BY <1>8, <4>1 DEF Sent, TypeOK
    <3> QED
      BY <3>1, <3>2
  <2>3. sending' \in Seq(Messages) /\ Len(sending') <= 1
    BY <1>8 DEF Sent
  <2> QED
    BY <1>8, <2>2, <2>3 DEF Sent, TypeOK
<1>9. CASE Reconnect
  BY <1>9 DEF Reconnect, TypeOK
<1>10. CASE ReadConnack
  <2>1. inbox' \in Seq({"connack", "suback", "state", "servo", "shutdown"})
    BY <1>10 DEF ReadConnack, TypeOK, PacketArrived
  <2> QED
    BY <1>10, <2>1 DEF ReadConnack, TypeOK
<1> QED
  BY <1>1, <1>2, <1>3, <1>4, <1>5, <1>6, <1>7, <1>8, <1>9, <1>10 DEF MqttTask

LEMMA EndType ==
  ASSUME TypeOK, EndSession
  PROVE  TypeOK'
<1>1. 0 \in 0..Subscriptions /\ 0 <= Capacity
  BY MqttAssumption DEF Subscriptions
<1>2. queue' = <<>> /\ sending' = <<>> /\ inbox' = <<>>
  BY DEF EndSession
<1>3. /\ queue' \in Seq(Messages) /\ Len(queue') = 0
      /\ sending' \in Seq(Messages) /\ Len(sending') = 0
      /\ inbox' \in Seq({"connack", "suback", "state", "servo", "shutdown"})
  BY <1>2
<1>4. {shutdown', reachable', alive', partial'} \subseteq BOOLEAN
  BY Zenon DEF EndSession, TypeOK
<1> QED
  BY <1>1, <1>3, <1>4 DEF EndSession, TypeOK

LEMMA TypeInit == Init => TypeOK
<1> SUFFICES ASSUME Init PROVE TypeOK
  OBVIOUS
<1>1. 0 \in 0..Subscriptions /\ 0 <= Capacity /\ 0 \in 0..MaxCommands
  BY MqttAssumption DEF Subscriptions
<1>2. queue = <<>> /\ sending = <<>> /\ inbox = <<>>
  BY DEF Init
<1>3. /\ queue \in Seq(Messages) /\ Len(queue) = 0
      /\ sending \in Seq(Messages) /\ Len(sending) = 0
      /\ inbox \in Seq({"connack", "suback", "state", "servo", "shutdown"})
  BY <1>2
<1>4. value \in [Topics -> Values] /\ lost \in [Topics -> BOOLEAN]
  BY DEF Init
<1>5. {shutdown, reachable, alive, partial} \subseteq BOOLEAN
  BY Zenon DEF Init
<1> QED
  BY <1>1, <1>3, <1>4, <1>5 DEF Init, TypeOK

LEMMA TypeStep == TypeOK /\ [Next]_vars => TypeOK'
<1> SUFFICES ASSUME TypeOK, [Next]_vars PROVE TypeOK'
  OBVIOUS
<1>1. CASE ConnectFails \/ HandshakeFails \/ SessionFails
  BY <1>1, EndType DEF ConnectFails, HandshakeFails, SessionFails
<1>2. CASE UNCHANGED vars
  BY <1>2 DEF vars, taskVars, linkVars, TypeOK
<1> QED
  BY <1>1, <1>2, OtherTasksType, LinkType, MqttTaskType DEF Next

\* The queue never outgrows its capacity, and every variable keeps to its type.
THEOREM TypeCorrect == Spec => []TypeOK
  BY TypeInit, TypeStep, PTL DEF Spec

(***************************************************************************)
(* What the broker retains.                                                *)
(***************************************************************************)

\* Messages of other topics at the end of the line leave what it says of t.
LEMMA OthersLeaveTopic ==
  ASSUME TypeOK, NEW t \in Topics, LastHeard(t),
         NEW ms \in Seq(Messages), \A i \in 1..Len(ms) : ms[i].topic # t,
         queue' = Offer(queue, ms),
         UNCHANGED <<sending, retained>>, value'[t] = value[t]
  PROVE  LastHeard(t)'
<1> DEFINE n == Fits(queue, Len(ms))
<1>1. sending \in Seq(Messages) /\ queue \in Seq(Messages) /\ Len(queue) <= Capacity
  BY DEF TypeOK
<1>2. n \in 0..Len(ms)
  BY <1>1, FitsType
<1>3. Pipeline' = sending \o Offer(queue, ms) /\ Status(t)' = Status(t)
      /\ Status(t).topic = t /\ retained' = retained
  BY DEF Pipeline, Status
<1>4. /\ Pipeline \in Seq(Messages) /\ Pipeline' \in Seq(Messages)
      /\ Len(Pipeline') = Len(Pipeline) + n
      /\ \A i \in 1..Len(Pipeline) : Pipeline'[i] = Pipeline[i]
      /\ \A i \in 1..n : Pipeline'[Len(Pipeline) + i] = ms[i]
  BY PipelineGrows, Zenon
<1> HIDE DEF n
<1>5. Len(Pipeline) <= Len(Pipeline')
  BY <1>2, <1>4
<1>6. \A i \in (Len(Pipeline) + 1)..Len(Pipeline') : Pipeline'[i].topic # t
  <2> TAKE i \in (Len(Pipeline) + 1)..Len(Pipeline')
  <2> DEFINE k == i - Len(Pipeline)
  <2>1. k \in 1..n /\ i = Len(Pipeline) + k
    BY <1>2, <1>4
  <2> HIDE DEF k
  <2>2. Pipeline'[i] = ms[k] /\ k \in 1..Len(ms)
    BY <1>2, <1>4, <2>1
  <2> QED
    BY <2>2
<1>7. Says(Pipeline, retained[t], Status(t))
  BY DEF LastHeard
<1>8. Says(Pipeline', retained[t], Status(t))
  BY <1>3, <1>4, <1>5, <1>6, <1>7, OthersSayNothing
<1> QED
  BY <1>3, <1>8 DEF LastHeard

\* A message that says what t is, with none of t behind it, is the last heard.
LEMMA NewestIsHeard ==
  ASSUME TypeOK, NEW t \in Topics,
         NEW ms \in Seq(Messages), NEW k \in 1..Fits(queue, Len(ms)),
         ms[k] = Status(t)',
         \A i \in (k + 1)..Len(ms) : ms[i].topic # t,
         queue' = Offer(queue, ms), UNCHANGED sending
  PROVE  LastHeard(t)'
<1> DEFINE n == Fits(queue, Len(ms))
<1>1. sending \in Seq(Messages) /\ queue \in Seq(Messages) /\ Len(queue) <= Capacity
  BY DEF TypeOK
<1>2. n \in 0..Len(ms)
  BY <1>1, FitsType
<1>3. Pipeline' = sending \o Offer(queue, ms)
  BY DEF Pipeline
<1>4. /\ Pipeline \in Seq(Messages)
      /\ Len(Pipeline') = Len(Pipeline) + n
      /\ \A i \in 1..n : Pipeline'[Len(Pipeline) + i] = ms[i]
  BY PipelineGrows, Zenon
<1> HIDE DEF n
<1>5. k \in 1..n
  BY DEF n
<1> DEFINE p == Len(Pipeline) + k
<1>6. p \in 1..Len(Pipeline') /\ Pipeline'[p] = Status(t)'
  BY <1>2, <1>4, <1>5
<1>7. \A i \in (p + 1)..Len(Pipeline') : Pipeline'[i].topic # t
  <2> TAKE i \in (p + 1)..Len(Pipeline')
  <2> DEFINE j == i - Len(Pipeline)
  <2>1. j \in 1..n /\ j \in (k + 1)..Len(ms) /\ i = Len(Pipeline) + j
    BY <1>2, <1>4, <1>5
  <2> HIDE DEF j
  <2> QED
    BY <1>4, <2>1
<1>8. Status(t)'.topic = t
  BY DEF Status
<1> HIDE DEF p
<1> QED
  BY <1>6, <1>7, <1>8 DEF LastHeard, Says

\* A step that touches neither the line nor what is retained.
LEMMA NothingSent ==
  ASSUME NEW t \in Topics, LastHeard(t), UNCHANGED <<sending, queue, retained, value>>
  PROVE  LastHeard(t)'
BY DEF LastHeard, Pipeline, Status

\* What a task queues about its new value.
LEMMA NewsType ==
  ASSUME NEW u \in Topics, NEW v \in Values, NEW logs \in 0..1
  PROVE  LET m  == [topic |-> u, value |-> v]
             ms == <<m>> \o Others(logs)
         IN  /\ ms \in Seq(Messages)
             /\ Len(ms) = 1 + logs
             /\ ms[1] = m
             /\ \A i \in 1..logs : ms[1 + i] = Other
<1> DEFINE m == [topic |-> u, value |-> v]
<1>1. <<m>> \in Seq(Messages) /\ Len(<<m>>) = 1 /\ <<m>>[1] = m
  BY StatusType
<1> HIDE DEF m
<1>2. /\ Others(logs) \in Seq(Messages)
      /\ Len(Others(logs)) = logs
      /\ \A i \in 1..logs : Others(logs)[i] = Other
  BY OthersType
<1>3. /\ <<m>> \o Others(logs) \in Seq(Messages)
      /\ Len(<<m>> \o Others(logs)) = Len(<<m>>) + Len(Others(logs))
      /\ \A i \in 1..Len(<<m>>) : (<<m>> \o Others(logs))[i] = <<m>>[i]
      /\ \A i \in 1..Len(Others(logs)) :
           (<<m>> \o Others(logs))[Len(<<m>>) + i] = Others(logs)[i]
  BY <1>1, <1>2, MessagesAfterMessages
<1>4. 1 \in 1..Len(<<m>>)
  BY <1>1
<1>5. /\ <<m>> \o Others(logs) \in Seq(Messages)
      /\ Len(<<m>> \o Others(logs)) = 1 + logs
      /\ (<<m>> \o Others(logs))[1] = m
      /\ \A i \in 1..logs : (<<m>> \o Others(logs))[1 + i] = Other
  BY <1>1, <1>2, <1>3, <1>4
<1> QED
  BY <1>5 DEF m

\* A task's new value is the last heard, if it found room in the queue.
LEMMA ChangeIsHeard ==
  ASSUME TypeOK, NEW u \in Topics, Change(u), NEW t \in Topics, ~lost'[t],
         ~lost[t] => LastHeard(t)
  PROVE  LastHeard(t)'
<1>1. PICK v \in Values \ {value[u]}, logs \in 0..1 :
        /\ value' = [value EXCEPT ![u] = v]
        /\ queue' = Offer(queue, <<[topic |-> u, value |-> v]>> \o Others(logs))
  BY DEF Change
<1> DEFINE m  == [topic |-> u, value |-> v]
           ms == <<m>> \o Others(logs)
<1>2. m.topic = u
  OBVIOUS
<1>3. /\ ms \in Seq(Messages)
      /\ Len(ms) = 1 + logs
      /\ ms[1] = m
      /\ \A i \in 1..logs : ms[1 + i] = Other
  BY NewsType
<1> HIDE DEF m
<1>4. queue' = Offer(queue, ms)
  BY <1>1 DEF m
<1> HIDE DEF ms
<1>5. Len(ms) \in 1..2 /\ \A i \in 2..Len(ms) : ms[i] = Other
  BY <1>3
<1>6. Other.topic \notin Topics
  BY MqttAssumption DEF Other
<1>7. UNCHANGED <<sending, retained>>
  BY DEF Change, taskVars
<1>8. lost' = [lost EXCEPT ![u] = Fits(queue, 1) = 0] /\ lost \in [Topics -> BOOLEAN]
  BY DEF Change, TypeOK
<1>9. value \in [Topics -> Values] /\ queue \in Seq(Messages) /\ Len(queue) <= Capacity
  BY DEF TypeOK
<1>10. CASE t = u
  <2>1. Fits(queue, 1) # 0
    BY <1>8, <1>10
  <2>2. 1 \in 1..Fits(queue, Len(ms))
    <3>1. Capacity - Len(queue) \in Nat \ {0}
      BY <1>9, <2>1, MqttAssumption DEF Fits
    <3>2. Fits(queue, Len(ms)) \in {Len(ms), Capacity - Len(queue)}
      BY DEF Fits
    <3> QED
      BY <1>5, <3>1, <3>2
  <2>3. ms[1] = Status(t)'
    BY <1>1, <1>3, <1>9, <1>10 DEF m, Status
  <2>4. \A i \in (1 + 1)..Len(ms) : ms[i].topic # t
    BY <1>5, <1>6
  <2> QED
    BY <1>3, <1>4, <1>7, <2>2, <2>3, <2>4, NewestIsHeard
<1>11. CASE t # u
  <2>1. ~lost[t]
    BY <1>8, <1>11
  <2>2. value'[t] = value[t]
    BY <1>1, <1>9, <1>11
  <2>3. \A i \in 1..Len(ms) : ms[i].topic # t
    BY <1>2, <1>3, <1>5, <1>6, <1>11
  <2> QED
    BY <1>3, <1>4, <1>7, <2>1, <2>2, <2>3, OthersLeaveTopic
<1> QED
  BY <1>10, <1>11

\* On connect the topics that find room say what is so.
LEMMA ConnectIsHeard ==
  ASSUME TypeOK, StartSession, NEW t \in Topics, ~lost'[t]
  PROVE  LastHeard(t)'
<1> DEFINE n == Len(Order)
           ms == Republication
<1>1. value \in [Topics -> Values] /\ queue \in Seq(Messages) /\ Len(queue) <= Capacity
  BY DEF TypeOK
<1>2. /\ ms \in Seq(Messages)
      /\ Len(ms) = n + 1
      /\ \A i \in 1..n : ms[i] = Status(Order[i])
      /\ ms[n + 1] = Other
  BY <1>1, RepublicationType
<1> HIDE DEF ms
<1>3. n \in Nat /\ Other.topic \notin Topics
  BY MqttAssumption DEF Other
<1>4. PICK k \in 1..Fits(queue, n) : Order[k] = t
  BY DEF StartSession
<1>5. Fits(queue, n) \in 0..n /\ Fits(queue, n) <= Fits(queue, n + 1)
      /\ Fits(queue, n + 1) \in 0..(n + 1)
  <2>1. Len(queue) \in Nat /\ Capacity \in Nat
    BY <1>1, MqttAssumption
  <2> HIDE DEF n
  <2> QED
    BY <1>1, <1>3, <2>1 DEF Fits
<1>6. k \in 1..n /\ k \in 1..Fits(queue, Len(ms))
  BY <1>2, <1>3, <1>5
<1>7. Status(t)' = Status(t) /\ Status(t).topic = t
  BY DEF StartSession, Status
<1>8. ms[k] = Status(t)'
  BY <1>2, <1>4, <1>6, <1>7
<1>9. \A i \in (k + 1)..Len(ms) : ms[i].topic # t
  <2> TAKE i \in (k + 1)..Len(ms)
  <2>1. CASE i = n + 1
    BY <1>2, <1>3, <2>1
  <2>2. CASE i # n + 1
    <3>1. i \in 1..n /\ i # k
      BY <1>2, <1>3, <1>6, <2>2
    <3>2. Order[i] # t
      BY <1>4, <1>6, <3>1, MqttAssumption
    <3>3. Status(Order[i]).topic = Order[i]
      BY DEF Status
    <3> QED
      BY <1>2, <3>1, <3>2, <3>3
  <2> QED
    BY <2>1, <2>2
<1>10. queue' = Offer(queue, ms) /\ sending' = sending
  BY DEF StartSession, ms
<1> QED
  BY <1>2, <1>6, <1>8, <1>9, <1>10, NewestIsHeard

\* The message at the head moves on to client.publish, and from there to the broker.
LEMMA TakingIsSilent ==
  ASSUME TypeOK, TakeOutbound, NEW t \in Topics, LastHeard(t)
  PROVE  LastHeard(t)'
<1>0. /\ queue # <<>> /\ sending = <<>> /\ sending' = <<Head(queue)>> /\ queue' = Rest(queue)
      /\ UNCHANGED <<value, phase, subacks, shutdown, linkVars, retained, delivered, lost>>
  BY TakingSends
<1>1. queue \in Seq(Messages) /\ queue # <<>>
  BY <1>0 DEF TypeOK
<1>2. <<Head(queue)>> \o Tail(queue) = queue /\ <<>> \o queue = queue
  BY <1>1
<1>3. Pipeline' = Pipeline
  BY <1>0, <1>2 DEF Pipeline, Rest
<1>4. Status(t)' = Status(t) /\ retained' = retained
  BY <1>0 DEF Status
<1> QED
  BY <1>3, <1>4 DEF LastHeard

LEMMA SingleMessage ==
  ASSUME NEW s \in Seq(Messages), s # <<>>, Len(s) <= 1
  PROVE  Len(s) = 1 /\ Head(s) \in Messages
<1> DEFINE n == Len(s)
<1>1. n \in Nat /\ n # 0 /\ n <= 1
  OBVIOUS
<1> HIDE DEF n
<1>2. n = 1
  BY <1>1
<1>3. Head(s) \in Messages
  OBVIOUS
<1> QED
  BY <1>2, <1>3 DEF n

LEMMA SendingIsHeard ==
  ASSUME TypeOK, Sent, alive, NEW t \in Topics, LastHeard(t)
  PROVE  LastHeard(t)'
<1>1. sending \in Seq(Messages) /\ Len(sending) = 1 /\ queue \in Seq(Messages)
  <2>1. sending \in Seq(Messages) /\ Len(sending) <= 1 /\ queue \in Seq(Messages)
    BY DEF TypeOK
  <2>2. sending # <<>>
    BY DEF Sent
  <2> QED
    BY <2>1, <2>2, SingleMessage
<1>2. Status(t).topic = t /\ Status(t)' = Status(t) /\ queue' = queue
  BY DEF Status, Sent
<1>3. Head(sending) \in Messages /\ Other.topic \notin Topics
  <2>1. Head(sending) \in Messages
    BY <1>1, SingleMessage DEF Sent
  <2>2. Other.topic \notin Topics
    BY MqttAssumption DEF Other
  <2> QED
    BY <2>1, <2>2
<1>4. retained'[t] = IF Head(sending).topic = t THEN {Head(sending).value} ELSE retained[t]
  <2>1. CASE Head(sending) = Other
    BY <1>3, <2>1 DEF Sent
  <2>2. CASE Head(sending) # Other
    <3>1. Head(sending).topic \in Topics
      BY <1>3, <2>2 DEF Messages
    <3> QED
      BY <2>2, <3>1 DEF Sent, TypeOK
  <2> QED
    BY <2>1, <2>2
<1>5. Says(queue, retained'[t], Status(t))
  <2>1. Says(sending \o queue, retained[t], Status(t))
    BY DEF LastHeard, Pipeline
  <2>2. Says(queue,
             IF Head(sending).topic = Status(t).topic THEN {Head(sending).value}
                                                      ELSE retained[t],
             Status(t))
    BY <1>1, <2>1, KeptWhenSent
  <2> QED
    BY <1>2, <1>4, <2>2
<1>6. Pipeline' = queue
  BY <1>1, <1>2 DEF Sent, Pipeline
<1> QED
  BY <1>2, <1>5, <1>6 DEF LastHeard

LEMMA RetainedStep ==
  TypeOK /\ RetainedIsCurrent /\ [Next]_vars => RetainedIsCurrent'
<1> SUFFICES ASSUME TypeOK, RetainedIsCurrent, [Next]_vars,
                    phase' = "session", alive', NEW t \in Topics, ~lost'[t]
             PROVE  LastHeard(t)'
  BY DEF RetainedIsCurrent
<1>1. ASSUME phase = "session", alive, ~lost[t]
      PROVE  LastHeard(t)
  BY <1>1 DEF RetainedIsCurrent
<1>2. ASSUME NEW u \in Topics, Change(u) PROVE LastHeard(t)'
  <2>1. phase = "session" /\ alive
    BY <1>2 DEF Change, taskVars, linkVars
  <2>2. ~lost[t] => LastHeard(t)
    BY <1>1, <2>1
  <2> QED
    BY <1>2, <2>2, ChangeIsHeard
<1>3. ASSUME NEW n \in Nat, Collect(n) PROVE LastHeard(t)'
  <2>1. \A i \in 1..Len(Others(n)) : Others(n)[i].topic # t
    <3>1. Len(Others(n)) = n /\ \A i \in 1..n : Others(n)[i] = Other
      BY <1>3, OthersType
    <3>2. Other.topic # t
      BY MqttAssumption DEF Other
    <3> QED
      BY <3>1, <3>2
  <2>2. LastHeard(t)
    BY <1>1, <1>3 DEF Collect, taskVars, linkVars
  <2> QED
    BY <1>3, <2>1, <2>2, OthersType, OthersLeaveTopic DEF Collect, taskVars
<1>4. BatchSize \in Nat /\ 1..MaxSensors \subseteq Nat
  BY MqttAssumption
<1>5. CASE NetworkDown \/ NetworkUp \/ Broker \/ Deliver \/ UNCHANGED vars
  <2>1. phase = "session" /\ alive /\ ~lost[t]
    BY <1>5
       DEF NetworkDown, NetworkUp, Broker, BrokerAccepts, BrokerAcks, RestArrives, Deliver, vars,
           taskVars, linkVars
  <2>2. UNCHANGED <<sending, queue, retained, value>>
    BY <1>5
       DEF NetworkDown, NetworkUp, Broker, BrokerAccepts, BrokerAcks, RestArrives, Deliver, vars,
           taskVars
  <2> QED
    BY <1>1, <2>1, <2>2, NothingSent
<1>6. CASE \/ LinkUp \/ Connect \/ ReadConnack \/ ReadSuback \/ DiscardCommand \/ Reconnect
           \/ EndSession
  BY <1>6
     DEF LinkUp, Connect, ReadConnack, ReadSuback, DiscardCommand, Reconnect, EndSession, taskVars
<1>7. CASE StartSession
  BY <1>7, ConnectIsHeard
<1>8. CASE HandleCommand
  <2>1. LastHeard(t)
    BY <1>1, <1>8 DEF HandleCommand, taskVars
  <2>2. UNCHANGED <<sending, retained, value>>
    BY <1>8 DEF HandleCommand, taskVars
  <2>3. <<Other>> \in Seq(Messages) /\ \A i \in 1..Len(<<Other>>) : <<Other>>[i].topic # t
    BY MqttAssumption DEF Messages, Other
  <2>4. CASE queue' = Offer(queue, <<Other>>)
    BY <2>1, <2>2, <2>3, <2>4, OthersLeaveTopic
  <2>5. CASE queue' = queue
    BY <2>1, <2>2, <2>5, NothingSent
  <2> QED
    BY <1>8, <2>4, <2>5 DEF HandleCommand
<1>9. CASE TakeOutbound
  BY <1>1, <1>9, TakingSends, TakingIsSilent DEF linkVars
<1>10. CASE Sent
  BY <1>1, <1>10, SendingIsHeard DEF Sent, linkVars
<1> QED
  BY <1>2, <1>3, <1>4, <1>5, <1>6, <1>7, <1>8, <1>9, <1>10
     DEF Next, MqttTask, CollectSamples, CollectTemperatures, ConnectFails,
         HandshakeFails, SessionFails

\* However often connections break, in a session every retained topic will say
\* what is so, unless its newest value found the queue full.
THEOREM RetainedCorrect == Spec => []RetainedIsCurrent
<1>1. Init => RetainedIsCurrent
  BY DEF Init, RetainedIsCurrent
<1> QED
  BY <1>1, TypeCorrect, RetainedStep, PTL DEF Spec

\* When the queue has room for the values, a new session makes the broker hear them.
LEMMA RoomForAll ==
  ASSUME TypeOK, StartSession, Len(queue) + Len(Order) <= Capacity, NEW t \in Topics
  PROVE  ~lost'[t]
<1>1. PICK k \in 1..Len(Order) : Order[k] = t
  BY DEF Topics
<1>2. Fits(queue, Len(Order)) = Len(Order)
  <2>1. Len(queue) \in Nat /\ Len(Order) \in Nat /\ Capacity \in Nat
    BY MqttAssumption DEF TypeOK
  <2> QED
    BY <2>1 DEF Fits
<1> QED
  BY <1>1, <1>2 DEF StartSession

\* "Published current state on connect" (mqtt/client.rs:167) is true if the queue has
\* room for the values when the session starts; ConnectPublishesState shows that it is
\* not without.
THEOREM RoomIsEnough == Spec => RoomPublishesState
<1>1. ASSUME TypeOK, [Next]_vars, phase = "subscribing", phase' = "session",
             Len(queue) + Len(Order) <= Capacity, NEW t \in Topics
      PROVE  LastHeard(t)'
  <2>1. StartSession
    <3>1. CASE \/ NetworkDown \/ NetworkUp \/ Broker \/ Deliver \/ HandleCommand \/ UNCHANGED vars
      BY <1>1, <3>1
         DEF NetworkDown, NetworkUp, Broker, BrokerAccepts, BrokerAcks, RestArrives, Deliver,
             HandleCommand, taskVars, vars
    <3>2. CASE \/ LinkUp \/ Connect \/ ReadConnack \/ ReadSuback \/ DiscardCommand \/ Sent
               \/ Reconnect \/ EndSession
      BY <1>1, <3>2
         DEF LinkUp, Connect, ReadConnack, ReadSuback, DiscardCommand, Sent, Reconnect, EndSession,
                        taskVars
    <3>3. CASE TakeOutbound
      BY <1>1, <3>3, TakingSends
    <3>4. CASE (\E u \in Topics : Change(u)) \/ \E n \in Nat : Collect(n)
      BY <1>1, <3>4 DEF Change, Collect, taskVars
    <3>5. BatchSize \in Nat /\ 1..MaxSensors \subseteq Nat
      BY MqttAssumption
    <3> QED
      BY <1>1, <3>1, <3>2, <3>3, <3>4, <3>5
         DEF Next, MqttTask, CollectSamples, CollectTemperatures, ConnectFails, HandshakeFails,
             SessionFails
  <2> QED
    BY <1>1, <2>1, RoomForAll, ConnectIsHeard
<1>2. TypeOK /\ [Next]_vars =>
        [phase = "subscribing" /\ phase' = "session" /\ Len(queue) + Len(Order) <= Capacity
           => \A t \in Topics : LastHeard(t)']_vars
  BY <1>1
<1> QED
  BY <1>2, TypeCorrect, PTL DEF Spec, RoomPublishesState

(***************************************************************************)
(* The line to the broker.                                                 *)
(***************************************************************************)

\* What a task queues joins the line, if it is so.
LEMMA OfferSays ==
  ASSUME TypeOK, NEW ms \in Seq(Messages), queue' = Offer(queue, ms),
         UNCHANGED <<sending, retained>>,
         \A i \in 1..Len(ms) : ms[i].topic \in Topics => ms[i].value = value'[ms[i].topic]
  PROVE  Outbound!Say
<1> DEFINE n == Fits(queue, Len(ms))
<1>1. n \in 0..Len(ms)
  BY FitsType DEF TypeOK
<1>2. /\ Pipeline \in Seq(Messages) /\ Pipeline' \in Seq(Messages)
      /\ Len(Pipeline') = Len(Pipeline) + n
      /\ \A i \in 1..Len(Pipeline) : Pipeline'[i] = Pipeline[i]
      /\ \A i \in 1..n : Pipeline'[Len(Pipeline) + i] = ms[i]
  BY PipelineGrows, Zenon
<1> HIDE DEF n
<1>3. \A i \in (Len(Pipeline) + 1)..Len(Pipeline') :
        Pipeline'[i].topic \in Topics => Pipeline'[i].value = value'[Pipeline'[i].topic]
  <2> TAKE i \in (Len(Pipeline) + 1)..Len(Pipeline')
  <2> DEFINE k == i - Len(Pipeline)
  <2>1. k \in 1..n /\ k \in 1..Len(ms) /\ i = Len(Pipeline) + k
    BY <1>1, <1>2
  <2> HIDE DEF k
  <2>2. Pipeline'[i] = ms[k]
    BY <1>2, <2>1
  <2> QED
    BY <2>1, <2>2
<1>4. Len(Pipeline) <= Len(Pipeline')
  BY <1>1, <1>2
<1> QED
  BY <1>2, <1>3, <1>4 DEF Outbound!Say

\* Nothing is put in line, taken from it or heard.
LEMMA LineRests ==
  ASSUME UNCHANGED <<value, sending, queue, retained>>
  PROVE  UNCHANGED Outbound!vars
BY DEF Outbound!vars, Pipeline

\* Messages of the topics that are not retained say nothing of the values.
LEMMA OthersSay ==
  ASSUME TypeOK, NEW n \in Nat, queue' = Offer(queue, Others(n)), UNCHANGED <<sending, retained>>
  PROVE  Outbound!Say
<1>1. Other.topic \notin Topics
  BY MqttAssumption DEF Other
<1> QED
  BY <1>1, OthersType, OfferSays

LEMMA ChangeSays ==
  ASSUME TypeOK, NEW u \in Topics, Change(u)
  PROVE  Outbound!Say
<1>1. PICK v \in Values \ {value[u]}, logs \in 0..1 :
        /\ value' = [value EXCEPT ![u] = v]
        /\ queue' = Offer(queue, <<[topic |-> u, value |-> v]>> \o Others(logs))
  BY DEF Change
<1> DEFINE m  == [topic |-> u, value |-> v]
           ms == <<m>> \o Others(logs)
<1>2. m.topic = u /\ m.value = v /\ value'[u] = v
  BY <1>1 DEF TypeOK
<1>3. /\ ms \in Seq(Messages)
      /\ Len(ms) = 1 + logs
      /\ ms[1] = m
      /\ \A i \in 1..logs : ms[1 + i] = Other
  BY NewsType
<1>4. queue' = Offer(queue, ms) /\ UNCHANGED <<sending, retained>>
  BY <1>1 DEF Change, taskVars
<1> HIDE DEF m, ms
<1>5. \A i \in 1..Len(ms) : ms[i] \in {m, Other}
  BY <1>3
<1>6. Other.topic \notin Topics
  BY MqttAssumption DEF Other
<1> QED
  BY <1>2, <1>3, <1>4, <1>5, <1>6, OfferSays

LEMMA StartSays ==
  ASSUME TypeOK, StartSession
  PROVE  Outbound!Say
<1>1. /\ Republication \in Seq(Messages)
      /\ Len(Republication) = Len(Order) + 1
      /\ \A i \in 1..Len(Order) : Republication[i] = Status(Order[i])
      /\ Republication[Len(Order) + 1] = Other
  BY RepublicationType DEF TypeOK
<1>2. Other.topic \notin Topics /\ Len(Order) \in Nat
  BY MqttAssumption DEF Other
<1>3. value' = value /\ queue' = Offer(queue, Republication) /\ UNCHANGED <<sending, retained>>
  BY DEF StartSession
<1>4. \A i \in 1..Len(Republication) : Republication[i].topic \in Topics =>
        Republication[i].value = value'[Republication[i].topic]
  <2> TAKE i \in 1..Len(Republication)
  <2>1. CASE i = Len(Order) + 1
    BY <1>1, <1>2, <2>1
  <2>2. CASE i # Len(Order) + 1
    <3>1. i \in 1..Len(Order)
      BY <1>1, <1>2, <2>2
    <3>2. Status(Order[i]).topic = Order[i] /\ Status(Order[i]).value = value[Order[i]]
      BY DEF Status
    <3> QED
      BY <1>1, <1>3, <3>1, <3>2
  <2> QED
    BY <2>1, <2>2
<1> QED
  BY <1>1, <1>3, <1>4, OfferSays

\* client.publish takes the head of the line: the broker hears of it, or it is lost
\* with a connection that the broker has forgotten.
LEMMA SentLeaves ==
  ASSUME TypeOK, Sent
  PROVE  Outbound!Arrive \/ Outbound!Lose
<1>1. sending \in Seq(Messages) /\ queue \in Seq(Messages) /\ sending # <<>> /\ Len(sending) <= 1
  BY DEF TypeOK, Sent
<1>2. Len(sending) = 1 /\ Head(sending) \in Messages
  BY <1>1, SingleMessage
<1>3. /\ Pipeline # <<>>
      /\ Head(Pipeline) = Head(sending)
      /\ Tail(Pipeline) = queue
  <2> DEFINE m == Head(sending)
  <2>1. sending = <<m>>
    BY <1>1, <1>2
  <2> HIDE DEF m
  <2>2. <<m>> \o queue # <<>> /\ Head(<<m>> \o queue) = m /\ Tail(<<m>> \o queue) = queue
    BY <1>1, <1>2 DEF m
  <2> QED
    BY <2>1, <2>2 DEF Pipeline, m
<1>4. Pipeline' = queue
  BY <1>1 DEF Sent, Pipeline
<1>5. value' = value
  BY DEF Sent
<1>6. Outbound!Leave
  BY <1>3, <1>4, <1>5 DEF Outbound!Leave
<1>7. Head(sending).topic \in Topics <=> Head(sending) # Other
  BY <1>2, MqttAssumption DEF Messages, Other
<1>8. CASE alive
  BY <1>3, <1>6, <1>7, <1>8 DEF Sent, Outbound!Arrive
<1>9. CASE ~alive
  BY <1>6, <1>9 DEF Sent, Outbound!Lose
<1> QED
  BY <1>8, <1>9

LEMMA EndingDrops ==
  ASSUME EndSession
  PROVE  Outbound!Drop
<1>1. Pipeline' = <<>>
  BY DEF EndSession, Pipeline
<1> QED
  BY <1>1 DEF EndSession, Outbound!Drop

\* Every step is one of the line's, or nothing to it.
LEMMA OutboundStep ==
  ASSUME TypeOK, [Next]_vars
  PROVE  [Outbound!Next]_(Outbound!vars)
<1> USE DEF Outbound!Next
<1>1. ASSUME NEW u \in Topics, Change(u) PROVE Outbound!Say
  BY <1>1, ChangeSays
<1>2. ASSUME NEW n \in Nat, Collect(n) PROVE Outbound!Say
  BY <1>2, OthersSay DEF Collect, taskVars
<1>3. BatchSize \in Nat /\ 1..MaxSensors \subseteq Nat
  BY MqttAssumption
<1>4. CASE NetworkDown \/ NetworkUp \/ Broker \/ Deliver \/ UNCHANGED vars
  BY <1>4, LineRests
     DEF NetworkDown, NetworkUp, Broker, BrokerAccepts, BrokerAcks, RestArrives, Deliver,
         taskVars, vars
<1>5. CASE LinkUp \/ Connect \/ ReadConnack \/ ReadSuback \/ DiscardCommand \/ Reconnect
  BY <1>5, LineRests
     DEF LinkUp, Connect, ReadConnack, ReadSuback, DiscardCommand, Reconnect, taskVars
<1>6. CASE StartSession
  BY <1>6, StartSays
<1>7. CASE HandleCommand
  <2>1. UNCHANGED <<value, sending, retained>>
    BY <1>7 DEF HandleCommand, taskVars
  <2>2. <<Other>> \in Seq(Messages) /\ \A i \in 1..Len(<<Other>>) : <<Other>>[i].topic \notin Topics
    BY MqttAssumption DEF Messages, Other
  <2>3. CASE queue' = Offer(queue, <<Other>>)
    BY <2>1, <2>2, <2>3, OfferSays
  <2>4. CASE queue' = queue
    BY <2>1, <2>4, LineRests
  <2> QED
    BY <1>7, <2>3, <2>4 DEF HandleCommand
<1>8. CASE TakeOutbound
  <2>1. /\ queue # <<>> /\ sending = <<>> /\ sending' = <<Head(queue)>> /\ queue' = Rest(queue)
        /\ UNCHANGED <<value, retained>>
    BY <1>8, TakingSends
  <2>2. <<Head(queue)>> \o Tail(queue) = queue /\ <<>> \o queue = queue
    BY <2>1 DEF TypeOK
  <2> QED
    BY <2>1, <2>2 DEF Outbound!vars, Pipeline, Rest
<1>9. CASE Sent
  BY <1>9, SentLeaves
<1>10. CASE EndSession
  BY <1>10, EndingDrops
<1> QED
  BY <1>1, <1>2, <1>3, <1>4, <1>5, <1>6, <1>7, <1>8, <1>9, <1>10
     DEF Next, MqttTask, CollectSamples, CollectTemperatures, ConnectFails,
         HandshakeFails, SessionFails

\* The queue, the session and the network together are a line to the broker that
\* loses messages but neither reorders nor invents them, for every capacity.
THEOREM MqttImplementsOutbound == Spec => ImplementsOutbound
<1>1. Init => Outbound!Init
  BY DEF Init, Outbound!Init, Pipeline
<1> QED
  BY <1>1, OutboundStep, TypeCorrect, PTL DEF Spec, ImplementsOutbound, Outbound!Spec
=============================================================================
