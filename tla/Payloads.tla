------------------------------ MODULE Payloads ------------------------------
(***************************************************************************)
(* What the messages of the test stand look like on the wire: the packing  *)
(* of 12-bit samples and the payloads of the sensors (mqtt/codec.rs,       *)
(* mqtt/sensors), the topic of a temperature sensor (mqtt/topics.rs) and   *)
(* which of them the MQTT task can encode (mqtt/client.rs); and the words  *)
(* it obeys (mqtt/commands).  Bytes are numbers, the samples of a packet a *)
(* sequence.  Deliberate bugs stand before what they stand in for.         *)
(***************************************************************************)
EXTENDS Integers, Sequences

U12Max == 4095           \* U12_MAX
FastBatchSamples == 100  \* FAST_BATCH_SAMPLES
TempBatch == 20          \* TEMP_BATCH_SIZE
PayloadBuffer == 256     \* MQTT_PAYLOAD_BUFFER_SIZE
TopicBuffer == 32        \* TEMP_TOPIC_BUFFER_LEN
TopicPrefix == 12        \* the length of "sensor/temp/"

(***************************************************************************)
(* Three bytes for each pair of samples, two for the one left over.        *)
(***************************************************************************)
EncodedLen(n) == (3 * (n \div 2)) + (2 * (n % 2))

LowByte(first) == first % 256

NibblesSwapped(first, second) == 16 * (first \div 256) + (second % 16)
MiddleByte(first, second) == (first \div 256) + (16 * (second % 16))

HighByte(second) == second \div 16

\* pack_u12: the byte at an index; the sample left over has no second.
PackedByte(samples, index) ==
  LET pair   == (index - 1) \div 3
      first  == samples[2 * pair + 1]
      second == IF 2 * pair + 2 <= Len(samples) THEN samples[2 * pair + 2] ELSE 0
  IN  IF index % 3 = 1 THEN LowByte(first)
      ELSE IF index % 3 = 2 THEN MiddleByte(first, second)
      ELSE HighByte(second)

Pack(samples) == [index \in 1..EncodedLen(Len(samples)) |-> PackedByte(samples, index)]

(***************************************************************************)
(* The payloads: little-endian words, then the samples.                    *)
(***************************************************************************)
Shifted(number) ==
  <<number, number \div 256, (number \div 256) \div 256,
    ((number \div 256) \div 256) \div 256>>

Word(number, bytes) == [i \in 1..bytes |-> Shifted(number)[i] % 256]

TimedSamples(packet, bytes) == Word(packet.first, 4) \o Word(packet.last, 4) \o bytes

FastPayload(packet) == TimedSamples(packet, Pack(packet.samples))

TempPayload(packet) ==
  TimedSamples(packet, [b \in 1..(2 * Len(packet.samples)) |->
                          Word(packet.samples[(b + 1) \div 2], 2)[2 - (b % 2)]])

SlowPayload(packet) == Word(packet.time, 4) \o Word(packet.value, 2)

ArmedPayload(packet) == Word(packet.time, 4) \o <<packet.value>>

\* write_u8_decimal
Decimal(number) ==
  IF number >= 100 THEN <<number \div 100, (number \div 10) % 10, number % 10>>
  ELSE IF number >= 10 THEN <<number \div 10, number % 10>>
  ELSE <<number>>

(***************************************************************************)
(* What encode_outbound_message makes of each message: an error when its   *)
(* payload or its topic finds its buffer too small.                        *)
(***************************************************************************)
SensorPayload == [fast        |-> 8 + EncodedLen(FastBatchSamples),
                  slow        |-> 6,
                  temperature |-> 8 + 2 * TempBatch,
                  armed       |-> 5,
                  servo       |-> 6]

\* A status or a log line is sent as it stands.
TempTopicFits ==
  \A sensor \in 0..255 : TopicPrefix + Len(Decimal(sensor)) <= TopicBuffer

Encodable(kind) ==
  /\ kind \in DOMAIN SensorPayload => SensorPayload[kind] <= PayloadBuffer
  /\ kind = "temperature" => TempTopicFits

SamplesEncode == \A kind \in {"fast", "slow", "temperature", "log"} : Encodable(kind)
StatusesEncode == \A kind \in {"armed", "servo", "status"} : Encodable(kind)

(***************************************************************************)
(* What the operator may say, and what decode makes of it.                 *)
(***************************************************************************)
StateWords == {"FIRE", "FIRE_END", "FIRE_RESET"}
ServoWords == {"OPEN", "CLOSE"}
ShutdownWords == {"SHUTDOWN"}

CommandWords == [state |-> StateWords, servo |-> ServoWords, shutdown |-> ShutdownWords]

\* What an operator may send: a word of this or another topic, or something else.
Words == StateWords \cup ServoWords \cup ShutdownWords \cup {"something else"}

\* dispatch, up to the handler: an unknown topic or an unknown word is an error.
Decodes(topic, word) == topic \in DOMAIN CommandWords /\ word \in CommandWords[topic]

(***************************************************************************)
(* Properties.                                                             *)
(***************************************************************************)
\* The format as its comment has it: how many samples there are and what they say.
PackedSamples(bytes) == (2 * (Len(bytes) \div 3)) + ((Len(bytes) % 3) \div 2)

Unpack(bytes) ==
  [i \in 1..PackedSamples(bytes) |->
     LET start == 3 * ((i - 1) \div 2)
     IN  IF i % 2 = 1 THEN bytes[start + 1] + (256 * (bytes[start + 2] % 16))
         ELSE (bytes[start + 2] \div 16) + (16 * bytes[start + 3])]

\* A little-endian number of two or of four bytes, after the first so many.
TwoBytes(b, at) == b[at + 1] + (256 * b[at + 2])

FourBytes(b, at) ==
  b[at + 1] + (256 * (b[at + 2] + (256 * (b[at + 3] + (256 * b[at + 4])))))

EdgeSamples == {0, 15, 16, 255, 256, 4080, U12Max}
EdgeWords ==
  {FourBytes(<<a, b, c, d>>, 0) : a \in {0, 1, 255}, b \in {0, 1, 255}, c \in {0, 1, 255},
                                  d \in {0, 127}}

\* Samples survive pack_u12 in any number, the odd one out included; so do times
\* and temperatures; payloads are as long as the encoding expects, and no two sensors
\* share a topic.
PayloadsAreLossless ==
  /\ \A n \in 1..5 : \A samples \in [1..n -> EdgeSamples] :
       /\ Unpack(Pack(samples)) = samples
       /\ \A b \in 1..EncodedLen(n) : Pack(samples)[b] \in 0..255
  /\ \A number \in EdgeWords : FourBytes(Word(number, 4), 0) = number
  /\ \A a, b \in EdgeSamples :
       LET bytes == TempPayload([first |-> 0, last |-> 0, samples |-> <<a, b>>])
       IN  TwoBytes(bytes, 8) = a /\ TwoBytes(bytes, 10) = b
  /\ LET packet(n) == [first |-> 0, last |-> 0, samples |-> [i \in 1..n |-> U12Max]]
     IN  /\ Len(FastPayload(packet(FastBatchSamples))) = SensorPayload.fast
         /\ Len(TempPayload(packet(TempBatch))) = SensorPayload.temperature
  /\ Len(SlowPayload([time |-> 0, value |-> U12Max])) = SensorPayload.slow
  /\ Len(ArmedPayload([time |-> 0, value |-> 1])) = SensorPayload.armed
  /\ \A s, t \in 0..255 : Decimal(s) = Decimal(t) => s = t
=============================================================================
