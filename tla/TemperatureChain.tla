-------------------------- MODULE TemperatureChain --------------------------
(***************************************************************************)
(* The temperature sensors of the test stand: the TMP107 driver            *)
(* (tmp107.rs), temperature_collection_task, the UART between them and the *)
(* chain of sensors at its other end.                                      *)
(*                                                                         *)
(* The driver's tx returns when its bytes are in the FIFO of the UART, not *)
(* when they have left it, and the task's timers run meanwhile.  So time   *)
(* is part of the model: its unit is what a byte takes on the wire (87 us  *)
(* at 115200 baud).  The task is polled as soon as it can go on.           *)
(***************************************************************************)
EXTENDS Integers, Sequences

CONSTANTS
  Chains,          \* the numbers of sensors that discovery may find
  Interval,        \* TEMP_COLLECTION_INTERVAL_MS, in bytes
  ConversionWait,  \* ONESHOT_CONVERSION_MS
  ReadTimeout,     \* READ_TIMEOUT_MS
  Conversion,      \* what a sensor takes to convert, at most
  TxFifo,          \* size of the FIFO of the UART
  TxThreshold,     \* at how many bytes left it wakes a writer that found it full
  BatchSize,       \* TEMP_BATCH_SIZE, 20 in the code
  MaxRounds        \* bound on the ticks of the task's ticker

MaxSensors == 31

\* Bytes of a command to write and of one to read, with the calibration byte.
WriteBytes == 5
ReadBytes == 3

ASSUME ChainAssumption ==
  /\ Chains \subseteq 1..MaxSensors
  /\ {Interval, ConversionWait, ReadTimeout, Conversion} \subseteq Nat \ {0}
  /\ TxFifo \in Nat /\ TxThreshold \in 0..(TxFifo - WriteBytes)
  /\ {BatchSize, MaxRounds} \subseteq Nat \ {0}

VARIABLES    \* the wire and the sensors
  tx,        \* bytes in the FIFO
  trigger,   \* bytes until the one-shot command has left, 0 if it has
  ask,       \* bytes until the read command has left
  reply,     \* bytes of the reply still to come
  residue,   \* the receiver holds bytes of an earlier reply
  conversion,\* bytes until the running conversion is done
  fresh,     \* the temperature registers hold what the last trigger asked for
  answered   \* what fresh was when the sensors took the reply from them

VARIABLES    \* the task
  task,      \* where temperature_collection_task is
  count,     \* sensor_count
  toWrite,   \* bytes still to be put into the FIFO
  timer,     \* the Timer or the timeout that the task awaits
  ticker,    \* until the ticker's deadline, negative when it has passed
  received,  \* the reply as read: nothing yet, or whether it is fresh and its own
  batch,     \* the samples of the current batch
  first,     \* first_timestamp_ms, as the round it was taken in
  round,     \* the ticks so far: what Instant::now tells apart
  packets    \* what was queued for the broker with the last sample

wireVars  == <<tx, trigger, ask, reply, residue, conversion, fresh, answered>>
batchVars == <<batch, first, packets>>
vars == <<wireVars, task, count, toWrite, timer, ticker, received, batchVars, round>>

(***************************************************************************)
(* Helpers.  Deliberate bugs stand before the definition they stand in for.*)
(***************************************************************************)
Less(n) == IF n > 0 THEN n - 1 ELSE 0

\* set_leds writes two limits for each of the two outputs of each sensor.
LedBytes(n) == 4 * WriteBytes * n

\* tx fills the FIFO, and goes on when it is nearly empty.
PutIn(n) == IF tx + n > TxFifo THEN TxFifo ELSE tx + n
Write(n) ==
  /\ tx' = PutIn(n)
  /\ toWrite' = tx + n - PutIn(n)

\* clear_read_buffer
KeepBuffer == UNCHANGED residue
ClearBuffer == residue' = FALSE

\* The reply, highest address first, and where global_read puts its words.
Reply == [i \in 1..count |-> count + 1 - i]
Placed(words) == [s \in 1..count |-> words[count + 1 - s]]
InPlace == \A s \in 1..count : Placed(Reply)[s] = s

FirstEver == IF round = 1 THEN round ELSE first
FirstOfBatch == IF batch = <<>> THEN round ELSE first

\* One packet for each sensor, until the queue is full; all have the same times.
Packet(samples) == [first |-> FirstOfBatch, last |-> round, samples |-> samples]

(***************************************************************************)
(* Time.  A byte leaves the FIFO, or arrives.                              *)
(***************************************************************************)
\* A tx that awaits its last byte leaving the FIFO, with the limits of the LEDs.
ReadyWhenFlushed ==
  \/ task = "discovering"
  \/ task = "ticking" /\ ticker <= 0
  \/ task \in {"triggering", "asking"} /\ (toWrite = 0 \/ tx <= TxThreshold)
  \/ task = "lighting" /\ (IF toWrite = 0 THEN tx = 0 ELSE tx <= TxThreshold)
  \/ task = "converting" /\ timer = 0
  \/ task = "reading" /\ (received # {} \/ timer = 0)

Ready ==
  \/ task = "discovering"
  \/ task = "ticking" /\ ticker <= 0
  \/ task \in {"triggering", "asking", "lighting"} /\ (toWrite = 0 \/ tx <= TxThreshold)
  \/ task = "converting" /\ timer = 0
  \/ task = "reading" /\ (received # {} \/ timer = 0)

\* The last byte of the reply was read, or is left for whoever reads next.
ReplyEnds ==
  IF reply # 1 THEN UNCHANGED <<received, residue>>
  ELSE IF task = "reading"
       THEN /\ received' = {[fresh |-> answered, own |-> ~residue /\ InPlace]}
            /\ UNCHANGED residue
       ELSE /\ residue' = TRUE
            /\ UNCHANGED received

\* A sensor that is not there, or does not hear, leaves the reply incomplete.
Byte ==
  /\ ~Ready
  /\ tx' = Less(tx)
  /\ trigger' = Less(trigger)
  /\ ask' = Less(ask)
  /\ conversion' = IF trigger = 1 THEN Conversion ELSE Less(conversion)
  /\ fresh' = IF conversion = 1 /\ trigger = 0 THEN TRUE ELSE fresh
  /\ reply' \in IF ask = 1 THEN {0, 2 * count} ELSE {Less(reply)}
  /\ answered' = IF ask = 1 THEN fresh' ELSE answered
  /\ ReplyEnds
  /\ timer' = Less(timer)
  /\ ticker' = ticker - 1
  /\ UNCHANGED <<task, count, toWrite, batchVars, round>>

(***************************************************************************)
(* The task.                                                               *)
(***************************************************************************)
Init ==
  /\ tx = 0 /\ trigger = 0 /\ ask = 0 /\ reply = 0 /\ conversion = 0
  /\ toWrite = 0 /\ timer = 0 /\ round = 0 /\ first = 0 /\ count = 0
  /\ residue \in BOOLEAN
  /\ fresh = FALSE /\ answered = FALSE
  /\ task = "discovering"
  /\ ticker = Interval
  /\ received = {}
  /\ batch = <<>>
  /\ packets = <<>>

\* Tmp107::init, which begins anew until a sensor answers, and shutdown; sensors
\* that answer later than ADDR_DISCOVER_TIMEOUT_MS are not counted.
Discover ==
  /\ task = "discovering"
  /\ count' \in Chains
  /\ residue' \in BOOLEAN
  /\ Write(WriteBytes)
  /\ task' = "ticking"
  /\ UNCHANGED <<trigger, ask, reply, conversion, fresh, answered, timer, ticker,
                 received, batchVars, round>>

\* The ticker keeps its pace: a late tick does not delay the next.
Tick ==
  /\ task = "ticking"
  /\ ticker <= 0
  /\ round < MaxRounds
  /\ round' = round + 1
  /\ ticker' = ticker + Interval
  /\ Write(WriteBytes)
  /\ task' = "triggering"
  /\ UNCHANGED <<trigger, ask, reply, residue, conversion, fresh, answered, count,
                 timer, received, batchVars>>

\* A writer that found the FIFO full.
Refill ==
  /\ toWrite > 0
  /\ tx <= TxThreshold
  /\ Write(toWrite)
  /\ UNCHANGED <<trigger, ask, reply, residue, conversion, fresh, answered, task,
                 count, timer, ticker, received, batchVars, round>>

\* trigger_one_shot has returned, and the wait begins.
Triggered ==
  /\ task = "triggering"
  /\ toWrite = 0
  /\ trigger' = tx
  /\ fresh' = FALSE
  /\ timer' = ConversionWait
  /\ task' = "converting"
  /\ UNCHANGED <<tx, ask, reply, residue, conversion, answered, count, toWrite,
                 ticker, received, batchVars, round>>

\* global_read; clear_read_buffer may report an error of the receiver.
AskAll ==
  /\ task = "converting"
  /\ timer = 0
  /\ \/ /\ ClearBuffer
        /\ Write(ReadBytes)
        /\ task' = "asking"
     \/ /\ task' = "ticking"
        /\ UNCHANGED <<tx, toWrite, residue>>
  /\ UNCHANGED <<trigger, ask, reply, conversion, fresh, answered, count, timer,
                 ticker, received, batchVars, round>>

Asked ==
  /\ task = "asking"
  /\ toWrite = 0
  /\ ask' = tx
  /\ timer' = ReadTimeout
  /\ task' = "reading"
  /\ UNCHANGED <<tx, trigger, reply, residue, conversion, fresh, answered, count,
                 toWrite, ticker, received, batchVars, round>>

\* The timeout, or an error of the receiver: the sample is given up.
ReadFails ==
  /\ task = "reading"
  /\ received = {}
  /\ timer = 0 \/ reply > 0
  /\ task' = "ticking"
  /\ UNCHANGED <<wireVars, count, toWrite, timer, ticker, received, batchVars, round>>

\* read_all_temperatures returns, and show_address_leds begins.
ReadAll ==
  /\ task = "reading"
  /\ received # {}
  /\ Write(LedBytes(count))
  /\ task' = "lighting"
  /\ UNCHANGED <<trigger, ask, reply, residue, conversion, fresh, answered, count,
                 timer, ticker, received, batchVars, round>>

\* The sample takes its place in the batch; a full batch is published, as far as
\* the queue has room.
Sample ==
  /\ task = "lighting"
  /\ toWrite = 0
  /\ task' = "ticking"
  /\ received' = {}
  /\ first' = FirstOfBatch
  /\ \E sample \in received :
       LET samples == Append(batch, [round |-> round, sample |-> sample])
       IN  IF Len(samples) < BatchSize
           THEN batch' = samples /\ packets' = <<>>
           ELSE /\ batch' = <<>>
                /\ \E room \in 0..count :
                     packets' = [s \in 1..room |-> Packet(samples)]
  /\ UNCHANGED <<wireVars, count, toWrite, timer, ticker, round>>

Next ==
  \/ Byte
  \/ Discover
  \/ Tick
  \/ Refill
  \/ Triggered
  \/ AskAll
  \/ Asked
  \/ ReadFails
  \/ ReadAll
  \/ Sample

Spec == Init /\ [][Next]_vars

(***************************************************************************)
(* Properties.                                                             *)
(***************************************************************************)

Samples == [fresh: BOOLEAN, own: BOOLEAN]

\* Every variable keeps to its type.
TypeOK ==
  /\ {tx, trigger, ask, reply, conversion, toWrite, timer, first} \subseteq Nat
  /\ tx <= TxFifo
  /\ {residue, fresh, answered} \subseteq BOOLEAN
  /\ task \in {"discovering", "ticking", "triggering", "converting", "asking",
               "reading", "lighting"}
  /\ count \in Chains \cup {0}
  /\ ticker \in Int
  /\ received \subseteq Samples
  /\ batch \in Seq([round: Nat, sample: Samples])
  /\ round \in 0..MaxRounds

\* Every sample is of the conversion that its round asked for and of the sensor it
\* is put down to: no backlog in the FIFO lets the read overtake the conversion, and
\* no reply is made up of what an earlier one left in the receiver.
SamplesAreTrue == \A s \in received : s.fresh /\ s.own

\* The task keeps the 20 samples a second of the design: it is never late for a tick.
TicksAreKept == task = "ticking" => ticker >= 0

\* A whole round puts this much more on the wire than there is time for until the next
\* tick; so much of the limits of the LEDs is then still in the FIFO.
Excess(n) == ConversionWait + ReadBytes + 2 * n + LedBytes(n) - Interval
Backlog(n) == IF Excess(n) > 0 THEN Excess(n) ELSE 0

\* What of the limits is in the FIFO when the last of them is put in.
LeftInFifo(n) ==
  IF LedBytes(n) <= TxFifo
  THEN LedBytes(n)
  ELSE TxThreshold + 1 + ((LedBytes(n) - TxFifo - 1) % (TxFifo - TxThreshold))

\* A chain short enough that its reply has come before the next read, that the backlog
\* leaves the trigger time to arrive and its conversion time to be done before the read,
\* and that the limits are all in the FIFO by the tick.
ChainFits(n) ==
  /\ 2 * n <= ConversionWait
  /\ WriteBytes + Backlog(n) <= TxFifo
  /\ WriteBytes + Backlog(n) <= ConversionWait
  /\ WriteBytes + Backlog(n) + Conversion <= ConversionWait + ReadBytes
  /\ ConversionWait + ReadBytes + 2 * n + (LedBytes(n) - LeftInFifo(n)) <= Interval

\* With the code's numbers, chains of up to 18 sensors.
Fits ==
  /\ ReadBytes <= ReadTimeout
  /\ ConversionWait + ReadTimeout <= Interval
  /\ \A n \in Chains : ChainFits(n)

\* The invariant behind both, for chains that fit: where the bytes of the commands and
\* of the reply are, and how far the conversion is, by the timer that the task awaits.
TimingInv ==
  /\ task = "discovering" =>
       /\ tx = 0 /\ trigger = 0 /\ ask = 0 /\ reply = 0 /\ toWrite = 0 /\ received = {}
       /\ ticker = Interval
  /\ task # "discovering" => count \in Chains
  /\ task # "reading" => ask = 0
  /\ task \notin {"reading", "lighting"} => received = {}
  /\ task # "converting" => trigger = 0
  /\ task # "lighting" => toWrite = 0
  /\ task = "ticking" =>
       /\ ticker >= 0
       /\ tx = 0 \/ tx <= ticker + Backlog(count)
       /\ reply <= 2 * count
  /\ task = "triggering" =>
       /\ ticker = Interval
       /\ tx \in 1..(WriteBytes + Backlog(count))
       /\ reply <= 2 * count
  /\ task = "converting" =>
       /\ ticker = timer + Interval - ConversionWait
       /\ tx = trigger
       /\ trigger = 0 \/ trigger + ConversionWait <= timer + WriteBytes + Backlog(count)
       /\ reply = 0 \/ reply + ConversionWait <= timer + 2 * count
       /\ trigger > 0 => trigger + Conversion <= timer + ReadBytes
       /\ trigger = 0 /\ ~fresh => conversion \in 1..(timer + ReadBytes)
  /\ task = "asking" =>
       /\ ticker = Interval - ConversionWait
       /\ tx = ReadBytes /\ reply = 0 /\ ~residue
       /\ ~fresh => conversion \in 1..ReadBytes
  /\ task = "reading" =>
       /\ ticker = timer + Interval - ConversionWait - ReadTimeout
       /\ tx = ask /\ ~residue
       /\ ~fresh => conversion \in 1..ask
       /\ ask > 0 => /\ reply = 0 /\ received = {}
                     /\ ask = timer + ReadBytes - ReadTimeout
       /\ reply <= 2 * count
       /\ reply > 0 => /\ received = {} /\ answered
                       /\ reply = timer + ReadBytes + 2 * count - ReadTimeout
       /\ received # {} => timer + ReadBytes + 2 * count = ReadTimeout
  /\ task = "lighting" =>
       /\ reply = 0
       /\ tx + toWrite + Interval
          = ticker + ConversionWait + ReadBytes + 2 * count + LedBytes(count)
       /\ toWrite > 0 =>
            /\ tx >= TxThreshold
            /\ \E k \in 0..toWrite :
                 toWrite = LeftInFifo(count) - TxThreshold + k * (TxFifo - TxThreshold)
            /\ LedBytes(count) > TxFifo
       /\ toWrite = 0 => ticker >= 0
  /\ SamplesAreTrue

\* A packet has as many samples as it says, in order, of different rounds, the first
\* and the last of them taken at its two times, whatever readings failed in between.
PacketsAreWhole ==
  \A s \in DOMAIN packets :
    LET p == packets[s] IN
      /\ Len(p.samples) = BatchSize
      /\ p.first = p.samples[1].round
      /\ p.last = p.samples[BatchSize].round
      /\ \A i \in 2..BatchSize : p.samples[i - 1].round < p.samples[i].round

\* The invariant behind it: the samples of the batch so far.
BatchInv ==
  /\ round \in Nat
  /\ Len(batch) < BatchSize
  /\ batch # <<>> => first = batch[1].round
  /\ \A i \in 1..Len(batch) : batch[i].round <= round
  /\ \A i \in 2..Len(batch) : batch[i - 1].round < batch[i].round
  /\ task \in {"triggering", "converting", "asking", "reading", "lighting"} =>
       \A i \in 1..Len(batch) : batch[i].round < round
  /\ PacketsAreWhole
=============================================================================
