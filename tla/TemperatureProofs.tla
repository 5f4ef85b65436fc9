-------------------------- MODULE TemperatureProofs --------------------------
(***************************************************************************)
(* The temperature samples: for chains short enough for the times and the  *)
(* baud rate, whatever these are, every sample is of the conversion its    *)
(* round asked for and no tick is late; and packets are whole, whatever    *)
(* readings fail, for every chain and every size of batch.                 *)
(***************************************************************************)
EXTENDS TemperatureChain, TLAPS

-----------------------------------------------------------------------------
(* The constants and the helpers. *)

LEMMA Constants ==
  /\ Chains \subseteq 1..31
  /\ Interval \in Nat \ {0} /\ ConversionWait \in Nat \ {0}
  /\ ReadTimeout \in Nat \ {0} /\ Conversion \in Nat \ {0}
  /\ TxFifo \in Nat /\ TxThreshold \in Nat /\ TxThreshold + 5 <= TxFifo
  /\ BatchSize \in Nat \ {0} /\ MaxRounds \in Nat \ {0}
  BY ChainAssumption DEF MaxSensors, WriteBytes

LEMMA ChainsAreNat == \A n \in Chains : n \in Nat /\ n > 0
  BY Constants

\* A write puts into the FIFO what it has room for.
LEMMA WriteFills ==
  ASSUME tx \in Nat, tx <= TxFifo, NEW n \in Nat, Write(n)
  PROVE  /\ tx' \in Nat /\ tx' <= TxFifo /\ tx' >= tx
         /\ toWrite' \in Nat
         /\ tx' + toWrite' = tx + n
         /\ toWrite' > 0 => tx' = TxFifo
         /\ tx + n <= TxFifo => tx' = tx + n /\ toWrite' = 0
  BY Constants DEF Write, PutIn

LEMMA LessType == \A n \in Nat : Less(n) \in Nat /\ Less(n) <= n
  BY DEF Less

LEMMA ElementType ==
  ASSUME NEW S, NEW q \in Seq(S), NEW i \in 1..Len(q)
  PROVE  q[i] \in S
  OBVIOUS

\* The words of a reply are put where their sensors belong.
LEMMA ReplyInPlace == count \in Nat => InPlace
<1> SUFFICES ASSUME count \in Nat, NEW s \in 1..count
             PROVE  Placed(Reply)[s] = s
  BY DEF InPlace
<1>1. count + 1 - s \in 1..count
  OBVIOUS
<1>2. Reply[count + 1 - s] = count + 1 - (count + 1 - s)
  BY <1>1 DEF Reply
<1> QED
  BY <1>2 DEF Placed

-----------------------------------------------------------------------------
(* Type correctness. *)

LEMMA InitType == Init => TypeOK
<1> SUFFICES ASSUME Init
             PROVE  TypeOK
  OBVIOUS
<1>1. {residue, fresh, answered} \subseteq BOOLEAN
  BY Zenon DEF Init
<1>2. batch \in Seq([round: Nat, sample: Samples])
  BY DEF Init
<1>3. ticker \in Int /\ round \in 0..MaxRounds /\ tx <= TxFifo
  BY Constants DEF Init
<1> QED
  BY <1>1, <1>2, <1>3 DEF Init, TypeOK

LEMMA NextType == TypeOK /\ [Next]_vars => TypeOK'
<1> SUFFICES ASSUME TypeOK, [Next]_vars
             PROVE  TypeOK'
  OBVIOUS
<1> USE DEF TypeOK, wireVars, batchVars
<1>0. count \in Nat /\ round \in Nat
  BY ChainsAreNat, Constants
<1>00. /\ tx \in Nat /\ trigger \in Nat /\ ask \in Nat /\ reply \in Nat /\ conversion \in Nat
       /\ toWrite \in Nat /\ timer \in Nat /\ first \in Nat /\ tx <= TxFifo
  OBVIOUS
<1>1. CASE Byte
  <2>1. tx' = Less(tx) /\ trigger' = Less(trigger) /\ ask' = Less(ask) /\ timer' = Less(timer)
    BY <1>1 DEF Byte
  <2>2. /\ tx' \in Nat /\ trigger' \in Nat /\ ask' \in Nat /\ timer' \in Nat
        /\ tx' <= TxFifo
    BY <1>00, <2>1, Constants DEF Less
  <2>3. conversion' \in Nat /\ reply' \in Nat
    <3>1. conversion' \in {Conversion, Less(conversion)}
      BY <1>1 DEF Byte
    <3>2. reply' \in {0, 2 * count, Less(reply)}
      BY <1>1 DEF Byte
    <3> QED
      BY <1>0, <1>00, <3>1, <3>2, Constants DEF Less
  <2>4. fresh' \in BOOLEAN /\ answered' \in BOOLEAN
    BY <1>1 DEF Byte
  <2>5. residue' \in BOOLEAN /\ received' \subseteq Samples
    <3>1. CASE reply # 1
      <4>1. residue' = residue /\ received' = received
        BY <1>1, <3>1 DEF Byte, ReplyEnds
      <4> QED
        BY <4>1
    <3>2. CASE reply = 1 /\ task = "reading"
      <4>1. received' = {[fresh |-> answered, own |-> ~residue /\ InPlace]}
        BY <1>1, <3>2 DEF Byte, ReplyEnds
      <4>2. (~residue /\ InPlace) \in BOOLEAN
        BY Zenon
      <4>3. residue' = residue
        BY <1>1, <3>2 DEF Byte, ReplyEnds
      <4> QED
        BY <4>1, <4>2, <4>3 DEF Samples
    <3>3. CASE reply = 1 /\ task # "reading"
      BY <1>1, <3>3 DEF Byte, ReplyEnds
    <3> QED
      BY <3>1, <3>2, <3>3
  <2>6. ticker' \in Int
    BY <1>1 DEF Byte
  <2> QED
    BY <1>1, <2>2, <2>3, <2>4, <2>5, <2>6 DEF Byte
<1>2. CASE Discover
  BY <1>2, WriteFills DEF Discover, WriteBytes
<1>3. CASE Tick
  <2>1. tx' \in Nat /\ tx' <= TxFifo /\ toWrite' \in Nat
    BY <1>3, WriteFills DEF Tick, WriteBytes
  <2>2. round' \in 0..MaxRounds /\ ticker' \in Int
    BY <1>0, <1>3, Constants DEF Tick
  <2> QED
    BY <1>3, <2>1, <2>2 DEF Tick
<1>4. CASE Refill
  BY <1>4, WriteFills DEF Refill
<1>5. CASE Triggered
  BY <1>5, Constants DEF Triggered
<1>6. CASE AskAll
  BY <1>6, WriteFills DEF AskAll, ReadBytes, ClearBuffer
<1>7. CASE Asked
  BY <1>7, Constants DEF Asked
<1>8. CASE ReadFails
  BY <1>8 DEF ReadFails
<1>9. CASE ReadAll
  <2>1. LedBytes(count) \in Nat
    BY <1>0 DEF LedBytes, WriteBytes
  <2> QED
    BY <1>9, <2>1, WriteFills DEF ReadAll
<1>10. CASE Sample
  <2>1. PICK sample \in received :
          LET samples == Append(batch, [round |-> round, sample |-> sample])
          IN  IF Len(samples) < BatchSize
              THEN batch' = samples /\ packets' = <<>>
              ELSE /\ batch' = <<>>
                   /\ \E room \in 0..count :
                        packets' = [s \in 1..room |-> Packet(samples)]
    BY <1>10 DEF Sample
  <2>2. [round |-> round, sample |-> sample] \in [round: Nat, sample: Samples]
    BY Constants
  <2> DEFINE samples == Append(batch, [round |-> round, sample |-> sample])
  <2>3. batch' \in {samples, <<>>}
    BY <2>1
  <2>5. samples \in Seq([round: Nat, sample: Samples])
    BY <2>2
  <2> HIDE DEF samples
  <2>6. batch' \in Seq([round: Nat, sample: Samples])
    <3>1. CASE batch' = samples
      BY <2>5, <3>1
    <3>2. CASE batch' = <<>>
      BY <3>2
    <3> QED
      BY <2>3, <3>1, <3>2
  <2>4. first' \in Nat
    BY <1>0, <1>00, <1>10 DEF Sample, FirstOfBatch
  <2> QED
    BY <1>10, <2>4, <2>6 DEF Sample
<1>11. CASE UNCHANGED vars
  BY <1>11 DEF vars
<1> QED
  BY <1>1, <1>2, <1>3, <1>4, <1>5, <1>6, <1>7, <1>8, <1>9, <1>10, <1>11 DEF Next

\* Every variable keeps to its type, for every chain, time and size of batch.
THEOREM TypeCorrect == Spec => []TypeOK
  BY InitType, NextType, PTL DEF Spec

-----------------------------------------------------------------------------
(* The packets. *)

LEMMA InitBatch == Init => BatchInv
  BY Constants DEF Init, BatchInv, PacketsAreWhole

LEMMA NextBatch == TypeOK /\ BatchInv /\ [Next]_vars => BatchInv'
<1> SUFFICES ASSUME TypeOK, BatchInv, [Next]_vars
             PROVE  BatchInv'
  OBVIOUS
<1>0. /\ round \in Nat /\ BatchSize \in Nat /\ count \in Nat
      /\ batch \in Seq([round: Nat, sample: Samples])
      /\ \A i \in 1..Len(batch) : batch[i].round \in Nat
  <2>1. round \in Nat /\ BatchSize \in Nat /\ count \in Nat
    <3>1. round \in Nat /\ BatchSize \in Nat
      BY Constants DEF BatchInv
    <3>2. count \in Chains \cup {0}
      BY DEF TypeOK
    <3> QED
      BY <3>1, <3>2, ChainsAreNat
  <2>2. batch \in Seq([round: Nat, sample: Samples])
    BY DEF TypeOK
  <2>3. ASSUME NEW i \in 1..Len(batch)
        PROVE  batch[i].round \in Nat
    <3>1. batch[i] \in [round: Nat, sample: Samples]
      BY <2>2, <2>3, ElementType
    <3> QED
      BY <3>1
  <2> QED
    BY <2>1, <2>2, <2>3
<1>1. CASE Sample
  <2>1. PICK sample \in received :
          LET samples == Append(batch, [round |-> round, sample |-> sample])
          IN  IF Len(samples) < BatchSize
              THEN batch' = samples /\ packets' = <<>>
              ELSE /\ batch' = <<>>
                   /\ \E room \in 0..count :
                        packets' = [s \in 1..room |-> Packet(samples)]
    BY <1>1 DEF Sample
  <2> DEFINE new == [round |-> round, sample |-> sample]
  <2> DEFINE samples == Append(batch, new)
  <2>2. new.round = round
    OBVIOUS
  <2> HIDE DEF new
  <2>3. /\ Len(samples) = Len(batch) + 1 /\ Len(batch) \in Nat
        /\ \A i \in 1..Len(batch) : samples[i] = batch[i]
        /\ samples[Len(batch) + 1] = new
    BY <1>0
  <2>4. /\ Len(samples) <= BatchSize
        /\ \A i \in 1..Len(samples) : samples[i].round <= round
        /\ \A i \in 2..Len(samples) : samples[i - 1].round < samples[i].round
        /\ FirstOfBatch = samples[1].round
    <3>1. Len(samples) <= BatchSize
      BY <1>0, <2>3 DEF BatchInv
    <3>2. \A i \in 1..Len(batch) : batch[i].round < round
      BY <1>1 DEF Sample, BatchInv
    <3>3. ASSUME NEW i \in 1..Len(samples)
          PROVE  samples[i].round <= round
      BY <1>0, <2>2, <2>3, <3>2
    <3>4. ASSUME NEW i \in 2..Len(samples)
          PROVE  samples[i - 1].round < samples[i].round
      <4>1. CASE i = Len(batch) + 1
        BY <2>2, <2>3, <3>2, <4>1
      <4>2. CASE i <= Len(batch)
        BY <2>3, <4>2 DEF BatchInv
      <4> QED
        BY <2>3, <4>1, <4>2
    <3>5. FirstOfBatch = samples[1].round
      <4>1. CASE batch = <<>>
        BY <2>2, <2>3, <4>1 DEF FirstOfBatch
      <4>2. CASE batch # <<>>
        <5>1. Len(batch) >= 1
          BY <1>0, <4>2
        <5> QED
          BY <2>3, <4>2, <5>1 DEF FirstOfBatch, BatchInv
      <4> QED
        BY <4>1, <4>2
    <3> QED
      BY <3>1, <3>3, <3>4, <3>5
  <2>5. task' = "ticking" /\ round' = round /\ first' = FirstOfBatch
    BY <1>1 DEF Sample
  <2> HIDE DEF samples
  <2>6. CASE Len(samples) < BatchSize
    <3>1. batch' = samples /\ packets' = <<>>
      BY <2>1, <2>6 DEF samples, new
    <3> QED
      BY <1>0, <2>4, <2>5, <2>6, <3>1 DEF BatchInv, PacketsAreWhole
  <2>7. CASE ~(Len(samples) < BatchSize)
    <3>1. batch' = <<>>
      BY <2>1, <2>7 DEF samples, new
    <3>2. PICK room \in 0..count : packets' = [s \in 1..room |-> Packet(samples)]
      BY <2>1, <2>7 DEF samples, new
    <3>3. Len(samples) = BatchSize
      BY <1>0, <2>3, <2>4, <2>7
    <3>4. samples[BatchSize].round = round
      BY <2>2, <2>3, <3>3
    <3>5. ASSUME NEW s \in DOMAIN packets'
          PROVE  packets'[s] = [first |-> FirstOfBatch, last |-> round, samples |-> samples]
      BY <1>0, <3>2, <3>5 DEF Packet
    <3>6. PacketsAreWhole'
      BY <2>4, <3>3, <3>4, <3>5 DEF PacketsAreWhole
    <3> QED
      BY <1>0, <2>5, <3>1, <3>6, Constants DEF BatchInv
  <2> QED
    BY <2>6, <2>7
<1>2. CASE Tick
  <2>1. UNCHANGED <<batch, first, packets>> /\ round' = round + 1
    BY <1>2 DEF Tick, batchVars
  <2>2. ASSUME NEW i \in 1..Len(batch)
        PROVE  batch[i].round < round'
    <3>1. batch[i].round \in Nat /\ round \in Nat
      BY <1>0
    <3>2. batch[i].round <= round
      BY DEF BatchInv
    <3> QED
      BY <2>1, <3>1, <3>2
  <2>3. PacketsAreWhole'
    BY <2>1 DEF BatchInv, PacketsAreWhole
  <2> QED
    BY <1>0, <2>1, <2>2, <2>3 DEF BatchInv
<1>3. CASE Byte \/ Discover \/ Refill \/ Triggered \/ AskAll \/ Asked \/ ReadFails \/ ReadAll
           \/ UNCHANGED vars
  <2>1. UNCHANGED <<batch, first, packets, round>>
    BY <1>3 DEF Byte, Discover, Refill, Triggered, AskAll, Asked, ReadFails, ReadAll, batchVars,
                vars
  <2>2. task' = task \/ task \in {"triggering", "converting", "asking", "reading", "lighting"}
        \/ task' = "ticking"
    BY <1>3 DEF Byte, Discover, Refill, Triggered, AskAll, Asked, ReadFails, ReadAll, vars
  <2>3. PacketsAreWhole'
    BY <2>1 DEF BatchInv, PacketsAreWhole
  <2> QED
    BY <2>1, <2>2, <2>3 DEF BatchInv
<1> QED
  BY <1>1, <1>2, <1>3 DEF Next

\* A packet is whole, in order and between its two times, whatever readings fail.
THEOREM PacketsCorrect == Spec => []PacketsAreWhole
<1>1. BatchInv => PacketsAreWhole
  BY DEF BatchInv
<1> QED
  BY <1>1, InitType, NextType, InitBatch, NextBatch, PTL DEF Spec

-----------------------------------------------------------------------------
(* The times, for chains that fit. *)

LEMMA BacklogType ==
  ASSUME NEW n \in Nat
  PROVE  /\ LedBytes(n) \in Nat /\ Excess(n) \in Int
         /\ Backlog(n) \in Nat /\ Excess(n) <= Backlog(n)
<1>1. LedBytes(n) \in Nat
  BY DEF LedBytes, WriteBytes
<1>2. Excess(n) \in Int
  BY <1>1, Constants DEF Excess, ReadBytes
<1> QED
  BY <1>1, <1>2 DEF Backlog

\* One filling of the FIFO more or less.
LEMMA Fillings ==
  ASSUME NEW k \in Nat, NEW step \in Nat \ {0}
  PROVE  /\ k * step \in Nat
         /\ k # 0 => k - 1 \in Nat /\ k * step = (k - 1) * step + step
<1>1. k * step \in Nat
  OBVIOUS
<1>2. (k - 1) * step = k * step - step
  OBVIOUS
<1> QED
  BY <1>1, <1>2

\* What does not fit at once is whole fillings and the last one.
LEMMA LastFilling ==
  ASSUME NEW n \in Nat, LedBytes(n) > TxFifo
  PROVE  /\ LeftInFifo(n) \in (TxThreshold + 1)..TxFifo
         /\ \E k \in Nat :
              LedBytes(n) - TxFifo = LeftInFifo(n) - TxThreshold + k * (TxFifo - TxThreshold)
<1> DEFINE step == TxFifo - TxThreshold
           rest == LedBytes(n) - TxFifo - 1
<1>1. step \in Nat \ {0} /\ rest \in Nat
  BY BacklogType, Constants
<1>2. LeftInFifo(n) = TxThreshold + 1 + (rest % step)
  BY BacklogType, Constants DEF LeftInFifo
<1> HIDE DEF step, rest
<1>3. /\ rest % step \in 0..(step - 1) /\ rest \div step \in Nat
      /\ rest = (rest \div step) * step + (rest % step)
  BY <1>1
<1>4. LeftInFifo(n) \in (TxThreshold + 1)..TxFifo
  BY <1>1, <1>2, <1>3, Constants DEF step
<1>5. LedBytes(n) - TxFifo = LeftInFifo(n) - TxThreshold + (rest \div step) * step
  <2> DEFINE whole == (rest \div step) * step
             last  == rest % step
  <2>1. whole \in Nat
    BY <1>1, <1>3
  <2>2. rest = whole + last /\ last \in Nat /\ LeftInFifo(n) = TxThreshold + 1 + last
    BY <1>1, <1>2, <1>3
  <2>3. rest = LedBytes(n) - TxFifo - 1 /\ LedBytes(n) \in Nat
    BY BacklogType DEF rest
  <2> HIDE DEF whole, last
  <2>4. LedBytes(n) - TxFifo = LeftInFifo(n) - TxThreshold + whole
    BY <2>1, <2>2, <2>3, Constants
  <2> QED
    BY <2>4 DEF whole
<1> QED
  BY <1>3, <1>4, <1>5 DEF step

LEMMA InitTiming == Init => TimingInv
  BY DEF Init, TimingInv, SamplesAreTrue

LEMMA NextTiming ==
  ASSUME Fits, TypeOK, TimingInv, [Next]_vars
  PROVE  TimingInv'
<1>0. /\ count \in Nat /\ ticker \in Int
      /\ tx \in Nat /\ trigger \in Nat /\ ask \in Nat /\ reply \in Nat /\ conversion \in Nat
      /\ toWrite \in Nat /\ timer \in Nat /\ tx <= TxFifo
  BY ChainsAreNat DEF TypeOK
<1>f. \A n \in Chains : ChainFits(n)
  BY DEF Fits
<1>00. /\ Backlog(count) \in Nat /\ LedBytes(count) \in Nat
       /\ Excess(count) \in Int /\ Excess(count) <= Backlog(count)
  BY <1>0, BacklogType
<1>1. CASE Byte
  <2>1. /\ tx' = Less(tx) /\ trigger' = Less(trigger) /\ ask' = Less(ask)
        /\ timer' = Less(timer) /\ ticker' = ticker - 1
        /\ UNCHANGED <<task, count, toWrite>>
    BY <1>1 DEF Byte
  <2>2. /\ conversion' = IF trigger = 1 THEN Conversion ELSE Less(conversion)
        /\ fresh' = IF conversion = 1 /\ trigger = 0 THEN TRUE ELSE fresh
        /\ reply' \in IF ask = 1 THEN {0, 2 * count} ELSE {Less(reply)}
        /\ answered' = IF ask = 1 THEN fresh' ELSE answered
    BY <1>1 DEF Byte
  <2>3. CASE task = "ticking"
    <3>1. ticker > 0
      BY <1>0, <1>1, <2>3 DEF Byte, Ready
    <3>2. UNCHANGED received
      BY <1>1, <2>3 DEF Byte, ReplyEnds
    <3> QED
      BY <1>0, <1>00, <2>1, <2>2, <2>3, <3>1, <3>2, Constants DEF TimingInv, SamplesAreTrue, Less
  <2>4. CASE task = "converting"
    <3>1. timer > 0
      BY <1>0, <1>1, <2>4 DEF Byte, Ready
    <3>2. UNCHANGED received
      BY <1>1, <2>4 DEF Byte, ReplyEnds
    <3>3. /\ ask = 0 /\ received = {} /\ toWrite = 0 /\ count \in Chains
          /\ ticker = timer + Interval - ConversionWait /\ tx = trigger
          /\ trigger = 0 \/ trigger + ConversionWait <= timer + WriteBytes + Backlog(count)
          /\ reply = 0 \/ reply + ConversionWait <= timer + 2 * count
          /\ trigger > 0 => trigger + Conversion <= timer + ReadBytes
          /\ trigger = 0 /\ ~fresh => conversion \in 1..(timer + ReadBytes)
      BY <2>4 DEF TimingInv
    <3>4. reply' = Less(reply) /\ ask' = 0
      BY <2>1, <2>2, <3>3 DEF Less
    <3>5. timer' = timer - 1 /\ ticker' = timer' + Interval - ConversionWait /\ tx' = trigger'
      BY <1>0, <2>1, <3>1, <3>3, Constants DEF Less
    <3>6. trigger' = 0 \/ trigger' + ConversionWait <= timer' + WriteBytes + Backlog(count')
      BY <1>0, <1>00, <2>1, <3>3, <3>5, Constants DEF Less, WriteBytes
    <3>7. reply' = 0 \/ reply' + ConversionWait <= timer' + 2 * count'
      BY <1>0, <2>1, <3>3, <3>4, <3>5, Constants DEF Less
    <3>8. trigger' > 0 => trigger' + Conversion <= timer' + ReadBytes
      BY <1>0, <2>1, <3>3, <3>5, Constants DEF Less, ReadBytes
    <3>9. ASSUME trigger' = 0, ~fresh'
          PROVE  conversion' \in 1..(timer' + ReadBytes)
      <4>1. CASE trigger = 1
        BY <1>0, <2>2, <3>1, <3>3, <3>5, <4>1, Constants DEF ReadBytes
      <4>2. CASE trigger # 1
        <5>1. trigger = 0 /\ ~fresh /\ conversion # 1
          BY <1>0, <2>1, <2>2, <3>9, <4>2 DEF Less
        <5> QED
          BY <1>0, <2>2, <3>1, <3>3, <3>5, <5>1 DEF Less, ReadBytes
      <4> QED
        BY <4>1, <4>2
    <3> QED
      BY <2>1, <2>4, <3>2, <3>3, <3>4, <3>5, <3>6, <3>7, <3>8, <3>9
         DEF TimingInv, SamplesAreTrue
  <2>5. CASE task = "reading"
    <3>1. timer > 0 /\ received = {}
      BY <1>0, <1>1, <2>5 DEF Byte, Ready
    <3>2. fresh' \/ (ask' > 0 /\ conversion' \in 1..ask')
      BY <1>0, <2>1, <2>2, <2>5 DEF TimingInv, Less
    <3>3. CASE reply = 1
      <4>1. answered
        BY <1>0, <2>5, <3>3 DEF TimingInv
      <4>2. received' = {[fresh |-> answered, own |-> ~residue /\ InPlace]}
        BY <1>1, <2>5, <3>3 DEF Byte, ReplyEnds
      <4>3. ~residue /\ InPlace /\ UNCHANGED residue
        BY <1>0, <1>1, <2>5, <3>3, ReplyInPlace DEF Byte, ReplyEnds, TimingInv
      <4>4. SamplesAreTrue'
        <5>1. ASSUME NEW s \in received'
              PROVE  s.fresh /\ s.own
          <6>1. s = [fresh |-> answered, own |-> ~residue /\ InPlace]
            BY <4>2, <5>1, Zenon
          <6>2. s.fresh = answered /\ s.own = (~residue /\ InPlace)
            BY <6>1, Zenon
          <6> QED
            BY <4>1, <4>3, <6>2, Zenon
        <5> QED
          BY <5>1 DEF SamplesAreTrue
      <4>5. /\ tx = ask /\ ask = 0 /\ trigger = 0 /\ toWrite = 0 /\ count \in Chains /\ ~residue
            /\ ticker = timer + Interval - ConversionWait - ReadTimeout
            /\ 1 = timer + ReadBytes + 2 * count - ReadTimeout
        BY <1>0, <2>5, <3>3 DEF TimingInv
      <4>6. /\ tx' = 0 /\ ask' = 0 /\ trigger' = 0 /\ reply' = 0
            /\ timer' = timer - 1 /\ ticker' = ticker - 1
        BY <1>0, <2>1, <2>2, <3>1, <3>3, <4>5 DEF Less
      <4>7. /\ ticker' = timer' + Interval - ConversionWait - ReadTimeout
            /\ timer' + ReadBytes + 2 * count' = ReadTimeout
        BY <1>0, <2>1, <4>5, <4>6, Constants DEF ReadBytes
      <4>8. fresh'
        BY <3>2, <4>6
      <4> QED
        BY <1>0, <2>1, <2>5, <4>3, <4>4, <4>5, <4>6, <4>7, <4>8 DEF TimingInv
    <3>4. CASE reply # 1
      <4>1. UNCHANGED <<received, residue>>
        BY <1>1, <3>4 DEF Byte, ReplyEnds
      <4> QED
        BY <1>0, <2>1, <2>2, <2>5, <3>1, <3>2, <3>4, <4>1, Constants
           DEF TimingInv, SamplesAreTrue, Less, Fits, ReadBytes
    <3> QED
      BY <3>3, <3>4
  <2>6. CASE task = "lighting"
    <3>1. toWrite > 0 /\ tx > TxThreshold
      BY <1>0, <1>1, <2>6, Constants DEF Byte, Ready
    <3>2. UNCHANGED received
      BY <1>0, <1>1, <2>6 DEF Byte, ReplyEnds, TimingInv
    <3>3. LedBytes(count) \in Nat /\ LedBytes(count)' = LedBytes(count)
      BY <1>0, <2>1 DEF LedBytes, WriteBytes
    <3> QED
      BY <1>0, <2>1, <2>2, <2>6, <3>1, <3>2, <3>3, Constants
         DEF TimingInv, SamplesAreTrue, Less, ReadBytes
  <2>7. CASE task \in {"discovering", "triggering", "asking"}
    BY <1>1, <2>7 DEF Byte, Ready, TimingInv
  <2> QED
    BY <2>3, <2>4, <2>5, <2>6, <2>7 DEF TypeOK
<1>2. CASE Discover
  <2>1. count' \in Chains /\ count' \in Nat
    BY <1>2, ChainsAreNat DEF Discover
  <2>2. tx' = WriteBytes /\ toWrite' = 0
    BY <1>0, <1>2, WriteFills, Constants DEF Discover, TimingInv, WriteBytes
  <2>3. /\ trigger' = 0 /\ ask' = 0 /\ reply' = 0 /\ received' = {} /\ ticker' = Interval
        /\ task' = "ticking"
    BY <1>2 DEF Discover, TimingInv
  <2>4. tx' <= ticker' + Backlog(count') /\ ticker' >= 0
    <3>1. /\ Backlog(count') \in Nat
          /\ WriteBytes + Backlog(count') <= ConversionWait /\ ConversionWait <= Interval
      BY <1>f, <2>1, BacklogType, Constants DEF Fits, ChainFits
    <3> QED
      BY <2>2, <2>3, <3>1, Constants DEF WriteBytes
  <2>5. reply' <= 2 * count'
    <3>1. \A n \in Nat : 0 <= 2 * n
      OBVIOUS
    <3> QED
      BY <2>1, <2>3, <3>1
  <2>6. SamplesAreTrue'
    BY <2>3 DEF SamplesAreTrue
  <2> QED
    BY <2>1, <2>2, <2>3, <2>4, <2>5, <2>6 DEF TimingInv
<1>3. CASE Tick
  <2>0. count \in Chains /\ WriteBytes + Backlog(count) <= TxFifo
    BY <1>3, <1>f DEF Tick, TimingInv, ChainFits
  <2>1. tx <= Backlog(count) /\ ticker = 0
    BY <1>0, <1>00, <1>3, Constants DEF Tick, TimingInv
  <2>2. tx' = tx + WriteBytes /\ toWrite' = 0
    BY <1>0, <1>00, <1>3, <2>0, <2>1, WriteFills, Constants DEF Tick, WriteBytes
  <2>3. /\ ask = 0 /\ trigger = 0 /\ received = {} /\ count \in Chains /\ reply <= 2 * count
    BY <1>3 DEF Tick, TimingInv
  <2>4. /\ ticker' = Interval /\ task' = "triggering"
        /\ UNCHANGED <<trigger, ask, reply, count, received>>
    BY <1>3, <2>1, Constants DEF Tick
  <2>5. tx' \in 1..(WriteBytes + Backlog(count'))
    BY <1>0, <1>00, <2>1, <2>2, <2>4, Constants DEF WriteBytes
  <2> QED
    BY <2>2, <2>3, <2>4, <2>5 DEF TimingInv, SamplesAreTrue
<1>4. CASE Refill
  <2> DEFINE step == TxFifo - TxThreshold
             left == LeftInFifo(count)
  <2>1. /\ tx' \in Nat /\ toWrite' \in Nat /\ tx' + toWrite' = tx + toWrite
        /\ toWrite' > 0 => tx' = TxFifo
    BY <1>0, <1>4, WriteFills DEF Refill
  <2>2. task = "lighting" /\ count \in Chains
    BY <1>0, <1>4 DEF Refill, TimingInv
  <2>3. /\ ask = 0 /\ trigger = 0 /\ reply = 0 /\ tx = TxThreshold /\ toWrite > 0
        /\ tx + toWrite + Interval
           = ticker + ConversionWait + ReadBytes + 2 * count + LedBytes(count)
        /\ LedBytes(count) > TxFifo
        /\ \A s \in received : s.fresh /\ s.own
    BY <1>0, <1>4, <2>2, Constants DEF Refill, TimingInv, SamplesAreTrue
  <2>4. PICK k \in 0..toWrite : toWrite = left - TxThreshold + k * step
    BY <1>4, <2>2, <2>3 DEF Refill, TimingInv
  <2>5. left \in (TxThreshold + 1)..TxFifo /\ step \in Nat \ {0}
    BY <1>0, <2>3, LastFilling, Constants
  <2> HIDE DEF step, left
  <2>6. k \in Nat /\ k * step \in Nat /\ (k # 0 => k - 1 \in Nat /\ k * step = (k - 1) * step + step)
    BY <1>0, <2>4, <2>5, Fillings
  <2>7. ASSUME k = 0
        PROVE  toWrite' = 0 /\ ticker >= 0
    <3>1. toWrite = left - TxThreshold
      BY <2>4, <2>5, <2>7, Constants
    <3>2. toWrite' = 0
      BY <1>0, <1>4, <2>3, <2>5, <3>1, WriteFills, Constants DEF Refill
    <3>3. ticker >= 0
      <4>1. ConversionWait + ReadBytes + 2 * count + (LedBytes(count) - left) <= Interval
        BY <1>f, <2>2 DEF ChainFits, left
      <4> QED
        BY <1>0, <1>00, <2>3, <2>5, <3>1, <4>1, Constants DEF ReadBytes
    <3> QED
      BY <3>2, <3>3
  <2>8. ASSUME k # 0
        PROVE  /\ toWrite' > 0 /\ tx' >= TxThreshold
               /\ \E m \in 0..toWrite' : toWrite' = left - TxThreshold + m * step
    <3>1. toWrite > step
      <4>1. (k - 1) * step \in Nat
        BY <2>5, <2>6, <2>8, Fillings
      <4> QED
        BY <1>0, <2>4, <2>5, <2>6, <2>8, <4>1, Constants
    <3>2. tx + toWrite > TxFifo
      BY <1>0, <2>3, <3>1, Constants DEF step
    <3>3. tx' = TxFifo /\ toWrite' = toWrite - step
      BY <1>0, <1>4, <2>3, <3>2, Constants DEF Refill, Write, PutIn, step
    <3>4. toWrite' = left - TxThreshold + (k - 1) * step
      <4> DEFINE fewer == (k - 1) * step
      <4>1. fewer \in Nat
        BY <2>5, <2>6, <2>8, Fillings
      <4>2. toWrite = left - TxThreshold + fewer + step
        <5>1. k * step = fewer + step
          BY <2>6, <2>8
        <5> HIDE DEF fewer
        <5> QED
          BY <2>4, <2>5, <4>1, <5>1, Constants
      <4> HIDE DEF fewer
      <4>3. toWrite' = left - TxThreshold + fewer
        BY <1>0, <2>5, <3>3, <4>1, <4>2, Constants
      <4> QED
        BY <4>3 DEF fewer
    <3>5. k - 1 \in 0..toWrite'
      <4>1. (k - 1) * step >= k - 1 /\ (k - 1) * step \in Nat
        BY <2>5, <2>6, <2>8
      <4> QED
        BY <2>5, <2>6, <2>8, <3>4, <4>1, Constants
    <3>6. toWrite' > 0 /\ tx' >= TxThreshold
      BY <1>0, <2>5, <3>1, <3>3, Constants
    <3> QED
      BY <3>4, <3>5, <3>6, Zenon
  <2>9. /\ UNCHANGED <<trigger, ask, reply, residue, task, count, ticker, received>>
        /\ tx' + toWrite' + Interval
           = ticker' + ConversionWait + ReadBytes + 2 * count' + LedBytes(count)'
    <3>1. UNCHANGED <<trigger, ask, reply, residue, task, count, ticker, received>>
      BY <1>4 DEF Refill
    <3> QED
      BY <2>1, <2>3, <3>1
  <2>10. /\ toWrite' = 0 => ticker' >= 0
         /\ toWrite' > 0 =>
              /\ tx' >= TxThreshold
              /\ \E m \in 0..toWrite' :
                   toWrite' = LeftInFifo(count') - TxThreshold + m * (TxFifo - TxThreshold)
              /\ LedBytes(count') > TxFifo
    <3>1. CASE k = 0
      BY <2>7, <2>9, <3>1
    <3>2. CASE k # 0
      <4>1. /\ toWrite' > 0 /\ tx' >= TxThreshold
            /\ \E m \in 0..toWrite' : toWrite' = left - TxThreshold + m * step
        BY <2>8, <3>2
      <4>2. ~(toWrite' = 0) /\ LedBytes(count') > TxFifo /\ left = LeftInFifo(count')
        BY <2>1, <2>3, <2>9, <4>1 DEF left
      <4> QED
        BY <4>1, <4>2, Zenon DEF step
    <3> QED
      BY <3>1, <3>2
  <2> QED
    BY <2>2, <2>3, <2>9, <2>10 DEF TimingInv, SamplesAreTrue
<1>5. CASE Triggered
  <2>1. /\ WriteBytes + Backlog(count) <= ConversionWait
        /\ WriteBytes + Backlog(count) + Conversion <= ConversionWait + ReadBytes
        /\ 2 * count <= ConversionWait
    BY <1>5, <1>f DEF Triggered, TimingInv, ChainFits
  <2> QED
    BY <1>0, <1>00, <1>5, <2>1, Constants
     DEF Triggered, TimingInv, SamplesAreTrue, Fits, WriteBytes, ReadBytes
<1>6. CASE AskAll
  <2>0. /\ WriteBytes + Backlog(count) <= ConversionWait /\ 2 * count <= ConversionWait
    BY <1>6, <1>f DEF AskAll, TimingInv, ChainFits
  <2>1. tx = 0 /\ reply = 0 /\ trigger = 0 /\ ticker = Interval - ConversionWait
    BY <1>0, <1>00, <1>6, <2>0, Constants DEF AskAll, TimingInv, WriteBytes
  <2>2. CASE task' = "ticking"
    BY <1>0, <1>6, <2>1, <2>2, Constants DEF AskAll, TimingInv, SamplesAreTrue, Fits
  <2>3. CASE task' = "asking"
    <3>1. tx' = ReadBytes /\ toWrite' = 0 /\ ~residue'
      BY <1>0, <1>6, <2>1, <2>3, WriteFills, Constants DEF AskAll, ClearBuffer, ReadBytes
    <3> QED
      BY <1>0, <1>6, <2>1, <2>3, <3>1, Constants
         DEF AskAll, TimingInv, SamplesAreTrue, ReadBytes
  <2> QED
    BY <1>6, <2>2, <2>3 DEF AskAll
<1>7. CASE Asked
  BY <1>0, <1>7, Constants DEF Asked, TimingInv, SamplesAreTrue, Fits, ReadBytes
<1>8. CASE ReadFails
  BY <1>0, <1>8, Constants
     DEF ReadFails, wireVars, batchVars, TimingInv, SamplesAreTrue, Fits, ReadBytes
<1>9. CASE ReadAll
  <2>1. LedBytes(count)' = LedBytes(count)
    BY <1>9 DEF ReadAll, LedBytes
  <2>2. /\ tx = 0 /\ count \in Chains
        /\ ticker = Interval - ConversionWait - ReadBytes - 2 * count
    BY <1>0, <1>9, Constants DEF ReadAll, TimingInv, ReadBytes
  <2>3. /\ tx' \in Nat /\ toWrite' \in Nat /\ tx' + toWrite' = LedBytes(count)
        /\ toWrite' > 0 => tx' = TxFifo
    BY <1>0, <1>00, <1>9, <2>2, WriteFills DEF ReadAll
  <2>4. toWrite' = 0 => ticker >= 0
    <3>1. CASE LedBytes(count) <= TxFifo
      <4>1. ConversionWait + ReadBytes + 2 * count + (LedBytes(count) - LedBytes(count)) <= Interval
        BY <1>f, <2>2, <3>1 DEF ChainFits, LeftInFifo
      <4> QED
        BY <1>0, <1>00, <2>2, <4>1, Constants DEF ReadBytes
    <3>2. CASE LedBytes(count) > TxFifo
      <4>1. tx' <= TxFifo
        BY <1>0, <1>00, <1>9, WriteFills DEF ReadAll
      <4> QED
        BY <1>00, <2>3, <3>2, <4>1, Constants
    <3> QED
      BY <1>00, <3>1, <3>2, Constants
  <2>5. ASSUME toWrite' > 0
        PROVE  /\ tx' >= TxThreshold /\ LedBytes(count) > TxFifo
               /\ \E k \in 0..toWrite' :
                    toWrite' = LeftInFifo(count) - TxThreshold + k * (TxFifo - TxThreshold)
    <3>1. tx' = TxFifo /\ toWrite' = LedBytes(count) - TxFifo /\ LedBytes(count) > TxFifo
      BY <1>00, <2>3, <2>5, Constants
    <3>2. PICK k \in Nat :
            LedBytes(count) - TxFifo = LeftInFifo(count) - TxThreshold + k * (TxFifo - TxThreshold)
      BY <1>0, <3>1, LastFilling
    <3>3. k \in 0..toWrite'
      <4> DEFINE step == TxFifo - TxThreshold
      <4>1. step \in Nat \ {0} /\ LeftInFifo(count) \in (TxThreshold + 1)..TxFifo
        BY <1>0, <3>1, LastFilling, Constants
      <4>2. toWrite' = LeftInFifo(count) - TxThreshold + k * step
        BY <3>1, <3>2
      <4> HIDE DEF step
      <4>3. k * step \in Nat /\ k * step >= k
        BY <4>1
      <4> QED
        BY <4>1, <4>2, <4>3, Constants
    <3> QED
      BY <3>1, <3>2, <3>3, Constants
  <2>6. /\ UNCHANGED <<trigger, ask, reply, residue, count, ticker, received>>
        /\ task' = "lighting"
    BY <1>9 DEF ReadAll
  <2>7. ask = 0 /\ trigger = 0 /\ reply = 0 /\ \A r \in received : r.fresh /\ r.own
    BY <1>0, <1>9, <2>2 DEF ReadAll, TimingInv, SamplesAreTrue
  <2>8. tx' + toWrite' + Interval
        = ticker' + ConversionWait + ReadBytes + 2 * count' + LedBytes(count)'
    BY <1>0, <1>00, <2>1, <2>2, <2>3, <2>6, Constants DEF ReadBytes
  <2> QED
    BY <2>1, <2>2, <2>4, <2>5, <2>6, <2>7, <2>8 DEF TimingInv, SamplesAreTrue
<1>10. CASE Sample
  <2>1. count \in Chains /\ ticker >= 0 /\ tx <= ticker + Backlog(count)
    <3>1. tx + Interval = ticker + ConversionWait + ReadBytes + 2 * count + LedBytes(count)
      BY <1>0, <1>00, <1>10, Constants DEF Sample, TimingInv, ReadBytes
    <3>2. tx = ticker + Excess(count)
      BY <1>0, <1>00, <3>1, Constants DEF Excess, ReadBytes
    <3> QED
      BY <1>0, <1>00, <1>10, <3>2, Constants DEF Sample, TimingInv
  <2> QED
    BY <1>0, <1>00, <1>10, <2>1, Constants DEF Sample, wireVars, TimingInv, SamplesAreTrue
<1>11. CASE UNCHANGED vars
  BY <1>11 DEF vars, wireVars, batchVars, TimingInv, SamplesAreTrue
<1> QED
  BY <1>1, <1>2, <1>3, <1>4, <1>5, <1>6, <1>7, <1>8, <1>9, <1>10, <1>11 DEF Next

\* Every sample is of its own conversion and of its own sensor, for every chain that fits
\* the times and the baud rate.
THEOREM SamplesCorrect ==
  ASSUME Fits
  PROVE  Spec => []SamplesAreTrue
<1>1. TypeOK /\ TimingInv /\ [Next]_vars => TimingInv'
  BY NextTiming
<1>2. TimingInv => SamplesAreTrue
  BY DEF TimingInv
<1> QED
  BY <1>1, <1>2, InitType, NextType, InitTiming, PTL DEF Spec

\* And the task is never late for a tick.
THEOREM TicksAreOnTime ==
  ASSUME Fits
  PROVE  Spec => []TicksAreKept
<1>1. TypeOK /\ TimingInv /\ [Next]_vars => TimingInv'
  BY NextTiming
<1>2. TimingInv => TicksAreKept
  BY DEF TimingInv, TicksAreKept
<1> QED
  BY <1>1, <1>2, InitType, NextType, InitTiming, PTL DEF Spec
=============================================================================
