---------------------------- MODULE OutboundDesign ----------------------------
(***************************************************************************)
(* What the outbound queue, the MQTT session and the network promise       *)
(* together to whoever listens to the broker: a line that loses messages   *)
(* but never reorders or invents them.  What is put in line is so at that  *)
(* moment, the broker hears of the head of the line only, and with a       *)
(* connection the whole line goes.  The queue's capacity, the task and the *)
(* connection are absent.                                                  *)
(***************************************************************************)
EXTENDS Naturals, Sequences

CONSTANT Topics  \* those whose last message the broker retains

VARIABLES
  value,    \* what is so, by topic
  line,     \* the messages on their way
  retained  \* what the broker retains, by topic: a set of one value, or none

vars == <<value, line, retained>>

Init == line = <<>>

\* Values change, and messages that say what is so now join the line.
Say ==
  /\ Len(line) <= Len(line')
  /\ \A i \in 1..Len(line) : line'[i] = line[i]
  /\ \A i \in (Len(line) + 1)..Len(line') :
       line'[i].topic \in Topics => line'[i].value = value'[line'[i].topic]
  /\ UNCHANGED retained

Leave ==
  /\ line # <<>>
  /\ line' = Tail(line)
  /\ UNCHANGED value

Arrive ==
  /\ Leave
  /\ retained' = IF Head(line).topic \in Topics
                   THEN [retained EXCEPT ![Head(line).topic] = {Head(line).value}]
                   ELSE retained

Lose == Leave /\ UNCHANGED retained

Drop ==
  /\ line' = <<>>
  /\ UNCHANGED <<value, retained>>

Next == Say \/ Arrive \/ Lose \/ Drop

Spec == Init /\ [][Next]_vars
=============================================================================
