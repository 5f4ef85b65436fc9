-------------------------- MODULE MCTemperatureChain --------------------------
EXTENDS TemperatureChain

\* With the times and the baud rate of the code, the chains that the theorems are about
\* are those of up to 18 sensors.
ASSUME CodeFits == \A n \in 1..MaxSensors : ChainFits(n) <=> n <= 18
===============================================================================
