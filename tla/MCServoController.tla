-------------------------- MODULE MCServoController --------------------------
EXTENDS ServoController
==============================================================================
