---------------------------- MODULE MCSequencer ----------------------------
EXTENDS Sequencer
============================================================================
