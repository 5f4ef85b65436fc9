---------------------------- MODULE MCRailClock ----------------------------
EXTENDS RailClock
============================================================================
