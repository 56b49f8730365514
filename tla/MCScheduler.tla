---------------------------- MODULE MCScheduler ----------------------------
EXTENDS Scheduler
=============================================================================
