----------------------------- MODULE MCScheduler -----------------------------
\* Scheduler on a small instance: two replicas, two runs in flight.
EXTENDS Scheduler
=============================================================================
