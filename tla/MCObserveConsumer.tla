-------------------------- MODULE MCObserveConsumer --------------------------
\* ObserveConsumer with the bodies of four messages.
EXTENDS ObserveConsumer, MCBodies

ObservedBodies == <<Simulated, BooleanSeq, Undecodable, Integral>>
=============================================================================
