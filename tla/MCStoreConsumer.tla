--------------------------- MODULE MCStoreConsumer ---------------------------
\* StoreConsumer with the bodies of a few messages.
EXTENDS StoreConsumer, MCBodies

SafetyBodies == <<Simulated, BooleanSeq, Integral>>
LivenessBodies == <<LongSeq, Integral, Undecodable>>
DrainBodies == <<Simulated, Simulated>>
=============================================================================
