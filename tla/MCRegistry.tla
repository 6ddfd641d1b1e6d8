---------------------------- MODULE MCRegistry ----------------------------
\* Instances of Registry for TLC.
EXTENDS Registry

CONSTANTS Movers   \* the processes that may be started at a second place

MCAddresses == (Services \X {1}) \cup (Movers \X {2})

\* Every place has an address of its own that the others reach.
MCRegisters == [a \in MCAddresses |-> a]
=============================================================================
