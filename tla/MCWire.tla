-------------------------------- MODULE MCWire --------------------------------
\* An instance of Wire for TLC: a client sends requests with a payload, or an illegal length.
EXTENDS Wire

MCFrames == {Frame(3, <<7>>)}
=============================================================================
