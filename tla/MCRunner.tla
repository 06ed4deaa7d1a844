-------------------------------- MODULE MCRunner ---------------------------------
EXTENDS Runner

OneRate == [dns |-> 3]
BothWays == {-2, 1, 3}
=============================================================================
