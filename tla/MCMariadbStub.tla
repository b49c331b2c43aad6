--------------------------- MODULE MCMariadbStub ---------------------------
EXTENDS MariadbStub, TLC

ThreeCalls == 1..3
TwoCalls == 1..2

SwallowingOptions == [pooled : BOOLEAN, throwOnError : {FALSE}]

ConnSymmetry == Permutations(Conns)
=============================================================================
