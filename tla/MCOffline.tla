----------------------------- MODULE MCOffline -----------------------------
EXTENDS Offline, TLC

TwoCalls == 1..2

BothOptions == [pooled : BOOLEAN, throwOnError : BOOLEAN]

ConnSymmetry == Permutations(Conns)
=============================================================================
