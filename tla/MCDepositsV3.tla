---------------------------- MODULE MCDepositsV3 ----------------------------
\* A deposit that is filled once and sped up twice, in blocks 1 and 2.
EXTENDS DepositsV3

CONSTANTS s1, s2

MCSpeedUpBlock == [s \in SpeedUp |-> IF s = s1 THEN 1 ELSE 2]
=============================================================================
