------------------------------ MODULE MCScale ------------------------------
(* Instances of ScaleToZero for TLC: c1 runs on r1, another call on the     *)
(* other router if there is one.                                            *)
EXTENDS ScaleToZero

CONSTANTS r1, c1

MCHomeOf ==
  [c \in Calls |-> IF c = c1 \/ Routers = {r1} THEN r1
                   ELSE CHOOSE r \in Routers : r # r1]

=============================================================================
