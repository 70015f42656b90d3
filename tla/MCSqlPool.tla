------------------------------- MODULE MCSqlPool -------------------------------
(* An instance of SqlPool: statements below, at and above the cap, one that is *)
(* refused, and one that reads four tables, two of them the same.              *)
EXTENDS SqlPool, TLC

CONSTANTS t1, t2, t3

Statement(valid, asIs, size, refs) ==
  [valid |-> valid, asIs |-> asIs, size |-> size, refs |-> refs]

MCText ==
  {Statement(FALSE, FALSE, 0, <<>>), Statement(TRUE, FALSE, 2, <<t1, t2, t1, t3>>),
   Statement(TRUE, TRUE, 2, <<>>), Statement(TRUE, TRUE, 3, <<t2>>)}
=============================================================================
