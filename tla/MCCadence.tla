----------------------------- MODULE MCCadence -----------------------------
(* Cadence for TLC: a light game, one that just fits the period, one bound *)
(* by its renders and one that is too heavy.                               *)
EXTENDS Cadence

Costs(service, update, idle, render) ==
  [service |-> service, update |-> update, idle |-> idle, render |-> render]
MCLoads ==
  {Costs(0, 1, 0, 2), Costs(1, 1, 1, 6), Costs(0, 1, 0, 13), Costs(1, 2, 0, 20)}
=============================================================================
