--------------------------- MODULE MCCoffeeService ---------------------------
(* Small instances of CoffeeService.                                       *)
EXTENDS CoffeeService

OrderNumbers == 1 .. MaxOrders

\* The clients run the same code; used by the runs without liveness only.
ClientSymmetry == Permutations(Clients)
=============================================================================
