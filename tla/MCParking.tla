----------------------------- MODULE MCParking -----------------------------
(* Parking on small instances.                                            *)
EXTENDS ParkingInv, TLC

Interchangeable == Permutations(Names)
=============================================================================
