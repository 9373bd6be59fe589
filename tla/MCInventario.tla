---------------------------- MODULE MCInventario ----------------------------
(* One device, one administrator, one restriction and one event, which is    *)
(* what every foreign key needs, and two requests at a time, without end.    *)
EXTENDS Aprovisionamiento, TLC

PeticionesIguales == Permutations(Peticiones)
=============================================================================
