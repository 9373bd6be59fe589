----------------------------- MODULE MCRrdcached ------------------------------
(* Rrdcached for TLC: the batches of stamps of the runs, and the symmetry of  *)
(* connections and files where no liveness is checked.                       *)
EXTENDS Rrdcached, TLC

OneStamp == {<<1>>, <<2>>}
Pairs    == {<<1>>, <<2, 1>>, <<2, 3>>}

ConnsAlike         == Permutations(Conns)
ConnsAndFilesAlike == Permutations(Conns) \cup Permutations(Files)
===============================================================================
