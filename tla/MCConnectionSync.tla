-------------------------- MODULE MCConnectionSync --------------------------
(* Instances of ConnectionSync for TLC.                                    *)
EXTENDS ConnectionSync, TLC

(* Warehouses are interchangeable: no definition names or orders them.     *)
Rows == Permutations(ApiConn)
=============================================================================
