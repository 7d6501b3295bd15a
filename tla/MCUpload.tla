------------------------------ MODULE MCUpload ------------------------------
(* The uploads of one user on a small instance: a batch of two files that    *)
(* fills the quota, and a request that retries it in the other instance, or  *)
(* uploads another file in the same one.                                     *)
EXTENDS Upload, TLC

CONSTANTS r1, r2, f1, f2, f3, i1, i2

MCFilesOf    == r1 :> {f1, f2} @@ r2 :> {f3}
MCSize       == [f \in Files |-> 1]
MCSent       == {r1 :> [key |-> 1, on |-> i1] @@ r2 :> [key |-> 1, on |-> i2],
                 r1 :> [key |-> 1, on |-> i1] @@ r2 :> [key |-> 2, on |-> i1]}

=============================================================================
