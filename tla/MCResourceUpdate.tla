-------------------------- MODULE MCResourceUpdate --------------------------
(* ResourceUpdate for TLC: two kinds with one resource each, or one kind.  *)
EXTENDS ResourceUpdate

CONSTANTS pods, nodes, pod, node

MCGvrOf == [u \in Uids |-> IF u = pod THEN pods ELSE nodes]

\* The two kinds are interchangeable, each with its resource, and so are the
\* hashes of objects that convert.
Swap == (pods :> nodes) @@ (nodes :> pods) @@ (pod :> node) @@ (node :> pod)
Symmetry == {s @@ h : s \in {Swap, << >>}, h \in Permutations(Convertible)}
=============================================================================
