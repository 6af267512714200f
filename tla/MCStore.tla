------------------------------ MODULE MCStore ------------------------------
(***************************************************************************)
(* A small store: a manifest and the blob it refers to, which a second     *)
(* writer stores as well.                                                  *)
(***************************************************************************)
EXTENDS Store

CONSTANTS b1, m1, w1, w2

RefsShared == [m \in Manifests |-> {b1}]
JobShared == [w \in Writers |-> IF w = w1 THEN <<b1, m1>> ELSE <<b1>>]

\* The blob may be declared to depend on the manifest: what keeps one, both.
LinkBack == {<<b1, m1>>}
=============================================================================
