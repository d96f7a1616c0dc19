----------------------------- MODULE MCDataPlane ----------------------------
(***************************************************************************)
(* Small instances of DataPlane.                                           *)
(***************************************************************************)
EXTENDS DataPlane

CONSTANTS s1, s2, b1, b2

OneLink == {<<s1, b1>>}
Fork == {<<s1, b1>>, <<s1, b2>>}
Join == {<<s1, b1>>, <<s2, b1>>}
=============================================================================
