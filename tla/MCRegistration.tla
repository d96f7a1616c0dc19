--------------------------- MODULE MCRegistration ---------------------------
(***************************************************************************)
(* Small instances of Registration: two sources A and B, A with a second   *)
(* process, one broker P, and a name X too many.                           *)
(***************************************************************************)
EXTENDS Registration

CONSTANTS A, B, X, P, a1, a2, b1, x1, p1

MCInstanceOf(c) ==
  CASE c \in {a1, a2} -> A
    [] c = b1 -> B
    [] c = x1 -> X
    [] c = p1 -> P
=============================================================================
