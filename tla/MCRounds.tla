------------------------------ MODULE MCRounds ------------------------------
(***************************************************************************)
(* Small instances of Rounds.  The numeric functions are arithmetic modulo *)
(* a small prime that mixes all their arguments, so a value computed from  *)
(* other arguments than the right ones is seen to differ.                  *)
(***************************************************************************)
EXTENDS Rounds, FiniteSetsExt

CONSTANTS s1, s2, b1, s1a, s1b, s2a, b1a, b1b

Modulus == 5

MCRow == 0 .. Modulus - 1
MCPrice == 0 .. Modulus - 1
MCLoad == 0 .. Modulus - 1

Total(f, S) == FoldSet(LAMBDA w, acc : acc + f[w], 0, S)

\* tells the workers of one role apart
Weight(w) == IF w \in {s1, b1} THEN 1 ELSE 2

MCBrokerLoad(p, j) == Total(p, Sources) % Modulus
MCBrokerPrice(j, p, l) == (2 * p + l + Weight(j)) % Modulus
MCBestResponse(i, ps) == (3 * Total(ps, Brokers) + Weight(i)) % Modulus
MCCommonStep(p, br) ==
  [i \in Sources |-> (p[i] + 2 * br[i] + 4 * Total(br, Sources) + 1) % Modulus]
MCInitialPlan == [i \in Sources |-> Weight(i)]
MCInitialPrices == [j \in Brokers |-> 0]

MCOwner(c) == CASE c \in {s1a, s1b} -> s1
                [] c = s2a -> s2
                [] c \in {b1a, b1b} -> b1
MCFirstConn(w) == CASE w = s1 -> s1a [] w = s2 -> s2a [] w = b1 -> b1a

=============================================================================
