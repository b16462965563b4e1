------------------------- MODULE MCGlobalKeySampling ------------------------
(***************************************************************************)
(* GlobalKeySampling over GF(8), for every pair of sampled global keys.    *)
(***************************************************************************)
EXTENDS GlobalKeySampling, MCRandom

CONSTANT Seeds

MCSetups ==
  {[seed |-> seed, sampledA |-> a, sampledB |-> b] : seed \in Seeds, a \in Block, b \in Block}
=============================================================================
