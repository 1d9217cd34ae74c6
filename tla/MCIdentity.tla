----------------------------- MODULE MCIdentity -----------------------------
(* A few keys; the passphrases are interchangeable.                        *)
EXTENDS Identity, TLC

CONSTANTS MaxSeed, MaxNode

MCSeeds == 1..MaxSeed
MCNodeKeys == 1..MaxNode
PassphraseSymmetry == Permutations(Passphrases)
=============================================================================
