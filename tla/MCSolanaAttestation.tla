------------------------ MODULE MCSolanaAttestation ------------------------
(* Bounds for model checking SolanaAttestation.                               *)
EXTENDS SolanaAttestation, TLC

Symmetry == Permutations(Calls) \cup Permutations(References)

(* Nothing is claimed of what follows once a call was begun before the one    *)
(* before it was settled.                                                     *)
OneAfterTheOther == ~raced
=============================================================================
