---------------------------- MODULE MCSaveStore ----------------------------
(***************************************************************************)
(* Instances of SaveStore for TLC.  One content is uploaded as ciphertext, *)
(* the other, larger one in the clear; the two slots start on a file they  *)
(* share, or empty.                                                        *)
(***************************************************************************)
EXTENDS SaveStore, TLC

Cipher == [hash |-> "h1", enc |-> TRUE, size |-> 1]
Plain == [hash |-> "h2", enc |-> FALSE, size |-> 2]
MCBlobs == {Cipher, Plain}

Symmetry == Permutations(Procs) \cup Permutations(Slots)
=============================================================================
