----------------------------- MODULE MCWordBoard -----------------------------
(* WordBoard with its interchangeable identities declared as such. *)
EXTENDS WordBoard, TLC

Identities ==
    Permutations(Words) \cup Permutations(Views) \cup Permutations(DeleteIds)
=============================================================================
