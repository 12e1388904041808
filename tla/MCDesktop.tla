----------------------------- MODULE MCDesktop -----------------------------
(* Instances of Desktop for TLC. *)
EXTENDS Desktop

CONSTANTS s1, s2, w1

MCServices == {s1, s2}
MCWindows == {w1}

=============================================================================
