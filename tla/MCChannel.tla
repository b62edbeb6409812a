----------------------------- MODULE MCChannel -----------------------------
(* Two servers and two clients: messages overtake, handles are reused.      *)
EXTENDS Channel

CONSTANTS s1, s2, c1, c2

MCServer == {s1, s2}
MCClient == {c1, c2}
=============================================================================
