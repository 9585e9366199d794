----------------------------- MODULE MC_PhpFpm -----------------------------
(* Two of the nine status fields, each absent, a number, or mistyped in    *)
(* the object the server sends; a success and an error status.            *)
EXTENDS PhpFpm

CONSTANTS Bad

MCMistyped == Bad
MCFields == {"active processes", "listen queue"}
MCObjects == UNION {[D -> {3, Bad}] : D \in SUBSET MCFields}
=============================================================================
