------------------------------- MODULE MCNames -------------------------------
(* Constants of the run of NamesAndMarkers. *)
EXTENDS NamesAndMarkers

\* A small letter, a capital, and the characters that mean something to a label, to a name,
\* to the shell, or to several of these.
Characters == {"x", "X", "-", ".", " ", "'", "\"", "\\"}
=============================================================================
