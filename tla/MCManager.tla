----------------------------- MODULE MCManager -----------------------------
(* Two motes that may hear each other, and one of them the root too.        *)
EXTENDS Manager, TLC

CONSTANTS a, b

PairAndRoot == {<<a, b>>, <<b, a>>, <<a, Root>>}
=============================================================================
