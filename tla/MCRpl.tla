------------------------------- MODULE MCRpl --------------------------------
(* A small network for Rpl: two motes that hear each other and the root. *)
EXTENDS Rpl

CONSTANTS a, b, root

Triangle == {{root, a}, {a, b}, {root, b}}
=============================================================================
