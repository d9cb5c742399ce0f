------------------------------- MODULE MCMac --------------------------------
(* A slotframe with one cell of each kind that matters to Mac. *)
EXTENDS Mac

OneOfEach == <<"ADV", "TXRX", "TX", "SERIALRX">>
=============================================================================
