--------------------------- MODULE MCCartCheckout ---------------------------
(* Small instances of CartCheckout for TLC. *)
EXTENDS CartCheckout
=============================================================================
