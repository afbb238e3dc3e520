--------------------------- MODULE MCXBDMContext ---------------------------
(* XBDMContext on small instances. *)
EXTENDS XBDMContext

=============================================================================
