--------------------------- MODULE MCIntrospect ---------------------------
(* An instance of Introspect whose channel and pipe a few events can fill.   *)
EXTENDS Introspect
=============================================================================
