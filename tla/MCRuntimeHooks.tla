--------------------------- MODULE MCRuntimeHooks ---------------------------
(* Instances of RuntimeHooks; copies and plugins are model values.          *)
EXTENDS RuntimeHooks
=============================================================================
