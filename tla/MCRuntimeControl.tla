-------------------------- MODULE MCRuntimeControl --------------------------
(* RuntimeControl on small instances.                                      *)
EXTENDS RuntimeControl

=============================================================================
