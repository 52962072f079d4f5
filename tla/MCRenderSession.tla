--------------------------- MODULE MCRenderSession ---------------------------
(* Instances of RenderSession for TLC.                                     *)
EXTENDS RenderSession
=============================================================================
