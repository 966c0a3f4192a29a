----------------------------- MODULE MCOverlay ------------------------------
(* Model checking of Overlay.                                              *)
EXTENDS Overlay
=============================================================================
