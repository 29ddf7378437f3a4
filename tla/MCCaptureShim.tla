--------------------------- MODULE MCCaptureShim ----------------------------
(* Two names, and the shim's directory between two others. *)
EXTENDS CaptureShim

TwoNames == <<"rm", "gh">>
MidPath == <<"a", "bin", "b">>
=============================================================================
