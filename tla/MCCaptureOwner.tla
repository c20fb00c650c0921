--------------------------- MODULE MCCaptureOwner ---------------------------
\* CaptureOwner for TLC: the bounds are given by the configurations.
EXTENDS CaptureOwner
=============================================================================
