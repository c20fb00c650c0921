-------------------------- MODULE MCCaptureSession --------------------------
\* CaptureSession for TLC: the presses that cancel and the faults are given by the configurations.
EXTENDS CaptureSession
=============================================================================
