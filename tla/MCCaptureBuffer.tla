---- MODULE MCCaptureBuffer ----
(* Small instances of CaptureBuffer for TLC. *)
EXTENDS CaptureBuffer
====
