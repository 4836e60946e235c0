-------------------------- MODULE MCAudioDeviceOut --------------------------
(* Model-checking instances of AudioDeviceOut. *)
EXTENDS AudioDeviceOut
=============================================================================
