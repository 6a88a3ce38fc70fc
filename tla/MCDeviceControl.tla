--------------------------- MODULE MCDeviceControl ---------------------------
(***************************************************************************)
(* Two commands, so that a second can be asked for while the first is      *)
(* active and after it has ended; two keys; two concurrent calls.          *)
(***************************************************************************)
EXTENDS DeviceControl
=============================================================================
