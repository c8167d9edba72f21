-------------------------- MODULE MCOperatorPanel --------------------------
(***************************************************************************)
(* One number within the limits besides the first, one outside them; two   *)
(* clicks in all on SEND, the switch and the buttons, one of which may be  *)
(* a lost call or a restart instead.                                       *)
(***************************************************************************)
EXTENDS OperatorPanel
=============================================================================
