--------------------------- MODULE MCApplication ----------------------------
(* Application for every client's tree. *)
EXTENDS Application
=============================================================================
