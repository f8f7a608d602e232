---------------------------- MODULE MCDgramServer ----------------------------
(***************************************************************************)
(* Instances of DgramServer for TLC.  The ring is scaled from 1024 buffers   *)
(* to N.                                                                    *)
(***************************************************************************)
EXTENDS DgramServer
=============================================================================
