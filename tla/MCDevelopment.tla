---------------------------- MODULE MCDevelopment ----------------------------
(***************************************************************************)
(* Development for TLC, with the samples of MCDevLoop.                     *)
(***************************************************************************)
EXTENDS Development, MCDevLoop
=============================================================================
