---------------------------- MODULE MCPluginRoot ----------------------------
(***************************************************************************)
(* An instance of PluginRoot for TLC, with the sample Hosts.               *)
(***************************************************************************)
EXTENDS PluginRoot, HostSamples
=============================================================================
