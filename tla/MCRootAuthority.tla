-------------------------- MODULE MCRootAuthority --------------------------
(***************************************************************************)
(* Instances of RootAuthority for TLC: one configuration file, whose       *)
(* comments do not change its meaning, the dependency selections and one   *)
(* disabled marker; two Hosts that resolve different roots.                *)
(***************************************************************************)
EXTENDS RootAuthority, TLC

MCPaths == {"a.toml", "a.disabled", ".dependencies.json"}
MCBytes == {"one", "one # comment", "two"}
MCMeaning ==
  ("one" :> "1") @@ ("one # comment" :> "1") @@ ("two" :> "2") @@ (Absent :> "0")

Reconfigure == "a.toml" :> "two"
\* The client asks for one selection; each Host settles on its own.
Reselect == ("a.toml" :> "two") @@ (".dependencies.json" :> "one")
MCRequests == {Reconfigure, Reselect}
MCMarkers == {"a.disabled" :> "one", "a.disabled" :> Absent}
NoMarkers == {}

MCMaterialized == [h \in {"h1", "h2"} |-> IF h = "h1" THEN "two" ELSE "one"]

\* The second Host knows no configuration "2".  Each resolves no selections, or
\* the ones it materializes itself.
MCResolves ==
  [h \in {"h1", "h2"} |->
     {r \in [MCPaths -> {"0", "1", "2"}] :
        /\ h = "h2" => r["a.toml"] # "2"
        /\ r[".dependencies.json"] \in {"0", MCMeaning[MCMaterialized[h]]}
        /\ r["a.disabled"] # "2"}]

MCInitBytes ==
  ("a.toml" :> "one") @@ ("a.disabled" :> Absent) @@ (".dependencies.json" :> Absent)
=============================================================================
