-------------------------- MODULE MCConnectInstall --------------------------
(***************************************************************************)
(* Codex with its TOML file, and VS Code's suite of its own JSON file, in  *)
(* which both servers get one name, and the same TOML file.                *)
(***************************************************************************)
EXTENDS ConnectInstall, TLC

CONSTANTS p1, p2, i1, i2, s, t, json, toml, one, two, own

MCBundle == {[files |-> <<toml>>, servers |-> <<s>>],
             [files |-> <<json, toml>>, servers |-> <<s, t>>]}
MCAliasIn == json :> (s :> one @@ t :> one) @@ toml :> (s :> one @@ t :> two)

Symmetry == Permutations(Process) \union Permutations(Id)
=============================================================================
