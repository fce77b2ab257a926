------------------------------ MODULE MCRunner ------------------------------
(***************************************************************************)
(* Two applications, one of them with a library and two experiments.       *)
(***************************************************************************)
EXTENDS Runner, TLC

CONSTANTS empty, none

\* The configuration, and a version of it with a typing error.
MCConfigs     == {<<"freedit", "freedit", "lemmy">>, <<"freedit", "freedit", "lemy">>}
MCApplication == "freedit" :> 1 @@ "lemmy" :> 0

\* The first policy sees that the sources changed, the others do not.
MCOutput == <<[v \in Versions |-> <<"a", v>>], [v \in Versions |-> <<"b", 0>>],
             [v \in Versions |-> <<"c", 0>>]>>
=============================================================================
