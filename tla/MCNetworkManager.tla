--------------------------- MODULE MCNetworkManager --------------------------
(* One connection through every stage, with two interfaces to move between   *)
(* and dialers of each strategy.                                             *)
EXTENDS NetworkManager

OptionOf(strategy, types, fallback) ==
    [strategy |-> strategy, interfaceType |-> types, fallbackInterfaceType |-> fallback]

MCOptions == {OptionOf("default", None, None), OptionOf("default", {"cellular"}, None),
              OptionOf("hybrid", None, None), OptionOf("fallback", None, None),
              OptionOf("fallback", None, {"cellular"})}
==============================================================================
