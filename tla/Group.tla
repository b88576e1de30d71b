--------------------------------- MODULE Group --------------------------------
(***************************************************************************)
(* What Selector and URLTest, the group outbounds of core/protocol/group,  *)
(* have in common: the connections dialed through a group, which its       *)
(* interrupt group closes when the group's choice changes.  URLTest leaves *)
(* out those that Interrupt spares.                                        *)
(***************************************************************************)
EXTENDS Integers, FiniteSets

CONSTANTS Conns,  \* names for connections
          None
===============================================================================
