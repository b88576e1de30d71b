----------------------------- MODULE AddressBook -----------------------------
(***************************************************************************)
(* What a FakeIPStorage promises to the router, whatever keeps the pairs.  *)
(* It is read in both directions: the address of a domain, and the domain  *)
(* an address was last given to.  A domain loses its address only when     *)
(* that address, or an earlier one the domain still owns, is given to      *)
(* another domain, or when everything is forgotten; nobody else loses      *)
(* anything, and no two domains have one address.                          *)
(***************************************************************************)
CONSTANTS Domains, Families, Addresses, None

VARIABLES book,   \* the address of each domain, per family: FakeIPLoadDomain
          owner   \* the domain each address was last given to: FakeIPLoad

bookVars == <<book, owner>>

Init ==
    /\ book = [f \in Families |-> [d \in Domains |-> None]]
    /\ owner = [a \in Addresses |-> None]

\* Address a is given to domain d, and nobody else keeps it.  Its last owner may
\* have a newer address, and may lose that one.
Take(f, d, a, lost) ==
    /\ {e \in Domains \ {d} : book[f][e] = a} \subseteq lost
    /\ lost \subseteq {owner[a]}
    /\ book' = [book EXCEPT ![f] = [e \in Domains |-> IF e = d THEN a
                                                      ELSE IF e \in lost THEN None
                                                      ELSE book[f][e]]]
    /\ owner' = [owner EXCEPT ![a] = d]

\* Everything is forgotten.
Forget ==
    /\ book' = [f \in Families |-> [d \in Domains |-> None]]
    /\ owner' = [a \in Addresses |-> None]

Next ==
    \/ Forget
    \/ \E f \in Families, d \in Domains, a \in Addresses, lost \in SUBSET Domains :
           Take(f, d, a, lost)

Spec == Init /\ [][Next]_bookVars
==============================================================================
