----------------------------- MODULE FakeIPStore -----------------------------
(***************************************************************************)
(* The fake-IP address pool, core/dns/transport/fakeip/store.go: the       *)
(* allocation cursor and the part of Create that moves it.  What keeps the *)
(* pairs is a module of its own: FakeIPMemory or FakeIPCacheFile.          *)
(*                                                                         *)
(* Store.Create runs on the goroutine of each DNS exchange and takes no    *)
(* lock of its own: the domain lookup, the read of the cursor, its update  *)
(* and the storing of the pair are steps that the steps of other exchanges *)
(* may interleave.                                                         *)
(*                                                                         *)
(* An address is its family and its offset from the prefix's Addr(); a     *)
(* range is the offset of its last address, None without a prefix.         *)
(***************************************************************************)
EXTENDS Integers

CONSTANTS Creators,  \* goroutines that run DNS exchanges
          Domains,
          Families,  \* address families, {"inet4", "inet6"}
          Offsets,   \* offsets of the addresses any range may reach
          Ranges,    \* the ranges a configuration may give the families
          None

FirstAddress == 2

\* NewStore's ranges; a prefix shorter than three addresses has no address
\* Addr().Next().Next() inside it.
ASSUME ConstantsAssumption ==
    /\ Offsets \subseteq Int
    /\ FirstAddress \in Offsets
    /\ Ranges \subseteq [Families -> Nat \cup {None}]
    /\ \A r \in Ranges, f \in Families :
          r[f] # None => r[f] >= FirstAddress /\ FirstAddress .. r[f] \subseteq Offsets
    /\ None \notin Domains
    /\ None \notin Int
    /\ None \notin Families \X Offsets

VARIABLES range,        \* Store.inet4Range, inet6Range
          current,      \* Store.inet4Current, inet6Current
          pc,           \* the next step of each Create
          request,      \* Create's arguments, None outside a call
          nextAddress   \* Create's local variable, None before it is set

storeVars == <<range, current, pc, request, nextAddress>>

Pool(f) == IF range[f] = None THEN {} ELSE FirstAddress .. range[f]

Addresses == Families \X Offsets

Requests == [domain : Domains, family : Families]

\* The cursor Start sets for a family when there is nothing to resume.
InitialCurrent(r) == [f \in Families |-> IF r[f] = None THEN None ELSE FirstAddress]

StoreInit ==
    /\ range \in Ranges
    /\ current = InitialCurrent(range)
    /\ pc = [c \in Creators |-> "idle"]
    /\ request = [c \in Creators |-> None]
    /\ nextAddress = [c \in Creators |-> None]

\* Create(r.domain, r.family) is called, and goes on at next unless the domain
\* has an address already.
Call(c, r, known, next) ==
    /\ pc[c] = "idle"
    /\ pc' = IF known THEN pc ELSE [pc EXCEPT ![c] = next]
    /\ request' = IF known THEN request ELSE [request EXCEPT ![c] = r]
    /\ UNCHANGED <<range, current, nextAddress>>

\* Create returns.
Return(c) ==
    /\ pc' = [pc EXCEPT ![c] = "idle"]
    /\ request' = [request EXCEPT ![c] = None]
    /\ nextAddress' = [nextAddress EXCEPT ![c] = None]

\* Mutant: the bound is tested one too early.
AdvanceShort(f, x) == IF x + 2 \in Pool(f) THEN x + 1 ELSE FirstAddress

\* The cursor after x: the next address, or the first one past the range's end.
Advance(f, x) == IF x + 1 \in Pool(f) THEN x + 1 ELSE FirstAddress

\* A family without a range has an invalid cursor, and Create fails.
ReadCurrent(c) ==
    LET f == request[c].family IN
    /\ pc[c] = "read"
    /\ \/ /\ current[f] = None
          /\ Return(c)
       \/ /\ current[f] # None
          /\ nextAddress' = [nextAddress EXCEPT ![c] = Advance(f, current[f])]
          /\ pc' = [pc EXCEPT ![c] = "write"]
          /\ UNCHANGED request
    /\ UNCHANGED <<range, current>>

WriteCurrent(c) ==
    /\ pc[c] = "write"
    /\ current' = [current EXCEPT ![request[c].family] = nextAddress[c]]
    /\ pc' = [pc EXCEPT ![c] = "store"]
    /\ UNCHANGED <<range, request, nextAddress>>

\* The pair that Create hands to the storage.
address(c) == <<request[c].family, nextAddress[c]>>
------------------------------------------------------------------------------
\* The cursor, and every address handed out or about to be stored, lies in its
\* family's range.
StoreTypeOK ==
    /\ range \in Ranges
    /\ current \in [Families -> Offsets \cup {None}]
    /\ \A f \in Families : current[f] \in Pool(f) \/ current[f] = None
    /\ pc \in [Creators -> {"idle", "file", "read", "write", "store", "save", "timer"}]
    /\ request \in [Creators -> Requests \cup {None}]
    /\ nextAddress \in [Creators -> Int \cup {None}]
    /\ \A c \in Creators :
          /\ pc[c] # "idle" => request[c] \in Requests
          /\ pc[c] \in {"write", "store"} => nextAddress[c] \in Pool(request[c].family)
==============================================================================
