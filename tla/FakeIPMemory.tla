----------------------------- MODULE FakeIPMemory ----------------------------
(***************************************************************************)
(* The fake-IP pool over the in-memory storage of                          *)
(* core/dns/transport/fakeip/memory.go.  Its two maps are each protected,  *)
(* and FakeIPStore holds both locks.                                       *)
(***************************************************************************)
EXTENDS FakeIPStore

VARIABLES addressCache,  \* MemoryStorage.addressCache
          domainCache,   \* MemoryStorage.domainCache4, domainCache6
          overlapped,    \* history: two Creates have run at the same time
          answered,      \* history: the domains whose clients were answered with an
                         \* address, since the Create that stored it last took it
          before,        \* history: what answered held when a Create took its address
          shared         \* history: addresses that two Creates have carried at once

mapVars == <<addressCache, domainCache>>
answerVars == <<answered, before, shared>>
memoryVars == <<storeVars, mapVars, overlapped, answerVars>>

\* Store.Start over a fresh MemoryStorage: no metadata, empty maps.
MemoryInit ==
    /\ StoreInit
    /\ addressCache = [a \in Addresses |-> None]
    /\ domainCache = [f \in Families |-> [d \in Domains |-> None]]
    /\ overlapped = FALSE
    /\ answered = [a \in Addresses |-> {}]
    /\ before = [c \in Creators |-> {}]
    /\ shared = {}

\* FakeIPLoadDomain: Create answers a known domain from the map and returns.
LoadDomain(c, r) ==
    LET a == domainCache[r.family][r.domain] IN
    /\ Call(c, r, a # None, "read")
    /\ overlapped' = (overlapped \/ \E o \in Creators : pc[o] # "idle")
    /\ answered' = IF a = None THEN answered ELSE [answered EXCEPT ![a] = @ \cup {r.domain}]
    /\ UNCHANGED <<mapVars, before, shared>>

\* A Create carries address a from the read of the cursor to the storing of the pair.
Carries(c, a) == pc[c] \in {"write", "store"} /\ address(c) = a

\* Create reads the cursor; with a range it has its address, which a Create that
\* read the same cursor may be carrying too.
TakeAddress(c) ==
    LET a == <<request[c].family, nextAddress'[c]>> IN
    /\ ReadCurrent(c)
    /\ IF pc'[c] = "write"
       THEN /\ before' = [before EXCEPT ![c] = answered[a]]
            /\ shared' = IF \E o \in Creators : Carries(o, a) THEN shared \cup {a} ELSE shared
       ELSE UNCHANGED <<before, shared>>
    /\ UNCHANGED <<mapVars, overlapped, answered>>

\* The clients of the domains before[c] held an address that is now given away.
Answers(c) ==
    /\ answered' = [answered EXCEPT ![address(c)] = (@ \ before[c]) \cup {request[c].domain}]
    /\ before' = [before EXCEPT ![c] = {}]
    /\ UNCHANGED shared

\* Mutant: the domain that held the address keeps it.
MemoryFakeIPStoreKeeping(c) ==
    /\ pc[c] = "store"
    /\ domainCache' = [domainCache EXCEPT ![request[c].family][request[c].domain] = address(c)]
    /\ addressCache' = [addressCache EXCEPT ![address(c)] = request[c].domain]
    /\ Answers(c)
    /\ Return(c)
    /\ UNCHANGED <<range, current, overlapped>>

\* MemoryStorage.FakeIPStore, under both locks: the domain that held the
\* address loses it.
MemoryFakeIPStore(c) ==
    LET f == request[c].family
        oldDomain == addressCache[address(c)]
    IN
    /\ pc[c] = "store"
    /\ domainCache' = [domainCache EXCEPT
           ![f] = [d \in Domains |-> IF d = request[c].domain THEN address(c)
                                     ELSE IF d = oldDomain THEN None
                                     ELSE domainCache[f][d]]]
    /\ addressCache' = [addressCache EXCEPT ![address(c)] = request[c].domain]
    /\ Answers(c)
    /\ Return(c)
    /\ UNCHANGED <<range, current, overlapped>>

MemoryNext ==
    \E c \in Creators :
        \/ \E r \in Requests : LoadDomain(c, r)
        \/ TakeAddress(c)
        \/ WriteCurrent(c) /\ UNCHANGED <<mapVars, overlapped, answerVars>>
        \/ MemoryFakeIPStore(c)

MemorySpec == MemoryInit /\ [][MemoryNext]_memoryVars
------------------------------------------------------------------------------
\* Type correctness: every address handed out or kept belongs to its range.
MemoryTypeOK ==
    /\ StoreTypeOK
    /\ addressCache \in [Addresses -> Domains \cup {None}]
    /\ domainCache \in [Families -> [Domains -> Addresses \cup {None}]]
    /\ \A f \in Families, d \in Domains :
          domainCache[f][d] # None => domainCache[f][d] \in {f} \X Pool(f)
    /\ answered \in [Addresses -> SUBSET Domains]
    /\ before \in [Creators -> SUBSET Domains]

\* Every client that was answered with an address is routed to the domain it
\* asked for, until a later Create takes the address for another domain.  The
\* exception are addresses that two Creates have carried at once: Create reads
\* the cursor and moves it in two steps without a lock, so that both may answer
\* with one address, and the client of the first is then routed to the domain
\* of the second.
AnsweredResolves ==
    \A a \in Addresses \ shared : answered[a] \subseteq {addressCache[a]}

\* The two maps agree: an address that FakeIPLoadDomain answers resolves back to
\* the domain through FakeIPLoad.
ReverseConsistent ==
    \A f \in Families, d \in Domains :
        domainCache[f][d] # None => addressCache[domainCache[f][d]] = d

\* While exchanges do not overlap, an address is not taken away from its domain
\* before every address of the range is in use.
Evicts(a) == addressCache[a] # None /\ addressCache'[a] # addressCache[a]

ReuseOnlyWhenExhausted ==
    [][\A f \in Families : ~overlapped /\ (\E a \in Pool(f) : Evicts(<<f, a>>))
          => \A a \in Pool(f) : addressCache[<<f, a>>] # None]_memoryVars

\* The two maps keep the promises of an address book: FakeIPStore gives the
\* address to one domain only, in a single step for every reader.
MemoryBook == INSTANCE AddressBook WITH book <- domainCache, owner <- addressCache

MemoryKeepsBook == MemoryBook!Spec
==============================================================================
