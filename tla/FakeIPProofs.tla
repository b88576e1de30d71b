---------------------------- MODULE FakeIPProofs -----------------------------
(***************************************************************************)
(* Proofs about the fake-IP pool over the in-memory storage and over the   *)
(* cache file: for every number of exchanges, domains and families, for    *)
(* ranges of every length, and for any writes in flight and restarts.      *)
(***************************************************************************)
EXTENDS FakeIPMemory, FakeIPCacheFile, TLAPS

\* Advancing in the pool stays in it, and its members are addresses.
LEMMA PoolFacts ==
    ASSUME range \in Ranges, NEW f \in Families
    PROVE  /\ Pool(f) \subseteq Offsets
           /\ Offsets \subseteq Int
           /\ None \notin Offsets
           /\ None \notin Addresses
           /\ \A a \in Pool(f) : <<f, a>> \in ({f} \X Pool(f)) \cap Addresses
           /\ Pool(f) # {} => FirstAddress \in Pool(f)
           /\ \A x \in Pool(f) : Advance(f, x) \in Pool(f)
<1>1. Pool(f) \subseteq Offsets /\ (Pool(f) # {} => FirstAddress \in Pool(f))
  BY ConstantsAssumption DEF FirstAddress, Pool
<1>2. Offsets \subseteq Int /\ None \notin Offsets /\ None \notin Addresses
  BY ConstantsAssumption, ZenonT(60) DEF Addresses
<1>3. \A x \in Pool(f) : Advance(f, x) \in Pool(f)
  BY ConstantsAssumption DEF FirstAddress, Pool, Advance
<1> QED
  BY <1>1, <1>2, <1>3, ZenonT(60) DEF Addresses
------------------------------------------------------------------------------
(* The in-memory storage.                                                  *)

\* Type correctness: the cursor and every address a Create carries stay in
\* the part of the range that Create hands out.
THEOREM MemoryTypeCorrect == MemorySpec => []MemoryTypeOK
<1>1. MemoryInit => MemoryTypeOK
  <2> SUFFICES ASSUME MemoryInit PROVE MemoryTypeOK
    OBVIOUS
  <2>1. \A f \in Families : current[f] \in Pool(f) \/ current[f] = None
    BY PoolFacts, ConstantsAssumption
      DEF MemoryInit, StoreInit, InitialCurrent, Pool, FirstAddress
  <2>2. current \in [Families -> Offsets \cup {None}]
    BY ConstantsAssumption, ZenonT(60) DEF MemoryInit, StoreInit, InitialCurrent
  <2> QED
    BY <2>1, <2>2, ZenonT(60) DEF MemoryInit, StoreInit, MemoryTypeOK, StoreTypeOK
<1>2. MemoryTypeOK /\ [MemoryNext]_memoryVars => MemoryTypeOK'
  <2> SUFFICES ASSUME MemoryTypeOK, [MemoryNext]_memoryVars PROVE MemoryTypeOK'
    OBVIOUS
  <2> USE DEF MemoryTypeOK, StoreTypeOK
  <2>0. range' = range /\ \A f \in Families : Pool(f)' = Pool(f)
    BY ZenonT(60) DEF MemoryNext, LoadDomain, Call, TakeAddress, ReadCurrent, WriteCurrent,
           MemoryFakeIPStore, memoryVars, storeVars, Pool
  <2> DEFINE Goal ==
               /\ pc' \in [Creators -> {"idle", "file", "read", "write", "store", "save", "timer"}]
               /\ request' \in [Creators -> Requests \cup {None}]
               /\ nextAddress' \in [Creators -> Int \cup {None}]
               /\ current' \in [Families -> Offsets \cup {None}]
               /\ \A f \in Families : current'[f] \in Pool(f) \/ current'[f] = None
               /\ \A c \in Creators : pc'[c] # "idle" => request'[c] \in Requests
               /\ \A c \in Creators :
                     pc'[c] \in {"write", "store"} => nextAddress'[c] \in Pool(request'[c].family)
               /\ addressCache' \in [Addresses -> Domains \cup {None}]
               /\ domainCache' \in [Families -> [Domains -> Addresses \cup {None}]]
               /\ \A f \in Families, d \in Domains :
                     domainCache'[f][d] # None => domainCache'[f][d] \in {f} \X Pool(f)
  <2>6. answered' \in [Addresses -> SUBSET Domains] /\ before' \in [Creators -> SUBSET Domains]
    <3>1. CASE UNCHANGED <<answered, before>>
      BY <3>1, ZenonT(60)
    <3>2. ASSUME NEW c \in Creators, NEW r \in Requests, LoadDomain(c, r)
          PROVE  answered' \in [Addresses -> SUBSET Domains] /\ before' = before
      <4>1. r.domain \in Domains
        BY ZenonT(60) DEF Requests
      <4> QED
        BY <3>2, <4>1, ZenonT(60) DEF LoadDomain
    <3>3. ASSUME NEW c \in Creators, TakeAddress(c)
          PROVE  answered' = answered /\ before' \in [Creators -> SUBSET Domains]
      <4>1. CASE UNCHANGED before
        BY <3>3, <4>1, ZenonT(60) DEF TakeAddress
      <4>2. CASE pc'[c] = "write"
        <5> DEFINE f == request[c].family
        <5>1. pc[c] = "read" /\ f \in Families
          BY <3>3, ZenonT(60) DEF TakeAddress, ReadCurrent, Requests
        <5>2. current[f] # None
          BY <3>3, <4>2, ZenonT(60) DEF TakeAddress, ReadCurrent, Return
        <5>3. nextAddress'[c] = Advance(f, current[f])
          BY <3>3, <5>2, ZenonT(60) DEF TakeAddress, ReadCurrent
        <5>4. range \in Ranges /\ current[f] \in Pool(f)
          BY <5>1, <5>2, ZenonT(60)
        <5>5. Advance(f, current[f]) \in Pool(f)
          BY <5>1, <5>4, PoolFacts, ZenonT(60)
        <5>0. \A x \in Pool(f) : <<f, x>> \in Addresses
          BY <5>1, <5>4, PoolFacts, ZenonT(60)
        <5>6. <<f, nextAddress'[c]>> \in Addresses
          <6> HIDE DEF f
          <6> QED
            BY <5>0, <5>3, <5>5, ZenonT(60)
        <5>7. before' = [before EXCEPT ![c] = answered[<<f, nextAddress'[c]>>]]
          BY <3>3, <4>2, ZenonT(60) DEF TakeAddress
        <5>8. answered[<<f, nextAddress'[c]>>] \in SUBSET Domains
          BY <5>6, ZenonT(60)
        <5>9. answered' = answered
          BY <3>3, ZenonT(60) DEF TakeAddress
        <5> QED
          BY <5>7, <5>8, <5>9, ZenonT(60)
      <4> QED
        BY <3>3, <4>1, <4>2, ZenonT(60) DEF TakeAddress
    <3>4. ASSUME NEW c \in Creators, MemoryFakeIPStore(c)
          PROVE  answered' \in [Addresses -> SUBSET Domains] /\ before' \in [Creators -> SUBSET Domains]
      <4>1. request[c].domain \in Domains
        BY <3>4, ZenonT(60) DEF MemoryFakeIPStore, Requests
      <4> QED
        BY <3>4, <4>1, ZenonT(60) DEF MemoryFakeIPStore, Answers
    <3> QED
      BY <3>1, <3>2, <3>3, <3>4, ZenonT(60) DEF MemoryNext, memoryVars, answerVars
  <2> SUFFICES Goal
    <3>1. ASSUME Goal, NEW c \in Creators, pc'[c] \in {"write", "store"}
          PROVE  nextAddress'[c] \in Pool(request[c].family)'
      <4>1. pc'[c] # "idle" /\ nextAddress'[c] \in Pool(request'[c].family)
        BY <3>1, ZenonT(60)
      <4>2. request'[c].family \in Families
        BY <3>1, <4>1, ZenonT(60) DEF Requests
      <4> QED
        BY <2>0, <4>1, <4>2, ZenonT(60)
    <3>2. Goal => \A f \in Families, d \in Domains :
                     domainCache'[f][d] # None => domainCache'[f][d] \in {f} \X Pool(f)'
      BY <2>0, ZenonT(60)
    <3>3. Goal => \A f \in Families : current'[f] \in Pool(f)' \/ current'[f] = None
      BY <2>0, ZenonT(60)
    <3> QED
      BY <2>0, <2>6, <3>1, <3>2, <3>3, ZenonT(60)
  <2>1. ASSUME NEW c \in Creators, NEW r \in Requests, LoadDomain(c, r) PROVE Goal
    <3>1. UNCHANGED <<current, nextAddress, addressCache, domainCache>>
      BY <2>1, ZenonT(60) DEF LoadDomain, Call, mapVars
    <3>2. CASE UNCHANGED <<pc, request>>
      BY <3>1, <3>2, ZenonT(60)
    <3>3. CASE pc' = [pc EXCEPT ![c] = "read"] /\ request' = [request EXCEPT ![c] = r]
      <4>1. /\ pc' \in [Creators -> {"idle", "file", "read", "write", "store", "save", "timer"}]
            /\ request' \in [Creators -> Requests \cup {None}]
        BY <3>3, ZenonT(60)
      <4>2. ASSUME NEW o \in Creators
            PROVE  /\ pc'[o] # "idle" => request'[o] \in Requests
                   /\ pc'[o] \in {"write", "store"} => nextAddress'[o] \in Pool(request'[o].family)
        <5>1. CASE o = c
          BY <3>3, <5>1, ZenonT(60)
        <5>2. CASE o # c
          <6>1. pc'[o] = pc[o] /\ request'[o] = request[o] /\ nextAddress'[o] = nextAddress[o]
            BY <3>1, <3>3, <5>2, ZenonT(60)
          <6> QED
            BY <6>1, ZenonT(60)
        <5> QED
          BY <5>1, <5>2, ZenonT(60)
      <4> QED
        BY <3>1, <4>1, <4>2, ZenonT(60)
    <3> QED
      BY <2>1, <3>2, <3>3, ZenonT(60) DEF LoadDomain, Call
  <2>2. ASSUME NEW c \in Creators, ReadCurrent(c), UNCHANGED <<addressCache, domainCache>>
        PROVE  Goal
    <3> DEFINE f == request[c].family
    <3>1. f \in Families
      BY <2>2, ZenonT(60) DEF ReadCurrent, Requests
    <3>2. current[f] # None => Advance(f, current[f]) \in Pool(f) \cap Int
      BY <3>1, PoolFacts
    <3>3. CASE current[f] = None
      <4>1. /\ pc' = [pc EXCEPT ![c] = "idle"]
            /\ request' = [request EXCEPT ![c] = None]
            /\ nextAddress' = [nextAddress EXCEPT ![c] = None]
            /\ UNCHANGED current
        BY <2>2, <3>3, ZenonT(60) DEF ReadCurrent, Return
      <4> QED
        BY <2>2, <4>1, ZenonT(60)
    <3>4. CASE current[f] # None
      <4>1. PICK x \in Pool(f) \cap Int : nextAddress' = [nextAddress EXCEPT ![c] = x]
        BY <2>2, <3>2, <3>4, ZenonT(60) DEF ReadCurrent
      <4>2. pc' = [pc EXCEPT ![c] = "write"] /\ UNCHANGED <<current, request>>
        BY <2>2, <3>4, ZenonT(60) DEF ReadCurrent
      <4>3. request[c] \in Requests
        BY <2>2, ZenonT(60) DEF ReadCurrent
      <4> QED
        BY <2>2, <4>1, <4>2, <4>3, ZenonT(60)
    <3> QED
      BY <3>3, <3>4, ZenonT(60)
  <2>3. ASSUME NEW c \in Creators, WriteCurrent(c), UNCHANGED <<addressCache, domainCache>>
        PROVE  Goal
    <3>1. request[c] \in Requests /\ nextAddress[c] \in Pool(request[c].family)
      BY <2>3, ZenonT(60) DEF WriteCurrent
    <3>2. request[c].family \in Families /\ nextAddress[c] \in Offsets
      BY <3>1, PoolFacts, ZenonT(60) DEF Requests
    <3>3. /\ current' \in [Families -> Offsets \cup {None}]
          /\ \A f \in Families : current'[f] \in Pool(f) \/ current'[f] = None
      BY <2>3, <3>1, <3>2, ZenonT(60) DEF WriteCurrent
    <3>4. /\ pc' \in [Creators -> {"idle", "file", "read", "write", "store", "save", "timer"}]
          /\ \A d \in Creators : pc'[d] # "idle" => request[d] \in Requests
          /\ \A d \in Creators :
                pc'[d] \in {"write", "store"} => nextAddress[d] \in Pool(request[d].family)
      BY <2>3, <3>1, ZenonT(60) DEF WriteCurrent
    <3> QED
      BY <2>3, <3>3, <3>4, ZenonT(60) DEF WriteCurrent
  <2>4. ASSUME NEW c \in Creators, MemoryFakeIPStore(c) PROVE Goal
    <3>1. address(c) \in ({request[c].family} \X Pool(request[c].family)) \cap Addresses
      BY <2>4, PoolFacts, ZenonT(60) DEF MemoryFakeIPStore, Requests, address
    <3> QED
      BY <2>4, <3>1 DEF MemoryFakeIPStore, Requests, Return
  <2>5. CASE UNCHANGED memoryVars
    BY <2>5, ZenonT(60) DEF memoryVars, storeVars, mapVars
  <2> QED
    BY <2>1, <2>2, <2>3, <2>4, <2>5, ZenonT(60) DEF MemoryNext, TakeAddress, mapVars
<1> QED
  BY <1>1, <1>2, PTL DEF MemorySpec

\* The two maps agree at every step of every exchange: FakeIPStore, the only
\* writer of them, takes the address away from the domain that held it in the
\* same critical section.
LEMMA MapsAgree == MemorySpec => []ReverseConsistent
<1>1. MemoryInit => ReverseConsistent
  BY DEF MemoryInit, ReverseConsistent
<1>2. MemoryTypeOK /\ ReverseConsistent /\ [MemoryNext]_memoryVars => ReverseConsistent'
  <2> SUFFICES ASSUME MemoryTypeOK, ReverseConsistent, [MemoryNext]_memoryVars
               PROVE  ReverseConsistent'
    OBVIOUS
  <2>1. CASE UNCHANGED <<addressCache, domainCache>>
    BY <2>1, ZenonT(60) DEF ReverseConsistent
  <2>2. ASSUME NEW c \in Creators, MemoryFakeIPStore(c) PROVE ReverseConsistent'
    <3> DEFINE f == request[c].family
               d == request[c].domain
               a == address(c)
    <3>1. f \in Families /\ d \in Domains /\ a \in Addresses /\ a \in {f} \X Offsets
      BY <2>2, PoolFacts, ZenonT(60)
        DEF MemoryTypeOK, StoreTypeOK, Requests, MemoryFakeIPStore, address, Addresses
    <3>2. addressCache' = [addressCache EXCEPT ![a] = d]
      BY <2>2, ZenonT(60) DEF MemoryFakeIPStore
    <3>0. \A x \in Domains : domainCache'[f][x] = IF x = d THEN a
                                                  ELSE IF x = addressCache[a] THEN None
                                                  ELSE domainCache[f][x]
      BY <3>1, <2>2, ZenonT(60) DEF MemoryFakeIPStore, MemoryTypeOK
    <3> SUFFICES ASSUME NEW g \in Families, NEW e \in Domains, domainCache'[g][e] # None
                 PROVE  addressCache'[domainCache'[g][e]] = e
      BY ZenonT(60) DEF ReverseConsistent
    <3>3. CASE g = f /\ e = d
      BY <3>0, <3>1, <3>2, <3>3, ZenonT(60) DEF MemoryTypeOK
    <3>4. CASE g = f /\ e # d
      <4>1. e # addressCache[a] /\ domainCache'[g][e] = domainCache[g][e]
        BY <3>0, <3>4, ZenonT(60)
      <4>2. domainCache[g][e] \in Addresses /\ addressCache[domainCache[g][e]] = e
        BY <4>1 DEF ReverseConsistent, MemoryTypeOK
      <4>3. domainCache[g][e] # a
        BY <4>1, <4>2, ZenonT(60)
      <4> HIDE DEF a
      <4> QED
        BY <4>1, <4>2, <4>3, <3>1, <3>2, ZenonT(60) DEF MemoryTypeOK
    <3>5. CASE g # f
      <4>1. domainCache'[g][e] = domainCache[g][e]
        BY <3>1, <3>5, <2>2, ZenonT(60) DEF MemoryFakeIPStore, MemoryTypeOK
      <4>2. domainCache[g][e] \in Addresses /\ domainCache[g][e][1] = g
        BY <4>1 DEF MemoryTypeOK
      <4>3. domainCache[g][e] # a
        BY <4>2, <3>1, <3>5, ZenonT(60)
      <4> HIDE DEF a
      <4> QED
        BY <4>1, <4>2, <4>3, <3>1, <3>2 DEF ReverseConsistent, MemoryTypeOK
    <3> QED
      BY <3>3, <3>4, <3>5, ZenonT(60)
  <2> QED
    BY <2>1, <2>2, ZenonT(60) DEF MemoryNext, LoadDomain, TakeAddress, memoryVars, mapVars
<1> QED
  BY <1>1, <1>2, MemoryTypeCorrect, PTL DEF MemorySpec

\* The storage implements the address book: every step of an exchange either
\* leaves the book alone or is FakeIPStore, which gives the address to one domain
\* and takes nothing from any other but the address's last owner.
THEOREM MemoryImplementsBook == MemorySpec => MemoryKeepsBook
<1>1. MemoryInit => MemoryBook!Init
  BY ZenonT(60) DEF MemoryInit, MemoryBook!Init
<1>2. MemoryTypeOK /\ ReverseConsistent /\ [MemoryNext]_memoryVars => [MemoryBook!Next]_(MemoryBook!bookVars)
  <2> SUFFICES ASSUME MemoryTypeOK, ReverseConsistent, [MemoryNext]_memoryVars
               PROVE  [MemoryBook!Next]_(MemoryBook!bookVars)
    OBVIOUS
  <2>1. CASE UNCHANGED mapVars
    BY <2>1, ZenonT(60) DEF mapVars, MemoryBook!bookVars
  <2>2. ASSUME NEW c \in Creators, MemoryFakeIPStore(c) PROVE MemoryBook!Next
    <3> DEFINE f == request[c].family
               d == request[c].domain
               a == address(c)
               lost == {addressCache[a]} \cap Domains
    <3>1. f \in Families /\ d \in Domains /\ a \in Addresses
      BY <2>2, PoolFacts, ZenonT(60) DEF MemoryTypeOK, StoreTypeOK, Requests, MemoryFakeIPStore, address
    <3>2. {e \in Domains \ {d} : domainCache[f][e] = a} \subseteq lost
      <4> SUFFICES ASSUME NEW e \in Domains, domainCache[f][e] = a PROVE e = addressCache[a]
        OBVIOUS
      <4>1. a # None
        BY <3>1, ConstantsAssumption, ZenonT(60) DEF Addresses
      <4> QED
        BY <4>1, <3>1, ZenonT(60) DEF ReverseConsistent
    <3>3. domainCache' = [domainCache EXCEPT
              ![f] = [e \in Domains |-> IF e = d THEN a
                                        ELSE IF e \in lost THEN None
                                        ELSE domainCache[f][e]]]
      BY <2>2, ZenonT(60) DEF MemoryFakeIPStore
    <3>4. addressCache' = [addressCache EXCEPT ![a] = d]
      BY <2>2, ZenonT(60) DEF MemoryFakeIPStore
    <3>5. MemoryBook!Take(f, d, a, lost)
      BY <3>2, <3>3, <3>4, ZenonT(60) DEF MemoryBook!Take
    <3> QED
      BY <3>1, <3>5, ZenonT(60) DEF MemoryBook!Next
  <2> QED
    BY <2>1, <2>2, ZenonT(60) DEF MemoryNext, LoadDomain, TakeAddress, memoryVars
<1> QED
  BY <1>1, <1>2, MemoryTypeCorrect, MapsAgree, PTL
    DEF MemorySpec, MemoryKeepsBook, MemoryBook!Spec
------------------------------------------------------------------------------
\* What the histories of the answers record.  A domain's present address was
\* answered for it, a Create that carries an address alone has seen every answer
\* with it, and only then does the storing of the pair leave one domain.
AnswerInv ==
    /\ \A f \in Families, d \in Domains :
          domainCache[f][d] # None => d \in answered[domainCache[f][d]]
    /\ \A c \in Creators, a \in Addresses \ shared : Carries(c, a) => before[c] = answered[a]
    /\ \A a \in Addresses \ shared : \A c, o \in Creators : Carries(c, a) /\ Carries(o, a) => c = o
    /\ AnsweredResolves

\* A step that stores nothing and lets no Create take an address keeps it.
LEMMA AnswerUnchanged ==
    ASSUME AnswerInv, UNCHANGED <<mapVars, answered, before, shared>>,
           \A c \in Creators, a \in Addresses : Carries(c, a)' => Carries(c, a)
    PROVE  AnswerInv'
<1>1. /\ \A f \in Families, d \in Domains :
             domainCache'[f][d] # None => d \in answered'[domainCache'[f][d]]
      /\ AnsweredResolves'
  BY ZenonT(60) DEF AnswerInv, AnsweredResolves, mapVars
<1>2. \A c \in Creators, a \in Addresses \ shared' : Carries(c, a)' => before'[c] = answered'[a]
  BY ZenonT(60) DEF AnswerInv
<1>3. \A a \in Addresses \ shared' : \A c, o \in Creators : Carries(c, a)' /\ Carries(o, a)' => c = o
  BY ZenonT(60) DEF AnswerInv
<1> QED
  BY <1>1, <1>2, <1>3, ZenonT(60) DEF AnswerInv

\* Create takes an address: alone, or the address is shared from now on.
LEMMA AnswerTaken ==
    ASSUME MemoryTypeOK, AnswerInv, NEW c \in Creators, TakeAddress(c)
    PROVE  AnswerInv'
<1>0. /\ pc \in [Creators -> {"idle", "file", "read", "write", "store", "save", "timer"}]
      /\ request \in [Creators -> Requests \cup {None}]
      /\ nextAddress \in [Creators -> Int \cup {None}]
      /\ before \in [Creators -> SUBSET Domains]
  BY ZenonT(60) DEF MemoryTypeOK, StoreTypeOK
<1>1. \A o \in Creators \ {c}, a \in Addresses : Carries(o, a)' = Carries(o, a)
  BY <1>0, ZenonT(60) DEF TakeAddress, ReadCurrent, Return, Carries, address
<1>2. CASE pc'[c] # "write"
  <2>1. pc'[c] = "idle" /\ UNCHANGED <<mapVars, answered, before, shared>>
    BY <1>0, <1>2, ZenonT(60) DEF TakeAddress, ReadCurrent, Return
  <2>2. \A o \in Creators, a \in Addresses : Carries(o, a)' => Carries(o, a)
    BY <1>1, <2>1, ZenonT(60) DEF Carries
  <2> QED
    BY <2>1, <2>2, AnswerUnchanged, ZenonT(60)
<1>3. CASE pc'[c] = "write"
  <2> DEFINE b == <<request[c].family, nextAddress'[c]>>
  <2>1. /\ before' = [before EXCEPT ![c] = answered[b]]
        /\ shared' = IF \E o \in Creators : Carries(o, b) THEN shared \cup {b} ELSE shared
        /\ UNCHANGED <<addressCache, domainCache, answered>>
    BY <1>3, ZenonT(60) DEF TakeAddress, mapVars
  <2>2. request'[c] = request[c]
    BY <1>0, <1>3, ZenonT(60) DEF TakeAddress, ReadCurrent, Return
  <2>3. \A a \in Addresses : Carries(c, a)' <=> a = b
    BY <1>3, <2>2, ZenonT(60) DEF Carries, address
  <2> HIDE DEF b
  <2>4. shared \subseteq shared'
    BY <2>1, ZenonT(60)
  <2>5. /\ \A f \in Families, d \in Domains :
               domainCache'[f][d] # None => d \in answered'[domainCache'[f][d]]
        /\ AnsweredResolves'
    BY <2>1, <2>4, ZenonT(60) DEF AnswerInv, AnsweredResolves
  <2>6. ASSUME NEW o \in Creators, NEW a \in Addresses \ shared', Carries(o, a)'
        PROVE  before'[o] = answered'[a]
    <3>1. CASE o = c
      BY <1>0, <2>1, <2>3, <2>6, <3>1, ZenonT(60)
    <3>2. CASE o # c
      <4>1. Carries(o, a) /\ before'[o] = before[o]
        BY <1>0, <1>1, <2>1, <2>6, <3>2, ZenonT(60)
      <4> QED
        BY <2>1, <2>4, <4>1, ZenonT(60) DEF AnswerInv
    <3> QED
      BY <3>1, <3>2, ZenonT(60)
  <2>7. ASSUME NEW a \in Addresses \ shared', NEW o \in Creators, NEW p \in Creators,
               Carries(o, a)', Carries(p, a)'
        PROVE  o = p
    <3>1. CASE o # c /\ p # c
      BY <1>1, <2>4, <2>7, <3>1, ZenonT(60) DEF AnswerInv
    <3>2. ASSUME NEW q \in Creators \ {c}, Carries(q, a)', Carries(c, a)' PROVE FALSE
      <4>1. a = b /\ Carries(q, b)
        BY <1>1, <2>3, <3>2, ZenonT(60)
      <4>2. b \in shared'
        BY <2>1, <4>1, ZenonT(60)
      <4> QED
        BY <4>1, <4>2, ZenonT(60)
    <3> QED
      BY <2>7, <3>1, <3>2, ZenonT(60)
  <2> QED
    BY <2>5, <2>6, <2>7, ZenonT(60) DEF AnswerInv
<1> QED
  BY <1>2, <1>3, ZenonT(60)

\* Create stores its pair: with the address carried by it alone, every client
\* that was answered before its domain's is forgotten.
LEMMA AnswerStored ==
    ASSUME MemoryTypeOK, ReverseConsistent, AnswerInv, NEW c \in Creators, MemoryFakeIPStore(c)
    PROVE  AnswerInv'
<1> DEFINE f == request[c].family
           d == request[c].domain
           b == address(c)
<1>0. /\ pc \in [Creators -> {"idle", "file", "read", "write", "store", "save", "timer"}]
      /\ request \in [Creators -> Requests \cup {None}]
      /\ nextAddress \in [Creators -> Int \cup {None}]
      /\ before \in [Creators -> SUBSET Domains] /\ answered \in [Addresses -> SUBSET Domains]
      /\ addressCache \in [Addresses -> Domains \cup {None}]
      /\ domainCache \in [Families -> [Domains -> Addresses \cup {None}]]
  BY ZenonT(60) DEF MemoryTypeOK, StoreTypeOK
<1>1. f \in Families /\ d \in Domains /\ b \in Addresses /\ b # None /\ Carries(c, b)
  <2>1. f \in Families /\ d \in Domains /\ nextAddress[c] \in Pool(f) /\ pc[c] = "store"
    BY ZenonT(60) DEF MemoryFakeIPStore, MemoryTypeOK, StoreTypeOK, Requests
  <2>2. b \in Addresses /\ b # None
    <3>1. range \in Ranges
      BY ZenonT(60) DEF MemoryTypeOK, StoreTypeOK
    <3>2. b \in Addresses
      BY <2>1, <3>1, PoolFacts, ZenonT(60) DEF address
    <3> QED
      BY <2>1, <3>1, <3>2, PoolFacts, ZenonT(60)
  <2> QED
    BY <2>1, <2>2, ZenonT(60) DEF Carries
<1>2. /\ addressCache' = [addressCache EXCEPT ![b] = d]
      /\ answered' = [answered EXCEPT ![b] = (@ \ before[c]) \cup {d}]
      /\ before' = [before EXCEPT ![c] = {}]
      /\ shared' = shared
  BY ZenonT(60) DEF MemoryFakeIPStore, Answers
<1>3. \A e \in Domains : domainCache'[f][e] = IF e = d THEN b
                                              ELSE IF e = addressCache[b] THEN None
                                              ELSE domainCache[f][e]
  BY <1>0, <1>1, ZenonT(60) DEF MemoryFakeIPStore
<1>4. \A g \in Families \ {f} : domainCache'[g] = domainCache[g]
  BY <1>0, <1>1, ZenonT(60) DEF MemoryFakeIPStore
<1>5. /\ \A o \in Creators \ {c}, a \in Addresses : Carries(o, a)' = Carries(o, a)
      /\ pc'[c] = "idle"
  BY <1>0, ZenonT(60) DEF MemoryFakeIPStore, Return, Carries, address
<1>6. \A a \in Addresses : ~Carries(c, a)'
  BY <1>5, ZenonT(60) DEF Carries
<1>7. \A a \in Addresses : a # b => answered'[a] = answered[a] /\ addressCache'[a] = addressCache[a]
  BY <1>0, <1>2, ZenonT(60)
<1>8. answered'[b] = (answered[b] \ before[c]) \cup {d} /\ addressCache'[b] = d
  BY <1>0, <1>1, <1>2, ZenonT(60)
<1> HIDE DEF f, d, b
<1>9. ASSUME NEW g \in Families, NEW e \in Domains, domainCache'[g][e] # None
      PROVE  e \in answered'[domainCache'[g][e]]
  <2>1. CASE g = f /\ e = d
    BY <1>3, <1>8, <2>1, ZenonT(60)
  <2>2. CASE ~(g = f /\ e = d)
    <3>1. domainCache'[g][e] = domainCache[g][e] /\ (g = f => e # addressCache[b])
      BY <1>3, <1>4, <1>9, <2>2, ZenonT(60)
    <3>2. domainCache[g][e] \in Addresses /\ addressCache[domainCache[g][e]] = e
      <4>1. domainCache[g][e] # None /\ domainCache[g][e] \in Addresses \cup {None}
        BY <1>0, <1>9, <3>1, ZenonT(60)
      <4> QED
        BY <4>1, ZenonT(60) DEF ReverseConsistent
    <3>3. e \in answered[domainCache[g][e]]
      BY <1>9, <3>1, ZenonT(60) DEF AnswerInv
    <3>4. domainCache[g][e] # b
      <4>1. CASE g = f
        BY <3>1, <3>2, <4>1, ZenonT(60)
      <4>2. CASE g # f
        <5>1. domainCache[g][e][1] = g
          BY <1>9, <3>1 DEF MemoryTypeOK
        <5>2. b[1] = f
          BY ZenonT(60) DEF b, f, address
        <5> QED
          BY <4>2, <5>1, <5>2, ZenonT(60)
      <4> QED
        BY <4>1, <4>2, ZenonT(60)
    <3> QED
      BY <1>7, <3>1, <3>2, <3>3, <3>4, ZenonT(60)
  <2> QED
    BY <2>1, <2>2, ZenonT(60)
<1>10. ASSUME NEW o \in Creators, NEW a \in Addresses \ shared', Carries(o, a)'
       PROVE  o # c /\ Carries(o, a) /\ a # b /\ before'[o] = answered'[a]
  <2>1. o # c /\ Carries(o, a)
    BY <1>5, <1>6, <1>10, ZenonT(60)
  <2>2. a # b
    BY <1>1, <1>2, <1>10, <2>1, ZenonT(60) DEF AnswerInv
  <2>3. before'[o] = before[o] /\ before[o] = answered[a]
    BY <1>0, <1>2, <2>1, ZenonT(60) DEF AnswerInv
  <2> QED
    BY <1>7, <2>1, <2>2, <2>3, ZenonT(60)
<1>11. \A a \in Addresses \ shared' : \A o, p \in Creators : Carries(o, a)' /\ Carries(p, a)' => o = p
  BY <1>2, <1>10, ZenonT(60) DEF AnswerInv
<1>12. ASSUME NEW a \in Addresses \ shared' PROVE answered'[a] \subseteq {addressCache'[a]}
  <2>1. CASE a = b
    <3>1. before[c] = answered[b]
      BY <1>1, <1>2, <2>1, ZenonT(60) DEF AnswerInv
    <3> QED
      BY <1>8, <2>1, <3>1, ZenonT(60)
  <2>2. CASE a # b
    BY <1>2, <1>7, <2>2, ZenonT(60) DEF AnswerInv, AnsweredResolves
  <2> QED
    BY <2>1, <2>2, ZenonT(60)
<1> QED
  BY <1>9, <1>10, <1>11, <1>12, ZenonT(60) DEF AnswerInv, AnsweredResolves

\* Whatever exchanges overlap, every client answered with an address is routed
\* to the domain it asked for until the address is taken for another one; the
\* exception are the addresses that two exchanges have carried at once.
THEOREM AnswersResolve == MemorySpec => []AnsweredResolves
<1>1. MemoryInit => AnswerInv
  <2> SUFFICES ASSUME MemoryInit PROVE AnswerInv
    OBVIOUS
  <2>1. \A c \in Creators, a \in Addresses : ~Carries(c, a)
    BY ZenonT(60) DEF MemoryInit, StoreInit, Carries
  <2>2. \A f \in Families, d \in Domains : domainCache[f][d] = None
    BY ZenonT(60) DEF MemoryInit
  <2>3. AnsweredResolves
    BY ZenonT(60) DEF MemoryInit, AnsweredResolves
  <2> QED
    BY <2>1, <2>2, <2>3, ZenonT(60) DEF AnswerInv
<1>2. MemoryTypeOK /\ ReverseConsistent /\ AnswerInv /\ [MemoryNext]_memoryVars => AnswerInv'
  <2> SUFFICES ASSUME MemoryTypeOK, ReverseConsistent, AnswerInv, [MemoryNext]_memoryVars
               PROVE  AnswerInv'
    OBVIOUS
  <2>0. /\ pc \in [Creators -> {"idle", "file", "read", "write", "store", "save", "timer"}]
        /\ request \in [Creators -> Requests \cup {None}]
        /\ answered \in [Addresses -> SUBSET Domains]
        /\ domainCache \in [Families -> [Domains -> Addresses \cup {None}]]
    BY ZenonT(60) DEF MemoryTypeOK, StoreTypeOK
  <2>1. ASSUME NEW c \in Creators, NEW r \in Requests, LoadDomain(c, r) PROVE AnswerInv'
    <3>1. r.family \in Families /\ r.domain \in Domains
      BY ZenonT(60) DEF Requests
    <3>2. answered' = answered
      <4> DEFINE a == domainCache[r.family][r.domain]
      <4>1. CASE a = None
        BY <2>1, <4>1, ZenonT(60) DEF LoadDomain
      <4>2. CASE a # None
        <5>0. a \in Addresses \cup {None}
          BY <2>0, <3>1, ZenonT(60)
        <5>1. r.domain \in answered[a] /\ a \in Addresses
          BY <3>1, <4>2, <5>0, ZenonT(60) DEF AnswerInv
        <5>2. answered' = [answered EXCEPT ![a] = @ \cup {r.domain}]
          BY <2>1, <4>2, ZenonT(60) DEF LoadDomain
        <5> HIDE DEF a
        <5>3. answered[a] \cup {r.domain} = answered[a]
          BY <5>1, ZenonT(60)
        <5> QED
          BY <2>0, <5>1, <5>2, <5>3, ZenonT(60)
      <4> QED
        BY <4>1, <4>2, ZenonT(60)
    <3>3. \A o \in Creators, a \in Addresses : Carries(o, a)' => Carries(o, a)
      <4>1. \A o \in Creators : pc'[o] = pc[o] \/ pc'[o] = "read"
        BY <2>0, <2>1, ZenonT(60) DEF LoadDomain, Call
      <4>2. \A o \in Creators : pc[o] # "idle" => address(o)' = address(o)
        BY <2>0, <2>1, ZenonT(60) DEF LoadDomain, Call, address
      <4> QED
        BY <4>1, <4>2, ZenonT(60) DEF Carries
    <3> QED
      BY <2>1, <3>2, <3>3, AnswerUnchanged, ZenonT(60) DEF LoadDomain
  <2>2. ASSUME NEW c \in Creators, WriteCurrent(c), UNCHANGED <<mapVars, overlapped, answerVars>>
        PROVE  AnswerInv'
    <3>1. \A o \in Creators, a \in Addresses : Carries(o, a)' => Carries(o, a)
      BY <2>0, <2>2, ZenonT(60) DEF WriteCurrent, Carries, address
    <3> QED
      BY <2>2, <3>1, AnswerUnchanged, ZenonT(60) DEF answerVars
  <2>3. CASE UNCHANGED memoryVars
    <3>1. \A o \in Creators, a \in Addresses : Carries(o, a)' => Carries(o, a)
      BY <2>3, ZenonT(60) DEF memoryVars, storeVars, Carries, address
    <3> QED
      BY <2>3, <3>1, AnswerUnchanged, ZenonT(60) DEF memoryVars, answerVars
  <2> QED
    BY <2>1, <2>2, <2>3, AnswerTaken, AnswerStored, ZenonT(60) DEF MemoryNext
<1>3. AnswerInv => AnsweredResolves
  BY ZenonT(60) DEF AnswerInv
<1> QED
  BY <1>1, <1>2, <1>3, MemoryTypeCorrect, MapsAgree, PTL DEF MemorySpec
------------------------------------------------------------------------------
\* The order in which addresses are handed out: upwards from the one after the
\* first, and the first one last.
Used(f, a) == addressCache[<<f, a>>] # None

Full(f) == \A a \in Pool(f) : Used(f, a)

Storing(f) == \E c \in Creators : pc[c] = "store" /\ request[c].family = f

\* Every address up to the cursor has been handed out and stored.
Handed(f) == \A a \in Pool(f) : Used(f, a) <=> a # FirstAddress /\ a <= current[f]

\* The address at the cursor is still to be stored.
Due(f) == \A a \in Pool(f) :
    Used(f, a) <=> a # FirstAddress /\ a # current[f] /\ (current[f] = FirstAddress \/ a < current[f])

\* As long as exchanges do not overlap: one runs at a time, what it has read of
\* the cursor is not stale, and as long as an address is left the cursor has not
\* come back to one that is in use.
OrderInv ==
    ~overlapped =>
        /\ \A c, d \in Creators : pc[c] # "idle" /\ pc[d] # "idle" => c = d
        /\ \A c \in Creators :
              LET f == request[c].family IN
              /\ pc[c] \in {"write", "store"} => current[f] # None
              /\ pc[c] = "write" => nextAddress[c] = Advance(f, current[f])
              /\ pc[c] = "store" => nextAddress[c] = current[f]
        /\ \A f \in Families : current[f] # None =>
              \/ Full(f)
              \/ Storing(f) /\ Due(f)
              \/ ~Storing(f) /\ Handed(f)

\* Moving the cursor: what was handed out up to it leaves the next one due.
LEMMA CursorMoves ==
    ASSUME range \in Ranges, NEW f \in Families, current[f] \in Pool(f), Handed(f),
           current'[f] = Advance(f, current[f]), UNCHANGED <<range, addressCache>>
    PROVE  Due(f)'
<1>1. Pool(f)' = Pool(f) /\ \A a : Used(f, a)' = Used(f, a)
  BY ZenonT(60) DEF Pool, Used
<1>2. PICK n \in Nat : Pool(f) = FirstAddress .. n
  BY ConstantsAssumption, ZenonT(60) DEF Pool
<1>3. current[f] \in Int /\ FirstAddress \in Int
  BY <1>2 DEF FirstAddress
<1> SUFFICES ASSUME NEW a \in Pool(f)
             PROVE  Used(f, a) <=> /\ a # FirstAddress /\ a # current'[f]
                                   /\ current'[f] = FirstAddress \/ a < current'[f]
  BY <1>1, ZenonT(60) DEF Due
<1>4. Used(f, a) <=> a # FirstAddress /\ a <= current[f]
  BY ZenonT(60) DEF Handed
<1>5. CASE current[f] + 1 \in Pool(f)
  BY <1>2, <1>3, <1>4, <1>5 DEF Advance, FirstAddress
<1>6. CASE current[f] + 1 \notin Pool(f)
  BY <1>2, <1>3, <1>4, <1>6 DEF Advance, FirstAddress
<1> QED
  BY <1>5, <1>6, ZenonT(60)

\* Storing the address that is due: everything up to the cursor is handed out, or
\* the first address was the last one left.
LEMMA DueIsStored ==
    ASSUME range \in Ranges, NEW f \in Families, current[f] \in Pool(f), Due(f) \/ Full(f),
           UNCHANGED <<range, current>>,
           \A a \in Pool(f) : Used(f, a)' <=> Used(f, a) \/ a = current[f]
    PROVE  Full(f)' \/ Handed(f)'
<1>1. Pool(f)' = Pool(f) /\ Pool(f) \subseteq Int
  BY PoolFacts, ZenonT(60) DEF Pool
<1>2. CASE Full(f)
  BY <1>1, <1>2, ZenonT(60) DEF Full
<1>3. CASE Due(f) /\ current[f] = FirstAddress
  BY <1>1, <1>3, ZenonT(60) DEF Full, Due
<1>4. CASE Due(f) /\ current[f] # FirstAddress
  BY <1>1, <1>4 DEF Handed, Due, FirstAddress
<1> QED
  BY <1>2, <1>3, <1>4, ZenonT(60)

\* Every step of every exchange keeps the order.
LEMMA OrderStep == MemoryTypeOK /\ OrderInv /\ [MemoryNext]_memoryVars => OrderInv'
<1> SUFFICES ASSUME MemoryTypeOK, OrderInv, [MemoryNext]_memoryVars, ~overlapped'
             PROVE  OrderInv'
  BY ZenonT(60) DEF OrderInv
<1>0. range' = range
  BY ZenonT(60) DEF MemoryNext, LoadDomain, Call, TakeAddress, ReadCurrent, WriteCurrent,
         MemoryFakeIPStore, memoryVars, storeVars
<1>1. ~overlapped /\ range' = range
  <2>1. CASE UNCHANGED overlapped
    BY <1>0, <2>1, ZenonT(60)
  <2>2. ASSUME NEW c \in Creators, NEW r \in Requests, LoadDomain(c, r) PROVE ~overlapped
    BY <2>2, ZenonT(60) DEF LoadDomain
  <2> QED
    BY <1>0, <2>1, <2>2, ZenonT(60) DEF MemoryNext, TakeAddress, MemoryFakeIPStore, memoryVars
<1>2. /\ \A c, d \in Creators : pc[c] # "idle" /\ pc[d] # "idle" => c = d
      /\ \A c \in Creators :
            /\ pc[c] \in {"write", "store"} => current[request[c].family] # None
            /\ pc[c] = "write" =>
                  nextAddress[c] = Advance(request[c].family, current[request[c].family])
            /\ pc[c] = "store" => nextAddress[c] = current[request[c].family]
      /\ \A f \in Families : current[f] # None =>
            Full(f) \/ (Storing(f) /\ Due(f)) \/ (~Storing(f) /\ Handed(f))
  BY <1>1, ZenonT(60) DEF OrderInv
<1>3. /\ range \in Ranges
      /\ pc \in [Creators -> {"idle", "file", "read", "write", "store", "save", "timer"}]
      /\ request \in [Creators -> Requests \cup {None}]
      /\ nextAddress \in [Creators -> Int \cup {None}]
      /\ current \in [Families -> Offsets \cup {None}]
      /\ \A f \in Families : current[f] \in Pool(f) \/ current[f] = None
      /\ \A c \in Creators : pc[c] # "idle" => request[c] \in Requests
      /\ addressCache \in [Addresses -> Domains \cup {None}]
  BY ZenonT(60) DEF MemoryTypeOK, StoreTypeOK
<1>4. \A f : Pool(f)' = Pool(f) /\ \A x : Advance(f, x)' = Advance(f, x)
  BY <1>1, ZenonT(60) DEF Pool, Advance
<1>5. ASSUME UNCHANGED <<current, addressCache>>, \A f \in Families : Storing(f)' = Storing(f)
      PROVE  \A f \in Families : current'[f] # None =>
                 Full(f)' \/ (Storing(f)' /\ Due(f)') \/ (~Storing(f)' /\ Handed(f)')
  BY <1>2, <1>4, <1>5, ZenonT(60) DEF Full, Due, Handed, Used
<1>6. ASSUME NEW c \in Creators, NEW r \in Requests, LoadDomain(c, r) PROVE OrderInv'
  <2>1. /\ \A o \in Creators : pc[o] = "idle"
        /\ pc' = pc \/ pc' = [pc EXCEPT ![c] = "read"]
        /\ UNCHANGED <<current, addressCache, nextAddress>>
    BY <1>6, ZenonT(60) DEF LoadDomain, Call, mapVars
  <2>2. \A o \in Creators : pc'[o] \in {"idle", "read"} /\ (o # c => pc'[o] = "idle")
    BY <2>1, <1>3, ZenonT(60)
  <2>3. \A f \in Families : Storing(f)' = Storing(f)
    BY <2>1, <2>2, ZenonT(60) DEF Storing
  <2>4. \A f \in Families : current'[f] # None =>
            Full(f)' \/ (Storing(f)' /\ Due(f)') \/ (~Storing(f)' /\ Handed(f)')
    BY <1>5, <2>1, <2>3, ZenonT(60)
  <2> QED
    BY <2>2, <2>4, ZenonT(60) DEF OrderInv
<1>7. ASSUME NEW c \in Creators, ReadCurrent(c), UNCHANGED <<mapVars, overlapped>>
      PROVE  OrderInv'
  <2>1. /\ pc[c] = "read" /\ \A o \in Creators : o # c => pc[o] = "idle" /\ pc'[o] = pc[o]
        /\ UNCHANGED current /\ pc'[c] \in {"idle", "write"}
    BY <1>2, <1>3, <1>7, ZenonT(60) DEF ReadCurrent, Return
  <2>2. pc'[c] = "write" =>
            /\ request'[c] = request[c] /\ current[request[c].family] # None
            /\ nextAddress'[c] = Advance(request[c].family, current[request[c].family])
    BY <1>3, <1>7, ZenonT(60) DEF ReadCurrent, Return
  <2>3. \A f \in Families : Storing(f)' = Storing(f)
    BY <2>1, ZenonT(60) DEF Storing
  <2>4. \A f \in Families : current'[f] # None =>
            Full(f)' \/ (Storing(f)' /\ Due(f)') \/ (~Storing(f)' /\ Handed(f)')
    BY <1>5, <1>7, <2>1, <2>3, ZenonT(60) DEF mapVars
  <2> QED
    BY <1>4, <2>1, <2>2, <2>4, ZenonT(60) DEF OrderInv
<1>8. ASSUME NEW c \in Creators, WriteCurrent(c), UNCHANGED <<mapVars, overlapped>>
      PROVE  OrderInv'
  <2> DEFINE f == request[c].family
  <2>1. /\ pc[c] = "write" /\ pc'[c] = "store" /\ f \in Families
        /\ \A o \in Creators : o # c => pc[o] = "idle" /\ pc'[o] = "idle"
        /\ UNCHANGED <<request, nextAddress>>
    BY <1>2, <1>3, <1>8, ZenonT(60) DEF WriteCurrent, Requests
  <2>2. /\ current'[f] = nextAddress[c] /\ nextAddress[c] = Advance(f, current[f])
        /\ current[f] \in Pool(f)
        /\ \A g \in Families : g # f => current'[g] = current[g]
    BY <1>2, <1>3, <1>8, <2>1, ZenonT(60) DEF WriteCurrent
  <2>3. current'[f] # None
    BY <1>3, <2>1, <2>2, PoolFacts
  <2>4. \A g \in Families : ~Storing(g) /\ (Storing(g)' <=> g = f)
    BY <2>1, ZenonT(60) DEF Storing
  <2>5. ASSUME NEW g \in Families, current'[g] # None
        PROVE  Full(g)' \/ (Storing(g)' /\ Due(g)') \/ (~Storing(g)' /\ Handed(g)')
    <3>1. CASE Full(g)
      BY <1>4, <1>8, <3>1, ZenonT(60) DEF Full, Used, mapVars
    <3>2. CASE g = f /\ Handed(f)
      BY <1>1, <1>3, <1>8, <2>1, <2>2, <2>4, <3>2, CursorMoves, ZenonT(60) DEF mapVars
    <3>3. CASE g # f /\ Handed(g)
      BY <1>4, <1>8, <2>2, <2>4, <3>3, ZenonT(60) DEF Handed, Used, mapVars
    <3>4. current[g] # None
      <4>1. CASE g = f
        BY <1>3, <2>2, <4>1, PoolFacts
      <4>2. CASE g # f
        BY <2>2, <2>5, <4>2, ZenonT(60)
      <4> QED
        BY <4>1, <4>2, ZenonT(60)
    <3> QED
      BY <1>2, <2>4, <3>1, <3>2, <3>3, <3>4, ZenonT(60)
  <2> QED
    BY <2>1, <2>2, <2>3, <2>5, ZenonT(60) DEF OrderInv
<1>9. ASSUME NEW c \in Creators, MemoryFakeIPStore(c) PROVE OrderInv'
  <2>0. PICK f \in Families : f = request[c].family
    BY <1>3, <1>9, ZenonT(60) DEF MemoryFakeIPStore, Requests
  <2>1. /\ pc[c] = "store" /\ pc'[c] = "idle" /\ request[c].domain \in Domains
        /\ \A o \in Creators : pc'[o] = "idle" /\ (o # c => pc[o] = "idle")
        /\ UNCHANGED current
    BY <1>2, <1>3, <1>9, ZenonT(60) DEF MemoryFakeIPStore, Return, Requests
  <2>2. /\ current[f] \in Pool(f)
        /\ addressCache' = [addressCache EXCEPT ![<<f, current[f]>>] = request[c].domain]
    BY <1>2, <1>3, <1>9, <2>0, <2>1, ZenonT(60) DEF MemoryFakeIPStore, address
  <2>3. \A g \in Families : ~Storing(g)' /\ (Storing(g) <=> g = f)
    BY <2>0, <2>1, ZenonT(60) DEF Storing
  <2>4. \A g \in Families : \A a \in Pool(g) :
            Used(g, a)' <=> Used(g, a) \/ (g = f /\ a = current[f])
    <3> SUFFICES ASSUME NEW g \in Families, NEW a \in Pool(g)
                 PROVE  Used(g, a)' <=> Used(g, a) \/ (g = f /\ a = current[f])
      OBVIOUS
    <3>1. <<g, a>> \in Addresses /\ (<<g, a>> = <<f, current[f]>> <=> g = f /\ a = current[f])
      BY <1>3, PoolFacts, ZenonT(60)
    <3>2. addressCache'[<<g, a>>] =
              IF g = f /\ a = current[f] THEN request[c].domain ELSE addressCache[<<g, a>>]
      BY <1>3, <2>2, <3>1, ZenonT(60)
    <3> QED
      BY <2>1, <3>2, ConstantsAssumption, ZenonT(60) DEF Used
  <2>5. ASSUME NEW g \in Families, current'[g] # None
        PROVE  Full(g)' \/ (Storing(g)' /\ Due(g)') \/ (~Storing(g)' /\ Handed(g)')
    <3>1. CASE g = f
      <4>1. Due(f) \/ Full(f)
        BY <1>2, <2>1, <2>3, <2>5, <3>1, ZenonT(60)
      <4>2. \A a \in Pool(f) : Used(f, a)' <=> Used(f, a) \/ a = current[f]
        BY <2>1, <2>4, ZenonT(60)
      <4>3. Full(f)' \/ Handed(f)'
        BY <1>1, <1>3, <2>1, <2>2, <4>1, <4>2, DueIsStored, ZenonT(60)
      <4> QED
        BY <2>3, <3>1, <4>3, ZenonT(60)
    <3>2. CASE g # f
      <4>1. \A a \in Pool(g) : Used(g, a)' <=> Used(g, a)
        BY <2>4, <3>2, ZenonT(60)
      <4> QED
        BY <1>2, <1>4, <2>1, <2>3, <2>5, <3>2, <4>1, ZenonT(60) DEF Full, Handed
    <3> QED
      BY <3>1, <3>2, ZenonT(60)
  <2> QED
    BY <2>1, <2>5, ZenonT(60) DEF OrderInv
<1>10. CASE UNCHANGED memoryVars
  BY <1>2, <1>4, <1>10 DEF memoryVars, storeVars, mapVars, OrderInv, Full, Due, Handed, Used, Storing
<1> QED
  BY <1>6, <1>7, <1>8, <1>9, <1>10, ZenonT(60) DEF MemoryNext, TakeAddress

\* While exchanges do not overlap, whatever the length of the range, an address
\* changes hands only once every address of the range is in use.
THEOREM ReuseWhenExhausted == MemorySpec => ReuseOnlyWhenExhausted
<1>1. MemoryInit => OrderInv
  <2> SUFFICES ASSUME MemoryInit PROVE OrderInv
    OBVIOUS
  <2>1. \A f \in Families : ~Storing(f)
    BY ZenonT(60) DEF MemoryInit, StoreInit, Storing
  <2>2. ASSUME NEW f \in Families, current[f] # None PROVE Handed(f)
    <3>1. current[f] = FirstAddress /\ range \in Ranges
      BY <2>2, ZenonT(60) DEF MemoryInit, StoreInit, InitialCurrent
    <3>2. \A a \in Pool(f) : ~Used(f, a) /\ a \in Int /\ a >= FirstAddress
      BY <3>1, PoolFacts DEF MemoryInit, Used, Pool
    <3> QED
      BY <3>1, <3>2 DEF Handed, FirstAddress
  <2> QED
    BY <2>1, <2>2, ZenonT(60) DEF MemoryInit, StoreInit, OrderInv
<1>2. MemoryTypeOK /\ OrderInv /\ [MemoryNext]_memoryVars =>
          [\A f \in Families : ~overlapped /\ (\E a \in Pool(f) : Evicts(<<f, a>>))
              => \A a \in Pool(f) : addressCache[<<f, a>>] # None]_memoryVars
  <2> SUFFICES ASSUME MemoryTypeOK, OrderInv, MemoryNext, NEW f \in Families, ~overlapped,
                      NEW a \in Pool(f), Evicts(<<f, a>>)
               PROVE  Full(f)
    BY ZenonT(60) DEF Full, Used
  <2>1. PICK c \in Creators : MemoryFakeIPStore(c)
    BY ZenonT(60) DEF MemoryNext, LoadDomain, TakeAddress, mapVars, Evicts
  <2>2. /\ pc[c] = "store" /\ request[c] \in Requests
        /\ addressCache' = [addressCache EXCEPT ![address(c)] = request[c].domain]
        /\ addressCache \in [Addresses -> Domains \cup {None}] /\ range \in Ranges
    BY <2>1, ZenonT(60) DEF MemoryFakeIPStore, MemoryTypeOK, StoreTypeOK
  <2>3. <<f, a>> = address(c)
    BY <2>2, PoolFacts, ZenonT(60) DEF Evicts
  <2>4. request[c].family = f /\ nextAddress[c] = a
    BY <2>3, ZenonT(60) DEF address
  <2>5. current[f] = a /\ current[f] # None /\ Storing(f)
    BY <2>2, <2>4, ZenonT(60) DEF OrderInv, Storing
  <2>6. Used(f, a)
    BY ZenonT(60) DEF Evicts, Used
  <2>7. ~Due(f)
    BY <2>5, <2>6, ZenonT(60) DEF Due
  <2> QED
    BY <2>5, <2>7, ZenonT(60) DEF OrderInv
<1> QED
  BY <1>1, <1>2, OrderStep, MemoryTypeCorrect, PTL DEF MemorySpec, ReuseOnlyWhenExhausted
------------------------------------------------------------------------------
(* The cache file.                                                         *)

\* The file's two directions agree, and a pending pair has a writer: with these
\* what the reads answer can be told from the writes in flight.
FileConsistent ==
    \A f \in Families, d \in Domains :
        fileAddress[f][d] # None =>
            fileAddress[f][d] \in {f} \X Offsets /\ fileDomain[fileAddress[f][d]] = d

PendingHasWriter ==
    /\ \A a \in Addresses : saveDomain[a] # None => \E w \in writes : w.address = a
    /\ \A f \in Families, d \in Domains :
          saveAddress[f][d] # None =>
              /\ saveAddress[f][d] \in {f} \X Offsets
              /\ \E w \in writes : w.address = saveAddress[f][d] /\ w.domain = d

\* The cursor can be saved at any time.
LEMMA MetadataIsSavable == StoreTypeOK => Metadata \in SavedCursors
<1> SUFFICES ASSUME StoreTypeOK PROVE Metadata \in SavedCursors
  OBVIOUS
<1>1. range \in Ranges /\ current \in [Families -> Offsets \cup {None}]
  BY ZenonT(60) DEF StoreTypeOK
<1>2. \A f \in Families : current[f] = None \/
          (range[f] # None /\ current[f] \in FirstAddress .. range[f])
  BY ZenonT(60) DEF StoreTypeOK, Pool
<1> QED
  BY <1>1, <1>2, ZenonT(60) DEF Metadata, SavedCursors

\* The store's own state stays well-typed: a cursor that Start resumes was saved
\* with the ranges of the new configuration.
LEMMA StoreStep == TypeOK /\ [Next]_vars => StoreTypeOK'
<1> SUFFICES ASSUME TypeOK, [Next]_vars PROVE StoreTypeOK'
  OBVIOUS
<1> DEFINE Goal ==
             /\ pc' \in [Creators -> {"idle", "file", "read", "write", "store", "save", "timer"}]
             /\ request' \in [Creators -> Requests \cup {None}]
             /\ nextAddress' \in [Creators -> Int \cup {None}]
             /\ current' \in [Families -> Offsets \cup {None}]
             /\ \A f \in Families : current'[f] \in Pool(f) \/ current'[f] = None
             /\ \A c \in Creators : pc'[c] # "idle" => request'[c] \in Requests
             /\ \A c \in Creators :
                   pc'[c] \in {"write", "store"} => nextAddress'[c] \in Pool(request'[c].family)
<1>0. ASSUME range' = range, Goal PROVE StoreTypeOK'
  <2>1. \A f \in Families : Pool(f)' = Pool(f)
    BY <1>0, ZenonT(60) DEF Pool
  <2>2. \A c \in Creators : request'[c] \in Requests => request'[c].family \in Families
    BY ZenonT(60) DEF Requests
  <2> QED
    BY <1>0, <2>1, <2>2 DEF TypeOK, StoreTypeOK
<1> HIDE DEF Goal
<1>1. CASE UNCHANGED storeVars
  <2>1. range' = range /\ Goal
    BY <1>1, ZenonT(60) DEF Goal, TypeOK, StoreTypeOK, storeVars
  <2> QED
    BY <2>1, <1>0, ZenonT(60)
<1>2. ASSUME NEW c \in Creators, NEW r \in Requests, LoadPending(c, r) PROVE StoreTypeOK'
  <2>1. range' = range /\ Goal
    BY <1>2, ZenonT(60) DEF Goal, TypeOK, StoreTypeOK, LoadPending, Call
  <2> QED
    BY <2>1, <1>0, ZenonT(60)
<1>3. ASSUME NEW c \in Creators, UNCHANGED <<range, current>>, Return(c) PROVE StoreTypeOK'
  <2>1. range' = range /\ Goal
    BY <1>3, ZenonT(60) DEF Goal, TypeOK, StoreTypeOK, Return
  <2> QED
    BY <2>1, <1>0, ZenonT(60)
<1>4. ASSUME NEW c \in Creators, pc[c] # "idle", UNCHANGED <<range, current, request, nextAddress>>,
             NEW l \in {"read", "save", "timer"}, pc' = [pc EXCEPT ![c] = l]
      PROVE  StoreTypeOK'
  <2>1. range' = range /\ Goal
    BY <1>4, ZenonT(60) DEF Goal, TypeOK, StoreTypeOK
  <2> QED
    BY <2>1, <1>0, ZenonT(60)
<1>5. ASSUME NEW c \in Creators, ReadCurrent(c) PROVE StoreTypeOK'
  <2> DEFINE f == request[c].family
  <2>1. request[c] \in Requests /\ f \in Families
    BY <1>5, ZenonT(60) DEF TypeOK, StoreTypeOK, ReadCurrent, Requests
  <2>2. CASE current[f] = None
    BY <1>3, <1>5, <2>2, ZenonT(60) DEF ReadCurrent
  <2>3. CASE current[f] # None
    <3>1. Advance(f, current[f]) \in Pool(f) \cap Int
      BY <2>1, <2>3, PoolFacts, ZenonT(60) DEF TypeOK, StoreTypeOK
    <3>2. PICK x \in Pool(f) \cap Int : nextAddress' = [nextAddress EXCEPT ![c] = x]
      BY <1>5, <2>3, <3>1, ZenonT(60) DEF ReadCurrent
    <3>3. pc' = [pc EXCEPT ![c] = "write"] /\ UNCHANGED <<range, current, request>>
      BY <1>5, <2>3, ZenonT(60) DEF ReadCurrent
    <3>4. Goal
      BY <2>1, <3>2, <3>3, ZenonT(60) DEF Goal, TypeOK, StoreTypeOK
    <3> QED
      BY <3>3, <3>4, <1>0, ZenonT(60)
  <2> QED
    BY <2>2, <2>3, ZenonT(60)
<1>6. ASSUME NEW c \in Creators, WriteCurrent(c) PROVE StoreTypeOK'
  <2>1. request[c].family \in Families
    BY <1>6, ZenonT(60) DEF TypeOK, StoreTypeOK, WriteCurrent, Requests
  <2>2. range' = range /\ Goal
    BY <1>6, <2>1, PoolFacts, SMTT(30) DEF Goal, TypeOK, StoreTypeOK, WriteCurrent
  <2> QED
    BY <2>2, <1>0
<1>7. CASE Stop
  <2>1. range' = range /\ Goal
    BY <1>7, ZenonT(60) DEF Goal, TypeOK, StoreTypeOK, Stop
  <2> QED
    BY <2>1, <1>0
<1>8. ASSUME NEW r \in Ranges, Start(r) PROVE StoreTypeOK'
  <2>1. \A f \in Families : Pool(f)' = IF r[f] = None THEN {} ELSE FirstAddress .. r[f]
    BY <1>8, ZenonT(60) DEF Start, Pool
  <2>2. /\ current' \in [Families -> Offsets \cup {None}]
        /\ \A f \in Families : current'[f] = None \/
               (r[f] # None /\ current'[f] \in FirstAddress .. r[f])
    <3>1. CASE Resumes(r)
      BY <1>8, <3>1, ZenonT(60) DEF Start, Resumes, TypeOK, SavedCursors
    <3>2. CASE ~Resumes(r)
      <4>1. current' = InitialCurrent(r)
        BY <1>8, <3>2, ZenonT(60) DEF Start
      <4> QED
        BY <4>1, ConstantsAssumption DEF InitialCurrent, FirstAddress
    <3> QED
      BY <3>1, <3>2, ZenonT(60)
  <2>3. /\ range' \in Ranges
        /\ \A f \in Families : current'[f] \in Pool(f)' \/ current'[f] = None
    BY <1>8, <2>1, <2>2, ZenonT(60) DEF Start
  <2> QED
    BY <1>8, <2>2, <2>3, ZenonT(60) DEF Start, TypeOK, StoreTypeOK
<1> QED
  BY <1>1, <1>2, <1>3, <1>4, <1>5, <1>6, <1>7, <1>8, ZenonT(60)
  DEF Next, LoadFile, Allocate, FakeIPStoreAsync, FakeIPSaveMetadataAsync, MakeTimer, FakeIPStore,
      ForgetPending, TimerFires, CloseStore, vars

\* Type correctness, through crashes and restarts.
THEOREM TypeCorrect == Spec => []TypeOK
<1>1. Init => TypeOK
  <2> SUFFICES ASSUME Init PROVE TypeOK
    OBVIOUS
  <2>1. /\ current \in [Families -> Offsets \cup {None}]
        /\ \A f \in Families : current[f] \in Pool(f) \/ current[f] = None
    BY ConstantsAssumption DEF Init, StoreInit, InitialCurrent, Pool, FirstAddress
  <2> QED
    BY <2>1, ZenonT(60) DEF Init, StoreInit, TypeOK, StoreTypeOK, NoDomain, Nothing, Pairs
<1>2. TypeOK /\ [Next]_vars => TypeOK'
  <2> SUFFICES ASSUME TypeOK, [Next]_vars PROVE TypeOK'
    OBVIOUS
  <2>0. StoreTypeOK' /\ Metadata \in SavedCursors
    BY StoreStep, MetadataIsSavable, ZenonT(60) DEF TypeOK
  <2> USE DEF TypeOK, Pairs
  <2> HIDE DEF StoreTypeOK
  <2>1. ASSUME NEW c \in Creators, NEW r \in Requests, LoadPending(c, r) PROVE TypeOK'
    BY <2>0, <2>1, ZenonT(60) DEF LoadPending, Call, fileVars, pendingVars, timerVars, StoreTypeOK
  <2>2. ASSUME NEW c \in Creators, LoadFile(c) PROVE TypeOK'
    BY <2>0, <2>2, ZenonT(60) DEF LoadFile, Return, fileVars, pendingVars, timerVars, StoreTypeOK
  <2>3. ASSUME NEW c \in Creators, Allocate(c) PROVE TypeOK'
    BY <2>0, <2>3, ZenonT(60) DEF Allocate, ReadCurrent, WriteCurrent, Return, fileVars, pendingVars, timerVars,
                      StoreTypeOK
  <2>4. ASSUME NEW c \in Creators, FakeIPStoreAsync(c) PROVE TypeOK'
    <3>1. /\ request[c] \in Requests /\ request[c].family \in Families
          /\ request[c].domain \in Domains /\ address(c) \in Addresses
      BY <2>4, PoolFacts, ZenonT(60) DEF FakeIPStoreAsync, StoreTypeOK, Requests, address
    <3>2. saveDomain' \in [Addresses -> Domains \cup {None}] /\ saveAddress' \in Pairs
      BY <2>4, <3>1, ZenonT(60) DEF FakeIPStoreAsync
    <3>3. \A w \in writes' : w.address \in Addresses /\ w.domain \in Domains
      BY <2>4, <3>1, SMTT(30) DEF FakeIPStoreAsync
    <3>4. \A x \in Creators : pc'[x] = "timer" => metadata'[x] # None
      BY <2>4, ZenonT(60) DEF FakeIPStoreAsync, StoreTypeOK, timerVars
    <3> QED
      BY <2>0, <2>4, <3>2, <3>3, <3>4, ZenonT(60) DEF FakeIPStoreAsync, fileVars, timerVars, StoreTypeOK
  <2>5. ASSUME NEW w \in writes, FakeIPStore(w) PROVE TypeOK'
    <3>1. w.address \in Addresses /\ w.domain \in Domains /\ w.address[1] \in Families
      BY ZenonT(60) DEF Addresses
    <3>2. fileDomain' \in [Addresses -> Domains \cup {None}] /\ fileAddress' \in Pairs
      <4>1. CASE UNCHANGED fileVars
        BY <4>1, ZenonT(60) DEF fileVars
      <4>2. CASE ~UNCHANGED fileVars
        <5>1. fileDomain' = [fileDomain EXCEPT ![w.address] = w.domain]
          BY <2>5, <4>2, ZenonT(60) DEF FakeIPStore
        <5> DEFINE row == [d \in Domains |-> IF d = w.domain THEN w.address
                                             ELSE IF d = fileDomain[w.address] THEN None
                                             ELSE fileAddress[w.address[1]][d]]
        <5>2. fileAddress' = [fileAddress EXCEPT ![w.address[1]] = row]
          BY <2>5, <4>2, ZenonT(60) DEF FakeIPStore
        <5>3. row \in [Domains -> Addresses \cup {None}]
          BY <3>1
        <5> HIDE DEF row
        <5> QED
          BY <3>1, <5>1, <5>2, <5>3, ZenonT(60)
      <4> QED
        BY <4>1, <4>2, ZenonT(60)
    <3>3. \A x \in writes' : x.address \in Addresses /\ x.domain \in Domains
      <4> SUFFICES ASSUME NEW x \in writes', x \notin writes
                   PROVE  x.address \in Addresses /\ x.domain \in Domains
        OBVIOUS
      <4>1. x = [w EXCEPT !.stage = "forget"]
        BY <2>5, ZenonT(60) DEF FakeIPStore
      <4> QED
        BY <4>1, <3>1, SMTT(30)
    <3> QED
      BY <2>0, <2>5, <3>2, <3>3, ZenonT(60) DEF FakeIPStore, fileVars, timerVars, storeVars
  <2>6. ASSUME NEW w \in writes, ForgetPending(w) PROVE TypeOK'
    BY <2>0, <2>6, ZenonT(60) DEF ForgetPending, fileVars, timerVars, storeVars
  <2>7. ASSUME NEW c \in Creators, FakeIPSaveMetadataAsync(c) PROVE TypeOK'
    <3>1. Metadata # None
      BY <2>0, NoneIsNoMetadata, ZenonT(60) DEF SavedCursors
    <3>2. pc \in [Creators -> {"idle", "file", "read", "write", "store", "save", "timer"}]
      BY ZenonT(60) DEF StoreTypeOK
    <3>3. /\ timers' \subseteq SavedCursors
          /\ metadata' \in [Creators -> SavedCursors \cup {None}]
          /\ \A b \in Creators : pc'[b] = "timer" => metadata'[b] # None
          /\ phase' = "down" => \A b \in Creators : pc'[b] = "idle"
      <4>1. CASE saveMetadataTimer = None
        BY <2>0, <2>7, <3>1, <3>2, <4>1, ZenonT(60) DEF FakeIPSaveMetadataAsync
      <4>2. CASE saveMetadataTimer # None
        BY <2>7, <3>2, <4>2, ZenonT(60) DEF FakeIPSaveMetadataAsync, Return
      <4> QED
        BY <4>1, <4>2, ZenonT(60)
    <3> QED
      BY <2>0, <2>7, <3>3, ZenonT(60) DEF FakeIPSaveMetadataAsync, fileVars, pendingVars
  <2>8. ASSUME NEW c \in Creators, MakeTimer(c) PROVE TypeOK'
    BY <2>0, <2>8, ZenonT(60) DEF MakeTimer, Return, fileVars, pendingVars, StoreTypeOK
  <2>9. ASSUME NEW m \in timers, TimerFires(m) PROVE TypeOK'
    BY <2>0, <2>9, ZenonT(60) DEF TimerFires, FakeIPSaveMetadata, pendingVars, storeVars
  <2>10. CASE CloseStore
    BY <2>0, <2>10, ZenonT(60) DEF CloseStore, FakeIPSaveMetadata, pendingVars, timerVars, storeVars
  <2>11. CASE Stop
    BY <2>0, <2>11, ZenonT(60) DEF Stop, NoDomain, Nothing, fileVars
  <2>12. ASSUME NEW r \in Ranges, Start(r) PROVE TypeOK'
    BY <2>0, <2>12 DEF Start, FakeIPReset, NoDomain, Nothing, pendingVars, timerVars
  <2>13. CASE UNCHANGED vars
    BY <2>0, <2>13, ZenonT(60) DEF vars, storeVars, fileVars, pendingVars, timerVars
  <2> QED
    BY <2>1, <2>2, <2>3, <2>4, <2>5, <2>6, <2>7, <2>8, <2>9, <2>10, <2>11, <2>12, <2>13, ZenonT(60) DEF Next
<1> QED
  BY <1>1, <1>2, PTL DEF Spec

\* The invariant behind the refinement and the reads.
LEMMA ConsistencyStep ==
    TypeOK /\ FileConsistent /\ PendingHasWriter /\ [Next]_vars => FileConsistent' /\ PendingHasWriter'
<1> SUFFICES ASSUME TypeOK, FileConsistent, PendingHasWriter, [Next]_vars
             PROVE  FileConsistent' /\ PendingHasWriter'
  OBVIOUS
<1>1. ASSUME UNCHANGED <<fileDomain, fileAddress>> PROVE FileConsistent'
  BY <1>1, ZenonT(60) DEF FileConsistent
<1>2. ASSUME UNCHANGED pendingVars PROVE PendingHasWriter'
  BY <1>2 DEF PendingHasWriter, pendingVars
<1>3. ASSUME NEW w \in writes, FakeIPStore(w), ~UNCHANGED fileVars PROVE FileConsistent'
  <2> DEFINE a == w.address
             f == w.address[1]
             d == w.domain
  <2>1. f \in Families /\ d \in Domains /\ a \in Addresses /\ a \in {f} \X Offsets
    BY ZenonT(60) DEF TypeOK, Addresses
  <2>2. fileDomain' = [fileDomain EXCEPT ![a] = d]
    BY <1>3, ZenonT(60) DEF FakeIPStore
  <2>3. fileAddress' = [fileAddress EXCEPT
            ![f] = [e \in Domains |-> IF e = d THEN a
                                      ELSE IF e = fileDomain[a] THEN None
                                      ELSE fileAddress[f][e]]]
    BY <1>3, ZenonT(60) DEF FakeIPStore
  <2>4. \A x \in Domains : fileAddress'[f][x] = IF x = d THEN a
                                                ELSE IF x = fileDomain[a] THEN None
                                                ELSE fileAddress[f][x]
    BY <2>1, <2>3, ZenonT(60) DEF TypeOK, Pairs
  <2>5. \A g \in Families \ {f} : fileAddress'[g] = fileAddress[g]
    BY <2>1, <2>3, ZenonT(60) DEF TypeOK, Pairs
  <2> SUFFICES ASSUME NEW g \in Families, NEW e \in Domains, fileAddress'[g][e] # None
               PROVE  /\ fileAddress'[g][e] \in {g} \X Offsets
                      /\ fileDomain'[fileAddress'[g][e]] = e
    BY ZenonT(60) DEF FileConsistent
  <2>6. CASE g = f /\ e = d
    BY <2>1, <2>2, <2>4, <2>6, ZenonT(60) DEF TypeOK
  <2>7. CASE ~(g = f /\ e = d)
    <3>1. fileAddress'[g][e] = fileAddress[g][e] /\ (g = f => e # fileDomain[a])
      BY <2>4, <2>5, <2>7, ZenonT(60)
    <3>2. /\ fileAddress[g][e] \in {g} \X Offsets /\ fileAddress[g][e] \in Addresses
          /\ fileDomain[fileAddress[g][e]] = e
      BY <3>1 DEF FileConsistent, Addresses
    <3>3. fileAddress[g][e] # a
      BY <3>1, <3>2, <2>1, ZenonT(60)
    <3> HIDE DEF a
    <3> QED
      BY <3>1, <3>2, <3>3, <2>1, <2>2, ZenonT(60) DEF TypeOK
  <2> QED
    BY <2>6, <2>7, ZenonT(60)
<1>4. ASSUME NEW r \in Ranges, Start(r) PROVE FileConsistent'
  BY <1>4, SMTT(30) DEF Start, FakeIPReset, FileConsistent, Nothing
<1>5. ASSUME NEW c \in Creators, FakeIPStoreAsync(c) PROVE PendingHasWriter'
  <2> DEFINE a == address(c)
             f == request[c].family
             d == request[c].domain
  <2>1. f \in Families /\ d \in Domains /\ a \in Addresses /\ a \in {f} \X Offsets
    BY <1>5, PoolFacts, ZenonT(60) DEF FakeIPStoreAsync, TypeOK, StoreTypeOK, Requests, address, Addresses
  <2>2. \E w \in writes' : w.address = a /\ w.domain = d
    <3>1. PICK i \in FreeWriters :
              writes' = writes \cup {[writer |-> i, address |-> a, domain |-> d, stage |-> "commit"]}
      BY <1>5, ZenonT(60) DEF FakeIPStoreAsync
    <3> DEFINE write == [writer |-> i, address |-> a, domain |-> d, stage |-> "commit"]
    <3>2. write \in writes' /\ write.address = a /\ write.domain = d
      BY <3>1, ZenonT(60)
    <3> QED
      BY <3>2, ZenonT(60)
  <2>3. writes \subseteq writes'
    BY <1>5, ZenonT(60) DEF FakeIPStoreAsync
  <2>4. \A x \in Addresses : saveDomain'[x] = IF x = a THEN d ELSE saveDomain[x]
    BY <1>5, <2>1, ZenonT(60) DEF FakeIPStoreAsync, TypeOK
  <2>5. \A g \in Families, e \in Domains :
            \/ g = f /\ e = d /\ saveAddress'[g][e] = a
            \/ saveAddress'[g][e] \in {None, saveAddress[g][e]}
    BY <1>5, <2>1, ZenonT(60) DEF FakeIPStoreAsync, TypeOK, Pairs
  <2> HIDE DEF a, f, d
  <2> QED
    BY <2>1, <2>2, <2>3, <2>4, <2>5, SMTT(30) DEF PendingHasWriter
<1>6. ASSUME NEW w \in writes, FakeIPStore(w) PROVE PendingHasWriter'
  <2> DEFINE v == [w EXCEPT !.stage = "forget"]
  <2>1. v \in writes' /\ v.address = w.address /\ v.domain = w.domain
    BY <1>6 DEF FakeIPStore
  <2>2. \A x \in writes : x # w => x \in writes'
    BY <1>6, ZenonT(60) DEF FakeIPStore
  <2> HIDE DEF v
  <2>3. \A x \in writes : \E y \in writes' : y.address = x.address /\ y.domain = x.domain
    BY <2>1, <2>2, ZenonT(60)
  <2>4. UNCHANGED <<saveDomain, saveAddress>>
    BY <1>6, ZenonT(60) DEF FakeIPStore
  <2>5. \A b \in Addresses : saveDomain'[b] # None => \E y \in writes' : y.address = b
    BY <2>3, <2>4 DEF PendingHasWriter
  <2>6. \A g \in Families, e \in Domains :
          saveAddress'[g][e] # None =>
              /\ saveAddress'[g][e] \in {g} \X Offsets
              /\ \E y \in writes' : y.address = saveAddress'[g][e] /\ y.domain = e
    BY <2>3, <2>4 DEF PendingHasWriter
  <2> QED
    BY <2>5, <2>6, ZenonT(60) DEF PendingHasWriter
<1>7. ASSUME NEW w \in writes, ForgetPending(w) PROVE PendingHasWriter'
  <2>1. w.address \in Addresses /\ w.address[1] \in Families /\ w.domain \in Domains
    BY ZenonT(60) DEF TypeOK, Addresses
  <2>2. \A b \in Addresses : saveDomain'[b] = IF b = w.address THEN None ELSE saveDomain[b]
    BY <1>7, <2>1, ZenonT(60) DEF ForgetPending, TypeOK
  <2>3. \A g \in Families, e \in Domains :
            saveAddress'[g][e] = IF g = w.address[1] /\ e = w.domain THEN None ELSE saveAddress[g][e]
    BY <1>7, <2>1, ZenonT(60) DEF ForgetPending, TypeOK, Pairs
  <2>4. writes' = writes \ {w}
    BY <1>7, ZenonT(60) DEF ForgetPending
  <2>5. \A b \in Addresses : saveDomain'[b] # None => \E y \in writes' : y.address = b
    BY <2>2, <2>4 DEF PendingHasWriter
  <2>6. ASSUME NEW g \in Families, NEW e \in Domains, saveAddress'[g][e] # None
        PROVE  /\ saveAddress'[g][e] \in {g} \X Offsets
               /\ \E y \in writes' : y.address = saveAddress'[g][e] /\ y.domain = e
    <3>1. saveAddress'[g][e] = saveAddress[g][e] /\ ~(g = w.address[1] /\ e = w.domain)
      BY <2>3, <2>6, ZenonT(60)
    <3>2. PICK y \in writes : y.address = saveAddress[g][e] /\ y.domain = e
      BY <3>1, <2>6, ZenonT(60) DEF PendingHasWriter
    <3>3. saveAddress[g][e] \in {g} \X Offsets
      BY <3>1, <2>6, ZenonT(60) DEF PendingHasWriter
    <3>4. y # w
      BY <3>1, <3>2, <3>3, ZenonT(60)
    <3> QED
      BY <3>1, <3>2, <3>3, <3>4, <2>4, ZenonT(60)
  <2> QED
    BY <2>5, <2>6, ZenonT(60) DEF PendingHasWriter
<1>8. ASSUME Stop PROVE PendingHasWriter'
  BY <1>8, ZenonT(60) DEF Stop, PendingHasWriter, NoDomain, Nothing
<1>9. FileConsistent'
  BY <1>1, <1>3, <1>4, ZenonT(60) DEF Next, LoadPending, LoadFile, Allocate, FakeIPStoreAsync, FakeIPStore,
     ForgetPending, FakeIPSaveMetadataAsync, MakeTimer, TimerFires, CloseStore, Stop, vars, fileVars
<1>10. PendingHasWriter'
  BY <1>2, <1>5, <1>6, <1>7, <1>8, ZenonT(60) DEF Next, LoadPending, LoadFile, Allocate,
     FakeIPSaveMetadataAsync, MakeTimer, TimerFires, CloseStore, Start, vars
<1> QED
  BY <1>9, <1>10, ZenonT(60)

\* The file and the pending writes are consistent throughout.
LEMMA Consistent == Spec => [](TypeOK /\ FileConsistent /\ PendingHasWriter)
<1>1. Init => FileConsistent /\ PendingHasWriter
  BY DEF Init, FileConsistent, PendingHasWriter, NoDomain, Nothing
<1>2. TypeOK /\ FileConsistent /\ PendingHasWriter /\ [Next]_vars
        => FileConsistent' /\ PendingHasWriter'
  BY ConsistencyStep, ZenonT(60)
<1> QED
  BY <1>1, <1>2, TypeCorrect, PTL DEF Spec

\* Whatever crashed, failed or finished late, an address answered with no write
\* of it in flight resolves back to its domain: the answer then comes from the
\* file, whose two directions agree.
THEOREM WrittenResolvesBack == Spec => []ResolvesBackOnceWritten
<1>1. TypeOK /\ FileConsistent /\ PendingHasWriter => ResolvesBackOnceWritten
  <2> SUFFICES ASSUME TypeOK, FileConsistent, PendingHasWriter,
                      NEW f \in Families, NEW d \in Domains, FakeIPLoadDomain(f, d) # None,
                      \A w \in writes : w.address # FakeIPLoadDomain(f, d)
               PROVE  FakeIPLoad(FakeIPLoadDomain(f, d)) = d
    BY ZenonT(60) DEF ResolvesBackOnceWritten
  <2>1. saveAddress[f][d] = None
    BY SMTT(30) DEF FakeIPLoadDomain, PendingHasWriter
  <2>2. FakeIPLoadDomain(f, d) = fileAddress[f][d] /\ fileAddress[f][d] \in Addresses
    BY <2>1 DEF FakeIPLoadDomain, TypeOK, Pairs
  <2>3. saveDomain[fileAddress[f][d]] = None
    BY <2>2 DEF PendingHasWriter
  <2> QED
    BY <2>2, <2>3 DEF FakeIPLoad, FileConsistent
<1> QED
  BY <1>1, Consistent, PTL

\* The file implements the address book through crashes, failed writes and
\* restarts: a committed write is a Take, a reset a Forget, and nothing else
\* touches the pairs of the file in either direction.
THEOREM FileImplementsBook == Spec => ImplementsBook
<1>1. Init => Book!Init
  BY ZenonT(60) DEF Init, Book!Init, Nothing, NoDomain
<1>2. TypeOK /\ FileConsistent /\ [Next]_vars => [Book!Next]_(Book!bookVars)
  <2> SUFFICES ASSUME TypeOK, FileConsistent, [Next]_vars PROVE [Book!Next]_(Book!bookVars)
    OBVIOUS
  <2>1. CASE UNCHANGED <<fileAddress, fileDomain>>
    BY <2>1, ZenonT(60) DEF Book!bookVars
  <2>2. ASSUME NEW w \in writes, FakeIPStore(w), ~UNCHANGED fileVars PROVE Book!Next
    <3> DEFINE a == w.address
               f == w.address[1]
               d == w.domain
               lost == {fileDomain[a]} \cap Domains
    <3>1. f \in Families /\ d \in Domains /\ a \in Addresses
      BY ZenonT(60) DEF TypeOK, Addresses
    <3>2. {e \in Domains \ {d} : fileAddress[f][e] = a} \subseteq lost
      <4> SUFFICES ASSUME NEW e \in Domains, fileAddress[f][e] = a PROVE e = fileDomain[a]
        OBVIOUS
      <4>1. a # None
        BY <3>1, ConstantsAssumption, ZenonT(60) DEF Addresses
      <4> QED
        BY <4>1, <3>1 DEF FileConsistent
    <3>3. fileAddress' = [fileAddress EXCEPT
              ![f] = [e \in Domains |-> IF e = d THEN a
                                        ELSE IF e \in lost THEN None
                                        ELSE fileAddress[f][e]]]
      BY <2>2, ZenonT(60) DEF FakeIPStore
    <3>4. fileDomain' = [fileDomain EXCEPT ![a] = d]
      BY <2>2, ZenonT(60) DEF FakeIPStore
    <3>5. Book!Take(f, d, a, lost)
      BY <3>2, <3>3, <3>4, ZenonT(60) DEF Book!Take
    <3> QED
      BY <3>1, <3>5, ZenonT(60) DEF Book!Next
  <2>3. ASSUME NEW r \in Ranges, Start(r), ~UNCHANGED <<fileAddress, fileDomain>> PROVE Book!Next
    <3>1. Book!Forget
      <4>1. FakeIPReset
        BY <2>3, ZenonT(60) DEF Start
      <4>2. fileDomain' = NoDomain /\ fileAddress' = Nothing
        BY <2>3, <4>1, ZenonT(60) DEF FakeIPReset
      <4> QED
        BY <4>2, ZenonT(60) DEF Book!Forget, Nothing, NoDomain
    <3> QED
      BY <3>1, ZenonT(60) DEF Book!Next
  <2> QED
    BY <2>1, <2>2, <2>3, ZenonT(60) DEF Next, LoadPending, LoadFile, Allocate, FakeIPStoreAsync, FakeIPStore,
       ForgetPending, FakeIPSaveMetadataAsync, MakeTimer, TimerFires, CloseStore, Stop, vars, fileVars
<1> QED
  BY <1>1, <1>2, Consistent, PTL DEF Spec, ImplementsBook, Book!Spec
------------------------------------------------------------------------------
\* Nothing of a process outlives it but the file.
DownIsClean ==
    phase = "down" =>
        /\ writes = {} /\ timers = {} /\ saveMetadataTimer = None
        /\ \A c \in Creators : metadata[c] = None
        /\ \A a \in Addresses : handed[a] = None
        /\ \A f \in Families, d \in Domains : saveAddress[f][d] = None

\* The write of an address that is settled: the only one, for the domain that the
\* address was handed out for, which stays pending until the file has it.
HandedInv ==
    /\ handed \in [Addresses -> Domains \cup {None}]
    /\ \A a \in Addresses : handed[a] # None /\ a \notin unsettled =>
          /\ \A v, w \in writes : v.address = a /\ w.address = a => v = w
          /\ \A w \in writes : w.address = a =>
                /\ w.domain = handed[a] /\ saveDomain[a] = handed[a]
                /\ w.stage = "forget" => fileDomain[a] = handed[a]
          /\ (\A w \in writes : w.address # a) => fileDomain[a] = handed[a]

InRange(a) == a[2] \in Pool(a[1])

\* What was saved was saved with the present ranges, and addresses lie in them or
\* were left by a reset that failed.
RangeInv ==
    /\ \A m \in timers \cup {fileMetadata, saveMetadataTimer} \cup {metadata[c] : c \in Creators} :
          m # None => m.range = range
    /\ \A w \in writes : InRange(w.address)
    /\ \A f \in Families, d \in Domains :
          /\ saveAddress[f][d] # None => InRange(saveAddress[f][d])
          /\ fileAddress[f][d] # None => InRange(fileAddress[f][d]) \/ fileAddress[f][d] \in left

\* The cursor that counts as saved is the one in the file.
CursorInv == cursorSaved => fileMetadata = Metadata

\* A stopped process leaves nothing in memory.
LEMMA CleanStep == TypeOK /\ DownIsClean /\ [Next]_vars => DownIsClean'
<1> SUFFICES ASSUME TypeOK, DownIsClean, [Next]_vars, phase' = "down" PROVE DownIsClean'
  BY ZenonT(60) DEF DownIsClean
<1>1. CASE phase = "down"
  <2>1. \A c \in Creators : pc[c] = "idle"
    BY <1>1, ZenonT(60) DEF TypeOK
  <2>2. UNCHANGED <<writes, timers, saveMetadataTimer, metadata, handed, saveAddress>>
    BY <1>1, <2>1, ZenonT(60) DEF DownIsClean, Next, LoadPending, LoadFile, Allocate, ReadCurrent, WriteCurrent,
       FakeIPStoreAsync, FakeIPSaveMetadataAsync, MakeTimer, TimerFires, CloseStore, Stop, Start, vars,
       pendingVars, timerVars, historyVars
  <2> QED
    BY <1>1, <2>2, ZenonT(60) DEF DownIsClean
<1>2. CASE phase # "down"
  <2>1. Stop
    BY <1>2, ZenonT(60) DEF Next, LoadPending, LoadFile, Allocate, FakeIPStoreAsync, FakeIPStore, ForgetPending,
       FakeIPSaveMetadataAsync, MakeTimer, TimerFires, CloseStore, Start, vars
  <2> QED
    BY <2>1, ZenonT(60) DEF Stop, DownIsClean, NoDomain, Nothing
<1> QED
  BY <1>1, <1>2, ZenonT(60)

\* The saved cursor changes only with the pool's position.
LEMMA CursorStep == TypeOK /\ CursorInv /\ [Next]_vars => CursorInv'
<1> SUFFICES ASSUME TypeOK, CursorInv, [Next]_vars, cursorSaved' PROVE fileMetadata' = Metadata'
  BY ZenonT(60) DEF CursorInv
<1>1. ASSUME UNCHANGED <<range, current, fileMetadata>>, cursorSaved PROVE fileMetadata' = Metadata'
  BY <1>1, ZenonT(60) DEF CursorInv, Metadata
<1>2. ASSUME NEW m, FakeIPSaveMetadata(m), UNCHANGED <<range, current>> PROVE fileMetadata' = Metadata'
  BY <1>2, <1>1, ZenonT(60) DEF FakeIPSaveMetadata, Metadata
<1>3. ASSUME NEW c \in Creators, Allocate(c) PROVE fileMetadata' = Metadata'
  BY <1>3, <1>1, ZenonT(60) DEF Allocate, ReadCurrent, WriteCurrent, fileVars
<1> QED
  BY <1>1, <1>2, <1>3, ZenonT(60) DEF Next, LoadPending, Call, LoadFile, FakeIPStoreAsync, FakeIPStore, ForgetPending,
     FakeIPSaveMetadataAsync, MakeTimer, TimerFires, CloseStore, Stop, Start, vars, storeVars, fileVars,
     historyVars

\* An address that is handed out stays with its domain, in memory or in the file.
LEMMA HandedStep ==
    TypeOK /\ PendingHasWriter /\ DownIsClean /\ HandedInv /\ [Next]_vars => HandedInv'
<1> SUFFICES ASSUME TypeOK, PendingHasWriter, DownIsClean, HandedInv, [Next]_vars PROVE HandedInv'
  OBVIOUS
<1>1. ASSUME UNCHANGED <<handed, unsettled, writes, saveDomain, fileDomain>> PROVE HandedInv'
  BY <1>1, ZenonT(60) DEF HandedInv
<1>2. ASSUME NEW c \in Creators, FakeIPStoreAsync(c) PROVE HandedInv'
  <2> DEFINE a == address(c)
             d == request[c].domain
  <2>1. a \in Addresses /\ d \in Domains
    BY <1>2, PoolFacts, ZenonT(60) DEF FakeIPStoreAsync, TypeOK, StoreTypeOK, Requests, address
  <2>4. PICK i \in FreeWriters :
            writes' = writes \cup {[writer |-> i, address |-> a, domain |-> d, stage |-> "commit"]}
    BY <1>2, ZenonT(60) DEF FakeIPStoreAsync
  <2> DEFINE write == [writer |-> i, address |-> a, domain |-> d, stage |-> "commit"]
  <2>2. write.address = a /\ write.domain = d /\ write.stage # "forget"
    OBVIOUS
  <2>3. /\ writes' = writes \cup {write}
        /\ handed' = [handed EXCEPT ![a] = d]
        /\ saveDomain' = [saveDomain EXCEPT ![a] = d]
        /\ unsettled' = IF \E w \in writes : w.address = a THEN unsettled \cup {a} ELSE unsettled
        /\ fileDomain' = fileDomain
    BY <1>2, <2>4, ZenonT(60) DEF FakeIPStoreAsync, fileVars
  <2> HIDE DEF a, d, write
  <2> QED
    BY <2>1, <2>2, <2>3 DEF HandedInv, TypeOK
<1>3. ASSUME NEW w \in writes, FakeIPStore(w) PROVE HandedInv'
  <2> DEFINE v == [w EXCEPT !.stage = "forget"]
  <2>1. w.address \in Addresses /\ w.domain \in Domains
    BY ZenonT(60) DEF TypeOK
  <2>2. v.address = w.address /\ v.domain = w.domain
    OBVIOUS
  <2>3. /\ writes' = (writes \ {w}) \cup {v}
        /\ UNCHANGED <<handed, saveDomain>>
        /\ \/ fileDomain' = [fileDomain EXCEPT ![w.address] = w.domain] /\ unsettled' = unsettled
           \/ unsettled' = unsettled \cup {w.address} /\ fileDomain' = fileDomain
    BY <1>3, ZenonT(60) DEF FakeIPStore, fileVars
  <2> HIDE DEF v
  <2> QED
    BY <2>1, <2>2, <2>3, SMTT(30) DEF HandedInv, TypeOK
<1>4. ASSUME NEW w \in writes, ForgetPending(w) PROVE HandedInv'
  BY <1>4, SMTT(30) DEF ForgetPending, fileVars, historyVars, HandedInv, TypeOK
<1>5. ASSUME Stop \/ \E r \in Ranges : Start(r) PROVE HandedInv'
  BY <1>5, ZenonT(60) DEF Stop, Start, HandedInv, DownIsClean, NoDomain
<1> QED
  BY <1>1, <1>2, <1>3, <1>4, <1>5, ZenonT(60) DEF Next, LoadPending, LoadFile, Allocate, FakeIPSaveMetadataAsync,
     MakeTimer, TimerFires, CloseStore, vars, fileVars, pendingVars, historyVars

\* A change of the ranges empties the file before an address of the old one is read.
LEMMA RangeStep ==
    TypeOK /\ DownIsClean /\ RangeInv /\ [Next]_vars => RangeInv'
<1> SUFFICES ASSUME TypeOK, DownIsClean, RangeInv, [Next]_vars PROVE RangeInv'
  OBVIOUS
<1> DEFINE Saved == timers \cup {fileMetadata, saveMetadataTimer} \cup {metadata[c] : c \in Creators}
           SavedInv == \A m \in Saved : m # None => m.range = range
           WriteInv == \A w \in writes : InRange(w.address)
           PendingInv == \A f \in Families, d \in Domains :
                             saveAddress[f][d] # None => InRange(saveAddress[f][d])
           FileInv == \A f \in Families, d \in Domains :
                          fileAddress[f][d] # None =>
                              InRange(fileAddress[f][d]) \/ fileAddress[f][d] \in left
<1>0. RangeInv <=> SavedInv /\ WriteInv /\ PendingInv /\ FileInv
  BY ZenonT(60) DEF RangeInv
<1>1. RangeInv' <=> SavedInv' /\ WriteInv' /\ PendingInv' /\ FileInv'
  BY ZenonT(60) DEF RangeInv
<1>2. range' = range \/ \E r \in Ranges : Start(r)
  BY ZenonT(60) DEF Next, LoadPending, Call, LoadFile, Allocate, ReadCurrent, WriteCurrent, FakeIPStoreAsync,
     FakeIPStore, ForgetPending, FakeIPSaveMetadataAsync, MakeTimer, TimerFires, CloseStore, Stop,
     vars, storeVars
<1>3. ASSUME range' = range PROVE \A a : InRange(a)' = InRange(a)
  BY <1>3, ZenonT(60) DEF InRange, Pool
<1>4. ASSUME NEW r \in Ranges, Start(r) PROVE SavedInv' /\ WriteInv' /\ PendingInv' /\ FileInv'
  <2>1. phase = "down"
    BY <1>4, ZenonT(60) DEF Start
  <2>2. SavedInv'
    BY <1>4, <2>1, ZenonT(60) DEF Start, DownIsClean, timerVars, TypeOK
  <2>3. WriteInv' /\ PendingInv'
    BY <1>4, <2>1, ZenonT(60) DEF Start, DownIsClean, pendingVars
  <2>4. FileInv'
    <3>1. CASE Resumes(r)
      <4>1. range' = range
        BY <1>0, <1>4, <3>1, ZenonT(60) DEF Start, Resumes
      <4>2. UNCHANGED <<fileAddress, left>>
        BY <1>4, <3>1, ZenonT(60) DEF Start
      <4> QED
        BY <1>0, <1>3, <4>1, <4>2, ZenonT(60)
    <3>2. CASE ~Resumes(r)
      <4>1. FakeIPReset
        BY <1>4, <3>2, ZenonT(60) DEF Start
      <4>2. CASE {"address"} \cup Families \subseteq buckets
        <5>1. \A f \in Families, d \in Domains : fileAddress'[f][d] = None
          BY <4>1, <4>2, ZenonT(60) DEF FakeIPReset, Nothing
        <5> QED
          BY <5>1, ZenonT(60)
      <4>3. CASE ~({"address"} \cup Families \subseteq buckets)
        <5>1. /\ fileAddress' = fileAddress
              /\ left' = {a \in Addresses : \E f \in Families, d \in Domains : fileAddress[f][d] = a}
          BY <4>1, <4>3, ZenonT(60) DEF FakeIPReset
        <5>2. ASSUME NEW f \in Families, NEW d \in Domains, fileAddress'[f][d] # None
              PROVE  fileAddress'[f][d] \in left'
          <6>1. fileAddress[f][d] \in Addresses \cup {None}
            BY ZenonT(60) DEF TypeOK, Pairs
          <6> QED
            BY <5>1, <5>2, <6>1, ZenonT(60)
        <5> QED
          BY <5>2, ZenonT(60)
      <4> QED
        BY <4>2, <4>3, ZenonT(60)
    <3> QED
      BY <3>1, <3>2, ZenonT(60)
  <2> QED
    BY <2>2, <2>3, <2>4, ZenonT(60)
<1>5. ASSUME range' = range PROVE SavedInv'
  <2>1. Saved' \subseteq Saved \cup {Metadata, None}
    <3>1. CASE UNCHANGED <<timerVars, fileMetadata>>
      BY <3>1, ZenonT(60) DEF timerVars
    <3>2. ASSUME NEW c \in Creators, FakeIPSaveMetadataAsync(c) PROVE Saved' \subseteq Saved \cup {Metadata, None}
      BY <3>2, ZenonT(60) DEF FakeIPSaveMetadataAsync, TypeOK, fileVars
    <3>3. ASSUME NEW c \in Creators, MakeTimer(c) PROVE Saved' \subseteq Saved \cup {Metadata, None}
      BY <3>3, ZenonT(60) DEF MakeTimer, TypeOK, fileVars
    <3>4. ASSUME NEW m \in timers, TimerFires(m) PROVE Saved' \subseteq Saved \cup {Metadata, None}
      BY <3>4, ZenonT(60) DEF TimerFires, FakeIPSaveMetadata
    <3>5. CASE CloseStore
      BY <3>5, ZenonT(60) DEF CloseStore, FakeIPSaveMetadata, timerVars
    <3>6. CASE Stop
      BY <3>6, ZenonT(60) DEF Stop, fileVars
    <3>7. ASSUME NEW r \in Ranges, Start(r) PROVE Saved' \subseteq Saved \cup {Metadata, None}
      BY <3>7, ZenonT(60) DEF Start, timerVars
    <3> QED
      BY <3>1, <3>2, <3>3, <3>4, <3>5, <3>6, <3>7, ZenonT(60) DEF Next, LoadPending, LoadFile, Allocate,
         FakeIPStoreAsync, FakeIPStore, ForgetPending, vars, fileVars
  <2>2. Metadata.range = range
    BY ZenonT(60) DEF Metadata
  <2> HIDE DEF Saved
  <2> QED
    BY <1>0, <1>5, <2>1, <2>2, ZenonT(60)
<1>6. ASSUME range' = range PROVE WriteInv' /\ PendingInv' /\ FileInv'
  <2> USE <1>0, <1>3, <1>6
  <2>1. CASE UNCHANGED <<pendingVars, fileAddress, left>>
    BY <2>1, ZenonT(60) DEF pendingVars
  <2>2. ASSUME NEW c \in Creators, FakeIPStoreAsync(c) PROVE WriteInv' /\ PendingInv' /\ FileInv'
    <3> DEFINE a == address(c)
    <3>1. request[c].family \in Families /\ request[c].domain \in Domains /\ InRange(a)
      BY <2>2, ZenonT(60) DEF FakeIPStoreAsync, TypeOK, StoreTypeOK, Requests, address, InRange
    <3>2. WriteInv'
      <4>0. PICK i \in FreeWriters :
                writes' = writes \cup {[writer |-> i, address |-> a, domain |-> request[c].domain,
                                        stage |-> "commit"]}
        BY <2>2, ZenonT(60) DEF FakeIPStoreAsync
      <4> DEFINE write == [writer |-> i, address |-> a, domain |-> request[c].domain, stage |-> "commit"]
      <4>1. writes' = writes \cup {write} /\ write.address = a
        BY <4>0, ZenonT(60)
      <4> HIDE DEF write, a
      <4> QED
        BY <3>1, <4>1, ZenonT(60)
    <3>3. \A g \in Families, e \in Domains : saveAddress'[g][e] \in {None, a, saveAddress[g][e]}
      BY <2>2, <3>1, ZenonT(60) DEF FakeIPStoreAsync, TypeOK, Pairs
    <3>4. UNCHANGED <<fileAddress, left>>
      BY <2>2, ZenonT(60) DEF FakeIPStoreAsync, fileVars
    <3> HIDE DEF a
    <3>5. PendingInv'
      <4>1. SUFFICES ASSUME NEW g \in Families, NEW e \in Domains, saveAddress'[g][e] # None
                     PROVE  InRange(saveAddress'[g][e])
        BY ZenonT(60)
      <4>2. CASE saveAddress'[g][e] = a
        BY <3>1, <4>2, ZenonT(60)
      <4>3. CASE saveAddress'[g][e] = saveAddress[g][e]
        BY <4>1, <4>3, ZenonT(60)
      <4> QED
        BY <3>3, <4>1, <4>2, <4>3, ZenonT(60)
    <3> QED
      BY <3>2, <3>4, <3>5, ZenonT(60)
  <2>3. ASSUME NEW w \in writes, FakeIPStore(w) PROVE WriteInv' /\ PendingInv' /\ FileInv'
    <3>1. w.address[1] \in Families /\ w.domain \in Domains /\ InRange(w.address)
      BY ZenonT(60) DEF TypeOK, Addresses
    <3>2. WriteInv'
      <4> DEFINE v == [w EXCEPT !.stage = "forget"]
      <4>1. writes' = (writes \ {w}) \cup {v} /\ v.address = w.address
        BY <2>3 DEF FakeIPStore
      <4> HIDE DEF v
      <4> QED
        BY <3>1, <4>1, ZenonT(60)
    <3>3. UNCHANGED <<saveAddress, left>>
      BY <2>3, ZenonT(60) DEF FakeIPStore
    <3>4. CASE UNCHANGED fileVars
      BY <3>2, <3>3, <3>4, ZenonT(60) DEF fileVars
    <3>5. CASE ~UNCHANGED fileVars
      <4>1. fileAddress' = [fileAddress EXCEPT
                 ![w.address[1]] = [e \in Domains |-> IF e = w.domain THEN w.address
                                                      ELSE IF e = fileDomain[w.address] THEN None
                                                      ELSE fileAddress[w.address[1]][e]]]
        BY <2>3, <3>5, ZenonT(60) DEF FakeIPStore
      <4>2. \A g \in Families, e \in Domains :
                fileAddress'[g][e] \in {None, w.address, fileAddress[g][e]}
        BY <3>1, <4>1, ZenonT(60) DEF TypeOK, Pairs
      <4>3. PendingInv'
        BY <3>3, ZenonT(60)
      <4>4. ASSUME NEW g \in Families, NEW e \in Domains, fileAddress'[g][e] # None
            PROVE  InRange(fileAddress'[g][e]) \/ fileAddress'[g][e] \in left
        <5>1. CASE fileAddress'[g][e] = w.address
          BY <3>1, <5>1, ZenonT(60)
        <5>2. CASE fileAddress'[g][e] = fileAddress[g][e]
          BY <4>4, <5>2, ZenonT(60)
        <5> QED
          BY <4>2, <4>4, <5>1, <5>2, ZenonT(60)
      <4>5. FileInv'
        BY <3>3, <4>4, ZenonT(60)
      <4> QED
        BY <3>2, <4>3, <4>5, ZenonT(60)
    <3> QED
      BY <3>4, <3>5, ZenonT(60)
  <2>4. ASSUME NEW w \in writes, ForgetPending(w) PROVE WriteInv' /\ PendingInv' /\ FileInv'
    <3>1. \A g \in Families, e \in Domains : saveAddress'[g][e] \in {None, saveAddress[g][e]}
      BY <2>4, ZenonT(60) DEF ForgetPending, TypeOK, Pairs
    <3>2. writes' \subseteq writes /\ UNCHANGED <<fileAddress, left>>
      BY <2>4, ZenonT(60) DEF ForgetPending, fileVars, historyVars
    <3>3. WriteInv'
      BY <3>2, ZenonT(60)
    <3>4. PendingInv'
      <4>1. SUFFICES ASSUME NEW g \in Families, NEW e \in Domains, saveAddress'[g][e] # None
                     PROVE  InRange(saveAddress'[g][e])
        BY ZenonT(60)
      <4>2. saveAddress'[g][e] = saveAddress[g][e]
        BY <3>1, <4>1, ZenonT(60)
      <4> QED
        BY <4>1, <4>2, ZenonT(60)
    <3>5. FileInv'
      BY <3>2, ZenonT(60)
    <3> QED
      BY <3>3, <3>4, <3>5, ZenonT(60)
  <2>5. ASSUME FakeIPSaveMetadata(Metadata) \/ \E m \in timers : FakeIPSaveMetadata(m),
               UNCHANGED <<pendingVars, fileAddress, left>>
        PROVE  WriteInv' /\ PendingInv' /\ FileInv'
    BY <2>5, ZenonT(60) DEF FakeIPSaveMetadata, pendingVars
  <2>6. CASE Stop
    BY <2>6, ZenonT(60) DEF Stop, Nothing, fileVars
  <2>7. ASSUME NEW r \in Ranges, Start(r) PROVE WriteInv' /\ PendingInv' /\ FileInv'
    BY <1>4, <2>7, ZenonT(60)
  <2> HIDE DEF WriteInv, PendingInv, FileInv
  <2> QED
    BY <2>1, <2>2, <2>3, <2>4, <2>5, <2>6, <2>7, ZenonT(60) DEF Next, LoadPending, LoadFile, Allocate,
       FakeIPSaveMetadataAsync, MakeTimer, TimerFires, CloseStore, vars, fileVars, historyVars
<1> HIDE DEF SavedInv, WriteInv, PendingInv, FileInv
<1> QED
  BY <1>1, <1>2, <1>4, <1>5, <1>6, ZenonT(60)

\* What the theorems below need holds throughout.
LEMMA Durable ==
    Spec => [](TypeOK /\ PendingHasWriter /\ DownIsClean /\ HandedInv /\ RangeInv /\ CursorInv)
<1>1. Init => DownIsClean /\ HandedInv /\ RangeInv /\ CursorInv
  <2> SUFFICES ASSUME Init PROVE DownIsClean /\ HandedInv /\ RangeInv /\ CursorInv
    OBVIOUS
  <2>1. DownIsClean /\ CursorInv
    BY ZenonT(60) DEF Init, DownIsClean, CursorInv
  <2>2. HandedInv
    BY ZenonT(60) DEF Init, HandedInv, NoDomain
  <2>3. RangeInv
    BY ZenonT(60) DEF Init, RangeInv, Nothing
  <2> QED
    BY <2>1, <2>2, <2>3, ZenonT(60)
<1> QED
  BY <1>1, Consistent, CleanStep, HandedStep, RangeStep, CursorStep, PTL DEF Spec

\* Whatever crashes and restarts came before, an address handed out in this process
\* resolves to the domain it was last handed out for, at every moment of the write
\* behind it.
THEOREM HandedResolve == Spec => []HandedOutResolves
<1>1. TypeOK /\ PendingHasWriter /\ HandedInv => HandedOutResolves
  BY DEF HandedOutResolves, HandedInv, PendingHasWriter, FakeIPLoad
<1> QED
  BY <1>1, Durable, PTL

\* Whatever restarts with other ranges came before, an answered address lies in
\* the present ranges or is one that the last reset, which failed, left.
THEOREM AnswersStayInRange == Spec => []AnswersInRange
<1>1. TypeOK /\ FileConsistent /\ PendingHasWriter /\ RangeInv => AnswersInRange
  <2> SUFFICES ASSUME TypeOK, FileConsistent, PendingHasWriter, RangeInv,
                      NEW f \in Families, NEW d \in Domains, FakeIPLoadDomain(f, d) # None
               PROVE  FakeIPLoadDomain(f, d) \in ({f} \X Pool(f)) \cup left
    BY ZenonT(60) DEF AnswersInRange
  <2> DEFINE a == FakeIPLoadDomain(f, d)
  <2>1. a \in {f} \X Offsets
    BY ZenonT(60) DEF FakeIPLoadDomain, FileConsistent, PendingHasWriter
  <2>2. InRange(a) \/ a \in left
    BY ZenonT(60) DEF FakeIPLoadDomain, RangeInv
  <2> HIDE DEF a
  <2> QED
    BY <2>1, <2>2, ZenonT(60) DEF InRange, a
<1> QED
  BY <1>1, Durable, Consistent, PTL

\* The cursor that Store.Close saved survives to the next start with the same
\* ranges.
THEOREM CursorSurvives == Spec => CursorSurvivesCleanStop
<1>1. TypeOK /\ CursorInv /\ [Next]_vars =>
        [phase = "down" /\ phase' = "running" /\ cursorSaved /\ range' = range
            => current' = current]_vars
  <2> SUFFICES ASSUME TypeOK, CursorInv, Next, phase = "down", phase' = "running", cursorSaved,
                      range' = range
               PROVE  current' = current
    OBVIOUS
  <2>1. PICK r \in Ranges : Start(r)
    BY ZenonT(60) DEF Next, LoadPending, LoadFile, Allocate, FakeIPStoreAsync, FakeIPStore, ForgetPending,
       FakeIPSaveMetadataAsync, MakeTimer, TimerFires, CloseStore, Stop
  <2>2. Metadata # None
    BY MetadataIsSavable, NoneIsNoMetadata, ZenonT(60) DEF TypeOK, SavedCursors
  <2>3. Resumes(r)
    BY <2>1, <2>2 DEF Resumes, Start, CursorInv, Metadata
  <2> QED
    BY <2>1, <2>3 DEF Start, CursorInv, Metadata
<1> QED
  BY <1>1, Durable, PTL DEF Spec, CursorSurvivesCleanStop
==============================================================================
