--------------------------- MODULE FakeIPCacheFile ---------------------------
(***************************************************************************)
(* The fake-IP pool over the cache file, store_fakeip:                     *)
(* core/experimental/cachefile/fakeip.go.                                  *)
(*                                                                         *)
(* FakeIPStoreAsync puts the pair in maps of pending pairs and starts a    *)
(* goroutine that writes it to the file in one transaction and then drops  *)
(* the pending pair; the goroutines of several pairs finish in any order.  *)
(* A read asks the pending maps first and the file second.  The cursor is  *)
(* saved by a timer and by Store.Close.  The process may stop at any point *)
(* and start again, with the same or with other ranges.                    *)
(***************************************************************************)
EXTENDS FakeIPStore

CONSTANTS Writers,     \* goroutines of FakeIPStoreAsync; bound: writes in flight
          MaxCalls,    \* bound: calls of Create not answered from the pending maps
          MaxStarts    \* bound: starts of the process

ASSUME NoneIsNoMetadata == None \notin [range : Ranges, current : [Families -> Offsets \cup {None}]]

VARIABLES phase,         \* "running", "closed" (Store.Close has returned) or "down"
          starts,        \* number of starts
          calls,         \* number of those calls
          fileDomain,    \* bucket fakeip_address
          fileAddress,   \* buckets fakeip_domain4, fakeip_domain6
          buckets,       \* the buckets that exist
          fileMetadata,  \* key fakeip_metadata
          saveDomain,    \* CacheFile.saveDomain
          saveAddress,   \* CacheFile.saveAddress4, saveAddress6
          writes,        \* goroutines of FakeIPStoreAsync
          saveMetadataTimer,  \* the metadata the timer's function holds, None before it exists
          timers,        \* metadata of the armed timers
          metadata,      \* FakeIPSaveMetadataAsync's argument
          handed,        \* history: the domain each address was last stored for in this process
          unsettled,     \* history: addresses with two writes at once or a write that failed
          cursorSaved,   \* history: nothing has moved or overwritten the cursor since Close
          left           \* history: addresses that a failed FakeIPReset left in the file

fileVars == <<fileDomain, fileAddress, buckets, fileMetadata>>
pendingVars == <<saveDomain, saveAddress, writes>>
timerVars == <<saveMetadataTimer, timers, metadata>>
historyVars == <<handed, unsettled, cursorSaved, left>>
vars == <<storeVars, phase, starts, calls, fileVars, pendingVars, timerVars, historyVars>>

Nothing == [f \in Families |-> [d \in Domains |-> None]]

NoDomain == [a \in Addresses |-> None]

Metadata == [range |-> range, current |-> current]

\* The first start finds an empty file.
Init ==
    /\ StoreInit
    /\ phase = "running" /\ starts = 1 /\ calls = 0
    /\ fileDomain = NoDomain /\ fileAddress = Nothing
    /\ buckets = {} /\ fileMetadata = None
    /\ saveDomain = NoDomain /\ saveAddress = Nothing /\ writes = {}
    /\ saveMetadataTimer = None /\ timers = {} /\ metadata = [c \in Creators |-> None]
    /\ handed = NoDomain /\ unsettled = {}
    /\ cursorSaved = FALSE /\ left = {}

\* FakeIPLoad's and FakeIPLoadDomain's answers when nothing intervenes
\* between the look at the pending maps and the look at the file.
FakeIPLoad(a) == IF saveDomain[a] # None THEN saveDomain[a] ELSE fileDomain[a]

FakeIPLoadDomain(f, d) == IF saveAddress[f][d] # None THEN saveAddress[f][d] ELSE fileAddress[f][d]

\* FakeIPLoadDomain looks at the pending maps under the read lock.  Inbounds and
\* connections are closed before the store, so that no call comes after Close.
\* A domain found there is answered, and nothing changes.
LoadPending(c, r) ==
    /\ phase = "running"
    /\ saveAddress[r.family][r.domain] = None
    /\ Call(c, r, FALSE, "file")
    /\ calls < MaxCalls /\ calls' = calls + 1
    /\ UNCHANGED <<phase, starts, fileVars, pendingVars, timerVars, historyVars>>

\* ... and, not having found the domain there, at the file.
LoadFile(c) ==
    /\ pc[c] = "file"
    /\ IF fileAddress[request[c].family][request[c].domain] # None
       THEN Return(c)
       ELSE pc' = [pc EXCEPT ![c] = "read"] /\ UNCHANGED <<request, nextAddress>>
    /\ UNCHANGED <<range, current, phase, starts, calls,
                   fileVars, pendingVars, timerVars, historyVars>>

Allocate(c) ==
    /\ ReadCurrent(c) \/ WriteCurrent(c)
    /\ cursorSaved' = (cursorSaved /\ current' = current)
    /\ UNCHANGED <<phase, starts, calls, fileVars, pendingVars, timerVars,
                   handed, unsettled, left>>

\* A goroutine that is not in the middle of a write stands for a new one.
FreeWriters == Writers \ {w.writer : w \in writes}

\* Mutant: only the domain's pending address is noted.
FakeIPStoreAsyncHalf(c) ==
    LET a == address(c)
        domain == request[c].domain
    IN
    /\ pc[c] = "store"
    /\ pc' = [pc EXCEPT ![c] = "save"]
    /\ saveAddress' = [saveAddress EXCEPT ![request[c].family][domain] = a]
    /\ \E i \in FreeWriters :
           writes' = writes \cup {[writer |-> i, address |-> a, domain |-> domain, stage |-> "commit"]}
    /\ handed' = [handed EXCEPT ![a] = domain]
    /\ unsettled' = IF \E w \in writes : w.address = a THEN unsettled \cup {a} ELSE unsettled
    /\ UNCHANGED <<range, current, request, nextAddress, phase, starts, calls, fileVars,
                   saveDomain, timerVars, cursorSaved, left>>

\* FakeIPStoreAsync up to the start of the goroutine: the pending domain of the
\* address loses it.  Several goroutines may write one pair.
FakeIPStoreAsync(c) ==
    LET f == request[c].family
        a == address(c)
        domain == request[c].domain
    IN
    /\ pc[c] = "store"
    /\ pc' = [pc EXCEPT ![c] = "save"]
    /\ saveAddress' = [saveAddress EXCEPT
           ![f] = [d \in Domains |-> IF d = domain THEN a
                                     ELSE IF d = saveDomain[a] THEN None
                                     ELSE saveAddress[f][d]]]
    /\ saveDomain' = [saveDomain EXCEPT ![a] = domain]
    /\ \E i \in FreeWriters :
           writes' = writes \cup {[writer |-> i, address |-> a, domain |-> domain, stage |-> "commit"]}
    /\ handed' = [handed EXCEPT ![a] = domain]
    /\ unsettled' = IF \E w \in writes : w.address = a THEN unsettled \cup {a} ELSE unsettled
    /\ UNCHANGED <<range, current, request, nextAddress, phase, starts, calls, fileVars,
                   timerVars, cursorSaved, left>>

\* Mutant: the domain that held the address keeps it.
FakeIPStoreKeeping(w) ==
    /\ w.stage = "commit"
    /\ fileDomain' = [fileDomain EXCEPT ![w.address] = w.domain]
    /\ fileAddress' = [fileAddress EXCEPT ![w.address[1]][w.domain] = w.address]
    /\ buckets' = buckets \cup {"address", w.address[1]}
    /\ writes' = (writes \ {w}) \cup {[w EXCEPT !.stage = "forget"]}
    /\ UNCHANGED <<storeVars, phase, starts, calls, fileMetadata, saveDomain, saveAddress,
                   timerVars, historyVars>>

\* CacheFile.FakeIPStore, one transaction: the domain that held the address
\* in the file loses it.  A failed transaction leaves the file as it was.
FakeIPStore(w) ==
    LET a == w.address
        f == a[1]
        oldDomain == fileDomain[a]
    IN
    /\ w.stage = "commit"
    /\ \/ /\ fileDomain' = [fileDomain EXCEPT ![a] = w.domain]
          /\ fileAddress' = [fileAddress EXCEPT
                 ![f] = [d \in Domains |-> IF d = w.domain THEN a
                                           ELSE IF d = oldDomain THEN None
                                           ELSE fileAddress[f][d]]]
          /\ buckets' = buckets \cup {"address", f}
          /\ UNCHANGED <<fileMetadata, unsettled>>
       \/ /\ unsettled' = unsettled \cup {a}
          /\ UNCHANGED fileVars
    /\ writes' = (writes \ {w}) \cup {[w EXCEPT !.stage = "forget"]}
    /\ UNCHANGED <<storeVars, phase, starts, calls, saveDomain, saveAddress, timerVars,
                   handed, cursorSaved, left>>

\* Mutant: the domain's pending address stays.
ForgetPendingDomain(w) ==
    /\ w.stage = "forget"
    /\ saveDomain' = [saveDomain EXCEPT ![w.address] = None]
    /\ writes' = writes \ {w}
    /\ UNCHANGED <<storeVars, phase, starts, calls, fileVars, saveAddress, timerVars, historyVars>>

\* The goroutine drops the pending pair, whoever put the entries there.
ForgetPending(w) ==
    /\ w.stage = "forget"
    /\ saveDomain' = [saveDomain EXCEPT ![w.address] = None]
    /\ saveAddress' = [saveAddress EXCEPT ![w.address[1]][w.domain] = None]
    /\ writes' = writes \ {w}
    /\ UNCHANGED <<storeVars, phase, starts, calls, fileVars, timerVars, historyVars>>

\* FakeIPSaveMetadataAsync: an existing timer is set again; its function holds
\* the metadata it was made with.  The field is not locked.
FakeIPSaveMetadataAsync(c) ==
    /\ pc[c] = "save"
    /\ \/ /\ saveMetadataTimer = None
          /\ metadata' = [metadata EXCEPT ![c] = Metadata]
          /\ pc' = [pc EXCEPT ![c] = "timer"]
          /\ UNCHANGED <<timers, request, nextAddress>>
       \/ /\ saveMetadataTimer # None
          /\ timers' = timers \cup {saveMetadataTimer}
          /\ Return(c)
          /\ UNCHANGED metadata
    /\ UNCHANGED <<range, current, phase, starts, calls,
                   fileVars, pendingVars, saveMetadataTimer, historyVars>>

MakeTimer(c) ==
    /\ pc[c] = "timer"
    /\ saveMetadataTimer' = metadata[c]
    /\ timers' = timers \cup {metadata[c]}
    /\ metadata' = [metadata EXCEPT ![c] = None]
    /\ Return(c)
    /\ UNCHANGED <<range, current, phase, starts, calls,
                   fileVars, pendingVars, historyVars>>

\* FakeIPSaveMetadata(m); a failed transaction leaves the file as it was.
FakeIPSaveMetadata(m) ==
    \/ /\ fileMetadata' = m
       /\ buckets' = buckets \cup {"address"}
       /\ cursorSaved' = (m = Metadata /\ (phase = "closed" => cursorSaved))
    \/ /\ cursorSaved' = (phase = "closed" /\ cursorSaved)
       /\ UNCHANGED <<fileMetadata, buckets>>

TimerFires(m) ==
    /\ phase # "down"
    /\ FakeIPSaveMetadata(m)
    /\ timers' = timers \ {m}
    /\ UNCHANGED <<storeVars, phase, starts, calls, fileDomain, fileAddress, pendingVars,
                   saveMetadataTimer, metadata, handed, unsettled, left>>

\* Store.Close; the timer is not stopped and exchanges may still be running.
CloseStore ==
    /\ phase = "running"
    /\ phase' = "closed"
    /\ FakeIPSaveMetadata(Metadata)
    /\ UNCHANGED <<storeVars, starts, calls, fileDomain, fileAddress, pendingVars, timerVars,
                   handed, unsettled, left>>

\* The database is closed after Store.Close, or the process dies at any time:
\* only the file is left.
Stop ==
    /\ phase # "down"
    /\ phase' = "down"
    /\ cursorSaved' = (phase = "closed" /\ cursorSaved)
    /\ pc' = [c \in Creators |-> "idle"]
    /\ request' = [c \in Creators |-> None]
    /\ nextAddress' = [c \in Creators |-> None]
    /\ saveDomain' = NoDomain /\ saveAddress' = Nothing /\ writes' = {}
    /\ saveMetadataTimer' = None /\ timers' = {} /\ metadata' = [c \in Creators |-> None]
    /\ handed' = NoDomain /\ unsettled' = {}
    /\ UNCHANGED <<range, current, starts, calls, fileVars, left>>

\* Mutant: the metadata is deleted before it is read.
ResumesNever(r) == FALSE

\* Start resumes the cursor of the same ranges.
Resumes(r) == fileMetadata # None /\ fileMetadata.range = r

\* Mutant: the pairs of the old ranges are kept.
FakeIPResetNothing == UNCHANGED <<fileDomain, fileAddress, buckets, left>>

\* FakeIPReset deletes the three buckets or, when one is missing, none; Start
\* drops the error.
FakeIPReset ==
    IF {"address"} \cup Families \subseteq buckets
    THEN /\ fileDomain' = NoDomain /\ fileAddress' = Nothing /\ buckets' = {}
         /\ left' = {}
    ELSE /\ left' = {a \in Addresses : \E f \in Families, d \in Domains : fileAddress[f][d] = a}
         /\ UNCHANGED <<fileDomain, fileAddress, buckets>>

\* Store.Start with the ranges r; FakeIPMetadata takes the metadata out of the file.
Start(r) ==
    /\ phase = "down" /\ starts < MaxStarts
    /\ phase' = "running" /\ starts' = starts + 1
    /\ range' = r
    /\ fileMetadata' = None
    /\ IF Resumes(r)
       THEN /\ current' = fileMetadata.current
            /\ UNCHANGED <<fileDomain, fileAddress, buckets, left>>
       ELSE /\ current' = InitialCurrent(r)
            /\ FakeIPReset
    /\ cursorSaved' = FALSE
    /\ UNCHANGED <<pc, request, nextAddress, calls, pendingVars, timerVars,
                   handed, unsettled>>

Next ==
    \/ \E c \in Creators :
           \/ \E r \in Requests : LoadPending(c, r)
           \/ LoadFile(c)
           \/ Allocate(c)
           \/ FakeIPStoreAsync(c)
           \/ FakeIPSaveMetadataAsync(c)
           \/ MakeTimer(c)
    \/ \E w \in writes : FakeIPStore(w) \/ ForgetPending(w)
    \/ \E m \in timers : TimerFires(m)
    \/ CloseStore
    \/ Stop
    \/ \E r \in Ranges : Start(r)

Spec == Init /\ [][Next]_vars
------------------------------------------------------------------------------
\* A cursor that was saved, with the ranges it belongs to.
SavedCursors ==
    {m \in [range : Ranges, current : [Families -> Offsets \cup {None}]] :
        \A f \in Families : m.current[f] = None \/
            (m.range[f] # None /\ m.current[f] \in FirstAddress .. m.range[f])}

Pairs == [Families -> [Domains -> Addresses \cup {None}]]

\* Type correctness: the file and the pending maps hold pairs of one family,
\* a cursor that was saved lies in the ranges saved with it, and no exchange
\* survives the process.
TypeOK ==
    /\ StoreTypeOK
    /\ fileDomain \in [Addresses -> Domains \cup {None}]
    /\ saveDomain \in [Addresses -> Domains \cup {None}]
    /\ fileAddress \in Pairs /\ saveAddress \in Pairs
    /\ \A w \in writes : w.address \in Addresses /\ w.domain \in Domains
    /\ fileMetadata \in SavedCursors \cup {None}
    /\ saveMetadataTimer \in SavedCursors \cup {None}
    /\ timers \subseteq SavedCursors
    /\ metadata \in [Creators -> SavedCursors \cup {None}]
    /\ \A c \in Creators : pc[c] = "timer" => metadata[c] # None
    /\ phase = "down" => \A c \in Creators : pc[c] = "idle"

\* Through crashes, failed writes and writes that finish out of order, the file
\* keeps the promises of an address book: each write is one transaction, and a
\* restart either keeps the pairs or forgets all of them.
Book == INSTANCE AddressBook WITH book <- fileAddress, owner <- fileDomain

ImplementsBook == Book!Spec

\* An address FakeIPLoadDomain answers, with no write of that address still in
\* flight, resolves back to the domain through FakeIPLoad.
ResolvesBackOnceWritten ==
    \A f \in Families, d \in Domains :
        LET a == FakeIPLoadDomain(f, d) IN
        a # None /\ (\A w \in writes : w.address # a) => FakeIPLoad(a) = d

\* An address handed out in this process resolves to the domain it was last
\* handed out for, at every moment of the write behind it, unless a write of the
\* address failed or the address was handed out again with its write in flight.
HandedOutResolves ==
    \A a \in Addresses : handed[a] # None /\ a \notin unsettled => FakeIPLoad(a) = handed[a]

\* Whatever an earlier configuration wrote, a domain is answered with an address
\* outside the ranges of the running one only when the last FakeIPReset failed
\* and left that very address in the file.
AnswersInRange ==
    phase # "down" =>
        \A f \in Families, d \in Domains :
            FakeIPLoadDomain(f, d) # None => FakeIPLoadDomain(f, d) \in ({f} \X Pool(f)) \cup left

\* A start with the ranges of the last run resumes the cursor Store.Close saved,
\* unless an exchange moved it or the timer overwrote it after that.
CursorSurvivesCleanStop ==
    [][phase = "down" /\ phase' = "running" /\ cursorSaved /\ range' = range
          => current' = current]_vars
==============================================================================
