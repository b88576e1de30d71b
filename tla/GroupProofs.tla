------------------------------ MODULE GroupProofs ------------------------------
(***************************************************************************)
(* The two groups: the URL-test group for any number of outbounds, loops   *)
(* and connections, any delays and any tolerance; then the selector for    *)
(* any number of handlers, outbounds and connections.                      *)
(***************************************************************************)
EXTENDS Selector, URLTest, FiniteSetTheorems, WellFoundedInduction, TLAPS

\* A set of naturals has a least element.
LEMMA Least ==
    ASSUME NEW T \in SUBSET Nat, T # {}
    PROVE  \E x \in T : \A y \in T : x <= y
<1> DEFINE R == OpToRel(<, Nat)
<1>1. IsWellFoundedOn(R, Nat)
    BY NatLessThanWellFounded, ZenonT(60)
<1> HIDE DEF R
<1>2. PICK x \in T : \A y \in T : <<y, x>> \notin R
    BY <1>1, WFMin, ZenonT(60)
<1>3. \A y \in T : ~(y < x)
    BY <1>2, ZenonT(60) DEF R, OpToRel
<1> QED
    BY <1>3

\* Induction over the naturals, for a set.
LEMMA Induction ==
    ASSUME NEW T \in SUBSET Nat, 0 \in T, \A k \in T : k + 1 \in T
    PROVE  T = Nat
<1> SUFFICES ASSUME Nat \ T # {} PROVE FALSE
    BY ZenonT(60)
<1>1. PICK x \in Nat \ T : \A y \in Nat \ T : x <= y
    <2> DEFINE U == Nat \ T
    <2>1. U \in SUBSET Nat /\ U # {}
        OBVIOUS
    <2> HIDE DEF U
    <2>2. \E x \in U : \A y \in U : x <= y
        BY <2>1, Least, ZenonT(60)
    <2> QED
        BY <2>2, ZenonT(60) DEF U
<1>2. x # 0 /\ x - 1 \in Nat /\ (x - 1) + 1 = x
    OBVIOUS
<1>3. x - 1 \in T
    BY <1>1, <1>2
<1> QED
    BY <1>2, <1>3, ZenonT(60)

\* The function that Scan defines by recursion exists, so it satisfies its
\* equation.
LEMMA ScanUnfolds ==
    ASSUME NEW n
    PROVE  Scan(n) = [i \in 0 .. Len(Outbounds) |->
                        IF i = 0 THEN StartFrom(n) ELSE Better(Outbounds[i], n, Scan(n)[i - 1])]
<1> DEFINE P(f, k) == f = [i \in 0 .. k |->
                             IF i = 0 THEN StartFrom(n) ELSE Better(Outbounds[i], n, f[i - 1])]
           T == {k \in Nat : \E f : P(f, k)}
<1>1. 0 \in T
    <2> DEFINE f == [i \in 0 .. 0 |-> StartFrom(n)]
    <2>1. P(f, 0)
        OBVIOUS
    <2> QED
        BY <2>1, ZenonT(60)
<1>2. ASSUME NEW k \in T PROVE k + 1 \in T
    <2>1. PICK f : P(f, k)
        OBVIOUS
    <2> DEFINE new == Better(Outbounds[k + 1], n, f[k])
               g == [i \in 0 .. k + 1 |-> IF i = k + 1 THEN new ELSE f[i]]
               h == [i \in 0 .. k + 1 |->
                        IF i = 0 THEN StartFrom(n) ELSE Better(Outbounds[i], n, g[i - 1])]
    <2>2. k \in Nat
        OBVIOUS
    <2>3. \A i \in 0 .. k : g[i] = f[i]
        BY <2>2
    <2>4. ASSUME NEW i \in 0 .. k + 1 PROVE g[i] = h[i]
        <3>1. CASE i = 0
            BY <2>1, <2>2, <3>1
        <3>2. CASE i \in 1 .. k
            <4>1. f[i] = Better(Outbounds[i], n, f[i - 1])
                BY <2>1, <2>2, <3>2
            <4>2. g[i] = f[i] /\ g[i - 1] = f[i - 1] /\ i # 0
                BY <2>2, <2>3, <3>2
            <4> HIDE DEF g
            <4> QED
                BY <4>1, <4>2, ZenonT(60)
        <3>3. CASE i = k + 1
            <4>1. g[i] = new /\ g[i - 1] = f[k] /\ i # 0
                BY <2>2, <2>3, <3>3
            <4> HIDE DEF g
            <4> QED
                BY <3>3, <4>1, ZenonT(60)
        <3> QED
            BY <2>2, <3>1, <3>2, <3>3
    <2>5. g = h
        BY <2>4, ZenonT(60)
    <2>6. P(g, k + 1)
        BY <2>5, ZenonT(60)
    <2> HIDE DEF P, g
    <2> QED
        BY <2>2, <2>6
<1> HIDE DEF P
<1>3. T = Nat
    <2> HIDE DEF T
    <2>1. T \in SUBSET Nat
        BY ZenonT(60) DEF T
    <2> QED
        BY <1>1, <1>2, <2>1, Induction, ZenonT(60)
<1>4. \E f : P(f, Len(Outbounds))
    BY <1>3, ConstantsAssumption
<1>5. Scan(n) = CHOOSE f : P(f, Len(Outbounds))
    BY ZenonT(60) DEF Scan, P
<1>6. P(Scan(n), Len(Outbounds))
    BY <1>4, <1>5, ZenonT(60)
<1> QED
    BY <1>6, ZenonT(60) DEF P

--------------------------------------------------------------------------------
(* The choice of an outbound.                                              *)

\* The history holds delays, and an outbound is selected for a network that it
\* supports.
ChoiceTyped ==
    /\ history \in [Reals -> Delays \cup {None}]
    /\ selectedOutbound \in [Networks -> Tags \cup {None}]
    /\ \A n \in Networks : selectedOutbound[n] # None => n \in Supports[selectedOutbound[n]]

NoneYet == [outbound |-> None, delay |-> 0]

\* What the scan holds: nothing yet, or a measured outbound with its delay.
Holds(n, b) == b = NoneYet \/ \E o \in Measured(n) : b = [outbound |-> o, delay |-> Delay(o)]

\* The tags are those of the list's places.
LEMMA TagsListed ==
    /\ \A i \in 1 .. Len(Outbounds) : Outbounds[i] \in Tags
    /\ \A o \in Tags : \E i \in 1 .. Len(Outbounds) : o = Outbounds[i]
BY ConstantsAssumption DEF Tags, Range

\* The scan starts from nothing, or from the selected outbound.
LEMMA StartHolds ==
    ASSUME ChoiceTyped, NEW n \in Networks
    PROVE  /\ Holds(n, StartFrom(n))
           /\ selectedOutbound[n] \in Measured(n) =>
                  StartFrom(n) = [outbound |-> selectedOutbound[n], delay |-> Delay(selectedOutbound[n])]
<1>1. CASE selectedOutbound[n] # None /\ history[RealTag[selectedOutbound[n]]] # None
    <2>1. selectedOutbound[n] \in Measured(n)
        BY <1>1, ZenonT(60) DEF ChoiceTyped, Measured
    <2>2. StartFrom(n) = [outbound |-> selectedOutbound[n], delay |-> Delay(selectedOutbound[n])]
        BY <1>1, ZenonT(60) DEF StartFrom, Delay
    <2> QED
        BY <2>1, <2>2, ZenonT(60) DEF Holds
<1>2. CASE ~(selectedOutbound[n] # None /\ history[RealTag[selectedOutbound[n]]] # None)
    <2>1. selectedOutbound[n] \notin Measured(n)
        BY <1>2, ConstantsAssumption, ZenonT(60) DEF Measured
    <2>2. StartFrom(n) = NoneYet
        BY <1>2, ZenonT(60) DEF StartFrom, NoneYet
    <2> QED
        BY <2>1, <2>2, ZenonT(60) DEF Holds
<1> QED
    BY <1>1, <1>2, ZenonT(60)

\* A turn of the scan keeps what it holds, or takes the outbound it is at.
LEMMA BetterHolds ==
    ASSUME NEW n \in Networks, NEW o \in Tags, NEW b
    PROVE  IF o \in Measured(n) /\ Replaces(Delay(o), b.delay)
           THEN Better(o, n, b) = [outbound |-> o, delay |-> Delay(o)]
           ELSE Better(o, n, b) = b
BY ZenonT(60) DEF Better, Measured, Delay

\* After every turn the scan holds nothing, or a measured outbound.
LEMMA ScanHolds ==
    ASSUME ChoiceTyped, NEW n \in Networks
    PROVE  \A i \in 0 .. Len(Outbounds) : Holds(n, Scan(n)[i])
<1> DEFINE T == {i \in Nat : i <= Len(Outbounds) => Holds(n, Scan(n)[i])}
<1>0. Len(Outbounds) \in Nat
    BY ConstantsAssumption
<1>1. 0 \in T
    <2>1. Scan(n)[0] = StartFrom(n)
        BY <1>0, ScanUnfolds, SMTT(30)
    <2> QED
        BY <2>1, StartHolds, ZenonT(60)
<1>2. ASSUME NEW k \in T PROVE k + 1 \in T
    <2> SUFFICES ASSUME k + 1 <= Len(Outbounds) PROVE Holds(n, Scan(n)[k + 1])
        OBVIOUS
    <2>1. Holds(n, Scan(n)[k])
        BY <1>0
    <2>2. Scan(n)[k + 1] = Better(Outbounds[k + 1], n, Scan(n)[k])
        BY <1>0, ScanUnfolds
    <2>3. Outbounds[k + 1] \in Tags
        BY <1>0, TagsListed
    <2> QED
        BY <2>1, <2>2, <2>3, BetterHolds DEF Holds
<1>3. T = Nat
    <2>1. T \in SUBSET Nat
        OBVIOUS
    <2> HIDE DEF T
    <2> QED
        BY <1>1, <1>2, <2>1, Induction, ZenonT(60)
<1> QED
    BY <1>0, <1>3

\* Select answers with an outbound that supports the network, if there is one.
LEMMA SelectSupports ==
    ASSUME ChoiceTyped, NEW n \in Networks
    PROVE  LET s == Select(n).outbound
           IN  s # None => s \in Tags /\ n \in Supports[s]
<1> DEFINE b == Scan(n)[Len(Outbounds)]
<1>0. Len(Outbounds) \in Nat
    BY ConstantsAssumption
<1>1. Holds(n, b)
    BY <1>0, ScanHolds
<1>2. CASE b.outbound # None
    <2>1. b.outbound \in Tags /\ n \in Supports[b.outbound]
        <3> HIDE DEF b
        <3> QED
            BY <1>1, <1>2 DEF Holds, Measured, NoneYet
    <2>2. Select(n).outbound = b.outbound
        BY <1>2, ZenonT(60) DEF Select
    <2> QED
        BY <2>1, <2>2, ZenonT(60)
<1>3. CASE b.outbound = None
    <2>1. Select(n).outbound = FirstSupporting(n)
        BY <1>3, ZenonT(60) DEF Select
    <2> DEFINE supporting == {i \in 1 .. Len(Outbounds) : n \in Supports[Outbounds[i]]}
    <2>2. CASE supporting = {}
        BY <2>1, <2>2, ZenonT(60) DEF FirstSupporting
    <2>3. CASE supporting # {}
        <3>1. \E i \in supporting : \A j \in supporting : i <= j
            <4>1. supporting \in SUBSET Nat
                BY <1>0
            <4> HIDE DEF supporting
            <4> QED
                BY <2>3, <4>1, Least, ZenonT(60)
        <3>2. FirstSupporting(n) = Outbounds[CHOOSE i \in supporting : \A j \in supporting : i <= j]
            BY <2>3, ZenonT(60) DEF FirstSupporting
        <3>3. \E i \in supporting : FirstSupporting(n) = Outbounds[i]
            <4> HIDE DEF supporting
            <4> QED
                BY <3>1, <3>2, ZenonT(60)
        <3> QED
            BY <2>1, <3>3, TagsListed, ZenonT(60)
    <2> QED
        BY <2>2, <2>3, ZenonT(60)
<1> QED
    BY <1>2, <1>3, ZenonT(60)

\* After i turns: the outbound held is within the tolerance of those passed, and
\* it is the selected one or faster by more than that.
Within(n, i) ==
    LET b == Scan(n)[i] IN
    /\ \A j \in 1 .. i : Outbounds[j] \in Measured(n) =>
           b # NoneYet /\ b.delay <= Delay(Outbounds[j]) + Tolerance
    /\ selectedOutbound[n] \in Measured(n) =>
           /\ b # NoneYet
           /\ b.outbound = selectedOutbound[n] \/ b.delay + Tolerance < Delay(selectedOutbound[n])

\* Without wrapping, one turn of the scan keeps it within the tolerance.
LEMMA WithinStep ==
    ASSUME ChoiceTyped, NEW n \in Networks, Regular(n),
           NEW k \in Nat, k + 1 <= Len(Outbounds), Within(n, k)
    PROVE  Within(n, k + 1)
<1> DEFINE b == Scan(n)[k]
           c == Scan(n)[k + 1]
           o == Outbounds[k + 1]
<1>0. Len(Outbounds) \in Nat
    BY ConstantsAssumption
<1>1. c = Better(o, n, b)
    BY <1>0, ScanUnfolds
<1>2. o \in Tags
    BY <1>0, TagsListed
<1>3. Holds(n, b)
    BY <1>0, ScanHolds
<1>4. \A p \in Measured(n) : /\ Delay(p) \in Nat \ {0}
                             /\ (Delay(p) + Tolerance) % 2^Width = Delay(p) + Tolerance
    <2> SUFFICES ASSUME NEW p \in Measured(n)
                 PROVE  /\ Delay(p) \in Nat \ {0}
                        /\ (Delay(p) + Tolerance) % 2^Width = Delay(p) + Tolerance
        OBVIOUS
    <2>1. RealTag[p] \in Reals /\ history[RealTag[p]] # None
        BY ZenonT(60) DEF Measured, Reals
    <2>2. Delay(p) \in Nat
        BY <2>1, ConstantsAssumption, ZenonT(60) DEF ChoiceTyped, Delay
    <2>3. Delay(p) > 0 /\ Delay(p) + Tolerance < 2^Width
        BY ZenonT(60) DEF Regular
    <2>4. PICK y, m : y = Delay(p) + Tolerance /\ m = 2^Width
        BY ZenonT(60)
    <2>5. y \in Nat /\ m \in Nat \ {0} /\ y < m
        BY <2>2, <2>3, <2>4, ConstantsAssumption
    <2>6. y % m = y
        BY <2>5, SMTT(30)
    <2> QED
        BY <2>2, <2>3, <2>4, <2>6
<1>5. b = NoneYet => b.delay = 0
    BY DEF NoneYet
<1>6. b # NoneYet => b.delay \in Nat \ {0}
    <2> HIDE DEF b
    <2> QED
        BY <1>3, <1>4 DEF Holds
<1>7. /\ \A j \in 1 .. k : Outbounds[j] \in Measured(n) =>
             b # NoneYet /\ b.delay <= Delay(Outbounds[j]) + Tolerance
      /\ selectedOutbound[n] \in Measured(n) =>
             /\ b # NoneYet
             /\ b.outbound = selectedOutbound[n] \/ b.delay + Tolerance < Delay(selectedOutbound[n])
    BY ZenonT(60) DEF Within
<1>8. b # NoneYet /\ b.outbound = selectedOutbound[n] => b.delay = Delay(selectedOutbound[n])
    <2> HIDE DEF b
    <2> QED
        BY <1>3, ConstantsAssumption DEF Holds
<1>9. Tolerance \in Nat
    BY ConstantsAssumption, ZenonT(60)
<1>10. CASE o \in Measured(n) /\ Replaces(Delay(o), b.delay)
    <2>1. c = [outbound |-> o, delay |-> Delay(o)]
        BY <1>1, <1>2, <1>10, BetterHolds, ZenonT(60)
    <2>2. b = NoneYet \/ b.delay > Delay(o) + Tolerance
        BY <1>4, <1>6, <1>10, ZenonT(60) DEF Replaces
    <2>3. c # NoneYet /\ c.delay = Delay(o) /\ c.outbound = o
        BY <1>4, <1>10, <2>1 DEF NoneYet
    <2>4. \A j \in 1 .. k + 1 : Outbounds[j] \in Measured(n) =>
              c # NoneYet /\ c.delay <= Delay(Outbounds[j]) + Tolerance
        <3> SUFFICES ASSUME NEW j \in 1 .. k + 1, Outbounds[j] \in Measured(n)
                     PROVE  Delay(o) <= Delay(Outbounds[j]) + Tolerance
            BY <2>3, ZenonT(60)
        <3>1. CASE j = k + 1
            BY <1>4, <1>9, <1>10, <3>1
        <3>2. CASE j \in 1 .. k
            <4> HIDE DEF b, o
            <4>1. b # NoneYet /\ b.delay <= Delay(Outbounds[j]) + Tolerance /\ b.delay > Delay(o) + Tolerance
                BY <1>7, <2>2, <3>2, ZenonT(60)
            <4>2. b.delay \in Nat /\ Delay(o) \in Nat /\ Delay(Outbounds[j]) \in Nat
                BY <1>4, <1>6, <1>10, <4>1, ZenonT(60)
            <4> QED
                BY <1>9, <4>1, <4>2
        <3> QED
            BY <3>1, <3>2
    <2>5. selectedOutbound[n] \in Measured(n) => c.delay + Tolerance < Delay(selectedOutbound[n])
        <3> HIDE DEF b, c, o
        <3>1. SUFFICES ASSUME selectedOutbound[n] \in Measured(n)
                       PROVE  Delay(o) + Tolerance < Delay(selectedOutbound[n])
            BY <2>3, ZenonT(60)
        <3>2. Delay(o) \in Nat /\ Delay(selectedOutbound[n]) \in Nat
            BY <1>4, <1>10, <3>1, ZenonT(60)
        <3>3. b # NoneYet /\ b.delay \in Nat /\ b.delay > Delay(o) + Tolerance
            BY <1>6, <1>7, <2>2, <3>1, ZenonT(60)
        <3>4. b.delay = Delay(selectedOutbound[n]) \/ b.delay + Tolerance < Delay(selectedOutbound[n])
            BY <1>7, <1>8, <3>1, ZenonT(60)
        <3> QED
            BY <1>9, <3>2, <3>3, <3>4
    <2> QED
        BY <2>3, <2>4, <2>5, ZenonT(60) DEF Within
<1>11. CASE ~(o \in Measured(n) /\ Replaces(Delay(o), b.delay))
    <2>1. c = b
        BY <1>1, <1>2, <1>11, BetterHolds, SMTT(30)
    <2>2. o \in Measured(n) => b # NoneYet /\ b.delay <= Delay(o) + Tolerance
        <3> HIDE DEF b, o
        <3> QED
            <4> SUFFICES ASSUME o \in Measured(n) PROVE b # NoneYet /\ b.delay <= Delay(o) + Tolerance
                BY ZenonT(60)
            <4>1. Delay(o) \in Nat /\ (Delay(o) + Tolerance) % 2^Width = Delay(o) + Tolerance
                BY <1>4, ZenonT(60)
            <4>2. b.delay # 0 /\ ~(b.delay > Delay(o) + Tolerance)
                BY <1>11, <4>1, ZenonT(60) DEF Replaces
            <4>3. Delay(o) \in Nat /\ b # NoneYet /\ b.delay \in Nat
                BY <1>5, <1>6, <4>1, <4>2, ZenonT(60)
            <4> QED
                BY <1>9, <4>2, <4>3
    <2>3. \A j \in 1 .. k + 1 : Outbounds[j] \in Measured(n) =>
              b # NoneYet /\ b.delay <= Delay(Outbounds[j]) + Tolerance
        BY <1>7, <2>2, SMTT(30)
    <2> QED
        BY <1>7, <2>1, <2>3, ZenonT(60) DEF Within
<1> QED
    BY <1>10, <1>11, ZenonT(60)

\* So the whole scan is within the tolerance.
LEMMA ScanWithin ==
    ASSUME ChoiceTyped, NEW n \in Networks, Regular(n)
    PROVE  Within(n, Len(Outbounds))
<1> DEFINE T == {i \in Nat : i <= Len(Outbounds) => Within(n, i)}
<1>0. Len(Outbounds) \in Nat
    BY ConstantsAssumption, SMTT(30)
<1>1. 0 \in T
    <2>1. Scan(n)[0] = StartFrom(n)
        BY <1>0, ScanUnfolds, SMTT(30)
    <2>2. selectedOutbound[n] \in Measured(n) =>
              Scan(n)[0] # NoneYet /\ Scan(n)[0].outbound = selectedOutbound[n]
        BY <2>1, StartHolds, ConstantsAssumption DEF NoneYet, Measured
    <2> QED
        BY <2>2 DEF Within
<1>2. ASSUME NEW k \in T PROVE k + 1 \in T
    BY <1>0, WithinStep
<1>3. T = Nat
    <2>1. T \in SUBSET Nat
        OBVIOUS
    <2> HIDE DEF T
    <2> QED
        BY <1>1, <1>2, <2>1, Induction, ZenonT(60)
<1> QED
    BY <1>0, <1>3

\* Select's answer is the best one up to the tolerance, whatever was measured.
LEMMA SelectWithin ==
    ASSUME ChoiceTyped
    PROVE  SelectWithinTolerance
<1> SUFFICES ASSUME NEW n \in Networks, Regular(n), Measured(n) # {}
             PROVE  LET s == Select(n).outbound IN
                    /\ s \in Measured(n)
                    /\ \A o \in Measured(n) : Delay(s) <= Delay(o) + Tolerance
                    /\ selectedOutbound[n] \in Measured(n) \ {s} =>
                           Delay(s) + Tolerance < Delay(selectedOutbound[n])
    BY ZenonT(60) DEF SelectWithinTolerance
<1> DEFINE b == Scan(n)[Len(Outbounds)]
<1>0. Len(Outbounds) \in Nat
    BY ConstantsAssumption
<1>1. Within(n, Len(Outbounds))
    BY ScanWithin, ZenonT(60)
<1>2. \A o \in Measured(n) : b # NoneYet /\ b.delay <= Delay(o) + Tolerance
    BY <1>1, TagsListed, ZenonT(60) DEF Within, Measured
<1>3. PICK s \in Measured(n) : b = [outbound |-> s, delay |-> Delay(s)]
    BY <1>0, <1>2, ScanHolds DEF Holds
<1>4. s # None
    BY ConstantsAssumption, ZenonT(60) DEF Measured
<1>5. Select(n).outbound = s
    BY <1>3, <1>4, SMTT(30) DEF Select
<1>6. selectedOutbound[n] \in Measured(n) \ {s} => b.delay + Tolerance < Delay(selectedOutbound[n])
    BY <1>1, <1>3, SMTT(30) DEF Within
<1> QED
    BY <1>2, <1>3, <1>5, <1>6, SMTT(30)

\* Tests write delays, and performUpdateCheck writes what Select answers.
LEMMA ChoiceStep == ChoiceTyped /\ [Next]_vars => ChoiceTyped'
<1> SUFFICES ASSUME ChoiceTyped, [Next]_vars PROVE ChoiceTyped'
    OBVIOUS
<1>1. ASSUME NEW c \in Conns, DialReturns(c) PROVE ChoiceTyped'
    BY <1>1 DEF DialReturns, ChoiceTyped
<1>2. ASSUME NEW r \in Reals, TestReturns(r) PROVE ChoiceTyped'
    BY <1>2, ZenonT(60) DEF TestReturns, ChoiceTyped
<1>3. ASSUME NEW n \in Networks, NEW next, Update(n, next) PROVE ChoiceTyped'
    <2> DEFINE s == Select(n).outbound
    <2>1. s # None => s \in Tags /\ n \in Supports[s]
        BY SelectSupports, ZenonT(60)
    <2>2. /\ history' = history
          /\ selectedOutbound' = selectedOutbound \/ (s # None /\ selectedOutbound' = [selectedOutbound EXCEPT ![n] = s])
        BY <1>3, ZenonT(60) DEF Update
    <2> HIDE DEF s
    <2> QED
        BY <2>1, <2>2, ZenonT(60) DEF ChoiceTyped
<1>4. CASE UNCHANGED <<history, selectedOutbound>>
    BY <1>4, ZenonT(60) DEF ChoiceTyped
<1>5. CASE UpdateTCP \/ UpdateUDP
    BY <1>3, <1>5, ZenonT(60) DEF UpdateTCP, UpdateUDP, Networks
<1> QED
    BY <1>1, <1>2, <1>4, <1>5, ZenonT(60)
       DEF Next, PostStart, Dial, CloseConn, Close, TimePasses, LoopStep, LoopBegin, LoopWakes,
           LoopStops, UrlTest, CheckOutbounds, TestStep, Finish, vars

\* In every state Select's answer is at most the tolerance slower than the fastest
\* outbound, and leaves the selected one only for one faster by more than that.
THEOREM ChoosesWithinTolerance == Spec => []SelectWithinTolerance
<1>1. Init => ChoiceTyped
    BY ZenonT(60) DEF Init, ChoiceTyped
<1>2. ChoiceTyped => SelectWithinTolerance
    BY SelectWithin, ZenonT(60)
<1> QED
    BY <1>1, <1>2, ChoiceStep, PTL DEF Spec
--------------------------------------------------------------------------------
(* The loop and its ticker.                                                *)

LoopStates == {"off", "begin", "wait", "check", "test", "stop"}

\* Where goroutines are: a loop waits for a test exactly when it is the one that
\* the running test belongs to.
LoopsTyped ==
    /\ loop \in [Loops -> LoopStates]
    /\ \A l \in Loops : loop[l] = "test" <=> checking = l

\* Closing the channel stops the ticker, and only a late Touch makes another.
LoopInv ==
    /\ \A l, m \in Alive : l = m
    /\ Alive # {} => ticker # None
    /\ closeChan => closed
    /\ closeChan /\ ~lateTouch => ticker # "running"
    /\ ticker = "running" /\ ~lateTouch => Alive # {} /\ pauseCallback

\* The loops, the ticker and the test have their types.
LEMMA LoopsTypedStep == LoopsTyped /\ [Next]_vars => LoopsTyped'
<1> SUFFICES ASSUME LoopsTyped, [Next]_vars PROVE LoopsTyped'
    OBVIOUS
<1> USE DEF LoopsTyped, LoopStates
<1>1. ASSUME NEW c \in Conns, NEW n \in Networks, Dial(c, n) PROVE LoopsTyped'
    <2>1. checking' = checking /\ (loop' = loop \/ Start)
        BY <1>1, ZenonT(60) DEF Dial, Touch, loopVars, testVars
    <2>2. CASE Start
        <3>1. PICK l \in Loops : loop[l] = "off" /\ loop' = [loop EXCEPT ![l] = "begin"]
            BY <2>2, ZenonT(60) DEF Start
        <3> QED
            BY <2>1, <3>1, ZenonT(60)
    <2> QED
        BY <2>1, <2>2, ZenonT(60)
<1>2. ASSUME NEW l \in Loops, LoopBegin(l) \/ LoopWakes(l) \/ LoopStops(l) PROVE LoopsTyped'
    <2>1. checking' = checking /\ loop[l] \notin {"off", "test"}
        BY <1>2, ZenonT(60) DEF LoopBegin, LoopWakes, LoopStops, testVars
    <2>2. PICK s \in LoopStates \ {"test"} : loop' = [loop EXCEPT ![l] = s]
        BY <1>2, ZenonT(60) DEF LoopBegin, LoopWakes, LoopStops, GoTo
    <2> QED
        BY <2>1, <2>2, ZenonT(60)
<1>3. ASSUME NEW l \in Loops, loop[l] = "check", UrlTest(l, FALSE) PROVE LoopsTyped'
    BY <1>3, ConstantsAssumption, ZenonT(60) DEF UrlTest, Resume
<1>4. ASSUME NEW force \in BOOLEAN, UrlTest("other", force) PROVE LoopsTyped'
    BY <1>4, ConstantsAssumption, ZenonT(60) DEF UrlTest, Resume
<1>5. CASE Finish
    BY <1>5, ConstantsAssumption, ZenonT(60) DEF Finish, Resume
<1>6. CASE UNCHANGED <<loop, checking>>
    BY <1>6, ZenonT(60)
<1> QED
    BY <1>1, <1>2, <1>3, <1>4, <1>5, <1>6, ZenonT(60)
       DEF Next, PostStart, DialReturns, CloseConn, Close, TimePasses, LoopStep, CheckOutbounds,
           TestStep, TestReturns, UpdateTCP, UpdateUDP, Update, vars, loopVars, testVars

\* A test leaves the same loops alive, and ends with them waiting.
LEMMA TestKeepsLoops ==
    ASSUME LoopsTyped,
           \/ \E l \in Loops : loop[l] = "check" /\ UrlTest(l, FALSE)
           \/ \E force \in BOOLEAN : UrlTest("other", force)
           \/ Finish
    PROVE  /\ Alive' = Alive
           /\ UNCHANGED <<ticker, pauseCallback, closeChan, closed, lateTouch>>
<1> USE DEF LoopsTyped, LoopStates, Alive
<1>1. ASSUME NEW l \in Loops, loop[l] = "check", UrlTest(l, FALSE) PROVE Alive' = Alive
    BY <1>1, ZenonT(60) DEF UrlTest, Resume
<1>2. ASSUME NEW force \in BOOLEAN, UrlTest("other", force) PROVE Alive' = Alive
    BY <1>2, ConstantsAssumption, ZenonT(60) DEF UrlTest, Resume
<1>3. ASSUME Finish PROVE Alive' = Alive
    BY <1>3, ConstantsAssumption, ZenonT(60) DEF Finish, Resume
<1> QED
    BY <1>1, <1>2, <1>3, ZenonT(60) DEF UrlTest, Finish

\* Touch, the idle stop and Close leave at most one loop, with its ticker.
LEMMA LoopStepKeeps == LoopsTyped /\ LoopInv /\ [Next]_vars => LoopInv'
<1> SUFFICES ASSUME LoopsTyped, LoopInv, [Next]_vars PROVE LoopInv'
    OBVIOUS
<1> USE DEF LoopInv
<1>1. ASSUME NEW c \in Conns, NEW n \in Networks, Dial(c, n) PROVE LoopInv'
    <2>1. CASE UNCHANGED <<loop, ticker, pauseCallback, closeChan, closed, lateTouch>>
        BY <2>1, ZenonT(60) DEF Alive
    <2>2. CASE /\ ticker = None /\ Start
               /\ ticker' = "running" /\ pauseCallback' = TRUE
               /\ lateTouch' = (lateTouch \/ closed)
               /\ UNCHANGED <<closeChan, closed>>
        <3>1. \A m \in Loops : loop[m] = "off"
            BY <2>2, ZenonT(60) DEF Alive
        <3>2. PICK l \in Loops : loop' = [loop EXCEPT ![l] = "begin"]
            BY <2>2, ZenonT(60) DEF Start
        <3>3. \A m \in Loops : loop'[m] # "off" <=> m = l
            BY <3>1, <3>2, ZenonT(60) DEF LoopsTyped
        <3>4. Alive' = {l}
            BY <3>3, ZenonT(60) DEF Alive
        <3> QED
            BY <2>2, <3>4, ConstantsAssumption, ZenonT(60)
    <2> QED
        BY <1>1, <2>1, <2>2, ZenonT(60) DEF Dial, Touch, loopVars
<1>2. CASE Close
    BY <1>2, ConstantsAssumption, ZenonT(60) DEF Close, Alive
<1>3. ASSUME NEW l \in Loops, LoopBegin(l) PROVE LoopInv'
    <2>1. Alive' = Alive
        BY <1>3, ZenonT(60) DEF LoopBegin, GoTo, Alive, LoopsTyped
    <2> QED
        BY <1>3, <2>1, ZenonT(60) DEF LoopBegin
<1>4. ASSUME NEW l \in Loops, LoopWakes(l) PROVE LoopInv'
    <2>1. l \in Alive /\ Alive' \subseteq Alive
        BY <1>4, ZenonT(60) DEF LoopWakes, GoTo, Alive, LoopsTyped
    <2>2. ~closeChan => Alive' = Alive
        BY <1>4, ZenonT(60) DEF LoopWakes, GoTo, Alive, LoopsTyped
    <2> QED
        BY <1>4, <2>1, <2>2, ZenonT(60) DEF LoopWakes
<1>5. ASSUME NEW l \in Loops, LoopStops(l) PROVE LoopInv'
    <2>1. l \in Alive /\ Alive' = Alive \ {l}
        BY <1>5, ZenonT(60) DEF LoopStops, GoTo, Alive, LoopsTyped
    <2> QED
        BY <1>5, <2>1, ConstantsAssumption, ZenonT(60) DEF LoopStops
<1>6. CASE \/ \E l \in Loops : loop[l] = "check" /\ UrlTest(l, FALSE)
           \/ \E force \in BOOLEAN : UrlTest("other", force)
           \/ Finish
    <2>1. Alive' = Alive /\ UNCHANGED <<ticker, pauseCallback, closeChan, closed, lateTouch>>
        BY <1>6, TestKeepsLoops, ZenonT(60)
    <2> QED
        BY <2>1, ZenonT(60)
<1>7. CASE UNCHANGED <<loop, ticker, pauseCallback, closeChan, closed, lateTouch>>
    BY <1>7, ZenonT(60) DEF Alive
<1> QED
    BY <1>1, <1>2, <1>3, <1>4, <1>5, <1>6, <1>7, ZenonT(60)
       DEF Next, PostStart, DialReturns, CloseConn, TimePasses, LoopStep, CheckOutbounds,
           TestStep, TestReturns, UpdateTCP, UpdateUDP, Update, vars, loopVars

\* At most one loop runs however dials, idle stops and Close interleave, and a
\* running ticker has its loop.
THEOREM OneLoop == Spec => []OneLoopPerTicker
<1>1. Init => LoopsTyped /\ LoopInv
    BY ConstantsAssumption, ZenonT(60) DEF Init, LoopsTyped, LoopStates, LoopInv, Alive
<1>2. LoopInv => OneLoopPerTicker
    <2> SUFFICES ASSUME LoopInv PROVE Cardinality(Alive) <= 1
        BY ZenonT(60) DEF LoopInv, OneLoopPerTicker
    <2>1. CASE Alive = {}
        BY <2>1, FS_EmptySet
    <2>2. ASSUME NEW l \in Alive PROVE Cardinality(Alive) <= 1
        <3>1. Alive = {l}
            BY ZenonT(60) DEF LoopInv
        <3> QED
            BY <3>1, FS_Singleton
    <2> QED
        BY <2>1, <2>2, ZenonT(60)
<1> QED
    BY <1>1, <1>2, LoopsTypedStep, LoopStepKeeps, PTL DEF Spec
--------------------------------------------------------------------------------
(* Interrupts.                                                             *)

\* Connections that are owed an interrupt are open, and the test that will
\* interrupt them is under way and knows that it has to.
OwedInv ==
    /\ conns = [c \in Conns |-> conns[c]]
    /\ \A c \in outdated : c \in Conns /\ conns[c] = "open"
    /\ outdated # {} => updated

\* A test interrupts what its change outdated before it ends.
LEMMA OwedStep == OwedInv /\ [Next]_vars => OwedInv'
<1> SUFFICES ASSUME OwedInv, [Next]_vars PROVE OwedInv'
    OBVIOUS
<1> USE DEF OwedInv
<1>1. ASSUME NEW c \in Conns, NEW n \in Networks, Dial(c, n) PROVE OwedInv'
    <2>1. PICK o : conns' = [conns EXCEPT ![c] = o]
        BY <1>1, ZenonT(60) DEF Dial
    <2>2. c \notin outdated
        BY <1>1, ConstantsAssumption, ZenonT(60) DEF Dial
    <2> QED
        BY <1>1, <2>1, <2>2, ZenonT(60) DEF Dial, testVars
<1>2. ASSUME NEW c \in Conns, DialReturns(c) PROVE OwedInv'
    <2>1. PICK o : conns' = [conns EXCEPT ![c] = o]
        BY <1>2, ZenonT(60) DEF DialReturns
    <2>2. c \notin outdated
        BY <1>2, ConstantsAssumption, ZenonT(60) DEF DialReturns
    <2> QED
        BY <1>2, <2>1, <2>2, ZenonT(60) DEF DialReturns, testVars
<1>3. ASSUME NEW c \in Conns, CloseConn(c) PROVE OwedInv'
    BY <1>3, ZenonT(60) DEF CloseConn, testVars
<1>4. ASSUME NEW n, NEW next, Update(n, next) PROVE OwedInv'
    BY <1>4, ZenonT(60) DEF Update
<1>5. CASE Finish
    BY <1>5, ZenonT(60) DEF Finish
<1>6. CASE UNCHANGED <<conns, outdated, updated>>
    BY <1>6, ZenonT(60)
<1> QED
    BY <1>1, <1>2, <1>3, <1>4, <1>5, <1>6, ZenonT(60)
       DEF Next, PostStart, Close, TimePasses, LoopStep, LoopBegin, LoopWakes, LoopStops, UrlTest,
           CheckOutbounds, TestStep, TestReturns, UpdateTCP, UpdateUDP, vars, testVars

\* A check that has changed a choice ends with the connections closed that were
\* registered at that moment.
THEOREM ChecksInterrupt == Spec => ChangeInterrupts
<1>1. Init => OwedInv
    BY ZenonT(60) DEF Init, OwedInv
<1>2. OwedInv /\ [Next]_vars =>
          [step = "interrupt" /\ step' = "idle" => \A c \in outdated : conns'[c] = None]_vars
    <2> SUFFICES ASSUME OwedInv, Next, step = "interrupt", step' = "idle", NEW c \in outdated
                 PROVE  conns'[c] = None
        OBVIOUS
    <2>1. Finish
        BY ZenonT(60) DEF Next, PostStart, Dial, DialReturns, CloseConn, Close, TimePasses, LoopStep,
               LoopBegin, LoopWakes, LoopStops, UrlTest, CheckOutbounds, TestStep, TestReturns,
               UpdateTCP, UpdateUDP, Update, testVars
    <2> QED
        BY <2>1, ZenonT(60) DEF Finish, OwedInv
<1> QED
    BY <1>1, <1>2, OwedStep, PTL DEF Spec, ChangeInterrupts
--------------------------------------------------------------------------------
(* The selector.                                                           *)

\* As long as calls do not overlap there is one caller at a time, and the entry
\* of the cache file lags behind the selection only while it is on its way to
\* store it.
CacheInv ==
    orderly =>
        /\ \A s, t \in Selecting : s = t
        /\ \A t \in Callers : pc[t] = "store" => tag[t] = selected
        /\ \A t \in Callers : pc[t] = "interrupt" => cached = selected
        /\ Selecting = {} /\ cached \in SelectorTags => cached = selected

\* A connection that a caller still has to interrupt is closed already, or is
\* on the interrupt group's list, where Interrupt will find it.
OwedToSelect ==
    \A t \in Callers : \A c \in owed[t] :
        conn[c].state # "closed" => c \in group /\ Interruptible(c)

\* The initial state, which a restart returns to, has the type.
LEMMA FreshStart ==
    ASSUME cached \in {None} \cup SelectorTags \cup OtherTags
    PROVE  StartSelection(cached) \in SelectorTags
BY SelectorAssumption, ZenonT(60) DEF StartSelection

\* Every step preserves the type, the list's membership included.
LEMMA SelectorTypeStep == SelectorTypeOK /\ [SelectorNext]_selectorVars => SelectorTypeOK'
<1> SUFFICES ASSUME SelectorTypeOK, [SelectorNext]_selectorVars PROVE SelectorTypeOK'
    OBVIOUS
<1> USE DEF SelectorTypeOK
<1>1. ASSUME NEW t \in Callers, Swap(t) PROVE SelectorTypeOK'
    BY <1>1 DEF Swap
<1>2. ASSUME NEW t \in Callers, StoreSelected(t) PROVE SelectorTypeOK'
    BY <1>2 DEF StoreSelected
<1>3. ASSUME NEW t \in Callers, Interrupt(t) PROVE SelectorTypeOK'
    <2>1. conn' \in [Conns -> ConnState]
        BY <1>3, ZenonT(60) DEF Interrupt, ConnState
    <2>2. group' \subseteq {c \in Conns : conn'[c].state = "open"}
        BY <1>3, ZenonT(60) DEF Interrupt
    <2> QED
        BY <1>3, <2>1, <2>2, ZenonT(60) DEF Interrupt
<1>4. ASSUME NEW c \in Conns, NEW external \in BOOLEAN, NEW grouped \in BOOLEAN,
             DialSelected(c, external, grouped)
      PROVE  SelectorTypeOK'
    <2> DEFINE new == [state |-> "dialing", outbound |-> selected,
                       isExternal |-> external, grouped |-> grouped]
    <2>1. new \in ConnState /\ conn' = [conn EXCEPT ![c] = new]
        BY <1>4, ZenonT(60) DEF DialSelected, ConnState
    <2> HIDE DEF new
    <2>2. conn' \in [Conns -> ConnState] /\ \A d \in Conns \ {c} : conn'[d] = conn[d]
        BY <2>1, ZenonT(60)
    <2>3. c \notin group
        BY <1>4, ZenonT(60) DEF DialSelected
    <2> QED
        BY <1>4, <2>2, <2>3, ZenonT(60) DEF DialSelected
<1>5. ASSUME NEW c \in Conns, NewConn(c) \/ ConnClose(c) PROVE SelectorTypeOK'
    <2>1. PICK s \in {"open", "closed"} : /\ conn' = [conn EXCEPT ![c].state = s]
                                          /\ s = "open" => group' \subseteq group \cup {c}
                                          /\ s = "closed" => group' \subseteq group \ {c}
        BY <1>5, ZenonT(60) DEF NewConn, ConnClose
    <2>2. conn' \in [Conns -> ConnState]
        BY <2>1, ZenonT(60) DEF ConnState
    <2>3. conn'[c].state = s /\ \A d \in Conns \ {c} : conn'[d] = conn[d]
        BY <2>1, ZenonT(60) DEF ConnState
    <2> QED
        BY <1>5, <2>1, <2>2, <2>3, ZenonT(60) DEF NewConn, ConnClose
<1>6. CASE Restart
    <2>1. Closed \in ConnState
        BY SelectorAssumption, ZenonT(60) DEF Closed, ConnState
    <2> QED
        BY <1>6, <2>1, FreshStart, SelectorAssumption, ZenonT(60) DEF Restart
<1>7. CASE UNCHANGED selectorVars
    BY <1>7, ZenonT(60) DEF selectorVars
<1> QED
    BY <1>1, <1>2, <1>3, <1>4, <1>5, <1>6, <1>7, ZenonT(60) DEF SelectorNext, DialContext, NewConnectionEx

\* The selection is always one of the outbounds, and the interrupt group holds
\* only open connections.
THEOREM SelectorTyped == SelectorSpec => []SelectorTypeOK
<1>1. SelectorInit => SelectorTypeOK
    BY FreshStart, SelectorAssumption DEF SelectorInit, SelectorTypeOK, Closed, ConnState
<1> QED
    BY <1>1, SelectorTypeStep, PTL DEF SelectorSpec

\* The cache file's entry is the selection, up to one store on its way.
LEMMA CacheStep == SelectorTypeOK /\ CacheInv /\ [SelectorNext]_selectorVars => CacheInv'
<1> SUFFICES ASSUME SelectorTypeOK, CacheInv, [SelectorNext]_selectorVars, orderly' PROVE CacheInv'
    BY ZenonT(60) DEF CacheInv
<1> USE DEF CacheInv, Selecting
<1>1. ASSUME NEW t \in Callers, Swap(t) PROVE CacheInv'
    <2>1. orderly /\ Selecting = {}
        BY <1>1, ZenonT(60) DEF Swap
    <2>2. \A s \in Callers : pc[s] = "idle"
        BY <2>1, ZenonT(60)
    <2>3. PICK new \in SelectorTags :
              /\ selected' = new
              /\ IF new = selected
                 THEN UNCHANGED <<pc, tag, owed>>
                 ELSE /\ pc' = [pc EXCEPT ![t] = "store"]
                      /\ tag' = [tag EXCEPT ![t] = new]
        BY <1>1, ZenonT(60) DEF Swap
    <2>4. cached' = cached
        BY <1>1, ZenonT(60) DEF Swap
    <2>5. CASE new = selected
        BY <2>1, <2>2, <2>3, <2>4, <2>5, ZenonT(60)
    <2>6. CASE new # selected
        <3>1. pc'[t] = "store" /\ tag'[t] = selected' /\ \A s \in Callers \ {t} : pc'[s] = "idle"
            BY <2>2, <2>3, <2>6 DEF SelectorTypeOK
        <3> QED
            BY <3>1, ZenonT(60)
    <2> QED
        BY <2>5, <2>6, ZenonT(60)
<1>2. ASSUME NEW t \in Callers, StoreSelected(t) PROVE CacheInv'
    <2>1. orderly /\ cached' = tag[t] /\ selected' = selected /\ tag' = tag
        BY <1>2, ZenonT(60) DEF StoreSelected
    <2>2. tag[t] = selected /\ \A s \in Callers \ {t} : pc[s] = "idle"
        BY <1>2, <2>1, ZenonT(60) DEF StoreSelected
    <2>3. pc'[t] = "interrupt" /\ \A s \in Callers \ {t} : pc'[s] = "idle"
        BY <1>2, <2>2, ZenonT(60) DEF StoreSelected, SelectorTypeOK
    <2> QED
        BY <2>1, <2>2, <2>3, ZenonT(60)
<1>3. ASSUME NEW t \in Callers, Interrupt(t) PROVE CacheInv'
    <2>1. orderly /\ UNCHANGED <<cached, selected, tag>>
        BY <1>3, ZenonT(60) DEF Interrupt
    <2>2. cached = selected /\ \A s \in Callers \ {t} : pc[s] = "idle"
        BY <1>3, <2>1, ZenonT(60) DEF Interrupt
    <2>3. \A s \in Callers : pc'[s] = "idle"
        BY <1>3, <2>2, ZenonT(60) DEF Interrupt, SelectorTypeOK
    <2> QED
        BY <2>1, <2>2, <2>3, ZenonT(60)
<1>4. CASE Restart
    <2>1. \A s \in Callers : pc'[s] = "idle"
        BY <1>4, ZenonT(60) DEF Restart
    <2>2. cached' \in SelectorTags => cached' = selected'
        BY <1>4, ZenonT(60) DEF Restart, StartSelection
    <2> QED
        BY <2>1, <2>2, ZenonT(60)
<1>5. CASE UNCHANGED <<selected, cached, pc, tag, orderly>>
    BY <1>5, ZenonT(60)
<1> QED
    BY <1>1, <1>2, <1>3, <1>4, <1>5, ZenonT(60)
       DEF SelectorNext, DialContext, NewConnectionEx, DialSelected, NewConn, ConnClose, selectorVars

\* What was selected and stored is what the process comes back with.
THEOREM CacheFollows == SelectorSpec => []CacheFollowsSelection
<1>1. SelectorInit => CacheInv
    BY ZenonT(60) DEF SelectorInit, CacheInv, Selecting, StartSelection
<1>2. CacheInv => CacheFollowsSelection
    BY ZenonT(60) DEF CacheInv, CacheFollowsSelection
<1> QED
    BY <1>1, <1>2, CacheStep, SelectorTyped, PTL DEF SelectorSpec

\* A connection that is owed an interrupt stays within its reach, whoever dials,
\* closes, selects and interrupts.
LEMMA OwedToSelectStep == SelectorTypeOK /\ OwedToSelect /\ [SelectorNext]_selectorVars => OwedToSelect'
<1> SUFFICES ASSUME SelectorTypeOK, OwedToSelect, [SelectorNext]_selectorVars PROVE OwedToSelect'
    OBVIOUS
<1> USE DEF OwedToSelect, Interruptible
<1>1. ASSUME NEW t \in Callers, Swap(t) PROVE OwedToSelect'
    <2>1. UNCHANGED <<conn, group>>
        BY <1>1, ZenonT(60) DEF Swap
    <2>2. \A s \in Callers : \/ owed'[s] = owed[s]
                             \/ owed'[s] = {c \in group : conn[c].state = "open" /\ Interruptible(c)}
        BY <1>1, ZenonT(60) DEF Swap, SelectorTypeOK
    <2> QED
        BY <2>1, <2>2, ZenonT(60)
<1>2. ASSUME NEW t \in Callers, Interrupt(t) PROVE OwedToSelect'
    <2>1. \A s \in Callers : owed'[s] \subseteq owed[s]
        BY <1>2, ZenonT(60) DEF Interrupt, SelectorTypeOK
    <2>2. \A c \in Conns : c \in group /\ Interruptible(c) => conn'[c].state = "closed"
        BY <1>2, ZenonT(60) DEF Interrupt, SelectorTypeOK, ConnState
    <2>3. \A c \in Conns : ~(c \in group /\ Interruptible(c)) => conn'[c] = conn[c]
        BY <1>2, ZenonT(60) DEF Interrupt, SelectorTypeOK
    <2> QED
        BY <2>1, <2>2, <2>3, ZenonT(60) DEF SelectorTypeOK
<1>3. ASSUME NEW c \in Conns, NEW external \in BOOLEAN, NEW grouped \in BOOLEAN,
             DialSelected(c, external, grouped)
      PROVE  OwedToSelect'
    <2>1. \A d \in Conns \ {c} : conn'[d] = conn[d]
        BY <1>3, ZenonT(60) DEF DialSelected, SelectorTypeOK
    <2>2. group' = group /\ \A t \in Callers : owed'[t] = owed[t] \ {c}
        BY <1>3, ZenonT(60) DEF DialSelected
    <2> QED
        BY <2>1, <2>2, ZenonT(60) DEF SelectorTypeOK
<1>4. ASSUME NEW c \in Conns, NewConn(c) \/ ConnClose(c) PROVE OwedToSelect'
    <2>1. \A d \in Conns \ {c} : conn'[d] = conn[d] /\ (d \in group => d \in group')
        BY <1>4, ZenonT(60) DEF NewConn, ConnClose, SelectorTypeOK
    <2>2. conn'[c].state # "closed" => conn[c].state = "dialing"
        BY <1>4 DEF NewConn, ConnClose, SelectorTypeOK, ConnState
    <2>3. c \in group => conn[c].state = "open"
        BY ZenonT(60) DEF SelectorTypeOK
    <2>4. owed' = owed
        BY <1>4, ZenonT(60) DEF NewConn, ConnClose
    <2>5. \A t \in Callers : c \in owed[t] => conn'[c].state = "closed"
        BY <2>2, <2>3, ZenonT(60)
    <2> QED
        BY <2>1, <2>4, <2>5, ZenonT(60) DEF SelectorTypeOK
<1>5. CASE Restart
    BY <1>5, ZenonT(60) DEF Restart
<1>6. CASE UNCHANGED <<conn, group, owed>>
    BY <1>6, ZenonT(60)
<1> QED
    BY <1>1, <1>2, <1>3, <1>4, <1>5, <1>6, ZenonT(60)
       DEF SelectorNext, DialContext, NewConnectionEx, StoreSelected, selectorVars

\* SelectOutbound returns with everything interrupted that it had to interrupt.
THEOREM SelectionInterrupts == SelectorSpec => SelectInterrupts
<1>1. SelectorInit => OwedToSelect
    BY ZenonT(60) DEF SelectorInit, OwedToSelect
<1>2. SelectorTypeOK /\ OwedToSelect /\ [SelectorNext]_selectorVars =>
          [\A t \in Callers : pc[t] = "interrupt" /\ pc'[t] = "idle" /\ ~Restart =>
              \A c \in owed[t] : conn'[c].state # "open"]_selectorVars
    <2> SUFFICES ASSUME SelectorTypeOK, OwedToSelect, SelectorNext, NEW t \in Callers,
                        pc[t] = "interrupt", pc'[t] = "idle", ~Restart,
                        NEW c \in owed[t]
                 PROVE  conn'[c].state # "open"
        OBVIOUS
    <2>1. Interrupt(t)
        BY ZenonT(60) DEF SelectorNext, Swap, StoreSelected, Interrupt, DialContext, NewConnectionEx, DialSelected,
               NewConn, ConnClose, SelectorTypeOK
    <2>2. c \in Conns
        BY ZenonT(60) DEF SelectorTypeOK
    <2>3. CASE conn[c].state = "closed"
        BY <2>1, <2>2, <2>3, ZenonT(60) DEF Interrupt, SelectorTypeOK, ConnState
    <2>4. CASE conn[c].state # "closed"
        BY <2>1, <2>2, <2>4, ZenonT(60) DEF Interrupt, OwedToSelect, SelectorTypeOK, ConnState
    <2> QED
        BY <2>3, <2>4, ZenonT(60)
<1> QED
    BY <1>1, <1>2, OwedToSelectStep, SelectorTyped, PTL DEF SelectorSpec, SelectInterrupts
================================================================================
