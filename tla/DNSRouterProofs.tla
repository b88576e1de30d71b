--------------------------- MODULE DNSRouterProofs --------------------------
(***************************************************************************)
(* The DNS router for every list of rules, every query and every answer:   *)
(* the first rule that matches and has not rejected settles a query, and   *)
(* an address limit decides by the answer, whatever the rules before it    *)
(* and the other family of the Lookup have left in the metadata.           *)
(***************************************************************************)
EXTENDS DNSRouter, TLAPS

AskRecord == [pc : {"asked", "scan", "verdict", "done"},
              addresses : SUBSET (Addresses \cup FakeAddresses),
              result : {Nil, "ok", "error", "rejected"},
              checked : BOOLEAN]

RouterTypes ==
    /\ rules \in Seq(Rule)
    /\ call \in Calls \cup {Nil}
    /\ at \in {"idle", "match", "ask"}
    /\ index \in 0 .. Len(rules)
    /\ ruleCache \in [dest : BOOLEAN, did : BOOLEAN]
    /\ destination \subseteq Addresses \cup FakeAddresses
    /\ asks \in [DOMAIN asks -> AskRecord]
    /\ err \in BOOLEAN
    /\ mapped \subseteq Addresses
    /\ call = Nil => at = "idle" /\ index = 0 /\ DOMAIN asks = {}
    /\ at = "ask" => DOMAIN asks \in Families(call)

\* The rules up to n that the query cannot pass have rejected an answer.
Passed(n) == \A i \in 1 .. n : Stops(i) => i \in skipped

\* The options of the rules up to n, since the last one that rejected.
OptionsTo(n) ==
    {i \in 1 .. n : (\A j \in skipped : j < i) /\ Reached(i) /\ rules[i].action = "options"}

\* Where the loop over the rules stands.
LoopInv ==
    /\ call = Nil => skipped = {} /\ options = {}
    /\ call # Nil /\ call.transport = Nil =>
           /\ \A i \in skipped : i \in 1 .. Len(rules) /\ Stops(i) /\ Limited(rules[i])
           /\ at = "match" => /\ Passed(index)
                              /\ \A i \in skipped : i <= index
                              /\ options = OptionsTo(index)
           /\ at # "match" /\ index = 0 => Passed(Len(rules)) /\ options = OptionsTo(Len(rules))
           /\ at # "match" /\ index # 0 =>
                 /\ Passed(index - 1) /\ Stops(index)
                 /\ \A i \in skipped : i < index
                 /\ options = OptionsTo(index)
                              \cup (IF rules[index].action = "route" THEN {index} ELSE {})

\* What the call will return.
ReplyInv ==
    /\ call = Nil => ~err /\ answer = {}
    /\ at # "idle" => answer = {} /\ (err => call.op = "lookup" /\ skipped # {})
    /\ call # Nil /\ at = "idle" /\ err /\ answer # {} =>
           call.op = "lookup" /\ skipped # {} /\ rules[index].action = "predefined"
    /\ at = "ask" /\ Server \notin FakeServers =>
           \A f \in DOMAIN asks : asks[f].addresses \subseteq Addresses

\* The exchange for f has an answer.
Got(f) == f \in DOMAIN asks /\ asks[f].pc # "asked"

\* What the check of one answer has found in the record that the checks share.
AskInv(f) ==
    LET ask == asks[f]
        rule == rules[index]
    IN /\ ask.pc \in {"scan", "verdict"} \/ ask.checked =>
             Checked /\ \E g \in DOMAIN asks : Got(g) /\ destination = asks[g].addresses
       /\ ask.pc = "verdict" => ask.checked
       /\ ask.pc \in {"asked", "scan"} => ~ask.checked
       /\ ask.checked =>
             /\ ruleCache.did
             /\ \/ ruleCache.dest
                \/ \E g \in DOMAIN asks : Got(g) /\ asks[g].addresses \cap rule.cidr = {}
       /\ ask.checked /\ ask.pc = "done" =>
             /\ ask.result = "ok" =>
                   \E g \in DOMAIN asks : Got(g) /\ Admits(rule, asks[g].addresses)
             /\ DOMAIN asks = {f} => ((ask.result = "ok") <=> Admits(rule, ask.addresses))

\* An address that was found is one of an answer.
FoundInv ==
    LET rule == rules[index] IN
    DOMAIN asks # {} /\ Checked =>
        /\ rule.domain = "match" => ruleCache.dest
        /\ ruleCache.dest => ruleCache.did
        /\ ruleCache.dest =>
              \/ rule.domain = "match"
              \/ \E g \in DOMAIN asks : Got(g) /\ asks[g].addresses \cap rule.cidr # {}

CheckInv ==
    /\ at = "match" => DOMAIN asks = {}
    /\ \A f \in DOMAIN asks : AskInv(f)
    /\ FoundInv

RouterInv == RouterTypes /\ LoopInv /\ ReplyInv /\ CheckInv
-----------------------------------------------------------------------------
\* metadata.DestinationAddressMatch and metadata.DidMatch.
RuleCache == [dest : BOOLEAN, did : BOOLEAN]

\* Without the address limit and with a fresh record, Match decides by what the
\* rule means.
LEMMA FreshVerdict ==
    ASSUME NEW rule \in Rule, NEW m, NEW addresses
    PROVE  LET scanned == Scan(rule, ResetRuleCache(m), TRUE, addresses)
           IN /\ scanned \in RuleCache
              /\ Verdict(rule, scanned, TRUE) <=> Applies(rule)
              /\ scanned.dest <=> rule.domain = "match"
              /\ scanned.dest => scanned.did
<1> DEFINE scanned == Scan(rule, ResetRuleCache(m), TRUE, addresses)
<1>1. /\ rule.domain \in {"none", "match", "miss"} /\ rule.items \in {"none", "match", "miss"}
      /\ rule.invert \in BOOLEAN
  BY ZenonT(60) DEF Rule
<1>2. /\ scanned \in RuleCache
      /\ scanned.dest <=> rule.domain = "match"
      /\ scanned.did <=> rule.items # "none" \/ rule.domain # "none"
  BY ZenonT(60) DEF Scan, ResetRuleCache, NoMatch, RuleCache
<1> HIDE DEF scanned
<1>3. Verdict(rule, scanned, TRUE) <=> Applies(rule)
  BY <1>1, <1>2, ZenonT(60) DEF Verdict, Applies
<1> QED
  BY <1>2, <1>3, ZenonT(60) DEF scanned

\* The check of an answer finds an address of the limit, or it was found before.
LEMMA CheckScan ==
    ASSUME NEW rule \in Rule, Limited(rule), NEW m \in RuleCache, NEW addresses,
           rule.domain = "match" => m.dest, m.dest => m.did
    PROVE  LET scanned == Scan(rule, m, FALSE, addresses)
           IN /\ scanned \in RuleCache
              /\ scanned.dest <=> m.dest \/ addresses \cap rule.cidr # {}
              /\ scanned.did
BY ZenonT(60) DEF Scan, RuleCache

\* With the limit and a record in which something was looked at, Match decides
\* by what was found.
LEMMA CheckVerdict ==
    ASSUME NEW rule \in Rule, Limited(rule), NEW m \in RuleCache, m.did
    PROVE  Verdict(rule, m, FALSE) <=> ((rule.items # "miss" /\ m.dest) # rule.invert)
<1>1. rule.invert \in BOOLEAN /\ m.dest \in BOOLEAN
  BY ZenonT(60) DEF Rule, RuleCache
<1> QED
  BY <1>1, ZenonT(60) DEF Verdict

\* The list of rules, and a rule of it.
LEMMA RuleTyped ==
    ASSUME RouterTypes
    PROVE  /\ DOMAIN rules = 1 .. Len(rules) /\ Len(rules) \in Nat
           /\ \A i \in 1 .. Len(rules) : rules[i] \in Rule
BY DEF RouterTypes


\* Another exchange is left alone, and f has moved to pc.
Moved(f, pc) ==
    /\ DOMAIN asks' = DOMAIN asks
    /\ asks' \in [DOMAIN asks -> AskRecord]
    /\ \A g \in DOMAIN asks : g # f => asks'[g] = asks[g]
    /\ asks'[f].pc = pc

\* An exchange that returns keeps what its check has noted.
LEMMA DoneAsk ==
    ASSUME RouterTypes, NEW f \in DOMAIN asks,
           NEW result \in {"ok", "error", "rejected"},
           NEW addresses \in SUBSET (Addresses \cup FakeAddresses),
           AskDone(f, result, addresses)
    PROVE  /\ Moved(f, "done")
           /\ asks'[f].result = result /\ asks'[f].addresses = addresses
           /\ asks'[f].checked = asks[f].checked
<1>1. asks \in [DOMAIN asks -> AskRecord] /\ asks[f] \in AskRecord
  BY ZenonT(60) DEF RouterTypes
<1>2. PICK ask \in AskRecord : ask = asks[f]
  BY <1>1, ZenonT(60)
<1>3. PICK done : done = [ask EXCEPT !.pc = "done", !.result = result, !.addresses = addresses]
  OBVIOUS
<1>4. /\ done \in AskRecord
      /\ done.pc = "done" /\ done.result = result /\ done.addresses = addresses
      /\ done.checked = ask.checked
  BY <1>3, ZenonT(60) DEF AskRecord
<1>5. asks' = [asks EXCEPT ![f] = done]
  BY <1>2, <1>3, ZenonT(60) DEF AskDone
<1> QED
  BY <1>1, <1>2, <1>4, <1>5, ZenonT(60) DEF Moved

\* While the call, its rules and its history stay, so does what the rules mean
\* for it.
LEMMA SameMeaning ==
    ASSUME UNCHANGED <<rules, call, skipped>>
    PROVE  /\ \A i : (Reached(i)' <=> Reached(i)) /\ (Stops(i)' <=> Stops(i))
           /\ \A n : (Passed(n)' <=> Passed(n)) /\ OptionsTo(n)' = OptionsTo(n)
<1>1. \A i : (Reached(i)' <=> Reached(i)) /\ (Stops(i)' <=> Stops(i))
  BY ZenonT(60) DEF Reached, Stops, Usable, Applies, Limited
<1> QED
  BY <1>1, ZenonT(60) DEF Passed, OptionsTo

\* One rule further.
LEMMA OneRuleMore ==
    ASSUME NEW n \in Nat, NEW i, i = n + 1, \A j \in skipped : j \in Nat /\ j <= n
    PROVE  /\ Passed(i) <=> Passed(n) /\ ~Stops(i)
           /\ OptionsTo(i) = OptionsTo(n) \cup
                 (IF Reached(i) /\ rules[i].action = "options" THEN {i} ELSE {})
<1>1. i \notin skipped /\ \A j \in skipped : j < i
  OBVIOUS
<1>2. \A k : k \in 1 .. i <=> k \in 1 .. n \/ k = i
  OBVIOUS
<1>3. Passed(i) <=> Passed(n) /\ ~Stops(i)
  BY <1>1, <1>2, ZenonT(60) DEF Passed
<1>4. OptionsTo(i) = OptionsTo(n) \cup
         (IF Reached(i) /\ rules[i].action = "options" THEN {i} ELSE {})
  BY <1>1, <1>2, ZenonT(60) DEF OptionsTo
<1> QED
  BY <1>3, <1>4, ZenonT(60)

\* What one turn of the loop does with a rule.
LEMMA ConsiderTurn ==
    ASSUME RouterTypes, Consider, NEW i, i = index + 1
    PROVE  /\ i \in 1 .. Len(rules) /\ rules[i] \in Rule /\ index' = i /\ at = "match"
           /\ UNCHANGED <<rules, call, destination, mapped, skipped>>
           /\ \/ /\ ~Reached(i)
                 /\ UNCHANGED <<at, options, asks, answer, err>>
              \/ Reached(i) /\ Act(rules[i], i)
           /\ \/ ruleCache' = ruleCache /\ ~Reached(i)
              \/ ruleCache' = Scan(rules[i], ResetRuleCache(ruleCache), TRUE, destination)
<1>1. i \in 1 .. Len(rules) /\ rules[i] \in Rule
  BY RuleTyped, ZenonT(60) DEF Consider
<1>2. call.address \in BOOLEAN \/ call = Nil
  BY ZenonT(60) DEF RouterTypes, Calls
<1> DEFINE scanned == Scan(rules[i], ResetRuleCache(ruleCache), TRUE, destination)
<1>3. Verdict(rules[i], scanned, TRUE) <=> Applies(rules[i])
  BY <1>1, FreshVerdict, ZenonT(60)
<1> HIDE DEF scanned
<1>4. /\ at = "match" /\ index' = i
      /\ IF Limited(rules[i]) /\ ~call.address
         THEN UNCHANGED <<at, ruleCache, options, asks, answer, err>>
         ELSE /\ ruleCache' = scanned
              /\ IF Verdict(rules[i], scanned, TRUE) THEN Act(rules[i], i)
                 ELSE UNCHANGED <<at, options, asks, answer, err>>
      /\ UNCHANGED <<rules, call, destination, mapped, skipped>>
  BY ZenonT(60) DEF Consider, scanned
<1>5. CASE Limited(rules[i]) /\ ~call.address
  BY <1>1, <1>4, <1>5, ZenonT(60) DEF Reached
<1>6. CASE ~(Limited(rules[i]) /\ ~call.address) /\ ~Applies(rules[i])
  BY <1>1, <1>3, <1>4, <1>6, ZenonT(60) DEF Reached, scanned
<1>7. CASE ~(Limited(rules[i]) /\ ~call.address) /\ Applies(rules[i])
  BY <1>1, <1>3, <1>4, <1>7, ZenonT(60) DEF Reached, scanned
<1> QED
  BY <1>5, <1>6, <1>7, ZenonT(60)

\* What a rule that matches does, and that those that end the loop do not
\* collect options.
LEMMA ActEnds ==
    ASSUME NEW i \in 1 .. Len(rules), rules[i] \in Rule, Reached(i), Act(rules[i], i), at = "match"
    PROVE  /\ at' = "match" => ~Stops(i)
           /\ at' # "match" => Stops(i) /\ rules[i].action # "options" /\ at' \in {"ask", "idle"}
           /\ options' = options \cup (IF rules[i].action = "options" THEN {i} ELSE {})
                                 \cup (IF at' # "match" /\ rules[i].action = "route"
                                       THEN {i} ELSE {})
           /\ at' = "ask" => rules[i].action = "route"
<1>1. rules[i].action \in {"route", "options", "reject", "drop", "predefined"}
  BY ZenonT(60) DEF Rule
<1>2. CASE rules[i].action = "options"
  BY <1>2, ZenonT(60) DEF Act, Stops
<1>3. CASE rules[i].action = "route"
  BY <1>3, ZenonT(60) DEF Act, Stops, Ask
<1>4. CASE rules[i].action \in {"reject", "drop"}
  BY <1>4, ZenonT(60) DEF Act, Stops, Reply
<1>5. CASE rules[i].action = "predefined"
  BY <1>5, ZenonT(60) DEF Act, Stops, Reply
<1> QED
  BY <1>1, <1>2, <1>3, <1>4, <1>5, ZenonT(60)

\* A turn of the loop keeps where it stands: the rule is passed, or it stops the
\* query.
LEMMA ConsiderLoop ==
    ASSUME RouterTypes, LoopInv, Consider
    PROVE  LoopInv'
<1>0. PICK i : i = index + 1
  OBVIOUS
<1>1. /\ i \in 1 .. Len(rules) /\ rules[i] \in Rule /\ index' = i /\ at = "match"
      /\ UNCHANGED <<rules, call, skipped>>
      /\ \/ /\ ~Reached(i)
            /\ UNCHANGED <<at, options, asks, answer, err>>
         \/ Reached(i) /\ Act(rules[i], i)
  BY <1>0, ConsiderTurn, ZenonT(60)
<1>2. index \in Nat /\ i = index + 1 /\ Len(rules) \in Nat /\ call # Nil /\ i - 1 = index
  BY <1>0, <1>1 DEF RouterTypes
<1>3. /\ \A k : (Reached(k)' <=> Reached(k)) /\ (Stops(k)' <=> Stops(k))
      /\ \A n : (Passed(n)' <=> Passed(n)) /\ OptionsTo(n)' = OptionsTo(n)
  BY <1>1, SameMeaning, ZenonT(60)
<1> SUFFICES ASSUME call.transport = Nil
             PROVE  LoopInv'
  BY <1>1, <1>2, ZenonT(60) DEF LoopInv
<1>4. /\ \A k \in skipped : k \in 1 .. Len(rules) /\ Stops(k) /\ Limited(rules[k])
      /\ Passed(index) /\ options = OptionsTo(index)
      /\ \A k \in skipped : k <= index
  BY <1>1, <1>2, ZenonT(60) DEF LoopInv
<1>5. /\ Passed(i) <=> Passed(index) /\ ~Stops(i)
      /\ OptionsTo(i) = OptionsTo(index) \cup
            (IF Reached(i) /\ rules[i].action = "options" THEN {i} ELSE {})
  <2>1. \A k \in skipped : k \in Nat /\ k <= index
    BY <1>2, <1>4
  <2> QED
    BY <1>2, <2>1, OneRuleMore, ZenonT(60)
<1>6. \A k \in skipped : k < i
  BY <1>2, <1>4
<1>7. \A k \in skipped' : k \in 1 .. Len(rules') /\ Stops(k)' /\ Limited(rules'[k])
  BY <1>1, <1>3, <1>4, ZenonT(60)
<1>8. CASE at' = "match"
  <2>1. ~Stops(i) /\ options' = OptionsTo(i)
    <3>1. CASE ~Reached(i) /\ options' = options
      BY <1>4, <1>5, <3>1, ZenonT(60) DEF Stops
    <3>2. CASE Reached(i) /\ Act(rules[i], i)
      BY <1>1, <1>4, <1>5, <1>8, <3>2, ActEnds, ZenonT(60)
    <3> QED
      BY <1>1, <3>1, <3>2, ZenonT(60)
  <2>2. Passed(i)' /\ options' = OptionsTo(i)'
    BY <1>3, <1>4, <1>5, <2>1, ZenonT(60)
  <2>3. \A k \in skipped' : k <= i
    BY <1>1, <1>2, <1>4
  <2>4. Passed(index)' /\ options' = OptionsTo(index)'
    BY <1>1, <2>2, ZenonT(60) DEF Passed, OptionsTo
  <2> QED
    BY <1>1, <1>2, <1>7, <1>8, <2>3, <2>4, ZenonT(60) DEF LoopInv
<1>9. CASE at' # "match"
  <2>1. Reached(i) /\ Act(rules[i], i)
    BY <1>1, <1>9, ZenonT(60)
  <2>2. /\ Stops(i) /\ rules[i].action # "options"
        /\ options' = options \cup (IF rules[i].action = "route" THEN {i} ELSE {})
    BY <1>1, <1>9, <2>1, ActEnds, ZenonT(60)
  <2>3. /\ Stops(i)'
        /\ options' = OptionsTo(i)' \cup (IF rules'[i].action = "route" THEN {i} ELSE {})
    BY <1>1, <1>3, <1>4, <1>5, <2>2, ZenonT(60)
  <2>4. /\ Passed(index - 1)' /\ Stops(index)'
        /\ options' = (OptionsTo(index) \cup (IF rules[index].action = "route" THEN {index} ELSE {}))'
    <3>1. Passed(index - 1)'
      <4>1. \A n : Passed(n)' /\ n = index' - 1 => Passed(index - 1)'
        BY ZenonT(60) DEF Passed
      <4>2. PICK n : n = index
        OBVIOUS
      <4>3. Passed(n)'
        BY <1>3, <1>4, <4>2, ZenonT(60)
      <4> QED
        BY <1>1, <1>2, <4>1, <4>2, <4>3, ZenonT(60)
    <3>2. Stops(index)'
      BY <1>1, <2>3, ZenonT(60) DEF Stops, Reached, Usable, Applies, Limited
    <3>3. OptionsTo(index)' = OptionsTo(i)'
      BY <1>1, ZenonT(60) DEF OptionsTo
    <3> QED
      BY <1>1, <2>3, <3>1, <3>2, <3>3, ZenonT(60)
  <2>5. \A k \in skipped' : k < i
    BY <1>1, <1>6, ZenonT(60)
  <2>6. index' # 0
    BY <1>1
  <2> QED
    BY <1>1, <1>2, <1>7, <1>9, <2>4, <2>5, <2>6, ZenonT(60) DEF LoopInv
<1> QED
  BY <1>8, <1>9, ZenonT(60)

\* The default server is used where every rule is passed.
LEMMA UseDefaultLoop ==
    ASSUME RouterTypes, LoopInv, UseDefault
    PROVE  LoopInv'
<1>1. /\ at = "match" /\ at' = "ask" /\ index' = 0 /\ index + 1 \notin DOMAIN rules
      /\ UNCHANGED <<rules, call, skipped, options>>
  BY ZenonT(60) DEF UseDefault, Ask
<1>2. index = Len(rules) /\ call # Nil
  BY <1>1, RuleTyped DEF RouterTypes
<1>3. /\ \A k : (Reached(k)' <=> Reached(k)) /\ (Stops(k)' <=> Stops(k))
      /\ \A n : (Passed(n)' <=> Passed(n)) /\ OptionsTo(n)' = OptionsTo(n)
  BY <1>1, SameMeaning, ZenonT(60)
<1>4. PICK n : n = Len(rules)
  BY ZenonT(60)
<1>5. call.transport = Nil => Passed(n)' /\ options' = OptionsTo(n)'
  BY <1>1, <1>2, <1>3, <1>4, ZenonT(60) DEF LoopInv
<1>6. call.transport = Nil => Passed(Len(rules))' /\ options' = OptionsTo(Len(rules))'
  BY <1>1, <1>4, <1>5, ZenonT(60) DEF Passed, OptionsTo
<1> QED
  BY <1>1, <1>2, <1>3, <1>6, ZenonT(60) DEF LoopInv

\* A rule that rejects is the one the query stopped at.
LEMMA NextRuleLoop ==
    ASSUME RouterTypes, LoopInv, at = "ask", Checked, NextRule, UNCHANGED <<rules, call>>
    PROVE  LoopInv'
<1>1. /\ at' = "match" /\ index' = index /\ options' = {}
      /\ skipped' = skipped \cup {index}
  BY ZenonT(60) DEF NextRule, Resume
<1>2. /\ call # Nil /\ call.transport = Nil /\ index # 0 /\ Limited(rules[index])
      /\ index \in 1 .. Len(rules)
  BY DEF Checked, RouterTypes
<1>3. /\ \A k \in skipped : k \in 1 .. Len(rules) /\ Stops(k) /\ Limited(rules[k])
      /\ Passed(index - 1) /\ Stops(index)
      /\ \A k \in skipped : k < index
  BY <1>2, ZenonT(60) DEF LoopInv
<1>4. \A k : Stops(k)' <=> Stops(k)
  BY ZenonT(60) DEF Reached, Stops, Usable, Applies, Limited
<1>5. \A k \in skipped' : k \in 1 .. Len(rules') /\ Stops(k)' /\ Limited(rules'[k]) /\ k <= index
  BY <1>1, <1>2, <1>3, <1>4
<1>6. Passed(index)'
  <2> SUFFICES ASSUME NEW k \in 1 .. index', Stops(k)' PROVE k \in skipped'
    BY ZenonT(60) DEF Passed
  <2>1. k \in 1 .. index - 1 \/ k = index
    BY <1>1, <1>2
  <2> QED
    BY <1>1, <1>3, <1>4, <2>1, ZenonT(60) DEF Passed
<1>7. OptionsTo(index)' = {}
  <2> SUFFICES ASSUME NEW k \in 1 .. index', \A j \in skipped' : j < k PROVE FALSE
    BY ZenonT(60) DEF OptionsTo
  <2>1. index < k /\ k <= index
    BY <1>1, <1>2, SMTT(30)
  <2> QED
    BY <1>2, <2>1
<1> QED
  BY <1>1, <1>2, <1>5, <1>6, <1>7, ZenonT(60) DEF LoopInv

\* Steps within the match or ask of a call, and its reply.
LEMMA SameLoop ==
    ASSUME LoopInv, UNCHANGED <<rules, call, index, skipped, options>>,
           at' = "match" <=> at = "match"
    PROVE  LoopInv'
<1>1. /\ \A k : (Reached(k)' <=> Reached(k)) /\ (Stops(k)' <=> Stops(k))
      /\ \A n : (Passed(n)' <=> Passed(n)) /\ OptionsTo(n)' = OptionsTo(n)
  BY SameMeaning, ZenonT(60)
<1>2. /\ Passed(index)' <=> Passed(index)
      /\ Passed(index - 1)' <=> Passed(index - 1)
      /\ Passed(Len(rules))' <=> Passed(Len(rules))
      /\ OptionsTo(index)' = OptionsTo(index)
      /\ OptionsTo(Len(rules))' = OptionsTo(Len(rules))
      /\ Stops(index)' <=> Stops(index)
  BY DEF Passed, OptionsTo, Stops, Reached, Usable, Applies, Limited
<1> QED
  BY <1>1, <1>2, ZenonT(60) DEF LoopInv

\* The client is asked for each family of the call.
LEMMA AskAsks ==
    ASSUME NEW c \in Calls, Ask(c)
    PROVE  /\ at' = "ask" /\ DOMAIN asks' \in Families(c) /\ DOMAIN asks' # {}
           /\ asks' \in [DOMAIN asks' -> AskRecord]
           /\ \A f \in DOMAIN asks' : asks'[f] = Asked
<1>1. PICK families \in Families(c) : at' = "ask" /\ asks' = [f \in families |-> Asked]
  BY ZenonT(60) DEF Ask
<1>2. families # {}
  BY ZenonT(60) DEF Families
<1>3. Asked \in AskRecord
  BY ZenonT(60) DEF Asked, AskRecord
<1> QED
  BY <1>1, <1>2, <1>3, ZenonT(60)

\* An exchange returns by itself, or has its answer checked.
LEMMA ClientMoves ==
    ASSUME RouterTypes, NEW f, ClientFails(f) \/ ClientReturns(f) \/ ClientResponds(f)
    PROVE  /\ f \in DOMAIN asks /\ asks[f].pc = "asked" /\ at = "ask"
           /\ UNCHANGED <<rules, call, at, index, options, answer, err, mapped, skipped, ruleCache>>
           /\ \/ Moved(f, "done") /\ destination' = destination
              \/ Moved(f, "scan") /\ Checked /\ destination' = asks'[f].addresses
           /\ asks'[f].checked = asks[f].checked
           /\ Server \notin FakeServers => asks'[f].addresses \subseteq Addresses
<1>1. /\ f \in DOMAIN asks /\ asks[f].pc = "asked" /\ at = "ask"
      /\ UNCHANGED <<rules, call, at, index, options, answer, err, mapped, skipped, ruleCache>>
  BY ZenonT(60) DEF ClientFails, ClientReturns, ClientResponds, Waits, callVars
<1>2. \A r \in Response : /\ r \in SUBSET (Addresses \cup FakeAddresses)
                          /\ Server \notin FakeServers => r \subseteq Addresses
  BY ZenonT(60) DEF Response, Caching
<1>3. {} \in Response
  BY ZenonT(60) DEF Response
<1>4. ASSUME NEW r \in Response, NEW result \in {"ok", "error", "rejected"},
             AskDone(f, result, r)
      PROVE  /\ Moved(f, "done") /\ asks'[f].checked = asks[f].checked
             /\ Server \notin FakeServers => asks'[f].addresses \subseteq Addresses
  <2>1. r \in SUBSET (Addresses \cup FakeAddresses)
    BY <1>2, ZenonT(60)
  <2>2. Moved(f, "done") /\ asks'[f].checked = asks[f].checked /\ asks'[f].addresses = r
    BY <1>1, <1>4, <2>1, DoneAsk, ZenonT(60)
  <2> QED
    BY <1>2, <2>2, ZenonT(60)
<1>5. CASE ClientFails(f)
  BY <1>1, <1>3, <1>4, <1>5, ZenonT(60) DEF ClientFails
<1>6. CASE ClientReturns(f)
  BY <1>1, <1>3, <1>4, <1>6, ZenonT(60) DEF ClientReturns
<1>7. CASE ClientResponds(f)
  <2>1. PICK r \in Response :
          \/ AskDone(f, "ok", r) /\ UNCHANGED destination
          \/ r = {} /\ AskDone(f, "rejected", {}) /\ UNCHANGED destination
          \/ /\ Checked
             /\ destination' = r
             /\ asks' = [asks EXCEPT ![f] = [@ EXCEPT !.pc = "scan", !.addresses = r]]
    BY <1>7, ZenonT(60) DEF ClientResponds
  <2>2. CASE AskDone(f, "ok", r) /\ UNCHANGED destination
    BY <1>1, <1>4, <2>1, <2>2, ZenonT(60)
  <2>3. CASE r = {} /\ AskDone(f, "rejected", {}) /\ UNCHANGED destination
    BY <1>1, <1>3, <1>4, <2>1, <2>3, ZenonT(60)
  <2>4. CASE /\ Checked
             /\ destination' = r
             /\ asks' = [asks EXCEPT ![f] = [@ EXCEPT !.pc = "scan", !.addresses = r]]
    <3>1. asks \in [DOMAIN asks -> AskRecord] /\ asks[f] \in AskRecord
      BY <1>1, ZenonT(60) DEF RouterTypes
    <3>2. PICK ask \in AskRecord : ask = asks[f]
      BY <3>1, ZenonT(60)
    <3>3. PICK scan : scan = [ask EXCEPT !.pc = "scan", !.addresses = r]
      OBVIOUS
    <3>4. scan \in AskRecord /\ scan.pc = "scan" /\ scan.addresses = r /\ scan.checked = ask.checked
      BY <1>2, <3>3, ZenonT(60) DEF AskRecord
    <3>5. asks' = [asks EXCEPT ![f] = scan] /\ destination' = r
      BY <2>1, <2>4, <3>2, <3>3, ZenonT(60)
    <3>6. Moved(f, "scan") /\ asks'[f].addresses = r /\ asks'[f].checked = asks[f].checked
      BY <1>1, <3>1, <3>2, <3>4, <3>5, ZenonT(60) DEF Moved
    <3> QED
      BY <1>1, <1>2, <2>4, <3>5, <3>6, ZenonT(60)
  <2> QED
    BY <2>1, <2>2, <2>3, <2>4, ZenonT(60)
<1> QED
  BY <1>5, <1>6, <1>7, ZenonT(60)

\* The check of an answer looks at the shared record, and then decides by it.
LEMMA CheckMoves ==
    ASSUME RouterTypes, NEW f, CheckScans(f) \/ CheckDecides(f)
    PROVE  /\ f \in DOMAIN asks /\ at = "ask"
           /\ UNCHANGED <<rules, call, at, index, options, answer, err, mapped, skipped, destination>>
           /\ asks'[f].addresses = asks[f].addresses
           /\ CheckScans(f) =>
                 /\ asks[f].pc = "scan" /\ Moved(f, "verdict") /\ asks'[f].checked
                 /\ ruleCache' = Scan(rules[index], ruleCache, FALSE, destination)
           /\ CheckDecides(f) =>
                 /\ asks[f].pc = "verdict" /\ Moved(f, "done") /\ ruleCache' = ruleCache
                 /\ asks'[f].checked = asks[f].checked
                 /\ (asks'[f].result = "ok") <=> Verdict(rules[index], ruleCache, FALSE)
<1>1. /\ f \in DOMAIN asks /\ at = "ask"
      /\ UNCHANGED <<rules, call, at, index, options, answer, err, mapped, skipped, destination>>
  BY ZenonT(60) DEF CheckScans, CheckDecides, Waits, callVars
<1>2. asks \in [DOMAIN asks -> AskRecord] /\ asks[f] \in AskRecord
  BY <1>1, ZenonT(60) DEF RouterTypes
<1>3. CASE CheckScans(f)
  <2>1. PICK ask \in AskRecord : ask = asks[f]
    BY <1>2, ZenonT(60)
  <2>2. PICK scanned : scanned = [ask EXCEPT !.pc = "verdict", !.checked = TRUE]
    OBVIOUS
  <2>3. /\ scanned \in AskRecord /\ scanned.pc = "verdict" /\ scanned.checked = TRUE
        /\ scanned.addresses = ask.addresses
    BY <2>2, ZenonT(60) DEF AskRecord
  <2>4. asks' = [asks EXCEPT ![f] = scanned]
    BY <1>3, <2>1, <2>2, ZenonT(60) DEF CheckScans
  <2>5. Moved(f, "verdict") /\ asks'[f].checked /\ asks'[f].addresses = asks[f].addresses
    BY <1>1, <1>2, <2>1, <2>3, <2>4, ZenonT(60) DEF Moved
  <2>6. asks[f].pc = "scan" /\ ruleCache' = Scan(rules[index], ruleCache, FALSE, destination)
    BY <1>3, ZenonT(60) DEF CheckScans, Waits
  <2>7. ~CheckDecides(f)
    BY <2>6, ZenonT(60) DEF CheckDecides, Waits
  <2> QED
    BY <1>1, <2>5, <2>6, <2>7, ZenonT(60)
<1>4. CASE CheckDecides(f)
  <2>1. PICK result \in {"ok", "rejected"} :
           /\ result = "ok" <=> Verdict(rules[index], ruleCache, FALSE)
           /\ AskDone(f, result, asks[f].addresses)
    BY <1>4, ZenonT(60) DEF CheckDecides
  <2>2. asks[f].addresses \in SUBSET (Addresses \cup FakeAddresses)
    BY <1>2, ZenonT(60) DEF AskRecord
  <2>3. /\ Moved(f, "done") /\ asks'[f].checked = asks[f].checked
        /\ asks'[f].result = result /\ asks'[f].addresses = asks[f].addresses
    BY <1>1, <2>1, <2>2, DoneAsk, ZenonT(60)
  <2>4. asks[f].pc = "verdict" /\ ruleCache' = ruleCache
    BY <1>4, ZenonT(60) DEF CheckDecides, Waits
  <2>5. ~CheckScans(f)
    BY <2>4, ZenonT(60) DEF CheckScans, Waits
  <2> QED
    BY <1>1, <2>1, <2>3, <2>4, <2>5, ZenonT(60)
<1> QED
  BY <1>3, <1>4, ZenonT(60)

\* No exchange.
LEMMA NoAsks == DOMAIN << >> = {} /\ << >> \in [{} -> AskRecord]
OBVIOUS

\* Looking at the items leaves a record of the same kind.
LEMMA ScanTyped ==
    ASSUME NEW rule, NEW m \in RuleCache, NEW addresses
    PROVE  Scan(rule, m, FALSE, addresses) \in RuleCache
<1>1. PICK dest, did : m.dest = dest /\ m.did = did /\ dest \in BOOLEAN /\ did \in BOOLEAN
  BY ZenonT(60) DEF RuleCache
<1> DEFINE scanned == Scan(rule, m, FALSE, addresses)
<1>2. scanned.dest \in BOOLEAN /\ scanned.did \in BOOLEAN
  BY ZenonT(60) DEF Scan
<1>3. scanned = [dest |-> scanned.dest, did |-> scanned.did]
  BY ZenonT(60) DEF Scan
<1> HIDE DEF scanned
<1>4. scanned \in RuleCache
  BY <1>2, <1>3, ZenonT(60) DEF RuleCache
<1> QED
  BY <1>4, ZenonT(60) DEF scanned

\* The steps of the router keep to the types.
LEMMA RouterTypesNext ==
    ASSUME RouterTypes, ReplyInv, [RouterNext]_routerVars
    PROVE  RouterTypes'
<1>0. /\ rules \in Seq(Rule) /\ index \in 0 .. Len(rules) /\ Len(rules) \in Nat
      /\ call \in Calls \cup {Nil} /\ err \in BOOLEAN /\ ruleCache \in RuleCache
      /\ asks \in [DOMAIN asks -> AskRecord]
      /\ mapped \subseteq Addresses /\ destination \subseteq Addresses \cup FakeAddresses
      /\ at \in {"idle", "match", "ask"} /\ (call = Nil => at = "idle" /\ index = 0 /\ DOMAIN asks = {})
      /\ at = "ask" => DOMAIN asks \in Families(call)
  BY DEF RouterTypes, RuleCache
<1>1. CASE RouterCall
  <2>1. PICK c \in Calls : /\ call' = c
                           /\ IF c.transport = Nil THEN at' = "match" /\ asks' = << >> ELSE Ask(c)
    BY <1>1, ZenonT(60) DEF RouterCall
  <2>2. c # Nil /\ UNCHANGED <<rules, index, ruleCache, destination, err, mapped>>
    BY <1>1, RouterAssumption, ZenonT(60) DEF RouterCall
  <2>3. /\ asks' \in [DOMAIN asks' -> AskRecord] /\ at' \in {"match", "ask"}
        /\ at' = "ask" => DOMAIN asks' \in Families(c)
    BY <2>1, AskAsks, NoAsks, ZenonT(60)
  <2> QED
    BY <1>0, <2>1, <2>2, <2>3, ZenonT(60) DEF RouterTypes, RuleCache
<1>2. CASE Consider
  <2>0. PICK i : i = index + 1
    OBVIOUS
  <2>1. /\ i \in 1 .. Len(rules) /\ rules[i] \in Rule /\ index' = i /\ at = "match"
        /\ UNCHANGED <<rules, call, destination, mapped, skipped>>
        /\ \/ UNCHANGED <<at, options, asks, answer, err>>
           \/ Act(rules[i], i)
        /\ \/ ruleCache' = ruleCache
           \/ ruleCache' = Scan(rules[i], ResetRuleCache(ruleCache), TRUE, destination)
    BY <1>2, <2>0, ConsiderTurn, ZenonT(60)
  <2>2. ruleCache' \in RuleCache
    BY <1>0, <2>1, FreshVerdict, ZenonT(60)
  <2>3. call # Nil /\ call \in Calls
    BY <1>0, <2>1, ZenonT(60)
  <2>4. /\ asks' \in [DOMAIN asks' -> AskRecord] /\ at' \in {"match", "ask", "idle"}
        /\ at' = "ask" => DOMAIN asks' \in Families(call)
        /\ err' \in BOOLEAN
    <3>1. CASE UNCHANGED <<at, options, asks, answer, err>>
      BY <1>0, <2>1, <3>1, ZenonT(60)
    <3>2. CASE Act(rules[i], i)
      <4>1. CASE Ask(call) /\ err' = err
        BY <1>0, <2>3, <4>1, AskAsks, ZenonT(60)
      <4>2. CASE asks' = asks /\ at' \in {at, "idle"} /\ err' \in BOOLEAN
        BY <1>0, <2>1, <4>2, ZenonT(60)
      <4> QED
        BY <1>0, <3>2, <4>1, <4>2, ZenonT(60) DEF Act, Reply
    <3> QED
      BY <2>1, <3>1, <3>2, ZenonT(60)
  <2> QED
    BY <1>0, <2>1, <2>2, <2>3, <2>4 DEF RouterTypes, RuleCache
<1>3. CASE UseDefault
  <2>1. /\ at = "match" /\ index' = 0 /\ Ask(call)
        /\ UNCHANGED <<rules, call, ruleCache, destination, err, mapped>>
    BY <1>3, ZenonT(60) DEF UseDefault
  <2>2. call # Nil /\ call \in Calls
    BY <1>0, <2>1, ZenonT(60)
  <2>3. /\ at' = "ask" /\ DOMAIN asks' \in Families(call)
        /\ asks' \in [DOMAIN asks' -> AskRecord]
    BY <2>1, <2>2, AskAsks, ZenonT(60)
  <2> QED
    BY <1>0, <2>1, <2>2, <2>3 DEF RouterTypes, RuleCache
<1>4. ASSUME NEW f, ClientFails(f) \/ ClientReturns(f) \/ ClientResponds(f)
      PROVE  RouterTypes'
  <2>1. /\ UNCHANGED <<rules, call, at, index, err, mapped, ruleCache>> /\ at = "ask"
        /\ DOMAIN asks' = DOMAIN asks /\ asks' \in [DOMAIN asks -> AskRecord] /\ f \in DOMAIN asks
        /\ destination' = destination \/ destination' = asks'[f].addresses
    BY <1>4, ClientMoves, ZenonT(60) DEF Moved
  <2>2. destination' \subseteq Addresses \cup FakeAddresses
    BY <1>0, <2>1 DEF AskRecord
  <2> QED
    BY <1>0, <2>1, <2>2, ZenonT(60) DEF RouterTypes, RuleCache
<1>5. ASSUME NEW f, CheckScans(f) \/ CheckDecides(f)
      PROVE  RouterTypes'
  <2>1. /\ UNCHANGED <<rules, call, at, index, err, mapped, destination>> /\ at = "ask"
        /\ DOMAIN asks' = DOMAIN asks /\ asks' \in [DOMAIN asks -> AskRecord]
        /\ \/ ruleCache' = ruleCache
           \/ ruleCache' = Scan(rules[index], ruleCache, FALSE, destination)
    BY <1>5, CheckMoves, ZenonT(60) DEF Moved
  <2>2. ruleCache' \in RuleCache
    BY <1>0, <2>1, ScanTyped, ZenonT(60)
  <2> QED
    BY <1>0, <2>1, <2>2, ZenonT(60) DEF RouterTypes, RuleCache
<1>6. CASE call # Nil /\ ExchangeDone
  <2>1. /\ call.op = "exchange" /\ at = "ask"
        /\ UNCHANGED <<rules, call, ruleCache, destination>>
        /\ \/ NextRule /\ UNCHANGED <<err, mapped>>
           \/ /\ Reply(IF asks[4].result = "ok" THEN asks[4].addresses ELSE {}, asks[4].result # "ok")
              /\ mapped' = IF Server \in FakeServers \/ asks[4].result # "ok" THEN mapped
                           ELSE mapped \cup asks[4].addresses
              /\ UNCHANGED <<index, skipped, options, asks>>
    BY <1>6, ZenonT(60) DEF ExchangeDone, Answered
  <2>2. CASE NextRule /\ UNCHANGED <<err, mapped>>
    <3>1. at' = "match" /\ index' = index /\ asks' = << >>
      BY <2>2, ZenonT(60) DEF NextRule, Resume
    <3>2. DOMAIN asks' = {} /\ asks' \in [DOMAIN asks' -> AskRecord]
      BY <3>1, NoAsks, ZenonT(60)
    <3> QED
      BY <1>0, <1>6, <2>1, <2>2, <3>1, <3>2, ZenonT(60) DEF RouterTypes, RuleCache
  <2>3. CASE at' # "match"
    <3>1. 4 \in DOMAIN asks
      BY <1>0, <2>1, ZenonT(60) DEF Families
    <3>2. mapped' \subseteq Addresses
      <4>1. Server \notin FakeServers => asks[4].addresses \subseteq Addresses
        BY <2>1, <3>1, ZenonT(60) DEF ReplyInv
      <4> QED
        BY <1>0, <2>1, <2>3, <4>1, ZenonT(60) DEF NextRule
    <3>3. at' = "idle" /\ err' \in BOOLEAN /\ index' = index /\ asks' = asks
      BY <2>1, <2>3, ZenonT(60) DEF Reply, NextRule
    <3> QED
      BY <1>0, <1>6, <2>1, <3>2, <3>3, ZenonT(60) DEF RouterTypes, RuleCache
  <2> QED
    BY <2>1, <2>2, <2>3, ZenonT(60) DEF Reply
<1>7. CASE call # Nil /\ LookupDone
  <2>1. /\ UNCHANGED <<rules, call, ruleCache, destination, mapped>>
        /\ \/ NextRule /\ err' = TRUE
           \/ at' = "idle" /\ err' \in BOOLEAN /\ UNCHANGED <<index, asks>>
    BY <1>7, ZenonT(60) DEF LookupDone, Reply
  <2>2. CASE NextRule /\ err' = TRUE
    BY <1>0, <1>7, <2>1, <2>2, NoAsks, ZenonT(60) DEF RouterTypes, RuleCache, NextRule, Resume
  <2>3. CASE at' = "idle" /\ err' \in BOOLEAN /\ UNCHANGED <<index, asks>>
    BY <1>0, <1>7, <2>1, <2>3, ZenonT(60) DEF RouterTypes, RuleCache
  <2> QED
    BY <2>1, <2>2, <2>3, ZenonT(60)
<1>8. CASE Forget
  BY <1>0, <1>8, ZenonT(60) DEF Forget, RouterTypes, RuleCache
<1>9. CASE UNCHANGED routerVars
  BY <1>0, <1>9, ZenonT(60) DEF routerVars, RouterTypes, RuleCache
<1> QED
  BY <1>1, <1>2, <1>3, <1>4, <1>5, <1>6, <1>7, <1>8, <1>9, ZenonT(60) DEF RouterNext, RouterStep

\* The steps of the router keep what a call may return.
LEMMA ReplyNext ==
    ASSUME RouterTypes, LoopInv, ReplyInv, CheckInv, [RouterNext]_routerVars
    PROVE  ReplyInv'
<1>0. /\ at \in {"idle", "match", "ask"} /\ (call = Nil => at = "idle")
      /\ err \in BOOLEAN /\ call \in Calls \cup {Nil} /\ index \in 0 .. Len(rules)
  BY ZenonT(60) DEF RouterTypes
<1>1. CASE RouterCall
  <2>1. PICK c \in Calls : /\ call' = c
                           /\ IF c.transport = Nil THEN at' = "match" /\ asks' = << >> ELSE Ask(c)
    BY <1>1, ZenonT(60) DEF RouterCall
  <2>2. c # Nil /\ UNCHANGED <<answer, err>> /\ ~err /\ answer = {}
    BY <1>1, RouterAssumption, ZenonT(60) DEF RouterCall, ReplyInv
  <2>3. at' \in {"match", "ask"} /\ \A f \in DOMAIN asks' : asks'[f].addresses = {}
    <3>1. CASE c.transport = Nil
      BY <2>1, <3>1, NoAsks, ZenonT(60)
    <3>2. CASE c.transport # Nil
      BY <2>1, <3>2, AskAsks DEF Asked
    <3> QED
      BY <3>1, <3>2, ZenonT(60)
  <2> QED
    BY <2>1, <2>2, <2>3, ZenonT(60) DEF ReplyInv
<1>2. CASE Consider
  <2>0. PICK i : i = index + 1
    OBVIOUS
  <2>1. /\ i \in 1 .. Len(rules) /\ rules[i] \in Rule /\ index' = i /\ at = "match"
        /\ UNCHANGED <<rules, call, skipped>>
        /\ \/ UNCHANGED <<at, options, asks, answer, err>>
           \/ Act(rules[i], i)
    BY <1>2, <2>0, ConsiderTurn, ZenonT(60)
  <2>2. /\ call # Nil /\ answer = {} /\ (err => call.op = "lookup" /\ skipped # {})
        /\ call \in Calls
    BY <1>0, <2>1, ZenonT(60) DEF ReplyInv
  <2>3. CASE UNCHANGED <<at, answer, err>>
    BY <2>1, <2>2, <2>3, ZenonT(60) DEF ReplyInv
  <2>4. CASE Ask(call) /\ UNCHANGED <<answer, err>>
    <3>1. at' = "ask" /\ \A f \in DOMAIN asks' : asks'[f].addresses = {}
      BY <2>2, <2>4, AskAsks DEF Asked
    <3> QED
      BY <2>1, <2>2, <2>4, <3>1, ZenonT(60) DEF ReplyInv
  <2>5. CASE at' = "idle" /\ answer' = {}
    BY <2>1, <2>2, <2>5, ZenonT(60) DEF ReplyInv
  <2>6. CASE /\ rules[i].action = "predefined" /\ at' = "idle" /\ answer' = rules[i].answer
             /\ err' = (call.op = "lookup" /\ (err \/ rules[i].answer = {}))
    BY <2>1, <2>2, <2>6, ZenonT(60) DEF ReplyInv
  <2> QED
    BY <2>1, <2>3, <2>4, <2>5, <2>6, ZenonT(60) DEF Act, Reply
<1>3. CASE UseDefault
  <2>1. /\ at = "match" /\ Ask(call) /\ UNCHANGED <<call, skipped, answer, err>>
    BY <1>3, ZenonT(60) DEF UseDefault
  <2>2. at' = "ask" /\ \A f \in DOMAIN asks' : asks'[f].addresses = {}
    BY <1>0, <2>1, AskAsks DEF Asked
  <2> QED
    BY <1>0, <2>1, <2>2, ZenonT(60) DEF ReplyInv
<1>4. ASSUME NEW f, ClientFails(f) \/ ClientReturns(f) \/ ClientResponds(f)
      PROVE  ReplyInv'
  <2>1. /\ UNCHANGED <<rules, call, at, index, answer, err, skipped>> /\ at = "ask"
        /\ f \in DOMAIN asks /\ DOMAIN asks' = DOMAIN asks
        /\ \A g \in DOMAIN asks : g # f => asks'[g] = asks[g]
        /\ Server \notin FakeServers => asks'[f].addresses \subseteq Addresses
    BY <1>4, ClientMoves, ZenonT(60) DEF Moved
  <2>2. Server' = Server
    BY <2>1, ZenonT(60) DEF Server
  <2>3. Server' \notin FakeServers => \A g \in DOMAIN asks' : asks'[g].addresses \subseteq Addresses
    BY <2>1, <2>2, ZenonT(60) DEF ReplyInv
  <2> QED
    BY <1>0, <2>1, <2>3, ZenonT(60) DEF ReplyInv
<1>5. ASSUME NEW f, CheckScans(f) \/ CheckDecides(f)
      PROVE  ReplyInv'
  <2>1. /\ UNCHANGED <<rules, call, at, index, answer, err, skipped>> /\ at = "ask"
        /\ f \in DOMAIN asks /\ DOMAIN asks' = DOMAIN asks
        /\ \A g \in DOMAIN asks : g # f => asks'[g] = asks[g]
        /\ asks'[f].addresses = asks[f].addresses
    BY <1>5, CheckMoves, ZenonT(60) DEF Moved
  <2>2. Server' = Server
    BY <2>1, ZenonT(60) DEF Server
  <2>3. Server' \notin FakeServers => \A g \in DOMAIN asks' : asks'[g].addresses \subseteq Addresses
    BY <2>1, <2>2, ZenonT(60) DEF ReplyInv
  <2> QED
    BY <1>0, <2>1, <2>3, ZenonT(60) DEF ReplyInv
<1>6. CASE call # Nil /\ ExchangeDone
  <2>1. /\ call.op = "exchange" /\ at = "ask" /\ UNCHANGED <<rules, call>>
        /\ \/ NextRule /\ UNCHANGED err
           \/ Reply(IF asks[4].result = "ok" THEN asks[4].addresses ELSE {}, asks[4].result # "ok")
    BY <1>6, ZenonT(60) DEF ExchangeDone, Answered
  <2>2. ~err /\ answer = {}
    BY <2>1, ZenonT(60) DEF ReplyInv
  <2>3. CASE NextRule /\ UNCHANGED err
    BY <1>6, <2>1, <2>2, <2>3, ZenonT(60) DEF NextRule, ReplyInv
  <2>4. CASE Reply(IF asks[4].result = "ok" THEN asks[4].addresses ELSE {}, asks[4].result # "ok")
    <3>1. at' = "idle" /\ (err' => answer' = {})
      BY <2>4, ZenonT(60) DEF Reply
    <3> QED
      BY <1>6, <2>1, <3>1, ZenonT(60) DEF ReplyInv
  <2> QED
    BY <2>1, <2>3, <2>4, ZenonT(60)
<1>7. CASE call # Nil /\ LookupDone
  <2>1. /\ call.op = "lookup" /\ at = "ask" /\ UNCHANGED <<rules, call>>
        /\ \/ NextRule /\ err' = TRUE
           \/ at' = "idle" /\ (err' => answer' = {})
    BY <1>7, ZenonT(60) DEF LookupDone, Answered, Reply
  <2>2. CASE NextRule /\ err' = TRUE
    <3>1. at' = "match" /\ answer' = answer /\ skipped' # {}
      BY <2>2, ZenonT(60) DEF NextRule
    <3> QED
      BY <1>7, <2>1, <2>2, <3>1, ZenonT(60) DEF ReplyInv
  <2>3. CASE at' = "idle" /\ (err' => answer' = {})
    BY <1>7, <2>1, <2>3, ZenonT(60) DEF ReplyInv
  <2> QED
    BY <2>1, <2>2, <2>3, ZenonT(60)
<1>8. CASE Forget \/ UNCHANGED routerVars
  <2>1. UNCHANGED <<rules, call, at, index, asks, answer, err, skipped>>
    BY <1>8, ZenonT(60) DEF Forget, routerVars
  <2>2. Server' = Server
    BY <2>1, ZenonT(60) DEF Server
  <2> QED
    BY <2>1, <2>2, ZenonT(60) DEF ReplyInv
<1> QED
  BY <1>1, <1>2, <1>3, <1>4, <1>5, <1>6, <1>7, <1>8, ZenonT(60) DEF RouterNext, RouterStep

\* Nothing is checked where every exchange has just been asked for.
LEMMA FreshAsks ==
    ASSUME \A f \in DOMAIN asks' : asks'[f] = Asked
    PROVE  \A f \in DOMAIN asks' : AskInv(f)'
<1>1. Asked.pc = "asked" /\ Asked.checked = FALSE
  BY ZenonT(60) DEF Asked
<1> QED
  BY <1>1, ZenonT(60) DEF AskInv

\* A step that leaves the exchanges and the record alone.
LEMMA SameChecks ==
    ASSUME CheckInv, UNCHANGED <<rules, call, index, asks, ruleCache, destination>>,
           at' = "match" => at = "match"
    PROVE  CheckInv'
<1>1. (Checked' <=> Checked) /\ \A g : Got(g)' <=> Got(g)
  BY ZenonT(60) DEF Checked, Got, Limited
<1>2. \A f \in DOMAIN asks : AskInv(f)'
  BY <1>1, ZenonT(60) DEF CheckInv, AskInv, Admits
<1>3. FoundInv'
  BY <1>1, ZenonT(60) DEF CheckInv, FoundInv
<1> QED
  BY <1>2, <1>3, ZenonT(60) DEF CheckInv

\* What moves is one exchange, and answers stay what they are.
LEMMA AnswersStay ==
    ASSUME RouterTypes, NEW f \in DOMAIN asks, NEW pc, pc # "asked", Moved(f, pc),
           asks[f].pc = "asked" \/ asks'[f].addresses = asks[f].addresses,
           UNCHANGED <<rules, call, index>>
    PROVE  /\ (Checked' <=> Checked) /\ Got(f)'
           /\ \A g \in DOMAIN asks : Got(g) => Got(g)' /\ asks'[g].addresses = asks[g].addresses
<1>1. Checked' <=> Checked
  BY ZenonT(60) DEF Checked, Limited
<1> QED
  BY <1>1, ZenonT(60) DEF Moved, Got

\* An exchange that returns by itself is not checked; one with an answer to
\* check puts its addresses into the metadata.
LEMMA ClientChecks ==
    ASSUME RouterTypes, CheckInv, NEW f, ClientFails(f) \/ ClientReturns(f) \/ ClientResponds(f)
    PROVE  CheckInv'
<1>1. /\ f \in DOMAIN asks /\ asks[f].pc = "asked" /\ at = "ask"
      /\ UNCHANGED <<rules, call, at, index, ruleCache>>
      /\ \/ Moved(f, "done") /\ destination' = destination
         \/ Moved(f, "scan") /\ Checked /\ destination' = asks'[f].addresses
      /\ asks'[f].checked = asks[f].checked
  BY ClientMoves, ZenonT(60)
<1>2. /\ (Checked' <=> Checked) /\ Got(f)'
      /\ \A g \in DOMAIN asks : Got(g) => Got(g)' /\ asks'[g].addresses = asks[g].addresses
  BY <1>1, AnswersStay, ZenonT(60)
<1>3. /\ DOMAIN asks' = DOMAIN asks
      /\ \A g \in DOMAIN asks : g # f => asks'[g] = asks[g]
      /\ asks'[f].pc \in {"done", "scan"} /\ (asks'[f].pc = "scan" => Checked)
  BY <1>1, ZenonT(60) DEF Moved
<1>4. ~asks'[f].checked
  BY <1>1, ZenonT(60) DEF CheckInv, AskInv
<1>5. \/ destination' = destination
      \/ destination' = asks'[f].addresses /\ Got(f)'
  BY <1>1, <1>2, ZenonT(60)
<1>6. ASSUME NEW g \in DOMAIN asks, destination = asks[g].addresses, Got(g)
      PROVE  \E h \in DOMAIN asks' : Got(h)' /\ destination' = asks'[h].addresses
  BY <1>1, <1>2, <1>3, <1>5, <1>6, ZenonT(60)
<1>7. AskInv(f)'
  <2>1. asks'[f].pc = "scan" => \E h \in DOMAIN asks' : Got(h)' /\ destination' = asks'[h].addresses
    BY <1>1, <1>2, <1>3, ZenonT(60) DEF Moved
  <2> QED
    BY <1>2, <1>3, <1>4, <2>1, ZenonT(60) DEF AskInv
<1>8. ASSUME NEW g \in DOMAIN asks, g # f PROVE AskInv(g)'
  <2>1. asks'[g] = asks[g] /\ AskInv(g)
    BY <1>3, <1>8, ZenonT(60) DEF CheckInv
  <2>2. asks[g].pc \in {"scan", "verdict"} \/ asks[g].checked =>
           Checked' /\ \E h \in DOMAIN asks' : Got(h)' /\ destination' = asks'[h].addresses
    BY <1>2, <1>6, <2>1, ZenonT(60) DEF AskInv
  <2>3. asks[g].checked =>
           \/ ruleCache'.dest
           \/ \E h \in DOMAIN asks' : Got(h)' /\ asks'[h].addresses \cap rules'[index'].cidr = {}
    BY <1>1, <1>2, <1>3, <2>1, SMTT(30) DEF AskInv
  <2>4. asks[g].checked /\ asks[g].pc = "done" /\ asks[g].result = "ok" =>
           \E h \in DOMAIN asks' : Got(h)' /\ Admits(rules'[index'], asks'[h].addresses)
    BY <1>1, <1>2, <1>3, <2>1, ZenonT(60) DEF AskInv
  <2>5. DOMAIN asks' # {g}
    BY <1>1, <1>3, <1>8, ZenonT(60)
  <2> QED
    BY <1>1, <2>1, <2>2, <2>3, <2>4, <2>5, ZenonT(60) DEF AskInv
<1>9. FoundInv'
  <2>1. FoundInv
    BY ZenonT(60) DEF CheckInv
  <2> QED
    BY <1>1, <1>2, <1>3, <2>1, ZenonT(60) DEF FoundInv
<1> QED
  BY <1>1, <1>3, <1>7, <1>8, <1>9, ZenonT(60) DEF CheckInv

\* A check notes what it finds in the record that the checks share.
LEMMA ScanChecks ==
    ASSUME RouterTypes, CheckInv, NEW f, CheckScans(f)
    PROVE  CheckInv'
<1>1. /\ f \in DOMAIN asks /\ asks[f].pc = "scan" /\ at = "ask"
      /\ UNCHANGED <<rules, call, at, index, destination>>
      /\ asks'[f].addresses = asks[f].addresses
      /\ Moved(f, "verdict") /\ asks'[f].checked
      /\ ruleCache' = Scan(rules[index], ruleCache, FALSE, destination)
  BY CheckMoves, ZenonT(60)
<1>2. /\ (Checked' <=> Checked) /\ Got(f)'
      /\ \A g \in DOMAIN asks : Got(g) => Got(g)' /\ asks'[g].addresses = asks[g].addresses
  BY <1>1, AnswersStay, ZenonT(60)
<1>3. /\ DOMAIN asks' = DOMAIN asks /\ asks'[f].pc = "verdict"
      /\ \A g \in DOMAIN asks : g # f => asks'[g] = asks[g]
  BY <1>1, ZenonT(60) DEF Moved
<1>4. Checked /\ \E g \in DOMAIN asks : Got(g) /\ destination = asks[g].addresses
  BY <1>1, ZenonT(60) DEF CheckInv, AskInv
<1>5. PICK h \in DOMAIN asks : Got(h) /\ destination = asks[h].addresses
  BY <1>4, ZenonT(60)
<1>6. PICK rule \in Rule : rule = rules[index] /\ Limited(rule)
  BY <1>4, RuleTyped DEF Checked, RouterTypes
<1>7. /\ rule.domain = "match" => ruleCache.dest
      /\ ruleCache.dest => ruleCache.did
      /\ ruleCache.dest =>
            \/ rule.domain = "match"
            \/ \E g \in DOMAIN asks : Got(g) /\ asks[g].addresses \cap rule.cidr # {}
  BY <1>1, <1>4, <1>6, ZenonT(60) DEF CheckInv, FoundInv
<1>8. /\ ruleCache'.dest <=> ruleCache.dest \/ destination \cap rule.cidr # {}
      /\ ruleCache'.did
  <2>1. ruleCache \in RuleCache
    BY ZenonT(60) DEF RouterTypes, RuleCache
  <2> QED
    BY <1>1, <1>6, <1>7, <2>1, CheckScan, ZenonT(60)
<1>9. \E g \in DOMAIN asks' : Got(g)' /\ destination' = asks'[g].addresses
  BY <1>1, <1>2, <1>3, <1>5, ZenonT(60)
<1>10. AskInv(f)'
  <2>1. \/ ruleCache'.dest
        \/ \E g \in DOMAIN asks' : Got(g)' /\ asks'[g].addresses \cap rules'[index'].cidr = {}
    BY <1>1, <1>2, <1>3, <1>5, <1>6, <1>8, ZenonT(60)
  <2> QED
    BY <1>1, <1>2, <1>3, <1>4, <1>8, <1>9, <2>1, ZenonT(60) DEF AskInv
<1>11. ASSUME NEW g \in DOMAIN asks, g # f PROVE AskInv(g)'
  <2>1. asks'[g] = asks[g] /\ AskInv(g)
    BY <1>3, <1>11, ZenonT(60) DEF CheckInv
  <2>2. asks[g].checked =>
           \/ ruleCache'.dest
           \/ \E k \in DOMAIN asks' : Got(k)' /\ asks'[k].addresses \cap rules'[index'].cidr = {}
    <3>1. CASE ruleCache.dest
      BY <1>8, <3>1, ZenonT(60)
    <3>2. ASSUME NEW k \in DOMAIN asks, Got(k), asks[k].addresses \cap rules[index].cidr = {}
          PROVE  \E m \in DOMAIN asks' : Got(m)' /\ asks'[m].addresses \cap rules'[index'].cidr = {}
      <4>1. k \in DOMAIN asks' /\ Got(k)' /\ asks'[k].addresses = asks[k].addresses
        BY <1>2, <1>3, <3>2, ZenonT(60)
      <4>2. rules'[index'] = rules[index]
        BY <1>1, ZenonT(60)
      <4> QED
        BY <3>2, <4>1, <4>2, ZenonT(60)
    <3> QED
      BY <2>1, <3>1, <3>2, ZenonT(60) DEF AskInv
  <2>3. asks[g].checked /\ asks[g].pc = "done" /\ asks[g].result = "ok" =>
           \E k \in DOMAIN asks' : Got(k)' /\ Admits(rules'[index'], asks'[k].addresses)
    <3>1. SUFFICES ASSUME asks[g].checked, asks[g].pc = "done", asks[g].result = "ok"
                   PROVE  \E k \in DOMAIN asks' : Got(k)' /\ Admits(rules'[index'], asks'[k].addresses)
      BY ZenonT(60)
    <3>2. PICK k \in DOMAIN asks : Got(k) /\ Admits(rules[index], asks[k].addresses)
      BY <2>1, <3>1, ZenonT(60) DEF AskInv
    <3>3. k \in DOMAIN asks' /\ Got(k)' /\ asks'[k].addresses = asks[k].addresses
      BY <1>2, <1>3, <3>2, ZenonT(60)
    <3>4. rules'[index'] = rules[index]
      BY <1>1, ZenonT(60)
    <3> QED
      BY <3>2, <3>3, <3>4, ZenonT(60)
  <2>4. DOMAIN asks' # {g}
    BY <1>1, <1>3, <1>11, ZenonT(60)
  <2> QED
    BY <1>2, <1>4, <1>8, <1>9, <2>1, <2>2, <2>3, <2>4, ZenonT(60) DEF AskInv
<1>12. FoundInv'
  <2>1. ruleCache'.dest =>
           \/ rule.domain = "match"
           \/ \E g \in DOMAIN asks' : Got(g)' /\ asks'[g].addresses \cap rule.cidr # {}
    BY <1>2, <1>3, <1>5, <1>7, <1>8, ZenonT(60)
  <2> QED
    BY <1>1, <1>6, <1>7, <1>8, <2>1, ZenonT(60) DEF FoundInv
<1> QED
  BY <1>1, <1>3, <1>10, <1>11, <1>12, ZenonT(60) DEF CheckInv

\* A check decides by the record: alone by its own answer, with the other family
\* by the answers of both.
LEMMA DecideChecks ==
    ASSUME RouterTypes, CheckInv, NEW f, CheckDecides(f)
    PROVE  CheckInv'
<1>1. /\ f \in DOMAIN asks /\ asks[f].pc = "verdict" /\ at = "ask"
      /\ UNCHANGED <<rules, call, at, index, destination, ruleCache>>
      /\ asks'[f].addresses = asks[f].addresses
      /\ Moved(f, "done") /\ asks'[f].checked = asks[f].checked
      /\ (asks'[f].result = "ok") <=> Verdict(rules[index], ruleCache, FALSE)
  BY CheckMoves, ZenonT(60)
<1>2. /\ (Checked' <=> Checked) /\ Got(f)'
      /\ \A g \in DOMAIN asks : Got(g) => Got(g)' /\ asks'[g].addresses = asks[g].addresses
  BY <1>1, AnswersStay, ZenonT(60)
<1>3. /\ DOMAIN asks' = DOMAIN asks /\ asks'[f].pc = "done"
      /\ \A g \in DOMAIN asks : g # f => asks'[g] = asks[g]
  BY <1>1, ZenonT(60) DEF Moved
<1>4. PICK rule \in Rule : rule = rules[index] /\ Limited(rule) /\ Checked
  <2>1. Checked
    BY <1>1, ZenonT(60) DEF CheckInv, AskInv
  <2>2. index \in 1 .. Len(rules) /\ Limited(rules[index])
    BY <2>1 DEF Checked, RouterTypes
  <2> QED
    BY <2>1, <2>2, RuleTyped, ZenonT(60)
<1>5. /\ asks[f].checked /\ ruleCache.did
      /\ \/ ruleCache.dest
         \/ \E g \in DOMAIN asks : Got(g) /\ asks[g].addresses \cap rule.cidr = {}
      /\ \E g \in DOMAIN asks : Got(g) /\ destination = asks[g].addresses
  BY <1>1, <1>4, ZenonT(60) DEF CheckInv, AskInv
<1>6. /\ rule.domain = "match" => ruleCache.dest
      /\ ruleCache.dest =>
            \/ rule.domain = "match"
            \/ \E g \in DOMAIN asks : Got(g) /\ asks[g].addresses \cap rule.cidr # {}
  BY <1>1, <1>4, ZenonT(60) DEF CheckInv, FoundInv
<1>7. /\ (asks'[f].result = "ok") <=> ((rule.items # "miss" /\ ruleCache.dest) # rule.invert)
      /\ rule.invert \in BOOLEAN /\ ruleCache.dest \in BOOLEAN
  <2>1. ruleCache \in RuleCache
    BY ZenonT(60) DEF RouterTypes, RuleCache
  <2>2. rule.invert \in BOOLEAN /\ ruleCache.dest \in BOOLEAN
    BY <2>1, ZenonT(60) DEF Rule, RuleCache
  <2> QED
    BY <1>1, <1>4, <1>5, <2>1, <2>2, CheckVerdict, ZenonT(60)
<1>8. Got(f)
  BY <1>1, ZenonT(60) DEF Got
<1>9. asks'[f].result = "ok" => \E g \in DOMAIN asks : Got(g) /\ Admits(rule, asks[g].addresses)
  <2> SUFFICES ASSUME asks'[f].result = "ok"
               PROVE  \E g \in DOMAIN asks : Got(g) /\ Admits(rule, asks[g].addresses)
    OBVIOUS
  <2>1. CASE rule.items = "miss"
    <3>1. rule.invert
      BY <1>7, <2>1, ZenonT(60)
    <3>2. Admits(rule, asks[f].addresses)
      BY <2>1, <3>1, ZenonT(60) DEF Admits
    <3> QED
      BY <1>1, <1>8, <3>2, ZenonT(60)
  <2>2. CASE rule.items # "miss" /\ ruleCache.dest
    <3>1. ~rule.invert
      BY <1>7, <2>2, ZenonT(60)
    <3>2. PICK g \in DOMAIN asks :
             Got(g) /\ (rule.domain = "match" \/ asks[g].addresses \cap rule.cidr # {})
      BY <1>1, <1>6, <1>8, <2>2, ZenonT(60)
    <3>3. Admits(rule, asks[g].addresses)
      BY <1>7, <2>2, <3>1, <3>2, ZenonT(60) DEF Admits
    <3> QED
      BY <3>2, <3>3, ZenonT(60)
  <2>3. CASE rule.items # "miss" /\ ~ruleCache.dest
    <3>1. rule.invert
      BY <1>7, <2>3, ZenonT(60)
    <3>2. PICK g \in DOMAIN asks : Got(g) /\ asks[g].addresses \cap rule.cidr = {}
      BY <1>5, <2>3, ZenonT(60)
    <3>3. rule.domain # "match"
      BY <1>6, <2>3, ZenonT(60)
    <3>4. Admits(rule, asks[g].addresses)
      BY <3>1, <3>2, <3>3, ZenonT(60) DEF Admits
    <3> QED
      BY <3>2, <3>4, ZenonT(60)
  <2> QED
    BY <2>1, <2>2, <2>3, ZenonT(60)
<1>10. ASSUME DOMAIN asks = {f}
       PROVE  (asks'[f].result = "ok") <=> Admits(rule, asks[f].addresses)
  <2>1. ruleCache.dest <=> rule.domain = "match" \/ asks[f].addresses \cap rule.cidr # {}
    BY <1>5, <1>6, <1>10, ZenonT(60)
  <2> QED
    BY <1>7, <2>1, ZenonT(60) DEF Admits
<1>11. AskInv(f)'
  <2>1. \E g \in DOMAIN asks' : Got(g)' /\ destination' = asks'[g].addresses
    BY <1>1, <1>2, <1>3, <1>5, ZenonT(60)
  <2>2. \/ ruleCache'.dest
        \/ \E g \in DOMAIN asks' : Got(g)' /\ asks'[g].addresses \cap rules'[index'].cidr = {}
    BY <1>1, <1>2, <1>3, <1>4, <1>5, ZenonT(60)
  <2>3. asks'[f].result = "ok" =>
           \E g \in DOMAIN asks' : Got(g)' /\ Admits(rules'[index'], asks'[g].addresses)
    BY <1>1, <1>2, <1>3, <1>4, <1>9, ZenonT(60)
  <2>4. DOMAIN asks' = {f} =>
           ((asks'[f].result = "ok") <=> Admits(rules'[index'], asks'[f].addresses))
    BY <1>1, <1>3, <1>4, <1>10, ZenonT(60)
  <2> QED
    BY <1>1, <1>2, <1>3, <1>4, <1>5, <2>1, <2>2, <2>3, <2>4, ZenonT(60) DEF AskInv
<1>12. ASSUME NEW g \in DOMAIN asks, g # f PROVE AskInv(g)'
  <2>1. asks'[g] = asks[g] /\ AskInv(g)
    BY <1>3, <1>12, ZenonT(60) DEF CheckInv
  <2>2. \E h \in DOMAIN asks' : Got(h)' /\ destination' = asks'[h].addresses
    BY <1>1, <1>2, <1>3, <1>5, ZenonT(60)
  <2>3. asks[g].checked =>
           \/ ruleCache'.dest
           \/ \E h \in DOMAIN asks' : Got(h)' /\ asks'[h].addresses \cap rules'[index'].cidr = {}
    BY <1>1, <1>2, <1>3, <2>1, SMTT(30) DEF AskInv
  <2>4. asks[g].checked /\ asks[g].pc = "done" /\ asks[g].result = "ok" =>
           \E h \in DOMAIN asks' : Got(h)' /\ Admits(rules'[index'], asks'[h].addresses)
    BY <1>1, <1>2, <1>3, <2>1, ZenonT(60) DEF AskInv
  <2>5. DOMAIN asks' # {g}
    BY <1>1, <1>3, <1>12, ZenonT(60)
  <2> QED
    BY <1>1, <1>2, <1>4, <2>1, <2>2, <2>3, <2>4, <2>5, ZenonT(60) DEF AskInv
<1>13. FoundInv'
  <2>1. FoundInv
    BY ZenonT(60) DEF CheckInv
  <2> QED
    BY <1>1, <1>2, <1>3, <2>1, ZenonT(60) DEF FoundInv
<1> QED
  BY <1>1, <1>3, <1>11, <1>12, <1>13, ZenonT(60) DEF CheckInv

\* The steps of the router keep what the checks have found.
LEMMA CheckNext ==
    ASSUME RouterTypes, CheckInv, [RouterNext]_routerVars
    PROVE  CheckInv'
<1>0. /\ at \in {"idle", "match", "ask"} /\ call \in Calls \cup {Nil}
      /\ (call = Nil => at = "idle" /\ DOMAIN asks = {})
  BY ZenonT(60) DEF RouterTypes
<1>1. CASE RouterCall
  <2>1. PICK c \in Calls : /\ call' = c
                           /\ IF c.transport = Nil THEN at' = "match" /\ asks' = << >> ELSE Ask(c)
    BY <1>1 DEF RouterCall
  <2>2. CASE c.transport = Nil
    <3>1. DOMAIN asks' = {}
      BY <2>1, <2>2, NoAsks, ZenonT(60)
    <3> QED
      BY <3>1, ZenonT(60) DEF CheckInv, FoundInv
  <2>3. CASE c.transport # Nil
    <3>1. at' = "ask" /\ \A f \in DOMAIN asks' : asks'[f] = Asked
      BY <2>1, <2>3, AskAsks, ZenonT(60)
    <3>2. ~Checked'
      BY <2>1, <2>3, ZenonT(60) DEF Checked
    <3>3. \A f \in DOMAIN asks' : AskInv(f)'
      BY <3>1, FreshAsks, ZenonT(60)
    <3> QED
      BY <3>1, <3>2, <3>3, ZenonT(60) DEF CheckInv, FoundInv
  <2> QED
    BY <2>2, <2>3, ZenonT(60)
<1>2. CASE Consider
  <2>0. PICK i : i = index + 1
    OBVIOUS
  <2>1. /\ i \in 1 .. Len(rules) /\ rules[i] \in Rule /\ index' = i /\ at = "match"
        /\ UNCHANGED <<rules, call>>
        /\ \/ ~Reached(i) /\ UNCHANGED asks
           \/ Reached(i) /\ Act(rules[i], i)
        /\ \/ ~Reached(i)
           \/ ruleCache' = Scan(rules[i], ResetRuleCache(ruleCache), TRUE, destination)
    BY <1>2, <2>0, ConsiderTurn, ZenonT(60)
  <2>2. DOMAIN asks = {} /\ call \in Calls
    BY <1>0, <2>1, ZenonT(60) DEF CheckInv
  <2>3. CASE asks' = asks
    BY <2>2, <2>3, ZenonT(60) DEF CheckInv, FoundInv
  <2>4. CASE Reached(i) /\ Ask(call)
    <3>1. at' = "ask" /\ \A f \in DOMAIN asks' : asks'[f] = Asked
      BY <2>2, <2>4, AskAsks, ZenonT(60)
    <3>2. \A f \in DOMAIN asks' : AskInv(f)'
      BY <3>1, FreshAsks, ZenonT(60)
    <3>3. /\ ruleCache'.dest <=> rules[i].domain = "match"
          /\ ruleCache'.dest => ruleCache'.did
      BY <2>1, <2>4, FreshVerdict, ZenonT(60)
    <3>4. FoundInv'
      BY <2>1, <3>3, ZenonT(60) DEF FoundInv
    <3> QED
      BY <3>1, <3>2, <3>4, ZenonT(60) DEF CheckInv
  <2> QED
    BY <2>1, <2>3, <2>4, ZenonT(60) DEF Act
<1>3. CASE UseDefault
  <2>1. at = "match" /\ index' = 0 /\ Ask(call)
    BY <1>3, ZenonT(60) DEF UseDefault
  <2>2. at' = "ask" /\ \A f \in DOMAIN asks' : asks'[f] = Asked
    BY <1>0, <2>1, AskAsks, ZenonT(60)
  <2>3. \A f \in DOMAIN asks' : AskInv(f)'
    BY <2>2, FreshAsks
  <2>4. ~Checked'
    BY <2>1, ZenonT(60) DEF Checked
  <2> QED
    BY <2>2, <2>3, <2>4, ZenonT(60) DEF CheckInv, FoundInv
<1>4. ASSUME NEW f, \/ ClientFails(f) \/ ClientReturns(f) \/ ClientResponds(f)
                    \/ CheckScans(f) \/ CheckDecides(f)
      PROVE  CheckInv'
  BY <1>4, ClientChecks, ScanChecks, DecideChecks, ZenonT(60)
<1>5. CASE NextRule
  <2>1. DOMAIN asks' = {}
    BY <1>5, NoAsks, ZenonT(60) DEF NextRule
  <2> QED
    BY <2>1, ZenonT(60) DEF CheckInv, FoundInv
<1>6. CASE UNCHANGED <<rules, call, index, asks, ruleCache, destination>> /\ at' \in {at, "idle"}
  BY <1>0, <1>6, SameChecks, ZenonT(60)
<1>7. CASE ExchangeDone \/ LookupDone
  <2>1. \/ NextRule
        \/ UNCHANGED <<rules, call, index, asks, ruleCache, destination>> /\ at' = "idle"
    BY <1>7, ZenonT(60) DEF ExchangeDone, LookupDone, Reply
  <2> QED
    BY <1>5, <1>6, <2>1, ZenonT(60)
<1>8. CASE Forget \/ UNCHANGED routerVars
  <2>1. UNCHANGED <<rules, call, at, index, asks, ruleCache, destination>>
    BY <1>8, ZenonT(60) DEF Forget, routerVars
  <2> QED
    BY <1>6, <2>1, ZenonT(60)
<1> QED
  BY <1>1, <1>2, <1>3, <1>4, <1>7, <1>8, ZenonT(60) DEF RouterNext, RouterStep

\* The steps of the router keep where its loop stands.
LEMMA LoopNext ==
    ASSUME RouterTypes, LoopInv, [RouterNext]_routerVars
    PROVE  LoopInv'
<1>1. CASE RouterCall
  <2>1. /\ index' = 0 /\ skipped' = {} /\ options' = {} /\ rules' = rules /\ call' # Nil
        /\ call'.transport = Nil => at' = "match"
    <3>1. PICK c \in Calls : /\ call' = c
                             /\ IF c.transport = Nil THEN at' = "match" ELSE Ask(c)
      BY <1>1, ZenonT(60) DEF RouterCall
    <3> QED
      BY <1>1, <3>1, RouterAssumption, ZenonT(60) DEF RouterCall, RouterTypes, LoopInv
  <2>2. Passed(index)' /\ OptionsTo(index)' = {}
    BY <2>1 DEF Passed, OptionsTo
  <2> QED
    BY <2>1, <2>2, ZenonT(60) DEF LoopInv
<1>2. CASE Consider
  BY <1>2, ConsiderLoop, ZenonT(60)
<1>3. CASE UseDefault
  BY <1>3, UseDefaultLoop, ZenonT(60)
<1>4. ASSUME NEW f, \/ ClientFails(f) \/ ClientReturns(f) \/ ClientResponds(f)
                    \/ CheckScans(f) \/ CheckDecides(f)
      PROVE  LoopInv'
  <2>1. UNCHANGED <<rules, call, at, index, skipped, options>>
    BY <1>4, ClientMoves, CheckMoves, ZenonT(60)
  <2> QED
    BY <2>1, SameLoop, ZenonT(60)
<1>5. CASE ExchangeDone \/ LookupDone
  <2>1. /\ at = "ask" /\ UNCHANGED <<rules, call>>
        /\ \/ NextRule /\ Checked
           \/ UNCHANGED <<index, skipped, options>> /\ at' = "idle"
    BY <1>5, ZenonT(60) DEF ExchangeDone, LookupDone, Reply, Answered
  <2>2. CASE NextRule /\ Checked
    BY <2>1, <2>2, NextRuleLoop, ZenonT(60)
  <2>3. CASE UNCHANGED <<index, skipped, options>> /\ at' = "idle"
    BY <2>1, <2>3, SameLoop, ZenonT(60)
  <2> QED
    BY <2>1, <2>2, <2>3, ZenonT(60)
<1>6. CASE Forget \/ UNCHANGED routerVars
  <2>1. UNCHANGED <<rules, call, at, index, skipped, options>>
    BY <1>6, ZenonT(60) DEF Forget, routerVars
  <2> QED
    BY <2>1, SameLoop
<1> QED
  BY <1>1, <1>2, <1>3, <1>4, <1>5, <1>6 DEF RouterNext, RouterStep

\* Before the first call nothing has been matched.
LEMMA RouterInitInv == RouterInit => RouterInv
<1> SUFFICES ASSUME RouterInit PROVE RouterInv
  OBVIOUS
<1>1. DOMAIN asks = {} /\ asks \in [DOMAIN asks -> AskRecord]
  BY NoAsks, ZenonT(60) DEF RouterInit
<1>2. rules \in Seq(Rule) /\ 0 \in 0 .. Len(rules)
  BY RouterAssumption DEF RouterInit
<1>3. RouterTypes
  BY <1>1, <1>2, ZenonT(60) DEF RouterInit, RouterTypes, NoMatch
<1>4. LoopInv /\ ReplyInv
  BY ZenonT(60) DEF RouterInit, LoopInv, ReplyInv
<1>5. CheckInv
  BY <1>1, ZenonT(60) DEF CheckInv, FoundInv
<1> QED
  BY <1>3, <1>4, <1>5, ZenonT(60) DEF RouterInv

\* Where the loop stands decides which rule has settled the call.
LEMMA InvAnswers == RouterInv => AnswersByFirstRule
<1> SUFFICES ASSUME RouterInv PROVE AnswersByFirstRule
  OBVIOUS
<1>1. /\ DOMAIN rules = 1 .. Len(rules) /\ Len(rules) \in Nat
      /\ index \in 0 .. Len(rules) /\ mapped \subseteq Addresses
  BY RuleTyped, ZenonT(60) DEF RouterInv, RouterTypes
<1>2. mapped \cap FakeAddresses = {}
  BY <1>1, RouterAssumption, ZenonT(60)
<1> SUFFICES ASSUME call # Nil, at # "match", call.transport = Nil
    PROVE  LET open == {i \in DOMAIN rules \ skipped : Stops(i)}
           IN /\ IF index = 0 THEN open = {} ELSE index \in open /\ \A i \in open : index <= i
              /\ \A i \in skipped : Stops(i) /\ Limited(rules[i])
              /\ options = {i \in DOMAIN rules :
                    /\ \A j \in skipped : j < i
                    /\ index # 0 => i <= index
                    /\ Reached(i)
                    /\ rules[i].action = "options" \/ (i = index /\ rules[i].action = "route")}
              /\ at = "idle" /\ err /\ answer # {} =>
                    call.op = "lookup" /\ skipped # {} /\ rules[index].action = "predefined"
  BY <1>2, ZenonT(60) DEF AnswersByFirstRule
<1>3. \A i \in skipped : i \in 1 .. Len(rules) /\ Stops(i) /\ Limited(rules[i])
  BY ZenonT(60) DEF RouterInv, LoopInv
<1>4. at = "idle" /\ err /\ answer # {} =>
         call.op = "lookup" /\ skipped # {} /\ rules[index].action = "predefined"
  BY ZenonT(60) DEF RouterInv, ReplyInv
<1> DEFINE open == {i \in DOMAIN rules \ skipped : Stops(i)}
           carried == {i \in DOMAIN rules :
                    /\ \A j \in skipped : j < i
                    /\ index # 0 => i <= index
                    /\ Reached(i)
                    /\ rules[i].action = "options" \/ (i = index /\ rules[i].action = "route")}
<1>5. CASE index = 0
  <2>1. Passed(Len(rules)) /\ options = OptionsTo(Len(rules))
    BY <1>5, ZenonT(60) DEF RouterInv, LoopInv
  <2>2. open = {}
    BY <1>1, <2>1, ZenonT(60) DEF Passed
  <2>3. options = carried
    <3>1. \A i \in DOMAIN rules : i # index
      BY <1>1, <1>5
    <3> QED
      BY <1>1, <1>5, <2>1, <3>1, ZenonT(60) DEF OptionsTo
  <2> QED
    BY <1>3, <1>4, <1>5, <2>2, <2>3, ZenonT(60)
<1>6. CASE index # 0
  <2>1. /\ Passed(index - 1) /\ Stops(index)
        /\ \A i \in skipped : i < index
        /\ options = OptionsTo(index)
                     \cup (IF rules[index].action = "route" THEN {index} ELSE {})
    BY <1>6, ZenonT(60) DEF RouterInv, LoopInv
  <2>2. index \in 1 .. Len(rules) /\ index \notin skipped
    BY <1>1, <1>6, <2>1
  <2>3. ASSUME NEW i \in open PROVE index <= i
    <3>1. ~(i \in 1 .. index - 1)
      BY <2>1, ZenonT(60) DEF Passed
    <3> QED
      BY <1>1, <2>2, <3>1
  <2>4. \A i : i \in 1 .. index <=> i \in DOMAIN rules /\ i <= index
    BY <1>1, <2>2
  <2>5. Reached(index)
    BY <2>1, ZenonT(60) DEF Stops
  <2>6. options = carried
    BY <1>6, <2>1, <2>2, <2>4, <2>5, <1>1, SMTT(30) DEF OptionsTo
  <2> QED
    BY <1>1, <1>3, <1>4, <1>6, <2>1, <2>2, <2>3, <2>6, ZenonT(60)
<1> QED
  BY <1>5, <1>6, ZenonT(60)

\* What the checks have found decides about the answers.
LEMMA InvFilters == RouterInv => FilterDecides
BY ZenonT(60) DEF RouterInv, CheckInv, AskInv, FilterDecides

\* The invariant of the router holds in every state.
LEMMA RouterInvariant == RouterSpec => []RouterInv
<1>1. RouterInv /\ [RouterNext]_routerVars => RouterInv'
  BY RouterTypesNext, LoopNext, ReplyNext, CheckNext, ZenonT(60) DEF RouterInv
<1> QED
  BY <1>1, RouterInitInv, PTL DEF RouterSpec

\* For every list of rules, every answer and every interleaving of the two
\* families: the first rule that matches and has not rejected an answer settles
\* the query, and no fake address gets into the reverse mapping.
THEOREM RouterAnswersByFirstRule == RouterSpec => []AnswersByFirstRule
BY RouterInvariant, InvAnswers, PTL

\* For every rule with an address limit: its check accepts an answer exactly if
\* the rule admits it, and two checks that share the metadata accept none
\* unless the rule admits one of the two answers.
THEOREM RouterFilterDecides == RouterSpec => []FilterDecides
BY RouterInvariant, InvFilters, PTL

\* A call goes back to the rules only to look at those after the one that has
\* just rejected, which had not rejected before.
Rejects ==
    at = "ask" /\ at' = "match" =>
        /\ index \in DOMAIN rules \ skipped /\ rules' = rules
        /\ skipped' = skipped \cup {index}
        /\ \A i \in skipped' : i <= index'

\* For every list of rules: a rule rejects an answer at most once in a call, so
\* the loops of Exchange and Lookup go back to the rules at most once for each.
THEOREM RouterRejectsOnce == RouterSpec => [][Rejects]_routerVars
<1>1. RouterInv /\ [RouterNext]_routerVars => [Rejects]_routerVars
  <2> SUFFICES ASSUME RouterInv, RouterNext, at = "ask", at' = "match"
               PROVE  /\ index \in DOMAIN rules \ skipped /\ rules' = rules
                      /\ skipped' = skipped \cup {index}
                      /\ \A i \in skipped' : i <= index'
    BY ZenonT(60) DEF Rejects
  <2>1. NextRule /\ Checked /\ rules' = rules
    <3>1. ~RouterCall /\ ~Consider /\ ~UseDefault
      <4>1. RouterCall => at = "idle"
        BY ZenonT(60) DEF RouterCall, RouterInv, RouterTypes
      <4>2. Consider => at = "match"
        BY ZenonT(60) DEF Consider
      <4>3. UseDefault => at = "match"
        BY ZenonT(60) DEF UseDefault
      <4> QED
        BY <4>1, <4>2, <4>3, ZenonT(60)
    <3>2. ASSUME NEW f, \/ ClientFails(f) \/ ClientReturns(f) \/ ClientResponds(f)
                        \/ CheckScans(f) \/ CheckDecides(f)
          PROVE  FALSE
      <4>1. at' = at
        BY <3>2, ClientMoves, CheckMoves, ZenonT(60) DEF RouterInv
      <4> QED
        BY <4>1, ZenonT(60)
    <3>3. ~Forget
      BY ZenonT(60) DEF Forget
    <3>4. ExchangeDone \/ LookupDone
      BY <3>1, <3>2, <3>3, ZenonT(60) DEF RouterNext, RouterStep
    <3> QED
      BY <3>4, ZenonT(60) DEF ExchangeDone, LookupDone, Reply, Answered
  <2>2. call # Nil /\ call.transport = Nil /\ index # 0
    BY <2>1, ZenonT(60) DEF Checked, RouterInv, RouterTypes
  <2>3. /\ index \in 1 .. Len(rules) /\ DOMAIN rules = 1 .. Len(rules) /\ Len(rules) \in Nat
        /\ \A i \in skipped : i \in 1 .. Len(rules) /\ i < index
    BY <2>2, RuleTyped DEF RouterInv, RouterTypes, LoopInv
  <2>4. index' = index /\ skipped' = skipped \cup {index}
    BY <2>1, ZenonT(60) DEF NextRule, Resume
  <2> QED
    BY <2>1, <2>3, <2>4
<1> QED
  BY <1>1, RouterInvariant, PTL DEF RouterSpec
=============================================================================
