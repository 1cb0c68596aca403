--------------------------- MODULE StreamMeterProofs ---------------------------
(***************************************************************************)
(* Proofs about StreamMeter, for every reply and every way to cut it.      *)
(*                                                                         *)
(* The invariant SInv has four parts.  Invisible relates the request on    *)
(* the wire, and the chunks handed on, to what the application asked for.  *)
(* Reading says that the generator's locals are a function of what the     *)
(* server has sent, wire by wire.  Timed and Booked say what the meter and *)
(* the rows are.                                                           *)
(***************************************************************************)
EXTENDS StreamMeter, SequenceTheorems, FiniteSetTheorems, TLAPS

-------------------------------------------------------------------------------
(* Sets of numbers, listed in ascending order.                               *)

Rank(S, s) == Cardinality({t \in S : t < s})

\* Ranks count from 0 and differ.
LEMMA Ranks ==
  ASSUME NEW S \in SUBSET Nat, IsFiniteSet(S)
  PROVE  /\ Cardinality(S) \in Nat
         /\ \A s \in S : Rank(S, s) \in 0 .. Cardinality(S) - 1
         /\ \A s, t \in S : s < t => Rank(S, s) < Rank(S, t)
         /\ \A s, t \in S : Rank(S, s) = Rank(S, t) => s = t
<1> DEFINE n == Cardinality(S)
           below(s) == {t \in S : t < s}
<1>1. n \in Nat
  BY FS_CardinalityType
<1>2. ASSUME NEW s \in S
      PROVE  IsFiniteSet(below(s)) /\ Rank(S, s) \in Nat /\ Rank(S, s) <= n /\ Rank(S, s) # n
  <2>1. below(s) \in SUBSET S /\ s \notin below(s)
    OBVIOUS
  <2> HIDE DEF below
  <2>2. IsFiniteSet(below(s)) /\ Cardinality(below(s)) \in Nat
        /\ Cardinality(below(s)) <= n /\ Cardinality(below(s)) # n
    BY <2>1, FS_Subset, FS_CardinalityType
  <2>3. QED
    BY <2>2 DEF below, Rank
<1>3. \A s \in S : Rank(S, s) \in 0 .. n - 1
  <2>1. ASSUME NEW s \in S PROVE Rank(S, s) \in 0 .. n - 1
    <3>1. Rank(S, s) \in Nat /\ Rank(S, s) <= n /\ Rank(S, s) # n
      BY <1>2
    <3> HIDE DEF n
    <3>2. QED
      BY <1>1, <3>1
  <2>2. QED
    BY <2>1
<1>4. ASSUME NEW s \in S, NEW t \in S, s < t PROVE Rank(S, s) < Rank(S, t)
  <2>1. below(s) \in SUBSET below(t) /\ s \in below(t) /\ s \notin below(s)
    <3>1. \A x \in S : x \in Nat
      OBVIOUS
    <3>2. \A x \in S : x < s => x < t
      BY <1>4, <3>1
    <3>3. ~(s < s)
      BY <3>1
    <3>4. QED
      BY <1>4, <3>2, <3>3
  <2>2. IsFiniteSet(below(t)) /\ Rank(S, s) \in Nat /\ Rank(S, t) \in Nat
    BY <1>2
  <2> HIDE DEF below
  <2>3. Cardinality(below(s)) <= Cardinality(below(t))
        /\ Cardinality(below(s)) # Cardinality(below(t))
    BY <2>1, <2>2, FS_Subset
  <2>4. Rank(S, s) <= Rank(S, t) /\ Rank(S, s) # Rank(S, t)
    BY <2>3 DEF below, Rank
  <2>5. QED
    BY <2>2, <2>4
<1>5. ASSUME NEW s \in S, NEW t \in S, s # t PROVE Rank(S, s) # Rank(S, t)
  <2>1. s < t \/ t < s
    BY <1>5
  <2>2. Rank(S, s) \in Nat /\ Rank(S, t) \in Nat
    BY <1>2
  <2>3. Rank(S, s) < Rank(S, t) \/ Rank(S, t) < Rank(S, s)
    BY <1>4, <2>1
  <2>4. QED
    BY <2>2, <2>3
<1>6. QED
  BY <1>1, <1>3, <1>4, <1>5

\* Every rank below the number of members is taken.
LEMMA RankTaken ==
  ASSUME NEW S \in SUBSET Nat, IsFiniteSet(S), NEW k \in 0 .. Cardinality(S) - 1
  PROVE  \E s \in S : Rank(S, s) = k
<1> DEFINE n == Cardinality(S)
           T == 0 .. n - 1
           ranks == [s \in S |-> Rank(S, s)]
<1>1. n \in Nat
  BY FS_CardinalityType
<1>2. ranks \in Injection(S, T)
  BY Ranks DEF Injection, IsInjective
<1>3. IsFiniteSet(T) /\ Cardinality(T) = n
  <2> HIDE DEF n
  <2>1. 0 \in Int /\ n - 1 \in Int /\ (IF 0 > n - 1 THEN 0 ELSE n - 1 - 0 + 1) = n
    BY <1>1
  <2>2. QED
    BY <2>1, FS_Interval
<1>4. ranks \in Surjection(S, T)
  BY <1>2, <1>3, FS_Injection
<1>5. QED
  BY <1>4 DEF Surjection

Increasing(f) == \A i, j \in DOMAIN f : i < j => f[i] < f[j]
Onto(f, S) == (\A i \in DOMAIN f : f[i] \in S) /\ \A s \in S : \E i \in DOMAIN f : f[i] = s

\* Ascending(S) lists the members of S, each once, smaller ones first.
LEMMA AscendingIs ==
  ASSUME NEW S \in SUBSET Nat, IsFiniteSet(S)
  PROVE  /\ Cardinality(S) \in Nat
         /\ Ascending(S) \in [1 .. Cardinality(S) -> S]
         /\ Increasing(Ascending(S)) /\ Onto(Ascending(S), S)
<1> DEFINE n == Cardinality(S)
           f == Ascending(S)
<1>1. n \in Nat
  BY FS_CardinalityType
<1>2. f = [i \in 1 .. n |-> CHOOSE s \in S : Rank(S, s) = i - 1]
  BY DEF Ascending, Rank
<1> HIDE DEF f
<1>3. \A i \in 1 .. n : f[i] \in S /\ Rank(S, f[i]) = i - 1
  <2>1. ASSUME NEW i \in 1 .. n PROVE \E s \in S : Rank(S, s) = i - 1
    <3>1. i - 1 \in 0 .. n - 1
      <4> HIDE DEF n
      <4>1. QED
        BY <1>1
    <3>2. QED
      BY <3>1, RankTaken
  <2>2. QED
    BY <1>2, <2>1
<1>4. DOMAIN f = 1 .. n
  BY <1>2
<1>5. Increasing(f)
  <2>1. ASSUME NEW i \in 1 .. n, NEW j \in 1 .. n, i < j PROVE f[i] < f[j]
    <3>1. f[i] \in Nat /\ f[j] \in Nat /\ f[i] \in S /\ f[j] \in S
          /\ Rank(S, f[i]) = i - 1 /\ Rank(S, f[j]) = j - 1
      BY <1>3
    <3>2. f[i] < f[j] \/ f[i] = f[j] \/ f[j] < f[i]
      BY <3>1
    <3>3. i \in Int /\ j \in Int /\ ~(j - 1 < i - 1) /\ i - 1 # j - 1
      <4> HIDE DEF n
      <4>1. QED
        BY <1>1, <2>1
    <3>4. QED
      BY <3>1, <3>2, <3>3, Ranks
  <2>2. QED
    BY <1>4, <2>1 DEF Increasing
<1>6. Onto(f, S)
  <2>1. ASSUME NEW s \in S PROVE \E i \in 1 .. n : f[i] = s
    <3> DEFINE k == Rank(S, s)
    <3>1. k \in 0 .. n - 1
      BY Ranks
    <3>2. k + 1 \in 1 .. n /\ (k + 1) - 1 = k
      <4> HIDE DEF n, k
      <4>1. QED
        BY <1>1, <3>1
    <3>3. f[k + 1] \in S /\ Rank(S, f[k + 1]) = k
      BY <1>3, <3>2
    <3>4. f[k + 1] = s
      <4>1. \A x, y \in S : Rank(S, x) = Rank(S, y) => x = y
        BY Ranks
      <4>2. QED
        BY <3>3, <4>1
    <3>5. QED
      BY <3>2, <3>4
  <2>2. QED
    BY <1>3, <1>4, <2>1 DEF Onto
<1>7. f \in [1 .. n -> S]
  BY <1>2, <1>3, <1>4
<1>8. QED
  BY <1>1, <1>5, <1>6, <1>7 DEF f

\* There is no other list that does.
LEMMA AscendingOnly ==
  ASSUME NEW S \in SUBSET Nat, IsFiniteSet(S), NEW n \in Nat, NEW f \in [1 .. n -> S],
         Increasing(f), Onto(f, S)
  PROVE  f = Ascending(S)
<1>1. \A i, j \in 1 .. n : (i < j <=> f[i] < f[j]) /\ (f[i] = f[j] => i = j)
  <2>1. ASSUME NEW i \in 1 .. n, NEW j \in 1 .. n
        PROVE  (i < j <=> f[i] < f[j]) /\ (f[i] = f[j] => i = j)
    <3>1. f[i] \in Nat /\ f[j] \in Nat /\ i \in Nat /\ j \in Nat
      <4>1. f[i] \in S /\ f[j] \in S
        OBVIOUS
      <4>2. \A x \in S : x \in Nat
        OBVIOUS
      <4>3. i \in Nat /\ j \in Nat
        OBVIOUS
      <4>4. QED
        BY <4>1, <4>2, <4>3
    <3>2. (i < j => f[i] < f[j]) /\ (j < i => f[j] < f[i])
      BY DEF Increasing
    <3>3. QED
      BY <3>1, <3>2
  <2>2. QED
    BY <2>1
<1>2. ASSUME NEW i \in 1 .. n PROVE Rank(S, f[i]) = i - 1
  <2> DEFINE T == {t \in S : t < f[i]}
             D == 1 .. i - 1
             g == [j \in D |-> f[j]]
  <2>1. D \subseteq 1 .. n /\ \A j \in 1 .. n : j \in D <=> j < i
    OBVIOUS
  <2>2. \A j \in D : f[j] \in T
    BY <1>1, <2>1
  <2>3. \A t \in T : \E j \in D : f[j] = t
    BY <1>1, <2>1 DEF Onto
  <2>4. g \in Bijection(D, T)
    BY <1>1, <2>1, <2>2, <2>3 DEF Bijection, Injection, Surjection, IsInjective
  <2>5. IsFiniteSet(D) /\ Cardinality(D) = i - 1
    <3>1. 1 \in Int /\ i - 1 \in Int /\ (IF 1 > i - 1 THEN 0 ELSE i - 1 - 1 + 1) = i - 1
      OBVIOUS
    <3>2. QED
      BY <3>1, FS_Interval
  <2>6. Cardinality(T) = i - 1
    <3>1. ExistsBijection(D, T)
      BY <2>4 DEF ExistsBijection
    <3> HIDE DEF D, T
    <3>2. QED
      BY <2>5, <3>1, FS_Bijection
  <2>7. QED
    BY <2>6 DEF Rank
<1>3. Cardinality(S) = n
  <2>1. f \in Bijection(1 .. n, S)
    BY <1>1 DEF Bijection, Injection, Surjection, IsInjective, Onto
  <2>2. ExistsBijection(1 .. n, S)
    BY <2>1 DEF ExistsBijection
  <2>3. IsFiniteSet(1 .. n) /\ Cardinality(1 .. n) = n
    <3>1. 1 \in Int /\ n \in Int /\ (IF 1 > n THEN 0 ELSE n - 1 + 1) = n
      OBVIOUS
    <3>2. QED
      BY <3>1, FS_Interval
  <2>4. QED
    BY <2>2, <2>3, FS_Bijection
<1>4. Ascending(S) = [i \in 1 .. n |-> CHOOSE s \in S : Rank(S, s) = i - 1]
  BY <1>3 DEF Ascending, Rank
<1>5. \A i \in 1 .. n : (CHOOSE s \in S : Rank(S, s) = i - 1) = f[i]
  <2>1. ASSUME NEW i \in 1 .. n PROVE (CHOOSE s \in S : Rank(S, s) = i - 1) = f[i]
    <3> DEFINE c == CHOOSE s \in S : Rank(S, s) = i - 1
    <3>1. f[i] \in S /\ Rank(S, f[i]) = i - 1
      BY <1>2
    <3>2. c \in S /\ Rank(S, c) = i - 1
      BY <3>1
    <3> HIDE DEF c
    <3>3. c = f[i]
      <4>1. \A x, y \in S : Rank(S, x) = Rank(S, y) => x = y
        BY Ranks
      <4>2. QED
        BY <3>1, <3>2, <4>1
    <3>4. QED
      BY <3>3 DEF c
  <2>2. QED
    BY <2>1
<1>6. QED
  BY <1>4, <1>5

-------------------------------------------------------------------------------
(* The request and the counts of chunks.                                     *)

\* The call as Init may find it.
Lawful ==
  /\ cfg \in [provider : Providers, manual : BOOLEAN, server : Servers,
              wants : Options, capture : BOOLEAN, raw : BOOLEAN]
  /\ cfg.provider \in IF cfg.manual THEN Manual ELSE ModeA
  /\ cfg.provider \in Wires

\* Providers whose usage chunk the SDK may have asked for.
Injected == cfg.provider \in {"openai", "together"}

Given == [heads : SUBSET Slots, parts : [Slots -> Nat], sent : Nat, usage : Nat,
          only : {0, 1}, chunks : Nat]
Passed == [chunks : Nat, only : {0, 1}]

Counts ==
  /\ given \in Given /\ app \in Passed
  /\ ask \in [option : Options, injected : BOOLEAN, count : 0 .. 2]
  /\ pc \in Over \union {"asking", "raw", "open", "pulling", "yielded"}

\* What the requests leave behind: only an injected option differs from the
\* application's, and only an injected request is made again.
Asked ==
  /\ pc = "asking" => ask.option = cfg.wants /\ ~ask.injected /\ ask.count < 2
  /\ pc # "refused" => ask.option = IF ask.injected THEN "usage" ELSE cfg.wants
  /\ ask.injected => Injected /\ cfg.wants # "usage"
  /\ pc = "refused" => Refuses(cfg.wants)
  /\ ask.count > 0 /\ (pc = "asking" \/ ask.count = 2)
       => cfg.server # "limits" /\ cfg.wants # "usage" /\ ask.option = cfg.wants

\* Chunks are handed on one for one, but for the chunk asked for by the SDK.
Handed ==
  /\ app.chunks = given.chunks
  /\ app.only = IF Injected /\ cfg.wants # "usage" THEN 0 ELSE given.only

Invisible == Lawful /\ Counts /\ Asked /\ Handed

\* Init satisfies it.
LEMMA InitInvisible == Init => Invisible
<1> SUFFICES ASSUME Init PROVE Invisible
  OBVIOUS
<1>1. Lawful
  BY StreamAssumption DEF Init, Lawful
<1>2. Counts
  <2>1. given \in Given
    BY DEF Init, Given
  <2>2. app \in Passed
    BY DEF Init, Passed
  <2>3. ask \in [option : Options, injected : BOOLEAN, count : 0 .. 2]
    BY <1>1 DEF Init, Lawful
  <2>4. QED
    BY <2>1, <2>2, <2>3 DEF Counts, Init
<1>3. Asked
  BY DEF Init, Asked
<1>4. Handed
  BY DEF Init, Handed
<1>5. QED
  BY <1>1, <1>2, <1>3, <1>4 DEF Invisible

\* The usage a chunk reports is a number.
LEMMA UsageTyped == \A parts : \A sent \in Nat : UsageOn(parts, sent) \in Nat
BY DEF UsageOn

\* A request, the first or the second.
LEMMA AskInvisible == Invisible /\ Ask => Invisible'
<1> SUFFICES ASSUME Invisible, Ask PROVE Invisible'
  OBVIOUS
<1> DEFINE option   == IF Injects THEN "usage" ELSE ask.option
           injected == Injects
           again    == Refuses(option) /\ Retries(injected)
           o        == IF again THEN cfg.wants ELSE option
           i        == injected /\ ~Refuses(option)
           n        == ask.count + 1
<1>1. /\ pc = "asking" /\ ask' = [option |-> o, injected |-> i, count |-> n]
      /\ UNCHANGED <<cfg, given, app, acc>>
  BY DEF Ask, Restored
<1>2. pc' = IF again THEN "asking" ELSE IF Refuses(option) THEN "refused"
            ELSE IF cfg.raw THEN "raw" ELSE "open"
  BY <1>1 DEF Ask
<1>3. ask'.option = o /\ ask'.injected = i /\ ask'.count = n
  BY <1>1
<1>4. /\ ask.option = cfg.wants /\ ~ask.injected /\ ask.count \in 0 .. 1
      /\ cfg.wants \in Options /\ cfg.server \in Servers
      /\ ask.count > 0 => cfg.server # "limits" /\ cfg.wants # "usage"
  BY <1>1 DEF Invisible, Lawful, Counts, Asked
<1>5. i \in BOOLEAN /\ n \in 1 .. 2 /\ o \in Options
  <2>1. i \in BOOLEAN
    BY DEF Injects
  <2>2. n \in 1 .. 2
    BY <1>4
  <2>3. option \in Options
    BY <1>4 DEF Options
  <2>4. o \in Options
    <3> HIDE DEF option, again
    <3>1. QED
      BY <1>4, <2>3
  <2>5. QED
    BY <2>1, <2>2, <2>4
<1>6. injected => Injected /\ cfg.wants # "usage" /\ ask.count = 0
  BY <1>4 DEF Injects, Injected
<1>7. Lawful' /\ Handed'
  BY <1>1 DEF Invisible, Lawful, Handed, Injected
<1>8. Counts'
  <2>1. ask' \in [option : Options, injected : BOOLEAN, count : 0 .. 2]
    <3> HIDE DEF o, i, n
    <3>1. QED
      BY <1>1, <1>5
  <2>2. pc' \in Over \union {"asking", "raw", "open", "pulling", "yielded"}
    BY <1>2 DEF Over
  <2>3. QED
    BY <1>1, <2>1, <2>2 DEF Invisible, Counts
<1>9. Asked'
  <2>1. again => o = cfg.wants /\ ~i /\ injected /\ cfg.server # "limits"
    BY <1>4 DEF Retries
  <2>2. ~again /\ ~Refuses(option) => o = IF i THEN "usage" ELSE cfg.wants
    BY <1>4
  <2>3. (i => injected) /\ (~injected => o = cfg.wants)
    BY <1>4
  <2>4. Refuses(option) /\ ~again => Refuses(cfg.wants)
    <3>1. CASE ~injected
      BY <1>4, <3>1
    <3>2. CASE injected
      BY <3>2 DEF Refuses, Retries
    <3>3. QED
      BY <3>1, <3>2
  <2>5. /\ pc' = "asking" <=> again
        /\ pc' = "refused" <=> Refuses(option) /\ ~again
    BY <1>2
  <2>6. (n = 2 => ask.count > 0) /\ (n = 1 => ask.count = 0) /\ n > 0 /\ (ask.count = 0 => n < 2)
    BY <1>4
  <2>7. cfg' = cfg /\ Refuses(cfg.wants)' = Refuses(cfg.wants) /\ Injected' = Injected
    BY <1>1 DEF Refuses, Injected
  <2> HIDE DEF again, o, i, n, option, injected
  <2>8. pc' = "asking" => ask'.option = cfg.wants /\ ~ask'.injected /\ ask'.count < 2
    BY <1>3, <1>6, <2>1, <2>5, <2>6
  <2>9. pc' # "refused" => ask'.option = IF ask'.injected THEN "usage" ELSE cfg.wants
    BY <1>3, <2>1, <2>2, <2>5
  <2>10. ask'.injected => Injected /\ cfg.wants # "usage"
    BY <1>3, <1>6, <2>3
  <2>11. pc' = "refused" => Refuses(cfg.wants)
    BY <2>4, <2>5
  <2>12. ask'.count > 0 /\ (pc' = "asking" \/ ask'.count = 2)
           => cfg.server # "limits" /\ cfg.wants # "usage" /\ ask'.option = cfg.wants
    <3>1. CASE pc' = "asking"
      BY <1>3, <1>6, <2>1, <2>5, <3>1
    <3>2. CASE ask'.count = 2
      <4>1. ask.count > 0 /\ ~injected
        BY <1>3, <1>4, <1>6, <2>6, <3>2
      <4>2. QED
        BY <1>3, <1>4, <2>3, <4>1
    <3>3. QED
      BY <3>1, <3>2
  <2>13. QED
    BY <2>7, <2>8, <2>9, <2>10, <2>11, <2>12 DEF Asked
<1>10. QED
  BY <1>7, <1>8, <1>9 DEF Invisible

\* What a chunk makes of the record of what was sent.
LEMMA GivenUpdated ==
  ASSUME NEW H, NEW P, NEW N, NEW O,
         NEW g \in [heads : H, parts : P, sent : N, usage : N, only : O, chunks : N],
         NEW h \in H, NEW p \in P, NEW m \in N, NEW u \in N, NEW k, g.chunks + 1 \in N,
         k = [g EXCEPT !.heads = h, !.parts = p, !.sent = m, !.usage = u, !.chunks = @ + 1]
  PROVE  /\ k \in [heads : H, parts : P, sent : N, usage : N, only : O, chunks : N]
         /\ k.only = g.only /\ k.chunks = g.chunks + 1
         /\ k.heads = h /\ k.parts = p /\ k.usage = u /\ k.sent = m
OBVIOUS

\* What a chunk does to the counts.
LEMMA ChunkGiven ==
  ASSUME given \in Given, NEW s \in Slots, NEW head \in BOOLEAN, NEW n \in Nat,
         Chunk(s, head, n)
  PROVE  /\ given' \in Given /\ given'.only = given.only /\ given'.chunks = given.chunks + 1
         /\ given'.heads = given.heads \union {s}
         /\ given'.parts = [given.parts EXCEPT ![s] = @ + n]
         /\ LET u == UsageOn(given'.parts, given.sent + n)
            IN  given'.usage = IF u > 0 THEN u ELSE given.usage
<1> DEFINE parts == [given.parts EXCEPT ![s] = @ + n]
           sent  == given.sent + n
           u     == UsageOn(parts, sent)
           usage == IF u > 0 THEN u ELSE given.usage
           heads == given.heads \union {s}
           g     == [given EXCEPT !.heads = heads, !.parts = parts, !.sent = sent,
                       !.usage = usage, !.chunks = @ + 1]
<1>1. given' = g
  BY DEF Chunk
<1>2. parts \in [Slots -> Nat] /\ sent \in Nat /\ heads \in SUBSET Slots
      /\ given.usage \in Nat /\ given.chunks + 1 \in Nat
  BY DEF Given
<1>3. u \in Nat
  BY <1>2, UsageTyped
<1> HIDE DEF parts, sent, u, heads
<1>4. usage \in Nat
  BY <1>2, <1>3
<1> HIDE DEF usage
<1>5. given \in [heads : SUBSET Slots, parts : [Slots -> Nat], sent : Nat, usage : Nat,
                 only : {0, 1}, chunks : Nat]
  BY DEF Given
<1>6. /\ g \in [heads : SUBSET Slots, parts : [Slots -> Nat], sent : Nat, usage : Nat,
                only : {0, 1}, chunks : Nat]
      /\ g.only = given.only /\ g.chunks = given.chunks + 1
      /\ g.heads = heads /\ g.parts = parts /\ g.usage = usage
  <2>1. PICK k : k = g
    OBVIOUS
  <2>2. PICK H, P, N, O : H = SUBSET Slots /\ P = [Slots -> Nat] /\ N = Nat /\ O = {0, 1}
    OBVIOUS
  <2>3. /\ k \in [heads : H, parts : P, sent : N, usage : N, only : O, chunks : N]
        /\ k.only = given.only /\ k.chunks = given.chunks + 1
        /\ k.heads = heads /\ k.parts = parts /\ k.usage = usage
    <3>1. /\ given \in [heads : H, parts : P, sent : N, usage : N, only : O, chunks : N]
          /\ heads \in H /\ parts \in P /\ sent \in N /\ usage \in N /\ given.chunks + 1 \in N
      BY <1>2, <1>4, <1>5, <2>2
    <3>2. QED
      BY <2>1, <3>1, GivenUpdated
  <2> HIDE DEF g
  <2>4. QED
    BY <2>1, <2>2, <2>3
<1>7. QED
  BY <1>1, <1>6 DEF Given, heads, parts, usage, u, sent

\* A chunk is counted on both sides.
LEMMA ChunkInvisible ==
  ASSUME Invisible, NEW s \in Slots, NEW head \in BOOLEAN, NEW n \in Nat, Chunk(s, head, n)
  PROVE  Invisible'
<1>1. /\ app' = [app EXCEPT !.chunks = @ + 1]
      /\ pc = "pulling" /\ pc' = "yielded" /\ UNCHANGED <<cfg, ask>>
  BY DEF Chunk
<1>2. given \in Given /\ app \in Passed
  BY DEF Invisible, Counts
<1>3. /\ given' \in Given /\ given'.only = given.only /\ given'.chunks = given.chunks + 1
  BY <1>2, ChunkGiven
<1>4. app' \in Passed /\ app'.only = app.only /\ app'.chunks = app.chunks + 1
  BY <1>1, <1>2 DEF Passed
<1>5. Counts'
  BY <1>1, <1>3, <1>4 DEF Invisible, Counts
<1>6. Handed'
  BY <1>1, <1>3, <1>4 DEF Invisible, Handed, Injected
<1>7. Lawful' /\ Asked'
  BY <1>1 DEF Invisible, Lawful, Asked, Injected, Refuses
<1>8. QED
  BY <1>5, <1>6, <1>7 DEF Invisible

\* The usage chunk is kept from the application exactly if the SDK asked for it.
LEMMA UsageInvisible == Invisible /\ UsageChunk => Invisible'
<1> SUFFICES ASSUME Invisible, UsageChunk PROVE Invisible'
  OBVIOUS
<1> DEFINE g == [given EXCEPT !.usage = given.sent, !.only = 1]
<1>1. /\ given' = g /\ pc = "pulling" /\ pc' \in {"pulling", "yielded"}
      /\ app' = (IF Strips THEN app ELSE [app EXCEPT !.only = 1])
      /\ UsageDue /\ given.only = 0 /\ UNCHANGED <<cfg, ask>>
  BY DEF UsageChunk
<1>2. given \in Given /\ app \in Passed
  BY DEF Invisible, Counts
<1>3. g \in Given /\ g.only = 1 /\ g.chunks = given.chunks
  BY <1>2 DEF Given
<1>4. /\ app' \in Passed /\ app'.chunks = app.chunks
      /\ app'.only = IF Strips THEN app.only ELSE 1
  BY <1>1, <1>2 DEF Passed
<1>5. Strips <=> (Injected /\ cfg.wants # "usage")
  BY <1>1 DEF Invisible, Asked, Strips, UsageDue, Injected
<1> HIDE DEF g
<1>6. Counts'
  BY <1>1, <1>3, <1>4 DEF Invisible, Counts
<1>7. Handed'
  BY <1>1, <1>3, <1>4, <1>5 DEF Invisible, Handed, Injected
<1>8. Lawful' /\ Asked'
  BY <1>1 DEF Invisible, Lawful, Asked, Injected, Refuses
<1>9. QED
  BY <1>6, <1>7, <1>8 DEF Invisible

\* Every step keeps it.
LEMMA StepInvisible == Invisible /\ [Next]_vars => Invisible'
<1> SUFFICES ASSUME Invisible, [Next]_vars PROVE Invisible'
  OBVIOUS
<1>1. ASSUME UNCHANGED <<cfg, ask, given, app>>, pc \notin {"asking", "refused"},
             pc' \in (Over \ {"refused"}) \union {"raw", "open", "pulling", "yielded"}
      PROVE  Invisible'
  <2>1. Lawful'
    BY <1>1 DEF Invisible, Lawful
  <2>2. Counts'
    BY <1>1 DEF Invisible, Counts
  <2>3. Asked'
    BY <1>1 DEF Invisible, Asked, Injected, Over
  <2>4. Handed'
    BY <1>1 DEF Invisible, Handed, Injected
  <2>5. QED
    BY <2>1, <2>2, <2>3, <2>4 DEF Invisible
<1>2. CASE Parse \/ Pull \/ End \/ Fail \/ Close \/ LateSpan
  BY <1>1, <1>2 DEF Parse, Pull, End, Fail, Close, LateSpan, Over
<1>3. ASSUME NEW s \in Slots, NEW head \in BOOLEAN, NEW n \in 0 .. Size[s], Chunk(s, head, n)
      PROVE  Invisible'
  <2>1. n \in Nat
    OBVIOUS
  <2>2. QED
    BY <1>3, <2>1, ChunkInvisible
<1>4. CASE UNCHANGED vars
  BY <1>4 DEF vars, Invisible, Lawful, Counts, Asked, Handed, Injected, Refuses
<1>5. QED
  BY <1>2, <1>3, <1>4, AskInvisible, UsageInvisible DEF Next

\* It holds in every state.
LEMMA AlwaysInvisible == Spec => []Invisible
BY InitInvisible, StepInvisible, PTL DEF Spec

\* Whatever the server does with the option, the application gets the chunks and
\* the errors it would get without the SDK, and at most one request more is made,
\* never after a rate limit.
THEOREM InjectionAlwaysHarmless == Spec => []InjectionIsHarmless
<1>1. Invisible => InjectionIsHarmless
  BY DEF Invisible, Counts, Asked, Handed, Injected, InjectionIsHarmless
<1>2. QED
  BY <1>1, AlwaysInvisible, PTL

-------------------------------------------------------------------------------
(* Pieces, items and replies.                                                *)

Piece    == Slots \X Nat
Gathered == [text : Seq(Piece), items : [Slots -> Item \union {None}], order : Seq(Slots),
             final : Replies, usage : Nat, ttft : BOOLEAN]

\* The fragments of a slot are a sequence.
LEMMA PiecesAre ==
  ASSUME NEW s \in Slots, NEW from \in Nat, NEW n \in Nat
  PROVE  /\ Pieces(s, from, n) \in Seq(Piece) /\ Len(Pieces(s, from, n)) = n
         /\ \A i \in 1 .. n : Pieces(s, from, n)[i] = <<s, from + i>>
<1>1. \A i \in 1 .. n : <<s, from + i>> \in Piece
  BY DEF Piece
<1>2. QED
  BY <1>1 DEF Pieces

\* Two runs of fragments that follow each other are one.
LEMMA PiecesJoin ==
  ASSUME NEW s \in Slots, NEW k \in Nat, NEW n \in Nat
  PROVE  /\ Pieces(s, 0, k) \o Pieces(s, k, n) = Pieces(s, 0, k + n)
         /\ Pieces(s, 0, 0) = <<>>
<1> DEFINE p == Pieces(s, 0, k)
           q == Pieces(s, k, n)
           r == Pieces(s, 0, k + n)
<1>1. /\ p \in Seq(Piece) /\ Len(p) = k /\ \A i \in 1 .. k : p[i] = <<s, 0 + i>>
      /\ q \in Seq(Piece) /\ Len(q) = n /\ \A i \in 1 .. n : q[i] = <<s, k + i>>
  BY PiecesAre
<1>2. k + n \in Nat
  OBVIOUS
<1>3. r \in Seq(Piece) /\ Len(r) = k + n /\ \A i \in 1 .. k + n : r[i] = <<s, 0 + i>>
  BY <1>2, PiecesAre
<1> HIDE DEF p, q, r
<1>4. /\ p \o q \in Seq(Piece) /\ Len(p \o q) = k + n
      /\ \A i \in 1 .. k + n : (p \o q)[i] = IF i <= k THEN p[i] ELSE q[i - k]
  BY <1>1, ConcatProperties
<1>5. \A i \in 1 .. k + n : (p \o q)[i] = r[i]
  <2>1. ASSUME NEW i \in 1 .. k + n PROVE (p \o q)[i] = <<s, i>>
    <3>1. CASE i <= k
      <4>1. i \in 1 .. k /\ 0 + i = i
        BY <3>1
      <4>2. QED
        BY <1>1, <1>4, <3>1, <4>1
    <3>2. CASE ~(i <= k)
      <4>1. i - k \in 1 .. n /\ k + (i - k) = i
        BY <3>2
      <4>2. QED
        BY <1>1, <1>4, <3>2, <4>1
    <3>3. QED
      BY <3>1, <3>2
  <2>2. \A i \in 1 .. k + n : 0 + i = i
    OBVIOUS
  <2>3. QED
    BY <1>3, <2>1, <2>2
<1>6. p \o q = r
  BY <1>3, <1>4, <1>5, SeqEqual
<1>7. Pieces(s, 0, 0) = <<>>
  BY DEF Pieces
<1>8. QED
  BY <1>6, <1>7 DEF p, q, r

\* A slot as a server that has sent n fragments of it has it.
Whole(s, n) == [kind |-> KindOf[s], named |-> TRUE, parts |-> Pieces(s, 0, n)]

\* Such a slot is an item of its kind.
LEMMA WholeIs ==
  ASSUME NEW s \in Slots, NEW n \in Nat
  PROVE  /\ Whole(s, n) \in Item /\ Whole(s, n) # None
         /\ Whole(s, n).kind = KindOf[s] /\ Whole(s, n).named
         /\ Whole(s, n).parts = Pieces(s, 0, n)
<1>1. Whole(s, n) \in Item
  BY PiecesAre, StreamAssumption DEF Whole, Item, Piece
<1>2. QED
  BY <1>1, NoneAssumption DEF Whole

\* setdefault and append complete a slot.
LEMMA SlottedIs ==
  ASSUME NEW items \in [Slots -> Item \union {None}], NEW s \in Slots, NEW k \in Nat,
         NEW n \in Nat, NEW head \in BOOLEAN, NEW kind,
         \/ items[s] = Whole(s, k)
         \/ items[s] = None /\ k = 0 /\ head /\ kind = KindOf[s]
  PROVE  Slotted(items, s, kind, head, Pieces(s, k, n)) = [items EXCEPT ![s] = Whole(s, k + n)]
<1> DEFINE new == Pieces(s, k, n)
           old == IF items[s] = None THEN [kind |-> kind, named |-> FALSE, parts |-> <<>>]
                  ELSE items[s]
           it  == [kind |-> old.kind, named |-> old.named \/ head, parts |-> old.parts \o new]
<1>1. Slotted(items, s, kind, head, new) = [items EXCEPT ![s] = it]
  BY DEF Slotted
<1>2. it = Whole(s, k + n)
  <2>1. CASE items[s] = Whole(s, k)
    <3>1. old.kind = KindOf[s] /\ old.named = TRUE /\ old.parts = Pieces(s, 0, k)
      <4>1. old = [kind |-> KindOf[s], named |-> TRUE, parts |-> Pieces(s, 0, k)]
        BY <2>1, WholeIs DEF Whole
      <4> HIDE DEF old
      <4>2. QED
        BY <4>1
    <3> HIDE DEF old
    <3>2. QED
      BY <3>1, PiecesJoin DEF Whole
  <2>2. CASE items[s] = None /\ k = 0 /\ head /\ kind = KindOf[s]
    <3>1. old.kind = KindOf[s] /\ old.named = FALSE /\ old.parts = <<>>
      BY <2>2
    <3>2. <<>> \o new = Pieces(s, 0, k + n)
      <4>1. Pieces(s, 0, k) = <<>> /\ new = Pieces(s, k, n)
        BY <2>2, PiecesJoin
      <4>2. QED
        BY <4>1, PiecesJoin
    <3> HIDE DEF old
    <3>3. QED
      BY <2>2, <3>1, <3>2 DEF Whole
  <2>3. QED
    BY <2>1, <2>2
<1>3. QED
  BY <1>1, <1>2

\* Fragments complete a slot that is known.
SlottedOn(items, s, k, n) ==
  \A kind : Slotted(items, s, kind, FALSE, Pieces(s, k, n)) = [items EXCEPT ![s] = Whole(s, k + n)]

\* The item is known by then, and no name is needed.
LEMMA SlottedKnown ==
  ASSUME NEW items \in [Slots -> Item \union {None}], NEW s \in Slots, NEW k \in Nat,
         NEW n \in Nat, items[s] = Whole(s, k)
  PROVE  SlottedOn(items, s, k, n)
<1>1. ASSUME NEW kind
      PROVE  \A head \in BOOLEAN :
        Slotted(items, s, kind, head, Pieces(s, k, n)) = [items EXCEPT ![s] = Whole(s, k + n)]
  BY SlottedIs
<1>2. FALSE \in BOOLEAN
  OBVIOUS
<1>3. QED
  BY <1>1, <1>2 DEF SlottedOn

\* The text of a reply grows with the fragments of its text only.
LEMMA TextGrows ==
  ASSUME NEW parts \in [Slots -> Nat], NEW s \in Slots, NEW n \in Nat
  PROVE  /\ TextOf(parts) \in Seq(Piece)
         /\ TextOf([parts EXCEPT ![s] = @ + n])
              = IF KindOf[s] = "text" THEN TextOf(parts) \o Pieces(s, parts[s], n)
                ELSE TextOf(parts)
<1> DEFINE next == [parts EXCEPT ![s] = @ + n]
           t    == CHOOSE t \in TextSlots : TRUE
<1>1. CASE TextSlots = {}
  <2>1. TextOf(parts) = <<>> /\ TextOf(next) = <<>> /\ KindOf[s] # "text"
    BY <1>1 DEF TextOf, TextSlots
  <2>2. QED
    BY <2>1
<1>2. CASE TextSlots # {}
  <2>1. t \in Slots /\ KindOf[t] = "text"
    BY <1>2 DEF TextSlots
  <2>2. TextOf(parts) = Pieces(t, 0, parts[t]) /\ TextOf(next) = Pieces(t, 0, next[t])
    BY <1>2 DEF TextOf
  <2>3. KindOf[s] = "text" => s = t
    BY <2>1, StreamAssumption
  <2> HIDE DEF t
  <2>4. KindOf[s] = "text" => next[t] = parts[t] + n
    BY <2>3
  <2>5. KindOf[s] # "text" => next[t] = parts[t]
    BY <2>1
  <2>6. parts[t] \in Nat /\ parts[s] \in Nat
    BY <2>1
  <2> HIDE DEF next
  <2>7. TextOf(parts) \in Seq(Piece)
    BY <2>1, <2>2, <2>6, PiecesAre
  <2>8. ASSUME KindOf[s] = "text" PROVE TextOf(next) = TextOf(parts) \o Pieces(s, parts[s], n)
    <3>1. Pieces(t, 0, parts[t]) \o Pieces(t, parts[t], n) = Pieces(t, 0, parts[t] + n)
      BY <2>1, <2>6, PiecesJoin
    <3>2. QED
      BY <2>2, <2>3, <2>4, <2>8, <3>1
  <2>9. KindOf[s] # "text" => TextOf(next) = TextOf(parts)
    BY <2>2, <2>5
  <2>10. QED
    BY <2>7, <2>8, <2>9 DEF next
<1>3. QED
  BY <1>1, <1>2

\* A reply made of fragments is a reply.
LEMMA ReplyTyped ==
  ASSUME NEW parts \in [Slots -> Nat], NEW heads, NEW m \in Nat, NEW cs \in [1 .. m -> Slots]
  PROVE  ReplyOf(parts, heads, cs) \in Replies
<1> DEFINE r(i) == [slot |-> cs[i], named |-> cs[i] \in heads,
                    args |-> Pieces(cs[i], 0, parts[cs[i]])]
           C    == [slot : Slots, named : BOOLEAN, args : Seq(Piece)]
<1>1. \A i \in 1 .. m : r(i) \in C
  <2>1. ASSUME NEW i \in 1 .. m PROVE r(i) \in C
    <3>1. cs[i] \in Slots /\ parts[cs[i]] \in Nat
      OBVIOUS
    <3>2. Pieces(cs[i], 0, parts[cs[i]]) \in Seq(Piece)
      BY <3>1, PiecesAre
    <3>3. QED
      BY <3>1, <3>2
  <2>2. QED
    BY <2>1
<1>2. TextOf(parts) \in Seq(Piece)
  <2>1. CASE Slots = {}
    BY <2>1 DEF TextOf, TextSlots
  <2>2. CASE Slots # {}
    BY <2>2, TextGrows
  <2>3. QED
    BY <2>1, <2>2
<1> DEFINE calls == [i \in 1 .. m |-> r(i)]
<1>3. calls \in Seq(C)
  <2> HIDE DEF r, C
  <2>1. calls \in [1 .. m -> C]
    BY <1>1
  <2> HIDE DEF calls
  <2>2. QED
    BY <2>1
<1>4. ReplyOf(parts, heads, cs) = [text |-> TextOf(parts), calls |-> calls]
  BY DEF ReplyOf
<1> HIDE DEF calls, r
<1>5. QED
  BY <1>2, <1>3, <1>4 DEF Replies, Piece


-------------------------------------------------------------------------------
(* What the server has sent, and what the generator has made of it.          *)

\* The protocol of the wires, as Sendable has it: nothing of a slot before its
\* head, and no more than there is of it; Google's calls whole; the items of the
\* Responses API and the blocks of Anthropic begun in order.
Arrived ==
  /\ \A s \in Slots : given.parts[s] <= Size[s] /\ (s \notin given.heads => given.parts[s] = 0)
  /\ cfg.provider = "google" => \A s \in CallsIn(given.heads) : given.parts[s] = Size[s]
  /\ cfg.provider \in {"openai_responses", "anthropic"} =>
       \A s \in given.heads, t \in Slots : t < s => t \in given.heads

\* The wires whose text is accumulated as such, and what is an item on a wire.
Texted == Shaped \union {"cohere", "google", "xai"}
Itemised(p, s) ==
  /\ p \notin {"xai", "other"}
  /\ KindOf[s] = "call" \/ p \in {"openai_responses", "anthropic"}

ItemsOf(p, parts, heads) ==
  [s \in Slots |-> IF s \in heads /\ Itemised(p, s) THEN Whole(s, parts[s]) ELSE None]

Distinct(f) == \A i, j \in DOMAIN f : f[i] = f[j] => i = j

\* The generator's locals say what the server has sent.
Kept(p, a, parts, heads) ==
  /\ a \in Gathered
  /\ a.text = IF p \in Texted THEN TextOf(parts) ELSE <<>>
  /\ a.items = ItemsOf(p, parts, heads)
  /\ p = "openai_responses" => Increasing(a.order) /\ Onto(a.order, heads)
  /\ p = "google" => Distinct(a.order) /\ Onto(a.order, CallsIn(heads))
  /\ p = "xai" => a.final = ReplyOf(parts, heads, Ascending(CallsIn(heads)))

Reading == Arrived /\ Kept(cfg.provider, acc, given.parts, given.heads)

\* A record of what was gathered, by its fields.
Holds(a, text, items, order, final) ==
  /\ a \in Gathered
  /\ a.text = text /\ a.items = items /\ a.order = order /\ a.final = final

\* What the accumulators, and then the generator, change.
Changes(a, t, i, o, f, u, b) ==
  /\ Holds(a, a.text, a.items, a.order, a.final)
  /\ Holds([a EXCEPT !.text = t], t, a.items, a.order, a.final)
  /\ Holds([a EXCEPT !.items = i], a.text, i, a.order, a.final)
  /\ Holds([a EXCEPT !.items = i, !.order = o], a.text, i, o, a.final)
  /\ Holds([a EXCEPT !.final = f, !.text = t], t, a.items, a.order, f)
  /\ Holds([a EXCEPT !.usage = u, !.ttft = b], a.text, a.items, a.order, a.final)
  /\ [a EXCEPT !.usage = u, !.ttft = b].usage = u
  /\ [a EXCEPT !.usage = u, !.ttft = b].ttft = b

\* Each changes one part or two.
LEMMA Updates ==
  ASSUME NEW a \in Gathered, NEW t \in Seq(Piece), NEW i \in [Slots -> Item \union {None}],
         NEW o \in Seq(Slots), NEW f \in Replies, NEW u \in Nat, NEW b \in BOOLEAN
  PROVE  Changes(a, t, i, o, f, u, b)
<1> PICK T, I, O, F, N, B :
      T = Seq(Piece) /\ I = [Slots -> Item \union {None}] /\ O = Seq(Slots) /\ F = Replies
      /\ N = Nat /\ B = BOOLEAN
  OBVIOUS
<1>1. /\ Gathered = [text : T, items : I, order : O, final : F, usage : N, ttft : B]
      /\ t \in T /\ i \in I /\ o \in O /\ f \in F /\ u \in N /\ b \in B
  BY DEF Gathered
<1>2. /\ Holds(a, a.text, a.items, a.order, a.final)
      /\ Holds([a EXCEPT !.text = t], t, a.items, a.order, a.final)
  BY <1>1 DEF Holds
<1>3. /\ Holds([a EXCEPT !.items = i], a.text, i, a.order, a.final)
      /\ Holds([a EXCEPT !.items = i, !.order = o], a.text, i, o, a.final)
  BY <1>1 DEF Holds
<1>4. Holds([a EXCEPT !.final = f, !.text = t], t, a.items, a.order, f)
  BY <1>1 DEF Holds
<1>5. /\ Holds([a EXCEPT !.usage = u, !.ttft = b], a.text, a.items, a.order, a.final)
      /\ [a EXCEPT !.usage = u, !.ttft = b].usage = u /\ [a EXCEPT !.usage = u, !.ttft = b].ttft = b
  BY <1>1 DEF Holds
<1>6. QED
  BY <1>2, <1>3, <1>4, <1>5 DEF Changes

\* The same, one change at a time.
Updatable(a) ==
  /\ Holds(a, a.text, a.items, a.order, a.final)
  /\ \A t \in Seq(Piece) : Holds([a EXCEPT !.text = t], t, a.items, a.order, a.final)
  /\ \A i \in [Slots -> Item \union {None}] :
       Holds([a EXCEPT !.items = i], a.text, i, a.order, a.final)
  /\ \A i \in [Slots -> Item \union {None}], o \in Seq(Slots) :
       Holds([a EXCEPT !.items = i, !.order = o], a.text, i, o, a.final)
  /\ \A t \in Seq(Piece), f \in Replies :
       Holds([a EXCEPT !.final = f, !.text = t], t, a.items, a.order, f)
  /\ \A u \in Nat, b \in BOOLEAN :
       /\ Holds([a EXCEPT !.usage = u, !.ttft = b], a.text, a.items, a.order, a.final)
       /\ [a EXCEPT !.usage = u, !.ttft = b].usage = u
       /\ [a EXCEPT !.usage = u, !.ttft = b].ttft = b

\* Any record of what was gathered may be changed so.
LEMMA Updated == ASSUME NEW a \in Gathered PROVE Updatable(a)
<1>1. /\ a.text \in Seq(Piece) /\ a.items \in [Slots -> Item \union {None}]
      /\ a.order \in Seq(Slots) /\ a.final \in Replies /\ a.usage \in Nat /\ a.ttft \in BOOLEAN
  BY DEF Gathered
<1> DEFINE t0 == a.text  i0 == a.items  o0 == a.order  f0 == a.final  u0 == a.usage  b0 == a.ttft
<1>2. \A t \in Seq(Piece) : Changes(a, t, i0, o0, f0, u0, b0)
  BY <1>1, Updates
<1>3. \A i \in [Slots -> Item \union {None}], o \in Seq(Slots) : Changes(a, t0, i, o, f0, u0, b0)
  BY <1>1, Updates
<1>4. \A t \in Seq(Piece), f \in Replies : Changes(a, t, i0, o0, f, u0, b0)
  BY <1>1, Updates
<1>5. \A u \in Nat, b \in BOOLEAN : Changes(a, t0, i0, o0, f0, u, b)
  BY <1>1, Updates
<1> HIDE DEF t0, i0, o0, f0, u0, b0
<1>6. /\ \A t \in Seq(Piece) : Holds([a EXCEPT !.text = t], t, a.items, a.order, a.final)
      /\ \A t \in Seq(Piece), f \in Replies :
           Holds([a EXCEPT !.final = f, !.text = t], t, a.items, a.order, f)
  BY <1>2, <1>4 DEF Changes
<1>7. /\ o0 \in Seq(Slots)
      /\ \A i \in [Slots -> Item \union {None}], o \in Seq(Slots) :
           /\ Holds([a EXCEPT !.items = i], a.text, i, a.order, a.final)
           /\ Holds([a EXCEPT !.items = i, !.order = o], a.text, i, o, a.final)
  BY <1>1, <1>3 DEF Changes, o0
<1>8. /\ u0 \in Nat /\ b0 \in BOOLEAN
      /\ \A u \in Nat, b \in BOOLEAN :
        /\ Holds(a, a.text, a.items, a.order, a.final)
        /\ Holds([a EXCEPT !.usage = u, !.ttft = b], a.text, a.items, a.order, a.final)
        /\ [a EXCEPT !.usage = u, !.ttft = b].usage = u
        /\ [a EXCEPT !.usage = u, !.ttft = b].ttft = b
  BY <1>1, <1>5 DEF Changes, u0, b0
<1>9. QED
  BY <1>6, <1>7, <1>8 DEF Updatable

\* A greater number goes to the end of an increasing list.
LEMMA AppendIncreasing ==
  ASSUME NEW f \in Seq(Slots), NEW H \in SUBSET Slots, NEW s \in Slots,
         Increasing(f), Onto(f, H), \A t \in H : t < s
  PROVE  Append(f, s) \in Seq(Slots) /\ Increasing(Append(f, s)) /\ Onto(Append(f, s), H \union {s})
<1> DEFINE g == Append(f, s)
           n == Len(f)
<1>1. /\ n \in Nat /\ DOMAIN f = 1 .. n /\ g \in Seq(Slots) /\ DOMAIN g = 1 .. n + 1
      /\ \A i \in 1 .. n : g[i] = f[i]
      /\ g[n + 1] = s
  BY AppendProperties
<1> HIDE DEF g, n
<1>2. \A i \in 1 .. n + 1 : i \in 1 .. n \/ i = n + 1
  BY <1>1
<1>3. \A i \in 1 .. n : i \in 1 .. n + 1 /\ f[i] \in H
  BY <1>1 DEF Onto
<1>4. Increasing(g)
  <2>1. ASSUME NEW i \in 1 .. n + 1, NEW j \in 1 .. n + 1, i < j PROVE g[i] < g[j]
    <3>1. i \in 1 .. n
      BY <1>1, <2>1
    <3>2. CASE j \in 1 .. n
      BY <1>1, <2>1, <3>1, <3>2 DEF Increasing
    <3>3. CASE j = n + 1
      BY <1>1, <1>3, <3>1, <3>3
    <3>4. QED
      BY <1>2, <3>2, <3>3
  <2>2. QED
    BY <1>1, <2>1 DEF Increasing
<1>5. Onto(g, H \union {s})
  <2>1. \A i \in 1 .. n + 1 : g[i] \in H \union {s}
    BY <1>1, <1>2, <1>3
  <2>2. \A t \in H : \E i \in 1 .. n + 1 : g[i] = t
    BY <1>1, <1>3 DEF Onto
  <2>3. n + 1 \in 1 .. n + 1
    BY <1>1
  <2>4. QED
    BY <1>1, <2>1, <2>2, <2>3 DEF Onto
<1>6. QED
  BY <1>1, <1>4, <1>5 DEF g

\* A new member goes to the end of a list without duplicates.
LEMMA AppendDistinct ==
  ASSUME NEW f \in Seq(Slots), NEW H \in SUBSET Slots, NEW s \in Slots,
         Distinct(f), Onto(f, H), s \notin H
  PROVE  Append(f, s) \in Seq(Slots) /\ Distinct(Append(f, s)) /\ Onto(Append(f, s), H \union {s})
<1> DEFINE g == Append(f, s)
           n == Len(f)
<1>1. /\ n \in Nat /\ DOMAIN f = 1 .. n /\ g \in Seq(Slots) /\ DOMAIN g = 1 .. n + 1
      /\ \A i \in 1 .. n : g[i] = f[i]
      /\ g[n + 1] = s
  BY AppendProperties
<1> HIDE DEF g, n
<1>2. \A i \in 1 .. n + 1 : i \in 1 .. n \/ i = n + 1
  BY <1>1
<1>3. \A i \in 1 .. n : i \in 1 .. n + 1 /\ f[i] \in H
  BY <1>1 DEF Onto
<1>4. Distinct(g)
  BY <1>1, <1>2, <1>3 DEF Distinct
<1>5. Onto(g, H \union {s})
  <2>1. \A i \in 1 .. n + 1 : g[i] \in H \union {s}
    BY <1>1, <1>2, <1>3
  <2>2. \A t \in H : \E i \in 1 .. n + 1 : g[i] = t
    BY <1>1, <1>3 DEF Onto
  <2>3. n + 1 \in 1 .. n + 1
    BY <1>1
  <2>4. QED
    BY <1>1, <2>1, <2>2, <2>3 DEF Onto
<1>6. QED
  BY <1>1, <1>4, <1>5 DEF g


\* The items of a reply, before and after fragments of one slot.
ItemsStep(p, parts, heads, s, n) ==
  /\ ItemsOf(p, parts, heads) \in [Slots -> Item \union {None}]
  /\ ItemsOf(p, [parts EXCEPT ![s] = @ + n], heads \union {s})
       = IF Itemised(p, s)
         THEN [ItemsOf(p, parts, heads) EXCEPT ![s] = Whole(s, parts[s] + n)]
         ELSE ItemsOf(p, parts, heads)
  /\ s \in heads /\ Itemised(p, s) => ItemsOf(p, parts, heads)[s] = Whole(s, parts[s])
  /\ s \notin heads => ItemsOf(p, parts, heads)[s] = None

\* Only the item a chunk is about changes.
LEMMA ItemsGrow ==
  ASSUME NEW p, NEW parts \in [Slots -> Nat], NEW heads \in SUBSET Slots,
         NEW s \in Slots, NEW n \in Nat
  PROVE  ItemsStep(p, parts, heads, s, n)
<1> DEFINE items == ItemsOf(p, parts, heads)
           more  == [parts EXCEPT ![s] = @ + n]
           next  == ItemsOf(p, more, heads \union {s})
           then  == IF Itemised(p, s) THEN [items EXCEPT ![s] = Whole(s, parts[s] + n)] ELSE items
<1>1. \A t \in Slots : parts[t] \in Nat
  OBVIOUS
<1>2. \A t \in Slots : items[t] \in Item \union {None}
  BY <1>1, WholeIs DEF ItemsOf
<1>3. /\ DOMAIN items = Slots /\ DOMAIN next = Slots /\ DOMAIN then = Slots
      /\ items = [t \in Slots |-> items[t]]
  BY DEF ItemsOf
<1>4. items \in [Slots -> Item \union {None}]
  BY <1>2, <1>3
<1>5. ASSUME NEW t \in Slots PROVE next[t] = then[t]
  <2>1. CASE t = s
    <3>1. more[s] = parts[s] + n
      OBVIOUS
    <3>2. next[s] = IF Itemised(p, s) THEN Whole(s, parts[s] + n) ELSE None
      BY <3>1 DEF ItemsOf
    <3>3. ~Itemised(p, s) => items[s] = None
      BY DEF ItemsOf
    <3>4. Itemised(p, s) => then[s] = Whole(s, parts[s] + n)
      BY <1>3
    <3>5. QED
      BY <2>1, <3>2, <3>3, <3>4
  <2>2. CASE t # s
    <3>1. more[t] = parts[t]
      BY <2>2
    <3>2. next[t] = items[t]
      BY <2>2, <3>1 DEF ItemsOf
    <3>3. then[t] = items[t]
      BY <1>3, <2>2
    <3>4. QED
      BY <3>2, <3>3
  <2>3. QED
    BY <2>1, <2>2
<1>6. next = then
  <2>1. next = [t \in Slots |-> next[t]]
    BY DEF ItemsOf
  <2>2. then = [t \in Slots |-> then[t]]
    BY <1>3
  <2> HIDE DEF next, then
  <2>3. QED
    BY <1>5, <2>1, <2>2
<1>7. /\ s \in heads /\ Itemised(p, s) => items[s] = Whole(s, parts[s])
      /\ s \notin heads => items[s] = None
  BY DEF ItemsOf
<1>8. QED
  BY <1>4, <1>6, <1>7 DEF ItemsStep

\* A chunk obeys the protocol.
LEMMA ChunkArrived ==
  ASSUME given \in Given, Arrived, NEW s \in Slots, NEW head \in BOOLEAN, NEW n \in Nat,
         Chunk(s, head, n)
  PROVE  /\ Arrived' /\ head = (s \notin given.heads)
         /\ given.parts[s] \in Nat /\ (head => given.parts[s] = 0)
         /\ cfg.provider \in {"openai_responses", "anthropic"} /\ head =>
              n = 0 /\ \A t \in given.heads : t < s
         /\ cfg.provider = "google" /\ KindOf[s] = "call" => head
<1> DEFINE k == given.parts[s]
<1>0. k + n <= Size[s] /\ (cfg.provider = "google" /\ KindOf[s] = "call" => n = Size[s])
  BY DEF Chunk, Sendable
<1>1. head = (s \notin given.heads) /\ cfg' = cfg
  BY DEF Chunk, Sendable
<1>2. cfg.provider \in {"openai_responses", "anthropic"} =>
        (head => n = 0 /\ \A t \in Slots : t < s => t \in given.heads)
  BY DEF Chunk, Sendable
<1>3. /\ given'.heads = given.heads \union {s} /\ given'.parts = [given.parts EXCEPT ![s] = @ + n]
  BY ChunkGiven
<1>4. /\ given.parts \in [Slots -> Nat] /\ given.heads \in SUBSET Slots /\ k \in Nat
  BY DEF Given
<1>5. /\ given'.parts[s] = k + n
      /\ \A t \in Slots : t # s => given'.parts[t] = given.parts[t]
  BY <1>3, <1>4
<1>6. head => k = 0
  BY <1>1 DEF Arrived
<1>7. \A t \in Slots : given'.parts[t] <= Size[t] /\ (t \notin given'.heads => given'.parts[t] = 0)
  <2>1. \A t \in Slots : t # s => given'.parts[t] <= Size[t]
                                 /\ (t \notin given'.heads => given'.parts[t] = 0)
    BY <1>3, <1>5 DEF Arrived
  <2>2. given'.parts[s] <= Size[s] /\ s \in given'.heads
    <3>1. s \in given'.heads
      BY <1>3
    <3> HIDE DEF k
    <3>2. QED
      BY <1>0, <1>5, <3>1
  <2>3. QED
    BY <2>1, <2>2
<1>8. cfg.provider = "google" /\ KindOf[s] = "call" => head /\ given'.parts[s] = Size[s]
  <2>1. Size[s] \in Nat \ {0}
    BY StreamAssumption
  <2>2. ASSUME cfg.provider = "google", KindOf[s] = "call" PROVE head /\ given'.parts[s] = Size[s]
    <3>1. k + Size[s] <= Size[s] /\ n = Size[s]
      BY <1>0, <2>2
    <3>2. k = 0
      <4> HIDE DEF k
      <4>1. QED
        BY <1>4, <2>1, <3>1
    <3>3. s \notin given.heads
      <4>1. CASE s \in given.heads
        <5>1. k = Size[s]
          BY <2>2, <4>1 DEF Arrived, CallsIn
        <5>2. QED
          BY <2>1, <3>2, <5>1
      <4>2. QED
        BY <4>1
    <3>4. head
      BY <1>1, <3>3
    <3>5. given'.parts[s] = Size[s]
      <4> HIDE DEF k
      <4>1. k + n = Size[s]
        BY <2>1, <3>1, <3>2
      <4>2. QED
        BY <1>5, <4>1
    <3>6. QED
      BY <3>4, <3>5
  <2>3. QED
    BY <2>2
<1>9. cfg.provider = "google" => \A t \in CallsIn(given'.heads) : given'.parts[t] = Size[t]
  <2>1. ASSUME cfg.provider = "google", NEW t \in CallsIn(given'.heads)
        PROVE  given'.parts[t] = Size[t]
    <3>1. t \in Slots /\ KindOf[t] = "call" /\ (t \in given.heads \/ t = s)
      BY <1>3, <1>4 DEF CallsIn
    <3>2. CASE t = s
      BY <1>8, <2>1, <3>1, <3>2
    <3>3. CASE t # s
      BY <1>5, <2>1, <3>1, <3>3 DEF Arrived, CallsIn
    <3>4. QED
      BY <3>2, <3>3
  <2>2. QED
    BY <2>1
<1>10. cfg.provider \in {"openai_responses", "anthropic"} =>
         \A u \in given'.heads, t \in Slots : t < u => t \in given'.heads
  BY <1>1, <1>2, <1>3 DEF Arrived
<1>11. cfg.provider \in {"openai_responses", "anthropic"} /\ head =>
         n = 0 /\ \A t \in given.heads : t < s
  <2>1. ASSUME cfg.provider \in {"openai_responses", "anthropic"}, head, NEW t \in given.heads
        PROVE  t < s
    <3>1. t # s /\ s \in Nat /\ t \in Nat
      BY <1>1, <1>4, <2>1, StreamAssumption
    <3>2. ~(s < t)
      BY <1>1, <2>1 DEF Arrived
    <3>3. QED
      BY <3>1, <3>2
  <2>2. QED
    BY <1>2, <2>1
<1>12. Arrived'
  BY <1>1, <1>7, <1>9, <1>10 DEF Arrived
<1>13. QED
  BY <1>1, <1>4, <1>6, <1>8, <1>11, <1>12


\* The locals after a chunk, but for the usage and the time.
After(s, head, n) ==
  Accumulate(acc, s, head, Pieces(s, given.parts[s], n), given'.parts, given'.heads)

\* What the accumulators start from, and what they are to make.
LEMMA ChunkFacts ==
  ASSUME Lawful, given \in Given, Reading, NEW s \in Slots, NEW head \in BOOLEAN,
         NEW n \in Nat, Chunk(s, head, n), NEW new, new = Pieces(s, given.parts[s], n)
  PROVE  /\ Updatable(acc) /\ acc \in Gathered /\ acc.text \in Seq(Piece) /\ acc.order \in Seq(Slots)
         /\ acc.items \in [Slots -> Item \union {None}]
         /\ new \in Seq(Piece) /\ acc.text \o new \in Seq(Piece)
         /\ given'.heads = given.heads \union {s} /\ given'.heads \in SUBSET Slots
         /\ given'.parts \in [Slots -> Nat]
         /\ (IF cfg.provider \in Texted THEN TextOf(given'.parts) ELSE <<>>)
              = IF cfg.provider \in Texted /\ KindOf[s] = "text" THEN acc.text \o new ELSE acc.text
         /\ ItemsOf(cfg.provider, given'.parts, given'.heads)
              = IF Itemised(cfg.provider, s)
                THEN [acc.items EXCEPT ![s] = Whole(s, given.parts[s] + n)]
                ELSE acc.items
         /\ \/ Itemised(cfg.provider, s) => acc.items[s] = Whole(s, given.parts[s])
            \/ acc.items[s] = None /\ given.parts[s] = 0 /\ head
<1>1. /\ given'.heads = given.heads \union {s} /\ given'.parts = [given.parts EXCEPT ![s] = @ + n]
      /\ given' \in Given
  BY ChunkGiven
<1>2. /\ given.parts \in [Slots -> Nat] /\ given.heads \in SUBSET Slots /\ given.parts[s] \in Nat
      /\ given'.parts \in [Slots -> Nat] /\ given'.heads \in SUBSET Slots
  BY <1>1 DEF Given
<1>3. acc \in Gathered /\ Updatable(acc)
  BY Updated DEF Reading, Kept
<1>4. /\ acc.text \in Seq(Piece) /\ acc.order \in Seq(Slots)
      /\ acc.items \in [Slots -> Item \union {None}]
  BY <1>3 DEF Gathered
<1>5. new \in Seq(Piece)
  BY <1>2, PiecesAre
<1>6. acc.text \o new \in Seq(Piece)
  BY <1>4, <1>5
<1>7. /\ acc.text = IF cfg.provider \in Texted THEN TextOf(given.parts) ELSE <<>>
      /\ acc.items = ItemsOf(cfg.provider, given.parts, given.heads)
  BY DEF Reading, Kept
<1>8. TextOf(given'.parts) = IF KindOf[s] = "text" THEN TextOf(given.parts) \o new
                             ELSE TextOf(given.parts)
  <2>1. TextOf([given.parts EXCEPT ![s] = @ + n])
          = IF KindOf[s] = "text" THEN TextOf(given.parts) \o Pieces(s, given.parts[s], n)
            ELSE TextOf(given.parts)
    BY <1>2, TextGrows
  <2>2. QED
    BY <1>1, <2>1
<1>9. (IF cfg.provider \in Texted THEN TextOf(given'.parts) ELSE <<>>)
        = IF cfg.provider \in Texted /\ KindOf[s] = "text" THEN acc.text \o new ELSE acc.text
  BY <1>7, <1>8
<1>10. s \notin given.heads => given.parts[s] = 0
  BY DEF Reading, Arrived
<1>11. ItemsStep(cfg.provider, given.parts, given.heads, s, n)
  BY <1>2, ItemsGrow
<1>12. ItemsOf(cfg.provider, given'.parts, given'.heads)
        = IF Itemised(cfg.provider, s)
          THEN [acc.items EXCEPT ![s] = Whole(s, given.parts[s] + n)] ELSE acc.items
  BY <1>1, <1>7, <1>11 DEF ItemsStep
<1>13. /\ s \in given.heads /\ Itemised(cfg.provider, s) => acc.items[s] = Whole(s, given.parts[s])
       /\ s \notin given.heads => acc.items[s] = None
  BY <1>7, <1>11 DEF ItemsStep
<1>14. s \notin given.heads => head
  BY ChunkArrived DEF Reading
<1>15. \/ Itemised(cfg.provider, s) => acc.items[s] = Whole(s, given.parts[s])
       \/ acc.items[s] = None /\ given.parts[s] = 0 /\ head
  BY <1>10, <1>13, <1>14
<1>16. QED
  BY <1>1, <1>2, <1>3, <1>4, <1>5, <1>6, <1>9, <1>12, <1>15

\* The accumulators of the chat streams: OpenAI's shape, and Cohere's events.
LEMMA ChatAccumulated ==
  ASSUME Lawful, given \in Given, Reading, NEW s \in Slots, NEW head \in BOOLEAN,
         NEW n \in Nat, Chunk(s, head, n), cfg.provider \in Shaped \union {"cohere"}
  PROVE  Kept(cfg.provider, After(s, head, n), given'.parts, given'.heads)
<1> DEFINE k     == given.parts[s]
           new   == Pieces(s, k, n)
           items == [acc.items EXCEPT ![s] = Whole(s, k + n)]
           text  == acc.text \o new
           p     == cfg.provider
<1>1. /\ Updatable(acc) /\ acc.items \in [Slots -> Item \union {None}]
      /\ text \in Seq(Piece) /\ k \in Nat /\ given'.heads \in SUBSET Slots
      /\ given'.parts \in [Slots -> Nat] /\ acc.text \in Seq(Piece)
  BY ChunkFacts DEF Given
<1>2. /\ p \in Texted /\ p \notin {"xai", "other", "openai_responses", "anthropic", "google"}
      /\ Itemised(p, s) <=> KindOf[s] = "call"
      /\ KindOf[s] \in {"text", "call"}
  BY StreamAssumption DEF Itemised, Texted, Shaped
<1>3. /\ TextOf(given'.parts) = IF KindOf[s] = "text" THEN text ELSE acc.text
      /\ ItemsOf(p, given'.parts, given'.heads) = IF KindOf[s] = "call" THEN items ELSE acc.items
  BY <1>2, ChunkFacts
<1>4. KindOf[s] = "call" =>
        acc.items[s] = Whole(s, k) \/ (acc.items[s] = None /\ k = 0 /\ head)
  BY <1>2, ChunkFacts
<1>5. k + n \in Nat /\ items \in [Slots -> Item \union {None}]
  <2>1. k + n \in Nat
    BY <1>1
  <2>2. Whole(s, k + n) \in Item \union {None}
    BY <2>1, WholeIs
  <2>3. QED
    BY <1>1, <2>1, <2>2
<1>6. CASE KindOf[s] = "text"
  <2>1. After(s, head, n) = [acc EXCEPT !.text = text]
    <3>1. \A otherwise : TextOr(acc, s, new, otherwise) = [acc EXCEPT !.text = text]
      BY <1>6 DEF TextOr
    <3>2. CASE p \in Shaped
      BY <3>1, <3>2 DEF After, Accumulate, AccumulateShaped, Shaped
    <3>3. CASE p = "cohere" /\ p \notin Shaped
      BY <3>1, <3>3 DEF After, Accumulate, AccumulateCohere
    <3>4. QED
      BY <3>2, <3>3
  <2>2. \A t \in Seq(Piece) : Holds([acc EXCEPT !.text = t], t, acc.items, acc.order, acc.final)
    BY <1>1 DEF Updatable
  <2>3. Holds(After(s, head, n), text, acc.items, acc.order, acc.final)
    BY <1>1, <2>1, <2>2
  <2>4. QED
    BY <1>2, <1>3, <1>6, <2>3 DEF Holds, Kept
<1>7. CASE KindOf[s] = "call"
  <2>1. After(s, head, n) = [acc EXCEPT !.items = items]
    <3>1. \A otherwise : TextOr(acc, s, new, otherwise) = [acc EXCEPT !.items = otherwise]
      BY <1>7 DEF TextOr
    <3>2. CASE p \in Shaped
      <4>1. Slotted(acc.items, s, "call", head, new) = items
        <5>1. \/ acc.items[s] = Whole(s, k)
              \/ acc.items[s] = None /\ k = 0 /\ head /\ "call" = KindOf[s]
          BY <1>4, <1>7
        <5>2. PICK i : i = acc.items
          OBVIOUS
        <5>3. Slotted(i, s, "call", head, new) = [i EXCEPT ![s] = Whole(s, k + n)]
          <6>1. i \in [Slots -> Item \union {None}] /\ k \in Nat
                /\ (i[s] = Whole(s, k) \/ (i[s] = None /\ k = 0 /\ head /\ "call" = KindOf[s]))
            BY <1>1, <5>1, <5>2
          <6> HIDE DEF k
          <6>2. QED
            BY <6>1, SlottedIs
        <5>4. QED
          BY <5>2, <5>3
      <4>2. QED
        BY <3>1, <3>2, <4>1 DEF After, Accumulate, AccumulateShaped, Shaped
    <3>3. CASE p = "cohere" /\ p \notin Shaped
      <4>1. head => Begun(acc.items, s, "call", new) = items
        <5>1. head => k = 0
          BY ChunkArrived DEF Reading
        <5>2. head => k + n = n
          BY <1>1, <5>1
        <5>3. QED
          BY <1>7, <5>1, <5>2 DEF Begun, Whole
      <4>2. ~head => acc.items[s] = Whole(s, k) /\ acc.items[s] # None
        BY <1>1, <1>4, <1>7, WholeIs
      <4>3. ~head => Slotted(acc.items, s, "call", FALSE, new) = items
        <5>1. ASSUME ~head PROVE SlottedOn(acc.items, s, k, n)
          <6> HIDE DEF k
          <6>1. QED
            BY <1>1, <4>2, <5>1, SlottedKnown
        <5>2. QED
          BY <5>1 DEF SlottedOn
      <4>4. QED
        BY <3>1, <3>3, <4>1, <4>2, <4>3 DEF After, Accumulate, AccumulateCohere
    <3>4. QED
      BY <3>2, <3>3
  <2>2. \A i \in [Slots -> Item \union {None}] :
          Holds([acc EXCEPT !.items = i], acc.text, i, acc.order, acc.final)
    BY <1>1 DEF Updatable
  <2>3. Holds(After(s, head, n), acc.text, items, acc.order, acc.final)
    BY <1>5, <2>1, <2>2
  <2>4. QED
    BY <1>2, <1>3, <1>7, <2>3 DEF Holds, Kept
<1>8. QED
  BY <1>2, <1>6, <1>7


\* An item begun afresh.
LEMMA BegunIs ==
  ASSUME NEW items, NEW s \in Slots, NEW n \in Nat
  PROVE  Begun(items, s, KindOf[s], Pieces(s, 0, n)) = [items EXCEPT ![s] = Whole(s, n)]
BY DEF Begun, Whole

\* Whole items may be put in a table of items.
LEMMA ItemPut ==
  ASSUME NEW items \in [Slots -> Item \union {None}], NEW s \in Slots, NEW n \in Nat
  PROVE  [items EXCEPT ![s] = Whole(s, n)] \in [Slots -> Item \union {None}]
<1>1. Whole(s, n) \in Item \union {None}
  BY WholeIs
<1>2. QED
  BY <1>1

\* The accumulator of the Responses API: the events of items by their index.
LEMMA ResponsesAccumulated ==
  ASSUME Lawful, given \in Given, Reading, NEW s \in Slots, NEW head \in BOOLEAN,
         NEW n \in Nat, Chunk(s, head, n), cfg.provider = "openai_responses"
  PROVE  Kept(cfg.provider, After(s, head, n), given'.parts, given'.heads)
<1> DEFINE k     == given.parts[s]
           new   == Pieces(s, k, n)
           items == [acc.items EXCEPT ![s] = Whole(s, k + n)]
           p     == cfg.provider
<1>1. /\ Updatable(acc) /\ acc.items \in [Slots -> Item \union {None}]
      /\ acc.order \in Seq(Slots) /\ given'.heads = given.heads \union {s}
      /\ given.heads \in SUBSET Slots
  BY ChunkFacts DEF Given
<1>2. p \notin Texted /\ Itemised(p, s) /\ p # "google" /\ p # "xai"
  BY DEF Itemised, Texted, Shaped
<1>3. /\ acc.text = <<>>
      /\ ItemsOf(p, given'.parts, given'.heads) = items
      /\ acc.items[s] = Whole(s, k) \/ head
  BY <1>2, ChunkFacts DEF Reading, Kept
<1>4. /\ k \in Nat /\ head = (s \notin given.heads)
      /\ head => k = 0 /\ n = 0 /\ \A t \in given.heads : t < s
  BY ChunkArrived DEF Reading
<1>5. Increasing(acc.order) /\ Onto(acc.order, given.heads)
  BY DEF Reading, Kept
<1>6. items \in [Slots -> Item \union {None}]
  <2>1. k + n \in Nat
    BY <1>4
  <2> HIDE DEF k
  <2>2. QED
    BY <1>1, <2>1, ItemPut
<1>7. CASE head
  <2> DEFINE order == Append(acc.order, s)
  <2>1. order \in Seq(Slots) /\ Increasing(order) /\ Onto(order, given'.heads)
    <3>1. PICK f, H : f = acc.order /\ H = given.heads
      OBVIOUS
    <3>2. Append(f, s) \in Seq(Slots) /\ Increasing(Append(f, s)) /\ Onto(Append(f, s), H \union {s})
      <4>1. f \in Seq(Slots) /\ H \in SUBSET Slots /\ Increasing(f) /\ Onto(f, H)
            /\ \A t \in H : t < s
        BY <1>1, <1>4, <1>5, <1>7, <3>1
      <4>2. QED
        BY <4>1, AppendIncreasing
    <3>3. QED
      BY <1>1, <3>1, <3>2
  <2>2. ~(\E i \in DOMAIN acc.order : acc.order[i] = s)
    BY <1>4, <1>5, <1>7 DEF Onto
  <2>3. Begun(acc.items, s, KindOf[s], <<>>) = items
    <3>1. <<>> = Pieces(s, 0, 0) /\ k + n = 0 /\ 0 \in Nat
      BY <1>4, <1>7, PiecesJoin
    <3>2. Begun(acc.items, s, KindOf[s], Pieces(s, 0, 0)) = [acc.items EXCEPT ![s] = Whole(s, 0)]
      BY <3>1, BegunIs
    <3>3. QED
      BY <3>1, <3>2
  <2>4. After(s, head, n) = AccumulateResponses(acc, s, head, new)
    BY DEF After, Accumulate, Shaped
  <2>5. AccumulateResponses(acc, s, head, new)
          = [acc EXCEPT !.items = Begun(acc.items, s, KindOf[s], <<>>), !.order = order]
    BY <1>7, <2>2 DEF AccumulateResponses
  <2> HIDE DEF items, order
  <2>6. Holds(After(s, head, n), acc.text, items, order, acc.final)
    <3>1. After(s, head, n) = [acc EXCEPT !.items = items, !.order = order]
      BY <2>3, <2>4, <2>5
    <3>2. Holds([acc EXCEPT !.items = items, !.order = order], acc.text, items, order, acc.final)
      BY <1>1, <1>6, <2>1 DEF Updatable
    <3>3. QED
      BY <3>1, <3>2
  <2>7. QED
    BY <1>2, <1>3, <2>1, <2>6 DEF Holds, Kept
<1>8. CASE ~head
  <2>1. given'.heads = given.heads
    BY <1>1, <1>4, <1>8
  <2>2. SlottedOn(acc.items, s, k, n)
    <3> HIDE DEF k
    <3>1. QED
      BY <1>1, <1>3, <1>4, <1>8, SlottedKnown
  <2>3. After(s, head, n) = AccumulateResponses(acc, s, head, new)
    BY DEF After, Accumulate, Shaped
  <2>4. AccumulateResponses(acc, s, head, new)
          = [acc EXCEPT !.items = Slotted(acc.items, s, KindOf[s], FALSE, new)]
    BY <1>8 DEF AccumulateResponses
  <2>5. Slotted(acc.items, s, KindOf[s], FALSE, new) = items
    BY <2>2 DEF SlottedOn
  <2> HIDE DEF items
  <2>6. Holds(After(s, head, n), acc.text, items, acc.order, acc.final)
    <3>1. After(s, head, n) = [acc EXCEPT !.items = items]
      BY <2>3, <2>4, <2>5
    <3>2. Holds([acc EXCEPT !.items = items], acc.text, items, acc.order, acc.final)
      BY <1>1, <1>6 DEF Updatable
    <3>3. QED
      BY <3>1, <3>2
  <2>7. QED
    BY <1>2, <1>3, <1>5, <2>1, <2>6 DEF Holds, Kept
<1>9. QED
  BY <1>7, <1>8

\* The accumulator of Anthropic: the events of blocks by their index.
LEMMA AnthropicAccumulated ==
  ASSUME Lawful, given \in Given, Reading, NEW s \in Slots, NEW head \in BOOLEAN,
         NEW n \in Nat, Chunk(s, head, n), cfg.provider = "anthropic"
  PROVE  Kept(cfg.provider, After(s, head, n), given'.parts, given'.heads)
<1> DEFINE k     == given.parts[s]
           new   == Pieces(s, k, n)
           items == [acc.items EXCEPT ![s] = Whole(s, k + n)]
           p     == cfg.provider
<1>1. Updatable(acc) /\ acc.items \in [Slots -> Item \union {None}]
  BY ChunkFacts
<1>2. p \notin Texted /\ Itemised(p, s) /\ p # "google" /\ p # "xai" /\ p # "openai_responses"
  BY DEF Itemised, Texted, Shaped
<1>3. /\ acc.text = <<>>
      /\ ItemsOf(p, given'.parts, given'.heads) = items
      /\ acc.items[s] = Whole(s, k) \/ head
  BY <1>2, ChunkFacts DEF Reading, Kept
<1>4. k \in Nat /\ (head => k = 0 /\ n = 0)
  BY ChunkArrived DEF Reading
<1>5. items \in [Slots -> Item \union {None}]
  <2>1. k + n \in Nat
    BY <1>4
  <2> HIDE DEF k
  <2>2. QED
    BY <1>1, <2>1, ItemPut
<1>6. (IF head THEN Begun(acc.items, s, KindOf[s], <<>>)
       ELSE Slotted(acc.items, s, "text", FALSE, new)) = items
  <2>1. CASE head
    <3>1. <<>> = Pieces(s, 0, 0) /\ k + n = 0 /\ 0 \in Nat
      BY <1>4, <2>1, PiecesJoin
    <3>2. Begun(acc.items, s, KindOf[s], Pieces(s, 0, 0)) = [acc.items EXCEPT ![s] = Whole(s, 0)]
      BY <3>1, BegunIs
    <3>3. QED
      BY <2>1, <3>1, <3>2
  <2>2. CASE ~head
    <3>1. SlottedOn(acc.items, s, k, n)
      <4> HIDE DEF k
      <4>1. QED
        BY <1>1, <1>3, <1>4, <2>2, SlottedKnown
    <3>2. QED
      BY <2>2, <3>1 DEF SlottedOn
  <2>3. QED
    BY <2>1, <2>2
<1>7. After(s, head, n) = AccumulateAnthropic(acc, s, head, new)
  BY DEF After, Accumulate, Shaped
<1>8. AccumulateAnthropic(acc, s, head, new)
        = [acc EXCEPT !.items = IF head THEN Begun(acc.items, s, KindOf[s], <<>>)
                                ELSE Slotted(acc.items, s, "text", FALSE, new)]
  BY DEF AccumulateAnthropic
<1> HIDE DEF items, new
<1>9. Holds(After(s, head, n), acc.text, items, acc.order, acc.final)
  <2>1. After(s, head, n) = [acc EXCEPT !.items = items]
    BY <1>6, <1>7, <1>8
  <2>2. Holds([acc EXCEPT !.items = items], acc.text, items, acc.order, acc.final)
    BY <1>1, <1>5 DEF Updatable
  <2>3. QED
    BY <2>1, <2>2
<1>10. QED
  BY <1>2, <1>3, <1>9 DEF Holds, Kept

\* The accumulator of Google: text and whole calls, as they come.
LEMMA GoogleAccumulated ==
  ASSUME Lawful, given \in Given, Reading, NEW s \in Slots, NEW head \in BOOLEAN,
         NEW n \in Nat, Chunk(s, head, n), cfg.provider = "google"
  PROVE  Kept(cfg.provider, After(s, head, n), given'.parts, given'.heads)
<1> DEFINE k     == given.parts[s]
           new   == Pieces(s, k, n)
           items == [acc.items EXCEPT ![s] = Whole(s, k + n)]
           text  == acc.text \o new
           p     == cfg.provider
<1>1. /\ Updatable(acc) /\ acc.items \in [Slots -> Item \union {None}]
      /\ text \in Seq(Piece) /\ acc.order \in Seq(Slots)
      /\ given'.heads = given.heads \union {s} /\ given.heads \in SUBSET Slots
  BY ChunkFacts DEF Given
<1>2. /\ p \in Texted /\ p # "openai_responses" /\ p # "xai"
      /\ Itemised(p, s) <=> KindOf[s] = "call"
      /\ KindOf[s] \in {"text", "call"}
  BY StreamAssumption DEF Itemised, Texted, Shaped
<1>3. /\ TextOf(given'.parts) = IF KindOf[s] = "text" THEN text ELSE acc.text
      /\ ItemsOf(p, given'.parts, given'.heads) = IF KindOf[s] = "call" THEN items ELSE acc.items
  BY <1>2, ChunkFacts
<1>4. /\ k \in Nat /\ head = (s \notin given.heads) /\ (head => k = 0)
      /\ KindOf[s] = "call" => head
  BY ChunkArrived DEF Reading
<1>5. Distinct(acc.order) /\ Onto(acc.order, CallsIn(given.heads))
  BY DEF Reading, Kept
<1>6. After(s, head, n) = AccumulateGoogle(acc, s, new)
  BY DEF After, Accumulate, Shaped
<1>7. CASE KindOf[s] = "text"
  <2>1. CallsIn(given'.heads) = CallsIn(given.heads)
    BY <1>1, <1>7 DEF CallsIn
  <2>2. After(s, head, n) = [acc EXCEPT !.text = text]
    BY <1>6, <1>7 DEF AccumulateGoogle
  <2> HIDE DEF text
  <2>3. Holds(After(s, head, n), text, acc.items, acc.order, acc.final)
    BY <1>1, <2>2 DEF Updatable
  <2>4. QED
    BY <1>2, <1>3, <1>5, <1>7, <2>1, <2>3 DEF Holds, Kept
<1>8. CASE KindOf[s] = "call"
  <2> DEFINE order == Append(acc.order, s)
  <2>1. CallsIn(given'.heads) = CallsIn(given.heads) \union {s}
    BY <1>1, <1>8 DEF CallsIn
  <2>2. s \notin CallsIn(given.heads) /\ CallsIn(given.heads) \in SUBSET Slots
    BY <1>1, <1>4, <1>8 DEF CallsIn
  <2>3. order \in Seq(Slots) /\ Distinct(order) /\ Onto(order, CallsIn(given'.heads))
    <3>1. PICK f, H : f = acc.order /\ H = CallsIn(given.heads)
      OBVIOUS
    <3>2. Append(f, s) \in Seq(Slots) /\ Distinct(Append(f, s)) /\ Onto(Append(f, s), H \union {s})
      <4>1. f \in Seq(Slots) /\ H \in SUBSET Slots /\ Distinct(f) /\ Onto(f, H) /\ s \notin H
        BY <1>1, <1>5, <2>2, <3>1
      <4>2. QED
        BY <4>1, AppendDistinct
    <3>3. QED
      BY <2>1, <3>1, <3>2
  <2>4. Begun(acc.items, s, "call", new) = items
    <3>1. k = 0 /\ k + n = n
      BY <1>4, <1>8
    <3>2. Begun(acc.items, s, KindOf[s], Pieces(s, 0, n)) = [acc.items EXCEPT ![s] = Whole(s, n)]
      BY BegunIs
    <3>3. QED
      BY <1>8, <3>1, <3>2
  <2>5. items \in [Slots -> Item \union {None}]
    <3>1. k + n \in Nat
      BY <1>4
    <3> HIDE DEF k
    <3>2. QED
      BY <1>1, <3>1, ItemPut
  <2>6. After(s, head, n) = [acc EXCEPT !.items = Begun(acc.items, s, "call", new), !.order = order]
    BY <1>6, <1>8 DEF AccumulateGoogle
  <2> HIDE DEF items, order, new
  <2>7. Holds(After(s, head, n), acc.text, items, order, acc.final)
    <3>1. After(s, head, n) = [acc EXCEPT !.items = items, !.order = order]
      BY <2>4, <2>6
    <3>2. Holds([acc EXCEPT !.items = items, !.order = order], acc.text, items, order, acc.final)
      BY <1>1, <2>3, <2>5 DEF Updatable
    <3>3. QED
      BY <3>1, <3>2
  <2>8. QED
    BY <1>2, <1>3, <1>8, <2>3, <2>7 DEF Holds, Kept
<1>9. QED
  BY <1>2, <1>7, <1>8


\* The calls of a reply are finitely many, and can be listed.
LEMMA CallsListed ==
  ASSUME NEW heads \in SUBSET Slots
  PROVE  /\ CallsIn(heads) \in SUBSET Nat /\ IsFiniteSet(CallsIn(heads))
         /\ CallsIn(heads) \in SUBSET Slots /\ Cardinality(CallsIn(heads)) \in Nat
         /\ Ascending(CallsIn(heads)) \in [1 .. Cardinality(CallsIn(heads)) -> CallsIn(heads)]
         /\ Ascending(CallsIn(heads)) \in [1 .. Cardinality(CallsIn(heads)) -> Slots]
         /\ Onto(Ascending(CallsIn(heads)), CallsIn(heads))
<1> DEFINE S == CallsIn(heads)
<1>1. S \in SUBSET Slots /\ IsFiniteSet(Slots) /\ Slots \in SUBSET Nat
  BY StreamAssumption DEF CallsIn
<1>2. IsFiniteSet(S)
  <2> HIDE DEF S
  <2>1. QED
    BY <1>1, FS_Subset
<1>3. S \in SUBSET Nat
  BY <1>1
<1> HIDE DEF S
<1>4. /\ Cardinality(S) \in Nat /\ Ascending(S) \in [1 .. Cardinality(S) -> S]
      /\ Onto(Ascending(S), S)
  BY <1>2, <1>3, AscendingIs
<1>5. Ascending(S) \in [1 .. Cardinality(S) -> Slots]
  BY <1>1, <1>4
<1>6. QED
  BY <1>1, <1>2, <1>3, <1>4, <1>5 DEF S

\* The accumulator of xai: what its SDK has accumulated.
LEMMA XaiAccumulated ==
  ASSUME Lawful, given \in Given, Reading, NEW s \in Slots, NEW head \in BOOLEAN,
         NEW n \in Nat, Chunk(s, head, n), cfg.provider = "xai"
  PROVE  Kept(cfg.provider, After(s, head, n), given'.parts, given'.heads)
<1> DEFINE new   == Pieces(s, given.parts[s], n)
           text  == IF KindOf[s] = "text" THEN acc.text \o new ELSE acc.text
           final == ReplyOf(given'.parts, given'.heads, Ascending(CallsIn(given'.heads)))
           p     == cfg.provider
<1>1. /\ Updatable(acc) /\ acc.text \in Seq(Piece) /\ acc.text \o new \in Seq(Piece)
      /\ given'.heads \in SUBSET Slots /\ given'.parts \in [Slots -> Nat]
  BY ChunkFacts
<1>2. p \in Texted /\ ~Itemised(p, s) /\ p # "google" /\ p # "openai_responses"
  BY DEF Itemised, Texted, Shaped
<1>3. TextOf(given'.parts) = text /\ ItemsOf(p, given'.parts, given'.heads) = acc.items
  BY <1>2, ChunkFacts
<1>4. final \in Replies
  <2>1. PICK parts, heads : parts = given'.parts /\ heads = given'.heads
    OBVIOUS
  <2>2. /\ Cardinality(CallsIn(heads)) \in Nat
        /\ Ascending(CallsIn(heads)) \in [1 .. Cardinality(CallsIn(heads)) -> Slots]
        /\ parts \in [Slots -> Nat]
    BY <1>1, <2>1, CallsListed
  <2>3. ReplyOf(parts, heads, Ascending(CallsIn(heads))) \in Replies
    BY <2>2, ReplyTyped
  <2>4. QED
    BY <2>1, <2>3
<1>5. After(s, head, n) = AccumulateXai(acc, s, new, given'.parts, given'.heads)
  BY DEF After, Accumulate, Shaped
<1>6. AccumulateXai(acc, s, new, given'.parts, given'.heads)
        = [acc EXCEPT !.final = final, !.text = text]
  BY DEF AccumulateXai
<1>7. text \in Seq(Piece)
  BY <1>1
<1> HIDE DEF text, final
<1>8. Holds(After(s, head, n), text, acc.items, acc.order, final)
  <2>1. After(s, head, n) = [acc EXCEPT !.final = final, !.text = text]
    BY <1>5, <1>6
  <2>2. Holds([acc EXCEPT !.final = final, !.text = text], text, acc.items, acc.order, final)
    BY <1>1, <1>4, <1>7 DEF Updatable
  <2>3. QED
    BY <2>1, <2>2
<1>9. QED
  BY <1>2, <1>3, <1>8 DEF Holds, Kept, final

\* Whatever the wire, the locals say what was sent.
LEMMA Accumulated ==
  ASSUME Lawful, given \in Given, Reading, NEW s \in Slots, NEW head \in BOOLEAN,
         NEW n \in Nat, Chunk(s, head, n)
  PROVE  Kept(cfg.provider, After(s, head, n), given'.parts, given'.heads)
<1>1. CASE cfg.provider = "other"
  <2>1. After(s, head, n) = acc
    BY <1>1 DEF After, Accumulate, Shaped
  <2>2. /\ cfg.provider \notin Texted /\ ~Itemised(cfg.provider, s)
    BY <1>1 DEF Itemised, Texted, Shaped
  <2>3. ItemsOf(cfg.provider, given'.parts, given'.heads) = acc.items
    BY <2>2, ChunkFacts
  <2>4. QED
    BY <1>1, <2>1, <2>2, <2>3 DEF Reading, Kept
<1>2. CASE cfg.provider \in Shaped \union {"cohere"}
  BY <1>2, ChatAccumulated
<1>3. CASE cfg.provider = "openai_responses"
  BY <1>3, ResponsesAccumulated
<1>4. CASE cfg.provider = "anthropic"
  BY <1>4, AnthropicAccumulated
<1>5. CASE cfg.provider = "google"
  BY <1>5, GoogleAccumulated
<1>6. CASE cfg.provider = "xai"
  BY <1>6, XaiAccumulated
<1>7. QED
  BY <1>1, <1>2, <1>3, <1>4, <1>5, <1>6 DEF Lawful, Wires


-------------------------------------------------------------------------------
(* The response made of what was gathered.                                   *)

\* What the row of a provider tells, as Told has it.
Wire(p, order, heads) == IF p = "google" THEN order ELSE Ascending(CallsIn(heads))
ToldOf(p, order, parts, heads) ==
  LET cs    == Wire(p, order, heads)
      whole == ReplyOf(parts, heads, cs)
  IN  IF p = "other" THEN Nothing
      ELSE IF p = "anthropic"
      THEN [text |-> whole.text, calls |-> [i \in DOMAIN cs |->
             [whole.calls[i] EXCEPT !.args = Parsed(cs[i], @)]]]
      ELSE whole

\* There is something to tell.
Began(parts, heads) == TextOf(parts) # <<>> \/ CallsIn(heads) # {}

\* A list of calls that have begun.
Lists(cs, heads) ==
  \E m \in Nat : cs \in [1 .. m -> CallsIn(heads)] /\ cs \in [1 .. m -> Slots]

\* Of the wires that keep items, the items held are those begun.
LEMMA HeldIs ==
  ASSUME NEW p, NEW a, NEW parts \in [Slots -> Nat], NEW heads \in SUBSET Slots,
         Kept(p, a, parts, heads), p \notin {"xai", "other"}
  PROVE  /\ Held(a, "call") = CallsIn(heads)
         /\ p \in {"openai_responses", "anthropic"} => Held(a, "text") = heads \cap TextSlots
         /\ \A s \in heads : p \in {"openai_responses", "anthropic"} \/ KindOf[s] = "call"
              => a.items[s] = Whole(s, parts[s])
<1>1. \A s \in Slots : parts[s] \in Nat /\ KindOf[s] \in {"text", "call"}
  BY StreamAssumption
<1>2. ASSUME NEW s \in Slots
      PROVE  /\ s \in heads /\ Itemised(p, s) => a.items[s] = Whole(s, parts[s])
             /\ ~(s \in heads /\ Itemised(p, s)) => a.items[s] = None
  BY DEF Kept, ItemsOf
<1>3. \A s \in Slots : Itemised(p, s) <=> KindOf[s] = "call" \/ p \in {"openai_responses", "anthropic"}
  BY DEF Itemised
<1>4. \A s \in Slots : Whole(s, parts[s]) # None /\ Whole(s, parts[s]).kind = KindOf[s]
  BY <1>1, WholeIs
<1>5. ASSUME NEW s \in Slots, NEW kind \in {"text", "call"}
      PROVE  s \in Held(a, kind) <=> s \in heads /\ Itemised(p, s) /\ KindOf[s] = kind
  <2>1. s \in Held(a, kind) <=> a.items[s] # None /\ a.items[s].kind = kind
    BY DEF Held
  <2>2. CASE s \in heads /\ Itemised(p, s)
    BY <1>2, <1>4, <2>1, <2>2
  <2>3. CASE ~(s \in heads /\ Itemised(p, s))
    BY <1>2, <2>1, <2>3
  <2>4. QED
    BY <2>2, <2>3
<1>6. Held(a, "call") \subseteq Slots /\ Held(a, "text") \subseteq Slots
  BY DEF Held
<1>7. Held(a, "call") = CallsIn(heads)
  BY <1>3, <1>5, <1>6 DEF CallsIn
<1>8. p \in {"openai_responses", "anthropic"} => Held(a, "text") = heads \cap TextSlots
  BY <1>3, <1>5, <1>6 DEF TextSlots
<1>9. QED
  BY <1>2, <1>3, <1>7, <1>8

\* The calls held, and the calls sent.
CallsAre(a, parts, heads, cs) ==
  /\ CallsOf(a, cs) = ReplyOf(parts, heads, cs).calls
  /\ \A i \in DOMAIN cs : CallOf(a, cs[i]) = ReplyOf(parts, heads, cs).calls[i]

\* The calls held are told as they were sent.
LEMMA CallsTold ==
  ASSUME NEW p, NEW a, NEW parts \in [Slots -> Nat], NEW heads \in SUBSET Slots,
         Kept(p, a, parts, heads), p \notin {"xai", "other"}, NEW cs, Lists(cs, heads)
  PROVE  CallsAre(a, parts, heads, cs)
<1> DEFINE r(i) == [slot |-> cs[i], named |-> cs[i] \in heads,
                    args |-> Pieces(cs[i], 0, parts[cs[i]])]
<1>1. ASSUME NEW i \in DOMAIN cs PROVE CallOf(a, cs[i]) = r(i)
  <2> DEFINE s == cs[i]
  <2>1. s \in heads /\ KindOf[s] = "call" /\ s \in Slots
    BY DEF Lists, CallsIn
  <2>2. a.items[s] = Whole(s, parts[s])
    BY <2>1, HeldIs
  <2>3. parts[s] \in Nat
    BY <2>1
  <2> HIDE DEF s
  <2>4. Whole(s, parts[s]).named = TRUE /\ Whole(s, parts[s]).parts = Pieces(s, 0, parts[s])
    BY DEF Whole
  <2>5. CallOf(a, s) = [slot |-> s, named |-> TRUE, args |-> Pieces(s, 0, parts[s])]
    BY <2>2, <2>4 DEF CallOf
  <2>6. (s \in heads) = TRUE
    BY <2>1
  <2>7. QED
    BY <2>5, <2>6 DEF s
<1>2. ReplyOf(parts, heads, cs).calls = [i \in DOMAIN cs |-> r(i)]
  BY DEF ReplyOf
<1> HIDE DEF r
<1>3. CallsOf(a, cs) = [i \in DOMAIN cs |-> r(i)]
  BY <1>1 DEF CallsOf
<1>4. QED
  BY <1>1, <1>2, <1>3 DEF CallsAre

\* The text among the items is the text of the reply.
LEMMA TextTold ==
  ASSUME NEW p, NEW a, NEW parts \in [Slots -> Nat], NEW heads \in SUBSET Slots,
         Kept(p, a, parts, heads), p \in {"openai_responses", "anthropic"},
         \A s \in Slots : s \notin heads => parts[s] = 0
  PROVE  TextAmong(a, heads \cap TextSlots) = TextOf(parts)
<1> DEFINE t == CHOOSE t \in TextSlots : TRUE
           u == CHOOSE u \in heads \cap TextSlots : TRUE
<1>1. CASE TextSlots = {}
  BY <1>1 DEF TextAmong, TextOf
<1>2. CASE TextSlots # {}
  <2>1. t \in TextSlots /\ t \in Slots /\ KindOf[t] = "text"
    BY <1>2 DEF TextSlots
  <2>2. TextOf(parts) = Pieces(t, 0, parts[t])
    BY <1>2 DEF TextOf
  <2>3. \A x \in TextSlots : x = t
    BY <2>1, StreamAssumption DEF TextSlots
  <2>4. CASE heads \cap TextSlots = {}
    <3>1. TextAmong(a, heads \cap TextSlots) = <<>>
      BY <2>4 DEF TextAmong
    <3>2. t \notin heads
      BY <2>1, <2>4
    <3> HIDE DEF t
    <3>3. parts[t] = 0
      BY <2>1, <3>2
    <3>4. QED
      BY <2>1, <2>2, <3>1, <3>3, PiecesJoin
  <2>5. CASE heads \cap TextSlots # {}
    <3>1. u \in heads /\ u \in TextSlots
      BY <2>5
    <3>2. u = t
      BY <2>3, <3>1
    <3>3. TextAmong(a, heads \cap TextSlots) = a.items[u].parts
      BY <2>5 DEF TextAmong
    <3> HIDE DEF t, u
    <3>4. a.items[t] = Whole(t, parts[t])
      BY <3>1, <3>2, HeldIs
    <3>5. QED
      BY <2>2, <3>2, <3>3, <3>4 DEF Whole
  <2>6. QED
    BY <2>4, <2>5
<1>3. QED
  BY <1>1, <1>2


\* The items of the Responses API, in the order they were added: the calls, in
\* ascending order of their indices.
LEMMA ListedIs ==
  ASSUME NEW a, NEW parts \in [Slots -> Nat], NEW heads \in SUBSET Slots,
         Kept("openai_responses", a, parts, heads)
  PROVE  Listed(a, "call") = Ascending(CallsIn(heads))
<1> DEFINE o == a.order
           I == {i \in DOMAIN o : a.items[o[i]].kind = "call"}
           at == Ascending(I)
           m == Cardinality(I)
           f == [j \in 1 .. m |-> o[at[j]]]
           S == CallsIn(heads)
<1>1. o \in Seq(Slots) /\ Increasing(o) /\ Onto(o, heads)
  BY DEF Kept, Gathered
<1>2. DOMAIN o = 1 .. Len(o) /\ Len(o) \in Nat /\ \A i \in DOMAIN o : i \in Nat /\ o[i] \in Slots
  BY <1>1
<1>3. \A i \in DOMAIN o : i \in I <=> o[i] \in S
  <2>1. ASSUME NEW i \in DOMAIN o PROVE a.items[o[i]].kind = KindOf[o[i]] /\ o[i] \in heads
    <3>1. o[i] \in heads /\ o[i] \in Slots
      BY <1>1, <1>2 DEF Onto
    <3>2. a.items[o[i]] = Whole(o[i], parts[o[i]])
      BY <3>1, HeldIs
    <3> HIDE DEF o
    <3>3. QED
      BY <3>1, <3>2 DEF Whole
  <2>2. QED
    BY <2>1 DEF CallsIn
<1>4. IsFiniteSet(I) /\ I \in SUBSET Nat
  <2>1. IsFiniteSet(1 .. Len(o))
    BY <1>2, FS_Interval
  <2>2. I \in SUBSET (1 .. Len(o)) /\ I \in SUBSET Nat
    BY <1>2
  <2> HIDE DEF I, o
  <2>3. QED
    BY <2>1, <2>2, FS_Subset
<1>5. \A i \in I : i \in DOMAIN o
  OBVIOUS
<1> HIDE DEF I
<1>6. m \in Nat /\ at \in [1 .. m -> I] /\ Increasing(at) /\ Onto(at, I)
  BY <1>4, AscendingIs
<1>7. Listed(a, "call") = f
  <2>1. Listed(a, "call") = [j \in DOMAIN at |-> o[at[j]]]
    BY DEF Listed, I
  <2>2. DOMAIN at = 1 .. m
    BY <1>6
  <2>3. QED
    BY <2>1, <2>2
<1> HIDE DEF o, at, m
<1>8. f \in [1 .. m -> S]
  <2>1. ASSUME NEW j \in 1 .. m PROVE o[at[j]] \in S
    <3>1. at[j] \in I
      BY <1>6
    <3>2. QED
      BY <1>3, <1>5, <3>1
  <2> HIDE DEF S
  <2>2. QED
    BY <2>1
<1>9. Increasing(f)
  <2>1. ASSUME NEW i \in 1 .. m, NEW j \in 1 .. m, i < j PROVE o[at[i]] < o[at[j]]
    <3>1. at[i] \in DOMAIN o /\ at[j] \in DOMAIN o
      BY <1>5, <1>6
    <3>2. at[i] < at[j]
      <4>1. DOMAIN at = 1 .. m
        BY <1>6
      <4>2. QED
        BY <1>6, <2>1, <4>1 DEF Increasing
    <3>3. QED
      BY <1>1, <3>1, <3>2 DEF Increasing
  <2>2. QED
    BY <2>1 DEF Increasing
<1>10. Onto(f, S)
  <2>1. ASSUME NEW s \in S PROVE \E j \in 1 .. m : o[at[j]] = s
    <3>1. s \in heads
      BY DEF CallsIn
    <3>2. PICK i \in DOMAIN o : o[i] = s
      BY <1>1, <3>1 DEF Onto
    <3>3. i \in I
      BY <1>3, <3>2
    <3>4. PICK j \in DOMAIN at : at[j] = i
      BY <1>6, <3>3 DEF Onto
    <3>5. j \in 1 .. m
      BY <1>6
    <3>6. QED
      BY <3>2, <3>4, <3>5
  <2>2. \A j \in 1 .. m : f[j] \in S
    BY <1>8
  <2>3. QED
    BY <2>1, <2>2 DEF Onto
<1>11. S \in SUBSET Nat /\ IsFiniteSet(S)
  BY CallsListed
<1> HIDE DEF f, S
<1>12. f = Ascending(S)
  BY <1>6, <1>8, <1>9, <1>10, <1>11, AscendingOnly
<1>13. QED
  BY <1>7, <1>12 DEF S

\* What is told lists calls that have begun, and is a reply; it is nothing only
\* if nothing has been said.
LEMMA ToldIs ==
  ASSUME NEW p, NEW order \in Seq(Slots), NEW parts \in [Slots -> Nat], NEW heads \in SUBSET Slots,
         p = "google" => Onto(order, CallsIn(heads))
  PROVE  /\ Lists(Wire(p, order, heads), heads)
         /\ ToldOf(p, order, parts, heads) \in Replies
         /\ ToldOf(p, order, parts, heads) # Nothing <=> p # "other" /\ Began(parts, heads)
<1> DEFINE cs    == Wire(p, order, heads)
           C     == [slot : Slots, named : BOOLEAN, args : Seq(Piece)]
           whole == ReplyOf(parts, heads, cs)
           told  == ToldOf(p, order, parts, heads)
<1>1. \E m \in Nat : cs \in [1 .. m -> CallsIn(heads)] /\ cs \in [1 .. m -> Slots] /\ Onto(cs, CallsIn(heads))
  <2>1. CASE p = "google"
    <3>1. order \in [1 .. Len(order) -> Slots] /\ Len(order) \in Nat
      OBVIOUS
    <3>2. order \in [1 .. Len(order) -> CallsIn(heads)]
      BY <2>1, <3>1 DEF Onto
    <3>3. QED
      BY <2>1, <3>1, <3>2 DEF Wire
  <2>2. CASE p # "google"
    <3>1. cs = Ascending(CallsIn(heads))
      BY <2>2 DEF Wire
    <3>2. QED
      BY <3>1, CallsListed
  <2>3. QED
    BY <2>1, <2>2
<1>2. Lists(cs, heads)
  BY <1>1 DEF Lists
<1>3. PICK m \in Nat : cs \in [1 .. m -> Slots] /\ cs \in [1 .. m -> CallsIn(heads)] /\ Onto(cs, CallsIn(heads))
  BY <1>1
<1>4. CallsIn(heads) = {} <=> DOMAIN cs = {}
  BY <1>3 DEF Onto
<1>5. whole \in Replies
  <2> HIDE DEF cs
  <2>1. QED
    BY <1>3, ReplyTyped
<1>6. /\ whole.text = TextOf(parts) /\ DOMAIN whole.calls = 1 .. m
      /\ \A i \in 1 .. m : whole.calls[i] \in C
  <2>1. whole.text = TextOf(parts) /\ DOMAIN whole.calls = DOMAIN cs
    BY DEF ReplyOf
  <2>2. whole.calls \in Seq(C)
    BY <1>5 DEF Replies, Piece
  <2> HIDE DEF whole, C, cs
  <2>3. DOMAIN cs = 1 .. m
    BY <1>3
  <2>4. QED
    BY <2>1, <2>2, <2>3
<1>7. TextOf(parts) \in Seq(Piece)
  BY <1>5, <1>6 DEF Replies, Piece
<1> DEFINE parsed == [text |-> whole.text, calls |-> [i \in DOMAIN cs |->
                       [whole.calls[i] EXCEPT !.args = Parsed(cs[i], @)]]]
<1>8. parsed \in Replies /\ DOMAIN parsed.calls = DOMAIN cs /\ parsed.text = whole.text
  <2> DEFINE q(i) == [whole.calls[i] EXCEPT !.args = Parsed(cs[i], @)]
             qs == [i \in DOMAIN cs |-> q(i)]
  <2>1. ASSUME NEW i \in 1 .. m PROVE q(i) \in C
    <3> DEFINE c == whole.calls[i]
    <3>1. c \in C /\ c.args \in Seq(Piece)
      BY <1>6
    <3>2. Parsed(cs[i], c.args) \in Seq(Piece)
      <4>1. c.args \in Seq(Piece) /\ <<>> \in Seq(Piece)
        BY <3>1
      <4> HIDE DEF c, cs
      <4>2. QED
        BY <4>1 DEF Parsed
    <3> HIDE DEF c, cs
    <3>3. [c EXCEPT !.args = Parsed(cs[i], c.args)] \in C
      BY <3>1, <3>2
    <3>4. QED
      BY <3>3 DEF c
  <2>2. DOMAIN cs = 1 .. m
    BY <1>3
  <2> HIDE DEF q, C, whole, cs
  <2>3. qs \in [1 .. m -> C] /\ DOMAIN qs = DOMAIN cs
    BY <2>1, <2>2
  <2>4. parsed = [text |-> whole.text, calls |-> qs]
    BY DEF q
  <2> HIDE DEF qs, parsed
  <2>5. qs \in Seq(C)
    BY <2>3
  <2>6. QED
    BY <1>6, <1>7, <2>3, <2>4, <2>5 DEF Replies, Piece, C
<1>9. told = IF p = "other" THEN Nothing ELSE IF p = "anthropic" THEN parsed ELSE whole
  BY DEF ToldOf
<1>10. Nothing \in Replies /\ Nothing.text = <<>> /\ Nothing.calls = <<>>
  BY DEF Nothing, Replies
<1>11. ASSUME NEW r \in Replies, r.text = TextOf(parts), DOMAIN r.calls = DOMAIN cs
       PROVE  r # Nothing <=> Began(parts, heads)
  <2>1. r.calls = <<>> <=> DOMAIN r.calls = {}
    <3>1. r.calls \in Seq([slot : Slots, named : BOOLEAN, args : Seq(Slots \X Nat)])
      BY DEF Replies
    <3>2. PICK c, D : c = r.calls /\ c \in Seq(D)
      BY <3>1
    <3>3. DOMAIN c = 1 .. Len(c) /\ Len(c) \in Nat /\ (c = <<>> <=> Len(c) = 0)
      BY <3>2, EmptySeq
    <3>4. PICK l : l = Len(c)
      OBVIOUS
    <3>5. 1 .. l = {} <=> l = 0
      <4>1. l \in Nat
        BY <3>3, <3>4
      <4>2. l # 0 => 1 \in 1 .. l
        BY <4>1
      <4>3. QED
        BY <4>1, <4>2
    <3>6. c = <<>> <=> DOMAIN c = {}
      BY <3>3, <3>4, <3>5
    <3>7. QED
      BY <3>2, <3>6
  <2>2. r = Nothing <=> r.text = <<>> /\ r.calls = <<>>
    BY DEF Nothing, Replies
  <2>3. QED
    BY <1>4, <1>11, <2>1, <2>2 DEF Began
<1>12. told \in Replies
  BY <1>5, <1>8, <1>9, <1>10
<1>13. whole # Nothing <=> Began(parts, heads)
  <2>1. DOMAIN whole.calls = DOMAIN cs
    BY DEF ReplyOf
  <2> HIDE DEF whole, cs
  <2>2. QED
    BY <1>5, <1>6, <1>11, <2>1
<1>14. parsed # Nothing <=> Began(parts, heads)
  <2> HIDE DEF parsed, whole, cs
  <2>1. QED
    BY <1>6, <1>8, <1>11
<1>15. told # Nothing <=> p # "other" /\ Began(parts, heads)
  <2> HIDE DEF parsed, whole, told
  <2>1. QED
    BY <1>9, <1>13, <1>14
<1>16. QED
  BY <1>2, <1>12, <1>15


\* The response made of what was gathered is what was sent, as its row tells it.
LEMMA ResponseIs ==
  ASSUME Lawful, NEW a, NEW parts \in [Slots -> Nat], NEW heads \in SUBSET Slots,
         Kept(cfg.provider, a, parts, heads), \A s \in Slots : s \notin heads => parts[s] = 0
  PROVE  /\ Response(a) = ToldOf(cfg.provider, a.order, parts, heads)
         /\ Response(a) \in Replies
         /\ HasContent(a) <=> cfg.provider = "other" \/ Began(parts, heads)
<1> DEFINE p   == cfg.provider
           asc == Ascending(CallsIn(heads))
<1>1. a.order \in Seq(Slots) /\ (p = "google" => Onto(a.order, CallsIn(heads)))
  BY DEF Kept, Gathered
<1>2. /\ Lists(Wire(p, a.order, heads), heads)
      /\ ToldOf(p, a.order, parts, heads) \in Replies
      /\ ToldOf(p, a.order, parts, heads) # Nothing <=> p # "other" /\ Began(parts, heads)
  BY <1>1, ToldIs
<1>3. \A cs : ReplyOf(parts, heads, cs) = [text  |-> TextOf(parts), calls |-> ReplyOf(parts, heads, cs).calls]
  BY DEF ReplyOf
<1>4. Response(a) = ToldOf(p, a.order, parts, heads)
  <2>1. CASE p \in Shaped \union {"cohere"}
    <3>1. p \in Texted /\ p \notin {"xai", "other", "google", "anthropic", "openai_responses"}
      BY <2>1 DEF Texted, Shaped
    <3>2. a.text = TextOf(parts)
      BY <3>1 DEF Kept
    <3>3. Held(a, "call") = CallsIn(heads)
      BY <3>1, HeldIs
    <3>4. Wire(p, a.order, heads) = asc
      BY <3>1 DEF Wire
    <3>5. CallsOf(a, asc) = ReplyOf(parts, heads, asc).calls
      <4>1. p \notin {"xai", "other"} /\ Lists(asc, heads)
        BY <1>2, <3>1, <3>4
      <4> HIDE DEF asc
      <4>2. CallsAre(a, parts, heads, asc)
        BY <4>1, CallsTold
      <4>3. QED
        BY <4>2 DEF CallsAre
    <3>6. Response(a) = [text |-> a.text, calls |-> CallsOf(a, Ascending(Held(a, "call")))]
      BY <2>1, <3>1 DEF Response
    <3>7. ToldOf(p, a.order, parts, heads) = ReplyOf(parts, heads, asc)
      BY <3>1, <3>4 DEF ToldOf
    <3>8. QED
      BY <1>3, <3>2, <3>3, <3>5, <3>6, <3>7
  <2>2. CASE p = "google"
    <3>1. p \in Texted /\ p \notin Shaped \union {"cohere"}
      BY <2>2 DEF Texted, Shaped
    <3>2. a.text = TextOf(parts)
      BY <3>1 DEF Kept
    <3>3. Wire(p, a.order, heads) = a.order
      BY <2>2 DEF Wire
    <3>4. CallsOf(a, a.order) = ReplyOf(parts, heads, a.order).calls
      <4>1. p \notin {"xai", "other"} /\ Lists(a.order, heads)
        BY <1>2, <2>2, <3>3
      <4>2. CallsAre(a, parts, heads, a.order)
        BY <4>1, CallsTold
      <4>3. QED
        BY <4>2 DEF CallsAre
    <3>5. Response(a) = [text |-> a.text, calls |-> CallsOf(a, a.order)]
      BY <2>2, <3>1 DEF Response
    <3>6. ToldOf(p, a.order, parts, heads) = ReplyOf(parts, heads, a.order)
      BY <2>2, <3>3 DEF ToldOf
    <3>7. QED
      BY <1>3, <3>2, <3>4, <3>5, <3>6
  <2>3. CASE p = "openai_responses"
    <3>1. p \notin Shaped \union {"cohere"}
      BY <2>3 DEF Shaped
    <3>2. Held(a, "text") = heads \cap TextSlots
      BY <2>3, HeldIs
    <3>3. \A s \in heads : \E i \in DOMAIN a.order : a.order[i] = s
      BY <2>3 DEF Kept, Onto
    <3>4. {s \in Held(a, "text") : \E i \in DOMAIN a.order : a.order[i] = s} = heads \cap TextSlots
      BY <3>2, <3>3
    <3>5. TextAmong(a, heads \cap TextSlots) = TextOf(parts)
      BY <2>3, TextTold
    <3>6. Listed(a, "call") = asc
      BY <2>3, ListedIs
    <3>7. Wire(p, a.order, heads) = asc
      BY <2>3 DEF Wire
    <3>8. CallsOf(a, asc) = ReplyOf(parts, heads, asc).calls
      <4>1. p \notin {"xai", "other"} /\ Lists(asc, heads)
        BY <1>2, <2>3, <3>7
      <4> HIDE DEF asc
      <4>2. CallsAre(a, parts, heads, asc)
        BY <4>1, CallsTold
      <4>3. QED
        BY <4>2 DEF CallsAre
    <3>9. Response(a) = [text |-> TextAmong(a, {s \in Held(a, "text") :
                                             \E i \in DOMAIN a.order : a.order[i] = s}),
                         calls |-> CallsOf(a, Listed(a, "call"))]
      BY <2>3, <3>1 DEF Response
    <3>10. ToldOf(p, a.order, parts, heads) = ReplyOf(parts, heads, asc)
      BY <2>3, <3>7 DEF ToldOf
    <3>11. QED
      BY <1>3, <3>4, <3>5, <3>6, <3>8, <3>9, <3>10
  <2>4. CASE p = "anthropic"
    <3>1. p \notin Shaped \union {"cohere"}
      BY <2>4 DEF Shaped
    <3>2. Held(a, "text") = heads \cap TextSlots /\ Held(a, "call") = CallsIn(heads)
      BY <2>4, HeldIs
    <3>3. TextAmong(a, heads \cap TextSlots) = TextOf(parts)
      BY <2>4, TextTold
    <3>4. Wire(p, a.order, heads) = asc
      BY <2>4 DEF Wire
    <3>5. \A i \in DOMAIN asc : CallOf(a, asc[i]) = ReplyOf(parts, heads, asc).calls[i]
      <4>1. p \notin {"xai", "other"} /\ Lists(asc, heads)
        BY <1>2, <2>4, <3>4
      <4> HIDE DEF asc
      <4>2. CallsAre(a, parts, heads, asc)
        BY <4>1, CallsTold
      <4>3. QED
        BY <4>2 DEF CallsAre
    <3>6. Response(a)
            = [text  |-> TextAmong(a, Held(a, "text")),
               calls |-> [i \in DOMAIN Ascending(Held(a, "call")) |->
                 [CallOf(a, Ascending(Held(a, "call"))[i])
                    EXCEPT !.args = Parsed(Ascending(Held(a, "call"))[i], @)]]]
      BY <2>4, <3>1 DEF Response
    <3>7. ToldOf(p, a.order, parts, heads)
            = [text |-> ReplyOf(parts, heads, asc).text, calls |-> [i \in DOMAIN asc |->
                 [ReplyOf(parts, heads, asc).calls[i] EXCEPT !.args = Parsed(asc[i], @)]]]
      BY <2>4, <3>4 DEF ToldOf
    <3>8. ReplyOf(parts, heads, asc).text = TextOf(parts)
      BY DEF ReplyOf
    <3>9. Response(a) = [text  |-> TextOf(parts), calls |-> [i \in DOMAIN asc |->
                           [CallOf(a, asc[i]) EXCEPT !.args = Parsed(asc[i], @)]]]
      BY <3>2, <3>3, <3>6
    <3> HIDE DEF asc
    <3>10. QED
      BY <3>5, <3>7, <3>8, <3>9
  <2>5. CASE p = "xai"
    <3>1. p \in Texted /\ p \notin Shaped \union {"cohere"}
      BY <2>5 DEF Texted, Shaped
    <3>2. a.text = TextOf(parts) /\ a.final = ReplyOf(parts, heads, asc)
      BY <2>5, <3>1 DEF Kept
    <3>3. ToldOf(p, a.order, parts, heads) = ReplyOf(parts, heads, asc)
      BY <2>5 DEF ToldOf, Wire
    <3>4. Response(a) = IF a.final # Nothing THEN a.final ELSE [text |-> a.text, calls |-> <<>>]
      BY <2>5, <3>1 DEF Response
    <3>5. a.final = Nothing => a.text = <<>>
      BY <1>2, <2>5, <3>2, <3>3 DEF Began
    <3>6. QED
      BY <3>2, <3>3, <3>4, <3>5 DEF Nothing
  <2>6. CASE p = "other"
    BY <2>6 DEF Response, ToldOf, Shaped
  <2>7. QED
    BY <2>1, <2>2, <2>3, <2>4, <2>5, <2>6 DEF Lawful, Wires
<1>5. QED
  BY <1>2, <1>4 DEF HasContent

\* The invariant says that the reply is told as it was streamed.
LEMMA ReadingTells == Lawful /\ given \in Given /\ Reading => ReplyAsStreamed
<1> SUFFICES ASSUME Lawful, given \in Given, Reading PROVE ReplyAsStreamed
  OBVIOUS
<1>1. given.parts \in [Slots -> Nat] /\ given.heads \in SUBSET Slots
  BY DEF Given
<1>2. /\ Kept(cfg.provider, acc, given.parts, given.heads)
      /\ \A s \in Slots : s \notin given.heads => given.parts[s] = 0
  BY DEF Reading, Arrived
<1>3. Response(acc) = ToldOf(cfg.provider, acc.order, given.parts, given.heads)
  BY <1>1, <1>2, ResponseIs
<1>4. Told = ToldOf(cfg.provider, acc.order, given.parts, given.heads)
  BY DEF Told, ToldOf, Wire
<1>5. cfg.provider = "google" => Distinct(acc.order) /\ Onto(acc.order, CallsIn(given.heads))
  BY <1>2 DEF Kept
<1>6. cfg.provider = "google" =>
        /\ \A i, j \in DOMAIN acc.order : acc.order[i] = acc.order[j] => i = j
        /\ \A s \in Slots : s \in CallsIn(given.heads) <=> \E i \in DOMAIN acc.order : acc.order[i] = s
  BY <1>5 DEF Distinct, Onto
<1>7. QED
  BY <1>3, <1>4, <1>6 DEF ReplyAsStreamed


-------------------------------------------------------------------------------
(* The generator and its row.                                                *)

\* The usage is the last that was reported, and the first chunk was timed when
\* there was something to tell.
Timed ==
  /\ acc.usage = given.usage
  /\ acc.ttft <=> IF cfg.provider = "other" THEN app.chunks > 0
                  ELSE Began(given.parts, given.heads)

\* The row of a span that ends after the generator.
LateRow == [SpanRow(ask.count, FALSE) EXCEPT !.usage = 0]

\* Before the end only the payload of a refused first request waits; a failure
\* leaves what waits, and what is metered leaves nothing.
Queued ==
  /\ pc # "asking" => ask.count \in {1, 2}
  /\ pc \notin Over \/ pc = "unread" =>
       \/ deferred = <<>>
       \/ deferred = <<1>> /\ ~cfg.manual /\ ask.count = IF pc = "asking" THEN 1 ELSE 2
  /\ pc \in {"failed", "refused"} =>
       deferred = <<>> \/ \E i, j \in {1, 2} : deferred = <<i>> \/ deferred = <<i, j>>
  /\ pc \in {"done", "closed"} => deferred = <<>>

\* The rows in each state: the refused request's comes first.
Booked ==
  /\ pc \notin Over => rows = <<>>
  /\ pc \in {"failed", "refused"} => rows = <<FailureRow(ask.count)>>
  /\ pc \in {"done", "closed"} /\ cfg.manual => rows = ManualRows
  /\ pc = "unread" => rows = <<>> \/ (~cfg.manual /\ rows = <<LateRow>>)
  /\ pc = "done" /\ ~cfg.manual =>
       \/ ask.count = 1 /\ rows = <<SpanRow(1, TRUE)>>
       \/ ask.count = 2 /\ rows = <<SpanRow(2, TRUE)>>
       \/ ask.count = 2 /\ rows = <<SpanRow(1, TRUE), SpanRow(2, FALSE)>>
  /\ pc = "closed" /\ ~cfg.manual =>
       \/ rows = <<>> \/ rows = <<LateRow>>
       \/ ask.count = 2 /\ (rows = <<SpanRow(1, TRUE)>> \/ rows = <<SpanRow(1, TRUE), LateRow>>)

\* What is true of every state.
SInv == Invisible /\ Reading /\ Timed /\ Queued /\ Booked

\* Before the first chunk nothing has been told.
LEMMA InitReads == Init => SInv
<1> SUFFICES ASSUME Init PROVE SInv
  OBVIOUS
<1> DEFINE zero == [s \in Slots |-> 0]
           none == [s \in Slots |-> None]
<1>1. /\ given.heads = {} /\ given.parts = zero /\ given.usage = 0 /\ app.chunks = 0
      /\ rows = <<>> /\ deferred = <<>> /\ pc = "asking"
  BY DEF Init
<1>2. acc = [text |-> <<>>, items |-> none, order |-> <<>>, final |-> Nothing,
             usage |-> 0, ttft |-> FALSE]
  BY DEF Init
<1>3. Invisible
  BY InitInvisible
<1>4. Arrived
  <2>1. \A s \in Slots : zero[s] = 0 /\ Size[s] \in Nat /\ 0 <= Size[s]
    BY StreamAssumption
  <2>2. CallsIn({}) = {}
    BY DEF CallsIn
  <2>3. QED
    BY <1>1, <2>1, <2>2 DEF Arrived
<1>5. zero \in [Slots -> Nat] /\ none \in [Slots -> Item \union {None}]
  OBVIOUS
<1>6. /\ <<>> \in Seq(Piece) /\ <<>> \in Seq(Slots) /\ 0 \in Nat /\ FALSE \in BOOLEAN
  OBVIOUS
<1>7. Nothing \in Replies
  BY DEF Nothing, Replies
<1>8. acc \in Gathered
  <2> HIDE DEF none
  <2>1. QED
    BY <1>2, <1>5, <1>6, <1>7 DEF Gathered
<1>9. /\ acc.text = <<>> /\ acc.items = none /\ acc.order = <<>> /\ acc.final = Nothing
      /\ acc.usage = 0 /\ acc.ttft = FALSE
  BY <1>2
<1>10. TextOf(zero) = <<>>
  <2>1. CASE TextSlots = {}
    BY <2>1 DEF TextOf
  <2>2. CASE TextSlots # {}
    <3> DEFINE t == CHOOSE t \in TextSlots : TRUE
    <3>1. t \in Slots
      BY <2>2 DEF TextSlots
    <3>2. TextOf(zero) = Pieces(t, 0, zero[t])
      BY <2>2 DEF TextOf
    <3> HIDE DEF t
    <3>3. zero[t] = 0
      BY <3>1
    <3>4. QED
      BY <3>1, <3>2, <3>3, PiecesJoin
  <2>3. QED
    BY <2>1, <2>2
<1>11. ItemsOf(cfg.provider, zero, {}) = none
  BY DEF ItemsOf
<1>12. CallsIn({}) = {} /\ Increasing(<<>>) /\ Distinct(<<>>) /\ Onto(<<>>, {})
  BY DEF CallsIn, Increasing, Distinct, Onto
<1>13. ~Began(zero, {})
  BY <1>10, <1>12 DEF Began
<1>14. ReplyOf(zero, {}, Ascending(CallsIn({}))) = Nothing
  <2>1. /\ ToldOf("xai", <<>>, zero, {}) = ReplyOf(zero, {}, Ascending(CallsIn({})))
    BY DEF ToldOf, Wire
  <2>2. {} \in SUBSET Slots
    OBVIOUS
  <2> HIDE DEF zero
  <2>3. ToldOf("xai", <<>>, zero, {}) = Nothing
    BY <1>5, <1>6, <1>13, <2>2, ToldIs
  <2>4. QED
    BY <2>1, <2>3
<1> HIDE DEF zero, none
<1>15. Kept(cfg.provider, acc, zero, {})
  BY <1>8, <1>9, <1>10, <1>11, <1>12, <1>14 DEF Kept
<1>16. Reading
  BY <1>1, <1>4, <1>15 DEF Reading
<1>17. Timed
  BY <1>1, <1>9, <1>13 DEF Timed
<1>18. Booked /\ Queued
  BY <1>1 DEF Booked, Queued, Over
<1>19. QED
  BY <1>3, <1>16, <1>17, <1>18 DEF SInv

\* The accumulators leave the usage and the time alone.
SameMeter(a, b) == b.usage = a.usage /\ b.ttft = a.ttft

\* No change of a part is one of the meter.
LEMMA ChangesNoMeter ==
  ASSUME NEW a, NEW x, NEW y
  PROVE  /\ SameMeter(a, a) /\ SameMeter(a, [a EXCEPT !.text = x])
         /\ SameMeter(a, [a EXCEPT !.items = x]) /\ SameMeter(a, [a EXCEPT !.items = x, !.order = y])
         /\ SameMeter(a, [a EXCEPT !.final = x, !.text = y])
BY DEF SameMeter

\* Whatever the wire.
LEMMA AccumulatedMeter ==
  ASSUME Lawful, NEW s \in Slots, NEW head, NEW n
  PROVE  SameMeter(acc, After(s, head, n))
<1> DEFINE a     == acc
           new   == Pieces(s, given.parts[s], n)
           told  == After(s, head, n)
<1>1. ASSUME NEW x PROVE SameMeter(a, TextOr(a, s, new, x))
  BY ChangesNoMeter DEF TextOr
<1>2. CASE cfg.provider \in Shaped
  BY <1>1, <1>2 DEF After, Accumulate, AccumulateShaped, Shaped
<1>3. CASE cfg.provider = "cohere"
  BY <1>1, <1>3 DEF After, Accumulate, AccumulateCohere, Shaped
<1>4. CASE cfg.provider = "openai_responses"
  <2>1. told = AccumulateResponses(a, s, head, new)
    BY <1>4 DEF After, Accumulate, Shaped
  <2>2. QED
    BY <2>1 DEF AccumulateResponses, SameMeter
<1>5. CASE cfg.provider = "anthropic"
  <2>1. told = AccumulateAnthropic(a, s, head, new)
    BY <1>5 DEF After, Accumulate, Shaped
  <2>2. QED
    BY <2>1 DEF AccumulateAnthropic, SameMeter
<1>6. CASE cfg.provider = "google"
  <2>1. told = AccumulateGoogle(a, s, new)
    BY <1>6 DEF After, Accumulate, Shaped
  <2>2. QED
    BY <2>1 DEF AccumulateGoogle, SameMeter
<1>7. CASE cfg.provider = "xai"
  <2>1. told = AccumulateXai(a, s, new, given'.parts, given'.heads)
    BY <1>7 DEF After, Accumulate, Shaped
  <2>2. QED
    BY <2>1 DEF AccumulateXai, SameMeter
<1>8. CASE cfg.provider = "other"
  BY <1>8, ChangesNoMeter DEF After, Accumulate, Shaped
<1>9. QED
  BY <1>2, <1>3, <1>4, <1>5, <1>6, <1>7, <1>8 DEF Lawful, Wires

\* A chunk is accumulated, timed and handed on.
LEMMA ChunkReads ==
  ASSUME SInv, NEW s \in Slots, NEW head \in BOOLEAN, NEW n \in Nat, Chunk(s, head, n)
  PROVE  SInv'
<1> DEFINE told  == After(s, head, n)
           use   == UsageOn(given'.parts, given.sent + n)
           usage == IF use > 0 THEN use ELSE acc.usage
           ttft  == acc.ttft \/ HasContent(told)
<1>1. /\ Invisible /\ Reading /\ Timed /\ Booked /\ Queued /\ Lawful /\ given \in Given /\ app \in Passed
  BY DEF SInv, Invisible, Counts
<1>2. /\ given' \in Given /\ given'.heads = given.heads \union {s}
      /\ given'.parts = [given.parts EXCEPT ![s] = @ + n]
      /\ given'.usage = IF use > 0 THEN use ELSE given.usage
  BY <1>1, ChunkGiven
<1>3. /\ acc' = [told EXCEPT !.usage = usage, !.ttft = ttft]
      /\ app' = [app EXCEPT !.chunks = @ + 1]
      /\ pc = "pulling" /\ pc' = "yielded" /\ UNCHANGED <<cfg, ask, deferred, rows>>
  <2>1. /\ app' = [app EXCEPT !.chunks = @ + 1] /\ pc = "pulling" /\ pc' = "yielded"
        /\ UNCHANGED <<cfg, ask, deferred, rows>>
    BY DEF Chunk
  <2> DEFINE parts == [given.parts EXCEPT ![s] = @ + n]
             heads == given.heads \union {s}
             then  == Accumulate(acc, s, head, Pieces(s, given.parts[s], n), parts, heads)
             u     == UsageOn(parts, given.sent + n)
  <2>2. acc' = [then EXCEPT !.usage = IF u > 0 THEN u ELSE @, !.ttft = @ \/ HasContent(then)]
    BY DEF Chunk
  <2>3. then = told /\ u = use
    BY <1>2 DEF After
  <2> HIDE DEF then, told, u, use
  <2>4. acc' = [told EXCEPT !.usage = IF use > 0 THEN use ELSE @, !.ttft = @ \/ HasContent(told)]
    BY <2>2, <2>3
  <2>5. told.usage = acc.usage /\ told.ttft = acc.ttft
    BY <1>1, AccumulatedMeter DEF SameMeter, told
  <2>6. QED
    BY <2>1, <2>4, <2>5
<1>4. Kept(cfg.provider, told, given'.parts, given'.heads)
  BY <1>1, Accumulated
<1>5. Arrived' /\ Invisible'
  BY <1>1, ChunkArrived, ChunkInvisible DEF Reading
<1>6. given'.parts \in [Slots -> Nat] /\ given'.heads \in SUBSET Slots
  BY <1>2 DEF Given
<1>7. HasContent(told) <=> cfg.provider = "other" \/ Began(given'.parts, given'.heads)
  <2>1. \A t \in Slots : t \notin given'.heads => given'.parts[t] = 0
    BY <1>5 DEF Arrived
  <2>2. PICK a, parts, heads : a = told /\ parts = given'.parts /\ heads = given'.heads
    OBVIOUS
  <2> HIDE DEF told
  <2>3. HasContent(a) <=> cfg.provider = "other" \/ Began(parts, heads)
    BY <1>1, <1>4, <1>6, <2>1, <2>2, ResponseIs
  <2>4. QED
    BY <2>2, <2>3
<1>8. told \in Gathered /\ Updatable(told)
  BY <1>4, Updated DEF Kept
<1>9. usage \in Nat /\ ttft \in BOOLEAN
  <2>1. given.sent + n \in Nat
    BY <1>1 DEF Given
  <2>2. use \in Nat
    BY <2>1, UsageTyped
  <2>3. acc.usage \in Nat /\ acc.ttft \in BOOLEAN
    BY <1>1 DEF Reading, Kept, Gathered
  <2> HIDE DEF use, told
  <2>4. usage \in Nat
    BY <2>2, <2>3
  <2>5. ttft \in BOOLEAN
    OBVIOUS
  <2>6. QED
    BY <2>4, <2>5
<1> HIDE DEF told, usage, ttft
<1>10. Holds(acc', told.text, told.items, told.order, told.final) /\ acc'.usage = usage /\ acc'.ttft = ttft
  BY <1>3, <1>8, <1>9 DEF Updatable
<1>11. Kept(cfg.provider, acc', given'.parts, given'.heads)
  BY <1>4, <1>10 DEF Kept, Holds
<1>12. Reading'
  BY <1>3, <1>5, <1>11 DEF Reading
<1>13. Began(given.parts, given.heads) => Began(given'.parts, given'.heads)
  <2>1. CallsIn(given.heads) \subseteq CallsIn(given'.heads)
    BY <1>2 DEF CallsIn
  <2>2. TextOf(given.parts) # <<>> => TextOf(given'.parts) # <<>>
    <3> DEFINE t == TextOf(given.parts)
               new == Pieces(s, given.parts[s], n)
    <3>1. given.parts \in [Slots -> Nat] /\ given.parts[s] \in Nat
      BY <1>1 DEF Given
    <3>2. t \in Seq(Piece) /\ TextOf(given'.parts) = IF KindOf[s] = "text" THEN t \o new ELSE t
      <4>1. /\ t \in Seq(Piece)
            /\ TextOf([given.parts EXCEPT ![s] = @ + n])
                 = IF KindOf[s] = "text" THEN t \o Pieces(s, given.parts[s], n) ELSE t
        BY <3>1, TextGrows
      <4>2. QED
        BY <1>2, <4>1
    <3>3. new \in Seq(Piece)
      BY <3>1, PiecesAre
    <3> HIDE DEF t, new
    <3>4. t # <<>> => t \o new # <<>>
      BY <3>2, <3>3
    <3>5. QED
      BY <3>2, <3>4 DEF t
  <2>3. QED
    BY <2>1, <2>2 DEF Began
<1>14. Timed'
  <2>1. acc'.usage = given'.usage
    BY <1>1, <1>2, <1>10 DEF Timed, usage
  <2>2. app'.chunks > 0
    <3>1. app'.chunks = app.chunks + 1 /\ app.chunks \in Nat
      BY <1>1, <1>3 DEF Passed
    <3>2. QED
      BY <3>1
  <2>3. acc'.ttft <=> IF cfg.provider = "other" THEN app'.chunks > 0
                      ELSE Began(given'.parts, given'.heads)
    BY <1>1, <1>7, <1>10, <1>13, <2>2 DEF Timed, ttft
  <2>4. QED
    BY <1>3, <2>1, <2>3 DEF Timed
<1>15. Booked' /\ Queued'
  BY <1>1, <1>3 DEF Booked, Queued, Over
<1>16. QED
  BY <1>5, <1>12, <1>14, <1>15 DEF SInv


\* An event of usage says nothing else.
LEMMA UsageReads == SInv /\ UsageChunk => SInv'
<1> SUFFICES ASSUME SInv, UsageChunk PROVE SInv'
  OBVIOUS
<1> DEFINE ttft == acc.ttft \/ HasContent(acc)
<1>1. /\ Invisible /\ Reading /\ Timed /\ Booked /\ Queued /\ Lawful /\ given \in Given /\ app \in Passed
  BY DEF SInv, Invisible, Counts
<1>2. /\ given' = [given EXCEPT !.usage = given.sent, !.only = 1]
      /\ acc' = [acc EXCEPT !.usage = given.sent, !.ttft = ttft]
      /\ pc = "pulling" /\ pc' \in {"pulling", "yielded"} /\ UNCHANGED <<cfg, ask, deferred, rows>>
      /\ UsageDue
  BY DEF UsageChunk
<1>3. /\ given'.parts = given.parts /\ given'.heads = given.heads
      /\ given'.usage = given.sent /\ given.sent \in Nat
      /\ given.parts \in [Slots -> Nat] /\ given.heads \in SUBSET Slots
  BY <1>1, <1>2 DEF Given
<1>4. Invisible'
  BY <1>1, UsageInvisible
<1>5. HasContent(acc) <=> cfg.provider = "other" \/ Began(given.parts, given.heads)
  <2>1. /\ Kept(cfg.provider, acc, given.parts, given.heads)
        /\ \A s \in Slots : s \notin given.heads => given.parts[s] = 0
    BY <1>1 DEF Reading, Arrived
  <2>2. QED
    BY <1>1, <1>3, <2>1, ResponseIs
<1>6. ttft \in BOOLEAN
  OBVIOUS
<1>7. Updatable(acc)
  BY <1>1, Updated DEF Reading, Kept
<1> HIDE DEF ttft
<1>8. Holds(acc', acc.text, acc.items, acc.order, acc.final) /\ acc'.usage = given.sent /\ acc'.ttft = ttft
  BY <1>2, <1>3, <1>6, <1>7 DEF Updatable
<1>9. Reading'
  <2>1. Arrived'
    BY <1>1, <1>2, <1>3 DEF Reading, Arrived
  <2>2. Kept(cfg.provider, acc', given'.parts, given'.heads)
    BY <1>1, <1>3, <1>8 DEF Reading, Kept, Holds
  <2>3. QED
    BY <1>2, <2>1, <2>2 DEF Reading
<1>10. Timed'
  <2>1. cfg.provider # "other"
    BY <1>2 DEF UsageDue, OwnEvent
  <2>2. QED
    BY <1>1, <1>2, <1>3, <1>5, <1>8, <2>1 DEF Timed, ttft
<1>11. Booked' /\ Queued'
  BY <1>1, <1>2 DEF Booked, Queued, Over
<1>12. QED
  BY <1>4, <1>9, <1>10, <1>11 DEF SInv

\* A sequence of one that grows.
LEMMA AppendTwo == \A a, b : Append(<<a>>, b) = <<a, b>>
<1> TAKE a, b
<1> DEFINE S == {a, b}
           s == <<a>>
           f == Append(s, b)
<1>1. s \in Seq(S) /\ Len(s) = 1 /\ s[1] = a /\ b \in S
  OBVIOUS
<1> HIDE DEF s, S
<1>2. /\ f \in Seq(S) /\ Len(f) = Len(s) + 1
      /\ \A i \in 1 .. Len(s) : f[i] = s[i]
      /\ f[Len(s) + 1] = b
  BY <1>1, AppendProperties
<1> HIDE DEF f
<1>3. f \in Seq({a, b}) /\ Len(f) = 2 /\ f[1] = a /\ f[2] = b
  BY <1>1, <1>2 DEF S
<1>4. f = <<a, b>>
  BY <1>3
<1>5. QED
  BY <1>4 DEF f, s

\* A sequence that grows to one.
LEMMA AppendOne == \A a : Append(<<>>, a) = <<a>>
OBVIOUS

\* The rows of a queue.
LEMMA FlushedIs ==
  /\ Flushed(<<>>) = <<>>
  /\ \A i : Flushed(<<i>>) = <<SpanRow(i, TRUE)>>
  /\ \A i, j : Flushed(<<i, j>>) = <<SpanRow(i, TRUE), SpanRow(j, FALSE)>>
<1>1. Flushed(<<>>) = <<>>
  BY DEF Flushed
<1>2. ASSUME NEW i PROVE Flushed(<<i>>) = <<SpanRow(i, TRUE)>>
  <2> DEFINE s == <<i>>
             row(k) == SpanRow(s[k], k = 1)
             f == [k \in DOMAIN s |-> row(k)]
  <2>1. DOMAIN s = 1 .. 1 /\ s[1] = i
    OBVIOUS
  <2>2. row(1) = SpanRow(s[1], TRUE)
    BY DEF SpanRow
  <2> HIDE DEF s, row
  <2>3. f = [k \in 1 .. 1 |-> f[k]] /\ f[1] = row(1)
    BY <2>1
  <2> HIDE DEF f
  <2>4. f = <<row(1)>>
    BY <2>3
  <2>5. QED
    BY <2>1, <2>2, <2>4 DEF f, s, row, Flushed
<1>3. ASSUME NEW i, NEW j PROVE Flushed(<<i, j>>) = <<SpanRow(i, TRUE), SpanRow(j, FALSE)>>
  <2> DEFINE s == <<i, j>>
             row(k) == SpanRow(s[k], k = 1)
             f == [k \in DOMAIN s |-> row(k)]
  <2>1. DOMAIN s = 1 .. 2 /\ s[1] = i /\ s[2] = j
    OBVIOUS
  <2>2. row(1) = SpanRow(i, TRUE) /\ row(2) = SpanRow(j, FALSE)
    <3> HIDE DEF s
    <3>1. row(1) = SpanRow(s[1], TRUE)
      BY DEF SpanRow
    <3>2. row(2) = SpanRow(s[2], FALSE)
      BY DEF SpanRow
    <3>3. QED
      BY <2>1, <3>1, <3>2
  <2> HIDE DEF s, row
  <2>3. f = [k \in 1 .. 2 |-> f[k]] /\ f[1] = row(1) /\ f[2] = row(2)
    BY <2>1
  <2> HIDE DEF f
  <2>4. f = <<row(1), row(2)>>
    BY <2>3
  <2>5. QED
    BY <2>2, <2>4 DEF f, s, row, Flushed
<1>4. QED
  BY <1>1, <1>2, <1>3

\* Rows are told by what the generator gathered.
LEMMA RowsStay ==
  ASSUME UNCHANGED <<cfg, acc>>
  PROVE  /\ \A i, first : SpanRow(i, first)' = SpanRow(i, first)
         /\ ask' = ask => LateRow' = LateRow /\ ManualRows' = ManualRows
         /\ \A i : FailureRow(i)' = FailureRow(i)
<1>1. Response(acc)' = Response(acc)
  BY DEF Response
<1>2. \A i, first : SpanRow(i, first)' = SpanRow(i, first)
  BY <1>1 DEF SpanRow
<1>3. ask' = ask => LateRow' = LateRow
  BY <1>2 DEF LateRow
<1>4. ask' = ask => FallbackRow' = FallbackRow
  BY <1>1 DEF FallbackRow
<1>5. ask' = ask => ManualRows' = ManualRows
  BY <1>4 DEF ManualRows
<1>6. QED
  BY <1>2, <1>3, <1>5 DEF FailureRow

\* A step that sends and accumulates nothing keeps the invariant when it keeps
\* the books.
LEMMA BooksRead ==
  ASSUME SInv, Invisible', UNCHANGED <<cfg, given, app, acc>>, Queued', Booked'
  PROVE  SInv'
<1>1. Reading'
  BY DEF SInv, Reading, Arrived
<1>2. Timed'
  BY DEF SInv, Timed
<1>3. QED
  BY <1>1, <1>2 DEF SInv

\* A refused request may leave its payload, and a call refused has its row.
LEMMA AskBooks == SInv /\ Ask => Queued' /\ Booked'
<1> SUFFICES ASSUME SInv, Ask PROVE Queued' /\ Booked'
  OBVIOUS
<1> DEFINE n == ask.count + 1
<1>1. /\ pc = "asking" /\ rows = <<>> /\ ask'.count = n /\ UNCHANGED <<cfg, given, app, acc>>
      /\ \/ pc' = "asking" /\ Errored(n) /\ rows' = rows
         \/ pc' = "refused" /\ Errored(n) /\ rows' = Append(rows, FailureRow(n))
         \/ pc' \in {"raw", "open"} /\ UNCHANGED <<deferred, rows>>
  BY DEF Ask, SInv, Booked, Over
<1>2. /\ ask.count \in {0, 1}
      /\ deferred = <<>> \/ (deferred = <<1>> /\ ~cfg.manual /\ ask.count = 1)
  <2>1. ask.count \in 0 .. 2 /\ ask.count < 2
    BY <1>1 DEF SInv, Invisible, Counts, Asked
  <2>2. deferred = <<>> \/ (deferred = <<1>> /\ ~cfg.manual /\ ask.count = 1)
    BY <1>1 DEF SInv, Queued, Over
  <2>3. QED
    BY <2>1, <2>2
<1>3. Invisible'
  BY AskInvisible DEF SInv
<1>4. pc' = "asking" => ask.count = 0
  BY <1>1, <1>2, <1>3 DEF Invisible, Asked
<1>5. n \in {1, 2} /\ (ask.count = 0 => n = 1) /\ (ask.count = 1 => n = 2)
  BY <1>2
<1>6. FailureRow(ask.count)' = FailureRow(n)
  BY <1>1 DEF FailureRow
<1> HIDE DEF n
<1>7. Errored(n) => \/ deferred' = deferred
                    \/ ~cfg.manual /\ deferred = <<>> /\ deferred' = <<n>>
                    \/ ~cfg.manual /\ deferred = <<1>> /\ deferred' = <<1, n>>
  <2>1. /\ deferred = <<>> => Append(deferred, n) = <<n>>
        /\ deferred = <<1>> => Append(deferred, n) = <<1, n>>
    BY AppendOne, AppendTwo, Zenon
  <2>2. QED
    BY <1>2, <2>1 DEF Errored
<1>8. CASE pc' = "asking"
  BY <1>1, <1>2, <1>4, <1>5, <1>7, <1>8 DEF Queued, Booked, Over
<1>9. CASE pc' = "refused"
  <2>1. rows' = <<FailureRow(n)>>
    BY <1>1, <1>9
  <2>2. Booked'
    BY <1>1, <1>9, <2>1 DEF Booked, FailureRow, Over
  <2>3. Queued'
    BY <1>1, <1>2, <1>5, <1>7, <1>9 DEF Queued, Over
  <2>4. QED
    BY <2>2, <2>3
<1>10. CASE pc' \in {"raw", "open"}
  BY <1>1, <1>2, <1>5, <1>10 DEF Queued, Booked, Over
<1>11. QED
  BY <1>1, <1>8, <1>9, <1>10

\* A stream that runs out is metered, with the payload of its own span.
LEMMA EndBooks == SInv /\ End => Queued' /\ Booked'
<1> SUFFICES ASSUME SInv, End PROVE Queued' /\ Booked'
  OBVIOUS
<1>1. /\ pc = "pulling" /\ pc' = "done" /\ rows = <<>> /\ deferred' = <<>>
      /\ rows' = Metered(Append(deferred, ask.count)) /\ UNCHANGED <<cfg, ask, acc>>
  BY DEF End, SInv, Booked, Over
<1>2. /\ ask.count \in {1, 2}
      /\ deferred = <<>> \/ (deferred = <<1>> /\ ~cfg.manual /\ ask.count = 2)
  BY <1>1 DEF SInv, Queued, Over
<1>3. /\ \A i, first : SpanRow(i, first)' = SpanRow(i, first)
      /\ ManualRows' = ManualRows
  BY <1>1, RowsStay
<1>4. Queued'
  BY <1>1, <1>2 DEF Queued, Over
<1>5. CASE cfg.manual
  <2>1. \E a, b : ManualRows = <<a>> \/ ManualRows = <<b>> \/ ManualRows = <<>>
    BY DEF ManualRows
  <2>2. rows' = ManualRows
    <3>1. rows' = <<>> \o ManualRows
      BY <1>1, <1>5 DEF Metered
    <3>2. QED
      BY <2>1, <3>1
  <2>3. QED
    BY <1>1, <1>3, <1>4, <1>5, <2>2 DEF Booked, Over
<1>6. CASE ~cfg.manual
  <2> DEFINE q == Append(deferred, ask.count)
  <2>1. \/ ask.count = 1 /\ q = <<1>>
        \/ ask.count = 2 /\ q = <<2>>
        \/ ask.count = 2 /\ q = <<1, 2>>
    <3>1. /\ \A n : deferred = <<>> => Append(deferred, n) = <<n>>
          /\ \A n : deferred = <<1>> => Append(deferred, n) = <<1, n>>
      BY AppendOne, AppendTwo, Zenon
    <3>2. CASE ask.count = 1
      BY <1>2, <3>1, <3>2
    <3>3. CASE ask.count = 2
      BY <1>2, <3>1, <3>3
    <3>4. QED
      BY <1>2, <3>2, <3>3
  <2> HIDE DEF q
  <2>2. rows' = <<>> \o Flushed(q)
    BY <1>1, <1>6 DEF Metered, q
  <2>3. \/ ask.count = 1 /\ rows' = <<SpanRow(1, TRUE)>>
        \/ ask.count = 2 /\ rows' = <<SpanRow(2, TRUE)>>
        \/ ask.count = 2 /\ rows' = <<SpanRow(1, TRUE), SpanRow(2, FALSE)>>
    <3> DEFINE row(k, first) == SpanRow(k, first)
    <3>1. /\ Flushed(<<1>>) = <<row(1, TRUE)>> /\ Flushed(<<2>>) = <<row(2, TRUE)>>
          /\ Flushed(<<1, 2>>) = <<row(1, TRUE), row(2, FALSE)>>
      BY FlushedIs
    <3>2. PICK a, b, c : a = row(1, TRUE) /\ b = row(2, TRUE) /\ c = row(2, FALSE)
      OBVIOUS
    <3> HIDE DEF row
    <3>3. <<>> \o <<a>> = <<a>> /\ <<>> \o <<b>> = <<b>> /\ <<>> \o <<a, c>> = <<a, c>>
      OBVIOUS
    <3>4. \/ ask.count = 1 /\ rows' = <<a>>
          \/ ask.count = 2 /\ rows' = <<b>>
          \/ ask.count = 2 /\ rows' = <<a, c>>
      BY <2>1, <2>2, <3>1, <3>2, <3>3
    <3>5. QED
      BY <3>2, <3>4 DEF row
  <2>4. QED
    BY <1>1, <1>3, <1>4, <1>6, <2>3 DEF Booked, Over
<1>7. QED
  BY <1>5, <1>6

\* A broken stream has its failure row, and leaves what waits.
LEMMA FailBooks == SInv /\ Fail => Queued' /\ Booked'
<1> SUFFICES ASSUME SInv, Fail PROVE Queued' /\ Booked'
  OBVIOUS
<1>1. /\ pc = "pulling" /\ pc' = "failed" /\ rows = <<>> /\ Errored(ask.count)
      /\ rows' = Append(rows, FailureRow(ask.count)) /\ UNCHANGED <<cfg, ask>>
  BY DEF Fail, FailedRows, SInv, Booked, Over
<1>2. /\ ask.count \in {1, 2}
      /\ deferred = <<>> \/ (deferred = <<1>> /\ ask.count = 2)
  BY <1>1 DEF SInv, Queued, Over
<1>3. \/ deferred' = deferred
      \/ deferred = <<>> /\ deferred' = <<ask.count>>
      \/ deferred = <<1>> /\ deferred' = <<1, ask.count>>
  <2>1. /\ deferred = <<>> => Append(deferred, ask.count) = <<ask.count>>
        /\ deferred = <<1>> => Append(deferred, ask.count) = <<1, ask.count>>
    BY AppendOne, AppendTwo, Zenon
  <2>2. QED
    BY <1>1, <1>2, <2>1 DEF Errored
<1>4. rows' = <<FailureRow(ask.count)>>
  BY <1>1
<1>5. Booked'
  BY <1>1, <1>4 DEF Booked, FailureRow, Over
<1>6. Queued'
  BY <1>1, <1>2, <1>3 DEF Queued, Over
<1>7. QED
  BY <1>5, <1>6

\* A stream closed early has what waited metered, and not its own span.
LEMMA CloseBooks == SInv /\ Close => Queued' /\ Booked'
<1> SUFFICES ASSUME SInv, Close PROVE Queued' /\ Booked'
  OBVIOUS
<1>1. pc \in {"open", "yielded"} /\ rows = <<>> /\ UNCHANGED <<cfg, ask, acc>>
  BY DEF Close, SInv, Booked, Over
<1>2. /\ ask.count \in {1, 2}
      /\ deferred = <<>> \/ (deferred = <<1>> /\ ~cfg.manual /\ ask.count = 2)
  BY <1>1 DEF SInv, Queued, Over
<1>3. /\ \A i, first : SpanRow(i, first)' = SpanRow(i, first)
      /\ ManualRows' = ManualRows
  BY <1>1, RowsStay
<1>4. CASE pc = "open"
  <2>1. pc' = "unread" /\ rows' = rows /\ deferred' = deferred
    BY <1>4 DEF Close, ClosedRows
  <2>2. Booked'
    BY <1>1, <2>1 DEF Booked, Over
  <2>3. Queued'
    <3>1. pc # "asking" /\ pc' # "asking"
      BY <1>1, <2>1
    <3>2. deferred' = <<>> \/ (deferred' = <<1>> /\ ~cfg'.manual /\ ask'.count = 2)
      BY <1>1, <1>2, <2>1
    <3>3. QED
      BY <1>1, <1>2, <2>1, <3>1, <3>2 DEF Queued, Over
  <2>4. QED
    BY <2>2, <2>3
<1>5. CASE pc = "yielded"
  <2>1. pc' = "closed" /\ rows' = Metered(deferred) /\ deferred' = <<>>
    BY <1>5 DEF Close, ClosedRows
  <2>2. Queued'
    BY <1>1, <1>2, <2>1 DEF Queued, Over
  <2>3. CASE cfg.manual
    <3>1. \E a, b : ManualRows = <<a>> \/ ManualRows = <<b>> \/ ManualRows = <<>>
      BY DEF ManualRows
    <3>2. rows' = ManualRows
      <4>1. rows' = <<>> \o ManualRows
        BY <1>1, <2>1, <2>3 DEF Metered
      <4>2. QED
        BY <3>1, <4>1
    <3>3. QED
      BY <1>1, <1>3, <2>1, <2>2, <2>3, <3>2 DEF Booked, Over
  <2>4. CASE ~cfg.manual
    <3>1. rows' = <<>> \o Flushed(deferred)
      BY <1>1, <2>1, <2>4 DEF Metered
    <3>2. rows' = <<>> \/ (ask.count = 2 /\ rows' = <<SpanRow(1, TRUE)>>)
      <4> DEFINE row == SpanRow(1, TRUE)
      <4>1. Flushed(<<>>) = <<>> /\ Flushed(<<1>>) = <<row>>
        BY FlushedIs
      <4> HIDE DEF row
      <4>2. rows' = <<>> \/ (ask.count = 2 /\ rows' = <<row>>)
        BY <1>2, <3>1, <4>1
      <4>3. QED
        BY <4>2 DEF row
    <3>3. QED
      BY <1>1, <1>3, <2>1, <2>2, <2>4, <3>2 DEF Booked, Over
  <2>5. QED
    BY <2>3, <2>4
<1>6. QED
  BY <1>1, <1>4, <1>5

\* A span that ends late has the row of its request.
LEMMA LateBooks == SInv /\ LateSpan => Queued' /\ Booked'
<1> SUFFICES ASSUME SInv, LateSpan PROVE Queued' /\ Booked'
  OBVIOUS
<1>1. /\ pc \in {"closed", "unread"} /\ ~cfg.manual /\ rows' = Append(rows, LateRow)
      /\ \A i \in DOMAIN rows : rows[i].of # ask.count
      /\ UNCHANGED <<cfg, pc, ask, acc, deferred>>
  BY DEF LateSpan, LateRow
<1>2. \A first : SpanRow(1, first)' = SpanRow(1, first)
  BY <1>1, RowsStay
<1>3. LateRow' = LateRow
  BY <1>1, RowsStay
<1>4. LateRow.of = ask.count
  BY DEF LateRow, SpanRow
<1>5. Queued'
  BY <1>1 DEF SInv, Queued, Over
<1>6. rows # <<LateRow>> /\ rows # <<SpanRow(1, TRUE), LateRow>>
  <2> DEFINE first == SpanRow(1, TRUE)
             late  == LateRow
  <2> HIDE DEF first, late
  <2>1. rows # <<late>>
    <3>1. rows = <<late>> => 1 \in DOMAIN rows /\ rows[1] = late
      OBVIOUS
    <3>2. QED
      BY <1>1, <1>4, <3>1 DEF late
  <2>2. rows # <<first, late>>
    <3>1. rows = <<first, late>> => 2 \in DOMAIN rows /\ rows[2] = late
      OBVIOUS
    <3>2. QED
      BY <1>1, <1>4, <3>1 DEF late
  <2>3. QED
    BY <2>1, <2>2 DEF first, late
<1>7. \/ rows = <<>>
      \/ pc = "closed" /\ ask.count = 2 /\ rows = <<SpanRow(1, TRUE)>>
  BY <1>1, <1>6 DEF SInv, Booked, Over
<1>8. \/ rows' = <<LateRow>>
      \/ pc = "closed" /\ ask.count = 2 /\ rows' = <<SpanRow(1, TRUE), LateRow>>
  <2> DEFINE first == SpanRow(1, TRUE)
             late  == LateRow
  <2> HIDE DEF first, late
  <2>1. \/ rows' = <<late>>
        \/ pc = "closed" /\ ask.count = 2 /\ rows' = <<first, late>>
    <3>1. rows' = Append(rows, late)
      BY <1>1 DEF late
    <3>2. rows = <<>> \/ (pc = "closed" /\ ask.count = 2 /\ rows = <<first>>)
      BY <1>7 DEF first
    <3>3. /\ rows = <<>> => Append(rows, late) = <<late>>
          /\ rows = <<first>> => Append(rows, late) = <<first, late>>
      BY AppendOne, AppendTwo, Zenon
    <3>4. QED
      BY <3>1, <3>2, <3>3
  <2>2. QED
    BY <2>1 DEF first, late
<1>9. Booked'
  BY <1>1, <1>2, <1>3, <1>8 DEF Booked, Over
<1>10. QED
  BY <1>5, <1>9

\* Every step keeps the invariant.
LEMMA StepReads == SInv /\ [Next]_vars => SInv'
<1> SUFFICES ASSUME SInv, [Next]_vars PROVE SInv'
  OBVIOUS
<1>1. Invisible'
  BY StepInvisible DEF SInv
<1>2. ASSUME Ask PROVE SInv'
  <2>1. UNCHANGED <<cfg, given, app, acc>>
    BY <1>2 DEF Ask
  <2>2. QED
    BY <1>1, <1>2, <2>1, AskBooks, BooksRead
<1>3. ASSUME Parse \/ Pull PROVE SInv'
  <2>1. /\ UNCHANGED <<cfg, ask, given, app, acc, deferred, rows>>
        /\ pc \in {"raw", "open", "yielded"} /\ pc' \in {"open", "pulling"}
    BY <1>3 DEF Parse, Pull
  <2>2. Queued' /\ Booked'
    BY <2>1 DEF SInv, Queued, Booked, Over
  <2>3. QED
    BY <1>1, <2>1, <2>2, BooksRead
<1>4. ASSUME End PROVE SInv'
  <2>1. UNCHANGED <<cfg, given, app, acc>>
    BY <1>4 DEF End
  <2>2. QED
    BY <1>1, <1>4, <2>1, EndBooks, BooksRead
<1>5. ASSUME Fail PROVE SInv'
  <2>1. UNCHANGED <<cfg, given, app, acc>>
    BY <1>5 DEF Fail
  <2>2. QED
    BY <1>1, <1>5, <2>1, FailBooks, BooksRead
<1>6. ASSUME Close PROVE SInv'
  <2>1. UNCHANGED <<cfg, given, app, acc>>
    BY <1>6 DEF Close
  <2>2. QED
    BY <1>1, <1>6, <2>1, CloseBooks, BooksRead
<1>7. ASSUME LateSpan PROVE SInv'
  <2>1. UNCHANGED <<cfg, given, app, acc>>
    BY <1>7 DEF LateSpan
  <2>2. QED
    BY <1>1, <1>7, <2>1, LateBooks, BooksRead
<1>8. ASSUME NEW s \in Slots, NEW head \in BOOLEAN, NEW n \in 0 .. Size[s], Chunk(s, head, n)
      PROVE  SInv'
  <2>1. n \in Nat
    OBVIOUS
  <2>2. QED
    BY <1>8, <2>1, ChunkReads
<1>9. ASSUME UNCHANGED vars PROVE SInv'
  <2>1. UNCHANGED <<cfg, ask, given, app, acc, pc, deferred, rows>>
    BY <1>9 DEF vars
  <2>2. /\ \A i, first : SpanRow(i, first)' = SpanRow(i, first)
        /\ LateRow' = LateRow /\ ManualRows' = ManualRows
        /\ FailureRow(ask.count)' = FailureRow(ask.count)
    BY <2>1, RowsStay
  <2>3. Queued' /\ Booked'
    BY <2>1, <2>2 DEF SInv, Queued, Booked
  <2>4. QED
    BY <1>1, <2>1, <2>3, BooksRead
<1>10. QED
  BY <1>2, <1>3, <1>4, <1>5, <1>6, <1>7, <1>8, <1>9, UsageReads DEF Next

\* The invariant holds in every state.
LEMMA AlwaysReads == Spec => []SInv
BY InitReads, StepReads, PTL DEF Spec

\* However the server cuts its reply into chunks and interleaves them, and on
\* every wire, the response made of what the generator has gathered is the reply
\* as it was streamed until then.
THEOREM ReplyAlwaysAsStreamed == Spec => []ReplyAsStreamed
<1>1. SInv => ReplyAsStreamed
  BY ReadingTells DEF SInv, Invisible, Counts
<1>2. QED
  BY <1>1, AlwaysReads, PTL

\* What the invariant says of the reply that a row tells.
LEMMA ResponseTyped ==
  ASSUME SInv
  PROVE  /\ Response(acc) \in Replies
         /\ Response(acc) # Nothing <=> cfg.provider # "other" /\ Began(given.parts, given.heads)
<1>1. /\ Kept(cfg.provider, acc, given.parts, given.heads) /\ Lawful
      /\ \A s \in Slots : s \notin given.heads => given.parts[s] = 0
      /\ given.parts \in [Slots -> Nat] /\ given.heads \in SUBSET Slots
  BY DEF SInv, Invisible, Counts, Reading, Arrived, Given
<1>2. /\ Response(acc) \in Replies
      /\ HasContent(acc) <=> cfg.provider = "other" \/ Began(given.parts, given.heads)
  BY <1>1, ResponseIs
<1>3. cfg.provider = "other" => Response(acc) = Nothing
  BY DEF Response, Shaped
<1>4. QED
  BY <1>2, <1>3 DEF HasContent

\* What the rows are: nothing, a failure, or of an answered call.
Telling(row) ==
  /\ row.failed = FALSE
  /\ row.approximated <=> (cfg.manual /\ given.usage = 0)
  /\ IF Late(row) THEN row.usage = 0 /\ ~row.ttft
     ELSE IF cfg.manual \/ row.of = 1
     THEN /\ row.usage = given.usage \/ cfg.provider \in {"anthropic", "openai_responses", "other"}
          /\ row.ttft <=> (row.reply # Nothing \/ (cfg.provider = "other" /\ app.chunks > 0))
     ELSE row.usage = 0 /\ row.reply = Nothing

RowType == [of : {1, 2}, failed : BOOLEAN, reply : Replies, usage : Nat,
            approximated : BOOLEAN, ttft : BOOLEAN]

\* Each of the rows by itself.
LEMMA EachRow ==
  ASSUME SInv
  PROVE  /\ \A i \in {1, 2}, first \in BOOLEAN : SpanRow(i, first) \in RowType /\ SpanRow(i, first).of = i
         /\ pc # "asking" => LateRow \in RowType /\ FailureRow(ask.count) \in RowType /\ FallbackRow \in RowType
         /\ LateRow.of = ask.count /\ FallbackRow.of = ask.count
         /\ FailureRow(ask.count).failed = TRUE /\ FailureRow(ask.count).of = ask.count
         /\ ~cfg.manual /\ (pc = "done" \/ ask.count = 2) => Telling(SpanRow(1, TRUE))
         /\ ~cfg.manual /\ pc = "done" => Telling(SpanRow(2, TRUE)) /\ Telling(SpanRow(2, FALSE))
         /\ SpanRow(2, FALSE).ttft = FALSE
         /\ ~cfg.manual /\ pc \in {"closed", "unread"} => Telling(LateRow)
         /\ cfg.manual /\ acc.usage = 0 => Telling(FallbackRow)
<1>1. /\ Response(acc) \in Replies /\ Nothing \in Replies
      /\ acc.usage = given.usage /\ acc.usage \in Nat /\ acc.ttft \in BOOLEAN
      /\ cfg.provider \in IF cfg.manual THEN Manual ELSE ModeA
      /\ pc # "asking" => ask.count \in {1, 2}
  <2>1. Nothing \in Replies
    BY DEF Nothing, Replies
  <2>2. QED
    BY <2>1, ResponseTyped DEF SInv, Timed, Reading, Kept, Gathered, Invisible, Lawful, Queued
<1>2. acc.ttft <=> (Response(acc) # Nothing \/ (cfg.provider = "other" /\ app.chunks > 0))
  BY ResponseTyped DEF SInv, Timed
<1>3. ASSUME NEW i \in {1, 2}, NEW first \in BOOLEAN
      PROVE  /\ SpanRow(i, first) \in RowType
             /\ SpanRow(i, first).of = i /\ SpanRow(i, first).failed = FALSE
             /\ SpanRow(i, first).approximated = FALSE
             /\ SpanRow(i, first).reply = IF i = 1 THEN Response(acc) ELSE Nothing
             /\ SpanRow(i, first).usage = IF i = 1 /\ cfg.provider \in {"openai", "google"} THEN acc.usage ELSE 0
             /\ SpanRow(i, first).ttft = (first /\ acc.ttft)
  <2> DEFINE reply == IF i = 1 THEN Response(acc) ELSE Nothing
             usage == IF i = 1 /\ cfg.provider \in {"openai", "google"} THEN acc.usage ELSE 0
             ttft  == first /\ acc.ttft
  <2>1. SpanRow(i, first) = [of |-> i, failed |-> FALSE, reply |-> reply, usage |-> usage,
                             approximated |-> FALSE, ttft |-> ttft]
    BY DEF SpanRow
  <2>2. reply \in Replies /\ usage \in Nat /\ ttft \in BOOLEAN
    BY <1>1
  <2> HIDE DEF reply, usage, ttft
  <2>3. /\ SpanRow(i, first) \in RowType
        /\ SpanRow(i, first).of = i /\ SpanRow(i, first).failed = FALSE
        /\ SpanRow(i, first).approximated = FALSE /\ SpanRow(i, first).reply = reply
        /\ SpanRow(i, first).usage = usage /\ SpanRow(i, first).ttft = ttft
    BY <2>1, <2>2 DEF RowType
  <2>4. QED
    BY <2>3 DEF reply, usage, ttft
<1>4. /\ LateRow.of = ask.count /\ LateRow.failed = FALSE /\ LateRow.approximated = FALSE
      /\ LateRow.usage = 0 /\ LateRow.ttft = FALSE
  BY DEF LateRow, SpanRow
<1>5. pc # "asking" => LateRow \in RowType
  <2>1. SUFFICES ASSUME pc # "asking" PROVE LateRow \in RowType
    OBVIOUS
  <2>2. PICK k \in {1, 2} : k = ask.count
    BY <1>1, <2>1
  <2>3. SpanRow(k, FALSE) \in RowType
    BY <1>3
  <2>4. QED
    BY <2>2, <2>3 DEF LateRow, RowType
<1>6. /\ FailureRow(ask.count).failed = TRUE /\ FailureRow(ask.count).of = ask.count
      /\ pc # "asking" => FailureRow(ask.count) \in RowType
  BY <1>1 DEF FailureRow, RowType
<1>7. /\ FallbackRow.of = ask.count /\ FallbackRow.failed = FALSE /\ FallbackRow.approximated = TRUE
      /\ FallbackRow.reply = Response(acc) /\ FallbackRow.usage = 0 /\ FallbackRow.ttft = acc.ttft
      /\ pc # "asking" => FallbackRow \in RowType
  BY <1>1 DEF FallbackRow, RowType
<1>8. ASSUME ~cfg.manual, pc = "done" \/ ask.count = 2 PROVE Telling(SpanRow(1, TRUE))
  <2> DEFINE r == SpanRow(1, TRUE)
  <2>1. /\ r.of = 1 /\ r.failed = FALSE /\ r.approximated = FALSE /\ r.reply = Response(acc)
        /\ r.usage = IF cfg.provider \in {"openai", "google"} THEN acc.usage ELSE 0
        /\ r.ttft = acc.ttft
    BY <1>1, <1>3
  <2> HIDE DEF r
  <2>2. ~Late(r)
    BY <1>8, <2>1 DEF Late
  <2>3. r.usage = given.usage \/ cfg.provider \in {"anthropic", "openai_responses", "other"}
    BY <1>1, <1>8, <2>1 DEF ModeA
  <2>4. r.ttft <=> (r.reply # Nothing \/ (cfg.provider = "other" /\ app.chunks > 0))
    BY <1>2, <2>1
  <2>5. Telling(r)
    BY <1>8, <2>1, <2>2, <2>3, <2>4 DEF Telling
  <2>6. QED
    BY <2>5 DEF r
<1>9. ASSUME ~cfg.manual, pc = "done", NEW first \in BOOLEAN PROVE Telling(SpanRow(2, first))
  <2> DEFINE r == SpanRow(2, first)
  <2>1. r.of = 2 /\ r.failed = FALSE /\ r.approximated = FALSE /\ r.reply = Nothing /\ r.usage = 0
    BY DEF SpanRow
  <2> HIDE DEF r
  <2>2. ~Late(r)
    BY <1>9 DEF Late
  <2>3. Telling(r)
    BY <1>9, <2>1, <2>2 DEF Telling
  <2>4. QED
    BY <2>3 DEF r
<1>10. ASSUME ~cfg.manual, pc \in {"closed", "unread"} PROVE Telling(LateRow)
  <2>1. Late(LateRow)
    BY <1>4, <1>10 DEF Late
  <2>2. QED
    BY <1>4, <1>10, <2>1 DEF Telling
<1>11. ASSUME cfg.manual, acc.usage = 0 PROVE Telling(FallbackRow)
  <2>1. ~Late(FallbackRow)
    BY <1>11 DEF Late
  <2>2. FallbackRow.ttft <=> (FallbackRow.reply # Nothing \/ (cfg.provider = "other" /\ app.chunks > 0))
    BY <1>2, <1>7
  <2>3. QED
    BY <1>1, <1>7, <1>11, <2>1, <2>2 DEF Telling
<1>12. SpanRow(2, FALSE).ttft = FALSE
  BY <1>3
<1>13. QED
  BY <1>3, <1>4, <1>5, <1>6, <1>7, <1>8, <1>9, <1>10, <1>11, <1>12

\* A manual provider's row that reports usage.
LEMMA MeteredRow ==
  ASSUME SInv, cfg.manual, acc.usage > 0, pc # "asking"
  PROVE  LET r == [FallbackRow EXCEPT !.usage = acc.usage, !.approximated = FALSE]
         IN  Telling(r) /\ r \in RowType /\ r.of = ask.count
<1> DEFINE r == [FallbackRow EXCEPT !.usage = acc.usage, !.approximated = FALSE]
<1>1. acc.usage = given.usage /\ acc.usage \in Nat
  BY DEF SInv, Timed, Reading, Kept, Gathered
<1>2. FallbackRow \in RowType /\ FallbackRow.of = ask.count
  BY EachRow
<1>3. /\ r.of = ask.count /\ r.failed = FALSE /\ r.approximated = FALSE
      /\ r.reply = Response(acc) /\ r.usage = acc.usage /\ r.ttft = acc.ttft
  BY DEF FallbackRow
<1>4. r \in RowType
  BY <1>1, <1>2 DEF RowType
<1>5. acc.ttft <=> (Response(acc) # Nothing \/ (cfg.provider = "other" /\ app.chunks > 0))
  BY ResponseTyped DEF SInv, Timed
<1> HIDE DEF r
<1>6. ~Late(r)
  BY DEF Late
<1>7. given.usage # 0
  BY <1>1
<1>8. r.ttft <=> (r.reply # Nothing \/ (cfg.provider = "other" /\ app.chunks > 0))
  BY <1>3, <1>5
<1>9. Telling(r)
  BY <1>1, <1>3, <1>6, <1>7, <1>8 DEF Telling
<1>10. QED
  BY <1>3, <1>4, <1>9 DEF r

\* The rows in a state.
LEMMA RowsAre ==
  ASSUME SInv
  PROVE  \/ rows = <<>> /\ pc \notin {"failed", "refused"} /\ ~(Owed /\ Reports)
         \/ rows = <<FailureRow(ask.count)>> /\ pc \in {"failed", "refused"}
         \/ /\ pc \in {"done", "closed", "unread"}
            /\ \E r \in RowType : /\ rows = <<r>> /\ Telling(r)
                                  /\ Owed => r.of = ask.count
         \/ /\ pc \in {"done", "closed"} /\ ask.count = 2
            /\ \E r, s \in RowType : /\ rows = <<r, s>> /\ Telling(r) /\ Telling(s)
                                     /\ r.of = 1 /\ s.of = 2 /\ s.ttft = FALSE
<1>1. /\ Booked /\ Queued /\ acc.usage = given.usage /\ acc.usage \in Nat
      /\ pc \in Over \union {"asking", "raw", "open", "pulling", "yielded"}
  BY DEF SInv, Timed, Reading, Kept, Gathered, Invisible, Counts
<1> DEFINE one(r) == /\ r \in RowType /\ rows = <<r>> /\ Telling(r)
                     /\ Owed => r.of = ask.count
           two(r, s) == /\ r \in RowType /\ s \in RowType /\ rows = <<r, s>> /\ Telling(r) /\ Telling(s)
                        /\ r.of = 1 /\ s.of = 2 /\ s.ttft = FALSE
<1>2. CASE pc \notin Over \/ (pc = "unread" /\ rows = <<>>)
  BY <1>1, <1>2 DEF Booked, Owed, Over
<1>3. CASE pc \in {"failed", "refused"}
  BY <1>1, <1>3 DEF Booked
<1>4. CASE pc = "unread" /\ rows # <<>>
  <2>1. rows = <<LateRow>> /\ ~cfg.manual
    BY <1>1, <1>4 DEF Booked
  <2>2. one(LateRow)
    BY <1>4, <2>1, EachRow DEF Owed
  <2>3. QED
    BY <1>4, <2>2
<1>5. CASE pc \in {"done", "closed"} /\ cfg.manual
  <2>1. rows = ManualRows
    BY <1>1, <1>5 DEF Booked
  <2>2. CASE acc.usage > 0
    <3> DEFINE r == [FallbackRow EXCEPT !.usage = acc.usage, !.approximated = FALSE]
    <3>1. rows = <<r>>
      BY <2>1, <2>2 DEF ManualRows
    <3>2. Telling(r) /\ r \in RowType /\ r.of = ask.count
      BY <1>5, <2>2, MeteredRow
    <3> HIDE DEF r
    <3>3. one(r)
      BY <3>1, <3>2
    <3>4. QED
      BY <1>5, <3>3
  <2>3. CASE ~(acc.usage > 0) /\ cfg.provider = "together"
    <3>1. rows = <<FallbackRow>>
      BY <2>1, <2>3 DEF ManualRows
    <3>2. acc.usage = 0
      BY <1>1, <2>3
    <3>3. one(FallbackRow)
      BY <1>5, <3>1, <3>2, EachRow
    <3>4. QED
      BY <1>5, <3>3
  <2>4. CASE ~(acc.usage > 0) /\ cfg.provider # "together"
    BY <1>1, <1>5, <2>1, <2>4 DEF ManualRows, Reports
  <2>5. QED
    BY <2>2, <2>3, <2>4
<1>6. CASE pc = "done" /\ ~cfg.manual
  <2>1. CASE ask.count = 1 /\ rows = <<SpanRow(1, TRUE)>>
    <3>1. one(SpanRow(1, TRUE))
      BY <1>6, <2>1, EachRow
    <3>2. QED
      BY <1>6, <3>1
  <2>2. CASE ask.count = 2 /\ rows = <<SpanRow(2, TRUE)>>
    <3>1. one(SpanRow(2, TRUE))
      BY <1>6, <2>2, EachRow
    <3>2. QED
      BY <1>6, <3>1
  <2>3. CASE ask.count = 2 /\ rows = <<SpanRow(1, TRUE), SpanRow(2, FALSE)>>
    <3>1. two(SpanRow(1, TRUE), SpanRow(2, FALSE))
      BY <1>6, <2>3, EachRow
    <3>2. QED
      BY <1>6, <2>3, <3>1
  <2>4. QED
    BY <1>1, <1>6, <2>1, <2>2, <2>3 DEF Booked
<1>7. CASE pc = "closed" /\ ~cfg.manual
  <2>1. ~Owed
    BY <1>7 DEF Owed
  <2>2. CASE rows = <<>>
    BY <1>7, <2>1, <2>2
  <2>3. CASE rows = <<LateRow>>
    <3>1. one(LateRow)
      BY <1>7, <2>1, <2>3, EachRow
    <3>2. QED
      BY <1>7, <3>1
  <2>4. CASE ask.count = 2 /\ rows = <<SpanRow(1, TRUE)>>
    <3>1. one(SpanRow(1, TRUE))
      BY <1>7, <2>1, <2>4, EachRow
    <3>2. QED
      BY <1>7, <3>1
  <2>5. CASE ask.count = 2 /\ rows = <<SpanRow(1, TRUE), LateRow>>
    <3>1. LateRow.ttft = FALSE
      BY DEF LateRow, SpanRow
    <3>2. two(SpanRow(1, TRUE), LateRow)
      BY <1>7, <2>5, <3>1, EachRow
    <3>3. QED
      BY <1>7, <2>5, <3>2
  <2>6. QED
    BY <1>1, <1>7, <2>2, <2>3, <2>4, <2>5 DEF Booked
<1>8. \/ pc \notin Over \/ (pc = "unread" /\ rows = <<>>)
      \/ pc \in {"failed", "refused"}
      \/ pc = "unread" /\ rows # <<>>
      \/ pc \in {"done", "closed"} /\ cfg.manual
      \/ pc = "done" /\ ~cfg.manual
      \/ pc = "closed" /\ ~cfg.manual
  BY <1>1 DEF Over
<1>9. QED
  BY <1>2, <1>3, <1>4, <1>5, <1>6, <1>7, <1>8

\* A call that fails has its failure row alone, and no request has two rows; what
\* was gathered is told by one row, the first request's, and a span that ends
\* after an early close tells neither usage nor time.
THEOREM RowsTellUsage == Spec => []RowTellsUsage
<1>1. ASSUME SInv PROVE RowTellsUsage
  <2>1. pc \in {"done", "closed"} => deferred = <<>>
    BY <1>1 DEF SInv, Queued
  <2>2. CASE rows = <<>> /\ pc \notin {"failed", "refused"} /\ ~(Owed /\ Reports)
    BY <2>1, <2>2 DEF RowTellsUsage
  <2>3. CASE rows = <<FailureRow(ask.count)>> /\ pc \in {"failed", "refused"}
    <3> DEFINE r == FailureRow(ask.count)
    <3>1. r.failed = TRUE
      BY <1>1, EachRow
    <3>2. ~Owed
      BY <2>3 DEF Owed
    <3> HIDE DEF r
    <3>3. DOMAIN rows = {1} /\ rows[1] = r
      BY <2>3 DEF r
    <3>4. QED
      BY <2>3, <3>1, <3>2, <3>3 DEF RowTellsUsage
  <2>4. ASSUME pc \in {"done", "closed", "unread"}, NEW r \in RowType, rows = <<r>>, Telling(r),
               Owed => r.of = ask.count
        PROVE  RowTellsUsage
    <3>1. DOMAIN rows = {1} /\ rows[1] = r /\ Len(rows) = 1
      BY <2>4
    <3>2. QED
      BY <2>1, <2>4, <3>1 DEF RowTellsUsage, Telling
  <2>5. ASSUME pc \in {"done", "closed"}, ask.count = 2, NEW r \in RowType, NEW s \in RowType,
               rows = <<r, s>>, Telling(r), Telling(s), r.of = 1, s.of = 2, s.ttft = FALSE
        PROVE  RowTellsUsage
    <3>1. DOMAIN rows = {1, 2} /\ rows[1] = r /\ rows[2] = s
      BY <2>5
    <3>2. QED
      BY <2>1, <2>5, <3>1 DEF RowTellsUsage, Telling
  <2>6. QED
    BY <1>1, <2>2, <2>3, <2>4, <2>5, RowsAre
<1>2. QED
  BY <1>1, AlwaysReads, PTL

\* The types of the generator's locals, of its queue and of its rows: a call has
\* two rows at most.
THEOREM StreamTypeCorrect == Spec => []TypeOK
<1>1. ASSUME SInv PROVE TypeOK
  <2>1. /\ pc \in Over \union {"asking", "raw", "open", "pulling", "yielded"}
        /\ ask \in [option : Options, injected : BOOLEAN, count : 0..2]
    BY <1>1 DEF SInv, Invisible, Counts
  <2>2. acc \in Gathered
    BY <1>1 DEF SInv, Reading, Kept
  <2>3. /\ acc.text \in Seq(Slots \X Nat) /\ acc.order \in Seq(Slots) /\ acc.usage \in Nat
        /\ acc.items \in [Slots -> Item \union {None}]
    BY <2>2 DEF Gathered, Piece
  <2>4. deferred \in Seq({1, 2})
    <3>1. \/ deferred = <<>>
          \/ \E i, j \in {1, 2} : deferred = <<i>> \/ deferred = <<i, j>>
      BY <1>1, <2>1 DEF SInv, Queued, Over
    <3>2. ASSUME NEW i \in {1, 2}, NEW j \in {1, 2}
          PROVE  <<i>> \in Seq({1, 2}) /\ <<i, j>> \in Seq({1, 2})
      OBVIOUS
    <3>3. <<>> \in Seq({1, 2})
      OBVIOUS
    <3>4. QED
      BY <3>1, <3>2, <3>3, Zenon
  <2>5. rows \in Seq(RowType) /\ Len(rows) <= 2
    <3>1. CASE rows = <<>>
      BY <3>1
    <3>2. ASSUME NEW r \in RowType, rows = <<r>> PROVE rows \in Seq(RowType) /\ Len(rows) <= 2
      BY <3>2
    <3>3. ASSUME NEW r \in RowType, NEW s \in RowType, rows = <<r, s>>
          PROVE  rows \in Seq(RowType) /\ Len(rows) <= 2
      BY <3>3
    <3>4. pc \in {"failed", "refused"} => FailureRow(ask.count) \in RowType
      BY <1>1, EachRow
    <3>5. QED
      BY <1>1, <3>1, <3>2, <3>3, <3>4, RowsAre
  <2>6. QED
    BY <2>1, <2>3, <2>4, <2>5 DEF TypeOK, RowType
<1>2. QED
  BY <1>1, AlwaysReads, PTL
===============================================================================
