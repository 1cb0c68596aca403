---------------------------- MODULE SpanTreeProofs ----------------------------
(* Proofs about SpanTree for any tasks, spans, programs, replies and caps.   *)
EXTENDS SpanTree, FiniteSetTheorems, SequenceTheorems, WellFoundedInduction, TLAPS

-------------------------------------------------------------------------------
(* Sequences. *)

\* What an appended sequence holds, by its domain.
LEMMA Appended ==
  ASSUME NEW S, NEW seq \in Seq(S), NEW e \in S, NEW new, new = Append(seq, e)
  PROVE  /\ new \in Seq(S) /\ new # <<>> /\ Len(new) = Len(seq) + 1 /\ Len(seq) \in Nat
         /\ DOMAIN new = DOMAIN seq \union {Len(new)} /\ Len(new) \notin DOMAIN seq
         /\ new[Len(new)] = e /\ \A i \in DOMAIN seq : new[i] = seq[i]
<1>1. /\ new \in Seq(S) /\ new # <<>> /\ Len(new) = Len(seq) + 1
      /\ \A i \in 1 .. Len(seq) : new[i] = seq[i]
      /\ new[Len(seq) + 1] = e
  BY AppendProperties
<1>2. Len(seq) \in Nat /\ DOMAIN seq = 1 .. Len(seq) /\ DOMAIN new = 1 .. Len(new)
  BY <1>1, LenProperties
<1>. QED
  BY <1>1, <1>2

\* All of a sequence but its last element.
Shorter(new, seq) == new = Front(seq)

\* What it holds.
LEMMA Shortened ==
  ASSUME NEW S, NEW seq \in Seq(S), seq # <<>>, NEW new, Shorter(new, seq)
  PROVE  /\ new \in Seq(S) /\ Len(new) = Len(seq) - 1 /\ Len(seq) \in Nat \ {0}
         /\ DOMAIN new = DOMAIN seq \ {Len(seq)} /\ Len(seq) \in DOMAIN seq
         /\ \A i \in DOMAIN new : new[i] = seq[i] /\ i + 1 \in DOMAIN seq
<1>. DEFINE n == Len(seq)
<1>1. n \in Nat \ {0} /\ DOMAIN seq = 1 .. n /\ \A i \in 1 .. n : seq[i] \in S
  BY LenProperties, EmptySeq, ElementOfSeq
<1>2. new = SubSeq(seq, 1, n - 1)
  BY DEF Shorter, Front
<1>. HIDE DEF n
<1>3. /\ new \in Seq(S) /\ Len(new) = IF 1 <= n - 1 THEN (n - 1) - 1 + 1 ELSE 0
      /\ \A i \in 1 .. (n - 1) - 1 + 1 : new[i] = seq[1 + i - 1]
  <2>1. n - 1 \in Int /\ 1 \in Int /\ \A i \in 1 .. n - 1 : seq[i] \in S
    BY <1>1
  <2>. QED
    BY <1>2, <2>1, SubSeqProperties
<1>4. DOMAIN new = 1 .. Len(new)
  BY <1>3, LenProperties
<1>5. Len(new) = n - 1
  BY <1>1, <1>3
<1>6. \A i \in 1 .. n - 1 : new[i] = seq[i] /\ i + 1 \in DOMAIN seq
  BY <1>1, <1>3
<1>7. DOMAIN new = DOMAIN seq \ {n} /\ n \in DOMAIN seq
  BY <1>1, <1>4, <1>5
<1>8. \A i \in DOMAIN new : new[i] = seq[i] /\ i + 1 \in DOMAIN seq
  BY <1>4, <1>5, <1>6
<1>. QED
  BY <1>1, <1>3, <1>5, <1>7, <1>8 DEF n

\* What is left of a sequence without its oldest element.
LEMMA Aged ==
  ASSUME NEW S, NEW seq \in Seq(S), Len(seq) <= Cap + 1
  PROVE  Newest(seq) \in Seq(S) /\ Len(Newest(seq)) <= Cap
<1>1. Len(seq) \in Nat /\ Cap \in Nat
  BY LenProperties, SpanAssumption
<1>2. CASE Len(seq) > Cap
  <2>1. seq # <<>>
    BY <1>1, <1>2, EmptySeq
  <2>2. Tail(seq) \in Seq(S) /\ Len(Tail(seq)) = Len(seq) - 1
    BY <2>1, HeadTailProperties
  <2>. QED
    BY <1>1, <1>2, <2>2 DEF Newest
<1>3. CASE ~(Len(seq) > Cap)
  BY <1>1, <1>3 DEF Newest
<1>. QED
  BY <1>2, <1>3

\* What is left of a sequence without one of its elements, and where it was.
LEMMA Removed ==
  ASSUME NEW S, NEW seq \in Seq(S), NEW k \in DOMAIN seq, NEW new, new = RemoveAt(seq, k)
  PROVE  /\ new \in Seq(S)
         /\ \A j \in DOMAIN new : /\ (IF j < k THEN j ELSE j + 1) \in DOMAIN seq \ {k}
                                  /\ new[j] = seq[IF j < k THEN j ELSE j + 1]
         /\ \A i, j \in DOMAIN new :
              (IF i < k THEN i ELSE i + 1) = (IF j < k THEN j ELSE j + 1) => i = j
<1>. DEFINE n == Len(seq)
            a == SubSeq(seq, 1, k - 1)
            b == SubSeq(seq, k + 1, n)
<1>1. n \in Nat /\ k \in 1 .. n /\ DOMAIN seq = 1 .. n /\ \A i \in 1 .. n : seq[i] \in S
  BY LenProperties, ElementOfSeq
<1>2. new = a \o b
  BY DEF RemoveAt
<1>. HIDE DEF n
<1>3. a \in Seq(S) /\ Len(a) = k - 1 /\ \A i \in 1 .. k - 1 : a[i] = seq[i]
  <2>1. 1 \in Int /\ k - 1 \in Int /\ \A i \in 1 .. k - 1 : seq[i] \in S
    BY <1>1
  <2>2. /\ a \in Seq(S) /\ Len(a) = IF 1 <= k - 1 THEN (k - 1) - 1 + 1 ELSE 0
        /\ \A i \in 1 .. (k - 1) - 1 + 1 : a[i] = seq[1 + i - 1]
    BY <2>1, SubSeqProperties
  <2>3. k - 1 \in Nat /\ (k - 1) - 1 + 1 = k - 1
    BY <1>1
  <2>. HIDE DEF a
  <2>4. Len(a) = k - 1
    BY <2>2, <2>3
  <2>5. \A i \in 1 .. k - 1 : 1 + i - 1 = i /\ a[i] = seq[1 + i - 1]
    BY <2>2, <2>3
  <2>. QED
    BY <2>2, <2>4, <2>5
<1>4. b \in Seq(S) /\ Len(b) = n - k /\ \A i \in 1 .. n - k : b[i] = seq[k + i]
  <2>1. k + 1 \in Int /\ n \in Int /\ \A i \in k + 1 .. n : seq[i] \in S
    BY <1>1
  <2>2. /\ b \in Seq(S) /\ Len(b) = IF k + 1 <= n THEN n - (k + 1) + 1 ELSE 0
        /\ \A i \in 1 .. n - (k + 1) + 1 : b[i] = seq[(k + 1) + i - 1]
    BY <2>1, SubSeqProperties
  <2>. HIDE DEF b
  <2>3. Len(b) = n - k
    BY <1>1, <2>2
  <2>4. ASSUME NEW i \in 1 .. n - k PROVE b[i] = seq[k + i]
    <3>1. i \in 1 .. n - (k + 1) + 1 /\ (k + 1) + i - 1 = k + i
      BY <1>1
    <3>. QED
      BY <2>2, <3>1
  <2>. QED
    BY <2>2, <2>3, <2>4
<1>. HIDE DEF a, b
<1>5. /\ new \in Seq(S) /\ Len(new) = Len(a) + Len(b)
      /\ \A j \in 1 .. Len(a) + Len(b) : new[j] = IF j <= Len(a) THEN a[j] ELSE b[j - Len(a)]
  BY <1>2, <1>3, <1>4, ConcatProperties
<1>6. DOMAIN new = 1 .. n - 1
  <2>1. DOMAIN new = 1 .. Len(new)
    BY <1>5, LenProperties
  <2>. QED
    BY <1>1, <1>3, <1>4, <1>5, <2>1
<1>7. ASSUME NEW j \in 1 .. n - 1
      PROVE  /\ (IF j < k THEN j ELSE j + 1) \in DOMAIN seq \ {k}
             /\ new[j] = seq[IF j < k THEN j ELSE j + 1]
  <2>1. CASE j < k
    <3>1. j \in 1 .. k - 1 /\ j <= Len(a) /\ j \in 1 .. Len(a) + Len(b)
      BY <1>1, <1>3, <1>4, <2>1
    <3>2. new[j] = seq[j]
      BY <1>3, <1>5, <3>1
    <3>. QED
      BY <1>1, <2>1, <3>1, <3>2
  <2>2. CASE ~(j < k)
    <3>1. /\ j - Len(a) \in 1 .. n - k /\ ~(j <= Len(a)) /\ j \in 1 .. Len(a) + Len(b)
          /\ k + (j - Len(a)) = j + 1
      BY <1>1, <1>3, <1>4, <2>2
    <3>2. new[j] = seq[j + 1]
      BY <1>4, <1>5, <3>1
    <3>. QED
      BY <1>1, <2>2, <3>1, <3>2
  <2>. QED
    BY <2>1, <2>2
<1>8. ASSUME NEW i \in 1 .. n - 1, NEW j \in 1 .. n - 1,
             (IF i < k THEN i ELSE i + 1) = (IF j < k THEN j ELSE j + 1)
      PROVE  i = j
  BY <1>1, <1>8
<1>. QED
  BY <1>5, <1>6, <1>7, <1>8

-------------------------------------------------------------------------------
(* Iteration: the climb of the recorded parents is a recursive function.     *)

\* A set of numbers that is not empty has a least element.
LEMMA Least ==
  ASSUME NEW S \in SUBSET Nat, S # {}
  PROVE  \E m \in S : \A i \in S : m <= i
<1>1. PICK m \in S : \A i \in S : ~(<<i, m>> \in OpToRel(<, Nat))
  BY NatLessThanWellFounded, WFMin, Zenon
<1>2. ASSUME NEW i \in S PROVE m <= i
  <2>. DEFINE p == <<i, m>>
  <2>1. p \notin OpToRel(<, Nat)
    BY <1>1
  <2>2. ~(i < m)
    <3>. SUFFICES ASSUME i < m PROVE FALSE
      OBVIOUS
    <3>1. p \in Nat \X Nat /\ p[1] < p[2]
      OBVIOUS
    <3>. HIDE DEF p
    <3>. QED
      BY <2>1, <3>1 DEF OpToRel
  <2>3. i \in Nat /\ m \in Nat
    OBVIOUS
  <2>. QED
    BY <2>2, <2>3
<1>. QED
  BY <1>2

\* g: a step done once, twice, ... to p.
Iteration(g, step, p, N) == g = [n \in 0 .. N |-> step[IF n = 0 THEN p ELSE g[n - 1]]]

\* Iterating a step a given number of times is a function.
LEMMA Iterates ==
  ASSUME NEW S, NEW step \in [S -> S], NEW p \in S, NEW N \in Nat
  PROVE  \E g \in [0 .. N -> S] : Iteration(g, step, p, N)
<1>. USE DEF Iteration
<1>. DEFINE Good(M) == \E g \in [0 .. M -> S] :
                         \A n \in 0 .. M : g[n] = step[IF n = 0 THEN p ELSE g[n - 1]]
            Bad == {M \in Nat : ~Good(M)}
<1>1. Bad = {}
  <2>. SUFFICES ASSUME Bad # {} PROVE FALSE
    OBVIOUS
  <2>1. PICK M \in Bad : \A i \in Bad : M <= i
    BY Least
  <2>2. CASE M = 0
    <3>. DEFINE g == [n \in 0 .. 0 |-> step[p]]
    <3>1. g \in [0 .. 0 -> S] /\ \A n \in 0 .. 0 : n = 0 /\ g[n] = step[p]
      OBVIOUS
    <3>. HIDE DEF g
    <3>2. \A n \in 0 .. 0 : g[n] = step[IF n = 0 THEN p ELSE g[n - 1]]
      BY <3>1
    <3>3. Good(0)
      BY <3>1, <3>2
    <3>. QED
      BY <2>1, <2>2, <3>3
  <2>3. CASE M # 0
    <3>1. M \in Nat /\ M - 1 \in Nat /\ ~(M <= M - 1)
      BY <2>1, <2>3
    <3>2. Good(M - 1)
      BY <2>1, <3>1
    <3>3. PICK g \in [0 .. M - 1 -> S] :
            \A n \in 0 .. M - 1 : g[n] = step[IF n = 0 THEN p ELSE g[n - 1]]
      BY <3>2
    <3>. DEFINE h == [n \in 0 .. M |-> IF n = M THEN step[g[M - 1]] ELSE g[n]]
    <3>4. step[g[M - 1]] \in S
      BY <3>1
    <3>5. h \in [0 .. M -> S]
      BY <3>1, <3>4
    <3>6. h[M] = step[g[M - 1]] /\ \A n \in 0 .. M - 1 : h[n] = g[n]
      BY <3>1
    <3>. HIDE DEF h
    <3>7. ASSUME NEW n \in 0 .. M
          PROVE  h[n] = step[IF n = 0 THEN p ELSE h[n - 1]]
      <4>1. CASE n = M
        BY <2>3, <3>1, <3>6, <4>1
      <4>2. CASE n # M
        <5>1. n \in 0 .. M - 1 /\ (n # 0 => n - 1 \in 0 .. M - 1)
          BY <3>1, <4>2
        <5>. QED
          BY <3>3, <3>6, <5>1
      <4>. QED
        BY <4>1, <4>2
    <3>8. Good(M)
      BY <3>5, <3>7
    <3>. QED
      BY <2>1, <3>8
  <2>. QED
    BY <2>2, <2>3
<1>2. Good(N)
  BY <1>1
<1>. HIDE DEF Bad
<1>. QED
  BY <1>2

\* One step of _resolve_kept_parent.
MapType == [parents : Seq([span : Spans, parent : SpanOrNone]), kept : Seq(Spans)]
Climb(m) == [q \in SpanOrNone |-> IF q = None \/ Survives(m, q) \/ ~Recorded(m, q) THEN q
                                  ELSE ParentIn(m, q)]

\* A recorded parent is a span or none.
LEMMA ParentInTyped ==
  ASSUME NEW m \in MapType, NEW q, Recorded(m, q)
  PROVE  /\ ParentIn(m, q) \in SpanOrNone
         /\ \E i \in DOMAIN m.parents : m.parents[i].span = q /\ ParentIn(m, q) = m.parents[i].parent
<1>. DEFINE i == CHOOSE i \in DOMAIN m.parents : m.parents[i].span = q
<1>1. i \in DOMAIN m.parents /\ m.parents[i].span = q
  BY DEF Recorded
<1>2. ParentIn(m, q) = m.parents[i].parent
  BY DEF ParentIn
<1>. HIDE DEF i
<1>3. m.parents \in Seq([span : Spans, parent : SpanOrNone])
  BY DEF MapType
<1>4. m.parents[i] \in [span : Spans, parent : SpanOrNone]
  BY <1>1, <1>3, ElementOfSeq, LenProperties
<1>. QED
  BY <1>1, <1>2, <1>4

\* What the step does, at a span.
LEMMA ClimbAt ==
  ASSUME NEW m, NEW q \in SpanOrNone
  PROVE  Climb(m)[q] = IF q = None \/ Survives(m, q) \/ ~Recorded(m, q) THEN q
                       ELSE ParentIn(m, q)
<1>. DEFINE step(r) == IF r = None \/ Survives(m, r) \/ ~Recorded(m, r) THEN r
                       ELSE ParentIn(m, r)
<1>1. Climb(m) = [r \in SpanOrNone |-> step(r)]
  BY DEF Climb
<1>. HIDE DEF step
<1>2. Climb(m)[q] = step(q)
  BY <1>1
<1>. QED
  BY <1>2 DEF step

\* The climb is the iteration of that step.
LEMMA KeptParentIs ==
  ASSUME NEW m \in MapType, NEW p \in SpanOrNone, NEW root,
         NEW N, N = Hops - 1
  PROVE  /\ N \in Nat /\ Climb(m) \in [SpanOrNone -> SpanOrNone]
         /\ \E g \in [0 .. N -> SpanOrNone] :
              /\ Iteration(g, Climb(m), p, N)
              /\ KeptParent(m, p, root) = IF g[N] = None THEN root ELSE g[N]
<1>1. N \in Nat
  BY SpanAssumption
<1>2. Climb(m) \in [SpanOrNone -> SpanOrNone]
  BY ParentInTyped DEF Climb
<1>. DEFINE eq(g) == g = [n \in 0 .. N |->
                           LET q == IF n = 0 THEN p ELSE g[n - 1]
                           IN  IF q = None \/ Survives(m, q) \/ ~Recorded(m, q) THEN q
                               ELSE ParentIn(m, q)]
            up == CHOOSE g : eq(g)
<1>3. KeptParent(m, p, root) = IF up[N] = None THEN root ELSE up[N]
  BY DEF KeptParent
<1>4. PICK g \in [0 .. N -> SpanOrNone] : Iteration(g, Climb(m), p, N)
  BY <1>1, <1>2, Iterates
<1>. HIDE DEF up
<1>. DEFINE body(q) == IF q = None \/ Survives(m, q) \/ ~Recorded(m, q) THEN q
                       ELSE ParentIn(m, q)
            at(f, n) == IF n = 0 THEN p ELSE f[n - 1]
<1>5. \A q \in SpanOrNone : Climb(m)[q] = body(q)
  BY ClimbAt
<1>6. \A n \in 0 .. N : at(g, n) \in SpanOrNone /\ g[n] = Climb(m)[at(g, n)]
  <2>1. \A n \in 0 .. N : n # 0 => n - 1 \in 0 .. N
    BY <1>1
  <2>2. \A n \in 0 .. N : g[n] \in SpanOrNone
    BY <1>4
  <2>3. \A n \in 0 .. N : at(g, n) \in SpanOrNone
    BY <2>1, <2>2
  <2>4. \A n \in 0 .. N : g[n] = Climb(m)[at(g, n)]
    BY <1>4 DEF Iteration
  <2>. QED
    BY <2>3, <2>4
<1>7. \A f : eq(f) <=> f = [n \in 0 .. N |-> body(at(f, n))]
  OBVIOUS
<1>. HIDE DEF body, at, eq
<1>8. eq(g)
  <2>1. g = [n \in 0 .. N |-> g[n]]
    BY <1>4
  <2>2. \A n \in 0 .. N : g[n] = body(at(g, n))
    BY <1>5, <1>6
  <2>. QED
    BY <1>7, <2>1, <2>2
<1>9. eq(up)
  BY <1>8 DEF up
<1>10. /\ \A n \in 0 .. N : up[n] = body(at(up, n)) /\ g[n] = body(at(g, n))
       /\ up = [n \in 0 .. N |-> up[n]] /\ g = [n \in 0 .. N |-> g[n]]
  <2>1. up = [n \in 0 .. N |-> body(at(up, n))]
    BY <1>7, <1>9
  <2>2. g = [n \in 0 .. N |-> body(at(g, n))]
    BY <1>7, <1>8
  <2>3. \A n \in 0 .. N : up[n] = body(at(up, n))
    BY <2>1
  <2>4. \A n \in 0 .. N : g[n] = body(at(g, n))
    BY <2>2
  <2>. HIDE DEF up
  <2>. QED
    BY <2>1, <2>2, <2>3, <2>4
<1>11. up = g
  <2>. DEFINE Bad == {n \in 0 .. N : up[n] # g[n]}
  <2>1. Bad = {}
    <3>. SUFFICES ASSUME Bad # {} PROVE FALSE
      OBVIOUS
    <3>1. Bad \in SUBSET Nat
      BY <1>1
    <3>2. PICK k \in Bad : \A i \in Bad : k <= i
      BY <3>1, Least
    <3>3. k \in 0 .. N /\ up[k] # g[k]
      BY <3>2
    <3>4. at(up, k) = at(g, k)
      <4>1. k # 0 => k - 1 \in 0 .. N /\ ~(k <= k - 1)
        BY <1>1, <3>3
      <4>2. k # 0 => up[k - 1] = g[k - 1]
        BY <3>2, <4>1
      <4>. QED
        BY <4>2 DEF at
    <3>. QED
      BY <1>10, <3>3, <3>4
  <2>2. \A n \in 0 .. N : up[n] = g[n]
    BY <2>1
  <2>. HIDE DEF Bad
  <2>. QED
    BY <1>10, <2>2
<1>. QED
  BY <1>1, <1>2, <1>3, <1>4, <1>11

\* So its end is a span, the root or none.
LEMMA KeptParentTyped ==
  ASSUME NEW m \in MapType, NEW p \in SpanOrNone, NEW root \in SpanOrNone
  PROVE  KeptParent(m, p, root) \in SpanOrNone
<1>. DEFINE N == Hops - 1
<1>1. N \in Nat
  BY SpanAssumption
<1>2. PICK g \in [0 .. N -> SpanOrNone] : KeptParent(m, p, root) = IF g[N] = None THEN root ELSE g[N]
  BY KeptParentIs
<1>. QED
  BY <1>1, <1>2

-------------------------------------------------------------------------------
(* What the operators do to each variable. *)

States == {"new", "wrapped", "open", "done"}
NameOrNone  == Names \union {None}
OrderOrNone == Nat \union {None}
Entry  == [span : Spans, was : Context]

\* A span is given its attributes.
LEMMA MadeIs ==
  ASSUME TypeOK, NEW s \in Spans, NEW kind \in AllKinds, NEW name \in NameOrNone,
         NEW parent \in SpanOrNone, NEW session \in SpanOrNone,
         NEW order \in OrderOrNone, NEW state \in States,
         NEW x, x = Made(s, kind, name, parent, session, order, state)
  PROVE  /\ x \in [Spans -> Span]
         /\ x[s].state = state /\ x[s].kind = kind /\ x[s].name = name
         /\ x[s].parent = parent /\ x[s].session = session /\ x[s].order = order
         /\ \A r \in Spans \ {s} : x[r] = span[r]
<1>. DEFINE new == [state |-> state, kind |-> kind, name |-> name, parent |-> parent,
                    session |-> session, order |-> order]
<1>1. /\ new \in Span /\ new.state = state /\ new.kind = kind /\ new.name = name
      /\ new.parent = parent /\ new.session = session /\ new.order = order
  BY DEF Span, States, NameOrNone, OrderOrNone
<1>2. x = [span EXCEPT ![s] = new]
  BY DEF Made
<1>. HIDE DEF new
<1>. QED
  BY <1>1, <1>2 DEF TypeOK

\* A span ends, and nothing else about it changes.
LEMMA EndedIs ==
  ASSUME TypeOK, NEW s \in Spans, NEW x, x = Ended(s)
  PROVE  /\ x \in [Spans -> Span]
         /\ x[s].state = "done" /\ x[s].kind = span[s].kind /\ x[s].name = span[s].name
         /\ x[s].parent = span[s].parent /\ x[s].session = span[s].session
         /\ x[s].order = span[s].order
         /\ \A r \in Spans \ {s} : x[r] = span[r]
<1>. DEFINE old == span[s]
            new == [old EXCEPT !.state = "done"]
<1>1. old \in Span
  BY DEF TypeOK
<1>. HIDE DEF old
<1>2. /\ new \in Span /\ new.state = "done" /\ new.kind = old.kind /\ new.name = old.name
      /\ new.parent = old.parent /\ new.session = old.session /\ new.order = old.order
  BY <1>1 DEF Span
<1>3. x = [span EXCEPT ![s] = new]
  BY DEF Ended, old
<1>. HIDE DEF new
<1>. QED
  BY <1>2, <1>3 DEF TypeOK, old

\* A row is logged.
LEMMA LoggedIs ==
  ASSUME TypeOK, NEW s \in Spans, NEW parent \in SpanOrNone, NEW id \in Id \union {None},
         NEW x, x = Logged(s, parent, id)
  PROVE  /\ x \in [Spans -> Row \union {None}]
         /\ x[s].parent = parent /\ x[s].id = id
         /\ \A r \in Spans \ {s} : x[r] = row[r]
<1>. DEFINE new == [parent |-> parent, id |-> id]
<1>1. new \in Row /\ new.parent = parent /\ new.id = id
  BY DEF Row
<1>2. x = [row EXCEPT ![s] = new]
  BY DEF Logged
<1>. HIDE DEF new
<1>. QED
  BY <1>1, <1>2 DEF TypeOK

\* The innermost block of a task.
LEMMA TopIs ==
  ASSUME TypeOK, NEW t \in Tasks
  PROVE  /\ Ctx(t) \in Context /\ task[t] \in Task /\ task[t].stack \in Seq(Entry)
         /\ task[t].stack # <<>> =>
              /\ Top(t) \in Spans /\ Len(task[t].stack) \in DOMAIN task[t].stack
              /\ task[t].stack[Len(task[t].stack)].was \in Context
<1>1. task[t] \in Task /\ task[t].stack \in Seq(Entry) /\ Ctx(t) \in Context
  BY DEF TypeOK, Task, Ctx, Entry
<1>2. ASSUME task[t].stack # <<>>
      PROVE  /\ Len(task[t].stack) \in DOMAIN task[t].stack
             /\ task[t].stack[Len(task[t].stack)] \in Entry
  <2>1. Len(task[t].stack) \in Nat \ {0} /\ DOMAIN task[t].stack = 1 .. Len(task[t].stack)
    BY <1>1, <1>2, EmptySeq, LenProperties
  <2>. QED
    BY <1>1, <2>1, ElementOfSeq
<1>. QED
  BY <1>1, <1>2 DEF Top, Entry

\* A block is entered.
LEMMA EnterIs ==
  ASSUME TypeOK, NEW t \in Tasks, NEW s \in Spans, NEW ctx \in Context,
         NEW x, x = Enter(t, s, ctx)
  PROVE  /\ x \in [Tasks -> Task]
         /\ x[t].ctx = ctx /\ x[t].active = task[t].active
         /\ x[t].stack = Append(task[t].stack, [span |-> s, was |-> Ctx(t)])
         /\ \A u \in Tasks \ {t} : x[u] = task[u]
<1>. DEFINE old   == task[t]
            stack == Append(old.stack, [span |-> s, was |-> Ctx(t)])
            new   == [old EXCEPT !.ctx = ctx, !.stack = stack]
<1>1. old \in Task /\ stack \in Seq(Entry)
  <2>1. [span |-> s, was |-> Ctx(t)] \in Entry
    BY TopIs DEF Entry
  <2>. QED
    BY <2>1, TopIs, AppendProperties
<1>2. x = [task EXCEPT ![t] = new]
  BY DEF Enter
<1>. HIDE DEF old, stack
<1>3. new \in Task /\ new.ctx = ctx /\ new.active = old.active /\ new.stack = stack
  BY <1>1 DEF Task, Entry
<1>. HIDE DEF new
<1>. QED
  BY <1>2, <1>3 DEF TypeOK, old, stack

\* A block is left.
LEMMA LeaveIs ==
  ASSUME TypeOK, NEW t \in Tasks, task[t].stack # <<>>, NEW list \in SpanOrNone,
         NEW x, \/ x = Leave(t) /\ list = Ctx(t).list
                \/ x = [Leave(t) EXCEPT ![t].ctx.list = list],
         NEW was, was = task[t].stack[Len(task[t].stack)].was
  PROVE  /\ x \in [Tasks -> Task] /\ was \in Context
         /\ x[t].ctx.cur = was.cur /\ x[t].ctx.session = was.session
         /\ x[t].ctx.resv = was.resv /\ x[t].ctx.list = list
         /\ x[t].stack = Front(task[t].stack) /\ x[t].active = task[t].active
         /\ \A u \in Tasks \ {t} : x[u] = task[u]
<1>. DEFINE old   == task[t]
            stack == Front(old.stack)
            ctx0  == [was EXCEPT !.list = Ctx(t).list]
            new0  == [old EXCEPT !.ctx = ctx0, !.stack = stack]
            ctx1  == [ctx0 EXCEPT !.list = list]
            new1  == [new0 EXCEPT !.ctx = ctx1]
<1>1. old \in Task /\ stack \in Seq(Entry) /\ was \in Context /\ Ctx(t) \in Context
  BY TopIs, Shortened DEF Shorter
<1>2. Leave(t) = [task EXCEPT ![t] = new0]
  BY DEF Leave
<1>. HIDE DEF old, stack
<1>3. /\ ctx0 \in Context /\ ctx0.cur = was.cur /\ ctx0.session = was.session
      /\ ctx0.resv = was.resv /\ ctx0.list = Ctx(t).list
  BY <1>1 DEF Context
<1>. HIDE DEF ctx0
<1>4. new0 \in Task /\ new0.ctx = ctx0 /\ new0.stack = stack /\ new0.active = old.active
  BY <1>1, <1>3 DEF Task, Entry
<1>. HIDE DEF new0
<1>5. /\ Leave(t) \in [Tasks -> Task] /\ Leave(t)[t] = new0
      /\ \A u \in Tasks \ {t} : Leave(t)[u] = task[u]
  BY <1>2, <1>4 DEF TypeOK
<1>6. CASE x = Leave(t) /\ list = Ctx(t).list
  BY <1>1, <1>3, <1>4, <1>5, <1>6 DEF old, stack
<1>7. CASE x = [Leave(t) EXCEPT ![t].ctx.list = list]
  <2>1. /\ ctx1 \in Context /\ ctx1.cur = was.cur /\ ctx1.session = was.session
        /\ ctx1.resv = was.resv /\ ctx1.list = list
    BY <1>3 DEF Context
  <2>2. x = [Leave(t) EXCEPT ![t] = new1]
    BY <1>4, <1>5, <1>7
  <2>. HIDE DEF ctx1
  <2>3. new1 \in Task /\ new1.ctx = ctx1 /\ new1.stack = stack /\ new1.active = old.active
    BY <1>4, <2>1 DEF Task
  <2>. HIDE DEF new1
  <2>. QED
    BY <1>1, <1>5, <2>1, <2>2, <2>3 DEF old, stack
<1>. QED
  BY <1>6, <1>7

\* What two states of the sessions have in common.
SameLists(m)    == \A r \in Spans : m[r].pending = ses[r].pending /\ m[r].reply = ses[r].reply
SameReserved(m) == \A r \in Spans : m[r].reserved = ses[r].reserved
SameUsed(m)     == \A r \in Spans : m[r].used = ses[r].used
CountersGrow(m) == \A r \in Spans : m[r].counter >= ses[r].counter

\* An order is taken from a session's counter.
LEMMA CountedIs ==
  ASSUME TypeOK, NEW session \in SpanOrNone, NEW m, m = Counted(session)
  PROVE  /\ m \in [Spans -> Session]
         /\ SameLists(m) /\ SameReserved(m) /\ SameUsed(m) /\ CountersGrow(m)
         /\ NextOrder(session) \in Nat
         /\ session # None => m[session].counter = NextOrder(session) + 1
<1>1. \A r \in Spans : ses[r] \in Session /\ ses[r].counter \in Nat
  BY DEF TypeOK, Session
<1>2. CASE session = None
  BY <1>1, <1>2 DEF Counted, NextOrder, TypeOK, SameLists, SameReserved, SameUsed, CountersGrow
<1>3. CASE session # None
  <2>. DEFINE old == ses[session]
              new == [old EXCEPT !.counter = old.counter + 1]
  <2>1. session \in Spans /\ old \in Session /\ old.counter \in Nat
    BY <1>1, <1>3 DEF SpanOrNone
  <2>2. m = [ses EXCEPT ![session] = new]
    BY <1>3 DEF Counted
  <2>. HIDE DEF old
  <2>3. /\ new \in Session /\ new.counter = old.counter + 1 /\ new.pending = old.pending
        /\ new.reply = old.reply /\ new.reserved = old.reserved /\ new.used = old.used
    BY <2>1 DEF Session
  <2>. HIDE DEF new
  <2>4. /\ m \in [Spans -> Session] /\ m[session] = new
        /\ \A r \in Spans \ {session} : m[r] = ses[r]
    BY <2>1, <2>2, <2>3 DEF TypeOK
  <2>. QED
    BY <1>1, <1>3, <2>1, <2>3, <2>4
    DEF NextOrder, SameLists, SameReserved, SameUsed, CountersGrow, old
<1>. QED
  BY <1>2, <1>3

\* A reserved order is taken.
LEMMA TakenIs ==
  ASSUME TypeOK, NEW ctx \in Context, NEW m, m = Taken(ctx)
  PROVE  /\ TakenOrder(ctx) \in Nat \union {None}
         /\ ~Reserves(ctx) => m = Counted(ctx.session) /\ TakenOrder(ctx) = NextOrder(ctx.session)
         /\ Reserves(ctx) =>
              /\ ctx.resv \in Spans /\ TakenOrder(ctx) = ses[ctx.resv].reserved
              /\ m[ctx.resv].used
              /\ \A r \in Spans \ {ctx.resv} : m[r] = ses[r]
              /\ \A r \in Spans : m[r].counter = ses[r].counter
              /\ SameLists(m) /\ SameReserved(m)
         /\ m \in [Spans -> Session]
<1>1. ctx.session \in SpanOrNone /\ ctx.resv \in SpanOrNone
  BY DEF Context
<1>2. CASE ~Reserves(ctx)
  <2>1. m = Counted(ctx.session) /\ TakenOrder(ctx) = NextOrder(ctx.session)
    BY <1>2 DEF Taken, TakenOrder
  <2>. QED
    BY <1>1, <1>2, <2>1, CountedIs
<1>3. CASE Reserves(ctx)
  <2>. DEFINE old == ses[ctx.resv]
              new == [old EXCEPT !.used = TRUE]
  <2>1. ctx.resv \in Spans /\ old \in Session
    BY <1>1, <1>3 DEF Reserves, SpanOrNone, TypeOK
  <2>2. m = [ses EXCEPT ![ctx.resv] = new] /\ TakenOrder(ctx) = old.reserved
    BY <1>3 DEF Taken, TakenOrder
  <2>. HIDE DEF old
  <2>3. /\ new \in Session /\ new.counter = old.counter /\ new.pending = old.pending
        /\ new.reply = old.reply /\ new.reserved = old.reserved /\ new.used
        /\ old.reserved \in Nat \union {None}
    BY <2>1 DEF Session
  <2>. HIDE DEF new
  <2>4. /\ m \in [Spans -> Session] /\ m[ctx.resv] = new
        /\ \A r \in Spans \ {ctx.resv} : m[r] = ses[r]
    BY <2>1, <2>2, <2>3 DEF TypeOK
  <2>. QED
    BY <1>3, <2>1, <2>2, <2>3, <2>4 DEF SameLists, SameReserved, old
<1>. QED
  BY <1>2, <1>3

\* A reply's ids are its own, each once.
LEMMA AskedIs ==
  ASSUME NEW s \in Spans, NEW reply \in Seq(Names), NEW ids, ids = Asked(s, reply)
  PROVE  /\ ids \in Seq(Id)
         /\ \A i \in DOMAIN ids : ids[i].of = s
         /\ \A i, j \in DOMAIN ids : ids[i] = ids[j] => i = j
<1>1. Len(reply) \in Nat /\ DOMAIN reply = 1 .. Len(reply)
  BY LenProperties
<1>2. \A i \in DOMAIN reply : reply[i] \in Names
  BY <1>1, ElementOfSeq
<1>3. DOMAIN ids = DOMAIN reply /\ ids = [i \in DOMAIN reply |-> ids[i]]
      /\ \A i \in DOMAIN reply : ids[i] = [of |-> s, nth |-> i, name |-> reply[i]]
  BY DEF Asked
<1>4. ASSUME NEW i \in DOMAIN reply
      PROVE  ids[i] \in Id /\ ids[i].of = s /\ ids[i].nth = i
  <2>1. ids[i] = [of |-> s, nth |-> i, name |-> reply[i]]
    BY <1>3
  <2>2. i \in Nat /\ reply[i] \in Names
    BY <1>1, <1>2
  <2>. QED
    BY <2>1, <2>2 DEF Id
<1>5. ids \in [1 .. Len(reply) -> Id]
  BY <1>1, <1>3, <1>4
<1>6. ids \in Seq(Id)
  BY <1>1, <1>5, LenProperties, IsASeq
<1>. QED
  BY <1>3, <1>4, <1>6

\* A list is replaced by the ids of a reply.
Captures(x, m, home, s, reply) ==
  /\ x[home].pending = Asked(s, reply) /\ x[home].reply = s
  /\ \A r \in Spans \ {home} : x[r] = m[r]

\* A reply is captured where its context says.
LEMMA CapturedIs ==
  ASSUME NEW m \in [Spans -> Session], NEW ctx \in Context, NEW s \in Spans,
         NEW reply \in Seq(Names), NEW x, x = Captured(m, ctx, s, reply)
  PROVE  /\ x \in [Spans -> Session]
         /\ \A r \in Spans : /\ x[r].counter = m[r].counter
                             /\ x[r].reserved = m[r].reserved /\ x[r].used = m[r].used
         /\ \E home \in Spans : Captures(x, m, home, s, reply)
<1>. DEFINE home == IF ctx.session = None THEN s ELSE ctx.session
            old  == m[home]
            ids  == Asked(s, reply)
            one  == [old EXCEPT !.pending = ids]
            new  == [one EXCEPT !.reply = s]
<1>1. home \in Spans /\ old \in Session /\ ids \in Seq(Id) /\ s \in SpanOrNone
  BY AskedIs DEF Context, SpanOrNone
<1>2. x = [[m EXCEPT ![home].pending = ids] EXCEPT ![home].reply = s]
  BY DEF Captured
<1>3. x = [m EXCEPT ![home] = new]
  BY <1>1, <1>2
<1>. HIDE DEF old, ids, home
<1>4. /\ one \in Session /\ one.pending = ids /\ one.counter = old.counter
      /\ one.reserved = old.reserved /\ one.used = old.used
  BY <1>1 DEF Session
<1>. HIDE DEF one
<1>5. /\ new \in Session /\ new.pending = ids /\ new.reply = s /\ new.counter = old.counter
      /\ new.reserved = old.reserved /\ new.used = old.used
  BY <1>1, <1>4 DEF Session
<1>. HIDE DEF new
<1>6. /\ x \in [Spans -> Session] /\ x[home] = new
      /\ \A r \in Spans \ {home} : x[r] = m[r]
  BY <1>1, <1>3, <1>5
<1>7. \A r \in Spans : /\ x[r].counter = m[r].counter
                       /\ x[r].reserved = m[r].reserved /\ x[r].used = m[r].used
  BY <1>1, <1>5, <1>6 DEF old
<1>. QED
  BY <1>1, <1>5, <1>6, <1>7 DEF Captures, ids

\* The least of the matches is one of them.
LEMMA FirstIs ==
  ASSUME NEW S \in SUBSET Nat, S # {} PROVE First(S) \in S
BY Least DEF First

\* What a tool's row takes: nothing, or an entry of that name that goes away.
Takes(x, id, h, k, name) ==
  /\ h \in Spans /\ k \in DOMAIN ses[h].pending
  /\ id = ses[h].pending[k] /\ id.name = name
  /\ x[h].pending = RemoveAt(ses[h].pending, k) /\ x[h].reply = ses[h].reply
  /\ \A r \in Spans \ {h} : x[r] = ses[r]

\* A tool's row takes from the list of its context.
LEMMA PoppedIs ==
  ASSUME TypeOK, NEW ctx \in Context, NEW name, NEW x, x = Popped(ctx, name),
         NEW id, id = PoppedId(ctx, name)
  PROVE  /\ x \in [Spans -> Session] /\ id \in Id \union {None}
         /\ SameReserved(x) /\ SameUsed(x)
         /\ \A r \in Spans : x[r].counter = ses[r].counter
         /\ \/ x = ses /\ id = None
            \/ \E k : Takes(x, id, Home(ctx), k, name)
<1>1. CASE Matches(ctx, name) = {}
  <2>1. x = ses /\ id = None
    BY <1>1 DEF Popped, PoppedId
  <2>. QED
    BY <2>1 DEF TypeOK, SameReserved, SameUsed
<1>2. CASE Matches(ctx, name) # {}
  <2>. DEFINE h   == Home(ctx)
              k   == First(Matches(ctx, name))
              old == ses[h]
              cut == RemoveAt(old.pending, k)
              new == [old EXCEPT !.pending = cut]
  <2>1. h \in Spans /\ old \in Session
    BY <1>2 DEF Matches, Home, Context, SpanOrNone, TypeOK
  <2>2. old.pending \in Seq(Id)
    BY <2>1 DEF Session
  <2>3. k \in Matches(ctx, name)
    <3>1. DOMAIN old.pending \subseteq Nat
      BY <2>2, LenProperties
    <3>2. Matches(ctx, name) \in SUBSET Nat
      BY <3>1 DEF Matches
    <3>. QED
      BY <1>2, <3>2, FirstIs
  <2>4. k \in DOMAIN old.pending /\ old.pending[k].name = name
    BY <2>1, <2>3 DEF Matches
  <2>5. cut \in Seq(Id) /\ old.pending[k] \in Id
    BY <2>2, <2>4, Removed, ElementOfSeq, LenProperties
  <2>6. x = [ses EXCEPT ![h] = new] /\ id = old.pending[k]
    BY <1>2 DEF Popped, PoppedId
  <2>. HIDE DEF h, k, old, cut
  <2>7. /\ new \in Session /\ new.pending = cut /\ new.reply = old.reply
        /\ new.counter = old.counter /\ new.reserved = old.reserved /\ new.used = old.used
    BY <2>1, <2>5 DEF Session
  <2>. HIDE DEF new
  <2>8. /\ x \in [Spans -> Session] /\ x[h] = new
        /\ \A r \in Spans \ {h} : x[r] = ses[r]
    BY <2>1, <2>6, <2>7 DEF TypeOK
  <2>9. \A r \in Spans : /\ x[r].counter = ses[r].counter /\ x[r].reserved = ses[r].reserved
                         /\ x[r].used = ses[r].used
    BY <2>7, <2>8 DEF old
  <2>10. Takes(x, id, h, k, name)
    BY <2>1, <2>4, <2>6, <2>7, <2>8 DEF Takes, old, cut
  <2>. QED
    BY <2>5, <2>6, <2>8, <2>9, <2>10 DEF SameReserved, SameUsed, h
<1>. QED
  BY <1>1, <1>2

\* Both maps within their caps.
Maps(m) == m \in MapType /\ Len(m.parents) <= Cap /\ Len(m.kept) <= Cap

\* One more entry keeps them there.
LEMMA RecordedIs ==
  ASSUME NEW m, Maps(m), NEW s \in Spans, NEW p \in SpanOrNone
  PROVE  Maps(RecordParent(m, s, p)) /\ Maps(RecordKept(m, s))
<1>. DEFINE P == [span : Spans, parent : SpanOrNone]
            parents == Append(m.parents, [span |-> s, parent |-> p])
            kept    == Append(m.kept, s)
<1>1. m.parents \in Seq(P) /\ m.kept \in Seq(Spans) /\ [span |-> s, parent |-> p] \in P
  BY DEF Maps, MapType
<1>2. parents \in Seq(P) /\ Len(parents) = Len(m.parents) + 1
      /\ kept \in Seq(Spans) /\ Len(kept) = Len(m.kept) + 1
      /\ Len(m.parents) \in Nat /\ Len(m.kept) \in Nat
  BY <1>1, AppendProperties, LenProperties
<1>3. Len(parents) <= Cap + 1 /\ Len(kept) <= Cap + 1
  BY <1>2, SpanAssumption DEF Maps
<1>. HIDE DEF P, parents, kept
<1>4. /\ Newest(parents) \in Seq(P) /\ Len(Newest(parents)) <= Cap
      /\ Newest(kept) \in Seq(Spans) /\ Len(Newest(kept)) <= Cap
  BY <1>2, <1>3, Aged
<1>5. RecordParent(m, s, p) = [m EXCEPT !.parents = Newest(parents)]
      /\ RecordKept(m, s) = [m EXCEPT !.kept = Newest(kept)]
  BY DEF RecordParent, RecordKept, parents, kept
<1>. QED
  BY <1>4, <1>5 DEF Maps, MapType, P

-------------------------------------------------------------------------------
(* Types. *)

\* A span, a task's context and the maps, typed.
LEMMA StateTyped ==
  ASSUME TypeOK
  PROVE  /\ \A s \in Spans : span[s] \in Span
         /\ \A t \in Tasks : Ctx(t) \in Context
         /\ Maps(maps)
BY TopIs DEF TypeOK, Maps, MapType

\* The end of a model span, as far as types go.
LEMMA EndModelTyped ==
  ASSUME TypeOK, NEW s \in Spans, span[s].kind \in Models, EndModel(s)
  PROVE  /\ span' \in [Spans -> Span] /\ Maps(maps') /\ row' \in [Spans -> Row \union {None}]
         /\ span' = Ended(s)
         /\ row'[s].id = None
         /\ \A r \in Spans \ {s} : row'[r] = row[r]
<1>. DEFINE kept == RecordKept(maps, s)
            parent == KeptParent(kept, span[s].parent, Root(s))
<1>1. span' = Ended(s) /\ maps' = kept /\ row' = Logged(s, parent, None)
  BY DEF EndModel
<1>2. Maps(kept)
  <2>1. Maps(maps) /\ None \in SpanOrNone
    BY StateTyped DEF SpanOrNone
  <2>. QED
    BY <2>1, RecordedIs
<1>3. span[s].parent \in SpanOrNone /\ Root(s) \in SpanOrNone
  BY StateTyped DEF Span, Root, SpanOrNone
<1>4. parent \in SpanOrNone
  BY <1>2, <1>3, KeptParentTyped DEF Maps
<1>. HIDE DEF kept, parent
<1>. QED
  BY <1>1, <1>2, <1>4, EndedIs, LoggedIs

\* A context in which some variables are set.
LEMMA CtxTyped ==
  ASSUME NEW ctx \in Context, NEW s \in SpanOrNone
  PROVE  /\ [ctx EXCEPT !.cur = s] \in Context /\ [ctx EXCEPT !.cur = s].session = ctx.session
         /\ [ctx EXCEPT !.cur = s].resv = ctx.resv
         /\ [ctx EXCEPT !.cur = s, !.session = s] \in Context
         /\ [ctx EXCEPT !.cur = s, !.session = s].session = s
         /\ [ctx EXCEPT !.cur = s, !.session = s].resv = ctx.resv
         /\ [ctx EXCEPT !.resv = s] \in Context /\ [ctx EXCEPT !.resv = s].resv = s
         /\ [ctx EXCEPT !.resv = s].session = ctx.session
         /\ [ctx EXCEPT !.list = s] \in Context /\ [ctx EXCEPT !.list = s].session = ctx.session
         /\ [ctx EXCEPT !.list = s].resv = ctx.resv
BY DEF Context

\* A task whose variables change in place.
WithCtx(t, ctx) == [task EXCEPT ![t].ctx = ctx]

\* Its blocks stay.
LEMMA InPlace ==
  ASSUME TypeOK, NEW t \in Tasks, NEW ctx \in Context, NEW x, x = WithCtx(t, ctx)
  PROVE  /\ x \in [Tasks -> Task] /\ x[t].ctx = ctx
         /\ x[t].stack = task[t].stack /\ x[t].active = task[t].active
         /\ \A u \in Tasks \ {t} : x[u] = task[u]
<1>. DEFINE old == task[t]
            new == [old EXCEPT !.ctx = ctx]
<1>1. x = [task EXCEPT ![t] = new] /\ old \in Task
  BY DEF TypeOK, WithCtx
<1>. HIDE DEF old
<1>2. new \in Task /\ new.ctx = ctx /\ new.stack = old.stack /\ new.active = old.active
  BY <1>1 DEF Task
<1>. HIDE DEF new
<1>. QED
  BY <1>1, <1>2 DEF TypeOK, old

\* A task starts with a copy of its parent's variables.
LEMMA SpawnTyped ==
  ASSUME TypeOK, NEW t \in Tasks, NEW u \in Tasks, Spawn(t, u)
  PROVE  /\ TypeOK' /\ task'[u].ctx = Ctx(t) /\ task'[u].stack = <<>>
         /\ \A v \in Tasks \ {u} : task'[v] = task[v]
<1>. DEFINE new == [active |-> TRUE, ctx |-> Ctx(t), stack |-> <<>>]
<1>1. <<>> \in Seq(Entry)
  BY EmptySeq
<1>2. new \in Task /\ new.ctx = Ctx(t) /\ new.stack = <<>>
  BY <1>1, TopIs DEF Task, Entry
<1>3. task' = [task EXCEPT ![u] = new]
  BY DEF Spawn
<1>. HIDE DEF new
<1>. QED
  BY <1>2, <1>3 DEF Spawn, TypeOK

\* A scope is opened: its span, its session and its block.
LEMMA OpenScopeTyped ==
  ASSUME TypeOK, NEW t \in Tasks, NEW s \in Spans, OpenScope(t, s)
  PROVE  TypeOK'
<1>1. Ctx(t) \in Context /\ Ctx(t).cur \in SpanOrNone /\ s \in SpanOrNone
  BY TopIs DEF Context, SpanOrNone
<1>2. span' \in [Spans -> Span]
  <2>1. /\ "scope" \in AllKinds /\ "open" \in States /\ None \in NameOrNone
        /\ None \in OrderOrNone
        /\ span' = Made(s, "scope", None, Ctx(t).cur, s, None, "open")
    BY DEF OpenScope, AllKinds, States, NameOrNone, OrderOrNone
  <2>. QED
    BY <1>1, <2>1, MadeIs
<1>3. task' \in [Tasks -> Task]
  BY <1>1, CtxTyped, EnterIs DEF OpenScope
<1>. QED
  BY <1>2, <1>3 DEF OpenScope, TypeOK

\* A scope ends, and its block is left.
LEMMA CloseScopeTyped ==
  ASSUME TypeOK, NEW t \in Tasks, CloseScope(t)
  PROVE  TypeOK'
<1>1. task[t].stack # <<>> /\ Top(t) \in Spans
  BY TopIs DEF CloseScope, Inside
<1>2. Ctx(t).list \in SpanOrNone /\ span[Top(t)].parent \in SpanOrNone
  BY <1>1, TopIs, StateTyped DEF Context, Span
<1>3. span' \in [Spans -> Span] /\ row' \in [Spans -> Row \union {None}]
  BY <1>1, <1>2, EndedIs, LoggedIs DEF CloseScope
<1>4. task' \in [Tasks -> Task]
  BY <1>1, <1>2, LeaveIs DEF CloseScope
<1>. QED
  BY <1>3, <1>4 DEF CloseScope, TypeOK

\* A span starts: its attributes, the maps' entries and its block.
LEMMA StartTyped ==
  ASSUME TypeOK, NEW t \in Tasks, NEW s \in Spans, NEW name \in Names \union {None},
         NEW detached \in BOOLEAN, NEW ordered \in BOOLEAN,
         Start(t, s, name, detached, ordered)
  PROVE  TypeOK'
<1>. DEFINE kind   == span[s].kind
            parent == IF detached THEN None ELSE Ctx(t).cur
            noted  == RecordParent(maps, s, parent)
            order  == IF kind \in Models THEN TakenOrder(Ctx(t)) ELSE None
<1>1. /\ Ctx(t) \in Context /\ Ctx(t).session \in SpanOrNone /\ s \in SpanOrNone
      /\ parent \in SpanOrNone
  BY TopIs DEF Context, SpanOrNone
<1>2. kind \in AllKinds /\ order \in OrderOrNone
  BY <1>1, TakenIs DEF Start, AllKinds, OrderOrNone
<1>3. /\ span' = Made(s, kind, name, parent, Ctx(t).session, order, "open")
      /\ ses' = IF ordered THEN Taken(Ctx(t)) ELSE ses
      /\ maps' = IF kind = "tool" THEN RecordKept(noted, s) ELSE noted
      /\ task' = IF kind = "stream" THEN task ELSE Enter(t, s, [Ctx(t) EXCEPT !.cur = s])
      /\ row' = row
  BY DEF Start
<1>4. Maps(maps')
  BY <1>1, <1>3, StateTyped, RecordedIs
<1>. HIDE DEF kind, parent, noted, order
<1>5. span' \in [Spans -> Span]
  <2>1. "open" \in States /\ name \in NameOrNone
    BY DEF States, NameOrNone
  <2>. QED
    BY <1>1, <1>2, <1>3, <2>1, MadeIs
<1>6. ses' \in [Spans -> Session]
  BY <1>1, <1>3, TakenIs DEF TypeOK
<1>7. task' \in [Tasks -> Task]
  <2>1. [Ctx(t) EXCEPT !.cur = s] \in Context
    BY <1>1, CtxTyped
  <2>2. Enter(t, s, [Ctx(t) EXCEPT !.cur = s]) \in [Tasks -> Task]
    BY <2>1, EnterIs
  <2>. QED
    BY <1>3, <2>2 DEF TypeOK
<1>. QED
  BY <1>3, <1>4, <1>5, <1>6, <1>7 DEF TypeOK, Maps, MapType

\* A frame ends, and its block is left.
LEMMA EndFrameTyped ==
  ASSUME TypeOK, NEW t \in Tasks, EndFrame(t)
  PROVE  TypeOK'
<1>1. task[t].stack # <<>> /\ Top(t) \in Spans /\ Ctx(t).list \in SpanOrNone
  BY TopIs DEF EndFrame, Inside, Context
<1>2. span' \in [Spans -> Span] /\ task' \in [Tasks -> Task]
  BY <1>1, EndedIs, LeaveIs DEF EndFrame
<1>. QED
  BY <1>2 DEF EndFrame, TypeOK

\* A tool's span ends: its row, its id and the list the id came from.
LEMMA EndToolTyped ==
  ASSUME TypeOK, NEW t \in Tasks, EndTool(t)
  PROVE  TypeOK'
<1>. DEFINE s == Top(t)
            parent == KeptParent(maps, span[s].parent, Root(s))
            id == PoppedId(Ctx(t), span[s].name)
<1>1. /\ task[t].stack # <<>> /\ s \in Spans /\ Ctx(t) \in Context
      /\ Ctx(t).list \in SpanOrNone
  BY TopIs DEF EndTool, Inside, Context
<1>2. /\ span' = Ended(s) /\ row' = Logged(s, parent, id) /\ task' = Leave(t)
      /\ ses' = Popped(Ctx(t), span[s].name) /\ maps' = maps
  BY DEF EndTool
<1>3. span[s].parent \in SpanOrNone /\ Root(s) \in SpanOrNone
  BY <1>1, StateTyped DEF Span, Root, SpanOrNone
<1>. HIDE DEF s
<1>4. parent \in SpanOrNone
  BY <1>3, StateTyped, KeptParentTyped DEF Maps
<1>5. id \in Id \union {None} /\ ses' \in [Spans -> Session]
  BY <1>1, <1>2, PoppedIs
<1>. HIDE DEF parent, id
<1>6. span' \in [Spans -> Span] /\ row' \in [Spans -> Row \union {None}]
  BY <1>1, <1>2, <1>4, <1>5, EndedIs, LoggedIs
<1>7. task' \in [Tasks -> Task]
  BY <1>1, <1>2, LeaveIs
<1>. QED
  BY <1>2, <1>5, <1>6, <1>7 DEF TypeOK

\* A model span ends in its block.
LEMMA EndLlmTyped ==
  ASSUME TypeOK, NEW t \in Tasks, EndLlm(t)
  PROVE  TypeOK'
<1>1. /\ task[t].stack # <<>> /\ Top(t) \in Spans /\ Ctx(t).list \in SpanOrNone
      /\ span[Top(t)].kind \in Models
  BY TopIs DEF EndLlm, Inside, Context, Models
<1>2. /\ span' \in [Spans -> Span] /\ Maps(maps') /\ row' \in [Spans -> Row \union {None}]
  BY <1>1, EndModelTyped DEF EndLlm
<1>3. task' \in [Tasks -> Task]
  BY <1>1, LeaveIs DEF EndLlm
<1>. QED
  BY <1>2, <1>3 DEF EndLlm, TypeOK, Maps, MapType

\* A stream ends, in no block.
LEMMA EndStreamTyped ==
  ASSUME TypeOK, NEW t \in Tasks, NEW s \in Spans, EndStream(t, s)
  PROVE  TypeOK'
<1>1. /\ span' \in [Spans -> Span] /\ Maps(maps') /\ row' \in [Spans -> Row \union {None}]
  BY EndModelTyped DEF EndStream, Models
<1>. QED
  BY <1>1 DEF EndStream, TypeOK, Maps, MapType

\* A call is wrapped: its reservation, and all the sessions it leaves alone.
LEMMA WrapTyped ==
  ASSUME TypeOK, NEW t \in Tasks, NEW s \in Spans, Wrap(t, s)
  PROVE  /\ TypeOK' /\ ses'[s].reserved = NextOrder(Ctx(t).session)
         /\ \A r \in Spans \ {s} : ses'[r].reserved = ses[r].reserved
         /\ \A r \in Spans : ses'[r].counter = Counted(Ctx(t).session)[r].counter
         /\ SameLists(ses') /\ SameUsed(ses')
<1>. DEFINE m     == Counted(Ctx(t).session)
            order == NextOrder(Ctx(t).session)
            old   == m[s]
            new   == [old EXCEPT !.reserved = order]
<1>1. Ctx(t) \in Context /\ Ctx(t).session \in SpanOrNone /\ s \in SpanOrNone
  BY TopIs DEF Context, SpanOrNone
<1>2. /\ m \in [Spans -> Session] /\ order \in Nat
      /\ SameLists(m) /\ SameReserved(m) /\ SameUsed(m)
  BY <1>1, CountedIs
<1>3. /\ span' = Made(s, "call", None, None, Ctx(t).session, None, "wrapped")
      /\ ses' = [m EXCEPT ![s].reserved = order]
      /\ task' = Enter(t, s, [Ctx(t) EXCEPT !.resv = s])
      /\ maps' = maps /\ row' = row
  BY DEF Wrap
<1>. HIDE DEF m, order
<1>4. ses' = [m EXCEPT ![s] = new] /\ old \in Session
  BY <1>2, <1>3
<1>. HIDE DEF old
<1>5. /\ new \in Session /\ new.reserved = order /\ new.pending = old.pending
      /\ new.reply = old.reply /\ new.used = old.used /\ new.counter = old.counter
  BY <1>2, <1>4 DEF Session
<1>. HIDE DEF new
<1>6. ses' \in [Spans -> Session] /\ ses'[s] = new /\ \A r \in Spans \ {s} : ses'[r] = m[r]
  BY <1>2, <1>4, <1>5
<1>7. span' \in [Spans -> Span]
  <2>1. /\ "call" \in AllKinds /\ "wrapped" \in States /\ None \in NameOrNone
        /\ None \in OrderOrNone /\ None \in SpanOrNone
    BY DEF AllKinds, States, SpanOrNone, NameOrNone, OrderOrNone
  <2>. QED
    BY <1>1, <1>3, <2>1, MadeIs
<1>8. task' \in [Tasks -> Task]
  BY <1>1, <1>3, CtxTyped, EnterIs
<1>9. TypeOK'
  BY <1>3, <1>6, <1>7, <1>8 DEF TypeOK
<1>. QED
  BY <1>2, <1>5, <1>6, <1>9 DEF SameLists, SameReserved, SameUsed, m, order, old

\* A wrapped call's span starts; its block and its reservation stay.
LEMMA RequestTyped ==
  ASSUME TypeOK, NEW t \in Tasks, Request(t)
  PROVE  /\ TypeOK' /\ task'[t].stack = task[t].stack
         /\ task'[t].ctx.session = Ctx(t).session /\ task'[t].ctx.resv = Ctx(t).resv
         /\ \A u \in Tasks \ {t} : task'[u] = task[u]
<1>. DEFINE s == Top(t)
            ctx == [Ctx(t) EXCEPT !.cur = s]
<1>1. task[t].stack # <<>> /\ s \in Spans /\ Ctx(t) \in Context
      /\ Ctx(t).cur \in SpanOrNone /\ Ctx(t).session \in SpanOrNone /\ s \in SpanOrNone
  BY TopIs DEF Request, Context, SpanOrNone
<1>2. /\ span' = Made(s, "call", None, Ctx(t).cur, Ctx(t).session, TakenOrder(Ctx(t)), "open")
      /\ maps' = RecordParent(maps, s, Ctx(t).cur)
      /\ task' = [task EXCEPT ![t].ctx.cur = s]
      /\ ses' = Taken(Ctx(t)) /\ row' = row
  BY DEF Request
<1>. HIDE DEF s
<1>3. ctx \in Context /\ ctx.session = Ctx(t).session /\ ctx.resv = Ctx(t).resv
  BY <1>1, CtxTyped
<1>4. task' = WithCtx(t, ctx)
  BY <1>2 DEF Ctx, WithCtx
<1>. HIDE DEF ctx
<1>5. /\ task' \in [Tasks -> Task] /\ task'[t].ctx = ctx
      /\ task'[t].stack = task[t].stack
      /\ \A u \in Tasks \ {t} : task'[u] = task[u]
  BY <1>3, <1>4, InPlace
<1>6. ses' \in [Spans -> Session] /\ TakenOrder(Ctx(t)) \in OrderOrNone
  BY <1>1, <1>2, TakenIs DEF OrderOrNone
<1>7. span' \in [Spans -> Span]
  <2>1. "call" \in AllKinds /\ "open" \in States /\ None \in NameOrNone
    BY DEF AllKinds, States, NameOrNone, OrderOrNone
  <2>. QED
    BY <1>1, <1>2, <1>6, <2>1, MadeIs
<1>8. Maps(maps')
  BY <1>1, <1>2, StateTyped, RecordedIs
<1>. QED
  BY <1>2, <1>3, <1>5, <1>6, <1>7, <1>8 DEF TypeOK, Maps, MapType

\* A wrapped call returns, with the tools its reply asks for.
LEMMA ReturnTyped ==
  ASSUME TypeOK, NEW t \in Tasks, NEW reply \in Replies, Return(t, reply)
  PROVE  TypeOK'
<1>. DEFINE list == ListAfter(Ctx(t), Top(t), reply)
<1>1. /\ task[t].stack # <<>> /\ Top(t) \in Spans /\ Ctx(t) \in Context
      /\ span[Top(t)].kind \in Models /\ reply \in Seq(Names)
  BY TopIs, SpanAssumption DEF Return, Inside, Models
<1>2. list \in SpanOrNone
  BY <1>1 DEF ListAfter, SpanOrNone
<1>3. /\ span' \in [Spans -> Span] /\ Maps(maps') /\ row' \in [Spans -> Row \union {None}]
  BY <1>1, EndModelTyped DEF Return
<1>4. ses' \in [Spans -> Session]
  BY <1>1, CapturedIs DEF Return, TypeOK
<1>5. task' \in [Tasks -> Task]
  <2>1. task' = [Leave(t) EXCEPT ![t].ctx.list = list]
    BY DEF Return
  <2>. HIDE DEF list
  <2>. QED
    BY <1>1, <1>2, <2>1, LeaveIs
<1>. QED
  BY <1>3, <1>4, <1>5 DEF TypeOK, Maps, MapType

\* A call without a span is metered.
LEMMA ManualTyped ==
  ASSUME TypeOK, NEW t \in Tasks, NEW s \in Spans, NEW reply \in Replies, Manual(t, s, reply)
  PROVE  /\ TypeOK' /\ row'[s].id = None /\ \A r \in Spans \ {s} : row'[r] = row[r]
         /\ task'[t].stack = task[t].stack
         /\ task'[t].ctx.session = Ctx(t).session /\ task'[t].ctx.resv = Ctx(t).resv
         /\ \A u \in Tasks \ {t} : task'[u] = task[u]
<1>. DEFINE list == ListAfter(Ctx(t), s, reply)
            ctx  == [Ctx(t) EXCEPT !.list = list]
            m    == Counted(Ctx(t).session)
            parent == ManualParent(Ctx(t))
<1>1. /\ Ctx(t) \in Context /\ Ctx(t).cur \in SpanOrNone /\ Ctx(t).session \in SpanOrNone
      /\ list \in SpanOrNone /\ parent \in SpanOrNone /\ reply \in Seq(Names)
  BY TopIs, SpanAssumption DEF Context, SpanOrNone, ListAfter, ManualParent
<1>2. /\ span' = Made(s, "manual", None, Ctx(t).cur, Ctx(t).session,
                      NextOrder(Ctx(t).session), "done")
      /\ row' = Logged(s, parent, None) /\ ses' = Captured(m, Ctx(t), s, reply)
      /\ task' = [task EXCEPT ![t].ctx.list = list] /\ maps' = maps
  BY DEF Manual
<1>. HIDE DEF list, parent
<1>3. ctx \in Context /\ ctx.session = Ctx(t).session /\ ctx.resv = Ctx(t).resv
  BY <1>1, CtxTyped
<1>4. task' = WithCtx(t, ctx)
  BY <1>2 DEF Ctx, WithCtx
<1>. HIDE DEF ctx
<1>5. /\ task' \in [Tasks -> Task] /\ task'[t].ctx = ctx
      /\ task'[t].stack = task[t].stack
      /\ \A u \in Tasks \ {t} : task'[u] = task[u]
  BY <1>3, <1>4, InPlace
<1>6. m \in [Spans -> Session] /\ NextOrder(Ctx(t).session) \in OrderOrNone
  BY <1>1, CountedIs DEF OrderOrNone
<1>. HIDE DEF m
<1>7. ses' \in [Spans -> Session]
  BY <1>1, <1>2, <1>6, CapturedIs
<1>8. /\ row' \in [Spans -> Row \union {None}] /\ row'[s].id = None
      /\ \A r \in Spans \ {s} : row'[r] = row[r]
  BY <1>1, <1>2, LoggedIs
<1>9. span' \in [Spans -> Span]
  <2>1. "manual" \in AllKinds /\ "done" \in States /\ None \in NameOrNone
    BY DEF AllKinds, States, NameOrNone, OrderOrNone
  <2>. QED
    BY <1>1, <1>2, <1>6, <2>1, MadeIs
<1>. QED
  BY <1>2, <1>3, <1>5, <1>7, <1>8, <1>9 DEF TypeOK

\* A function is entered.
LEMMA EnterFnTyped ==
  ASSUME TypeOK, NEW t \in Tasks, NEW s \in Spans, NEW name \in Names, EnterFn(t, s, name)
  PROVE  TypeOK'
<1>1. Ctx(t) \in Context /\ Ctx(t).cur \in SpanOrNone /\ Ctx(t).session \in SpanOrNone
  BY TopIs DEF Context
<1>2. span' \in [Spans -> Span] /\ task' \in [Tasks -> Task]
  <2>1. /\ "fn" \in AllKinds /\ "open" \in States /\ name \in NameOrNone
        /\ None \in OrderOrNone
        /\ span' = Made(s, "fn", name, Ctx(t).cur, Ctx(t).session, None, "open")
        /\ task' = Enter(t, s, Ctx(t))
    BY DEF EnterFn, AllKinds, States, NameOrNone, OrderOrNone
  <2>2. span' \in [Spans -> Span]
    BY <1>1, <2>1, MadeIs
  <2>. QED
    BY <1>1, <2>1, <2>2, EnterIs
<1>. QED
  BY <1>2 DEF EnterFn, TypeOK

\* A function returns: its row, its id and the list the id came from.
LEMMA ExitFnTyped ==
  ASSUME TypeOK, NEW t \in Tasks, ExitFn(t)
  PROVE  TypeOK'
<1>. DEFINE s == Top(t)
            parent == ManualParent(Ctx(t))
            id == PoppedId(Ctx(t), span[s].name)
<1>1. /\ task[t].stack # <<>> /\ s \in Spans /\ Ctx(t) \in Context
      /\ Ctx(t).list \in SpanOrNone /\ parent \in SpanOrNone
  BY TopIs DEF ExitFn, Inside, Context, ManualParent
<1>2. /\ span' = Ended(s) /\ row' = Logged(s, parent, id) /\ task' = Leave(t)
      /\ ses' = Popped(Ctx(t), span[s].name) /\ maps' = maps
  BY DEF ExitFn
<1>. HIDE DEF s
<1>5. id \in Id \union {None} /\ ses' \in [Spans -> Session]
  BY <1>1, <1>2, PoppedIs
<1>. HIDE DEF parent, id
<1>6. span' \in [Spans -> Span] /\ row' \in [Spans -> Row \union {None}]
  BY <1>1, <1>2, <1>5, EndedIs, LoggedIs
<1>7. task' \in [Tasks -> Task]
  BY <1>1, <1>2, LeaveIs
<1>. QED
  BY <1>2, <1>5, <1>6, <1>7 DEF TypeOK

\* A tool of OpenAI Agents has run.
LEMMA AgentsToolTyped ==
  ASSUME TypeOK, NEW t \in Tasks, NEW s \in Spans, NEW name \in Names, AgentsTool(t, s, name)
  PROVE  TypeOK'
<1>. DEFINE id == PoppedId(Ctx(t), name)
<1>1. Ctx(t) \in Context /\ Ctx(t).cur \in SpanOrNone /\ Ctx(t).session \in SpanOrNone
  BY TopIs DEF Context
<1>2. /\ span' = Made(s, "agents", name, Ctx(t).cur, Ctx(t).session, None, "done")
      /\ row' = Logged(s, Ctx(t).session, id) /\ ses' = Popped(Ctx(t), name)
      /\ task' = task /\ maps' = maps
  BY DEF AgentsTool
<1>3. id \in Id \union {None} /\ ses' \in [Spans -> Session]
  BY <1>1, <1>2, PoppedIs
<1>. HIDE DEF id
<1>4. span' \in [Spans -> Span] /\ row' \in [Spans -> Row \union {None}]
  <2>1. /\ "agents" \in AllKinds /\ "done" \in States /\ name \in NameOrNone
        /\ None \in OrderOrNone
    BY DEF AllKinds, States, NameOrNone, OrderOrNone
  <2>2. span' \in [Spans -> Span]
    BY <1>1, <1>2, <2>1, MadeIs
  <2>3. row' \in [Spans -> Row \union {None}]
    BY <1>1, <1>2, <1>3, LoggedIs
  <2>. QED
    BY <2>2, <2>3
<1>. QED
  BY <1>2, <1>3, <1>4 DEF TypeOK

-------------------------------------------------------------------------------
(* Blocks and reservations.                                                  *)

\* The variables in force above the i-th block of a task.
Above(t, i) == IF i = Len(task[t].stack) THEN Ctx(t) ELSE task[t].stack[i + 1].was

\* A block sees the session of its span, and a wrapped call is innermost; the
\* reservation in force is that of the call the task is about to request, and
\* of no other task, block or copied context.
StackOk(t) ==
  /\ \A i \in DOMAIN task[t].stack :
       LET s == task[t].stack[i].span
       IN  /\ span[s].state # "new"
           /\ span[s].state = "wrapped" => i = Len(task[t].stack)
           /\ Above(t, i).session = span[s].session
           /\ ~Reserves(task[t].stack[i].was)
  /\ Reserves(Ctx(t)) =>
       task[t].stack # <<>> /\ Ctx(t).resv = Top(t) /\ span[Top(t)].state = "wrapped"
  /\ task[t].stack # <<>> /\ span[Top(t)].state = "wrapped" =>
       Reserves(Ctx(t)) /\ Ctx(t).resv = Top(t)
Stacks == \A t \in Tasks : StackOk(t)

\* No span that was there changes its session or becomes or ceases to be wrapped.
Moves == \A r \in Spans : span[r].state # "new" =>
           /\ span'[r].state # "new" /\ span'[r].session = span[r].session
           /\ span'[r].state = "wrapped" <=> span[r].state = "wrapped"

\* Reserves, in the given state of the sessions.
Held(m, c) == c.resv # None /\ ~m[c.resv].used

\* A task that can act holds no reservation.
LEMMA ReadyIsFree ==
  ASSUME Stacks, NEW t \in Tasks, Ready(t)
  PROVE  ~Reserves(Ctx(t))
BY DEF Stacks, StackOk, Ready

\* Reservations are used up in a context as long as they are in the sessions.
LEMMA ReservesSame ==
  ASSUME SameUsed(ses'), NEW c, NEW d \in Context, c.resv = d.resv
  PROVE  Reserves(c)' <=> Reserves(d)
BY DEF SameUsed, Held, Reserves, Context, SpanOrNone

\* A task keeps its blocks while other tasks start and end theirs.
LEMMA OthersKeep ==
  ASSUME TypeOK, TypeOK', Stacks, NEW u \in Tasks, SameUsed(ses'), Moves,
         task'[u].stack = task[u].stack, task'[u].ctx.resv = Ctx(u).resv,
         task'[u].ctx.session = Ctx(u).session
  PROVE  StackOk(u)'
<1>. DEFINE st == task[u].stack
            n  == Len(st)
<1>1. /\ \A i \in DOMAIN st : st[i].span \in Spans /\ st[i].was \in Context
      /\ Ctx(u) \in Context /\ Ctx(u)' \in Context
  <2>1. st \in Seq(Entry) /\ Ctx(u) \in Context
    BY TopIs
  <2>2. \A i \in DOMAIN st : st[i] \in Entry
    BY <2>1, LenProperties, ElementOfSeq
  <2>3. Ctx(u)' \in Context
    BY DEF TypeOK, Task, Ctx
  <2>. QED
    BY <2>1, <2>2, <2>3 DEF Entry
<1>2. /\ task'[u].stack = st /\ Ctx(u)'.resv = Ctx(u).resv /\ Ctx(u)'.session = Ctx(u).session
  BY DEF Ctx
<1>3. Reserves(Ctx(u))' <=> Reserves(Ctx(u))
  <2>1. Ctx(u)' \in Context /\ Ctx(u)'.resv = Ctx(u).resv
    BY <1>1, <1>2
  <2>. QED
    BY <1>1, <2>1 DEF SameUsed, Held, Reserves, Context, SpanOrNone
<1>4. \A i \in DOMAIN st : st[i].was.resv # None /\ ~ses'[st[i].was.resv].used => Reserves(st[i].was)
  BY <1>1 DEF SameUsed, Held, Reserves, Context, SpanOrNone
<1>5. StackOk(u)
  BY DEF Stacks
<1>6. \A i \in DOMAIN st : Above(u, i)'.session = Above(u, i).session
  BY <1>2 DEF Above
<1>7. st # <<>> => Top(u)' = Top(u) /\ Top(u) \in Spans /\ n \in DOMAIN st /\ Top(u) = st[n].span
  BY <1>2, TopIs DEF Top
<1>8. ASSUME NEW i \in DOMAIN st
      PROVE  LET s == st[i].span
             IN  /\ span'[s].state # "new"
                 /\ span'[s].state = "wrapped" => i = n
                 /\ Above(u, i)'.session = span'[s].session
                 /\ ~Reserves(st[i].was)'
  <2>1. LET s == st[i].span
        IN  /\ s \in Spans /\ span[s].state # "new" /\ (span[s].state = "wrapped" => i = n)
            /\ Above(u, i).session = span[s].session /\ ~Reserves(st[i].was)
    BY <1>1, <1>5 DEF StackOk
  <2>2. ~(st[i].was.resv # None /\ ~ses'[st[i].was.resv].used)
    BY <1>4, <2>1
  <2>3. ~Reserves(st[i].was)'
    BY <1>2, <2>2 DEF Reserves
  <2>. QED
    BY <1>6, <2>1, <2>3 DEF Moves
<1>9. (st # <<>> => span[Top(u)].state # "new")
  BY <1>5, <1>7 DEF StackOk
<1>10. st # <<>> => (span'[Top(u)].state = "wrapped" <=> span[Top(u)].state = "wrapped")
  BY <1>7, <1>9 DEF Moves
<1>11. Reserves(Ctx(u))' => st # <<>> /\ Ctx(u)'.resv = Top(u)' /\ span'[Top(u)'].state = "wrapped"
  BY <1>2, <1>3, <1>5, <1>7, <1>10 DEF StackOk
<1>12. st # <<>> /\ span'[Top(u)'].state = "wrapped" => Reserves(Ctx(u))' /\ Ctx(u)'.resv = Top(u)'
  BY <1>2, <1>3, <1>5, <1>7, <1>10 DEF StackOk
<1>. QED
  BY <1>2, <1>8, <1>11, <1>12 DEF StackOk

\* The blocks of a task and its variables, typed.
LEMMA StackTyped ==
  ASSUME TypeOK, NEW t \in Tasks, NEW st, st = task[t].stack
  PROVE  /\ st \in Seq(Entry) /\ Ctx(t) \in Context
         /\ \A i \in DOMAIN st : st[i].span \in Spans /\ st[i].was \in Context
         /\ st # <<>> => Len(st) \in DOMAIN st /\ Top(t) = st[Len(st)].span
         /\ Len(st) \in Nat /\ DOMAIN st = 1 .. Len(st)
<1>1. st \in Seq(Entry) /\ Ctx(t) \in Context /\ (st # <<>> => Len(st) \in DOMAIN st)
  BY TopIs
<1>2. Len(st) \in Nat /\ DOMAIN st = 1 .. Len(st) /\ \A i \in DOMAIN st : st[i] \in Entry
  BY <1>1, LenProperties, ElementOfSeq
<1>. QED
  BY <1>1, <1>2 DEF Entry, Top

\* A task enters a block: only a wrapped call brings a reservation, its own.
LEMMA EnterKeeps ==
  ASSUME TypeOK, TypeOK', Stacks, NEW t \in Tasks, Ready(t), NEW s \in Spans,
         NEW ctx \in Context, task' = Enter(t, s, ctx), SameUsed(ses'), Moves,
         span'[s].state # "new", ctx.session = span'[s].session,
         \/ span'[s].state # "wrapped" /\ ctx.resv = Ctx(t).resv
         \/ span'[s].state = "wrapped" /\ ctx.resv = s /\ ~ses'[s].used
  PROVE  Stacks'
<1>. DEFINE st  == task[t].stack
            n   == Len(st)
            new == task'[t].stack
<1>0. /\ task'[t].ctx = ctx /\ new = Append(st, [span |-> s, was |-> Ctx(t)])
      /\ \A v \in Tasks \ {t} : task'[v] = task[v]
  BY EnterIs
<1>1. ASSUME NEW u \in Tasks \ {t} PROVE StackOk(u)'
  BY <1>0, OthersKeep DEF Ctx
<1>2. /\ Ctx(t)' = ctx /\ new = Append(st, [span |-> s, was |-> Ctx(t)])
  BY <1>0 DEF Ctx
<1>3. /\ st \in Seq(Entry) /\ Ctx(t) \in Context
      /\ \A i \in DOMAIN st : st[i].span \in Spans /\ st[i].was \in Context
      /\ st # <<>> => n \in DOMAIN st /\ Top(t) = st[n].span
      /\ n \in Nat /\ DOMAIN st = 1 .. n
  BY StackTyped
<1>4. /\ new # <<>> /\ Len(new) = n + 1 /\ DOMAIN new = DOMAIN st \union {n + 1}
      /\ new[n + 1].span = s /\ new[n + 1].was = Ctx(t)
      /\ \A i \in DOMAIN st : new[i] = st[i]
  <2>. DEFINE e == [span |-> s, was |-> Ctx(t)]
  <2>1. e \in Entry /\ e.span = s /\ e.was = Ctx(t) /\ new = Append(st, e)
    BY <1>2, <1>3 DEF Entry
  <2>. HIDE DEF e, st, n, new
  <2>2. /\ new # <<>> /\ Len(new) = Len(st) + 1 /\ DOMAIN new = DOMAIN st \union {Len(new)}
        /\ new[Len(new)] = e /\ \A i \in DOMAIN st : new[i] = st[i]
    BY <1>3, <2>1, Appended
  <2>. QED
    BY <2>1, <2>2 DEF n
<1>5. StackOk(t) /\ ~Reserves(Ctx(t)) /\ (st # <<>> => span[Top(t)].state # "wrapped")
  BY ReadyIsFree DEF Stacks, Ready
<1>. HIDE DEF st, n, new
<1>6. \A i \in DOMAIN st : Above(t, i)'.session = Above(t, i).session
  <2>1. \A i \in DOMAIN st : i # n + 1 /\ (i # n => i + 1 \in DOMAIN st)
    BY <1>3
  <2>. QED
    BY <1>4, <2>1 DEF Above, st, n, new
<1>7. ASSUME NEW i \in DOMAIN new
      PROVE  LET r == new[i].span
             IN  /\ span'[r].state # "new"
                 /\ span'[r].state = "wrapped" => i = n + 1
                 /\ Above(t, i)'.session = span'[r].session
                 /\ ~Held(ses', new[i].was)
  <2>1. CASE i \in DOMAIN st
    <3>1. /\ span[st[i].span].state # "new"
          /\ span[st[i].span].state # "wrapped"
          /\ Above(t, i).session = span[st[i].span].session /\ ~Reserves(st[i].was)
      BY <1>3, <1>5, <2>1 DEF StackOk, st, n
    <3>2. ~Held(ses', new[i].was)
      BY <1>3, <1>4, <2>1, <3>1 DEF SameUsed, Held, Reserves, Context, SpanOrNone
    <3>. QED
      BY <1>3, <1>4, <1>6, <2>1, <3>1, <3>2 DEF Moves
  <2>2. CASE i = n + 1
    <3>1. Above(t, i)' = ctx
      BY <1>2, <1>4, <2>2 DEF Above, new
    <3>2. ~Held(ses', new[i].was)
      BY <1>3, <1>4, <1>5, <2>2 DEF SameUsed, Held, Reserves, Context, SpanOrNone
    <3>. QED
      BY <1>4, <2>2, <3>1, <3>2
  <2>. QED
    BY <1>4, <2>1, <2>2
<1>8. Top(t)' = s
  BY <1>4 DEF Top, new
<1>9. Reserves(Ctx(t))' => span'[s].state = "wrapped" /\ ctx.resv = s
  BY <1>2, <1>3, <1>5 DEF SameUsed, Held, Reserves, Context, SpanOrNone
<1>10. span'[s].state = "wrapped" => Reserves(Ctx(t))' /\ ctx.resv = s
  BY <1>2, SpanAssumption DEF Reserves
<1>11. StackOk(t)'
  BY <1>2, <1>4, <1>7, <1>8, <1>9, <1>10 DEF StackOk, Held, Reserves, new
<1>. QED
  BY <1>1, <1>11 DEF Stacks

\* A task leaves a block: the variables it goes back to hold no reservation.
LEMMA LeaveKeeps ==
  ASSUME TypeOK, TypeOK', Stacks, NEW t \in Tasks, Ready(t), task[t].stack # <<>>,
         NEW list \in SpanOrNone,
         \/ task' = Leave(t) /\ list = Ctx(t).list
         \/ task' = [Leave(t) EXCEPT ![t].ctx.list = list],
         SameUsed(ses'), Moves
  PROVE  Stacks'
<1>. DEFINE st  == task[t].stack
            n   == Len(st)
            was == st[n].was
            new == task'[t].stack
<1>1. /\ Ctx(t)'.session = was.session /\ Ctx(t)'.resv = was.resv
      /\ new = Front(st) /\ \A u \in Tasks \ {t} : task'[u] = task[u]
  BY LeaveIs DEF Ctx
<1>2. ASSUME NEW u \in Tasks \ {t} PROVE StackOk(u)'
  BY <1>1, OthersKeep DEF Ctx
<1>3. /\ st \in Seq(Entry) /\ Ctx(t) \in Context
      /\ \A i \in DOMAIN st : st[i].span \in Spans /\ st[i].was \in Context
      /\ n \in DOMAIN st /\ Top(t) = st[n].span
      /\ n \in Nat /\ DOMAIN st = 1 .. n
  BY StackTyped
<1>4. /\ Len(new) = n - 1 /\ DOMAIN new = DOMAIN st \ {n}
      /\ \A i \in DOMAIN new : new[i] = st[i] /\ i + 1 \in DOMAIN st
  <2>1. Shorter(new, st) /\ st # <<>> /\ st \in Seq(Entry)
    BY <1>1, <1>3 DEF Shorter
  <2>. HIDE DEF st, new
  <2>. QED
    BY <2>1, Shortened
<1>5. Len(new) \in Nat /\ (new # <<>> => Len(new) \in DOMAIN new)
  <2>1. new \in Seq(Entry)
    BY <1>1, <1>3, Shortened DEF Shorter
  <2>. QED
    BY <2>1, LenProperties, EmptySeq
<1>6. StackOk(t) /\ n \in DOMAIN st
  BY <1>3 DEF Stacks
<1>. HIDE DEF st, n, was, new
<1>7. ~Reserves(Ctx(t))'
  <2>1. ~Reserves(was) /\ was \in Context
    BY <1>3, <1>6 DEF StackOk, st, n, was
  <2>. QED
    BY <1>1, <2>1 DEF SameUsed, Held, Reserves, Context, SpanOrNone
<1>8. \A i \in DOMAIN new : Above(t, i)'.session = Above(t, i).session
  <2>1. ASSUME NEW i \in DOMAIN new PROVE Above(t, i)'.session = Above(t, i).session
    <3>1. i # n /\ (i = n - 1 => i + 1 = n) /\ (i # n - 1 => i + 1 \in DOMAIN new)
      BY <1>3, <1>4
    <3>2. Above(t, i) = st[i + 1].was
      BY <3>1 DEF Above, st, n
    <3>3. CASE i = n - 1
      <4>1. Above(t, i)' = Ctx(t)'
        BY <1>4, <3>3 DEF Above, new
      <4>. QED
        BY <1>1, <3>1, <3>2, <3>3, <4>1 DEF was
    <3>4. CASE i # n - 1
      <4>1. Above(t, i)' = new[i + 1].was
        BY <1>4, <3>4 DEF Above, new
      <4>. QED
        BY <1>4, <3>1, <3>2, <3>4, <4>1
    <3>. QED
      BY <3>3, <3>4
  <2>. QED
    BY <2>1
<1>9. ASSUME NEW i \in DOMAIN new
      PROVE  LET r == new[i].span
             IN  /\ span'[r].state # "new" /\ span'[r].state # "wrapped"
                 /\ Above(t, i)'.session = span'[r].session
                 /\ ~Held(ses', new[i].was)
  <2>1. i \in DOMAIN st /\ i # n /\ new[i] = st[i]
    BY <1>4
  <2>2. /\ span[st[i].span].state # "new" /\ span[st[i].span].state # "wrapped"
        /\ Above(t, i).session = span[st[i].span].session /\ ~Reserves(st[i].was)
    BY <1>6, <2>1 DEF StackOk, st, n
  <2>3. ~Held(ses', new[i].was)
    BY <1>3, <2>1, <2>2 DEF SameUsed, Held, Reserves, Context, SpanOrNone
  <2>. QED
    BY <1>3, <1>8, <2>1, <2>2, <2>3 DEF Moves
<1>10. new # <<>> => span'[Top(t)'].state # "wrapped"
  BY <1>5, <1>9 DEF Top, new
<1>11. StackOk(t)'
  BY <1>7, <1>9, <1>10 DEF StackOk, Held, Reserves, new
<1>. QED
  BY <1>2, <1>11 DEF Stacks

\* A task that starts copies variables without a reservation in force.
LEMMA SpawnKeeps ==
  ASSUME TypeOK, Stacks, NEW t \in Tasks, NEW u \in Tasks, Spawn(t, u)
  PROVE  Stacks'
<1>1. /\ TypeOK' /\ task'[u].ctx = Ctx(t) /\ task'[u].stack = <<>>
      /\ \A v \in Tasks \ {u} : task'[v] = task[v]
  BY SpawnTyped
<1>2. span' = span /\ ses' = ses /\ Ready(t)
  BY DEF Spawn
<1>3. SameUsed(ses') /\ Moves
  BY <1>2 DEF SameUsed, Moves
<1>4. ASSUME NEW v \in Tasks \ {u} PROVE StackOk(v)'
  BY <1>1, <1>3, OthersKeep DEF Ctx
<1>5. Ctx(u)' = Ctx(t) /\ ~Reserves(Ctx(t)) /\ ~Reserves(Ctx(u))'
  BY <1>1, <1>2, ReadyIsFree DEF Ctx, Reserves
<1>6. StackOk(u)'
  <2>1. DOMAIN task'[u].stack = {}
    BY <1>1
  <2>. QED
    BY <1>1, <1>5, <2>1 DEF StackOk
<1>. QED
  BY <1>4, <1>6 DEF Stacks

-------------------------------------------------------------------------------
(* What a step does to the spans. *)

\* A span keeps what its row will carry, and is made by no other step.
Alike(r) ==
  /\ span'[r].kind = span[r].kind /\ span'[r].session = span[r].session
  /\ span'[r].order = span[r].order
  /\ span'[r].state = "new" <=> span[r].state = "new"
  /\ span'[r].state = "wrapped" => span[r].state = "wrapped"

DoneStays == \A r \in Spans : span[r].state = "done" => span'[r].state = "done"

\* A span that is made leaves the others alone.
LEMMA MakesOne ==
  ASSUME TypeOK, NEW s \in Spans, span[s].state = "new",
         NEW kind \in AllKinds, NEW name \in NameOrNone, NEW parent \in SpanOrNone,
         NEW session \in SpanOrNone, NEW order \in OrderOrNone, NEW state \in States,
         state # "new", span' = Made(s, kind, name, parent, session, order, state)
  PROVE  /\ Moves /\ DoneStays /\ \A r \in Spans \ {s} : Alike(r)
         /\ span'[s].state = state /\ span'[s].kind = kind /\ span'[s].name = name
         /\ span'[s].session = session /\ span'[s].order = order
<1>1. /\ span'[s].state = state /\ span'[s].kind = kind /\ span'[s].name = name
      /\ span'[s].session = session /\ span'[s].order = order
      /\ \A r \in Spans \ {s} : span'[r] = span[r]
  BY MadeIs
<1>2. \A r \in Spans \ {s} : Alike(r)
  BY <1>1 DEF Alike
<1>. QED
  BY <1>1, <1>2 DEF Moves, DoneStays

\* A span that ends leaves the others alone.
LEMMA EndsOne ==
  ASSUME TypeOK, NEW s \in Spans, span[s].state = "open", span' = Ended(s)
  PROVE  /\ Moves /\ DoneStays /\ \A r \in Spans : Alike(r)
         /\ span'[s].state = "done" /\ span'[s].name = span[s].name
         /\ span'[s].session = span[s].session
<1>1. /\ span'[s].state = "done" /\ span'[s].kind = span[s].kind
      /\ span'[s].name = span[s].name /\ span'[s].session = span[s].session
      /\ span'[s].order = span[s].order
      /\ \A r \in Spans \ {s} : span'[r] = span[r]
  BY EndedIs
<1>2. \A r \in Spans : Alike(r)
  BY <1>1 DEF Alike
<1>. QED
  BY <1>1, <1>2 DEF Moves, DoneStays

-------------------------------------------------------------------------------
(* Orders. *)

\* Every order of a session, reserved or on a span, is below its counter, and
\* the one a call has reserved is on no other span and reserved by no other call.
OrdersOf(s) ==
  /\ span[s].state = "new" =>
       span[s].order = None /\ span[s].session = None /\ ~ses[s].used
  /\ span[s].state = "wrapped" => span[s].kind = "call"
  /\ span[s].kind = "call" /\ span[s].state # "new" =>
       ses[s].reserved \in Nat /\ span[s].order \in {None, ses[s].reserved}
  /\ span[s].session # None =>
       /\ span[s].order # None => span[s].order < ses[span[s].session].counter
       /\ span[s].kind = "call" => ses[s].reserved < ses[span[s].session].counter
Apart(s, r) ==
  span[s].kind = "call" /\ span[s].session # None /\ span[r].session = span[s].session =>
    /\ span[r].order # ses[s].reserved
    /\ span[r].kind = "call" => ses[r].reserved # ses[s].reserved
Orders ==
  /\ \A s \in Spans : OrdersOf(s)
  /\ \A s \in Spans : \A r \in Spans \ {s} : Apart(s, r)

\* The attributes the orders depend on, typed.
LEMMA OrdersTyped ==
  ASSUME TypeOK, NEW s \in Spans
  PROVE  /\ span[s].session \in SpanOrNone /\ span[s].order \in OrderOrNone
         /\ ses[s].counter \in Nat /\ ses[s].reserved \in OrderOrNone
         /\ span[s].session # None => ses[span[s].session].counter \in Nat
<1>1. span[s] \in Span /\ \A r \in Spans : ses[r] \in Session
  BY DEF TypeOK
<1>. QED
  BY <1>1 DEF Span, Session, SpanOrNone, OrderOrNone

\* A span that keeps its order keeps it below the counter.
LEMMA OrdersOfKept ==
  ASSUME TypeOK, TypeOK', CountersGrow(ses'), NEW x \in Spans, OrdersOf(x), Alike(x),
         ses'[x].reserved = ses[x].reserved, ses'[x].used = ses[x].used
  PROVE  OrdersOf(x)'
<1>1. span[x].session \in SpanOrNone /\ span[x].order \in OrderOrNone
  BY OrdersTyped
<1>2. /\ span'[x].kind = span[x].kind /\ span'[x].session = span[x].session
      /\ span'[x].order = span[x].order
      /\ span'[x].state = "new" <=> span[x].state = "new"
      /\ span'[x].state = "wrapped" => span[x].state = "wrapped"
  BY DEF Alike
<1>3. span[x].session # None =>
        /\ ses[span[x].session].counter \in Nat /\ ses'[span[x].session].counter \in Nat
        /\ ses'[span[x].session].counter >= ses[span[x].session].counter
  BY <1>1 DEF CountersGrow, TypeOK, Session, SpanOrNone
<1>4. span[x].session # None => span[x].state # "new"
  BY DEF OrdersOf
<1>5. span[x].session # None =>
        /\ span[x].order # None => span[x].order < ses'[span[x].session].counter
        /\ span[x].kind = "call" => ses[x].reserved < ses'[span[x].session].counter
  BY <1>1, <1>3, <1>4 DEF OrdersOf, OrderOrNone
<1>. QED
  BY <1>2, <1>5 DEF OrdersOf

\* A span without an order, of no call, disturbs no order.
LEMMA OrdersKept ==
  ASSUME TypeOK, TypeOK', Orders, SameReserved(ses'), SameUsed(ses'), CountersGrow(ses'),
         \A r \in Spans : \/ Alike(r)
                          \/ /\ span'[r].state \notin {"new", "wrapped"}
                             /\ span'[r].kind # "call" /\ span'[r].order = None
  PROVE  Orders'
<1>1. ASSUME NEW s \in Spans PROVE OrdersOf(s)'
  <2>1. OrdersOf(s)
    BY DEF Orders
  <2>2. CASE Alike(s)
    BY <2>1, <2>2, OrdersOfKept DEF SameReserved, SameUsed
  <2>3. CASE /\ span'[s].state \notin {"new", "wrapped"}
             /\ span'[s].kind # "call" /\ span'[s].order = None
    BY <2>3 DEF OrdersOf
  <2>. QED
    BY <2>2, <2>3
<1>2. ASSUME NEW s \in Spans, NEW r \in Spans \ {s} PROVE Apart(s, r)'
  <2>. SUFFICES ASSUME span'[s].kind = "call", span'[s].session # None,
                       span'[r].session = span'[s].session
                PROVE  /\ span'[r].order # ses'[s].reserved
                       /\ span'[r].kind = "call" => ses'[r].reserved # ses'[s].reserved
    BY DEF Apart
  <2>1. Alike(s) /\ OrdersOf(s) /\ Apart(s, r)
    BY DEF Orders
  <2>2. ses[s].reserved \in Nat
    BY <2>1 DEF OrdersOf, Alike
  <2>3. CASE Alike(r)
    BY <2>1, <2>3 DEF Alike, Apart, SameReserved
  <2>4. CASE span'[r].kind # "call" /\ span'[r].order = None
    BY <2>2, <2>4, SpanAssumption DEF SameReserved
  <2>. QED
    BY <2>3, <2>4
<1>. QED
  BY <1>1, <1>2 DEF Orders

\* A span that takes the next order takes one that nothing has or has reserved.
LEMMA OrdersNext ==
  ASSUME TypeOK, TypeOK', Orders, SameReserved(ses'), SameUsed(ses'), CountersGrow(ses'),
         NEW s \in Spans, NEW c \in SpanOrNone, span'[s].session = c,
         span'[s].state \notin {"new", "wrapped"}, span'[s].kind # "call",
         span'[s].order = NextOrder(c), NextOrder(c) \in Nat,
         c # None => ses'[c].counter = NextOrder(c) + 1,
         \A r \in Spans \ {s} : Alike(r)
  PROVE  Orders'
<1>1. ASSUME NEW x \in Spans \ {s} PROVE OrdersOf(x)'
  BY OrdersOfKept DEF Orders, SameReserved, SameUsed
<1>2. OrdersOf(s)'
  BY DEF OrdersOf
<1>3. ASSUME NEW x \in Spans, NEW r \in Spans \ {x} PROVE Apart(x, r)'
  <2>. SUFFICES ASSUME span'[x].kind = "call", span'[x].session # None,
                       span'[r].session = span'[x].session
                PROVE  /\ span'[r].order # ses'[x].reserved
                       /\ span'[r].kind = "call" => ses'[r].reserved # ses'[x].reserved
    BY DEF Apart
  <2>1. x # s /\ Alike(x) /\ OrdersOf(x) /\ Apart(x, r)
    BY DEF Orders
  <2>2. CASE r # s
    BY <2>1, <2>2 DEF Alike, Apart, SameReserved
  <2>3. CASE r = s
    <3>1. span[x].session = c /\ c # None /\ span[x].kind = "call" /\ span[x].state # "new"
      BY <2>1, <2>3 DEF Alike, OrdersOf
    <3>2. ses[x].reserved \in Nat /\ ses[x].reserved < NextOrder(c)
      BY <2>1, <3>1 DEF OrdersOf, NextOrder
    <3>. QED
      BY <2>3, <3>2 DEF SameReserved
  <2>. QED
    BY <2>2, <2>3
<1>. QED
  BY <1>1, <1>2, <1>3 DEF Orders

\* A call reserves an order that nothing has or has reserved.
LEMMA OrdersReserved ==
  ASSUME TypeOK, TypeOK', Orders, SameUsed(ses'), CountersGrow(ses'),
         NEW s \in Spans, NEW c \in SpanOrNone, span'[s].session = c,
         span'[s].state = "wrapped", span'[s].kind = "call", span'[s].order = None,
         ses'[s].reserved = NextOrder(c), NextOrder(c) \in Nat,
         c # None => ses'[c].counter = NextOrder(c) + 1,
         \A r \in Spans \ {s} : Alike(r) /\ ses'[r].reserved = ses[r].reserved
  PROVE  Orders'
<1>1. ASSUME NEW x \in Spans \ {s} PROVE OrdersOf(x)'
  BY OrdersOfKept DEF Orders, SameReserved, SameUsed
<1>2. OrdersOf(s)'
  BY DEF OrdersOf
<1>3. ASSUME NEW x \in Spans, NEW r \in Spans \ {x} PROVE Apart(x, r)'
  <2>. SUFFICES ASSUME span'[x].kind = "call", span'[x].session # None,
                       span'[r].session = span'[x].session
                PROVE  /\ span'[r].order # ses'[x].reserved
                       /\ span'[r].kind = "call" => ses'[r].reserved # ses'[x].reserved
    BY DEF Apart
  <2>1. OrdersOf(x) /\ OrdersOf(r) /\ Apart(x, r)
    BY DEF Orders
  <2>2. CASE x # s /\ r # s
    BY <2>1, <2>2 DEF Alike, Apart
  <2>3. CASE r = s
    <3>1. x # s /\ span[x].session = c /\ c # None /\ span[x].kind = "call"
          /\ span[x].state # "new"
      BY <2>1, <2>3 DEF Alike, OrdersOf
    <3>2. ses[x].reserved \in Nat /\ ses[x].reserved < NextOrder(c)
      BY <2>1, <3>1 DEF OrdersOf, NextOrder
    <3>. QED
      BY <2>3, <3>1, <3>2, SpanAssumption
  <2>4. CASE x = s
    <3>1. r # s /\ span[r].session = c /\ c # None /\ span[r].state # "new"
          /\ span'[r].order = span[r].order /\ span'[r].kind = span[r].kind
      BY <2>1, <2>4 DEF Alike, OrdersOf
    <3>2. span[r].order # NextOrder(c)
      <4>1. span[r].order \in OrderOrNone
        BY OrdersTyped
      <4>2. span[r].order # None => span[r].order < NextOrder(c)
        BY <2>1, <3>1 DEF OrdersOf, NextOrder
      <4>. QED
        BY <4>1, <4>2, SpanAssumption DEF OrderOrNone
    <3>3. span[r].kind = "call" => ses[r].reserved \in Nat /\ ses[r].reserved < NextOrder(c)
      BY <2>1, <3>1 DEF OrdersOf, NextOrder
    <3>. QED
      BY <2>4, <3>1, <3>2, <3>3
  <2>. QED
    BY <2>2, <2>3, <2>4
<1>. QED
  BY <1>1, <1>2, <1>3 DEF Orders

\* A call's span carries the order it has reserved.
LEMMA OrdersTaken ==
  ASSUME TypeOK, TypeOK', Orders, SameReserved(ses'),
         \A r \in Spans : ses'[r].counter = ses[r].counter,
         NEW s \in Spans, span[s].state = "wrapped", span'[s].state = "open",
         span'[s].kind = "call", span'[s].session = span[s].session,
         span'[s].order = ses[s].reserved,
         \A r \in Spans \ {s} : Alike(r) /\ ses'[r].used = ses[r].used
  PROVE  Orders'
<1>1. \A x \in Spans : OrdersOf(x) /\ span[x].session \in SpanOrNone
  BY OrdersTyped DEF Orders
<1>2. ASSUME NEW x \in Spans \ {s} PROVE OrdersOf(x)'
  BY <1>1 DEF OrdersOf, Alike, SameReserved, SpanOrNone
<1>3. span[s].kind = "call" /\ ses[s].reserved \in Nat /\ ses'[s].reserved = ses[s].reserved
  BY <1>1 DEF OrdersOf, SameReserved
<1>4. OrdersOf(s)'
  BY <1>1, <1>3 DEF OrdersOf, SpanOrNone
<1>5. ASSUME NEW x \in Spans, NEW r \in Spans \ {x} PROVE Apart(x, r)'
  <2>1. Apart(x, r) /\ Apart(r, x)
    BY DEF Orders
  <2>2. CASE r # s
    BY <1>3, <2>1, <2>2 DEF Apart, Alike, SameReserved
  <2>3. CASE r = s
    BY <1>3, <2>1, <2>3 DEF Apart, Alike, SameReserved
  <2>. QED
    BY <2>2, <2>3
<1>. QED
  BY <1>2, <1>4, <1>5 DEF Orders

-------------------------------------------------------------------------------
(* Tool-call ids. *)

\* An id that waits is of the reply that left it, which has ended, and is on no
\* row and nowhere else; an id on a row is of a reply that has ended.
OnRow(r)     == row[r] # None /\ row[r].id # None
Waits(h, i)  ==
  LET id == ses[h].pending[i]
  IN  /\ id.of = ses[h].reply /\ span[id.of].state = "done"
      /\ \A r \in Spans : OnRow(r) => row[r].id # id
Single(h, i, g, j) == ses[g].pending[j] = ses[h].pending[i] => g = h /\ j = i
Pending ==
  /\ \A h \in Spans : \A i \in DOMAIN ses[h].pending : Waits(h, i)
  /\ \A h, g \in Spans : \A i \in DOMAIN ses[h].pending, j \in DOMAIN ses[g].pending :
       Single(h, i, g, j)
  /\ \A r \in Spans : OnRow(r) => span[row[r].id.of].state = "done"

\* What IdIsOwn says of a step.
IdStep ==
  \A s \in Spans : row[s] = None /\ row'[s] # None /\ row'[s].id # None =>
    LET id == row'[s].id
    IN  /\ id.name = span'[s].name
        /\ \A r \in Spans : row[r] # None => row[r].id # id
        /\ span'[s].session # None => id.of = ses[span'[s].session].reply

\* The ids that wait and those on rows, typed.
LEMMA IdsTyped ==
  ASSUME TypeOK
  PROVE  /\ \A h \in Spans : /\ ses[h].pending \in Seq(Id) /\ DOMAIN ses[h].pending \subseteq Nat
                             /\ \A i \in DOMAIN ses[h].pending : ses[h].pending[i].of \in Spans
         /\ \A r \in Spans : row[r] # None /\ row[r].id # None => row[r].id.of \in Spans
<1>1. ASSUME NEW h \in Spans
      PROVE  /\ ses[h].pending \in Seq(Id) /\ DOMAIN ses[h].pending \subseteq Nat
             /\ \A i \in DOMAIN ses[h].pending : ses[h].pending[i].of \in Spans
  <2>1. ses[h].pending \in Seq(Id)
    BY DEF TypeOK, Session
  <2>2. /\ DOMAIN ses[h].pending \subseteq Nat
        /\ \A i \in DOMAIN ses[h].pending : ses[h].pending[i] \in Id
    BY <2>1, LenProperties, ElementOfSeq
  <2>. QED
    BY <2>1, <2>2 DEF Id
<1>2. ASSUME NEW r \in Spans, row[r] # None, row[r].id # None PROVE row[r].id.of \in Spans
  <2>1. row[r] \in Row
    BY <1>2 DEF TypeOK
  <2>2. row[r].id \in Id
    BY <1>2, <2>1 DEF Row
  <2>. QED
    BY <2>2 DEF Id
<1>. QED
  BY <1>1, <1>2

\* A step that touches no list and logs no id.
LEMMA PendingKept ==
  ASSUME TypeOK, TypeOK', Pending, SameLists(ses'), DoneStays,
         \A r \in Spans : row'[r] = row[r] \/ row'[r].id = None
  PROVE  Pending' /\ IdStep
<1>1. ASSUME NEW h \in Spans, NEW i \in DOMAIN ses'[h].pending PROVE Waits(h, i)'
  <2>1. Waits(h, i) /\ ses'[h].pending = ses[h].pending /\ ses'[h].reply = ses[h].reply
        /\ ses[h].pending[i].of \in Spans
    BY IdsTyped DEF Pending, SameLists
  <2>. QED
    BY <2>1 DEF Waits, OnRow, DoneStays
<1>2. ASSUME NEW h \in Spans, NEW g \in Spans,
             NEW i \in DOMAIN ses'[h].pending, NEW j \in DOMAIN ses'[g].pending
      PROVE  Single(h, i, g, j)'
  BY DEF Pending, SameLists, Single
<1>3. ASSUME NEW r \in Spans, OnRow(r)' PROVE span'[row'[r].id.of].state = "done"
  <2>1. row'[r] = row[r] /\ OnRow(r)
    BY <1>3 DEF OnRow
  <2>2. row[r].id.of \in Spans
    BY <2>1, IdsTyped DEF OnRow
  <2>. QED
    BY <2>1, <2>2 DEF Pending, DoneStays
<1>4. IdStep
  BY DEF IdStep
<1>. QED
  BY <1>1, <1>2, <1>3, <1>4 DEF Pending

\* A reply replaces a list by ids of its own, which are new.
LEMMA PendingCaptured ==
  ASSUME TypeOK, TypeOK', Pending, DoneStays,
         NEW s \in Spans, span[s].state # "done", span'[s].state = "done",
         NEW reply \in Seq(Names), NEW home \in Spans,
         ses'[home].pending = Asked(s, reply), ses'[home].reply = s,
         \A h \in Spans \ {home} : /\ ses'[h].pending = ses[h].pending
                                   /\ ses'[h].reply = ses[h].reply,
         \A r \in Spans : row'[r] = row[r] \/ row'[r].id = None
  PROVE  Pending' /\ IdStep
<1>. DEFINE ids == Asked(s, reply)
<1>1. /\ \A i \in DOMAIN ids : ids[i].of = s
      /\ \A i, j \in DOMAIN ids : ids[i] = ids[j] => i = j
  BY AskedIs
<1>. HIDE DEF ids
<1>2. ASSUME NEW h \in Spans \ {home}, NEW i \in DOMAIN ses'[h].pending
      PROVE  Waits(h, i)' /\ ses[h].pending[i].of # s
  <2>1. Waits(h, i) /\ ses'[h].pending = ses[h].pending /\ ses'[h].reply = ses[h].reply
        /\ ses[h].pending[i].of \in Spans
    BY IdsTyped DEF Pending
  <2>. QED
    BY <2>1 DEF Waits, OnRow, DoneStays
<1>3. \A r \in Spans : OnRow(r) => row[r].id.of # s
  BY DEF Pending
<1>4. ASSUME NEW i \in DOMAIN ses'[home].pending PROVE Waits(home, i)'
  BY <1>1, <1>3 DEF Waits, OnRow, ids
<1>5. ASSUME NEW h \in Spans, NEW g \in Spans,
             NEW i \in DOMAIN ses'[h].pending, NEW j \in DOMAIN ses'[g].pending
      PROVE  Single(h, i, g, j)'
  <2>1. CASE h = home /\ g = home
    BY <1>1, <2>1 DEF Single, ids
  <2>2. CASE h = home /\ g # home
    BY <1>1, <1>2, <2>2 DEF Single, ids
  <2>3. CASE h # home /\ g = home
    BY <1>1, <1>2, <2>3 DEF Single, ids
  <2>4. CASE h # home /\ g # home
    BY <2>4 DEF Single, Pending
  <2>. QED
    BY <2>1, <2>2, <2>3, <2>4
<1>6. ASSUME NEW r \in Spans, OnRow(r)' PROVE span'[row'[r].id.of].state = "done"
  <2>1. row'[r] = row[r] /\ OnRow(r)
    BY <1>6 DEF OnRow
  <2>2. row[r].id.of \in Spans
    BY <2>1, IdsTyped DEF OnRow
  <2>. QED
    BY <2>1, <2>2 DEF Pending, DoneStays
<1>7. IdStep
  BY DEF IdStep
<1>. QED
  BY <1>2, <1>4, <1>5, <1>6, <1>7 DEF Pending

\* A tool's row takes an id that waits in its session, of its name.
LEMMA PendingPopped ==
  ASSUME TypeOK, TypeOK', Pending, DoneStays, NEW s \in Spans, NEW ctx \in Context,
         NEW name, NEW id,
         \/ ses' = ses /\ id = None
         \/ \E k : Takes(ses', id, Home(ctx), k, name),
         row'[s].id = id, \A r \in Spans \ {s} : row'[r] = row[r],
         span'[s].name = name, span'[s].session = ctx.session
  PROVE  Pending' /\ IdStep
<1>1. CASE ses' = ses /\ id = None
  <2>1. SameLists(ses') /\ \A r \in Spans : row'[r] = row[r] \/ row'[r].id = None
    BY <1>1 DEF SameLists
  <2>. QED
    BY <2>1, PendingKept
<1>2. CASE \E k : Takes(ses', id, Home(ctx), k, name)
  <2>. DEFINE h == Home(ctx)
              from(j, k) == IF j < k THEN j ELSE j + 1
  <2>1. PICK k : Takes(ses', id, h, k, name)
    BY <1>2
  <2>. HIDE DEF h
  <2>2. /\ h \in Spans /\ k \in DOMAIN ses[h].pending /\ id = ses[h].pending[k]
        /\ id.name = name
        /\ ses'[h].pending = RemoveAt(ses[h].pending, k) /\ ses'[h].reply = ses[h].reply
        /\ \A r \in Spans \ {h} : ses'[r] = ses[r]
    BY <2>1 DEF Takes
  <2>3. /\ Waits(h, k) /\ ses[h].pending \in Seq(Id) /\ id.of \in Spans
    BY <2>2, IdsTyped DEF Pending
  <2>. DEFINE old == ses[h].pending
              new == ses'[h].pending
  <2>4. /\ \A j \in DOMAIN new : from(j, k) \in DOMAIN old \ {k} /\ new[j] = old[from(j, k)]
        /\ \A i, j \in DOMAIN new : from(i, k) = from(j, k) => i = j
    BY <2>2, <2>3, Removed
  <2>. HIDE DEF from
  <2>5. ASSUME NEW g \in Spans, NEW i \in DOMAIN ses'[g].pending
        PROVE  /\ Waits(g, i)'
               /\ \E i0 \in DOMAIN ses[g].pending :
                    /\ ses'[g].pending[i] = ses[g].pending[i0]
                    /\ g = h => i0 = from(i, k)
    <3>1. PICK i0 \in DOMAIN ses[g].pending :
            /\ ses'[g].pending[i] = ses[g].pending[i0]
            /\ ses'[g].reply = ses[g].reply
            /\ g = h => i0 # k /\ i0 = from(i, k)
      <4>1. CASE g = h
        BY <2>2, <2>4, <4>1
      <4>2. CASE g # h
        BY <2>2, <4>2
      <4>. QED
        BY <4>1, <4>2
    <3>2. Waits(g, i0) /\ Single(h, k, g, i0) /\ ses[g].pending[i0].of \in Spans
      BY <2>2, IdsTyped DEF Pending
    <3>3. ses'[g].pending[i] # id
      BY <2>2, <3>1, <3>2 DEF Single
    <3>4. Waits(g, i)'
      <4>1. \A r \in Spans : OnRow(r)' => row'[r].id # ses'[g].pending[i]
        BY <3>1, <3>2, <3>3 DEF Waits, OnRow
      <4>2. /\ ses'[g].pending[i].of = ses'[g].reply
            /\ span'[ses'[g].pending[i].of].state = "done"
        BY <3>1, <3>2 DEF Waits, DoneStays
      <4>. QED
        BY <4>1, <4>2 DEF Waits
    <3>. QED
      BY <3>1, <3>4
  <2>6. ASSUME NEW g \in Spans, NEW f \in Spans,
               NEW i \in DOMAIN ses'[g].pending, NEW j \in DOMAIN ses'[f].pending
        PROVE  Single(g, i, f, j)'
    <3>1. PICK i0 \in DOMAIN ses[g].pending :
            ses'[g].pending[i] = ses[g].pending[i0] /\ (g = h => i0 = from(i, k))
      BY <2>5
    <3>2. PICK j0 \in DOMAIN ses[f].pending :
            ses'[f].pending[j] = ses[f].pending[j0] /\ (f = h => j0 = from(j, k))
      BY <2>5
    <3>3. Single(g, i0, f, j0)
      BY DEF Pending
    <3>4. ASSUME ses'[f].pending[j] = ses'[g].pending[i] PROVE f = g /\ j = i
      <4>1. f = g /\ j0 = i0
        BY <3>1, <3>2, <3>3, <3>4 DEF Single
      <4>2. CASE g = h
        BY <2>4, <3>1, <3>2, <4>1, <4>2
      <4>3. CASE g # h
        <5>. QED
          BY <2>2, <2>5, <3>1, <3>2, <3>4, <4>1, <4>3 DEF Pending, Single
      <4>. QED
        BY <4>1, <4>2, <4>3
    <3>. QED
      BY <3>4 DEF Single
  <2>7. ASSUME NEW r \in Spans, OnRow(r)' PROVE span'[row'[r].id.of].state = "done"
    <3>1. CASE r = s
      BY <2>2, <2>3, <3>1 DEF Waits, DoneStays
    <3>2. CASE r # s
      <4>1. row'[r] = row[r] /\ OnRow(r)
        BY <2>7, <3>2 DEF OnRow
      <4>2. row[r].id.of \in Spans
        BY <4>1, IdsTyped DEF OnRow
      <4>. QED
        BY <4>1, <4>2 DEF Pending, DoneStays
    <3>. QED
      BY <3>1, <3>2
  <2>8. IdStep
    <3>. SUFFICES ASSUME NEW r \in Spans, row[r] = None, row'[r] # None, row'[r].id # None
                  PROVE  /\ row'[r].id.name = span'[r].name
                         /\ \A q \in Spans : row[q] # None => row[q].id # row'[r].id
                         /\ span'[r].session # None =>
                              row'[r].id.of = ses[span'[r].session].reply
      BY DEF IdStep
    <3>1. r = s /\ row'[r].id = id
      OBVIOUS
    <3>2. \A q \in Spans : row[q] # None => row[q].id # id
      BY <2>2, <2>3, <3>1 DEF Waits, OnRow
    <3>3. ctx.session # None => h = ctx.session
      BY DEF Home, h
    <3>. QED
      BY <2>2, <2>3, <3>1, <3>2, <3>3 DEF Waits
  <2>. QED
    BY <2>5, <2>6, <2>7, <2>8 DEF Pending
<1>. QED
  BY <1>1, <1>2

-------------------------------------------------------------------------------
(* The steps, one lemma for each.                                            *)

IInv  == TypeOK /\ Stacks /\ Orders /\ Pending
Keeps == IInv' /\ IdStep

\* A step that leaves the sessions alone.
LEMMA SessionsSame ==
  ASSUME TypeOK, ses' = ses
  PROVE  /\ SameLists(ses') /\ SameReserved(ses') /\ SameUsed(ses') /\ CountersGrow(ses')
         /\ \A r \in Spans : ses'[r].counter = ses[r].counter
<1>1. \A r \in Spans : ses[r].counter \in Nat
  BY OrdersTyped
<1>. QED
  BY <1>1 DEF SameLists, SameReserved, SameUsed, CountersGrow

\* The innermost block of a task that can act: its span and its session.
LEMMA InsideIs ==
  ASSUME TypeOK, Stacks, NEW t \in Tasks, NEW kinds, Inside(t, kinds)
  PROVE  /\ task[t].stack # <<>> /\ Top(t) \in Spans /\ span[Top(t)].state = "open"
         /\ span[Top(t)].kind \in kinds /\ Ctx(t).session = span[Top(t)].session
         /\ Ctx(t) \in Context /\ Ctx(t).list \in SpanOrNone
<1>. DEFINE n == Len(task[t].stack)
<1>1. task[t].stack # <<>> /\ span[Top(t)].state = "open" /\ span[Top(t)].kind \in kinds
  BY DEF Inside
<1>2. n \in DOMAIN task[t].stack /\ Top(t) = task[t].stack[n].span /\ Top(t) \in Spans
      /\ Ctx(t) \in Context
  BY <1>1, TopIs DEF Top
<1>3. Above(t, n).session = span[Top(t)].session
  BY <1>2 DEF Stacks, StackOk
<1>. QED
  BY <1>1, <1>2, <1>3 DEF Above, Context

\* A task is spawned.
LEMMA SpawnStep ==
  ASSUME IInv, NEW t \in Tasks, NEW u \in Tasks, Spawn(t, u)
  PROVE  Keeps
<1>1. TypeOK' /\ Stacks'
  BY SpawnTyped, SpawnKeeps DEF IInv
<1>2. span' = span /\ ses' = ses /\ row' = row
  BY DEF Spawn
<1>3. /\ \A r \in Spans : Alike(r) /\ row'[r] = row[r]
      /\ DoneStays
  BY <1>2 DEF Alike, DoneStays
<1>. QED
  BY <1>1, <1>2, <1>3, SessionsSame, OrdersKept, PendingKept DEF IInv, Keeps

\* A scope's block sees its own session.
LEMMA OpenScopeStep ==
  ASSUME IInv, NEW t \in Tasks, NEW s \in Spans, OpenScope(t, s)
  PROVE  Keeps
<1>. DEFINE ctx == [Ctx(t) EXCEPT !.cur = s, !.session = s]
<1>1. TypeOK /\ TypeOK' /\ Stacks /\ Orders /\ Pending
  BY OpenScopeTyped DEF IInv
<1>2. /\ Ready(t) /\ span[s].state = "new" /\ task' = Enter(t, s, ctx)
      /\ span' = Made(s, "scope", None, Ctx(t).cur, s, None, "open")
      /\ ses' = ses /\ row' = row
  BY DEF OpenScope, New
<1>3. /\ ctx \in Context /\ ctx.session = s /\ ctx.resv = Ctx(t).resv
      /\ Ctx(t).cur \in SpanOrNone /\ s \in SpanOrNone
  BY <1>1, TopIs, CtxTyped DEF Context, SpanOrNone
<1>. HIDE DEF ctx
<1>4. "scope" \in AllKinds /\ "open" \in States /\ None \in NameOrNone /\ None \in OrderOrNone
  BY DEF AllKinds, States, NameOrNone, OrderOrNone
<1>5. /\ Moves /\ DoneStays /\ \A r \in Spans \ {s} : Alike(r)
      /\ span'[s].state = "open" /\ span'[s].kind = "scope" /\ span'[s].session = s
      /\ span'[s].order = None
  BY <1>1, <1>2, <1>3, <1>4, MakesOne
<1>6. Stacks'
  BY <1>1, <1>2, <1>3, <1>5, SessionsSame, EnterKeeps
<1>7. Orders'
  BY <1>1, <1>2, <1>5, SessionsSame, OrdersKept
<1>8. Pending' /\ IdStep
  BY <1>1, <1>2, <1>5, SessionsSame, PendingKept
<1>. QED
  BY <1>1, <1>6, <1>7, <1>8 DEF IInv, Keeps

\* A scope ends; its row takes no id.
LEMMA CloseScopeStep ==
  ASSUME IInv, NEW t \in Tasks, CloseScope(t)
  PROVE  Keeps
<1>1. TypeOK /\ TypeOK' /\ Stacks /\ Orders /\ Pending
  BY CloseScopeTyped DEF IInv
<1>2. /\ Ready(t) /\ Inside(t, {"scope"}) /\ span' = Ended(Top(t)) /\ task' = Leave(t)
      /\ row' = Logged(Top(t), span[Top(t)].parent, None) /\ ses' = ses
  BY DEF CloseScope
<1>3. /\ task[t].stack # <<>> /\ Top(t) \in Spans /\ span[Top(t)].state = "open"
      /\ Ctx(t).list \in SpanOrNone
  BY <1>1, <1>2, InsideIs
<1>4. Moves /\ DoneStays /\ \A r \in Spans : Alike(r)
  BY <1>1, <1>2, <1>3, EndsOne
<1>5. \A r \in Spans : row'[r] = row[r] \/ row'[r].id = None
  <2>1. span[Top(t)].parent \in SpanOrNone
    BY <1>1, <1>3, StateTyped DEF Span
  <2>. QED
    BY <1>1, <1>2, <1>3, <2>1, LoggedIs
<1>6. Stacks'
  BY <1>1, <1>2, <1>3, <1>4, SessionsSame, LeaveKeeps
<1>7. Orders' /\ Pending' /\ IdStep
  BY <1>1, <1>2, <1>4, <1>5, SessionsSame, OrdersKept, PendingKept
<1>. QED
  BY <1>1, <1>6, <1>7 DEF IInv, Keeps

\* A span starts: a model's takes the next order, a tool's or a frame's has none.
LEMMA StartStep ==
  ASSUME IInv, NEW t \in Tasks, NEW s \in Spans, NEW name \in Names \union {None},
         NEW detached \in BOOLEAN, NEW ordered \in BOOLEAN,
         Start(t, s, name, detached, ordered)
  PROVE  Keeps
<1>. DEFINE kind   == span[s].kind
            parent == IF detached THEN None ELSE Ctx(t).cur
            order  == IF kind \in Models THEN TakenOrder(Ctx(t)) ELSE None
            ctx    == [Ctx(t) EXCEPT !.cur = s]
            c      == Ctx(t).session
<1>1. TypeOK /\ TypeOK' /\ Stacks /\ Orders /\ Pending
  BY StartTyped DEF IInv
<1>2. /\ Ready(t) /\ span[s].state = "new" /\ kind \in {"frame", "tool", "llm", "stream"}
      /\ (kind # "frame" => ordered = (kind # "tool"))
      /\ span' = Made(s, kind, name, parent, c, order, "open")
      /\ ses' = IF ordered THEN Taken(Ctx(t)) ELSE ses
      /\ task' = IF kind = "stream" THEN task ELSE Enter(t, s, ctx)
      /\ row' = row
  BY DEF Start, New
<1>3. /\ Ctx(t) \in Context /\ c \in SpanOrNone /\ parent \in SpanOrNone
      /\ ctx \in Context /\ ctx.session = c /\ ctx.resv = Ctx(t).resv
  <2>1. Ctx(t) \in Context /\ s \in SpanOrNone
    BY <1>1, TopIs DEF SpanOrNone
  <2>. QED
    BY <2>1, CtxTyped DEF Context, SpanOrNone
<1>4. ~Reserves(Ctx(t))
  BY <1>1, <1>2, ReadyIsFree
<1>5. Taken(Ctx(t)) = Counted(c) /\ TakenOrder(Ctx(t)) = NextOrder(c)
  BY <1>1, <1>3, <1>4, TakenIs
<1>6. /\ SameLists(Counted(c)) /\ SameReserved(Counted(c)) /\ SameUsed(Counted(c))
      /\ CountersGrow(Counted(c)) /\ NextOrder(c) \in Nat
      /\ c # None => Counted(c)[c].counter = NextOrder(c) + 1
  BY <1>1, <1>3, CountedIs
<1>7. /\ SameLists(ses') /\ SameReserved(ses') /\ SameUsed(ses') /\ CountersGrow(ses')
  BY <1>1, <1>2, <1>5, <1>6, SessionsSame
<1>. HIDE DEF ctx, parent, c
<1>8. /\ Moves /\ DoneStays /\ \A r \in Spans \ {s} : Alike(r)
      /\ span'[s].state = "open" /\ span'[s].kind = kind /\ span'[s].session = c
      /\ span'[s].order = order
  <2>1. /\ kind \in AllKinds /\ order \in OrderOrNone /\ name \in NameOrNone
        /\ "open" \in States
    BY <1>2, <1>5, <1>6 DEF AllKinds, OrderOrNone, NameOrNone, States
  <2>. HIDE DEF kind, order
  <2>. QED
    BY <1>1, <1>2, <1>3, <2>1, MakesOne
<1>9. Stacks'
  <2>1. CASE kind = "stream"
    <3>1. task' = task
      BY <1>2, <2>1
    <3>2. \A u \in Tasks : StackOk(u)'
      BY <1>1, <1>7, <1>8, <3>1, OthersKeep DEF Ctx
    <3>. QED
      BY <3>2 DEF Stacks
  <2>2. CASE kind # "stream"
    <3>1. task' = Enter(t, s, ctx)
      BY <1>2, <2>2
    <3>. QED
      BY <1>1, <1>2, <1>3, <1>7, <1>8, <3>1, EnterKeeps
  <2>. QED
    BY <2>1, <2>2
<1>10. Orders'
  <2>1. CASE kind \in Models
    <3>1. ses' = Counted(c) /\ order = NextOrder(c)
      BY <1>2, <1>5, <2>1 DEF Models
    <3>2. kind # "call"
      BY <1>2
    <3>. HIDE DEF kind, order
    <3>. QED
      BY <1>1, <1>3, <1>6, <1>7, <1>8, <3>1, <3>2, OrdersNext
  <2>2. CASE kind \notin Models
    <3>1. order = None /\ kind # "call"
      BY <1>2, <2>2
    <3>. HIDE DEF kind, order
    <3>. QED
      BY <1>1, <1>7, <1>8, <3>1, OrdersKept
  <2>. QED
    BY <2>1, <2>2
<1>11. Pending' /\ IdStep
  BY <1>1, <1>2, <1>7, <1>8, PendingKept
<1>. QED
  BY <1>1, <1>9, <1>10, <1>11 DEF IInv, Keeps

\* A frame ends, without a row.
LEMMA EndFrameStep ==
  ASSUME IInv, NEW t \in Tasks, EndFrame(t)
  PROVE  Keeps
<1>1. TypeOK /\ TypeOK' /\ Stacks /\ Orders /\ Pending
  BY EndFrameTyped DEF IInv
<1>2. /\ Ready(t) /\ Inside(t, {"frame"}) /\ span' = Ended(Top(t)) /\ task' = Leave(t)
      /\ ses' = ses /\ row' = row
  BY DEF EndFrame
<1>3. /\ task[t].stack # <<>> /\ Top(t) \in Spans /\ span[Top(t)].state = "open"
      /\ Ctx(t).list \in SpanOrNone
  BY <1>1, <1>2, InsideIs
<1>4. Moves /\ DoneStays /\ \A r \in Spans : Alike(r)
  BY <1>1, <1>2, <1>3, EndsOne
<1>5. Stacks'
  BY <1>1, <1>2, <1>3, <1>4, SessionsSame, LeaveKeeps
<1>6. Orders' /\ Pending' /\ IdStep
  BY <1>1, <1>2, <1>4, SessionsSame, OrdersKept, PendingKept
<1>. QED
  BY <1>1, <1>5, <1>6 DEF IInv, Keeps

\* A tool's or a function's row takes an id.
LEMMA TookId ==
  ASSUME IInv, TypeOK', NEW t \in Tasks, NEW kinds, NEW parent \in SpanOrNone,
         Ready(t), Inside(t, kinds), span' = Ended(Top(t)), task' = Leave(t),
         row' = Logged(Top(t), parent, PoppedId(Ctx(t), span[Top(t)].name)),
         ses' = Popped(Ctx(t), span[Top(t)].name)
  PROVE  Keeps
<1>. DEFINE s == Top(t)
            name == span[s].name
            id == PoppedId(Ctx(t), name)
<1>1. TypeOK /\ Stacks /\ Orders /\ Pending
  BY DEF IInv
<1>2. /\ task[t].stack # <<>> /\ s \in Spans /\ span[s].state = "open"
      /\ Ctx(t).session = span[s].session
      /\ Ctx(t) \in Context /\ Ctx(t).list \in SpanOrNone
  BY <1>1, InsideIs
<1>3. /\ Moves /\ DoneStays /\ \A r \in Spans : Alike(r)
      /\ span'[s].name = name /\ span'[s].session = Ctx(t).session
  BY <1>1, <1>2, EndsOne
<1>. HIDE DEF s, name, id
<1>4. /\ id \in Id \union {None} /\ SameReserved(ses') /\ SameUsed(ses')
      /\ \A r \in Spans : ses'[r].counter = ses[r].counter
      /\ \/ ses' = ses /\ id = None
         \/ \E k : Takes(ses', id, Home(Ctx(t)), k, name)
  BY <1>1, <1>2, PoppedIs DEF s, name, id
<1>5. row'[s].id = id /\ \A r \in Spans \ {s} : row'[r] = row[r]
  BY <1>1, <1>2, <1>4, LoggedIs DEF s, name, id
<1>6. CountersGrow(ses')
  <2>1. \A r \in Spans : ses[r].counter \in Nat
    BY <1>1, OrdersTyped
  <2>. QED
    BY <1>4, <2>1 DEF CountersGrow
<1>7. Stacks'
  BY <1>1, <1>2, <1>3, <1>4, LeaveKeeps
<1>8. Orders'
  BY <1>1, <1>3, <1>4, <1>6, OrdersKept
<1>9. Pending' /\ IdStep
  BY <1>1, <1>2, <1>3, <1>4, <1>5, PendingPopped
<1>. QED
  BY <1>1, <1>7, <1>8, <1>9 DEF IInv, Keeps

\* A tool's span ends.
LEMMA EndToolStep ==
  ASSUME IInv, NEW t \in Tasks, EndTool(t)
  PROVE  Keeps
<1>. DEFINE parent == KeptParent(maps, span[Top(t)].parent, Root(Top(t)))
<1>1. /\ Ready(t) /\ Inside(t, {"tool"}) /\ span' = Ended(Top(t)) /\ task' = Leave(t)
      /\ row' = Logged(Top(t), parent, PoppedId(Ctx(t), span[Top(t)].name))
      /\ ses' = Popped(Ctx(t), span[Top(t)].name)
  BY DEF EndTool
<1>2. parent \in SpanOrNone
  <2>1. TypeOK /\ Stacks
    BY DEF IInv
  <2>2. Top(t) \in Spans
    BY <1>1, <2>1, InsideIs
  <2>3. span[Top(t)].parent \in SpanOrNone /\ Root(Top(t)) \in SpanOrNone /\ maps \in MapType
    BY <2>1, <2>2, StateTyped DEF Span, Root, SpanOrNone, Maps
  <2>. QED
    BY <2>3, KeptParentTyped
<1>3. TypeOK'
  BY EndToolTyped DEF IInv
<1>. HIDE DEF parent
<1>. QED
  BY <1>1, <1>2, <1>3, TookId

\* A @tool function returns.
LEMMA ExitFnStep ==
  ASSUME IInv, NEW t \in Tasks, ExitFn(t)
  PROVE  Keeps
<1>1. /\ Ready(t) /\ Inside(t, {"fn"}) /\ span' = Ended(Top(t)) /\ task' = Leave(t)
      /\ row' = Logged(Top(t), ManualParent(Ctx(t)), PoppedId(Ctx(t), span[Top(t)].name))
      /\ ses' = Popped(Ctx(t), span[Top(t)].name)
  BY DEF ExitFn
<1>2. TypeOK' /\ ManualParent(Ctx(t)) \in SpanOrNone
  BY ExitFnTyped, TopIs DEF IInv, ManualParent, Context
<1>. QED
  BY <1>1, <1>2, TookId

\* A function is entered, without an order.
LEMMA EnterFnStep ==
  ASSUME IInv, NEW t \in Tasks, NEW s \in Spans, NEW name \in Names, EnterFn(t, s, name)
  PROVE  Keeps
<1>1. TypeOK /\ TypeOK' /\ Stacks /\ Orders /\ Pending
  BY EnterFnTyped DEF IInv
<1>2. /\ Ready(t) /\ span[s].state = "new" /\ task' = Enter(t, s, Ctx(t))
      /\ span' = Made(s, "fn", name, Ctx(t).cur, Ctx(t).session, None, "open")
      /\ ses' = ses /\ row' = row
  BY DEF EnterFn, New
<1>3. Ctx(t) \in Context /\ Ctx(t).session \in SpanOrNone /\ Ctx(t).cur \in SpanOrNone
  BY <1>1, TopIs DEF Context
<1>4. "fn" \in AllKinds /\ "open" \in States /\ name \in NameOrNone /\ None \in OrderOrNone
  BY DEF AllKinds, States, NameOrNone, OrderOrNone
<1>5. /\ Moves /\ DoneStays /\ \A r \in Spans \ {s} : Alike(r)
      /\ span'[s].state = "open" /\ span'[s].kind = "fn" /\ span'[s].order = None
      /\ span'[s].session = Ctx(t).session
  BY <1>1, <1>2, <1>3, <1>4, MakesOne
<1>6. Stacks'
  BY <1>1, <1>2, <1>3, <1>5, SessionsSame, EnterKeeps
<1>7. Orders'
  BY <1>1, <1>2, <1>5, SessionsSame, OrdersKept
<1>8. Pending' /\ IdStep
  BY <1>1, <1>2, <1>5, SessionsSame, PendingKept
<1>. QED
  BY <1>1, <1>6, <1>7, <1>8 DEF IInv, Keeps

\* A model span ends; its row takes no id.
LEMMA EndLlmStep ==
  ASSUME IInv, NEW t \in Tasks, EndLlm(t)
  PROVE  Keeps
<1>1. TypeOK /\ TypeOK' /\ Stacks /\ Orders /\ Pending
  BY EndLlmTyped DEF IInv
<1>2. /\ Ready(t) /\ Inside(t, {"llm"}) /\ EndModel(Top(t)) /\ task' = Leave(t) /\ ses' = ses
  BY DEF EndLlm
<1>3. /\ task[t].stack # <<>> /\ Top(t) \in Spans /\ span[Top(t)].state = "open"
      /\ Ctx(t).list \in SpanOrNone /\ span[Top(t)].kind \in Models
  BY <1>1, <1>2, InsideIs DEF Models
<1>4. /\ span' = Ended(Top(t)) /\ row'[Top(t)].id = None
      /\ \A r \in Spans \ {Top(t)} : row'[r] = row[r]
  BY <1>1, <1>2, <1>3, EndModelTyped
<1>5. Moves /\ DoneStays /\ \A r \in Spans : Alike(r)
  BY <1>1, <1>3, <1>4, EndsOne
<1>6. Stacks'
  BY <1>1, <1>2, <1>3, <1>5, SessionsSame, LeaveKeeps
<1>7. Orders'
  BY <1>1, <1>2, <1>5, SessionsSame, OrdersKept
<1>8. Pending' /\ IdStep
  <2>1. \A r \in Spans : row'[r] = row[r] \/ row'[r].id = None
    BY <1>4
  <2>. QED
    BY <1>1, <1>2, <1>5, <2>1, SessionsSame, PendingKept
<1>. QED
  BY <1>1, <1>6, <1>7, <1>8 DEF IInv, Keeps

\* A stream ends, in whatever task; it is in no block.
LEMMA EndStreamStep ==
  ASSUME IInv, NEW t \in Tasks, NEW s \in Spans, EndStream(t, s)
  PROVE  Keeps
<1>1. TypeOK /\ TypeOK' /\ Stacks /\ Orders /\ Pending
  BY EndStreamTyped DEF IInv
<1>2. /\ span[s].state = "open" /\ EndModel(s) /\ task' = task /\ ses' = ses
      /\ span[s].kind \in Models
  BY DEF EndStream, Models
<1>4. /\ span' = Ended(s) /\ row'[s].id = None
      /\ \A r \in Spans \ {s} : row'[r] = row[r]
  BY <1>1, <1>2, EndModelTyped
<1>5. Moves /\ DoneStays /\ \A r \in Spans : Alike(r)
  BY <1>1, <1>2, <1>4, EndsOne
<1>6. Stacks'
  <2>1. \A u \in Tasks : StackOk(u)'
    BY <1>1, <1>2, <1>5, SessionsSame, OthersKeep DEF Ctx
  <2>. QED
    BY <2>1 DEF Stacks
<1>7. Orders'
  BY <1>1, <1>2, <1>5, SessionsSame, OrdersKept
<1>8. Pending' /\ IdStep
  <2>1. \A r \in Spans : row'[r] = row[r] \/ row'[r].id = None
    BY <1>4
  <2>. QED
    BY <1>1, <1>2, <1>5, <2>1, SessionsSame, PendingKept
<1>. QED
  BY <1>1, <1>6, <1>7, <1>8 DEF IInv, Keeps

\* A call reserves the next order and enters its block.
LEMMA WrapStep ==
  ASSUME IInv, NEW t \in Tasks, NEW s \in Spans, Wrap(t, s)
  PROVE  Keeps
<1>. DEFINE ctx == [Ctx(t) EXCEPT !.resv = s]
            c   == Ctx(t).session
            m   == Counted(c)
<1>1. TypeOK /\ TypeOK' /\ Stacks /\ Orders /\ Pending
  BY WrapTyped DEF IInv
<1>2. /\ Ready(t) /\ span[s].state = "new" /\ task' = Enter(t, s, ctx)
      /\ span' = Made(s, "call", None, None, c, None, "wrapped")
      /\ row' = row
  BY DEF Wrap, New
<1>3. /\ ctx \in Context /\ ctx.session = c /\ ctx.resv = s
      /\ c \in SpanOrNone /\ None \in SpanOrNone
  <2>1. Ctx(t) \in Context /\ s \in SpanOrNone
    BY <1>1, TopIs DEF SpanOrNone
  <2>. QED
    BY <2>1, CtxTyped DEF Context, SpanOrNone
<1>4. /\ ses'[s].reserved = NextOrder(c)
      /\ \A r \in Spans \ {s} : ses'[r].reserved = ses[r].reserved
      /\ \A r \in Spans : ses'[r].counter = m[r].counter
      /\ SameLists(ses') /\ SameUsed(ses')
  BY <1>1, WrapTyped
<1>5. /\ CountersGrow(m) /\ NextOrder(c) \in Nat
      /\ c # None => m[c].counter = NextOrder(c) + 1
  BY <1>1, <1>3, CountedIs
<1>. HIDE DEF ctx, c, m
<1>6. /\ Moves /\ DoneStays /\ \A r \in Spans \ {s} : Alike(r)
      /\ span'[s].state = "wrapped" /\ span'[s].kind = "call" /\ span'[s].session = c
      /\ span'[s].order = None
  <2>1. /\ "call" \in AllKinds /\ "wrapped" \in States /\ None \in NameOrNone
        /\ None \in OrderOrNone
    BY DEF AllKinds, States, NameOrNone, OrderOrNone
  <2>. QED
    BY <1>1, <1>2, <1>3, <2>1, MakesOne
<1>7. ~ses'[s].used
  BY <1>1, <1>2, <1>4 DEF Orders, OrdersOf, SameUsed
<1>8. CountersGrow(ses')
  BY <1>4, <1>5 DEF CountersGrow
<1>9. Stacks'
  BY <1>1, <1>2, <1>3, <1>4, <1>6, <1>7, EnterKeeps
<1>10. Orders'
  <2>1. c # None => ses'[c].counter = NextOrder(c) + 1
    BY <1>3, <1>4, <1>5 DEF SpanOrNone
  <2>. QED
    BY <1>1, <1>3, <1>4, <1>5, <1>6, <1>8, <2>1, OrdersReserved
<1>11. Pending' /\ IdStep
  BY <1>1, <1>2, <1>4, <1>6, PendingKept
<1>. QED
  BY <1>1, <1>9, <1>10, <1>11 DEF IInv, Keeps

\* A call without a span takes the next order and leaves a reply.
LEMMA ManualStep ==
  ASSUME IInv, NEW t \in Tasks, NEW s \in Spans, NEW reply \in Replies, Manual(t, s, reply)
  PROVE  Keeps
<1>. DEFINE c == Ctx(t).session
            m == Counted(c)
<1>1. TypeOK /\ TypeOK' /\ Stacks /\ Orders /\ Pending
  BY ManualTyped DEF IInv
<1>2. /\ Ready(t) /\ span[s].state = "new"
      /\ span' = Made(s, "manual", None, Ctx(t).cur, c, NextOrder(c), "done")
      /\ ses' = Captured(m, Ctx(t), s, reply)
  BY DEF Manual, New
<1>3. /\ row'[s].id = None /\ \A r \in Spans \ {s} : row'[r] = row[r]
      /\ task'[t].stack = task[t].stack
      /\ task'[t].ctx.session = c /\ task'[t].ctx.resv = Ctx(t).resv
      /\ \A u \in Tasks \ {t} : task'[u] = task[u]
  BY <1>1, ManualTyped
<1>4. /\ Ctx(t) \in Context /\ c \in SpanOrNone /\ Ctx(t).cur \in SpanOrNone
      /\ reply \in Seq(Names)
  BY <1>1, TopIs, SpanAssumption DEF Context
<1>5. /\ m \in [Spans -> Session] /\ SameLists(m) /\ SameReserved(m) /\ SameUsed(m)
      /\ CountersGrow(m) /\ NextOrder(c) \in Nat
      /\ c # None => m[c].counter = NextOrder(c) + 1
  BY <1>1, <1>4, CountedIs
<1>. HIDE DEF c, m
<1>6. /\ \A r \in Spans : /\ ses'[r].counter = m[r].counter
                          /\ ses'[r].reserved = m[r].reserved /\ ses'[r].used = m[r].used
      /\ \E home \in Spans : Captures(ses', m, home, s, reply)
  BY <1>2, <1>4, <1>5, CapturedIs
<1>7. /\ SameReserved(ses') /\ SameUsed(ses') /\ CountersGrow(ses')
  BY <1>5, <1>6 DEF SameReserved, SameUsed, CountersGrow
<1>8. /\ Moves /\ DoneStays /\ \A r \in Spans \ {s} : Alike(r)
      /\ span'[s].state = "done" /\ span'[s].kind = "manual" /\ span'[s].session = c
      /\ span'[s].order = NextOrder(c)
  <2>1. /\ "manual" \in AllKinds /\ "done" \in States /\ None \in NameOrNone
        /\ NextOrder(c) \in OrderOrNone
    BY <1>5 DEF AllKinds, States, NameOrNone, OrderOrNone
  <2>. QED
    BY <1>1, <1>2, <1>4, <2>1, MakesOne
<1>9. Stacks'
  <2>1. ASSUME NEW u \in Tasks PROVE StackOk(u)'
    <3>1. task'[u].stack = task[u].stack /\ task'[u].ctx.resv = Ctx(u).resv
          /\ task'[u].ctx.session = Ctx(u).session
      BY <1>3 DEF Ctx, c
    <3>. QED
      BY <1>1, <1>7, <1>8, <3>1, OthersKeep
  <2>. QED
    BY <2>1 DEF Stacks
<1>10. Orders'
  <2>1. c # None => ses'[c].counter = NextOrder(c) + 1
    BY <1>4, <1>5, <1>6 DEF SpanOrNone
  <2>. QED
    BY <1>1, <1>4, <1>5, <1>7, <1>8, <2>1, OrdersNext
<1>11. Pending' /\ IdStep
  <2>1. PICK home \in Spans :
          /\ ses'[home].pending = Asked(s, reply) /\ ses'[home].reply = s
          /\ \A r \in Spans \ {home} : ses'[r] = m[r]
    BY <1>6 DEF Captures
  <2>2. \A h \in Spans \ {home} : /\ ses'[h].pending = ses[h].pending
                                  /\ ses'[h].reply = ses[h].reply
    BY <1>5, <2>1 DEF SameLists
  <2>3. \A r \in Spans : row'[r] = row[r] \/ row'[r].id = None
    BY <1>3
  <2>4. span[s].state # "done"
    BY <1>2
  <2>. QED
    BY <1>1, <1>4, <1>8, <2>1, <2>2, <2>3, <2>4, PendingCaptured
<1>. QED
  BY <1>1, <1>9, <1>10, <1>11 DEF IInv, Keeps

\* A call returns, with a reply.
LEMMA ReturnStep ==
  ASSUME IInv, NEW t \in Tasks, NEW reply \in Replies, Return(t, reply)
  PROVE  Keeps
<1>. DEFINE s == Top(t)
            list == ListAfter(Ctx(t), s, reply)
<1>1. TypeOK /\ TypeOK' /\ Stacks /\ Orders /\ Pending
  BY ReturnTyped DEF IInv
<1>2. /\ Ready(t) /\ Inside(t, {"call"}) /\ EndModel(s)
      /\ ses' = Captured(ses, Ctx(t), s, reply)
      /\ task' = [Leave(t) EXCEPT ![t].ctx.list = list]
  BY DEF Return
<1>3. /\ task[t].stack # <<>> /\ s \in Spans /\ span[s].state = "open"
      /\ span[s].kind \in Models /\ Ctx(t) \in Context
      /\ reply \in Seq(Names)
  BY <1>1, <1>2, InsideIs, SpanAssumption DEF Models
<1>4. list \in SpanOrNone
  BY <1>3 DEF ListAfter, SpanOrNone
<1>. HIDE DEF s, list
<1>5. /\ span' = Ended(s) /\ row'[s].id = None
      /\ \A r \in Spans \ {s} : row'[r] = row[r]
  BY <1>1, <1>2, <1>3, EndModelTyped
<1>6. Moves /\ DoneStays /\ (\A r \in Spans : Alike(r)) /\ span'[s].state = "done"
  BY <1>1, <1>3, <1>5, EndsOne
<1>7. /\ \A r \in Spans : /\ ses'[r].counter = ses[r].counter
                          /\ ses'[r].reserved = ses[r].reserved /\ ses'[r].used = ses[r].used
      /\ \E home \in Spans : Captures(ses', ses, home, s, reply)
  <2>1. ses \in [Spans -> Session]
    BY <1>1 DEF TypeOK
  <2>. QED
    BY <1>2, <1>3, <2>1, CapturedIs
<1>8. /\ SameReserved(ses') /\ SameUsed(ses') /\ CountersGrow(ses')
  <2>1. \A r \in Spans : ses[r].counter \in Nat
    BY <1>1, OrdersTyped
  <2>. QED
    BY <1>7, <2>1 DEF SameReserved, SameUsed, CountersGrow
<1>9. Stacks'
  BY <1>1, <1>2, <1>3, <1>4, <1>6, <1>8, LeaveKeeps
<1>10. Orders'
  BY <1>1, <1>6, <1>8, OrdersKept
<1>11. Pending' /\ IdStep
  <2>1. PICK home \in Spans :
          /\ ses'[home].pending = Asked(s, reply) /\ ses'[home].reply = s
          /\ \A r \in Spans \ {home} : ses'[r] = ses[r]
    BY <1>7 DEF Captures
  <2>2. \A h \in Spans \ {home} : /\ ses'[h].pending = ses[h].pending
                                  /\ ses'[h].reply = ses[h].reply
    BY <2>1
  <2>3. \A r \in Spans : row'[r] = row[r] \/ row'[r].id = None
    BY <1>5
  <2>4. span[s].state # "done"
    BY <1>3
  <2>. QED
    BY <1>1, <1>3, <1>6, <2>1, <2>2, <2>3, <2>4, PendingCaptured
<1>. QED
  BY <1>1, <1>9, <1>10, <1>11 DEF IInv, Keeps

\* A tool run of OpenAI Agents takes an id.
LEMMA AgentsToolStep ==
  ASSUME IInv, NEW t \in Tasks, NEW s \in Spans, NEW name \in Names, AgentsTool(t, s, name)
  PROVE  Keeps
<1>. DEFINE id == PoppedId(Ctx(t), name)
<1>1. TypeOK /\ TypeOK' /\ Stacks /\ Orders /\ Pending
  BY AgentsToolTyped DEF IInv
<1>2. /\ span[s].state = "new"
      /\ span' = Made(s, "agents", name, Ctx(t).cur, Ctx(t).session, None, "done")
      /\ row' = Logged(s, Ctx(t).session, id) /\ ses' = Popped(Ctx(t), name)
      /\ task' = task
  BY DEF AgentsTool, New
<1>3. Ctx(t) \in Context /\ Ctx(t).session \in SpanOrNone /\ Ctx(t).cur \in SpanOrNone
  BY <1>1, TopIs DEF Context
<1>4. /\ id \in Id \union {None} /\ SameReserved(ses') /\ SameUsed(ses')
      /\ \A r \in Spans : ses'[r].counter = ses[r].counter
      /\ \/ ses' = ses /\ id = None
         \/ \E k : Takes(ses', id, Home(Ctx(t)), k, name)
  BY <1>1, <1>2, <1>3, PoppedIs
<1>. HIDE DEF id
<1>5. /\ Moves /\ DoneStays /\ \A r \in Spans \ {s} : Alike(r)
      /\ span'[s].state = "done" /\ span'[s].kind = "agents" /\ span'[s].order = None
      /\ span'[s].name = name /\ span'[s].session = Ctx(t).session
  <2>1. /\ "agents" \in AllKinds /\ "done" \in States /\ name \in NameOrNone
        /\ None \in OrderOrNone
    BY DEF AllKinds, States, NameOrNone, OrderOrNone
  <2>. QED
    BY <1>1, <1>2, <1>3, <2>1, MakesOne
<1>6. row'[s].id = id /\ \A r \in Spans \ {s} : row'[r] = row[r]
  BY <1>1, <1>2, <1>3, <1>4, LoggedIs
<1>7. CountersGrow(ses')
  <2>1. \A r \in Spans : ses[r].counter \in Nat
    BY <1>1, OrdersTyped
  <2>. QED
    BY <1>4, <2>1 DEF CountersGrow
<1>8. Stacks'
  <2>1. \A u \in Tasks : StackOk(u)'
    BY <1>1, <1>2, <1>4, <1>5, OthersKeep DEF Ctx
  <2>. QED
    BY <2>1 DEF Stacks
<1>9. Orders'
  BY <1>1, <1>4, <1>5, <1>7, OrdersKept
<1>10. Pending' /\ IdStep
  BY <1>1, <1>3, <1>4, <1>5, <1>6, PendingPopped
<1>. QED
  BY <1>1, <1>8, <1>9, <1>10 DEF IInv, Keeps

\* A call's span starts and uses its reservation up.
LEMMA RequestStep ==
  ASSUME IInv, NEW t \in Tasks, Request(t)
  PROVE  Keeps
<1>. DEFINE s == Top(t)
            n == Len(task[t].stack)
            c == Ctx(t).session
<1>1. TypeOK /\ TypeOK' /\ Stacks /\ Orders /\ Pending
  BY RequestTyped DEF IInv
<1>2. /\ task[t].stack # <<>> /\ span[s].state = "wrapped"
      /\ span' = Made(s, "call", None, Ctx(t).cur, c, TakenOrder(Ctx(t)), "open")
      /\ ses' = Taken(Ctx(t)) /\ row' = row
  BY DEF Request
<1>3. /\ s \in Spans /\ n \in DOMAIN task[t].stack /\ s = task[t].stack[n].span
      /\ Ctx(t) \in Context /\ c \in SpanOrNone /\ Ctx(t).cur \in SpanOrNone
      /\ span[s].state # "new" /\ span[s].session = c
      /\ Reserves(Ctx(t)) /\ Ctx(t).resv = s
  <2>1. /\ s \in Spans /\ n \in DOMAIN task[t].stack /\ s = task[t].stack[n].span
        /\ Ctx(t) \in Context
    BY <1>1, <1>2, TopIs DEF Top
  <2>2. Above(t, n).session = span[s].session
    BY <1>1, <2>1 DEF Stacks, StackOk
  <2>. QED
    BY <1>1, <1>2, <2>1, <2>2 DEF Above, Context, Stacks, StackOk
<1>4. /\ task'[t].stack = task[t].stack
      /\ task'[t].ctx.session = c /\ task'[t].ctx.resv = s
      /\ \A u \in Tasks \ {t} : task'[u] = task[u]
  BY <1>1, <1>3, RequestTyped
<1>. HIDE DEF s, c, n
<1>5. /\ TakenOrder(Ctx(t)) = ses[s].reserved /\ ses'[s].used
      /\ \A r \in Spans \ {s} : ses'[r] = ses[r]
      /\ \A r \in Spans : ses'[r].counter = ses[r].counter
      /\ SameLists(ses') /\ SameReserved(ses')
  BY <1>1, <1>2, <1>3, TakenIs
<1>6. /\ span'[s].state = "open" /\ span'[s].kind = "call" /\ span'[s].session = c
      /\ span'[s].order = ses[s].reserved
      /\ \A r \in Spans \ {s} : span'[r] = span[r]
  <2>. DEFINE order == TakenOrder(Ctx(t))
  <2>1. order = ses[s].reserved /\ order \in OrderOrNone
    BY <1>1, <1>3, <1>5, OrdersTyped
  <2>2. "call" \in AllKinds /\ "open" \in States /\ None \in NameOrNone
    BY DEF AllKinds, States, NameOrNone
  <2>3. span' = Made(s, "call", None, Ctx(t).cur, c, order, "open")
    BY <1>2
  <2>4. Ctx(t).cur \in SpanOrNone /\ c \in SpanOrNone /\ s \in Spans /\ TypeOK
    BY <1>1, <1>3
  <2>. HIDE DEF order
  <2>. QED
    BY <2>1, <2>2, <2>3, <2>4, MadeIs
<1>7. DoneStays /\ \A r \in Spans \ {s} : Alike(r)
  BY <1>2, <1>6 DEF DoneStays, Alike
<1>8. Orders'
  BY <1>1, <1>2, <1>3, <1>5, <1>6, <1>7, OrdersTaken
<1>9. Pending' /\ IdStep
  BY <1>1, <1>2, <1>5, <1>7, PendingKept
<1>10. ASSUME NEW u \in Tasks PROVE StackOk(u)'
  <2>. DEFINE st == task[u].stack
              m  == Len(st)
  <2>1. /\ task'[u].stack = st /\ Ctx(u)'.resv = Ctx(u).resv
        /\ Ctx(u)'.session = Ctx(u).session
    BY <1>3, <1>4 DEF Ctx, c
  <2>2. /\ Ctx(u) \in Context /\ \A i \in DOMAIN st : st[i].span \in Spans /\ st[i].was \in Context
        /\ st # <<>> => m \in DOMAIN st /\ Top(u) = st[m].span
    BY <1>1, StackTyped
  <2>3. StackOk(u)
    BY <1>1 DEF Stacks
  <2>4. Top(u)' = Top(u)
    BY <2>1 DEF Top
  <2>5. \A i \in DOMAIN st : Above(u, i)'.session = Above(u, i).session
    BY <2>1 DEF Above
  <2>6. \A d \in Context : Held(ses', d) <=> Reserves(d) /\ d.resv # s
    BY <1>5 DEF Held, Reserves, Context, SpanOrNone
  <2>7. Reserves(Ctx(u))' <=> Reserves(Ctx(u)) /\ Ctx(u).resv # s
    <3>1. Reserves(Ctx(u))' <=> Held(ses', Ctx(u))
      BY <2>1 DEF Held, Reserves
    <3>. QED
      BY <2>2, <2>6, <3>1
  <2>8. ASSUME NEW i \in DOMAIN st
        PROVE  LET r == st[i].span
               IN  /\ span'[r].state # "new"
                   /\ span'[r].state = "wrapped" => i = m
                   /\ Above(u, i)'.session = span'[r].session
                   /\ ~Held(ses', st[i].was)
    <3>1. LET r == st[i].span
          IN  /\ r \in Spans /\ span[r].state # "new" /\ (span[r].state = "wrapped" => i = m)
              /\ Above(u, i).session = span[r].session /\ ~Reserves(st[i].was)
      BY <2>2, <2>3 DEF StackOk
    <3>2. ~Held(ses', st[i].was)
      BY <2>2, <2>6, <3>1
    <3>. QED
      BY <1>3, <1>6, <2>5, <3>1, <3>2
  <2>9. Reserves(Ctx(u))' => st # <<>> /\ Ctx(u)'.resv = Top(u)' /\ span'[Top(u)'].state = "wrapped"
    BY <1>6, <2>1, <2>2, <2>3, <2>4, <2>7 DEF StackOk
  <2>10. st # <<>> /\ span'[Top(u)'].state = "wrapped" => Reserves(Ctx(u))' /\ Ctx(u)'.resv = Top(u)'
    BY <1>6, <2>1, <2>2, <2>3, <2>4, <2>7 DEF StackOk
  <2>. QED
    BY <2>1, <2>8, <2>9, <2>10 DEF StackOk, Held, Reserves
<1>. QED
  BY <1>1, <1>8, <1>9, <1>10 DEF IInv, Keeps, Stacks

-------------------------------------------------------------------------------
(* The invariant and the theorems. *)

\* Nothing has happened yet: no block, no order, no id.
LEMMA InitInv == Init => IInv
<1>. SUFFICES ASSUME Init PROVE IInv
  OBVIOUS
<1>1. PICK program \in Programs :
        span = [s \in Spans |-> [state |-> "new", kind |-> program[s], name |-> None,
                                 parent |-> None, session |-> None, order |-> None]]
  BY DEF Init
<1>2. /\ task = [t \in Tasks |-> [active |-> t = Main, ctx |-> NoContext, stack |-> <<>>]]
      /\ ses = [s \in Spans |-> [counter |-> 0, pending |-> <<>>, reserved |-> None,
                                 used |-> FALSE, reply |-> None]]
      /\ maps = [parents |-> <<>>, kept |-> <<>>]
      /\ row = [s \in Spans |-> None]
  BY DEF Init
<1>3. \A s \in Spans :
        /\ span[s] \in Span /\ span[s].state = "new" /\ span[s].order = None
        /\ span[s].session = None
  <2>1. \A s \in Spans : program[s] \in AllKinds \union {None}
    BY SpanAssumption
  <2>. QED
    BY <1>1, <2>1 DEF Span, SpanOrNone
<1>4. \A t \in Tasks :
        task[t] \in Task /\ task[t].stack = <<>> /\ Ctx(t).resv = None
  <2>1. <<>> \in Seq([span : Spans, was : Context]) /\ NoContext \in Context
        /\ NoContext.resv = None
    BY EmptySeq DEF NoContext, Context, SpanOrNone
  <2>. DEFINE new(t) == [active |-> t = Main, ctx |-> NoContext, stack |-> <<>>]
  <2>2. \A t \in Tasks : new(t) \in Task /\ new(t).ctx = NoContext /\ new(t).stack = <<>>
    BY <2>1 DEF Task
  <2>3. \A t \in Tasks : task[t] = new(t)
    BY <1>2
  <2>. HIDE DEF new
  <2>4. \A t \in Tasks : Ctx(t) = NoContext
    BY <2>2, <2>3 DEF Ctx
  <2>. HIDE DEF NoContext
  <2>. QED
    BY <2>1, <2>2, <2>3, <2>4
<1>5. \A s \in Spans : ses[s] \in Session /\ ses[s].pending = <<>> /\ ~ses[s].used
  <2>. DEFINE new == [counter |-> 0, pending |-> <<>>, reserved |-> None,
                     used |-> FALSE, reply |-> None]
  <2>1. <<>> \in Seq(Id) /\ None \in SpanOrNone /\ None \in Nat \union {None} /\ 0 \in Nat
    BY EmptySeq DEF SpanOrNone
  <2>2. new \in Session /\ new.pending = <<>> /\ ~new.used
    BY <2>1 DEF Session
  <2>3. \A s \in Spans : ses[s] = new
    BY <1>2
  <2>. HIDE DEF new
  <2>. QED
    BY <2>2, <2>3
<1>6. /\ maps \in [parents : Seq([span : Spans, parent : SpanOrNone]), kept : Seq(Spans)]
      /\ Len(maps.parents) <= Cap /\ Len(maps.kept) <= Cap
  <2>1. \A S : <<>> \in Seq(S) /\ Len(<<>>) = 0
    BY EmptySeq
  <2>. QED
    BY <1>2, <2>1, SpanAssumption
<1>7. TypeOK
  BY <1>1, <1>2, <1>3, <1>4, <1>5, <1>6 DEF TypeOK
<1>8. Stacks
  BY <1>4 DEF Stacks, StackOk, Reserves
<1>9. Orders
  BY <1>3, <1>5 DEF Orders, OrdersOf, Apart
<1>10. Pending
  <2>1. \A h \in Spans : DOMAIN ses[h].pending = {}
    BY <1>5
  <2>. QED
    BY <1>2, <2>1 DEF Pending, OnRow
<1>. QED
  BY <1>7, <1>8, <1>9, <1>10 DEF IInv

\* Every step keeps the invariant and takes ids as IdIsOwn says.
LEMMA StepInv == IInv /\ [Next]_vars => Keeps
<1>1. ASSUME IInv, Next PROVE Keeps
  <2>1. PICK t \in Tasks :
          \/ \E u \in Tasks : Spawn(t, u)
          \/ \E s \in Spans :
               \/ OpenScope(t, s)
               \/ \E name \in Names \union {None}, detached, ordered \in BOOLEAN :
                    Start(t, s, name, detached, ordered)
               \/ EndStream(t, s)
               \/ Wrap(t, s)
               \/ \E reply \in Replies : Manual(t, s, reply)
               \/ \E name \in Names : EnterFn(t, s, name) \/ AgentsTool(t, s, name)
          \/ CloseScope(t) \/ EndFrame(t) \/ EndTool(t) \/ EndLlm(t)
          \/ Request(t) \/ ExitFn(t)
          \/ \E reply \in Replies : Return(t, reply)
    BY <1>1 DEF Next
  <2>2. CASE \E u \in Tasks : Spawn(t, u)
    BY <1>1, <2>2, SpawnStep
  <2>3. CASE \E s \in Spans : OpenScope(t, s)
    BY <1>1, <2>3, OpenScopeStep
  <2>4. CASE \E s \in Spans, name \in Names \union {None}, detached, ordered \in BOOLEAN :
               Start(t, s, name, detached, ordered)
    BY <1>1, <2>4, StartStep
  <2>5. CASE \E s \in Spans : EndStream(t, s)
    BY <1>1, <2>5, EndStreamStep
  <2>6. CASE \E s \in Spans : Wrap(t, s)
    BY <1>1, <2>6, WrapStep
  <2>7. CASE \E s \in Spans, reply \in Replies : Manual(t, s, reply)
    BY <1>1, <2>7, ManualStep
  <2>8. CASE \E s \in Spans, name \in Names : EnterFn(t, s, name)
    BY <1>1, <2>8, EnterFnStep
  <2>9. CASE \E s \in Spans, name \in Names : AgentsTool(t, s, name)
    BY <1>1, <2>9, AgentsToolStep
  <2>10. CASE CloseScope(t)
    BY <1>1, <2>10, CloseScopeStep
  <2>11. CASE EndFrame(t)
    BY <1>1, <2>11, EndFrameStep
  <2>12. CASE EndTool(t)
    BY <1>1, <2>12, EndToolStep
  <2>13. CASE EndLlm(t)
    BY <1>1, <2>13, EndLlmStep
  <2>14. CASE Request(t)
    BY <1>1, <2>14, RequestStep
  <2>15. CASE ExitFn(t)
    BY <1>1, <2>15, ExitFnStep
  <2>16. CASE \E reply \in Replies : Return(t, reply)
    BY <1>1, <2>16, ReturnStep
  <2>. QED
    BY <2>1, <2>2, <2>3, <2>4, <2>5, <2>6, <2>7, <2>8, <2>9, <2>10, <2>11, <2>12, <2>13,
       <2>14, <2>15, <2>16
<1>2. ASSUME IInv, UNCHANGED vars PROVE Keeps
  <2>1. span' = span /\ task' = task /\ ses' = ses /\ maps' = maps /\ row' = row
    BY <1>2 DEF vars
  <2>2. IdStep
    BY <2>1 DEF IdStep
  <2>3. TypeOK'
    BY <1>2, <2>1 DEF IInv, TypeOK
  <2>4. TypeOK /\ Stacks /\ Orders /\ Pending
    BY <1>2 DEF IInv
  <2>5. /\ \A r \in Spans : Alike(r) /\ row'[r] = row[r]
        /\ DoneStays /\ Moves
    BY <2>1 DEF Alike, DoneStays, Moves
  <2>6. Orders' /\ Pending'
    BY <2>1, <2>3, <2>4, <2>5, SessionsSame, OrdersKept, PendingKept
  <2>7. \A u \in Tasks : StackOk(u)'
    BY <2>1, <2>3, <2>4, <2>5, SessionsSame, OthersKeep DEF Ctx
  <2>. QED
    BY <2>2, <2>3, <2>6, <2>7 DEF IInv, Keeps, Stacks
<1>. QED
  BY <1>1, <1>2

\* The invariant holds of every state.
LEMMA SpecInv == Spec => []IInv
<1>1. IInv /\ [Next]_vars => IInv'
  BY StepInv DEF Keeps
<1>. QED
  BY <1>1, InitInv, PTL DEF Spec

\* Every variable keeps its type, and the maps their cap (_SPAN_PARENT_CAP).
THEOREM TreeTypeCorrect == Spec => []TypeOK
<1>1. IInv => TypeOK
  BY DEF IInv
<1>. QED
  BY <1>1, SpecInv, PTL

\* The span of a wrapped call carries the order reserved for it and no other row
\* of its session does, however the tasks interleave (reserve_span_order).
THEOREM OrdersAreOwn == Spec => []OrderIsOwn
<1>1. IInv => OrderIsOwn
  <2>. SUFFICES ASSUME IInv, NEW s \in Spans, span[s].kind = "call", span[s].order # None
                PROVE  /\ span[s].order = ses[s].reserved
                       /\ span[s].session # None =>
                            \A r \in Spans \ {s} : span[r].session = span[s].session
                                                   => span[r].order # span[s].order
    BY DEF OrderIsOwn
  <2>1. OrdersOf(s) /\ \A r \in Spans \ {s} : Apart(s, r)
    BY DEF IInv, Orders
  <2>2. span[s].order = ses[s].reserved
    BY <2>1 DEF OrdersOf
  <2>. QED
    BY <2>1, <2>2 DEF Apart
<1>. QED
  BY <1>1, SpecInv, PTL

\* A tool-call id is on one row at most, a row of a tool of that name, and in a
\* session it is an id of the latest reply (_pop_pending_tool_call_id).
THEOREM IdsAreOwn == Spec => IdIsOwn
<1>1. IInv /\ [Next]_vars => [IdStep]_vars
  BY StepInv DEF Keeps
<1>2. IdIsOwn <=> [][IdStep]_vars
  BY DEF IdIsOwn, IdStep
<1>. QED
  BY <1>1, <1>2, SpecInv, PTL DEF Spec

-------------------------------------------------------------------------------
(* The climb to the nearest row: what the maps say of the spans. *)

Recordable == Models \union {"frame", "tool"}
Started(q) == span[q].state \in {"open", "done"}

\* A span can hang under what was some task's current span.
Hangs(p) == p # None =>
  Started(p) /\ span[p].kind \in {"scope", "frame", "tool", "llm", "call"}

\* What an entry of _span_parent says is so.
Noted(e) == /\ Started(e.span) /\ span[e.span].kind \in Recordable
            /\ e.parent = span[e.span].parent

\* What _kept_spans is about: tools, and models that have a row.
Kept(q) == Started(q) /\ (span[q].kind = "tool" \/ (span[q].kind \in Models /\ row[q] # None))

\* _span_parent tells the parents of spans that have started.
ParentsTell == \A i \in DOMAIN maps.parents : Noted(maps.parents[i])

\* _kept_spans holds each kept span once, but for those it has let go when full.
KeptTell ==
  /\ \A i \in DOMAIN maps.kept : Kept(maps.kept[i])
  /\ \A i, j \in DOMAIN maps.kept : maps.kept[i] = maps.kept[j] => i = j
  /\ \A q \in Spans : Kept(q) /\ ~Survives(maps, q) => Len(maps.kept) = Cap

\* Rows are of spans that have ended, never of frames; a span hangs under
\* another only once it has started.
Rooted ==
  \A q \in Spans :
    /\ row[q] # None => span[q].state = "done" /\ span[q].kind # "frame"
    /\ Hangs(span[q].parent)
    /\ ~Started(q) => span[q].parent = None

\* The current spans, those of open blocks included.
CurOk(t) == /\ Hangs(Ctx(t).cur)
            /\ \A i \in DOMAIN task[t].stack : Hangs(task[t].stack[i].was.cur)
Curs == \A t \in Tasks : CurOk(t)

\* No span is above itself.
Ranks(rank)  == \A q \in Spans : span[q].parent # None => rank[span[q].parent] < rank[q]
Ranked == \E rank \in [Spans -> Nat] : Ranks(rank)

Tree == ParentsTell /\ KeptTell /\ Rooted /\ Curs /\ Ranked

\* A span that has started stays what it is and where it is, and rows stay.
Grows == \A q \in Spans :
  /\ Started(q) => /\ Started(q)' /\ span'[q].kind = span[q].kind
                   /\ span'[q].parent = span[q].parent
  /\ row[q] # None => row'[q] # None

\* So what hangs under it still does.
LEMMA HangsStays ==
  ASSUME Grows, NEW p \in SpanOrNone, Hangs(p)
  PROVE  Hangs(p)'
BY DEF Grows, Hangs, SpanOrNone

\* What the maps hold, typed.
LEMMA MapsTyped ==
  ASSUME TypeOK
  PROVE  /\ maps.parents \in Seq([span : Spans, parent : SpanOrNone]) /\ maps.kept \in Seq(Spans)
         /\ \A i \in DOMAIN maps.parents : /\ maps.parents[i].span \in Spans
                                           /\ maps.parents[i].parent \in SpanOrNone
         /\ \A i \in DOMAIN maps.kept : maps.kept[i] \in Spans
         /\ Len(maps.parents) \in Nat /\ DOMAIN maps.parents = 1 .. Len(maps.parents)
         /\ Len(maps.kept) \in Nat /\ DOMAIN maps.kept = 1 .. Len(maps.kept)
         /\ Len(maps.parents) <= Cap /\ Len(maps.kept) <= Cap /\ Cap \in Nat
<1>. DEFINE P == [span : Spans, parent : SpanOrNone]
<1>1. /\ maps.parents \in Seq(P) /\ maps.kept \in Seq(Spans)
      /\ Len(maps.parents) <= Cap /\ Len(maps.kept) <= Cap /\ Cap \in Nat
  BY SpanAssumption DEF TypeOK
<1>2. \A e \in P : e.span \in Spans /\ e.parent \in SpanOrNone
  OBVIOUS
<1>. HIDE DEF P
<1>3. /\ \A i \in DOMAIN maps.parents : maps.parents[i] \in P
      /\ Len(maps.parents) \in Nat /\ DOMAIN maps.parents = 1 .. Len(maps.parents)
  BY <1>1, LenProperties, ElementOfSeq
<1>4. /\ \A i \in DOMAIN maps.kept : maps.kept[i] \in Spans
      /\ Len(maps.kept) \in Nat /\ DOMAIN maps.kept = 1 .. Len(maps.kept)
  BY <1>1, LenProperties, ElementOfSeq
<1>. QED
  BY <1>1, <1>2, <1>3, <1>4 DEF P

\* All of a sequence, or all but the oldest when it was full already.
AllBut(off, seq, full, new) ==
  /\ off = 0 => Len(seq) < Cap /\ new = full
  /\ off = 1 => Len(seq) = Cap /\ Len(new) = Cap
  /\ \A i \in DOMAIN new : i + off \in DOMAIN full /\ new[i] = full[i + off]

\* What a map holds after one more entry: all of it, or all but the oldest.
LEMMA NewestIs ==
  ASSUME NEW S, NEW seq \in Seq(S), Len(seq) <= Cap, NEW e \in S,
         NEW full, full = Append(seq, e), NEW new, new = Newest(full)
  PROVE  \E off \in {0, 1} : AllBut(off, seq, full, new)
<1>1. /\ full \in Seq(S) /\ full # <<>> /\ Len(full) = Len(seq) + 1 /\ Len(seq) \in Nat
      /\ Cap \in Nat /\ Len(full) \in Nat /\ DOMAIN full = 1 .. Len(full)
  BY Appended, LenProperties, SpanAssumption
<1>2. CASE Len(full) > Cap
  <2>1. new = Tail(full)
    BY <1>2 DEF Newest
  <2>2. /\ new \in Seq(S) /\ Len(new) = Len(full) - 1
        /\ \A i \in 1 .. Len(new) : new[i] = full[i + 1]
    BY <1>1, <2>1, HeadTailProperties
  <2>3. DOMAIN new = 1 .. Len(new)
    BY <2>2, LenProperties
  <2>4. \A i \in DOMAIN new : i + 1 \in DOMAIN full
    BY <1>1, <2>2, <2>3
  <2>5. Len(seq) = Cap /\ Len(new) = Cap
    BY <1>1, <1>2, <2>2
  <2>. QED
    BY <2>2, <2>3, <2>4, <2>5 DEF AllBut
<1>3. CASE ~(Len(full) > Cap)
  <2>1. new = full
    BY <1>3 DEF Newest
  <2>2. \A i \in DOMAIN new : i + 0 \in DOMAIN full /\ new[i] = full[i + 0]
    BY <1>1, <2>1
  <2>3. Len(seq) < Cap
    BY <1>1, <1>3
  <2>. QED
    BY <2>1, <2>2, <2>3 DEF AllBut
<1>. QED
  BY <1>2, <1>3

\* What is left of a sequence without repetitions has none.
LEMMA NoRepeats ==
  ASSUME NEW seq, NEW full, NEW new, NEW off \in {0, 1}, AllBut(off, seq, full, new),
         DOMAIN new \subseteq Int, \A i, j \in DOMAIN full : full[i] = full[j] => i = j
  PROVE  \A i, j \in DOMAIN new : new[i] = new[j] => i = j
<1>. SUFFICES ASSUME NEW i \in DOMAIN new, NEW j \in DOMAIN new, new[i] = new[j]
              PROVE  i = j
  OBVIOUS
<1>1. i + off = j + off
  BY DEF AllBut
<1>2. i \in Int /\ j \in Int
  OBVIOUS
<1>3. \A a, b, c \in Int : a + c = b + c => a = b
  OBVIOUS
<1>4. CASE off = 0
  BY <1>1, <1>2, <1>3, <1>4
<1>5. CASE off = 1
  BY <1>1, <1>2, <1>3, <1>5
<1>. QED
  BY <1>4, <1>5

\* Entries stay true.
LEMMA ParentsStay ==
  ASSUME TypeOK, ParentsTell, Grows, maps'.parents = maps.parents
  PROVE  ParentsTell'
<1>1. \A i \in DOMAIN maps.parents : maps.parents[i].span \in Spans
  BY MapsTyped
<1>. QED
  BY <1>1 DEF ParentsTell, Noted, Grows

\* A new entry is true.
LEMMA ParentsGain ==
  ASSUME TypeOK, ParentsTell, Grows, NEW s \in Spans, NEW p \in SpanOrNone,
         maps'.parents = Newest(Append(maps.parents, [span |-> s, parent |-> p])),
         Started(s)', span'[s].kind \in Recordable, span'[s].parent = p
  PROVE  ParentsTell'
<1>. DEFINE P    == [span : Spans, parent : SpanOrNone]
            e    == [span |-> s, parent |-> p]
            full == Append(maps.parents, e)
            new  == Newest(full)
<1>1. maps.parents \in Seq(P) /\ Len(maps.parents) <= Cap /\ e \in P
      /\ \A i \in DOMAIN maps.parents : maps.parents[i].span \in Spans
  BY MapsTyped
<1>2. e.span = s /\ e.parent = p /\ maps'.parents = new
  OBVIOUS
<1>. HIDE DEF P, e
<1>3. /\ DOMAIN full = DOMAIN maps.parents \union {Len(full)} /\ full[Len(full)] = e
      /\ \A i \in DOMAIN maps.parents : full[i] = maps.parents[i]
  BY <1>1, Appended
<1>4. \A i \in DOMAIN new : \E j \in DOMAIN full : new[i] = full[j]
  <2>1. full = Append(maps.parents, e) /\ new = Newest(full)
    OBVIOUS
  <2>. HIDE DEF full, new
  <2>2. PICK off \in {0, 1} : AllBut(off, maps.parents, full, new)
    BY <1>1, <2>1, NewestIs
  <2>. QED
    BY <2>2 DEF AllBut
<1>. HIDE DEF full, new
<1>5. \A i \in DOMAIN new : new[i] = e \/ \E j \in DOMAIN maps.parents : new[i] = maps.parents[j]
  BY <1>3, <1>4
<1>. QED
  BY <1>1, <1>2, <1>5 DEF ParentsTell, Noted, Grows

\* No span becomes or ceases to be one to keep.
LEMMA KeptStay ==
  ASSUME TypeOK, KeptTell, Grows, maps'.kept = maps.kept,
         \A q \in Spans : Kept(q)' => Kept(q)
  PROVE  KeptTell'
<1>1. \A i \in DOMAIN maps.kept : maps.kept[i] \in Spans
  BY MapsTyped
<1>2. \A q \in Spans : Kept(q) => Kept(q)'
  BY DEF Kept, Grows
<1>3. \A q : Survives(maps, q)' <=> Survives(maps, q)
  BY DEF Survives
<1>. QED
  BY <1>1, <1>2, <1>3 DEF KeptTell

\* A span is kept from now on.
LEMMA KeptGain ==
  ASSUME TypeOK, KeptTell, Grows, NEW s \in Spans, ~Kept(s), Kept(s)',
         maps'.kept = Newest(Append(maps.kept, s)),
         \A q \in Spans \ {s} : Kept(q)' => Kept(q)
  PROVE  KeptTell'
<1>. DEFINE full == Append(maps.kept, s)
            new  == Newest(full)
<1>1. /\ maps.kept \in Seq(Spans) /\ Len(maps.kept) <= Cap /\ Len(maps.kept) \in Nat
      /\ \A i \in DOMAIN maps.kept : maps.kept[i] \in Spans /\ i \in Nat
      /\ Cap \in Nat
  BY MapsTyped
<1>2. maps'.kept = new
  OBVIOUS
<1>3. /\ DOMAIN full = DOMAIN maps.kept \union {Len(full)} /\ full[Len(full)] = s
      /\ Len(full) \notin DOMAIN maps.kept /\ Len(full) \in Nat
      /\ \A i \in DOMAIN maps.kept : full[i] = maps.kept[i]
  BY <1>1, Appended
<1>4. PICK off \in {0, 1} : AllBut(off, maps.kept, full, new)
  <2>1. full = Append(maps.kept, s) /\ new = Newest(full)
    OBVIOUS
  <2>2. maps.kept \in Seq(Spans) /\ Len(maps.kept) <= Cap
    BY <1>1
  <2>. HIDE DEF full, new
  <2>. QED
    BY <2>1, <2>2, NewestIs
<1>. HIDE DEF full, new
<1>5. \A q \in Spans : Kept(q) => Kept(q)'
  BY DEF Kept, Grows
<1>6. \A i \in DOMAIN full : \A q : q = full[i] => q \in Spans /\ Kept(q)'
  BY <1>1, <1>3, <1>5 DEF KeptTell
<1>7. \A i, j \in DOMAIN full : full[i] = full[j] => i = j
  <2>1. \A i \in DOMAIN maps.kept : maps.kept[i] # s
    BY DEF KeptTell
  <2>. QED
    BY <1>3, <2>1 DEF KeptTell
<1>8. \A i, j \in DOMAIN new : new[i] = new[j] => i = j
  <2>1. DOMAIN new \subseteq Int
    <3>1. new \in Seq(Spans)
      <4>1. full \in Seq(Spans) /\ Len(full) <= Cap + 1
        BY <1>1, Appended DEF full
      <4>. QED
        BY <4>1, Aged DEF new
    <3>. QED
      BY <3>1, LenProperties
  <2>. HIDE DEF full, new
  <2>. QED
    BY <1>4, <1>7, <2>1, NoRepeats
<1>9. ASSUME NEW q \in Spans, Kept(q)', ~Survives(maps, q)' PROVE Len(new) = Cap
  <2>1. CASE off = 1
    BY <1>4, <2>1 DEF AllBut
  <2>2. CASE off = 0
    <3>1. \A i \in DOMAIN full : full[i] # q
      BY <1>2, <1>4, <1>9, <2>2 DEF AllBut, Survives
    <3>2. q # s /\ ~Survives(maps, q)
      BY <1>3, <3>1 DEF Survives
    <3>3. Len(maps.kept) = Cap
      BY <1>9, <3>2 DEF KeptTell
    <3>. QED
      BY <1>1, <1>4, <2>2, <3>3 DEF AllBut
  <2>. QED
    BY <2>1, <2>2
<1>10. \A i \in DOMAIN new : \E j \in DOMAIN full : new[i] = full[j]
  BY <1>4 DEF AllBut
<1>. QED
  BY <1>2, <1>6, <1>8, <1>9, <1>10 DEF KeptTell

\* The first n numbers are n.
LEMMA UpTo ==
  ASSUME NEW n \in Nat
  PROVE  IsFiniteSet(1 .. n) /\ Cardinality(1 .. n) = n
<1>1. 1 \in Int /\ n \in Int
  OBVIOUS
<1>2. IsFiniteSet(1 .. n) /\ Cardinality(1 .. n) = IF 1 > n THEN 0 ELSE n - 1 + 1
  BY <1>1, FS_Interval
<1>3. (IF 1 > n THEN 0 ELSE n - 1 + 1) = n
  OBVIOUS
<1>. QED
  BY <1>2, <1>3

\* As long as every span that started is recorded, _kept_spans has let nothing
\* go, and has room for one more of them.
LEMMA NoneEvicted ==
  ASSUME TypeOK, KeptTell, NothingForgotten
  PROVE  /\ \A q \in Spans : Kept(q) => Survives(maps, q)
         /\ \A q \in Spans :
              span[q].state # "new" /\ span[q].kind \in Recordable /\ ~Kept(q)
              => Len(maps.kept) < Cap
<1>. DEFINE R == {q \in Spans : Recorded(maps, q)}
            K == {q \in Spans : Survives(maps, q)}
            parents == maps.parents
            kept    == maps.kept
<1>1. /\ Len(parents) \in Nat /\ DOMAIN parents = 1 .. Len(parents)
      /\ Len(kept) \in Nat /\ DOMAIN kept = 1 .. Len(kept)
      /\ \A i \in DOMAIN parents : parents[i].span \in Spans
      /\ \A i \in DOMAIN kept : kept[i] \in Spans
      /\ Len(parents) <= Cap /\ Len(kept) <= Cap /\ Cap \in Nat
      /\ kept \in Seq(Spans)
  BY MapsTyped
<1>2. IsFiniteSet(R) /\ Cardinality(R) <= Cap /\ Cardinality(R) \in Nat
  <2>. DEFINE f == [i \in 1 .. Len(parents) |-> parents[i].span]
  <2>1. f \in Surjection(1 .. Len(parents), R)
    <3>1. \A i \in 1 .. Len(parents) : f[i] = parents[i].span /\ f[i] \in R
      BY <1>1 DEF Recorded
    <3>2. \A q \in R : \E i \in 1 .. Len(parents) : f[i] = q
      BY <1>1 DEF Recorded
    <3>3. f \in [1 .. Len(parents) -> R]
      BY <3>1
    <3>. HIDE DEF f, R
    <3>. QED
      BY <3>2, <3>3 DEF Surjection
  <2>. HIDE DEF f, R, parents
  <2>2. IsFiniteSet(1 .. Len(parents)) /\ Cardinality(1 .. Len(parents)) = Len(parents)
    BY <1>1, UpTo
  <2>3. IsFiniteSet(R) /\ Cardinality(R) <= Cardinality(1 .. Len(parents))
    BY <2>1, <2>2, FS_Surjection
  <2>. QED
    BY <1>1, <2>2, <2>3, FS_CardinalityType
<1>3. IsFiniteSet(K) /\ Cardinality(K) = Len(kept)
  <2>1. kept \in Bijection(1 .. Len(kept), K)
    <3>1. \A i \in 1 .. Len(kept) : kept[i] \in K
      BY <1>1 DEF Survives
    <3>2. \A q \in K : \E i \in 1 .. Len(kept) : kept[i] = q
      BY <1>1 DEF Survives
    <3>3. kept \in [1 .. Len(kept) -> K]
      <4>1. kept \in [1 .. Len(kept) -> Spans]
        BY <1>1, LenProperties
      <4>. HIDE DEF kept, K
      <4>. QED
        BY <3>1, <4>1
    <3>4. \A i, j \in 1 .. Len(kept) : kept[i] = kept[j] => i = j
      BY <1>1 DEF KeptTell
    <3>. HIDE DEF kept, K
    <3>. QED
      BY <3>2, <3>3, <3>4 DEF Bijection, Injection, Surjection, IsInjective
  <2>. HIDE DEF K, kept
  <2>2. IsFiniteSet(1 .. Len(kept)) /\ Cardinality(1 .. Len(kept)) = Len(kept)
    BY <1>1, UpTo
  <2>3. ExistsBijection(1 .. Len(kept), K)
    BY <2>1 DEF ExistsBijection
  <2>. QED
    BY <2>2, <2>3, FS_Bijection
<1>4. \A q \in Spans : span[q].state # "new" /\ span[q].kind \in Recordable => q \in R
  BY DEF NothingForgotten, Forgotten, Recordable
<1>5. \A q \in Spans : Kept(q) => span[q].state # "new" /\ span[q].kind \in Recordable
  BY DEF Kept, Started, Recordable, Models
<1>6. K \subseteq R
  <2>1. \A q \in K : Kept(q)
    BY DEF KeptTell, Survives
  <2>. QED
    BY <1>4, <1>5, <2>1
<1>. HIDE DEF R, K, kept
<1>7. ASSUME NEW q \in R, q \notin K PROVE Len(kept) < Cap
  <2>1. Cardinality(K \cup {q}) = Len(kept) + 1
    BY <1>3, <1>7, FS_AddElement
  <2>2. K \cup {q} \in SUBSET R
    BY <1>6, <1>7
  <2>3. Cardinality(K \cup {q}) <= Cardinality(R)
    BY <1>2, <2>2, FS_Subset
  <2>. QED
    BY <1>1, <1>2, <2>1, <2>3
<1>8. ASSUME NEW q \in Spans, Kept(q) PROVE Survives(maps, q)
  <2>. SUFFICES ASSUME ~Survives(maps, q) PROVE FALSE
    OBVIOUS
  <2>1. Len(kept) = Cap
    BY <1>8 DEF KeptTell, kept
  <2>2. q \in R /\ q \notin K
    BY <1>4, <1>5, <1>8 DEF K
  <2>. QED
    BY <1>1, <1>7, <2>1, <2>2
<1>9. ASSUME NEW q \in Spans, span[q].state # "new", span[q].kind \in Recordable, ~Kept(q)
      PROVE  Len(kept) < Cap
  <2>1. q \in R /\ q \notin K
    <3>1. q \in K => Kept(q)
      BY DEF KeptTell, Survives, K, kept
    <3>. QED
      BY <1>4, <1>9, <3>1
  <2>. QED
    BY <1>7, <2>1
<1>10. \A q \in Spans : span[q].state # "new" /\ span[q].kind \in Recordable /\ ~Kept(q)
                        => Len(kept) < Cap
  BY <1>9
<1>11. \A q \in Spans : Kept(q) => Survives(maps, q)
  BY <1>8
<1>. QED
  BY <1>10, <1>11 DEF kept

\* What is above a span, one step at a time.
Rise == [q \in SpanOrNone |-> IF q = None \/ Settles(q) THEN q ELSE span[q].parent]

\* That step, at a span.
LEMMA RiseAt ==
  ASSUME NEW q \in SpanOrNone
  PROVE  Rise[q] = IF q = None \/ Settles(q) THEN q ELSE span[q].parent
<1>. DEFINE step(r) == IF r = None \/ Settles(r) THEN r ELSE span[r].parent
<1>1. Rise = [r \in SpanOrNone |-> step(r)]
  BY DEF Rise
<1>. HIDE DEF step
<1>2. Rise[q] = step(q)
  BY <1>1
<1>. QED
  BY <1>2 DEF step

\* NearestAbove is the iteration of that step.
LEMMA NearestIs ==
  ASSUME TypeOK, NEW s \in Spans, NEW p, p = span[s].parent, NEW N, N = Hops - 1
  PROVE  /\ N \in Nat /\ p \in SpanOrNone /\ Rise \in [SpanOrNone -> SpanOrNone]
         /\ \E g \in [0 .. N -> SpanOrNone] :
              Iteration(g, Rise, p, N) /\ NearestAbove(s) = g[N]
<1>1. N \in Nat
  BY SpanAssumption
<1>2. p \in SpanOrNone /\ \A q \in Spans : span[q].parent \in SpanOrNone
  BY StateTyped DEF Span
<1>3. Rise \in [SpanOrNone -> SpanOrNone]
  BY <1>2 DEF Rise, SpanOrNone
<1>. DEFINE eq(g) == g = [n \in 0 .. N |->
                           LET q == IF n = 0 THEN p ELSE g[n - 1]
                           IN  IF q = None \/ Settles(q) THEN q ELSE span[q].parent]
            up == CHOOSE g : eq(g)
<1>4. NearestAbove(s) = up[N]
  BY DEF NearestAbove
<1>5. PICK g \in [0 .. N -> SpanOrNone] : Iteration(g, Rise, p, N)
  BY <1>1, <1>2, <1>3, Iterates
<1>. HIDE DEF up
<1>. DEFINE body(q) == IF q = None \/ Settles(q) THEN q ELSE span[q].parent
            at(f, n) == IF n = 0 THEN p ELSE f[n - 1]
<1>6. \A q \in SpanOrNone : Rise[q] = body(q)
  BY RiseAt
<1>7. \A n \in 0 .. N : at(g, n) \in SpanOrNone /\ g[n] = Rise[at(g, n)]
  <2>1. \A n \in 0 .. N : n # 0 => n - 1 \in 0 .. N
    BY <1>1
  <2>2. \A n \in 0 .. N : g[n] \in SpanOrNone
    BY <1>5
  <2>3. \A n \in 0 .. N : at(g, n) \in SpanOrNone
    BY <1>2, <2>1, <2>2
  <2>4. \A n \in 0 .. N : g[n] = Rise[at(g, n)]
    BY <1>5 DEF Iteration
  <2>. QED
    BY <2>3, <2>4
<1>8. \A f : eq(f) <=> f = [n \in 0 .. N |-> body(at(f, n))]
  OBVIOUS
<1>. HIDE DEF body, at, eq
<1>9. eq(g)
  <2>1. g = [n \in 0 .. N |-> g[n]]
    BY <1>5
  <2>2. \A n \in 0 .. N : g[n] = body(at(g, n))
    BY <1>6, <1>7
  <2>. QED
    BY <1>8, <2>1, <2>2
<1>10. eq(up)
  BY <1>9 DEF up
<1>11. /\ \A n \in 0 .. N : up[n] = body(at(up, n)) /\ g[n] = body(at(g, n))
       /\ up = [n \in 0 .. N |-> up[n]] /\ g = [n \in 0 .. N |-> g[n]]
  <2>1. up = [n \in 0 .. N |-> body(at(up, n))]
    BY <1>8, <1>10
  <2>2. g = [n \in 0 .. N |-> body(at(g, n))]
    BY <1>8, <1>9
  <2>3. \A n \in 0 .. N : up[n] = body(at(up, n))
    BY <2>1
  <2>4. \A n \in 0 .. N : g[n] = body(at(g, n))
    BY <2>2
  <2>. HIDE DEF up
  <2>. QED
    BY <2>1, <2>2, <2>3, <2>4
<1>12. up[N] = g[N]
  <2>. DEFINE Bad == {n \in 0 .. N : up[n] # g[n]}
  <2>1. Bad = {}
    <3>. SUFFICES ASSUME Bad # {} PROVE FALSE
      OBVIOUS
    <3>1. Bad \in SUBSET Nat
      BY <1>1
    <3>2. PICK k \in Bad : \A i \in Bad : k <= i
      BY <3>1, Least
    <3>3. k \in 0 .. N /\ up[k] # g[k]
      BY <3>2
    <3>4. at(up, k) = at(g, k)
      <4>1. k # 0 => k - 1 \in 0 .. N /\ ~(k <= k - 1)
        BY <1>1, <3>3
      <4>2. k # 0 => up[k - 1] = g[k - 1]
        BY <3>2, <4>1
      <4>. QED
        BY <4>2 DEF at
    <3>. QED
      BY <1>11, <3>3, <3>4
  <2>. QED
    BY <1>1, <2>1
<1>. QED
  BY <1>1, <1>2, <1>3, <1>4, <1>5, <1>12

\* The map the climb of a span that ends looks in: with the span itself, for a model.
ClimbMap(m, s) == m = maps \/ (m = RecordKept(maps, s) /\ span[s].kind \in Models)

\* What that map holds: it has room for the span.
LEMMA ClimbMapIs ==
  ASSUME TypeOK, Tree, NothingForgotten, NEW s \in Spans, span[s].state = "open",
         span[s].kind \in Models \union {"tool"}, NEW m, ClimbMap(m, s)
  PROVE  /\ m \in MapType /\ m.parents = maps.parents
         /\ \A q \in Spans \ {s} : Survives(m, q) <=> Kept(q)
<1>1. /\ maps.kept \in Seq(Spans) /\ Maps(maps)
      /\ \A i \in DOMAIN maps.kept : maps.kept[i] \in Spans
  BY MapsTyped, StateTyped
<1>2. \A q \in Spans : Survives(maps, q) <=> Kept(q)
  BY NoneEvicted DEF Tree, KeptTell, Survives
<1>3. CASE m = maps
  BY <1>1, <1>2, <1>3 DEF Maps
<1>4. CASE m = RecordKept(maps, s) /\ span[s].kind \in Models
  <2>. DEFINE full == Append(maps.kept, s)
  <2>1. Len(maps.kept) < Cap
    <3>1. ~Kept(s)
      BY <1>4 DEF Tree, Rooted, Kept, Models
    <3>. QED
      BY <3>1, <1>4, NoneEvicted DEF Tree, Recordable
  <2>2. /\ full \in Seq(Spans) /\ Len(full) = Len(maps.kept) + 1 /\ Len(maps.kept) \in Nat
        /\ DOMAIN full = DOMAIN maps.kept \union {Len(full)} /\ full[Len(full)] = s
        /\ \A i \in DOMAIN maps.kept : full[i] = maps.kept[i]
    BY <1>1, Appended
  <2>3. Newest(full) = full
    <3>1. ~(Len(full) > Cap)
      BY <2>1, <2>2, SpanAssumption
    <3>. QED
      BY <3>1 DEF Newest
  <2>4. m = [maps EXCEPT !.kept = full]
    BY <1>4, <2>3 DEF RecordKept
  <2>. HIDE DEF full
  <2>5. m \in MapType /\ m.parents = maps.parents /\ m.kept = full
    BY <1>1, <2>2, <2>4 DEF Maps, MapType
  <2>6. \A q \in Spans \ {s} : Survives(m, q) <=> Survives(maps, q)
    BY <2>2, <2>5 DEF Survives
  <2>. QED
    BY <1>2, <2>5, <2>6
<1>. QED
  BY <1>3, <1>4 DEF ClimbMap

\* Where the maps and the spans tell the climb the same.
LEMMA ClimbIsRise ==
  ASSUME TypeOK, Tree, NothingForgotten, NEW s \in Spans, span[s].state = "open",
         span[s].kind \in Models \union {"tool"}, NEW m, ClimbMap(m, s),
         NEW q \in SpanOrNone, Hangs(q), q # s
  PROVE  /\ Climb(m)[q] = Rise[q] /\ Hangs(Rise[q])
         /\ Rise[q] \in SpanOrNone
         /\ Rise[q] # q => q # None /\ Rise[q] = span[q].parent
<1>1. CASE q = None
  BY <1>1, ClimbAt, RiseAt
<1>2. CASE q # None
  <2>1. /\ q \in Spans \ {s} /\ Started(q)
        /\ span[q].kind \in {"scope", "frame", "tool", "llm", "call"}
    BY <1>2 DEF Hangs, SpanOrNone
  <2>2. m \in MapType /\ m.parents = maps.parents /\ (Survives(m, q) <=> Kept(q))
    BY <2>1, ClimbMapIs
  <2>3. Recorded(m, q) <=> Recorded(maps, q)
    BY <2>2 DEF Recorded
  <2>4. /\ Recorded(maps, q) => span[q].kind \in Recordable
        /\ span[q].kind \in Recordable => Recorded(maps, q)
    <3>1. Recorded(maps, q) => span[q].kind \in Recordable
      BY DEF Tree, ParentsTell, Noted, Recorded
    <3>2. span[q].kind \in Recordable => Recorded(maps, q)
      BY <2>1 DEF NothingForgotten, Forgotten, Started, Recordable
    <3>. QED
      BY <3>1, <3>2
  <2>5. Recorded(m, q) => ParentIn(m, q) = span[q].parent
    <3>. SUFFICES ASSUME Recorded(m, q) PROVE ParentIn(m, q) = span[q].parent
      OBVIOUS
    <3>1. PICK i \in DOMAIN m.parents :
            m.parents[i].span = q /\ ParentIn(m, q) = m.parents[i].parent
      BY <2>2, ParentInTyped
    <3>. QED
      BY <2>2, <3>1 DEF Tree, ParentsTell, Noted
  <2>6. Settles(q) <=> Survives(m, q) \/ ~Recorded(m, q)
    <3>1. row[q] # None => span[q].kind # "frame"
      BY <2>1 DEF Tree, Rooted
    <3>. QED
      BY <2>1, <2>2, <2>3, <2>4, <3>1 DEF Settles, Kept, Recordable, Models
  <2>7. span[q].parent \in SpanOrNone /\ Hangs(span[q].parent)
    BY <2>1, StateTyped DEF Span, Tree, Rooted
  <2>. QED
    BY <1>2, <2>1, <2>5, <2>6, <2>7, ClimbAt, RiseAt
<1>. QED
  BY <1>1, <1>2

\* Both climbs end at the same span: the nearest above that is, or will be, a row.
LEMMA SameEnd ==
  ASSUME TypeOK, Tree, NothingForgotten, NEW s \in Spans, span[s].state = "open",
         span[s].kind \in Models \union {"tool"}, NEW m, ClimbMap(m, s), NEW root
  PROVE  KeptParent(m, span[s].parent, root) =
           IF NearestAbove(s) = None THEN root ELSE NearestAbove(s)
<1>. DEFINE p == span[s].parent
            N == Hops - 1
<1>1. m \in MapType
  BY ClimbMapIs
<1>2. /\ N \in Nat /\ p \in SpanOrNone /\ Hangs(p)
      /\ \E h \in [0 .. N -> SpanOrNone] : Iteration(h, Rise, p, N) /\ NearestAbove(s) = h[N]
  BY NearestIs DEF Tree, Rooted
<1>3. PICK h \in [0 .. N -> SpanOrNone] : Iteration(h, Rise, p, N) /\ NearestAbove(s) = h[N]
  BY <1>2
<1>. HIDE DEF p, N
<1>4. PICK g \in [0 .. N -> SpanOrNone] :
        /\ Iteration(g, Climb(m), p, N)
        /\ KeptParent(m, p, root) = IF g[N] = None THEN root ELSE g[N]
  BY <1>1, <1>2, KeptParentIs DEF N
<1>5. PICK rank \in [Spans -> Nat] : Ranks(rank)
  BY DEF Tree, Ranked
<1>. DEFINE Below(q) == q \in SpanOrNone /\ Hangs(q) /\ (q # None => rank[q] < rank[s])
            at(f, n) == IF n = 0 THEN p ELSE f[n - 1]
            Bad == {n \in 0 .. N : ~(g[n] = h[n] /\ Below(g[n]))}
<1>6. \A n \in 0 .. N : g[n] = Climb(m)[at(g, n)] /\ h[n] = Rise[at(h, n)]
  BY <1>3, <1>4 DEF Iteration
<1>7. Below(p)
  BY <1>2, <1>5 DEF Ranks, p
<1>8. ASSUME NEW q, Below(q) PROVE Climb(m)[q] = Rise[q] /\ Below(Rise[q])
  <2>1. rank \in [Spans -> Nat] /\ q # s
    BY <1>5, <1>8, SpanAssumption
  <2>2. /\ Climb(m)[q] = Rise[q] /\ Hangs(Rise[q]) /\ Rise[q] \in SpanOrNone
        /\ Rise[q] # q => q # None /\ Rise[q] = span[q].parent
    BY <1>8, <2>1, ClimbIsRise
  <2>3. Rise[q] # None => rank[Rise[q]] < rank[s]
    <3>1. CASE Rise[q] = q
      BY <1>8, <3>1
    <3>2. CASE Rise[q] # q /\ Rise[q] # None
      <4>1. q \in Spans /\ Rise[q] \in Spans /\ span[q].parent = Rise[q]
        BY <1>8, <2>2, <3>2 DEF SpanOrNone
      <4>2. rank[Rise[q]] < rank[q] /\ rank[q] < rank[s]
        BY <1>5, <1>8, <2>2, <3>2, <4>1 DEF Ranks
      <4>3. rank[Rise[q]] \in Nat /\ rank[q] \in Nat /\ rank[s] \in Nat
        BY <2>1, <4>1
      <4>. QED
        BY <4>2, <4>3
    <3>. QED
      BY <3>1, <3>2
  <2>. QED
    BY <2>2, <2>3
<1>. HIDE DEF Below
<1>9. Bad = {}
  <2>. SUFFICES ASSUME Bad # {} PROVE FALSE
    OBVIOUS
  <2>1. Bad \in SUBSET Nat
    BY <1>2
  <2>2. PICK k \in Bad : \A i \in Bad : k <= i
    BY <2>1, Least
  <2>3. k \in 0 .. N /\ ~(g[k] = h[k] /\ Below(g[k]))
    BY <2>2
  <2>4. at(g, k) = at(h, k) /\ Below(at(g, k))
    <3>1. k # 0 => k - 1 \in 0 .. N /\ ~(k <= k - 1)
      BY <1>2, <2>3
    <3>2. k # 0 => g[k - 1] = h[k - 1] /\ Below(g[k - 1])
      BY <2>2, <3>1
    <3>. QED
      BY <1>7, <3>2
  <2>. HIDE DEF at
  <2>5. g[k] = Climb(m)[at(g, k)] /\ h[k] = Rise[at(g, k)]
    BY <1>6, <2>3, <2>4
  <2>. QED
    BY <1>8, <2>3, <2>4, <2>5
<1>10. g[N] = h[N]
  BY <1>2, <1>9
<1>. QED
  BY <1>3, <1>4, <1>10 DEF p

-------------------------------------------------------------------------------
(* What a step does to the tree. *)

\* A span starts, or is wrapped: nothing hangs under it yet.
LEMMA MadeInTree ==
  ASSUME TypeOK, TypeOK', Tree, NEW s \in Spans, ~Started(s),
         NEW p \in SpanOrNone, Hangs(p), span'[s].parent = p,
         ~Started(s)' => p = None,
         \A r \in Spans \ {s} : span'[r] = span[r] /\ row'[r] = row[r],
         row'[s] # None => span'[s].state = "done" /\ span'[s].kind # "frame"
  PROVE  /\ Grows /\ Rooted' /\ Ranked' /\ Hangs(p)' /\ ~Kept(s)
         /\ \A q \in Spans \ {s} : Kept(q)' => Kept(q)
<1>1. row[s] = None
  BY DEF Tree, Rooted, Started
<1>2. Grows
  BY <1>1 DEF Grows, Started
<1>3. \A q \in SpanOrNone : Hangs(q) => Hangs(q)'
  BY <1>2, HangsStays
<1>4. \A q \in Spans : span[q].parent \in SpanOrNone /\ Hangs(span[q].parent)
  BY StateTyped DEF Span, Tree, Rooted
<1>5. Rooted'
  <2>1. ASSUME NEW q \in Spans \ {s}
        PROVE  /\ row'[q] # None => span'[q].state = "done" /\ span'[q].kind # "frame"
               /\ Hangs(span[q].parent)'
               /\ ~Started(q)' => span'[q].parent = None
    <3>1. span'[q] = span[q] /\ row'[q] = row[q]
      OBVIOUS
    <3>2. /\ row[q] # None => span[q].state = "done" /\ span[q].kind # "frame"
          /\ ~Started(q) => span[q].parent = None
      BY DEF Tree, Rooted
    <3>3. Hangs(span[q].parent)'
      BY <1>3, <1>4, <3>1 DEF Hangs
    <3>. QED
      BY <3>1, <3>2, <3>3 DEF Started
  <2>2. Hangs(span[s].parent)'
    BY <1>3 DEF Hangs
  <2>. QED
    BY <2>1, <2>2 DEF Rooted
<1>6. Ranked'
  <2>1. PICK rank \in [Spans -> Nat] : Ranks(rank)
    BY DEF Tree, Ranked
  <2>. DEFINE new == [rank EXCEPT ![s] = IF p = None THEN 0 ELSE rank[p] + 1]
  <2>2. p # s /\ \A q \in Spans : span[q].parent # s
    BY <1>4, SpanAssumption DEF Hangs
  <2>3. p # None => p \in Spans
    BY DEF SpanOrNone
  <2>4. /\ new \in [Spans -> Nat] /\ \A q \in Spans \ {s} : new[q] = rank[q]
        /\ p # None => new[s] = rank[p] + 1
    BY <2>3
  <2>. HIDE DEF new
  <2>5. p # None => new[p] < new[s]
    <3>1. p # None => new[p] = rank[p] /\ rank[p] \in Nat
      BY <2>2, <2>3, <2>4
    <3>. QED
      BY <2>4, <3>1
  <2>6. \A q \in Spans \ {s} : span[q].parent # None => new[span[q].parent] < new[q]
    BY <1>4, <2>1, <2>2, <2>4 DEF Ranks, SpanOrNone
  <2>7. Ranks(new)'
    BY <2>5, <2>6 DEF Ranks
  <2>. QED
    BY <2>4, <2>7 DEF Ranked
<1>7. ~Kept(s) /\ \A q \in Spans \ {s} : Kept(q)' => Kept(q)
  BY DEF Kept, Started
<1>. QED
  BY <1>2, <1>3, <1>5, <1>6, <1>7

\* A span ends, with a row unless it is a frame.
LEMMA EndedInTree ==
  ASSUME TypeOK, Tree, NEW s \in Spans, span[s].state = "open", span' = Ended(s),
         \A r \in Spans \ {s} : row'[r] = row[r],
         row'[s] # None => span[s].kind # "frame"
  PROVE  /\ Grows /\ Rooted' /\ Ranked'
         /\ \A q \in Spans \ {s} : Kept(q)' => Kept(q)
         /\ span[s].kind \notin Models => (Kept(s)' => Kept(s))
<1>1. row[s] = None
  BY DEF Tree, Rooted
<1>2. /\ span'[s].state = "done" /\ span'[s].kind = span[s].kind
      /\ span'[s].parent = span[s].parent
      /\ \A r \in Spans \ {s} : span'[r] = span[r]
  BY EndedIs
<1>3. Grows
  BY <1>1, <1>2 DEF Grows, Started
<1>4. \A q \in Spans : /\ span'[q].parent = span[q].parent /\ span'[q].kind = span[q].kind
                       /\ Started(q)' => Started(q)
  BY <1>2 DEF Started
<1>5. Rooted'
  <2>1. ASSUME NEW q \in Spans
        PROVE  /\ row'[q] # None => span'[q].state = "done" /\ span'[q].kind # "frame"
               /\ Hangs(span[q].parent)'
               /\ ~Started(q)' => span'[q].parent = None
    <3>1. /\ row[q] # None => span[q].state = "done" /\ span[q].kind # "frame"
          /\ ~Started(q) => span[q].parent = None
          /\ Hangs(span[q].parent) /\ span[q].parent \in SpanOrNone
      BY StateTyped DEF Tree, Rooted, Span
    <3>2. Hangs(span[q].parent)'
      <4>1. Hangs(span[q].parent) => \A p : p = span[q].parent => Hangs(p)'
        BY <1>3, <3>1, HangsStays
      <4>. QED
        BY <1>4, <3>1, <4>1 DEF Hangs
    <3>3. Started(q) => Started(q)'
      BY <1>3 DEF Grows
    <3>4. row'[q] # None => span'[q].state = "done" /\ span'[q].kind # "frame"
      BY <1>2, <3>1
    <3>. QED
      BY <1>4, <3>1, <3>2, <3>3, <3>4
  <2>. QED
    BY <2>1 DEF Rooted
<1>6. Ranked'
  BY <1>4 DEF Tree, Ranked, Ranks
<1>7. \A q \in Spans \ {s} : Kept(q)' => Kept(q)
  BY <1>2 DEF Kept, Started
<1>8. span[s].kind \notin Models => (Kept(s)' => Kept(s))
  BY <1>2 DEF Kept, Started
<1>. QED
  BY <1>3, <1>5, <1>6, <1>7, <1>8

\* The blocks of a task whose step is not about them.
LEMMA OthersHang ==
  ASSUME TypeOK, Tree, Grows, NEW u \in Tasks, task'[u].stack = task[u].stack,
         Hangs(Ctx(u).cur)'
  PROVE  CurOk(u)'
<1>1. \A i \in DOMAIN task[u].stack :
        Hangs(task[u].stack[i].was.cur) /\ task[u].stack[i].was.cur \in SpanOrNone
  BY StackTyped DEF Tree, Curs, CurOk, Context
<1>2. \A i \in DOMAIN task[u].stack : \A p : p = task[u].stack[i].was.cur => Hangs(p)'
  BY <1>1, HangsStays
<1>. QED
  BY <1>2 DEF CurOk, Hangs

\* The other tasks, and the current span of a task that does not change.
LEMMA CurHangs ==
  ASSUME TypeOK, Tree, Grows, NEW u \in Tasks
  PROVE  /\ Ctx(u).cur \in SpanOrNone /\ Hangs(Ctx(u).cur)
         /\ \A p : p = Ctx(u).cur => Hangs(p)'
         /\ task'[u] = task[u] => CurOk(u)'
<1>1. Ctx(u).cur \in SpanOrNone /\ Hangs(Ctx(u).cur)
  BY TopIs DEF Context, Tree, Curs, CurOk
<1>2. \A p : p = Ctx(u).cur => Hangs(p)'
  BY <1>1, HangsStays
<1>3. task'[u] = task[u] => CurOk(u)'
  <2>1. task'[u] = task[u] => task'[u].stack = task[u].stack /\ Ctx(u)' = Ctx(u)
    BY DEF Ctx
  <2>2. task'[u] = task[u] => Hangs(Ctx(u).cur)'
    BY <1>2, <2>1 DEF Hangs
  <2>. QED
    BY <2>1, <2>2, OthersHang
<1>. QED
  BY <1>1, <1>2, <1>3

\* A block is entered: what was current is kept below it.
LEMMA EnterInTree ==
  ASSUME TypeOK, Tree, Grows, NEW t \in Tasks, NEW s \in Spans, NEW ctx \in Context,
         task' = Enter(t, s, ctx), \A p : p = ctx.cur => Hangs(p)'
  PROVE  Curs'
<1>. DEFINE st  == task[t].stack
            e   == [span |-> s, was |-> Ctx(t)]
            new == task'[t].stack
<1>1. /\ task'[t].ctx = ctx /\ new = Append(st, e)
      /\ \A v \in Tasks \ {t} : task'[v] = task[v]
  BY EnterIs
<1>2. /\ st \in Seq(Entry) /\ Ctx(t) \in Context
      /\ \A i \in DOMAIN st : st[i].was \in Context
  BY StackTyped
<1>3. e \in Entry /\ e.was = Ctx(t)
  BY <1>2 DEF Entry
<1>. HIDE DEF st, e, new
<1>4. /\ DOMAIN new = DOMAIN st \union {Len(new)} /\ new[Len(new)] = e
      /\ \A i \in DOMAIN st : new[i] = st[i]
  <2>1. new = Append(st, e) /\ st \in Seq(Entry) /\ e \in Entry
    BY <1>1, <1>2, <1>3
  <2>. QED
    BY <2>1, Appended
<1>5. \A i \in DOMAIN st : \A p : p = st[i].was.cur => Hangs(p)'
  <2>1. \A i \in DOMAIN st : Hangs(st[i].was.cur) /\ st[i].was.cur \in SpanOrNone
    BY <1>2 DEF Tree, Curs, CurOk, Context, st
  <2>. QED
    BY <2>1, HangsStays
<1>6. \A p : p = Ctx(t).cur => Hangs(p)'
  BY CurHangs
<1>7. \A i \in DOMAIN new : \A p : p = new[i].was.cur => Hangs(p)'
  BY <1>3, <1>4, <1>5, <1>6
<1>8. CurOk(t)'
  <2>1. Ctx(t)'.cur = ctx.cur
    BY <1>1 DEF Ctx
  <2>. QED
    BY <1>7, <2>1 DEF CurOk, Hangs, new
<1>. QED
  BY <1>1, <1>8, CurHangs DEF Curs

\* A block is left: what was current below it is current again.
LEMMA LeaveInTree ==
  ASSUME TypeOK, Tree, Grows, NEW t \in Tasks, task[t].stack # <<>>,
         NEW list \in SpanOrNone,
         \/ task' = Leave(t) /\ list = Ctx(t).list
         \/ task' = [Leave(t) EXCEPT ![t].ctx.list = list]
  PROVE  Curs'
<1>. DEFINE st  == task[t].stack
            new == task'[t].stack
            was == st[Len(st)].was
<1>1. /\ Ctx(t)'.cur = was.cur /\ new = Front(st)
      /\ \A u \in Tasks \ {t} : task'[u] = task[u]
  BY LeaveIs DEF Ctx
<1>2. /\ st \in Seq(Entry) /\ Len(st) \in DOMAIN st
      /\ \A i \in DOMAIN st : st[i].was \in Context
  BY StackTyped
<1>. HIDE DEF st, new
<1>3. /\ DOMAIN new = DOMAIN st \ {Len(st)}
      /\ \A i \in DOMAIN new : new[i] = st[i] /\ i + 1 \in DOMAIN st
  <2>1. Shorter(new, st) /\ st # <<>> /\ st \in Seq(Entry)
    BY <1>1, <1>2 DEF Shorter, st
  <2>. QED
    BY <2>1, Shortened
<1>4. \A i \in DOMAIN st : \A p : p = st[i].was.cur => Hangs(p)'
  <2>1. \A i \in DOMAIN st : Hangs(st[i].was.cur) /\ st[i].was.cur \in SpanOrNone
    BY <1>2 DEF Tree, Curs, CurOk, Context, st
  <2>. QED
    BY <2>1, HangsStays
<1>5. \A i \in DOMAIN new : \A p : p = new[i].was.cur => Hangs(p)'
  BY <1>3, <1>4
<1>6. \A p : p = Ctx(t)'.cur => Hangs(p)'
  BY <1>1, <1>2, <1>4
<1>7. CurOk(t)'
  BY <1>5, <1>6 DEF CurOk, Hangs, new
<1>. QED
  BY <1>1, <1>7, CurHangs DEF Curs

\* Every row of a model or a tool span that is logged hangs where it should.
HangStep ==
  \A s \in Spans :
    row[s] = None /\ row'[s] # None /\ span[s].kind \in Models \union {"tool"}
    /\ NothingForgotten
      => row'[s].parent = IF NearestAbove(s) = None THEN Root(s) ELSE NearestAbove(s)

\* A step that logs no row of a model or tool span has nothing to hang.
LEMMA NoneHung ==
  ASSUME \A s \in Spans : row'[s] = row[s] \/ span[s].kind \notin Models \union {"tool"}
  PROVE  HangStep
BY DEF HangStep

-------------------------------------------------------------------------------
(* The steps, one lemma for each. *)

Hung == Tree' /\ HangStep

\* A task is spawned: it has its parent's current span.
LEMMA SpawnHung ==
  ASSUME TypeOK, Tree, NEW t \in Tasks, NEW u \in Tasks, Spawn(t, u)
  PROVE  Hung
<1>1. /\ task'[u].ctx = Ctx(t) /\ task'[u].stack = <<>>
      /\ \A v \in Tasks \ {u} : task'[v] = task[v]
  BY SpawnTyped
<1>2. span' = span /\ maps' = maps /\ row' = row
  BY DEF Spawn
<1>3. Grows
  BY <1>2 DEF Grows, Started
<1>4. ParentsTell' /\ KeptTell'
  BY <1>2, <1>3, ParentsStay, KeptStay DEF Tree, Kept, Started
<1>5. Rooted' /\ Ranked'
  BY <1>2 DEF Tree, Rooted, Ranked, Ranks, Hangs, Started
<1>6. CurOk(u)'
  <2>1. Ctx(u)' = Ctx(t) /\ DOMAIN task'[u].stack = {}
    BY <1>1 DEF Ctx
  <2>2. \A p : p = Ctx(t).cur => Hangs(p)'
    BY <1>3, CurHangs
  <2>. QED
    BY <2>1, <2>2 DEF CurOk, Hangs
<1>7. Curs'
  BY <1>1, <1>3, <1>6, CurHangs DEF Curs
<1>8. HangStep
  BY <1>2, NoneHung
<1>. QED
  BY <1>4, <1>5, <1>7, <1>8 DEF Hung, Tree

\* A step that leaves the maps alone and logs no row of a model or a tool.
LEMMA MapsAlone ==
  ASSUME TypeOK, Tree, Grows, Rooted', Ranked', Curs', maps' = maps,
         \A q \in Spans : Kept(q)' => Kept(q),
         \A s \in Spans : row'[s] = row[s] \/ span[s].kind \notin Models \union {"tool"}
  PROVE  Hung
<1>1. ParentsTell' /\ KeptTell'
  BY ParentsStay, KeptStay DEF Tree
<1>. QED
  BY <1>1, NoneHung DEF Hung, Tree

\* A span that the maps are not told of, and whose row does not look in them.
LEMMA MadeAlone ==
  ASSUME TypeOK, TypeOK', Tree, NEW s \in Spans, ~Started(s),
         NEW kind \in AllKinds, kind = span[s].kind, kind # "tool",
         NEW name \in NameOrNone, NEW p \in SpanOrNone, Hangs(p),
         NEW session \in SpanOrNone, NEW order \in OrderOrNone, NEW state \in States,
         span' = Made(s, kind, name, p, session, order, state),
         state \in {"new", "wrapped"} => p = None, maps' = maps,
         \A r \in Spans \ {s} : row'[r] = row[r],
         row'[s] # None => state = "done" /\ kind \notin Models \union {"tool", "frame"}
  PROVE  /\ Grows /\ Hangs(p)'
         /\ kind = "scope" /\ state = "open" => \A q : q = s => Hangs(q)'
         /\ Curs' => Hung
<1>1. /\ span'[s].state = state /\ span'[s].kind = kind /\ span'[s].parent = p
      /\ \A r \in Spans \ {s} : span'[r] = span[r]
  BY MadeIs
<1>2. /\ Grows /\ Rooted' /\ Ranked' /\ Hangs(p)' /\ ~Kept(s)
      /\ \A q \in Spans \ {s} : Kept(q)' => Kept(q)
  <2>1. ~Started(s)' => p = None
    BY <1>1 DEF Started, States
  <2>2. row'[s] # None => span'[s].state = "done" /\ span'[s].kind # "frame"
    BY <1>1
  <2>. QED
    BY <1>1, <2>1, <2>2, MadeInTree
<1>3. kind = "scope" /\ state = "open" => \A q : q = s => Hangs(q)'
  BY <1>1 DEF Hangs, Started
<1>4. \A q \in Spans : Kept(q)' => Kept(q)
  <2>1. ~Kept(s)'
    BY <1>1 DEF Kept
  <2>. QED
    BY <1>2, <2>1
<1>5. \A r \in Spans : row'[r] = row[r] \/ span[r].kind \notin Models \union {"tool"}
  <2>1. row[s] = None
    BY DEF Tree, Rooted, Started
  <2>. QED
    BY <2>1
<1>. QED
  BY <1>2, <1>3, <1>4, <1>5, MapsAlone

\* A scope is opened under the current span, and is current from now on.
LEMMA OpenScopeHung ==
  ASSUME TypeOK, Tree, NEW t \in Tasks, NEW s \in Spans, OpenScope(t, s)
  PROVE  Hung
<1>. DEFINE ctx == [Ctx(t) EXCEPT !.cur = s, !.session = s]
            p   == Ctx(t).cur
<1>1. /\ span[s].state = "new" /\ span[s].kind = "scope" /\ task' = Enter(t, s, ctx)
      /\ span' = Made(s, "scope", None, p, s, None, "open")
      /\ maps' = maps /\ row' = row
  BY DEF OpenScope, New
<1>2. /\ TypeOK' /\ p \in SpanOrNone /\ Hangs(p) /\ s \in SpanOrNone /\ Ctx(t) \in Context
  BY OpenScopeTyped, TopIs DEF Context, SpanOrNone, Tree, Curs, CurOk
<1>3. ctx \in Context /\ ctx.cur = s
  BY <1>2 DEF Context
<1>. HIDE DEF ctx, p
<1>4. "scope" \in AllKinds /\ "open" \in States /\ None \in NameOrNone /\ None \in OrderOrNone
  BY DEF AllKinds, States, NameOrNone, OrderOrNone
<1>5. ~Started(s) /\ row[s] = None /\ row'[s] = None
  BY <1>1 DEF Started, Tree, Rooted
<1>6. Grows /\ (\A q : q = s => Hangs(q)') /\ (Curs' => Hung)
  BY <1>1, <1>2, <1>4, <1>5, MadeAlone
<1>7. Curs'
  BY <1>1, <1>3, <1>6, EnterInTree
<1>. QED
  BY <1>6, <1>7

\* A function is entered; the current span stays.
LEMMA EnterFnHung ==
  ASSUME TypeOK, Tree, NEW t \in Tasks, NEW s \in Spans, NEW name \in Names, EnterFn(t, s, name)
  PROVE  Hung
<1>. DEFINE p == Ctx(t).cur
<1>1. /\ span[s].state = "new" /\ span[s].kind = "fn" /\ task' = Enter(t, s, Ctx(t))
      /\ span' = Made(s, "fn", name, p, Ctx(t).session, None, "open")
      /\ maps' = maps /\ row' = row
  BY DEF EnterFn, New
<1>2. /\ TypeOK' /\ p \in SpanOrNone /\ Hangs(p) /\ Ctx(t) \in Context
      /\ Ctx(t).session \in SpanOrNone
  BY EnterFnTyped, TopIs DEF Context, Tree, Curs, CurOk
<1>4. "fn" \in AllKinds /\ "open" \in States /\ name \in NameOrNone /\ None \in OrderOrNone
  BY DEF AllKinds, States, NameOrNone, OrderOrNone
<1>5. ~Started(s) /\ row[s] = None /\ row'[s] = None
  BY <1>1 DEF Started, Tree, Rooted
<1>. HIDE DEF p
<1>6. Grows /\ (Curs' => Hung)
  BY <1>1, <1>2, <1>4, <1>5, MadeAlone
<1>7. Curs'
  BY <1>1, <1>2, <1>6, CurHangs, EnterInTree
<1>. QED
  BY <1>6, <1>7

\* A tool of OpenAI Agents: its row's parent is its session's scope.
LEMMA AgentsToolHung ==
  ASSUME TypeOK, Tree, NEW t \in Tasks, NEW s \in Spans, NEW name \in Names,
         AgentsTool(t, s, name)
  PROVE  Hung
<1>. DEFINE p == Ctx(t).cur
            id == PoppedId(Ctx(t), name)
<1>1. /\ span[s].state = "new" /\ span[s].kind = "agents" /\ task' = task
      /\ span' = Made(s, "agents", name, p, Ctx(t).session, None, "done")
      /\ maps' = maps /\ row' = Logged(s, Ctx(t).session, id)
  BY DEF AgentsTool, New
<1>2. /\ TypeOK' /\ p \in SpanOrNone /\ Hangs(p) /\ Ctx(t) \in Context
      /\ Ctx(t).session \in SpanOrNone
  BY AgentsToolTyped, TopIs DEF Context, Tree, Curs, CurOk
<1>3. \A r \in Spans \ {s} : row'[r] = row[r]
  BY <1>1 DEF Logged, TypeOK
<1>4. "agents" \in AllKinds /\ "done" \in States /\ name \in NameOrNone /\ None \in OrderOrNone
  BY DEF AllKinds, States, NameOrNone, OrderOrNone
<1>5. ~Started(s) /\ "agents" \notin Models \union {"tool", "frame"}
  BY <1>1 DEF Started, Models
<1>. HIDE DEF p, id
<1>6. Grows /\ (Curs' => Hung)
  BY <1>1, <1>2, <1>3, <1>4, <1>5, MadeAlone
<1>7. Curs'
  BY <1>1, <1>6, CurHangs DEF Curs
<1>. QED
  BY <1>6, <1>7

\* A call is wrapped: its span does not start yet.
LEMMA WrapHung ==
  ASSUME TypeOK, Tree, NEW t \in Tasks, NEW s \in Spans, Wrap(t, s)
  PROVE  Hung
<1>. DEFINE ctx == [Ctx(t) EXCEPT !.resv = s]
<1>1. /\ span[s].state = "new" /\ span[s].kind = "call" /\ task' = Enter(t, s, ctx)
      /\ span' = Made(s, "call", None, None, Ctx(t).session, None, "wrapped")
      /\ maps' = maps /\ row' = row
  BY DEF Wrap, New
<1>2. /\ TypeOK' /\ None \in SpanOrNone /\ Hangs(None) /\ Ctx(t) \in Context
      /\ Ctx(t).session \in SpanOrNone /\ s \in SpanOrNone
  BY WrapTyped, TopIs DEF Context, Hangs, SpanOrNone
<1>3. ctx \in Context /\ ctx.cur = Ctx(t).cur
  BY <1>2 DEF Context
<1>4. "call" \in AllKinds /\ "wrapped" \in States /\ None \in NameOrNone /\ None \in OrderOrNone
  BY DEF AllKinds, States, NameOrNone, OrderOrNone
<1>5. ~Started(s) /\ row[s] = None /\ row'[s] = None
  BY <1>1 DEF Started, Tree, Rooted
<1>. HIDE DEF ctx
<1>6. Grows /\ (Curs' => Hung)
  BY <1>1, <1>2, <1>4, <1>5, MadeAlone
<1>7. Curs'
  BY <1>1, <1>3, <1>6, CurHangs, EnterInTree
<1>. QED
  BY <1>6, <1>7

\* A call without a span: the current span stays.
LEMMA ManualHung ==
  ASSUME TypeOK, Tree, NEW t \in Tasks, NEW s \in Spans, NEW reply \in Replies,
         Manual(t, s, reply)
  PROVE  Hung
<1>. DEFINE p == Ctx(t).cur
            c == Ctx(t).session
            parent == ManualParent(Ctx(t))
            list == ListAfter(Ctx(t), s, reply)
            ctx == [Ctx(t) EXCEPT !.list = list]
<1>1. /\ span[s].state = "new" /\ span[s].kind = "manual" /\ task' = WithCtx(t, ctx)
      /\ span' = Made(s, "manual", None, p, c, NextOrder(c), "done")
      /\ maps' = maps /\ row' = Logged(s, parent, None)
  <2>1. task' = [task EXCEPT ![t].ctx.list = list] /\ task[t] \in Task
    BY TopIs DEF Manual
  <2>2. task' = WithCtx(t, ctx)
    BY <2>1 DEF WithCtx, Ctx
  <2>. QED
    BY <2>2 DEF Manual, New
<1>2. /\ TypeOK' /\ p \in SpanOrNone /\ Hangs(p) /\ Ctx(t) \in Context
      /\ c \in SpanOrNone /\ list \in SpanOrNone
  BY ManualTyped, TopIs DEF Context, Tree, Curs, CurOk, ListAfter, SpanOrNone
<1>3. ctx \in Context /\ ctx.cur = p
  BY <1>2 DEF Context
<1>. HIDE DEF c, parent, list, ctx
<1>4. /\ "manual" \in AllKinds /\ "done" \in States /\ None \in NameOrNone
      /\ NextOrder(c) \in OrderOrNone
  BY <1>2, CountedIs DEF AllKinds, States, NameOrNone, OrderOrNone
<1>5. ~Started(s) /\ "manual" \notin Models \union {"tool", "frame"}
  BY <1>1 DEF Started, Models
<1>6. \A r \in Spans \ {s} : row'[r] = row[r]
  BY <1>1 DEF Logged, TypeOK
<1>. HIDE DEF p
<1>7. Grows /\ (Curs' => Hung)
  BY <1>1, <1>2, <1>4, <1>5, <1>6, MadeAlone
<1>8. /\ task'[t].ctx = ctx /\ task'[t].stack = task[t].stack
      /\ \A u \in Tasks \ {t} : task'[u] = task[u]
  BY <1>1, <1>3, InPlace
<1>9. Hangs(Ctx(t).cur)'
  BY <1>3, <1>7, <1>8, CurHangs DEF Ctx, Hangs, p
<1>10. Curs'
  BY <1>7, <1>8, <1>9, OthersHang, CurHangs DEF Curs
<1>. QED
  BY <1>7, <1>10

\* What the maps hold once a span is recorded.
LEMMA MapsGain ==
  ASSUME TypeOK, NEW s \in Spans, NEW p \in SpanOrNone, NEW m
  PROVE  /\ m = RecordParent(maps, s, p) =>
              /\ m.parents = Newest(Append(maps.parents, [span |-> s, parent |-> p]))
              /\ m.kept = maps.kept
         /\ m = RecordKept(RecordParent(maps, s, p), s) =>
              /\ m.parents = Newest(Append(maps.parents, [span |-> s, parent |-> p]))
              /\ m.kept = Newest(Append(maps.kept, s))
         /\ m = RecordKept(maps, s) =>
              m.parents = maps.parents /\ m.kept = Newest(Append(maps.kept, s))
<1>. DEFINE parents == Newest(Append(maps.parents, [span |-> s, parent |-> p]))
            kept    == Newest(Append(maps.kept, s))
            noted   == [maps EXCEPT !.parents = parents]
<1>1. DOMAIN maps = {"parents", "kept"}
  BY DEF TypeOK
<1>2. /\ RecordParent(maps, s, p) = noted
      /\ RecordKept(maps, s) = [maps EXCEPT !.kept = kept]
      /\ RecordKept(noted, s) = [noted EXCEPT !.kept = Newest(Append(noted.kept, s))]
  BY DEF RecordParent, RecordKept
<1>. HIDE DEF parents
<1>3. noted.parents = parents /\ noted.kept = maps.kept /\ DOMAIN noted = {"parents", "kept"}
  BY <1>1
<1>. HIDE DEF kept, noted
<1>4. m = noted => m.parents = parents /\ m.kept = maps.kept
  BY <1>3
<1>5. m = [maps EXCEPT !.kept = kept] => m.parents = maps.parents /\ m.kept = kept
  BY <1>1
<1>6. m = RecordKept(noted, s) => m.parents = parents /\ m.kept = kept
  <2>1. RecordKept(noted, s) = [noted EXCEPT !.kept = kept]
    BY <1>2, <1>3 DEF kept
  <2>. QED
    BY <1>3, <2>1
<1>. QED
  BY <1>2, <1>4, <1>5, <1>6 DEF parents, kept

\* A span starts, and the maps are told of it.
LEMMA MadeNoted ==
  ASSUME TypeOK, TypeOK', Tree, NEW s \in Spans, ~Started(s),
         NEW kind \in Recordable, kind = span[s].kind,
         NEW name \in NameOrNone, NEW p \in SpanOrNone, Hangs(p),
         NEW session \in SpanOrNone, NEW order \in OrderOrNone,
         span' = Made(s, kind, name, p, session, order, "open"), row' = row,
         \/ kind # "tool" /\ maps' = RecordParent(maps, s, p)
         \/ kind = "tool" /\ maps' = RecordKept(RecordParent(maps, s, p), s)
  PROVE  /\ Grows
         /\ kind # "stream" => \A q : q = s => Hangs(q)'
         /\ Curs' => Hung
<1>0. kind \in AllKinds /\ "open" \in States
  BY DEF Recordable, Models, AllKinds, States
<1>1. /\ span'[s].state = "open" /\ span'[s].kind = kind /\ span'[s].parent = p
      /\ \A r \in Spans \ {s} : span'[r] = span[r]
  BY <1>0, MadeIs
<1>2. row[s] = None /\ Started(s)'
  BY <1>1 DEF Started, Tree, Rooted
<1>3. /\ Grows /\ Rooted' /\ Ranked' /\ ~Kept(s)
      /\ \A q \in Spans \ {s} : Kept(q)' => Kept(q)
  <2>1. row'[s] = None /\ \A r \in Spans \ {s} : row'[r] = row[r]
    BY <1>2
  <2>. QED
    BY <1>1, <1>2, <2>1, MadeInTree
<1>4. kind # "stream" => \A q : q = s => Hangs(q)'
  BY <1>1, <1>2 DEF Hangs, Recordable, Models
<1>5. ParentsTell'
  <2>1. maps'.parents = Newest(Append(maps.parents, [span |-> s, parent |-> p]))
    BY MapsGain
  <2>. QED
    BY <1>1, <1>2, <1>3, <2>1, ParentsGain DEF Tree
<1>6. KeptTell'
  <2>1. CASE kind = "tool"
    <3>1. Kept(s)'
      BY <1>1, <1>2, <2>1 DEF Kept
    <3>2. maps'.kept = Newest(Append(maps.kept, s))
      BY <2>1, MapsGain
    <3>. QED
      BY <1>3, <3>1, <3>2, KeptGain DEF Tree
  <2>2. CASE kind # "tool"
    <3>1. ~Kept(s)'
      BY <1>1, <1>2, <2>2 DEF Kept
    <3>2. maps'.kept = maps.kept
      BY <2>2, MapsGain
    <3>. QED
      BY <1>3, <3>1, <3>2, KeptStay DEF Tree
  <2>. QED
    BY <2>1, <2>2
<1>7. HangStep
  BY NoneHung
<1>. QED
  BY <1>3, <1>4, <1>5, <1>6, <1>7 DEF Hung, Tree

\* A span starts under the current span, or as a root; a stream is never current.
LEMMA StartHung ==
  ASSUME TypeOK, Tree, NEW t \in Tasks, NEW s \in Spans, NEW name \in Names \union {None},
         NEW detached \in BOOLEAN, NEW ordered \in BOOLEAN,
         Start(t, s, name, detached, ordered)
  PROVE  Hung
<1>. DEFINE kind  == span[s].kind
            p     == IF detached THEN None ELSE Ctx(t).cur
            order == IF kind \in Models THEN TakenOrder(Ctx(t)) ELSE None
            c     == Ctx(t).session
            ctx   == [Ctx(t) EXCEPT !.cur = s]
            noted == RecordParent(maps, s, p)
<1>1. /\ span[s].state = "new" /\ kind \in {"frame", "tool", "llm", "stream"}
      /\ span' = Made(s, kind, name, p, c, order, "open") /\ row' = row
      /\ maps' = IF kind = "tool" THEN RecordKept(noted, s) ELSE noted
      /\ task' = IF kind = "stream" THEN task ELSE Enter(t, s, ctx)
  BY DEF Start, New
<1>2. /\ TypeOK' /\ Ctx(t) \in Context /\ Ctx(t).cur \in SpanOrNone /\ Hangs(Ctx(t).cur)
      /\ c \in SpanOrNone /\ s \in SpanOrNone
  BY StartTyped, TopIs DEF Context, SpanOrNone, Tree, Curs, CurOk
<1>3. p \in SpanOrNone /\ Hangs(p)
  BY <1>2 DEF Hangs, SpanOrNone
<1>4. ctx \in Context /\ ctx.cur = s
  BY <1>2 DEF Context
<1>5. order \in OrderOrNone
  BY <1>2, TakenIs DEF OrderOrNone
<1>6. ~Started(s) /\ kind \in Recordable /\ name \in NameOrNone
  BY <1>1 DEF Started, Recordable, Models, NameOrNone
<1>7. \/ kind # "tool" /\ maps' = RecordParent(maps, s, p)
      \/ kind = "tool" /\ maps' = RecordKept(RecordParent(maps, s, p), s)
  BY <1>1
<1>. HIDE DEF kind, p, order, c, ctx, noted
<1>8. Grows /\ (kind # "stream" => \A q : q = s => Hangs(q)') /\ (Curs' => Hung)
  BY <1>1, <1>2, <1>3, <1>5, <1>6, <1>7, MadeNoted DEF kind
<1>9. Curs'
  <2>1. CASE kind = "stream"
    <3>1. task' = task
      BY <1>1, <2>1
    <3>. QED
      BY <1>8, <3>1, CurHangs DEF Curs
  <2>2. CASE kind # "stream"
    <3>1. task' = Enter(t, s, ctx) /\ \A q : q = ctx.cur => Hangs(q)'
      BY <1>1, <1>4, <1>8, <2>2
    <3>. QED
      BY <1>4, <1>8, <3>1, EnterInTree
  <2>. QED
    BY <2>1, <2>2
<1>. QED
  BY <1>8, <1>9

\* The span of a wrapped call starts under the current span.
LEMMA RequestHung ==
  ASSUME TypeOK, Tree, Orders, NEW t \in Tasks, Request(t)
  PROVE  Hung
<1>. DEFINE s   == Top(t)
            p   == Ctx(t).cur
            c   == Ctx(t).session
            ctx == [Ctx(t) EXCEPT !.cur = s]
<1>1. /\ task[t].stack # <<>> /\ span[s].state = "wrapped"
      /\ span' = Made(s, "call", None, p, c, TakenOrder(Ctx(t)), "open") /\ row' = row
      /\ maps' = RecordParent(maps, s, p)
      /\ task' = WithCtx(t, ctx)
  <2>1. task' = [task EXCEPT ![t].ctx.cur = s] /\ task[t] \in Task
    BY TopIs DEF Request
  <2>2. task' = WithCtx(t, ctx)
    BY <2>1 DEF WithCtx, Ctx
  <2>. QED
    BY <2>2 DEF Request
<1>2. /\ TypeOK' /\ Ctx(t) \in Context /\ p \in SpanOrNone /\ Hangs(p)
      /\ c \in SpanOrNone /\ s \in Spans /\ s \in SpanOrNone
      /\ TakenOrder(Ctx(t)) \in OrderOrNone
  <2>1. Ctx(t) \in Context /\ p \in SpanOrNone /\ Hangs(p) /\ c \in SpanOrNone
        /\ s \in Spans /\ s \in SpanOrNone
    BY <1>1, TopIs DEF Context, SpanOrNone, Tree, Curs, CurOk
  <2>. QED
    BY <2>1, RequestTyped, TakenIs DEF OrderOrNone
<1>3. ctx \in Context /\ ctx.cur = s
  BY <1>2 DEF Context
<1>4. ~Started(s) /\ "call" = span[s].kind /\ "call" \in Recordable /\ None \in NameOrNone
  BY <1>1, <1>2 DEF Started, Recordable, Models, NameOrNone, Orders, OrdersOf
<1>. HIDE DEF s, p, c, ctx
<1>5. Grows /\ (\A q : q = s => Hangs(q)') /\ (Curs' => Hung)
  BY <1>1, <1>2, <1>4, MadeNoted
<1>6. /\ task'[t].ctx = ctx /\ task'[t].stack = task[t].stack
      /\ \A u \in Tasks \ {t} : task'[u] = task[u]
  BY <1>1, <1>3, InPlace
<1>7. Hangs(Ctx(t).cur)'
  BY <1>3, <1>5, <1>6 DEF Ctx, Hangs
<1>8. Curs'
  BY <1>5, <1>6, <1>7, OthersHang, CurHangs DEF Curs
<1>. QED
  BY <1>5, <1>8

\* A span that is no model's ends; the maps are not told.
LEMMA EndedAlone ==
  ASSUME TypeOK, Tree, NEW s \in Spans, span[s].state = "open", span' = Ended(s),
         span[s].kind \notin Models, maps' = maps,
         \A r \in Spans \ {s} : row'[r] = row[r],
         row'[s] # None => span[s].kind # "frame"
  PROVE  /\ Grows
         /\ Curs' /\ HangStep => Hung
<1>1. /\ Grows /\ Rooted' /\ Ranked' /\ \A q \in Spans : Kept(q)' => Kept(q)
  BY EndedInTree
<1>2. ParentsTell' /\ KeptTell'
  BY <1>1, ParentsStay, KeptStay DEF Tree
<1>. QED
  BY <1>1, <1>2 DEF Hung, Tree

\* A model span ends, and its row hangs where it should.
LEMMA EndModelHung ==
  ASSUME TypeOK, TypeOK', Tree, NEW s \in Spans, span[s].state = "open",
         span[s].kind \in Models, EndModel(s)
  PROVE  Grows /\ (Curs' => Hung)
<1>. DEFINE kept   == RecordKept(maps, s)
            parent == KeptParent(kept, span[s].parent, Root(s))
            new    == [parent |-> parent, id |-> None]
<1>1. /\ span' = Ended(s) /\ maps' = kept /\ row' = Logged(s, parent, None)
  BY DEF EndModel
<1>2. parent \in SpanOrNone
  <2>1. /\ span[s].parent \in SpanOrNone /\ Root(s) \in SpanOrNone
        /\ None \in SpanOrNone /\ Maps(maps)
    BY StateTyped DEF Span, Root, SpanOrNone
  <2>2. kept \in MapType
    BY <2>1, RecordedIs DEF Maps
  <2>. HIDE DEF kept
  <2>. QED
    BY <2>1, <2>2, KeptParentTyped
<1>. HIDE DEF kept, parent
<1>3. /\ row'[s] # None /\ row'[s].parent = parent
      /\ \A r \in Spans \ {s} : row'[r] = row[r]
  <2>1. new \in Row /\ new.parent = parent
    BY <1>2 DEF Row
  <2>2. row' = [row EXCEPT ![s] = new]
    BY <1>1 DEF Logged
  <2>. HIDE DEF new
  <2>. QED
    BY <2>1, <2>2, NoneAssumption DEF TypeOK
<1>4. /\ Grows /\ Rooted' /\ Ranked' /\ \A q \in Spans \ {s} : Kept(q)' => Kept(q)
  <2>1. span[s].kind # "frame"
    BY DEF Models
  <2>. QED
    BY <1>1, <1>3, <2>1, EndedInTree
<1>5. maps'.parents = maps.parents /\ maps'.kept = Newest(Append(maps.kept, s))
  <2>1. None \in SpanOrNone
    BY DEF SpanOrNone
  <2>. QED
    BY <1>1, <2>1, MapsGain DEF kept
<1>6. ParentsTell'
  BY <1>4, <1>5, ParentsStay DEF Tree
<1>7. KeptTell'
  <2>1. ~Kept(s)
    BY DEF Tree, Rooted, Kept, Models
  <2>2. Kept(s)'
    <3>1. span'[s].state = "done" /\ span'[s].kind = span[s].kind
      BY <1>1, EndedIs
    <3>. QED
      BY <1>3, <3>1 DEF Kept, Started
  <2>. QED
    BY <1>4, <1>5, <2>1, <2>2, KeptGain DEF Tree
<1>8. HangStep
  <2>1. ASSUME NothingForgotten
        PROVE  row'[s].parent = IF NearestAbove(s) = None THEN Root(s) ELSE NearestAbove(s)
    <3>1. ClimbMap(kept, s)
      BY DEF ClimbMap, kept
    <3>. QED
      BY <1>3, <2>1, <3>1, SameEnd DEF parent
  <2>. QED
    BY <1>3, <2>1 DEF HangStep
<1>. QED
  BY <1>4, <1>6, <1>7, <1>8 DEF Hung, Tree

\* A block whose span is open is left.
LEMMA InsideHangs ==
  ASSUME TypeOK, NEW t \in Tasks, NEW kinds, Inside(t, kinds)
  PROVE  /\ task[t].stack # <<>> /\ Top(t) \in Spans /\ span[Top(t)].state = "open"
         /\ span[Top(t)].kind \in kinds /\ Ctx(t).list \in SpanOrNone
BY TopIs DEF Inside, Context

\* A scope ends.
LEMMA CloseScopeHung ==
  ASSUME TypeOK, Tree, NEW t \in Tasks, CloseScope(t)
  PROVE  Hung
<1>. DEFINE s == Top(t)
<1>1. /\ Inside(t, {"scope"}) /\ span' = Ended(s) /\ task' = Leave(t)
      /\ row' = Logged(s, span[s].parent, None) /\ maps' = maps
  BY DEF CloseScope
<1>2. /\ task[t].stack # <<>> /\ s \in Spans /\ span[s].state = "open"
      /\ span[s].kind = "scope" /\ Ctx(t).list \in SpanOrNone
  BY <1>1, InsideHangs
<1>3. \A r \in Spans \ {s} : row'[r] = row[r]
  BY <1>1 DEF Logged, TypeOK
<1>4. span[s].kind \notin Models \union {"tool", "frame"}
  BY <1>2 DEF Models
<1>. HIDE DEF s
<1>5. Grows /\ (Curs' /\ HangStep => Hung)
  BY <1>1, <1>2, <1>3, <1>4, EndedAlone
<1>6. Curs'
  BY <1>1, <1>2, <1>5, LeaveInTree
<1>7. HangStep
  BY <1>3, <1>4, NoneHung
<1>. QED
  BY <1>5, <1>6, <1>7

\* A frame ends, without a row.
LEMMA EndFrameHung ==
  ASSUME TypeOK, Tree, NEW t \in Tasks, EndFrame(t)
  PROVE  Hung
<1>. DEFINE s == Top(t)
<1>1. /\ Inside(t, {"frame"}) /\ span' = Ended(s) /\ task' = Leave(t)
      /\ row' = row /\ maps' = maps
  BY DEF EndFrame
<1>2. /\ task[t].stack # <<>> /\ s \in Spans /\ span[s].state = "open"
      /\ span[s].kind = "frame" /\ Ctx(t).list \in SpanOrNone
  BY <1>1, InsideHangs
<1>3. span[s].kind \notin Models /\ row'[s] = None
  BY <1>1, <1>2 DEF Models, Tree, Rooted
<1>. HIDE DEF s
<1>4. Grows /\ (Curs' /\ HangStep => Hung)
  BY <1>1, <1>2, <1>3, EndedAlone
<1>5. Curs'
  BY <1>1, <1>2, <1>4, LeaveInTree
<1>6. HangStep
  BY <1>1, NoneHung
<1>. QED
  BY <1>4, <1>5, <1>6

\* A @tool function returns.
LEMMA ExitFnHung ==
  ASSUME TypeOK, Tree, NEW t \in Tasks, ExitFn(t)
  PROVE  Hung
<1>. DEFINE s  == Top(t)
            id == PoppedId(Ctx(t), span[s].name)
<1>1. /\ Inside(t, {"fn"}) /\ span' = Ended(s) /\ task' = Leave(t)
      /\ row' = Logged(s, ManualParent(Ctx(t)), id) /\ maps' = maps
  BY DEF ExitFn
<1>2. /\ task[t].stack # <<>> /\ s \in Spans /\ span[s].state = "open"
      /\ span[s].kind = "fn" /\ Ctx(t).list \in SpanOrNone
  BY <1>1, InsideHangs
<1>3. \A r \in Spans \ {s} : row'[r] = row[r]
  BY <1>1 DEF Logged, TypeOK
<1>4. span[s].kind \notin Models \union {"tool", "frame"}
  BY <1>2 DEF Models
<1>. HIDE DEF s, id
<1>5. Grows /\ (Curs' /\ HangStep => Hung)
  BY <1>1, <1>2, <1>3, <1>4, EndedAlone
<1>6. Curs'
  BY <1>1, <1>2, <1>5, LeaveInTree
<1>7. HangStep
  BY <1>3, <1>4, NoneHung
<1>. QED
  BY <1>5, <1>6, <1>7

\* A tool's span ends, and its row hangs where it should.
LEMMA EndToolHung ==
  ASSUME TypeOK, Tree, NEW t \in Tasks, EndTool(t)
  PROVE  Hung
<1>. DEFINE s      == Top(t)
            parent == KeptParent(maps, span[s].parent, Root(s))
            id     == PoppedId(Ctx(t), span[s].name)
<1>1. /\ Inside(t, {"tool"}) /\ span' = Ended(s) /\ task' = Leave(t)
      /\ row' = Logged(s, parent, id) /\ maps' = maps
  BY DEF EndTool
<1>2. /\ task[t].stack # <<>> /\ s \in Spans /\ span[s].state = "open"
      /\ span[s].kind = "tool" /\ Ctx(t).list \in SpanOrNone
  BY <1>1, InsideHangs
<1>3. \A r \in Spans \ {s} : row'[r] = row[r]
  BY <1>1 DEF Logged, TypeOK
<1>4. row'[s].parent = parent
  BY <1>1, <1>2 DEF Logged, TypeOK
<1>5. span[s].kind \notin Models /\ span[s].kind # "frame"
  BY <1>2 DEF Models
<1>. HIDE DEF s, id
<1>6. HangStep
  <2>1. ASSUME NothingForgotten
        PROVE  row'[s].parent = IF NearestAbove(s) = None THEN Root(s) ELSE NearestAbove(s)
    <3>1. ClimbMap(maps, s)
      BY DEF ClimbMap
    <3>. QED
      BY <1>2, <1>4, <2>1, <3>1, SameEnd
  <2>. QED
    BY <1>3, <2>1 DEF HangStep
<1>. HIDE DEF parent
<1>7. Grows /\ (Curs' /\ HangStep => Hung)
  BY <1>1, <1>2, <1>3, <1>5, EndedAlone
<1>8. Curs'
  BY <1>1, <1>2, <1>7, LeaveInTree
<1>. QED
  BY <1>6, <1>7, <1>8

\* A model span ends in its block.
LEMMA EndLlmHung ==
  ASSUME TypeOK, Tree, NEW t \in Tasks, EndLlm(t)
  PROVE  Hung
<1>1. /\ Inside(t, {"llm"}) /\ EndModel(Top(t)) /\ task' = Leave(t) /\ TypeOK'
  BY EndLlmTyped DEF EndLlm
<1>2. /\ task[t].stack # <<>> /\ Top(t) \in Spans /\ span[Top(t)].state = "open"
      /\ span[Top(t)].kind \in Models /\ Ctx(t).list \in SpanOrNone
  BY <1>1, InsideHangs DEF Models
<1>3. Grows /\ (Curs' => Hung)
  BY <1>1, <1>2, EndModelHung
<1>4. Curs'
  BY <1>1, <1>2, <1>3, LeaveInTree
<1>. QED
  BY <1>3, <1>4

\* A stream ends, in whatever task.
LEMMA EndStreamHung ==
  ASSUME TypeOK, Tree, NEW t \in Tasks, NEW s \in Spans, EndStream(t, s)
  PROVE  Hung
<1>1. /\ span[s].kind \in Models /\ span[s].state = "open" /\ EndModel(s) /\ task' = task
      /\ TypeOK'
  BY EndStreamTyped DEF EndStream, Models
<1>2. Grows /\ (Curs' => Hung)
  BY <1>1, EndModelHung
<1>3. Curs'
  BY <1>1, <1>2, CurHangs DEF Curs
<1>. QED
  BY <1>2, <1>3

\* A wrapped call returns.
LEMMA ReturnHung ==
  ASSUME TypeOK, Tree, NEW t \in Tasks, NEW reply \in Replies, Return(t, reply)
  PROVE  Hung
<1>. DEFINE list == ListAfter(Ctx(t), Top(t), reply)
<1>1. /\ Inside(t, {"call"}) /\ EndModel(Top(t)) /\ TypeOK'
      /\ task' = [Leave(t) EXCEPT ![t].ctx.list = list]
  BY ReturnTyped DEF Return
<1>2. /\ task[t].stack # <<>> /\ Top(t) \in Spans /\ span[Top(t)].state = "open"
      /\ span[Top(t)].kind \in Models
  BY <1>1, InsideHangs DEF Models
<1>3. list \in SpanOrNone
  BY <1>2 DEF ListAfter, SpanOrNone
<1>. HIDE DEF list
<1>4. Grows /\ (Curs' => Hung)
  BY <1>1, <1>2, EndModelHung
<1>5. Curs'
  BY <1>1, <1>2, <1>3, <1>4, LeaveInTree
<1>. QED
  BY <1>4, <1>5

-------------------------------------------------------------------------------
(* The theorem. *)

\* No span has started: the maps are empty, and nothing is current.
LEMMA InitTree == Init => Tree
<1>. SUFFICES ASSUME Init PROVE Tree
  OBVIOUS
<1>1. PICK program \in Programs :
        span = [s \in Spans |-> [state |-> "new", kind |-> program[s], name |-> None,
                                 parent |-> None, session |-> None, order |-> None]]
  BY DEF Init
<1>2. /\ task = [t \in Tasks |-> [active |-> t = Main, ctx |-> NoContext, stack |-> <<>>]]
      /\ maps = [parents |-> <<>>, kept |-> <<>>]
      /\ row = [s \in Spans |-> None]
  BY DEF Init
<1>3. \A s \in Spans : span[s].state = "new" /\ span[s].parent = None /\ row[s] = None
  BY <1>1, <1>2
<1>4. ParentsTell /\ KeptTell
  <2>1. DOMAIN maps.parents = {} /\ DOMAIN maps.kept = {}
    BY <1>2
  <2>2. \A q \in Spans : ~Kept(q)
    BY <1>3 DEF Kept, Started
  <2>. QED
    BY <2>1, <2>2 DEF ParentsTell, KeptTell
<1>5. Rooted
  BY <1>3 DEF Rooted, Hangs
<1>6. Curs
  <2>1. \A t \in Tasks : task[t].stack = <<>> /\ Ctx(t).cur = None
    BY <1>2 DEF Ctx, NoContext
  <2>2. DOMAIN <<>> = {}
    OBVIOUS
  <2>. QED
    BY <2>1, <2>2 DEF Curs, CurOk, Hangs
<1>7. Ranked
  <2>1. [q \in Spans |-> 0] \in [Spans -> Nat]
    OBVIOUS
  <2>2. \A rank \in [Spans -> Nat] : Ranks(rank)
    BY <1>3 DEF Ranks
  <2>. QED
    BY <2>1, <2>2 DEF Ranked
<1>. QED
  BY <1>4, <1>5, <1>6, <1>7 DEF Tree

\* Every step keeps the tree and hangs rows as HangsUnderNearest says.
LEMMA StepTree == IInv /\ Tree /\ [Next]_vars => Hung
<1>1. ASSUME IInv, Tree, Next PROVE Hung
  <2>0. TypeOK /\ Orders
    BY <1>1 DEF IInv
  <2>1. PICK t \in Tasks :
          \/ \E u \in Tasks : Spawn(t, u)
          \/ \E s \in Spans :
               \/ OpenScope(t, s)
               \/ \E name \in Names \union {None}, detached, ordered \in BOOLEAN :
                    Start(t, s, name, detached, ordered)
               \/ EndStream(t, s)
               \/ Wrap(t, s)
               \/ \E reply \in Replies : Manual(t, s, reply)
               \/ \E name \in Names : EnterFn(t, s, name) \/ AgentsTool(t, s, name)
          \/ CloseScope(t) \/ EndFrame(t) \/ EndTool(t) \/ EndLlm(t)
          \/ Request(t) \/ ExitFn(t)
          \/ \E reply \in Replies : Return(t, reply)
    BY <1>1 DEF Next
  <2>2. CASE \E u \in Tasks : Spawn(t, u)
    BY <1>1, <2>0, <2>2, SpawnHung
  <2>3. CASE \E s \in Spans : OpenScope(t, s)
    BY <1>1, <2>0, <2>3, OpenScopeHung
  <2>4. CASE \E s \in Spans, name \in Names \union {None}, detached, ordered \in BOOLEAN :
               Start(t, s, name, detached, ordered)
    BY <1>1, <2>0, <2>4, StartHung
  <2>5. CASE \E s \in Spans : EndStream(t, s)
    BY <1>1, <2>0, <2>5, EndStreamHung
  <2>6. CASE \E s \in Spans : Wrap(t, s)
    BY <1>1, <2>0, <2>6, WrapHung
  <2>7. CASE \E s \in Spans, reply \in Replies : Manual(t, s, reply)
    BY <1>1, <2>0, <2>7, ManualHung
  <2>8. CASE \E s \in Spans, name \in Names : EnterFn(t, s, name)
    BY <1>1, <2>0, <2>8, EnterFnHung
  <2>9. CASE \E s \in Spans, name \in Names : AgentsTool(t, s, name)
    BY <1>1, <2>0, <2>9, AgentsToolHung
  <2>10. CASE CloseScope(t)
    BY <1>1, <2>0, <2>10, CloseScopeHung
  <2>11. CASE EndFrame(t)
    BY <1>1, <2>0, <2>11, EndFrameHung
  <2>12. CASE EndTool(t)
    BY <1>1, <2>0, <2>12, EndToolHung
  <2>13. CASE EndLlm(t)
    BY <1>1, <2>0, <2>13, EndLlmHung
  <2>14. CASE Request(t)
    BY <1>1, <2>0, <2>14, RequestHung
  <2>15. CASE ExitFn(t)
    BY <1>1, <2>0, <2>15, ExitFnHung
  <2>16. CASE \E reply \in Replies : Return(t, reply)
    BY <1>1, <2>0, <2>16, ReturnHung
  <2>. QED
    BY <2>1, <2>2, <2>3, <2>4, <2>5, <2>6, <2>7, <2>8, <2>9, <2>10, <2>11, <2>12, <2>13,
       <2>14, <2>15, <2>16
<1>2. ASSUME IInv, Tree, UNCHANGED vars PROVE Hung
  <2>1. span' = span /\ task' = task /\ maps' = maps /\ row' = row /\ TypeOK
    BY <1>2 DEF vars, IInv
  <2>2. Grows
    BY <2>1 DEF Grows, Started
  <2>3. Rooted' /\ Ranked'
    BY <1>2, <2>1 DEF Tree, Rooted, Ranked, Ranks, Hangs, Started
  <2>4. Curs'
    BY <1>2, <2>1, <2>2, CurHangs DEF Curs
  <2>5. \A q \in Spans : Kept(q)' => Kept(q)
    BY <2>1 DEF Kept, Started
  <2>. QED
    BY <1>2, <2>1, <2>2, <2>3, <2>4, <2>5, MapsAlone
<1>. QED
  BY <1>1, <1>2

\* As long as the maps have forgotten no span, the row of a model or tool span
\* hangs under the nearest span above it that is, or will be, a row too, or under
\* its session's scope, never under a dropped frame (_resolve_kept_parent).
THEOREM RowsHangNearest == Spec => HangsUnderNearest
<1>1. IInv /\ Tree /\ [Next]_vars => Tree' /\ [HangStep]_vars
  BY StepTree DEF Hung
<1>2. HangsUnderNearest <=> [][HangStep]_vars
  BY DEF HangsUnderNearest, HangStep
<1>3. Spec => []Tree
  BY <1>1, InitTree, SpecInv, PTL DEF Spec
<1>. QED
  BY <1>1, <1>2, <1>3, SpecInv, PTL DEF Spec

===============================================================================
