---------------------------- MODULE RulePackProofs ----------------------------
(* Proofs about RulePack, for every set of rules, tags and calls.            *)
EXTENDS RulePack, WellFoundedInduction, SequenceTheorems, FiniteSetTheorems, TLAPS

-------------------------------------------------------------------------------
(* Deciding on any derived structure. *)

\* A structure as Derive makes it: positions are numbers, and a directive that
\* cannot be gated by entities has no list.
Derived(der) ==
  /\ DOMAIN der.order \subseteq Nat
  /\ \A i \in DOMAIN der.order :
       der.order[i].kind = "UNCONDITIONAL_BLOCK" => der.lists[i] = NoList

\* A set of positions that is not empty has a first one.
LEMMA FirstPosition ==
  ASSUME NEW S \in SUBSET Nat, S # {}
  PROVE  Min(S) \in S /\ \A j \in S : Min(S) <= j
<1> DEFINE R == OpToRel(<, Nat)
<1>1. \A i, j \in Nat : <<j, i>> \in R <=> j < i
  BY DEF OpToRel
<1>2. IsWellFoundedOn(R, Nat)
  BY NatLessThanWellFounded
<1> HIDE DEF R
<1>3. PICK i \in S : \A j \in S : ~ (<<j, i>> \in R)
  BY <1>2, WFMin
<1>4. \A j \in S : i <= j
  <2> TAKE j \in S
  <2>1. i \in Nat /\ j \in Nat /\ ~ (<<j, i>> \in R)
    BY <1>3
  <2>2. ~(j < i)
    BY <1>1, <2>1
  <2>3. QED
    BY <2>1, <2>2
<1>5. QED
  BY <1>4 DEF Min

\* If the passes stop nowhere, no directive in force acts.
LEMMA NoneDecides ==
  ASSUME NEW der, NEW call, Derived(der), Deciding(der, call) = {}
  PROVE  \A kind : Acting(der, kind, call) = {}
<1> DEFINE acting(kind) == Acting(der, kind, call)
           live == {p \in DOMAIN Passes : acting(Passes[p]) # {}}
<1>1. \A kind : /\ acting(kind) \in SUBSET Nat
                /\ \A i \in acting(kind) : i \in DOMAIN der.order /\ der.order[i].kind = kind
  BY DEF Derived, Acting, InForce, Hits
<1>2. DOMAIN Passes \subseteq Nat /\ \A p, q \in DOMAIN Passes : Passes[p] = Passes[q] => p = q
  BY DEF Passes
<1> HIDE DEF acting
<1>3. live = {}
  <2> SUFFICES ASSUME live # {} PROVE FALSE
    OBVIOUS
  <2> DEFINE p == Min(live)
             i == Min(acting(Passes[p]))
  <2>1. p \in live /\ \A q \in live : p <= q
    BY <1>2, FirstPosition
  <2>2. p \in DOMAIN Passes /\ acting(Passes[p]) # {}
    BY <2>1
  <2>3. i \in acting(Passes[p])
    BY <1>1, <2>2, FirstPosition
  <2>4. i \in DOMAIN der.order /\ der.order[i].kind = Passes[p]
    BY <1>1, <2>3
  <2> HIDE DEF p
  <2>5. \A q, r \in DOMAIN Passes : Passes[p] = Passes[r] /\ q < r => acting(Passes[q]) = {}
    BY <1>2, <2>1, <2>2
  <2>6. i = Min(acting(der.order[i].kind)) /\ i \in acting(der.order[i].kind)
    BY <2>3, <2>4
  <2> HIDE DEF i
  <2>7. i \in Deciding(der, call)
    BY <2>4, <2>5, <2>6 DEF Deciding, acting
  <2>8. QED
    BY <2>7
<1>4. ASSUME NEW kind, acting(kind) # {} PROVE FALSE
  <2> DEFINE i == Min(acting(kind))
  <2>1. i \in acting(kind)
    BY <1>1, <1>4, FirstPosition
  <2>2. i \in DOMAIN der.order /\ der.order[i].kind = kind
    BY <1>1, <2>1
  <2>3. i = Min(acting(der.order[i].kind)) /\ i \in acting(der.order[i].kind)
    BY <2>1, <2>2
  <2> HIDE DEF i
  <2>4. \A q \in DOMAIN Passes : acting(Passes[q]) = {}
    BY <1>3
  <2>5. i \in Deciding(der, call)
    BY <2>2, <2>3, <2>4 DEF Deciding, acting
  <2>6. QED
    BY <2>5
<1>5. QED
  BY <1>4 DEF acting

\* An allowed call without an armable miss stays allowed when tags are armed on
\* any of the lists.
LEMMA ArmingChangesNothing ==
  ASSUME NEW der, NEW call, NEW longer,
         Derived(der),
         longer.order = der.order, longer.loops = der.loops,
         \A i \in DOMAIN der.order : der.lists[i] = NoList => longer.lists[i] = NoList,
         Decision(der, call).status = "allowed", ~ArmableMiss(der, call)
  PROVE  Decision(longer, call).status = "allowed"
<1>1. call.trace \notin der.loops /\ Deciding(der, call) = {}
  BY DEF Decision, Verdict, Outcome
<1>2. \A kind : Acting(der, kind, call) = {}
  BY <1>1, NoneDecides
<1>3. ASSUME NEW i \in Deciding(longer, call) PROVE FALSE
  <2> DEFINE d == der.order[i]
  <2>1. i \in DOMAIN der.order /\ i \in Acting(longer, d.kind, call)
    BY <1>3 DEF Deciding
  <2>2. /\ d.mode = "enforce" /\ Selected(d, call)
        /\ d.kind = "REROUTE" => Servable(d, call) /\ ~Noop(call.model, d.to.model)
    BY <2>1 DEF Acting, InForce, Hits
  <2>3. Listed(der.lists[i], call)
    <3>1. CASE d.kind = "UNCONDITIONAL_BLOCK"
      BY <2>1, <3>1 DEF Derived, Listed
    <3>2. CASE d.kind # "UNCONDITIONAL_BLOCK"
      BY <2>1, <2>2, <3>2 DEF ArmableMiss
    <3>3. QED
      BY <3>1, <3>2
  <2>4. i \in Acting(der, d.kind, call)
    BY <2>1, <2>2, <2>3 DEF Acting, InForce, Hits
  <2>5. QED
    BY <1>2, <2>4
<1>4. QED
  BY <1>1, <1>3 DEF Decision, Verdict

-------------------------------------------------------------------------------
(* Types. *)

\* Sequence facts about the operations of a delta.
LEMMA ListOps ==
  ASSUME NEW s \in Seq(Directive)
  PROVE  /\ \A d \in Directive : Append(s, d) \in Seq(Directive)
         /\ \A i \in DOMAIN s : /\ RemoveAt(s, i) \in Seq(Directive)
                                /\ s[i] \in Directive
                                /\ \A d \in Directive : [s EXCEPT ![i] = d] \in Seq(Directive)
         /\ Len(s) \in Nat /\ DOMAIN s = 1 .. Len(s)
<1>1. Len(s) \in Nat /\ DOMAIN s = 1 .. Len(s)
  BY LenProperties
<1>2. \A d \in Directive : Append(s, d) \in Seq(Directive)
  BY AppendProperties
<1>3. ASSUME NEW i \in DOMAIN s
      PROVE  /\ RemoveAt(s, i) \in Seq(Directive) /\ s[i] \in Directive
             /\ \A d \in Directive : [s EXCEPT ![i] = d] \in Seq(Directive)
  <2>1. i \in 1 .. Len(s)
    BY <1>1, <1>3
  <2>2. SubSeq(s, 1, i - 1) \in Seq(Directive) /\ SubSeq(s, i + 1, Len(s)) \in Seq(Directive)
    BY <1>1, <2>1, SubSeqProperties
  <2>3. RemoveAt(s, i) \in Seq(Directive)
    BY <2>2, ConcatProperties DEF RemoveAt
  <2>4. s[i] \in Directive
    BY <2>1, ElementOfSeq
  <2>5. \A d \in Directive : [s EXCEPT ![i] = d] \in Seq(Directive)
    BY <2>1, ExceptSeq
  <2>6. QED
    BY <2>3, <2>4, <2>5
<1>4. QED
  BY <1>1, <1>2, <1>3

\* An index built afresh points at every listed rule.
LEMMA IndexBuilt ==
  ASSUME NEW s \in Seq(Directive)
  PROVE  /\ Known(Range(s)) \in SUBSET Ids
         /\ Index(s) \in [Known(Range(s)) -> Nat]
         /\ PointsAtRules(Index(s), s)
<1>1. \A i \in DOMAIN s : s[i] \in Directive
  BY ListOps
<1>2. Known(Range(s)) \in SUBSET Ids
  BY <1>1 DEF Known, Range, Directive
<1>3. \A id \in Known(Range(s)) : \E i \in DOMAIN s : s[i].id = id
  BY DEF Known, Range
<1>4. \A id \in Known(Range(s)) :
        Index(s)[id] \in DOMAIN s /\ s[Index(s)[id]].id = id
  BY <1>3 DEF Index, Known
<1>5. DOMAIN s \subseteq Nat
  BY ListOps
<1>6. Index(s) = [id \in Known(Range(s)) |-> Index(s)[id]]
  BY DEF Index, Known
<1>7. QED
  BY <1>2, <1>4, <1>5, <1>6 DEF PointsAtRules

\* An old index still does after a listed directive was replaced by one of the
\* same rule.
LEMMA IndexKept ==
  ASSUME NEW s \in Seq(Directive), NEW index, PointsAtRules(index, s),
         NEW at \in DOMAIN s, NEW d \in Directive, d.id = s[at].id
  PROVE  PointsAtRules(index, [s EXCEPT ![at] = d])
<1> DEFINE t == [s EXCEPT ![at] = d]
<1>1. DOMAIN t = DOMAIN s /\ \A i \in DOMAIN s : t[i].id = s[i].id
  OBVIOUS
<1> HIDE DEF t
<1>2. Known(Range(t)) = Known(Range(s))
  BY <1>1 DEF Known, Range
<1>3. PointsAtRules(index, t)
  BY <1>1, <1>2 DEF PointsAtRules
<1>4. QED
  BY <1>3 DEF t

\* The invariant: types, a true index, a finite tenant, and structures derived
\* from the very pack they are attached to.
Fresh == pack.derived = Derive(pack.directives, pack.loops)
Finite == /\ IsFiniteSet(truth.rules)
          /\ work # None => IsFiniteSet(work.said.rules)
IInv == TypeOK /\ IndexPointsAtRule /\ Finite /\ Fresh

\* What an operation leaves behind is a delta in progress again.
LEMMA OpTyped ==
  ASSUME IInv, NEW directives \in Seq(Directive), NEW ids \in SUBSET Ids,
         NEW index \in [ids -> Nat], PointsAtRules(index, directives),
         NEW loops \in SUBSET Traces,
         NEW said \in Truth, IsFiniteSet(said.rules), work # None,
         Op([work EXCEPT !.directives = directives, !.index = index, !.loops = loops],
            said)
  PROVE  IInv'
<1>1. PICK old \in SUBSET Ids : work \in WorkOn(old)
  BY DEF IInv, TypeOK
<1> DEFINE new == [work EXCEPT !.directives = directives, !.index = index,
                               !.loops = loops, !.said = said, !.left = work.left - 1]
<1>2. work.left - 1 \in 0 .. MaxOps
  BY <1>1, DraftsAssumption DEF Op, WorkOn
<1>3. /\ new \in WorkOn(ids) /\ new.directives = directives /\ new.index = index
      /\ new.said = said
  BY <1>1, <1>2 DEF WorkOn
<1>4. work' = new /\ UNCHANGED <<pack, healthy, truth>>
  BY <1>1 DEF Op, WorkOn
<1> HIDE DEF new
<1>5. QED
  BY <1>3, <1>4 DEF IInv, TypeOK, IndexPointsAtRule, Finite, Fresh

\* The parts of a delta in progress.
LEMMA WorkTyped ==
  ASSUME IInv, work # None
  PROVE  /\ work.directives \in Seq(Directive) /\ work.loops \in SUBSET Traces
         /\ work.said \in Truth /\ IsFiniteSet(work.said.rules)
         /\ DOMAIN work.index \in SUBSET Ids
         /\ work.index \in [DOMAIN work.index -> Nat]
         /\ PointsAtRules(work.index, work.directives)
         /\ work = [work EXCEPT !.directives = work.directives]
         /\ work = [work EXCEPT !.index = work.index, !.loops = work.loops]
BY DEF IInv, TypeOK, WorkOn, Finite, IndexPointsAtRule

\* What the service has after an edit.
LEMMA SaidEdited ==
  ASSUME IInv, work # None, NEW id \in Ids, NEW draft \in Drafts
  PROVE  LET kept == Kept(id, draft)
             said == [work.said EXCEPT !.rules =
                        {r \in @ : r.id # id} \union {Drafted(id, draft, kept)}]
         IN  /\ \A list \in {kept, NoList} : /\ Drafted(id, draft, list) \in Directive
                                             /\ Drafted(id, draft, list).id = id
             /\ said \in Truth /\ IsFiniteSet(said.rules)
<1> DEFINE kept  == Kept(id, draft)
           new   == Drafted(id, draft, kept)
           rules == {r \in work.said.rules : r.id # id} \union {new}
<1>1. work.said \in Truth /\ IsFiniteSet(work.said.rules)
  BY WorkTyped
<1>2. kept \in Lists
  <2> DEFINE was == {d \in work.said.rules : d.id = id /\ d.kind = draft.kind
                                             /\ d.entities # NoList}
  <2>1. \A d \in was : d.entities \in Lists
    BY <1>1 DEF Truth, Directive
  <2>2. kept = IF ~draft.gated THEN NoList
               ELSE IF was = {} THEN {} ELSE (CHOOSE d \in was : TRUE).entities
    BY DEF Kept
  <2>3. NoList \in Lists /\ {} \in Lists
    BY DEF Lists
  <2> HIDE DEF was
  <2>4. QED
    BY <2>1, <2>2, <2>3
<1>3. \A list \in Lists : /\ Drafted(id, draft, list) \in Directive
                          /\ Drafted(id, draft, list).id = id
  BY DraftsAssumption DEF Drafted, Directive
<1>4. NoList \in Lists
  BY DEF Lists
<1> HIDE DEF kept
<1>5. new \in Directive
  BY <1>2, <1>3
<1> HIDE DEF new
<1>6. rules \in SUBSET Directive
  BY <1>1, <1>5 DEF Truth
<1>7. IsFiniteSet(rules)
  <2>1. IsFiniteSet({r \in work.said.rules : r.id # id})
    BY <1>1, FS_Subset
  <2>2. QED
    BY <2>1, FS_AddElement
<1> HIDE DEF rules
<1>8. /\ [work.said EXCEPT !.rules = rules] \in Truth
      /\ [work.said EXCEPT !.rules = rules].rules = rules
  BY <1>1, <1>6 DEF Truth
<1>9. QED
  BY <1>2, <1>3, <1>4, <1>7, <1>8 DEF kept, new, rules

\* An edit.
LEMMA UpsertTyped ==
  ASSUME IInv, NEW id \in Ids, NEW draft \in Drafts, NEW listed \in BOOLEAN,
         Upsert(id, draft, listed)
  PROVE  IInv'
<1> DEFINE kept == Kept(id, draft)
           d    == Drafted(id, draft, IF listed THEN kept ELSE NoList)
           said == [work.said EXCEPT !.rules =
                      {r \in @ : r.id # id} \union {Drafted(id, draft, kept)}]
           at   == work.index[id]
           c    == Carried(work.directives[at], d)
           longer == Append(work.directives, d)
<1>1. work # None
  BY DEF Upsert
<1>2. d \in Directive /\ d.id = id /\ said \in Truth /\ IsFiniteSet(said.rules)
  BY <1>1, SaidEdited
<1>3. \/ /\ id \in DOMAIN work.index
         /\ Op([work EXCEPT !.directives[at] = Carried(@, d)], said)
      \/ Op([work EXCEPT !.directives = longer, !.index = Index(longer)], said)
  BY DEF Upsert
<1> HIDE DEF d, said
<1>4. CASE id \in DOMAIN work.index /\ Op([work EXCEPT !.directives[at] = Carried(@, d)], said)
  <2>1. at \in DOMAIN work.directives /\ work.directives[at].id = id
    BY <1>1, <1>4, WorkTyped DEF PointsAtRules
  <2>2. work.directives[at] \in Directive
    BY <1>1, <2>1, WorkTyped, ListOps
  <2>3. c \in Directive /\ c.id = id
    BY <1>2, <2>2 DEF Carried, Directive
  <2> DEFINE list == [work.directives EXCEPT ![at] = c]
  <2>4. [work EXCEPT !.directives[at] = Carried(@, d)] =
          [work EXCEPT !.directives = list, !.index = work.index, !.loops = work.loops]
    BY <1>1, WorkTyped DEF IInv, TypeOK, WorkOn
  <2> HIDE DEF c, at
  <2>5. list \in Seq(Directive) /\ PointsAtRules(work.index, list)
    BY <1>1, <2>1, <2>3, WorkTyped, ListOps, IndexKept
  <2> HIDE DEF list
  <2>6. Op([work EXCEPT !.directives = list, !.index = work.index, !.loops = work.loops],
           said)
    BY <1>4, <2>4 DEF at
  <2>7. QED
    BY <1>1, <1>2, <2>5, <2>6, WorkTyped, OpTyped
<1>5. CASE Op([work EXCEPT !.directives = longer, !.index = Index(longer)], said)
  <2>1. longer \in Seq(Directive)
    BY <1>1, <1>2, WorkTyped, ListOps
  <2> HIDE DEF longer
  <2>2. [work EXCEPT !.directives = longer, !.index = Index(longer)] =
          [work EXCEPT !.directives = longer, !.index = Index(longer), !.loops = work.loops]
    BY <1>1, WorkTyped DEF IInv, TypeOK, WorkOn
  <2>3. Op([work EXCEPT !.directives = longer, !.index = Index(longer),
                        !.loops = work.loops], said)
    BY <1>5, <2>2
  <2>4. /\ Known(Range(longer)) \in SUBSET Ids
        /\ Index(longer) \in [Known(Range(longer)) -> Nat]
        /\ PointsAtRules(Index(longer), longer)
    BY <2>1, IndexBuilt
  <2>5. QED
    BY <1>1, <1>2, <2>1, <2>3, <2>4, WorkTyped, OpTyped
<1>6. QED
  BY <1>3, <1>4, <1>5

\* A removal.
LEMMA RemoveTyped ==
  ASSUME IInv, NEW id \in Ids, RemoveRule(id)
  PROVE  IInv'
<1> DEFINE rest  == RemoveAt(work.directives, work.index[id])
           rules == {r \in work.said.rules : r.id # id}
           said  == [work.said EXCEPT !.rules = rules]
<1>1. work # None /\ id \in DOMAIN work.index /\ Op(Without(work, id), said)
  BY DEF RemoveRule
<1>2. rest \in Seq(Directive)
  BY <1>1, WorkTyped, ListOps DEF PointsAtRules
<1>3. Without(work, id) = [work EXCEPT !.directives = rest, !.index = Index(rest)]
  BY DEF Without
<1> HIDE DEF rest
<1>4. [work EXCEPT !.directives = rest, !.index = Index(rest)] =
        [work EXCEPT !.directives = rest, !.index = Index(rest), !.loops = work.loops]
  BY <1>1, WorkTyped DEF IInv, TypeOK, WorkOn
<1>5. said \in Truth /\ IsFiniteSet(said.rules)
  <2>1. rules \in SUBSET Directive /\ IsFiniteSet(rules)
    BY <1>1, WorkTyped, FS_Subset DEF Truth
  <2> HIDE DEF rules
  <2>2. QED
    BY <1>1, <2>1, WorkTyped DEF Truth
<1> HIDE DEF said
<1>6. Op([work EXCEPT !.directives = rest, !.index = Index(rest), !.loops = work.loops],
         said)
  BY <1>1, <1>3, <1>4
<1>7. /\ Known(Range(rest)) \in SUBSET Ids /\ Index(rest) \in [Known(Range(rest)) -> Nat]
      /\ PointsAtRules(Index(rest), rest)
  BY <1>2, IndexBuilt
<1>8. QED
  BY <1>1, <1>2, <1>5, <1>6, <1>7, WorkTyped, OpTyped

\* An arming or disarming.
LEMMA ArmTyped ==
  ASSUME IInv, NEW id \in Ids, NEW tag \in Tags, NEW on \in BOOLEAN, Arm(id, tag, on)
  PROVE  IInv'
<1> DEFINE entities(d) ==
             LET list == IF d.entities = NoList THEN {} ELSE d.entities
             IN  IF on THEN list \union {tag} ELSE list \ {tag}
           change(d) == [d EXCEPT !.entities = entities(d)]
           at    == work.index[id]
           list  == [work.directives EXCEPT ![at] = change(work.directives[at])]
           rules == {IF r.id = id THEN change(r) ELSE r : r \in work.said.rules}
           said  == [work.said EXCEPT !.rules = rules]
<1>1. /\ work # None /\ id \in DOMAIN work.index
      /\ Op([work EXCEPT !.directives[at] = change(@)], said)
  BY DEF Arm
<1>2. ASSUME NEW d \in Directive
      PROVE  change(d) \in Directive /\ change(d).id = d.id
  <2>1. entities(d) \in Lists
    BY DEF Directive, Lists
  <2> HIDE DEF entities
  <2>2. QED
    BY <2>1 DEF Directive
<1>3. [work EXCEPT !.directives[at] = change(@)] =
        [work EXCEPT !.directives = list, !.index = work.index, !.loops = work.loops]
  BY <1>1, WorkTyped DEF IInv, TypeOK, WorkOn
<1> HIDE DEF change, entities
<1>4. at \in DOMAIN work.directives /\ work.directives[at] \in Directive
  BY <1>1, WorkTyped, ListOps DEF PointsAtRules
<1> HIDE DEF at
<1>5. list \in Seq(Directive) /\ PointsAtRules(work.index, list)
  BY <1>1, <1>2, <1>4, WorkTyped, ListOps, IndexKept
<1>6. said \in Truth /\ IsFiniteSet(said.rules)
  <2>1. rules \in SUBSET Directive
    BY <1>1, <1>2, WorkTyped DEF Truth
  <2>2. IsFiniteSet(rules)
    <3> DEFINE f == [r \in work.said.rules |-> IF r.id = id THEN change(r) ELSE r]
    <3>1. f \in Surjection(work.said.rules, rules)
      BY DEF Surjection
    <3>2. QED
      BY <1>1, <3>1, WorkTyped, FS_Surjection DEF ExistsSurjection
  <2> HIDE DEF rules
  <2>3. QED
    BY <1>1, <2>1, <2>2, WorkTyped DEF Truth
<1> HIDE DEF list, said
<1>7. Op([work EXCEPT !.directives = list, !.index = work.index, !.loops = work.loops],
         said)
  BY <1>1, <1>3
<1>8. QED
  BY <1>1, <1>5, <1>6, <1>7, WorkTyped, OpTyped

\* A loop block set or lifted.
LEMMA LoopTyped ==
  ASSUME IInv, NEW trace \in Traces, NEW on \in BOOLEAN, Loop(trace, on)
  PROVE  IInv'
<1> DEFINE change(loops) == IF on THEN loops \union {trace} ELSE loops \ {trace}
           loops == change(work.loops)
           said  == [work.said EXCEPT !.loops = change(work.said.loops)]
<1>1. work # None /\ Op([work EXCEPT !.loops = loops], said)
  BY DEF Loop
<1>2. \A l \in SUBSET Traces : change(l) \in SUBSET Traces
  OBVIOUS
<1> HIDE DEF change
<1>3. loops \in SUBSET Traces
  BY <1>1, <1>2, WorkTyped
<1>4. said \in Truth /\ IsFiniteSet(said.rules)
  <2>1. change(work.said.loops) \in SUBSET Traces
    BY <1>1, <1>2, WorkTyped DEF Truth
  <2>2. QED
    BY <1>1, <2>1, WorkTyped DEF Truth
<1> HIDE DEF loops, said
<1>5. [work EXCEPT !.loops = loops] =
        [work EXCEPT !.directives = work.directives, !.index = work.index, !.loops = loops]
  BY <1>1, WorkTyped DEF IInv, TypeOK, WorkOn
<1>6. QED
  BY <1>1, <1>3, <1>4, <1>5, WorkTyped, OpTyped

\* A snapshot lists the service's rules in some order.
LEMMA SnapshotTyped ==
  ASSUME IInv, ApplySnapshot PROVE IInv'
<1>1. PICK directives \in SetToSeqs(truth.rules) :
        pack' = [directives |-> directives, loops |-> truth.loops,
                 derived |-> Derive(directives, truth.loops)]
  BY DEF ApplySnapshot
<1>2. directives \in Seq(Directive)
  <2>1. directives \in [1 .. Cardinality(truth.rules) -> truth.rules]
    BY DEF SetToSeqs
  <2>2. Cardinality(truth.rules) \in Nat /\ truth.rules \subseteq Directive
    BY FS_CardinalityType DEF IInv, Finite, TypeOK, Truth
  <2>3. directives \in [1 .. Cardinality(truth.rules) -> Directive]
    BY <2>1, <2>2
  <2>4. QED
    BY <2>2, <2>3, SeqDef
<1>3. healthy' = TRUE /\ UNCHANGED <<work, truth>> /\ truth \in Truth
  BY DEF ApplySnapshot, IInv, TypeOK
<1>4. QED
  BY <1>1, <1>2, <1>3 DEF IInv, TypeOK, IndexPointsAtRule, Finite, Fresh, Truth

\* A delta starts from copies of the pack's lists.
LEMMA BeginTyped ==
  ASSUME IInv, BeginDelta PROVE IInv'
<1> DEFINE ids == Known(Range(pack.directives))
<1>1. /\ pack.directives \in Seq(Directive) /\ pack.loops \subseteq Traces
      /\ truth \in Truth /\ IsFiniteSet(truth.rules) /\ MaxOps \in Nat
  BY DraftsAssumption DEF IInv, TypeOK, Finite
<1>2. /\ ids \in SUBSET Ids /\ Index(pack.directives) \in [ids -> Nat]
      /\ PointsAtRules(Index(pack.directives), pack.directives)
  BY <1>1, IndexBuilt
<1> HIDE DEF ids
<1>3. /\ work' = [directives |-> pack.directives, index |-> Index(pack.directives),
                  loops |-> pack.loops, said |-> truth, left |-> MaxOps]
      /\ UNCHANGED <<pack, healthy, truth>>
  BY DEF BeginDelta
<1>4. work' \in WorkOn(ids)
  BY <1>1, <1>2, <1>3 DEF WorkOn
<1>5. QED
  BY <1>1, <1>2, <1>3, <1>4 DEF IInv, TypeOK, IndexPointsAtRule, Finite, Fresh

\* A delta ends by replacing the pack, or by poisoning it.
LEMMA EndTyped ==
  ASSUME IInv, Commit \/ Poison PROVE IInv'
<1>1. /\ work # None /\ truth' = work.said /\ work' = None
      /\ healthy' \in BOOLEAN
  BY DEF Commit, Poison, IInv, TypeOK
<1>2. /\ pack'.directives \in Seq(Directive) /\ pack'.loops \subseteq Traces
      /\ pack'.derived = Derive(pack'.directives, pack'.loops)
  <2>1. CASE Commit
    BY <1>1, <2>1, WorkTyped DEF Commit, Committed
  <2>2. CASE Poison
    BY <2>2, EmptySeq DEF Poison, NoPack
  <2>3. QED
    BY <2>1, <2>2
<1>3. QED
  BY <1>1, <1>2, WorkTyped DEF IInv, TypeOK, IndexPointsAtRule, Finite, Fresh

\* The invariant holds in the beginning, and every step keeps it.
LEMMA Inductive == (Init => IInv) /\ (IInv /\ [Next]_vars => IInv')
<1>1. ASSUME Init PROVE IInv
  <2>1. pack = NoPack /\ healthy = FALSE /\ work = None
        /\ truth = [rules |-> {}, loops |-> {}]
    BY <1>1 DEF Init
  <2>2. /\ pack.directives = <<>> /\ pack.loops = {}
        /\ pack.derived = Derive(pack.directives, pack.loops)
    BY <2>1 DEF NoPack
  <2>3. QED
    BY <2>1, <2>2, EmptySeq, FS_EmptySet
    DEF IInv, TypeOK, IndexPointsAtRule, Finite, Fresh, Truth
<1>2. ASSUME IInv, [Next]_vars PROVE IInv'
  <2>1. CASE UNCHANGED vars
    BY <1>2, <2>1 DEF vars, IInv, TypeOK, IndexPointsAtRule, Finite, Fresh
  <2>2. CASE ApplySnapshot
    BY <1>2, <2>2, SnapshotTyped
  <2>3. CASE BeginDelta
    BY <1>2, <2>3, BeginTyped
  <2>4. CASE Poison \/ Commit
    BY <1>2, <2>4, EndTyped
  <2>5. ASSUME NEW id \in Ids, NEW draft \in Drafts, NEW listed \in BOOLEAN,
               Upsert(id, draft, listed)
        PROVE  IInv'
    BY <1>2, <2>5, UpsertTyped
  <2>6. ASSUME NEW id \in Ids, RemoveRule(id) PROVE IInv'
    BY <1>2, <2>6, RemoveTyped
  <2>7. ASSUME NEW id \in Ids, NEW tag \in Tags, NEW on \in BOOLEAN, Arm(id, tag, on)
        PROVE  IInv'
    BY <1>2, <2>7, ArmTyped
  <2>8. ASSUME NEW trace \in Traces, NEW on \in BOOLEAN, Loop(trace, on) PROVE IInv'
    BY <1>2, <2>8, LoopTyped
  <2>9. QED
    BY <1>2, <2>1, <2>2, <2>3, <2>4, <2>5, <2>6, <2>7, <2>8 DEF Next
<1>3. QED
  BY <1>1, <1>2

-------------------------------------------------------------------------------
(* The theorems. *)

\* Whatever deltas and snapshots arrive, pack and delta keep their types.
THEOREM RulesTypeCorrect == Spec => []TypeOK
<1>1. IInv => TypeOK
  BY DEF IInv
<1>2. QED
  BY <1>1, Inductive, PTL DEF Spec

\* For deltas of any length over any number of rules, the position index that
\* apply_deltas keeps by hand knows exactly the listed rules and points at each.
THEOREM IndexAlwaysPoints == Spec => []IndexPointsAtRule
<1>1. IInv => IndexPointsAtRule
  BY DEF IInv
<1>2. QED
  BY <1>1, Inductive, PTL DEF Spec

\* Whatever rules the pack holds, a call that is allowed without an armable miss
\* stays allowed under any further arming: the stale-stream gate may trust it.
THEOREM MissAlwaysSound == Spec => []MissIsSound
<1>1. ASSUME IInv PROVE MissIsSound
  <2> DEFINE der == pack.derived
  <2>1. Derived(der)
    <3>1. Len(pack.directives) \in Nat
      BY <1>1, LenProperties DEF IInv, TypeOK
    <3>2. DOMAIN der.order = 1 .. Len(pack.directives)
      BY <1>1 DEF IInv, Fresh, Derive, Sorted
    <3>3. \A i \in DOMAIN der.order : der.lists[i] = EntitySet(der.order[i])
      BY <1>1 DEF IInv, Fresh, Derive
    <3>4. QED
      BY <3>1, <3>2, <3>3 DEF Derived, EntitySet
  <2> SUFFICES ASSUME NEW call \in Calls,
                      Decision(der, call).status = "allowed", ~ArmableMiss(der, call),
                      NEW armed \in SUBSET (DOMAIN der.order)
               PROVE  LET lists == [i \in DOMAIN der.order |->
                                      IF i \in armed /\ der.lists[i] # NoList
                                      THEN der.lists[i] \union {call.tag}
                                      ELSE der.lists[i]]
                      IN  Decision([der EXCEPT !.lists = lists], call).status = "allowed"
    BY DEF MissIsSound
  <2> DEFINE lists == [i \in DOMAIN der.order |->
                         IF i \in armed /\ der.lists[i] # NoList
                         THEN der.lists[i] \union {call.tag} ELSE der.lists[i]]
             longer == [der EXCEPT !.lists = lists]
  <2>2. longer.order = der.order /\ longer.loops = der.loops /\ longer.lists = lists
    BY <1>1 DEF IInv, Fresh, Derive
  <2>3. \A i \in DOMAIN der.order : der.lists[i] = NoList => lists[i] = NoList
    OBVIOUS
  <2> HIDE DEF lists, longer, der
  <2>4. Decision(longer, call).status = "allowed"
    BY <2>1, <2>2, <2>3, ArmingChangesNothing
  <2>5. QED
    BY <2>4 DEF longer, lists
<1>2. QED
  BY <1>1, Inductive, PTL DEF Spec

-------------------------------------------------------------------------------
(* The evaluation order.                                                     *)

\* No rule is in a list twice.
Distinct(s) == \A i, j \in DOMAIN s : s[i].id = s[j].id => i = j

\* The order of directives is strict and total.
LEMMA BeforeIs ==
  ASSUME NEW d \in Directive, NEW e \in Directive, NEW f \in Directive
  PROVE  /\ ~Before(d, d)
         /\ ~(Before(d, e) /\ Before(e, d))
         /\ Before(d, e) /\ Before(e, f) => Before(d, f)
         /\ Before(d, e) \/ Before(e, d) \/ d.id = e.id
<1>1. /\ d.priority \in Nat /\ e.priority \in Nat /\ f.priority \in Nat
      /\ d.id \in Nat /\ e.id \in Nat /\ f.id \in Nat
  BY DraftsAssumption DEF Directive
<1>2. QED
  BY <1>1 DEF Before

\* _sorted_directives lists every directive once, and i stands before j exactly
\* if its directive comes before j's.
LEMMA SortedIs ==
  ASSUME NEW s \in Seq(Directive), Distinct(s), NEW order, order = Sorted(s)
  PROVE  /\ DOMAIN order = 1 .. Len(s) /\ Len(s) \in Nat
         /\ \A i \in DOMAIN order : order[i] \in Range(s)
         /\ \A d \in Range(s) : \E i \in DOMAIN order : order[i] = d
         /\ \A i, j \in DOMAIN order : Before(order[i], order[j]) <=> i < j
<1> DEFINE n == Len(s)
           R == Range(s)
           below(d) == {e \in R : Before(e, d)}
           rank(d)  == Cardinality(below(d))
           ranks    == [d \in R |-> rank(d)]
<1>1. n \in Nat /\ DOMAIN s = 1 .. n /\ \A i \in 1 .. n : s[i] \in Directive
  BY ListOps
<1>2. R \subseteq Directive /\ \A d, e \in R : d.id = e.id => d = e
  BY <1>1 DEF Range, Distinct
<1>3. IsFiniteSet(R) /\ Cardinality(R) = n
  <2>1. s \in Bijection(1 .. n, R)
    BY <1>1 DEF Bijection, Injection, Surjection, IsInjective, Range, Distinct
  <2>2. ExistsBijection(1 .. n, R)
    BY <2>1 DEF ExistsBijection
  <2> HIDE DEF R, n
  <2>3. QED
    BY <1>1, <2>2, FS_CountingElements, FS_NatBijection
<1> HIDE DEF R, n
<1>4. \A d \in R : IsFiniteSet(below(d)) /\ rank(d) \in Nat /\ rank(d) <= n
  <2>1. ASSUME NEW d \in R
        PROVE  IsFiniteSet(below(d)) /\ rank(d) \in Nat /\ rank(d) <= n
    <3>1. below(d) \in SUBSET R
      OBVIOUS
    <3> HIDE DEF below
    <3>2. QED
      BY <1>3, <3>1, FS_Subset, FS_CardinalityType
  <2>2. QED
    BY <2>1
<1>5. \A d \in R : rank(d) \in 0 .. n - 1
  <2>1. ASSUME NEW d \in R PROVE rank(d) # n
    <3>1. below(d) \in SUBSET R /\ d \notin below(d)
      BY <1>2, BeforeIs
    <3> HIDE DEF below
    <3>2. QED
      BY <1>3, <3>1, FS_Subset
  <2>2. ASSUME NEW d \in R PROVE rank(d) \in 0 .. n - 1
    <3>1. rank(d) \in Nat /\ rank(d) <= n /\ rank(d) # n /\ n \in Nat
      BY <1>1, <1>4, <2>1
    <3> HIDE DEF rank
    <3>2. QED
      BY <3>1
  <2>3. QED
    BY <2>2
<1>6. \A d, e \in R : Before(d, e) => rank(d) < rank(e)
  <2>1. ASSUME NEW d \in R, NEW e \in R, Before(d, e) PROVE rank(d) < rank(e)
    <3>1. below(d) \in SUBSET below(e)
      BY <1>2, <2>1, BeforeIs
    <3>2. d \in below(e) /\ d \notin below(d)
      BY <1>2, <2>1, BeforeIs
    <3>3. IsFiniteSet(below(e)) /\ rank(d) \in Nat /\ rank(e) \in Nat
      BY <1>4
    <3> HIDE DEF below
    <3>4. rank(d) <= rank(e) /\ rank(d) # rank(e)
      BY <3>1, <3>2, <3>3, FS_Subset
    <3> HIDE DEF rank
    <3>5. QED
      BY <3>3, <3>4
  <2>2. QED
    BY <2>1
<1> HIDE DEF below
<1>7. \A d, e \in R : rank(d) = rank(e) => d = e
  <2>1. ASSUME NEW d \in R, NEW e \in R, d # e PROVE rank(d) # rank(e)
    <3>1. Before(d, e) \/ Before(e, d)
      BY <1>2, <2>1, BeforeIs
    <3>2. rank(d) \in Nat /\ rank(e) \in Nat /\ (rank(d) < rank(e) \/ rank(e) < rank(d))
      BY <1>4, <1>6, <3>1
    <3> HIDE DEF rank
    <3>3. QED
      BY <3>2
  <2>2. QED
    BY <2>1
<1> HIDE DEF rank
<1>8. \A k \in 0 .. n - 1 : \E d \in R : rank(d) = k
  <2>1. ranks \in Injection(R, 0 .. n - 1)
    BY <1>5, <1>7 DEF Injection, IsInjective
  <2>2. IsFiniteSet(0 .. n - 1) /\ Cardinality(0 .. n - 1) = n
    <3>1. 0 \in Int /\ n - 1 \in Int /\ (IF 0 > n - 1 THEN 0 ELSE n - 1 - 0 + 1) = n
      BY <1>1
    <3>2. QED
      BY <3>1, FS_Interval
  <2>3. ranks \in Surjection(R, 0 .. n - 1)
    BY <1>3, <2>1, <2>2, FS_Injection
  <2>4. QED
    BY <2>3 DEF Surjection
<1>9. order = [i \in 1 .. n |-> CHOOSE d \in R : rank(d) = i - 1]
  BY DEF Sorted, R, n, rank, below
<1>10. \A i \in 1 .. n : order[i] \in R /\ rank(order[i]) = i - 1
  <2>1. \A i \in 1 .. n : i - 1 \in 0 .. n - 1
    BY <1>1
  <2>2. \A i \in 1 .. n : \E d \in R : rank(d) = i - 1
    BY <1>8, <2>1
  <2>3. QED
    BY <1>9, <2>2
<1>11. \A d \in R : \E i \in 1 .. n : order[i] = d
  <2>1. ASSUME NEW d \in R PROVE \E i \in 1 .. n : order[i] = d
    <3>1. rank(d) + 1 \in 1 .. n /\ (rank(d) + 1) - 1 = rank(d)
      BY <1>1, <1>5
    <3>2. order[rank(d) + 1] = d
      BY <1>7, <1>10, <3>1
    <3>3. QED
      BY <3>1, <3>2
  <2>2. QED
    BY <2>1
<1>12. \A i, j \in 1 .. n : Before(order[i], order[j]) <=> i < j
  <2>1. ASSUME NEW i \in 1 .. n, NEW j \in 1 .. n, Before(order[i], order[j]) PROVE i < j
    <3>1. rank(order[i]) < rank(order[j])
      BY <1>6, <1>10, <2>1
    <3>2. i - 1 < j - 1 /\ i \in Int /\ j \in Int
      BY <1>10, <3>1
    <3>3. QED
      BY <3>2
  <2>2. ASSUME NEW i \in 1 .. n, NEW j \in 1 .. n, i < j PROVE Before(order[i], order[j])
    <3>1. order[i] # order[j]
      BY <1>10, <2>2
    <3>2. Before(order[i], order[j]) \/ Before(order[j], order[i])
      BY <1>2, <1>10, <3>1, BeforeIs
    <3>3. Before(order[j], order[i]) => j < i
      BY <2>1
    <3>4. QED
      BY <2>2, <3>2, <3>3
  <2>3. QED
    BY <2>1, <2>2
<1>13. DOMAIN order = 1 .. n
  BY <1>9
<1>14. QED
  BY <1>1, <1>10, <1>11, <1>12, <1>13 DEF R, n

-------------------------------------------------------------------------------
(* Which directive decides.                                                  *)

\* An entity block has a list of entities, an unconditional block never has.
Gated(r) == /\ r.kind = "ENTITY_BLOCK" => r.entities # NoList
            /\ r.kind = "UNCONDITIONAL_BLOCK" => r.entities = NoList

\* Every directive is in one pass, and a pass is of one kind.
LEMMA PassIs ==
  ASSUME NEW d \in Directive
  PROVE  PassOf(d) \in 1 .. 3 /\ Passes[PassOf(d)] = d.kind
<1>1. DOMAIN Passes = 1 .. 3
  BY DEF Passes
<1>2. d.kind \in Kinds
  BY DEF Directive
<1>3. \E p \in 1 .. 3 : Passes[p] = d.kind
  <2>1. Passes[1] = "UNCONDITIONAL_BLOCK" /\ Passes[2] = "ENTITY_BLOCK" /\ Passes[3] = "REROUTE"
    BY DEF Passes
  <2>2. QED
    BY <1>2, <2>1 DEF Kinds
<1>4. QED
  BY <1>1, <1>3 DEF PassOf

\* Two passes are of different kinds.
LEMMA PassesDiffer ==
  ASSUME NEW p \in 1 .. 3, NEW q \in 1 .. 3, Passes[p] = Passes[q]
  PROVE  p = q
<1>1. Passes[1] = "UNCONDITIONAL_BLOCK" /\ Passes[2] = "ENTITY_BLOCK" /\ Passes[3] = "REROUTE"
  BY DEF Passes
<1>2. QED
  BY <1>1

\* Positions hold directives, of a rule each.
Placed(der) ==
  /\ DOMAIN der.order \subseteq Nat
  /\ \A i \in DOMAIN der.order : der.order[i] \in Directive
  /\ \A i, j \in DOMAIN der.order : der.order[i].id = der.order[j].id => i = j

\* The passes come to i no later than to j.
Ahead(der, i, j) ==
  \/ PassOf(der.order[i]) < PassOf(der.order[j])
  \/ PassOf(der.order[i]) = PassOf(der.order[j]) /\ i <= j

\* A directive in force that would act on the call.
Acts(der, i, call) == i \in DOMAIN der.order /\ i \in Acting(der, der.order[i].kind, call)

\* The order of the passes is total.
LEMMA AheadIs ==
  ASSUME NEW der, Placed(der), NEW i \in DOMAIN der.order, NEW j \in DOMAIN der.order,
         NEW k \in DOMAIN der.order
  PROVE  /\ Ahead(der, i, i) /\ (Ahead(der, i, j) \/ Ahead(der, j, i))
         /\ Ahead(der, i, j) /\ Ahead(der, j, i) => i = j
         /\ Ahead(der, i, j) /\ Ahead(der, j, k) => Ahead(der, i, k)
<1>1. i \in Nat /\ j \in Nat /\ k \in Nat
  BY DEF Placed
<1>2. /\ PassOf(der.order[i]) \in Nat /\ PassOf(der.order[j]) \in Nat
      /\ PassOf(der.order[k]) \in Nat
  BY PassIs DEF Placed
<1>3. QED
  BY <1>1, <1>2 DEF Ahead

\* The passes stop where a directive acts that they come to no later than to any
\* other that does.
LEMMA DecidingIs ==
  ASSUME NEW der, NEW call, Placed(der), NEW i \in DOMAIN der.order
  PROVE  i \in Deciding(der, call) <=>
           Acts(der, i, call) /\ \A j : Acts(der, j, call) => Ahead(der, i, j)
<1> DEFINE kind   == der.order[i].kind
           S      == Acting(der, kind, call)
<1>1. /\ S \in SUBSET Nat
      /\ \A k, j : j \in Acting(der, k, call) <=> Acts(der, j, call) /\ der.order[j].kind = k
  BY DEF Placed, Acts, Acting, InForce, Hits
<1>2. \A j \in DOMAIN der.order :
        /\ der.order[j] \in Directive /\ j \in Nat
        /\ PassOf(der.order[j]) \in 1 .. 3 /\ Passes[PassOf(der.order[j])] = der.order[j].kind
  BY PassIs DEF Placed
<1>3. DOMAIN Passes = 1 .. 3 /\ \A p, q \in 1 .. 3 : Passes[p] = Passes[q] => p = q
  <2>1. DOMAIN Passes = 1 .. 3
    BY DEF Passes
  <2>2. QED
    BY <2>1, PassesDiffer
<1> HIDE DEF S
<1>4. i \in S => (i = Min(S) <=> \A j \in S : i <= j)
  <2>1. ASSUME i \in S PROVE i = Min(S) <=> \A j \in S : i <= j
    <3>1. Min(S) \in S /\ \A j \in S : Min(S) <= j
      BY <1>1, <2>1, FirstPosition
    <3>2. Min(S) \in Nat /\ i \in Nat
      BY <1>1, <2>1, <3>1
    <3>3. QED
      BY <2>1, <3>1, <3>2
  <2>2. QED
    BY <2>1
<1>5. i \in Deciding(der, call) <=>
        /\ i \in S /\ \A j \in S : i <= j
        /\ \A p, q \in 1 .. 3 : kind = Passes[q] /\ p < q => Acting(der, Passes[p], call) = {}
  BY <1>3, <1>4 DEF Deciding, S
<1>6. ASSUME i \in Deciding(der, call), NEW j, Acts(der, j, call)
      PROVE  Acts(der, i, call) /\ Ahead(der, i, j)
  <2>1. Acts(der, i, call) /\ j \in DOMAIN der.order
    BY <1>1, <1>5, <1>6 DEF Acts, S
  <2>2. j \in Acting(der, Passes[PassOf(der.order[j])], call)
    BY <1>1, <1>2, <1>6, <2>1
  <2>3. ~(PassOf(der.order[j]) < PassOf(der.order[i]))
    BY <1>2, <1>5, <1>6, <2>1, <2>2
  <2>4. PassOf(der.order[j]) = PassOf(der.order[i]) => i <= j
    <3>1. PassOf(der.order[j]) = PassOf(der.order[i]) => j \in S
      BY <1>2, <2>1, <2>2 DEF S
    <3>2. QED
      BY <1>5, <1>6, <3>1
  <2>5. QED
    BY <1>2, <2>1, <2>3, <2>4 DEF Ahead
<1>7. ASSUME Acts(der, i, call), \A j : Acts(der, j, call) => Ahead(der, i, j)
      PROVE  i \in Deciding(der, call)
  <2>1. i \in S
    BY <1>7 DEF Acts, S
  <2>2. ASSUME NEW j \in S PROVE i <= j
    <3>1. Ahead(der, i, j) /\ der.order[j].kind = kind /\ j \in DOMAIN der.order
      BY <1>1, <1>7, <2>2 DEF S, Acts
    <3>2. PassOf(der.order[j]) = PassOf(der.order[i])
      BY <1>2, <1>3, <3>1
    <3>3. QED
      BY <1>2, <3>1, <3>2 DEF Ahead
  <2>3. ASSUME NEW p \in 1 .. 3, NEW q \in 1 .. 3, kind = Passes[q], p < q,
               NEW j \in Acting(der, Passes[p], call)
        PROVE  FALSE
    <3>1. Ahead(der, i, j) /\ der.order[j].kind = Passes[p] /\ j \in DOMAIN der.order
      BY <1>1, <1>7, <2>3 DEF Acts
    <3>2. PassOf(der.order[j]) = p /\ PassOf(der.order[i]) = q
      BY <1>2, <1>3, <2>3, <3>1
    <3>3. QED
      BY <2>3, <3>1, <3>2 DEF Ahead
  <2>4. QED
    BY <1>5, <2>1, <2>2, <2>3
<1>8. QED
  BY <1>6, <1>7 DEF Acts, Deciding

\* If a directive acts, one decides, and the decision is its own.
LEMMA DecisionIs ==
  ASSUME NEW der, NEW call, Placed(der), call.trace \notin der.loops
  PROVE  /\ \A i \in Deciding(der, call) :
              Decision(der, call) = Verdict(Outcome(der.order[i].kind), der.order[i].id)
         /\ Deciding(der, call) = {} => Decision(der, call) = Verdict("allowed", None)
<1>1. ASSUME NEW i \in Deciding(der, call)
      PROVE  Decision(der, call) = Verdict(Outcome(der.order[i].kind), der.order[i].id)
  <2> DEFINE S == Deciding(der, call)
  <2>1. S \in SUBSET (DOMAIN der.order) /\ S \in SUBSET Nat /\ i \in S
    BY DEF Placed, Deciding
  <2>2. \A j, k \in S : j = k
    <3>1. \A j \in S : Acts(der, j, call) /\ \A k \in S : Ahead(der, j, k)
      BY <2>1, DecidingIs
    <3>2. QED
      BY <2>1, <3>1, AheadIs
  <2> HIDE DEF S
  <2>3. Min(S) = i
    BY <2>1, <2>2, FirstPosition
  <2>4. Decision(der, call) =
          LET d == der.order[Min(S)] IN Verdict(Outcome(d.kind), d.id)
    BY <2>1 DEF Decision, S
  <2>5. QED
    BY <2>3, <2>4
<1>2. Deciding(der, call) = {} => Decision(der, call) = Verdict("allowed", None)
  BY DEF Decision
<1>3. QED
  BY <1>1, <1>2

-------------------------------------------------------------------------------
(* The pack mirrors the service's rules.                                     *)

\* One rule of each id, each gated as its kind asks.
Lawful(rules) == /\ \A r, q \in rules : r.id = q.id => r = q
                 /\ \A r \in rules : Gated(r)

\* The lists hold the rules and the loop blocks of what was said.
Mirrors(directives, loops, said) ==
  Distinct(directives) /\ Range(directives) = said.rules /\ loops = said.loops

\* The invariant under PackTellsTruth: a healthy pack mirrors what the service
\* has, and a delta in progress what it will have with the operations so far.
Mirror == /\ Lawful(truth.rules)
          /\ healthy => Mirrors(pack.directives, pack.loops, truth)
          /\ work # None => /\ Lawful(work.said.rules)
                            /\ Mirrors(work.directives, work.loops, work.said)

\* A replaced directive is the only one of its rule.
LEMMA Replaced ==
  ASSUME NEW s \in Seq(Directive), Distinct(s), NEW at \in DOMAIN s, NEW c,
         c.id = s[at].id
  PROVE  /\ Distinct([s EXCEPT ![at] = c])
         /\ Range([s EXCEPT ![at] = c]) = {r \in Range(s) : r.id # c.id} \union {c}
<1> DEFINE t == [s EXCEPT ![at] = c]
<1>1. /\ DOMAIN t = DOMAIN s /\ t[at] = c
      /\ \A i \in DOMAIN s : i # at => t[i] = s[i]
  OBVIOUS
<1> HIDE DEF t
<1>2. Distinct(t)
  BY <1>1 DEF Distinct
<1>3. \A i \in DOMAIN s : i # at => s[i].id # c.id
  BY DEF Distinct
<1>4. Range(t) = {r \in Range(s) : r.id # c.id} \union {c}
  BY <1>1, <1>3 DEF Range
<1>5. QED
  BY <1>2, <1>4 DEF t

\* A directive of a new rule is appended.
LEMMA Added ==
  ASSUME NEW s \in Seq(Directive), Distinct(s), NEW d \in Directive,
         d.id \notin Known(Range(s))
  PROVE  Distinct(Append(s, d)) /\ Range(Append(s, d)) = Range(s) \union {d}
<1> DEFINE t == Append(s, d)
           n == Len(s)
<1>1. n \in Nat /\ DOMAIN s = 1 .. n
  BY ListOps
<1>2. DOMAIN t = 1 .. n + 1 /\ t[n + 1] = d /\ \A i \in 1 .. n : t[i] = s[i]
  BY <1>1, AppendProperties, LenProperties
<1> HIDE DEF t, n
<1>3. /\ DOMAIN t = DOMAIN s \union {n + 1} /\ n + 1 \notin DOMAIN s
      /\ \A i \in DOMAIN s : t[i] = s[i] /\ s[i].id # d.id
  BY <1>1, <1>2 DEF Known, Range
<1>4. Distinct(t)
  BY <1>2, <1>3 DEF Distinct
<1>5. Range(t) = Range(s) \union {d}
  <2>1. t[n + 1] = d
    BY <1>1, <1>2
  <2>2. \A r : r \in Range(t) <=> r = t[n + 1] \/ \E i \in DOMAIN s : r = t[i]
    BY <1>3 DEF Range
  <2>3. \A r : r \in Range(s) <=> \E i \in DOMAIN s : r = s[i]
    BY DEF Range
  <2>4. QED
    BY <1>3, <2>1, <2>2, <2>3
<1>6. QED
  BY <1>4, <1>5 DEF t

\* Where the elements are when one was taken out: the later ones moved up.
LEMMA Shifted ==
  ASSUME NEW s \in Seq(Directive), NEW k \in DOMAIN s, NEW t, t = RemoveAt(s, k)
  PROVE  /\ \A j \in DOMAIN t : /\ (IF j < k THEN j ELSE j + 1) \in DOMAIN s \ {k}
                                /\ t[j] = s[IF j < k THEN j ELSE j + 1]
         /\ \A i, j \in DOMAIN t :
              (IF i < k THEN i ELSE i + 1) = (IF j < k THEN j ELSE j + 1) => i = j
         /\ \A j \in DOMAIN s \ {k} : \E i \in DOMAIN t : t[i] = s[j]
<1> DEFINE n == Len(s)
           a == SubSeq(s, 1, k - 1)
           b == SubSeq(s, k + 1, n)
<1>1. n \in Nat /\ k \in 1 .. n /\ DOMAIN s = 1 .. n /\ \A i \in 1 .. n : s[i] \in Directive
  BY ListOps
<1>2. t = a \o b
  BY DEF RemoveAt
<1> HIDE DEF n
<1>3. a \in Seq(Directive) /\ Len(a) = k - 1 /\ \A i \in 1 .. k - 1 : a[i] = s[i]
  <2>1. 1 \in Int /\ k - 1 \in Int /\ \A i \in 1 .. k - 1 : s[i] \in Directive
    BY <1>1
  <2>2. /\ a \in Seq(Directive) /\ Len(a) = IF 1 <= k - 1 THEN (k - 1) - 1 + 1 ELSE 0
        /\ \A i \in 1 .. (k - 1) - 1 + 1 : a[i] = s[1 + i - 1]
    BY <2>1, SubSeqProperties
  <2> HIDE DEF a
  <2>3. QED
    BY <1>1, <2>2
<1>4. b \in Seq(Directive) /\ Len(b) = n - k /\ \A i \in 1 .. n - k : b[i] = s[k + i]
  <2>1. k + 1 \in Int /\ n \in Int /\ \A i \in k + 1 .. n : s[i] \in Directive
    BY <1>1
  <2>2. /\ b \in Seq(Directive) /\ Len(b) = IF k + 1 <= n THEN n - (k + 1) + 1 ELSE 0
        /\ \A i \in 1 .. n - (k + 1) + 1 : b[i] = s[(k + 1) + i - 1]
    BY <2>1, SubSeqProperties
  <2> HIDE DEF b
  <2>3. Len(b) = n - k
    BY <1>1, <2>2
  <2>4. ASSUME NEW i \in 1 .. n - k PROVE b[i] = s[k + i]
    <3>1. i \in 1 .. n - (k + 1) + 1 /\ (k + 1) + i - 1 = k + i
      BY <1>1
    <3>2. QED
      BY <2>2, <3>1
  <2>5. QED
    BY <2>2, <2>3, <2>4
<1> HIDE DEF a, b
<1>5. /\ t \in Seq(Directive) /\ Len(t) = Len(a) + Len(b)
      /\ \A j \in 1 .. Len(a) + Len(b) : t[j] = IF j <= Len(a) THEN a[j] ELSE b[j - Len(a)]
  BY <1>2, <1>3, <1>4, ConcatProperties
<1>6. DOMAIN t = 1 .. n - 1
  <2>1. DOMAIN t = 1 .. Len(t)
    BY <1>5, LenProperties
  <2>2. QED
    BY <1>1, <1>3, <1>4, <1>5, <2>1
<1>7. ASSUME NEW j \in 1 .. n - 1
      PROVE  /\ (IF j < k THEN j ELSE j + 1) \in DOMAIN s \ {k}
             /\ t[j] = s[IF j < k THEN j ELSE j + 1]
  <2>1. CASE j < k
    <3>1. j \in 1 .. k - 1 /\ j <= Len(a) /\ j \in 1 .. Len(a) + Len(b)
      BY <1>1, <1>3, <1>4, <2>1
    <3>2. t[j] = s[j]
      BY <1>3, <1>5, <3>1
    <3>3. QED
      BY <1>1, <2>1, <3>1, <3>2
  <2>2. CASE ~(j < k)
    <3>1. /\ j - Len(a) \in 1 .. n - k /\ ~(j <= Len(a)) /\ j \in 1 .. Len(a) + Len(b)
          /\ k + (j - Len(a)) = j + 1
      BY <1>1, <1>3, <1>4, <2>2
    <3>2. t[j] = s[j + 1]
      BY <1>4, <1>5, <3>1
    <3>3. QED
      BY <1>1, <2>2, <3>1, <3>2
  <2>3. QED
    BY <2>1, <2>2
<1>8. ASSUME NEW i \in 1 .. n - 1, NEW j \in 1 .. n - 1,
             (IF i < k THEN i ELSE i + 1) = (IF j < k THEN j ELSE j + 1)
      PROVE  i = j
  BY <1>1, <1>8
<1>9. ASSUME NEW j \in DOMAIN s \ {k} PROVE \E i \in DOMAIN t : t[i] = s[j]
  <2>1. CASE j < k
    <3>1. j \in 1 .. n - 1
      BY <1>1, <2>1
    <3>2. QED
      BY <1>6, <1>7, <2>1, <3>1
  <2>2. CASE ~(j < k)
    <3>1. j - 1 \in 1 .. n - 1 /\ ~(j - 1 < k) /\ (j - 1) + 1 = j
      BY <1>1, <2>2
    <3>2. t[j - 1] = s[(j - 1) + 1]
      BY <1>7, <3>1
    <3>3. QED
      BY <1>6, <3>1, <3>2
  <2>3. QED
    BY <2>1, <2>2
<1>10. QED
  BY <1>6, <1>7, <1>8, <1>9

\* A removed rule is gone, the others stay.
LEMMA Removed ==
  ASSUME NEW s \in Seq(Directive), Distinct(s), NEW k \in DOMAIN s
  PROVE  /\ Distinct(RemoveAt(s, k))
         /\ Range(RemoveAt(s, k)) = {r \in Range(s) : r.id # s[k].id}
<1> DEFINE t == RemoveAt(s, k)
           from(j) == IF j < k THEN j ELSE j + 1
<1>1. /\ \A j \in DOMAIN t : from(j) \in DOMAIN s \ {k} /\ t[j] = s[from(j)]
      /\ \A i, j \in DOMAIN t : from(i) = from(j) => i = j
      /\ \A j \in DOMAIN s \ {k} : \E i \in DOMAIN t : t[i] = s[j]
  BY Shifted
<1> HIDE DEF t, from
<1>2. Distinct(t)
  BY <1>1 DEF Distinct
<1>3. \A j \in DOMAIN s : j # k <=> s[j].id # s[k].id
  BY DEF Distinct
<1>4. \A r : r \in Range(t) <=> \E j \in DOMAIN s \ {k} : r = s[j]
  BY <1>1 DEF Range
<1>5. Range(t) = {r \in Range(s) : r.id # s[k].id}
  BY <1>3, <1>4 DEF Range
<1>6. QED
  BY <1>2, <1>5 DEF t

\* What an operation leaves alone and what it sets.
LEMMA OpEffect ==
  ASSUME IInv, work # None, NEW directives, NEW index, NEW loops, NEW said,
         Op([work EXCEPT !.directives = directives, !.index = index, !.loops = loops],
            said)
  PROVE  /\ UNCHANGED <<pack, healthy, truth>>
         /\ work'.directives = directives /\ work'.loops = loops /\ work'.said = said
<1>1. PICK old \in SUBSET Ids : work \in WorkOn(old)
  BY DEF IInv, TypeOK
<1>2. QED
  BY <1>1 DEF Op, WorkOn

\* An operation keeps the mirror if the lists it leaves mirror what it says.
LEMMA OpMirrors ==
  ASSUME IInv, Mirror, work # None, NEW directives, NEW index, NEW loops, NEW said,
         Lawful(said.rules), Mirrors(directives, loops, said),
         Op([work EXCEPT !.directives = directives, !.index = index, !.loops = loops],
            said)
  PROVE  Mirror'
<1>1. /\ UNCHANGED <<pack, healthy, truth>>
      /\ work'.directives = directives /\ work'.loops = loops /\ work'.said = said
  BY OpEffect
<1>2. QED
  BY <1>1 DEF Mirror

\* What the service keeps of the armed tags, and what stands in the list after
\* an upsert that may leave the tags out, are the same.
LEMMA UpsertStands ==
  ASSUME IInv, Mirror, work # None, NEW id \in Ids, NEW draft \in Drafts,
         NEW listed \in BOOLEAN, IF listed THEN draft.gated ELSE Omissible(id, draft),
         NEW d, d = Drafted(id, draft, IF listed THEN Kept(id, draft) ELSE NoList),
         NEW new, new = Drafted(id, draft, Kept(id, draft))
  PROVE  /\ Gated(new)
         /\ id \in DOMAIN work.index => Carried(work.directives[work.index[id]], d) = new
         /\ id \notin DOMAIN work.index => d = new
<1> DEFINE kept  == Kept(id, draft)
           rules == work.said.rules
           was   == {r \in rules : r.id = id /\ r.kind = draft.kind /\ r.entities # NoList}
<1>1. kept = IF ~draft.gated THEN NoList
             ELSE IF was = {} THEN {} ELSE (CHOOSE r \in was : TRUE).entities
  BY DEF Kept
<1>2. {} # NoList
  BY DraftsAssumption
<1>3. draft.gated <=> kept # NoList
  <2>1. \A r \in was : r.entities # NoList
    OBVIOUS
  <2> HIDE DEF was
  <2>2. QED
    BY <1>1, <1>2, <2>1
<1>4. /\ draft.kind = "ENTITY_BLOCK" => draft.gated
      /\ draft.kind = "UNCONDITIONAL_BLOCK" => ~draft.gated
      /\ draft.kind \in Kinds
  BY DraftsAssumption
<1>5. \A list : /\ Drafted(id, draft, list).entities = list
                /\ Drafted(id, draft, list).kind = draft.kind
                /\ [Drafted(id, draft, list) EXCEPT !.entities = kept] = Drafted(id, draft, kept)
  BY DEF Drafted
<1>6. /\ \A r, q \in rules : r.id = q.id => r = q
      /\ Range(work.directives) = rules
  BY DEF Mirror, Mirrors, Lawful
<1>7. DOMAIN work.index = Known(rules)
      /\ \A i \in DOMAIN work.index : /\ work.index[i] \in DOMAIN work.directives
                                      /\ work.directives[work.index[i]].id = i
  BY <1>6, WorkTyped DEF PointsAtRules
<1> HIDE DEF kept
<1>8. Gated(new)
  BY <1>3, <1>4, <1>5 DEF Gated, kept
<1>9. ~listed => (draft.gated <=> was # {})
  BY DEF Omissible
<1>10. ASSUME id \in DOMAIN work.index
       PROVE  Carried(work.directives[work.index[id]], d) = new
  <2> DEFINE prev == work.directives[work.index[id]]
  <2>1. prev \in rules /\ prev.id = id
    BY <1>6, <1>7, <1>10 DEF Range
  <2> HIDE DEF prev
  <2>2. CASE listed
    <3>1. d = new /\ d.entities # NoList
      BY <1>3, <1>5, <2>2 DEF kept
    <3>2. QED
      BY <3>1 DEF Carried, prev
  <2>3. CASE ~listed /\ draft.gated
    <3>1. was = {prev} /\ prev.kind = draft.kind /\ prev.entities # NoList
      BY <1>6, <1>9, <2>1, <2>3
    <3> HIDE DEF was
    <3>2. kept = prev.entities
      BY <1>1, <2>3, <3>1
    <3>3. d.entities = NoList /\ d.kind = draft.kind
          /\ draft.kind \in {"ENTITY_BLOCK", "REROUTE"}
      BY <1>4, <1>5, <2>3 DEF Kinds
    <3>4. Carried(prev, d) = [d EXCEPT !.entities = prev.entities]
      BY <3>1, <3>3 DEF Carried
    <3>5. QED
      BY <1>5, <2>3, <3>2, <3>4 DEF prev, kept
  <2>4. CASE ~listed /\ ~draft.gated
    <3>1. prev.kind = draft.kind => prev.entities = NoList
      BY <1>9, <2>1, <2>4
    <3>2. kept = NoList /\ d = new /\ d.kind = draft.kind
      BY <1>3, <1>5, <2>4 DEF kept
    <3>3. QED
      BY <3>1, <3>2 DEF Carried, prev
  <2>5. QED
    BY <2>2, <2>3, <2>4
<1>11. ASSUME id \notin DOMAIN work.index PROVE d = new
  <2>1. was = {}
    BY <1>7, <1>11 DEF Known
  <2>2. CASE listed
    BY <2>2
  <2>3. CASE ~listed
    <3>1. kept = NoList
      BY <1>3, <1>9, <2>1, <2>3
    <3>2. QED
      BY <2>3, <3>1 DEF kept
  <2>4. QED
    BY <2>2, <2>3
<1>12. QED
  BY <1>8, <1>10, <1>11

\* The rules stay lawful when one is replaced or added.
LEMMA EditedLawful ==
  ASSUME NEW rules, Lawful(rules), NEW id, NEW new, new.id = id, Gated(new), NEW edited,
         edited = {r \in rules : r.id # id} \union {new}
  PROVE  Lawful(edited)
BY DEF Lawful

\* An edit.
LEMMA UpsertMirrors ==
  ASSUME IInv, Mirror, NEW id \in Ids, NEW draft \in Drafts, NEW listed \in BOOLEAN,
         Upsert(id, draft, listed)
  PROVE  Mirror'
<1> DEFINE new   == Drafted(id, draft, Kept(id, draft))
           d     == Drafted(id, draft, IF listed THEN Kept(id, draft) ELSE NoList)
           rules == {r \in work.said.rules : r.id # id} \union {new}
           said  == [work.said EXCEPT !.rules = rules]
           at    == work.index[id]
           longer == Append(work.directives, d)
<1>1. work # None /\ (IF listed THEN draft.gated ELSE Omissible(id, draft))
  BY DEF Upsert
<1>2. \/ /\ id \in DOMAIN work.index
         /\ Op([work EXCEPT !.directives[at] = Carried(@, d)], said)
      \/ /\ id \notin DOMAIN work.index
         /\ Op([work EXCEPT !.directives = longer, !.index = Index(longer)], said)
  BY DEF Upsert
<1>3. /\ Gated(new)
      /\ id \in DOMAIN work.index => Carried(work.directives[at], d) = new
      /\ id \notin DOMAIN work.index => d = new
  BY <1>1, UpsertStands
<1>4. new \in Directive /\ new.id = id
  BY <1>1, SaidEdited
<1>5. /\ Lawful(work.said.rules) /\ Distinct(work.directives)
      /\ Range(work.directives) = work.said.rules /\ work.loops = work.said.loops
  BY <1>1 DEF Mirror, Mirrors
<1> HIDE DEF new
<1>6. Lawful(rules)
  BY <1>3, <1>4, <1>5, EditedLawful
<1> HIDE DEF d, rules
<1>7. said.rules = rules /\ said.loops = work.loops
  BY <1>1, <1>5, WorkTyped DEF Truth
<1> HIDE DEF said
<1>8. CASE id \in DOMAIN work.index /\ Op([work EXCEPT !.directives[at] = Carried(@, d)], said)
  <2> DEFINE list == [work.directives EXCEPT ![at] = new]
  <2>1. at \in DOMAIN work.directives /\ work.directives[at].id = id
    BY <1>1, <1>8, WorkTyped DEF PointsAtRules
  <2>2. [work EXCEPT !.directives[at] = Carried(@, d)] =
          [work EXCEPT !.directives = list, !.index = work.index, !.loops = work.loops]
    BY <1>1, <1>3, <1>8, WorkTyped DEF IInv, TypeOK, WorkOn
  <2>3. Distinct(list) /\ Range(list) = rules
    BY <1>1, <1>4, <1>5, <2>1, WorkTyped, Replaced DEF rules
  <2> HIDE DEF list, at
  <2>4. Op([work EXCEPT !.directives = list, !.index = work.index, !.loops = work.loops],
           said)
    BY <1>8, <2>2 DEF at
  <2>5. Mirrors(list, work.loops, said)
    BY <1>7, <2>3 DEF Mirrors
  <2>6. QED
    BY <1>1, <1>6, <1>7, <2>4, <2>5, OpMirrors
<1>9. CASE /\ id \notin DOMAIN work.index
           /\ Op([work EXCEPT !.directives = longer, !.index = Index(longer)], said)
  <2>1. Known(Range(work.directives)) = DOMAIN work.index
    BY <1>1, WorkTyped DEF PointsAtRules
  <2>2. rules = work.said.rules \union {new}
    BY <1>5, <1>9, <2>1 DEF rules, Known
  <2>3. Distinct(longer) /\ Range(longer) = rules
    BY <1>1, <1>3, <1>4, <1>5, <1>9, <2>1, <2>2, WorkTyped, Added
  <2> HIDE DEF longer
  <2>4. [work EXCEPT !.directives = longer, !.index = Index(longer)] =
          [work EXCEPT !.directives = longer, !.index = Index(longer), !.loops = work.loops]
    BY <1>1, WorkTyped DEF IInv, TypeOK, WorkOn
  <2>5. Op([work EXCEPT !.directives = longer, !.index = Index(longer),
                        !.loops = work.loops], said)
    BY <1>9, <2>4
  <2>6. Mirrors(longer, work.loops, said)
    BY <1>7, <2>3 DEF Mirrors
  <2>7. QED
    BY <1>1, <1>6, <1>7, <2>5, <2>6, OpMirrors
<1>10. QED
  BY <1>2, <1>8, <1>9

\* A removal.
LEMMA RemoveMirrors ==
  ASSUME IInv, Mirror, NEW id \in Ids, RemoveRule(id)
  PROVE  Mirror'
<1> DEFINE at    == work.index[id]
           rest  == RemoveAt(work.directives, at)
           rules == {r \in work.said.rules : r.id # id}
           said  == [work.said EXCEPT !.rules = rules]
<1>1. work # None /\ id \in DOMAIN work.index /\ Op(Without(work, id), said)
  BY DEF RemoveRule
<1>2. at \in DOMAIN work.directives /\ work.directives[at].id = id
  BY <1>1, WorkTyped DEF PointsAtRules
<1>3. /\ Lawful(work.said.rules) /\ Distinct(work.directives)
      /\ Range(work.directives) = work.said.rules /\ work.loops = work.said.loops
  BY <1>1 DEF Mirror, Mirrors
<1>4. Lawful(rules)
  BY <1>3 DEF Lawful
<1>5. Distinct(rest) /\ Range(rest) = rules
  BY <1>1, <1>2, <1>3, WorkTyped, Removed
<1>6. Without(work, id) = [work EXCEPT !.directives = rest, !.index = Index(rest)]
  BY DEF Without
<1> HIDE DEF rest, rules
<1>7. [work EXCEPT !.directives = rest, !.index = Index(rest)] =
        [work EXCEPT !.directives = rest, !.index = Index(rest), !.loops = work.loops]
  BY <1>1, WorkTyped DEF IInv, TypeOK, WorkOn
<1>8. said.rules = rules /\ said.loops = work.loops
  BY <1>1, <1>3, WorkTyped DEF Truth
<1> HIDE DEF said
<1>9. Op([work EXCEPT !.directives = rest, !.index = Index(rest), !.loops = work.loops],
         said)
  BY <1>1, <1>6, <1>7
<1>10. Mirrors(rest, work.loops, said)
  BY <1>5, <1>8 DEF Mirrors
<1>11. QED
  BY <1>1, <1>4, <1>8, <1>9, <1>10, OpMirrors

\* An arming or disarming.
LEMMA ArmMirrors ==
  ASSUME IInv, Mirror, NEW id \in Ids, NEW tag \in Tags, NEW on \in BOOLEAN, Arm(id, tag, on)
  PROVE  Mirror'
<1> DEFINE entities(d) ==
             LET list == IF d.entities = NoList THEN {} ELSE d.entities
             IN  IF on THEN list \union {tag} ELSE list \ {tag}
           change(d) == [d EXCEPT !.entities = entities(d)]
           at    == work.index[id]
           prev  == work.directives[at]
           list  == [work.directives EXCEPT ![at] = change(prev)]
           rules == {IF r.id = id THEN change(r) ELSE r : r \in work.said.rules}
           said  == [work.said EXCEPT !.rules = rules]
<1>1. /\ work # None /\ id \in DOMAIN work.index
      /\ Op([work EXCEPT !.directives[at] = change(@)], said)
      /\ \E r \in work.said.rules : r.id = id /\ r.entities # NoList
  BY DEF Arm
<1>2. /\ Lawful(work.said.rules) /\ Distinct(work.directives)
      /\ Range(work.directives) = work.said.rules /\ work.loops = work.said.loops
  BY <1>1 DEF Mirror, Mirrors
<1>3. at \in DOMAIN work.directives /\ prev.id = id
  BY <1>1, WorkTyped DEF PointsAtRules
<1>4. prev \in Directive
  BY <1>1, <1>3, WorkTyped, ListOps
<1>5. entities(prev) # NoList
  <2>1. entities(prev) \in SUBSET Tags
    BY <1>4 DEF Directive, Lists
  <2> HIDE DEF entities
  <2>2. QED
    BY <2>1, DraftsAssumption
<1>6. /\ change(prev).id = id /\ change(prev).kind = prev.kind
      /\ change(prev).entities = entities(prev)
  BY <1>3, <1>4 DEF Directive
<1>7. [work EXCEPT !.directives[at] = change(@)] =
        [work EXCEPT !.directives = list, !.index = work.index, !.loops = work.loops]
  BY <1>1, WorkTyped DEF IInv, TypeOK, WorkOn
<1> HIDE DEF change, entities
<1>8. prev \in work.said.rules /\ \A r \in work.said.rules : r.id = id <=> r = prev
  BY <1>2, <1>3 DEF Lawful, Range
<1>9. Gated(change(prev))
  BY <1>1, <1>2, <1>5, <1>6, <1>8 DEF Lawful, Gated
<1> HIDE DEF prev
<1>10. rules = {r \in work.said.rules : r.id # id} \union {change(prev)}
  BY <1>8
<1>11. Lawful(rules)
  BY <1>2, <1>6, <1>9, <1>10, EditedLawful
<1>12. Distinct(list) /\ Range(list) = rules
  <2>1. work.directives \in Seq(Directive)
    BY <1>1, WorkTyped
  <2>2. /\ Distinct(list)
        /\ Range(list) = {r \in work.said.rules : r.id # id} \union {change(prev)}
    BY <1>2, <1>3, <1>6, <2>1, Replaced DEF prev
  <2>3. QED
    BY <1>10, <2>2
<1> HIDE DEF rules, list
<1>13. said.rules = rules /\ said.loops = work.loops
  BY <1>1, <1>2, WorkTyped DEF Truth
<1> HIDE DEF said, at
<1>14. Op([work EXCEPT !.directives = list, !.index = work.index, !.loops = work.loops],
          said)
  BY <1>1, <1>7 DEF at
<1>15. Mirrors(list, work.loops, said)
  BY <1>12, <1>13 DEF Mirrors
<1>16. QED
  BY <1>1, <1>11, <1>13, <1>14, <1>15, OpMirrors

\* A loop block set or lifted.
LEMMA LoopMirrors ==
  ASSUME IInv, Mirror, NEW trace \in Traces, NEW on \in BOOLEAN, Loop(trace, on)
  PROVE  Mirror'
<1> DEFINE change(loops) == IF on THEN loops \union {trace} ELSE loops \ {trace}
           loops == change(work.loops)
           said  == [work.said EXCEPT !.loops = change(work.said.loops)]
<1>1. work # None /\ Op([work EXCEPT !.loops = loops], said)
  BY DEF Loop
<1> HIDE DEF change
<1>2. /\ Lawful(work.said.rules) /\ Distinct(work.directives)
      /\ Range(work.directives) = work.said.rules /\ work.loops = work.said.loops
  BY <1>1 DEF Mirror, Mirrors
<1>3. said.rules = work.said.rules /\ said.loops = loops
  BY <1>1, <1>2, WorkTyped DEF Truth
<1> HIDE DEF loops, said
<1>4. [work EXCEPT !.loops = loops] =
        [work EXCEPT !.directives = work.directives, !.index = work.index, !.loops = loops]
  BY <1>1, WorkTyped DEF IInv, TypeOK, WorkOn
<1>5. Mirrors(work.directives, loops, said)
  BY <1>2, <1>3 DEF Mirrors
<1>6. Op([work EXCEPT !.directives = work.directives, !.index = work.index,
                      !.loops = loops], said)
  BY <1>1, <1>4
<1>7. QED
  BY <1>1, <1>2, <1>3, <1>5, <1>6, OpMirrors

\* A snapshot lists every rule once.
LEMMA SnapshotMirrors ==
  ASSUME IInv, Mirror, ApplySnapshot PROVE Mirror'
<1>1. PICK list \in SetToSeqs(truth.rules) :
        pack' = [directives |-> list, loops |-> truth.loops,
                 derived |-> Derive(list, truth.loops)]
  BY DEF ApplySnapshot
<1>2. UNCHANGED <<work, truth>>
  BY DEF ApplySnapshot
<1> DEFINE n == Cardinality(truth.rules)
<1>3. n \in Nat /\ IsFiniteSet(truth.rules)
  BY FS_CardinalityType DEF IInv, Finite
<1>4. list \in [1 .. n -> truth.rules] /\ \A i, j \in 1 .. n : i # j => list[i] # list[j]
  BY DEF SetToSeqs
<1>5. \A r, q \in truth.rules : r.id = q.id => r = q
  BY DEF Mirror, Lawful
<1>6. list \in Injection(1 .. n, truth.rules)
  BY <1>4 DEF Injection, IsInjective
<1>7. IsFiniteSet(1 .. n) /\ Cardinality(1 .. n) = n
  <2>1. 1 \in Int /\ n \in Int /\ (IF 1 > n THEN 0 ELSE n - 1 + 1) = n
    BY <1>3
  <2> HIDE DEF n
  <2>2. QED
    BY <2>1, FS_Interval
<1>8. list \in Surjection(1 .. n, truth.rules)
  BY <1>3, <1>6, <1>7, FS_Injection
<1> HIDE DEF n
<1>9. Range(list) = truth.rules
  BY <1>4, <1>8 DEF Surjection, Range
<1>10. Distinct(list)
  BY <1>4, <1>5 DEF Distinct
<1>11. QED
  BY <1>1, <1>2, <1>9, <1>10 DEF Mirror, Mirrors

\* A delta starts from a pack that mirrors the service, and commits one or
\* leaves the pack unhealthy.
LEMMA EndsMirror ==
  ASSUME IInv, Mirror, BeginDelta \/ Commit \/ Poison PROVE Mirror'
<1>1. CASE BeginDelta
  <2>1. /\ work'.directives = pack.directives /\ work'.loops = pack.loops
        /\ work'.said = truth /\ UNCHANGED <<pack, healthy, truth>> /\ healthy
    BY <1>1 DEF BeginDelta
  <2>2. QED
    BY <2>1 DEF Mirror
<1>2. CASE Commit
  <2>1. /\ pack'.directives = work.directives /\ pack'.loops = work.loops
        /\ truth' = work.said /\ work # None /\ work' = None
    BY <1>2 DEF Commit, Committed
  <2>2. QED
    BY <2>1 DEF Mirror
<1>3. CASE Poison
  BY <1>3 DEF Poison, Mirror
<1>4. QED
  BY <1>1, <1>2, <1>3

\* The mirror holds in the beginning, and every step keeps it.
LEMMA Mirrored == (Init => Mirror) /\ (IInv /\ Mirror /\ [Next]_vars => Mirror')
<1>1. Init => Mirror
  BY DEF Init, Mirror, Lawful
<1>2. ASSUME IInv, Mirror, [Next]_vars PROVE Mirror'
  <2>1. CASE UNCHANGED vars
    BY <1>2, <2>1 DEF vars, Mirror
  <2>2. CASE ApplySnapshot
    BY <1>2, <2>2, SnapshotMirrors
  <2>3. CASE BeginDelta \/ Poison \/ Commit
    BY <1>2, <2>3, EndsMirror
  <2>4. ASSUME NEW id \in Ids, NEW draft \in Drafts, NEW listed \in BOOLEAN,
               Upsert(id, draft, listed)
        PROVE  Mirror'
    BY <1>2, <2>4, UpsertMirrors
  <2>5. ASSUME NEW id \in Ids, RemoveRule(id) PROVE Mirror'
    BY <1>2, <2>5, RemoveMirrors
  <2>6. ASSUME NEW id \in Ids, NEW tag \in Tags, NEW on \in BOOLEAN, Arm(id, tag, on)
        PROVE  Mirror'
    BY <1>2, <2>6, ArmMirrors
  <2>7. ASSUME NEW trace \in Traces, NEW on \in BOOLEAN, Loop(trace, on) PROVE Mirror'
    BY <1>2, <2>7, LoopMirrors
  <2>8. QED
    BY <1>2, <2>1, <2>2, <2>3, <2>4, <2>5, <2>6, <2>7 DEF Next
<1>3. QED
  BY <1>1, <1>2

-------------------------------------------------------------------------------
(* Decisions are the service's.                                              *)

\* The derived structures render the rules and loop blocks: every rule at a
\* place of its own, in order, with its list.
Renders(der, rules, loops) ==
  /\ Placed(der) /\ Derived(der) /\ der.loops = loops
  /\ \A i \in DOMAIN der.order : /\ der.order[i] \in rules /\ Gated(der.order[i])
                                 /\ der.lists[i] = EntitySet(der.order[i])
  /\ \A d \in rules : \E i \in DOMAIN der.order : der.order[i] = d
  /\ \A i, j \in DOMAIN der.order : Before(der.order[i], der.order[j]) <=> i < j

\* A healthy pack's derived structures render the service's rules.
LEMMA PackRenders ==
  ASSUME IInv, Mirror, healthy
  PROVE  Renders(pack.derived, truth.rules, truth.loops)
<1> DEFINE s   == pack.directives
           der == pack.derived
<1>1. s \in Seq(Directive) /\ Distinct(s) /\ Range(s) = truth.rules /\ Lawful(truth.rules)
  BY DEF IInv, TypeOK, Mirror, Mirrors
<1>2. /\ der.order = Sorted(s) /\ der.loops = truth.loops
      /\ \A i \in DOMAIN der.order : der.lists[i] = EntitySet(der.order[i])
  BY DEF IInv, Fresh, Derive, Mirror, Mirrors
<1>3. truth.rules \subseteq Directive
  BY DEF IInv, TypeOK, Truth
<1> HIDE DEF s, der
<1>4. /\ DOMAIN der.order = 1 .. Len(s) /\ Len(s) \in Nat
      /\ \A i \in DOMAIN der.order : der.order[i] \in truth.rules
      /\ \A d \in truth.rules : \E i \in DOMAIN der.order : der.order[i] = d
      /\ \A i, j \in DOMAIN der.order : Before(der.order[i], der.order[j]) <=> i < j
  BY <1>1, <1>2, SortedIs
<1>5. \A i, j \in DOMAIN der.order : der.order[i].id = der.order[j].id => i = j
  <2>1. ASSUME NEW i \in DOMAIN der.order, NEW j \in DOMAIN der.order,
               der.order[i].id = der.order[j].id
        PROVE  i = j
    <3>1. der.order[i] = der.order[j] /\ der.order[i] \in Directive
      BY <1>1, <1>3, <1>4, <2>1 DEF Lawful
    <3>2. ~(i < j) /\ ~(j < i) /\ i \in Nat /\ j \in Nat
      BY <1>4, <3>1, BeforeIs
    <3>3. QED
      BY <3>2
  <2>2. QED
    BY <2>1
<1>6. Placed(der)
  BY <1>3, <1>4, <1>5 DEF Placed
<1>7. Derived(der)
  BY <1>2, <1>4 DEF Derived, EntitySet
<1>8. \A i \in DOMAIN der.order : Gated(der.order[i])
  BY <1>1, <1>4 DEF Lawful
<1>9. QED
  BY <1>2, <1>4, <1>6, <1>7, <1>8 DEF Renders, der

\* A directive acts on a call exactly if its rule applies to it.
LEMMA ActsIs ==
  ASSUME NEW der, NEW rules, NEW loops, Renders(der, rules, loops), NEW call,
         NEW i \in DOMAIN der.order
  PROVE  Acts(der, i, call) <=> Applies(der.order[i], call)
<1> DEFINE d == der.order[i]
<1>1. d \in Directive /\ Gated(d) /\ der.lists[i] = EntitySet(d)
  BY DEF Renders, Placed
<1>2. Acts(der, i, call) <=>
        /\ d.mode = "enforce" /\ Selected(d, call) /\ Listed(der.lists[i], call)
        /\ d.kind = "REROUTE" => Servable(d, call) /\ ~Noop(call.model, d.to.model)
  BY DEF Acts, Acting, InForce, Hits
<1> HIDE DEF d
<1>3. Listed(EntitySet(d), call) <=> (d.entities # NoList => call.tag \in d.entities)
  <2>1. d.kind \in {"UNCONDITIONAL_BLOCK", "ENTITY_BLOCK", "REROUTE"}
    BY <1>1 DEF Directive, Kinds
  <2>2. CASE d.kind = "UNCONDITIONAL_BLOCK"
    BY <1>1, <2>2 DEF EntitySet, Listed, Gated
  <2>3. CASE d.kind = "ENTITY_BLOCK"
    BY <1>1, <2>3 DEF EntitySet, Listed, Gated
  <2>4. CASE d.kind = "REROUTE"
    BY <2>4 DEF EntitySet, Listed
  <2>5. QED
    BY <2>1, <2>2, <2>3, <2>4
<1>4. Applies(d, call) <=>
        /\ d.mode = "enforce" /\ Selected(d, call)
        /\ d.entities # NoList => call.tag \in d.entities
        /\ d.kind = "REROUTE" => Servable(d, call) /\ ~Noop(call.model, d.to.model)
  BY DEF Applies, Selected, Servable, Noop
<1>5. QED
  BY <1>1, <1>2, <1>3, <1>4 DEF d

\* If some directive acts, the passes stop somewhere.
LEMMA OneDecides ==
  ASSUME NEW der, NEW call, Derived(der), NEW i, Acts(der, i, call)
  PROVE  Deciding(der, call) # {}
BY NoneDecides DEF Acts

\* What a rendering decides is what the rules themselves say.
LEMMA RendersRight ==
  ASSUME NEW der, Renders(der, truth.rules, truth.loops), NEW call
  PROVE  Decision(der, call) = Right(call)
<1> DEFINE rules == {r \in truth.rules : Applies(r, call)}
<1>1. \A i \in DOMAIN der.order : /\ Acts(der, i, call) <=> der.order[i] \in rules
                                  /\ der.order[i] \in truth.rules
  BY ActsIs DEF Renders
<1>2. /\ Placed(der) /\ Derived(der) /\ der.loops = truth.loops
      /\ \A d \in rules : \E i \in DOMAIN der.order : der.order[i] = d
      /\ \A i, j \in DOMAIN der.order : Before(der.order[i], der.order[j]) <=> i < j
      /\ DOMAIN der.order \subseteq Nat
  BY DEF Renders, Placed
<1>3. Right(call) =
        IF call.trace \in truth.loops THEN Verdict("blocked", None)
        ELSE IF rules = {} THEN Verdict("allowed", None)
        ELSE LET r == CHOOSE r \in rules : First(r, rules)
             IN  Verdict(Outcome(r.kind), r.id)
  BY DEF Right
<1> HIDE DEF rules
<1>4. CASE call.trace \in truth.loops
  BY <1>2, <1>3, <1>4 DEF Decision
<1>5. CASE call.trace \notin truth.loops /\ rules = {}
  <2>1. \A i \in Deciding(der, call) : i \in DOMAIN der.order /\ Acts(der, i, call)
    BY <1>2, DecidingIs DEF Deciding
  <2>2. Deciding(der, call) = {}
    BY <1>1, <1>5, <2>1
  <2>3. QED
    BY <1>2, <1>3, <1>5, <2>2, DecisionIs
<1>6. CASE call.trace \notin truth.loops /\ rules # {}
  <2>1. PICK k \in DOMAIN der.order : Acts(der, k, call)
    BY <1>1, <1>2, <1>6
  <2>2. PICK i \in Deciding(der, call) : TRUE
    BY <1>2, <2>1, OneDecides
  <2>3. i \in DOMAIN der.order
    BY DEF Deciding
  <2>4. Acts(der, i, call) /\ \A j : Acts(der, j, call) => Ahead(der, i, j)
    BY <1>2, <2>3, DecidingIs
  <2>5. \A m, j \in DOMAIN der.order :
          Ahead(der, m, j) <=>
            \/ PassOf(der.order[m]) < PassOf(der.order[j])
            \/ /\ PassOf(der.order[m]) = PassOf(der.order[j])
               /\ ~Before(der.order[j], der.order[m])
    <3>1. \A m, j \in DOMAIN der.order : m <= j <=> ~Before(der.order[j], der.order[m])
      BY <1>2
    <3>2. QED
      BY <3>1 DEF Ahead
  <2>6. \A m \in DOMAIN der.order :
          First(der.order[m], rules) <=> \A j : Acts(der, j, call) => Ahead(der, m, j)
    <3>1. \A j : Acts(der, j, call) => j \in DOMAIN der.order
      BY DEF Acts
    <3>2. \A m \in DOMAIN der.order :
            First(der.order[m], rules) <=>
              \A j \in DOMAIN der.order : der.order[j] \in rules => Ahead(der, m, j)
      BY <1>2, <2>5 DEF First
    <3>3. QED
      BY <1>1, <3>1, <3>2
  <2>7. der.order[i] \in rules /\ First(der.order[i], rules)
    BY <1>1, <2>3, <2>4, <2>6
  <2>8. ASSUME NEW r \in rules, First(r, rules) PROVE r = der.order[i]
    <3>1. PICK m \in DOMAIN der.order : der.order[m] = r
      BY <1>2
    <3>2. Acts(der, m, call) /\ Ahead(der, m, i)
      BY <1>1, <2>4, <2>6, <2>8, <3>1
    <3>3. m = i
      BY <1>2, <2>3, <2>4, <3>2, AheadIs
    <3>4. QED
      BY <3>1, <3>3
  <2>9. (CHOOSE r \in rules : First(r, rules)) = der.order[i]
    BY <2>7, <2>8
  <2>10. Decision(der, call) = Verdict(Outcome(der.order[i].kind), der.order[i].id)
    BY <1>2, <1>6, DecisionIs
  <2>11. QED
    BY <1>3, <1>6, <2>9, <2>10
<1>7. QED
  BY <1>4, <1>5, <1>6

-------------------------------------------------------------------------------
(* The audit of a dry run.                                                   *)

\* The i-th directive acts where it hits, and all else is as it was.
InForceToo(der2, der, i, call) ==
  /\ Placed(der2) /\ DOMAIN der2.order = DOMAIN der.order /\ der2.loops = der.loops
  /\ \A j \in DOMAIN der.order : /\ der2.order[j].id = der.order[j].id
                                 /\ der2.order[j].kind = der.order[j].kind
                                 /\ PassOf(der2.order[j]) = PassOf(der.order[j])
  /\ \A j : Acts(der2, j, call) <=>
       /\ j \in DOMAIN der.order /\ j \in Hits(der, der.order[j].kind, call)
       /\ der.order[j].mode = "enforce" \/ j = i

\* A directive switched into force acts, and does nothing else to the others.
LEMMA SwitchedActs ==
  ASSUME NEW der, NEW call, Placed(der), NEW i \in DOMAIN der.order,
         NEW der2, der2 = Switched(der, i, "enforce"), DOMAIN der = {"order", "lists", "loops"}
  PROVE  InForceToo(der2, der, i, call)
<1> DEFINE d == [der.order[i] EXCEPT !.mode = "enforce"]
           order == [der.order EXCEPT ![i] = d]
<1>1. der.order[i] \in Directive
  BY DEF Placed
<1>2. /\ d \in Directive /\ d.id = der.order[i].id /\ d.kind = der.order[i].kind
      /\ d.on = der.order[i].on /\ d.to = der.order[i].to /\ d.mode = "enforce"
  BY <1>1 DEF Directive, Modes
<1>3. der2.order = order /\ der2.lists = der.lists /\ der2.loops = der.loops
  BY DEF Switched
<1> HIDE DEF d
<1>4. /\ DOMAIN order = DOMAIN der.order /\ order[i] = d
      /\ \A j \in DOMAIN der.order : j # i => order[j] = der.order[j]
  OBVIOUS
<1> HIDE DEF order
<1>5. \A j \in DOMAIN der.order :
        /\ order[j] \in Directive /\ order[j].id = der.order[j].id
        /\ order[j].kind = der.order[j].kind /\ order[j].on = der.order[j].on
        /\ order[j].to = der.order[j].to
        /\ order[j].mode = "enforce" <=> der.order[j].mode = "enforce" \/ j = i
  BY <1>2, <1>4 DEF Placed
<1>6. Placed(der2)
  BY <1>3, <1>4, <1>5 DEF Placed
<1>7. \A j \in DOMAIN der.order : PassOf(order[j]) = PassOf(der.order[j])
  BY <1>5 DEF PassOf
<1>8. ASSUME NEW j \in DOMAIN der.order
      PROVE  j \in Hits(der2, order[j].kind, call) <=> j \in Hits(der, der.order[j].kind, call)
  <2>1. /\ Selected(order[j], call) <=> Selected(der.order[j], call)
        /\ Servable(order[j], call) <=> Servable(der.order[j], call)
    BY <1>5 DEF Selected, Servable
  <2>2. QED
    BY <1>3, <1>4, <1>5, <2>1 DEF Hits
<1>9. \A j : Acts(der2, j, call) <=>
               /\ j \in DOMAIN der.order /\ j \in Hits(der2, order[j].kind, call)
               /\ order[j].mode = "enforce"
  BY <1>3, <1>4 DEF Acts, Acting, InForce
<1>10. QED
  BY <1>3, <1>4, <1>5, <1>6, <1>7, <1>8, <1>9 DEF InForceToo

\* A dry-run rule is observed as acting exactly if it would decide the call were
\* it in force.
LEMMA DryRunIsHonest ==
  ASSUME NEW der, NEW call, Placed(der), Derived(der),
         DOMAIN der = {"order", "lists", "loops"},
         NEW i \in DOMAIN der.order, der.order[i].mode = "dry_run"
  PROVE  [rule |-> der.order[i].id, outcome |-> Would(der.order[i].kind)]
           \in Observations(der, call)
         <=> Decision(Switched(der, i, "enforce"), call) =
               Verdict(Outcome(der.order[i].kind), der.order[i].id)
<1> SUFFICES ASSUME NEW der2, der2 = Switched(der, i, "enforce")
             PROVE  [rule |-> der.order[i].id, outcome |-> Would(der.order[i].kind)]
                      \in Observations(der, call)
                    <=> Decision(der2, call) =
                          Verdict(Outcome(der.order[i].kind), der.order[i].id)
  OBVIOUS
<1> DEFINE d    == der.order[i]
           hits(j) == j \in Hits(der, der.order[j].kind, call)
           seen == [rule |-> d.id, outcome |-> Would(d.kind)]
<1>1. /\ Placed(der2) /\ DOMAIN der2.order = DOMAIN der.order /\ der2.loops = der.loops
      /\ \A j \in DOMAIN der.order : /\ der2.order[j].id = der.order[j].id
                                     /\ der2.order[j].kind = der.order[j].kind
                                     /\ PassOf(der2.order[j]) = PassOf(der.order[j])
      /\ \A j : Acts(der2, j, call) <=> /\ j \in DOMAIN der.order /\ hits(j)
                                        /\ der.order[j].mode = "enforce" \/ j = i
  <2>1. InForceToo(der2, der, i, call)
    BY SwitchedActs
  <2>2. QED
    BY <2>1 DEF InForceToo
<1>2. /\ \A j, k \in DOMAIN der.order : der.order[j].id = der.order[k].id => j = k
      /\ \A j \in DOMAIN der.order : der.order[j].id # None
  BY DraftsAssumption DEF Placed, Directive
<1>3. \A j : Acts(der, j, call) <=> /\ j \in DOMAIN der.order /\ hits(j)
                                    /\ der.order[j].mode = "enforce"
  BY DEF Acts, Acting, InForce
<1>4. \A j, k \in DOMAIN der.order : Ahead(der2, j, k) <=> Ahead(der, j, k)
  BY <1>1 DEF Ahead
<1>5. i \in Deciding(der2, call) <=> hits(i) /\ \A j : Acts(der, j, call) => Ahead(der, i, j)
  <2>1. i \in Deciding(der2, call) <=>
          Acts(der2, i, call) /\ \A j : Acts(der2, j, call) => Ahead(der2, i, j)
    BY <1>1, DecidingIs
  <2>2. Ahead(der, i, i)
    BY AheadIs
  <2> HIDE DEF hits
  <2>3. QED
    BY <1>1, <1>3, <1>4, <2>1, <2>2
<1>6. Decision(der2, call) = Verdict(Outcome(d.kind), d.id)
        <=> call.trace \notin der.loops /\ i \in Deciding(der2, call)
  <2>1. \A status, status2, rule, rule2 :
          Verdict(status, rule) = Verdict(status2, rule2) => rule = rule2
    BY DEF Verdict
  <2>2. CASE call.trace \in der.loops
    <3>1. Decision(der2, call) = Verdict("blocked", None)
      BY <1>1, <2>2 DEF Decision
    <3>2. QED
      BY <1>2, <2>1, <2>2, <3>1
  <2>3. CASE call.trace \notin der.loops /\ Deciding(der2, call) = {}
    <3>1. Decision(der2, call) = Verdict("allowed", None)
      BY <1>1, <2>3, DecisionIs
    <3>2. QED
      BY <1>2, <2>1, <2>3, <3>1
  <2>4. ASSUME call.trace \notin der.loops, NEW k \in Deciding(der2, call)
        PROVE  Decision(der2, call) = Verdict(Outcome(d.kind), d.id)
                 <=> i \in Deciding(der2, call)
    <3>1. \A j \in Deciding(der2, call) :
            /\ Decision(der2, call) = Verdict(Outcome(der2.order[j].kind), der2.order[j].id)
            /\ j \in DOMAIN der.order
      BY <1>1, <2>4, DecisionIs DEF Deciding
    <3>2. \A j \in Deciding(der2, call) :
            Decision(der2, call) = Verdict(Outcome(der.order[j].kind), der.order[j].id)
      BY <1>1, <3>1
    <3>3. Decision(der2, call) = Verdict(Outcome(d.kind), d.id) => k = i
      BY <1>2, <2>1, <2>4, <3>1, <3>2
    <3>4. QED
      BY <2>4, <3>2, <3>3
  <2>5. QED
    BY <2>2, <2>3, <2>4
<1>7. i \in Visited(der, call) <=>
        call.trace \notin der.loops /\ \A j : Acts(der, j, call) => Ahead(der, i, j)
  <2>1. i \in Visited(der, call) <=>
          call.trace \notin der.loops /\ \A j \in Deciding(der, call) : Ahead(der, i, j)
    BY DEF Visited, Ahead
  <2>2. \A k \in Deciding(der, call) :
          k \in DOMAIN der.order /\ Acts(der, k, call)
          /\ \A j : Acts(der, j, call) => Ahead(der, k, j)
    BY DecidingIs DEF Deciding
  <2>3. ASSUME \A k \in Deciding(der, call) : Ahead(der, i, k), NEW j, Acts(der, j, call)
        PROVE  Ahead(der, i, j)
    <3>1. PICK k \in Deciding(der, call) : TRUE
      BY <2>3, OneDecides
    <3>2. Ahead(der, i, k) /\ Ahead(der, k, j) /\ k \in DOMAIN der.order
          /\ j \in DOMAIN der.order
      BY <2>2, <2>3, <3>1 DEF Acts
    <3>3. QED
      BY <3>2, AheadIs
  <2>4. QED
    BY <2>1, <2>2, <2>3
<1>8. seen \in Observations(der, call) <=> i \in Visited(der, call) /\ hits(i)
  <2> DEFINE tell(j) == [rule |-> der.order[j].id, outcome |-> Would(der.order[j].kind)]
             live == {j \in Visited(der, call) : /\ der.order[j].mode = "dry_run"
                                                 /\ j \in Hits(der, der.order[j].kind, call)}
             rejected == {j \in Visited(der, call) :
                            LET e == der.order[j]
                            IN  /\ e.kind = "REROUTE" /\ Selected(e, call)
                                /\ Listed(der.lists[j], call) /\ ~Servable(e, call)}
  <2>1. Observations(der, call) =
          {tell(j) : j \in live}
          \union {[rule |-> der.order[j].id, outcome |-> "reroute_rejected"] : j \in rejected}
    BY DEF Observations
  <2>2. ASSUME NEW j PROVE seen # [rule |-> der.order[j].id, outcome |-> "reroute_rejected"]
    <3>1. Would(d.kind) # "reroute_rejected"
      BY DEF Would
    <3>2. QED
      BY <3>1
  <2>3. seen \in Observations(der, call) <=> \E j \in live : seen = tell(j)
    BY <2>1, <2>2
  <2>4. \A j \in live : j \in DOMAIN der.order /\ (seen = tell(j) => j = i)
    BY <1>2 DEF Visited
  <2>5. seen = tell(i) /\ (i \in live <=> i \in Visited(der, call) /\ hits(i))
    OBVIOUS
  <2> HIDE DEF seen, tell, live
  <2>6. QED
    BY <2>3, <2>4, <2>5
<1>9. QED
  BY <1>5, <1>6, <1>7, <1>8

\* Whatever rules the service sets and however they change, a healthy pack
\* decides every call as the rules themselves would, and the audit of a dry run
\* neither invents nor hides an effect.
THEOREM PackAlwaysTellsTruth == Spec => []PackTellsTruth
<1>1. ASSUME IInv, Mirror PROVE PackTellsTruth
  <2> SUFFICES ASSUME healthy, NEW call \in Calls
               PROVE  /\ Decision(pack.derived, call) = Right(call)
                      /\ \A i \in DOMAIN pack.derived.order :
                           pack.derived.order[i].mode = "dry_run" =>
                             ([rule |-> pack.derived.order[i].id,
                               outcome |-> Would(pack.derived.order[i].kind)]
                                \in Observations(pack.derived, call)
                              <=> Decision(Switched(pack.derived, i, "enforce"), call) =
                                    Verdict(Outcome(pack.derived.order[i].kind),
                                            pack.derived.order[i].id))
    BY DEF PackTellsTruth, Readable
  <2>1. Renders(pack.derived, truth.rules, truth.loops)
    BY <1>1, PackRenders
  <2>2. Placed(pack.derived) /\ Derived(pack.derived)
    BY <2>1 DEF Renders
  <2>3. DOMAIN pack.derived = {"order", "lists", "loops"}
    BY <1>1 DEF IInv, Fresh, Derive
  <2>4. QED
    BY <2>1, <2>2, <2>3, RendersRight, DryRunIsHonest
<1>2. QED
  BY <1>1, Inductive, Mirrored, PTL DEF Spec
===============================================================================
