------------------------------- MODULE RulePack -------------------------------
(***************************************************************************)
(* The content of the Decision Pack and what evaluating it decides.        *)
(*                                                                         *)
(* PackStream treats a delta as one opaque change.  Here a delta is a list *)
(* of operations that apply_deltas performs under _pack_lock on copies of  *)
(* the pack's lists, keeping a position index by hand, and the pack holds  *)
(* directives that local_evaluator decides calls by, through structures    *)
(* derived once per pack.                                                  *)
(*                                                                         *)
(* An operation is delivered in order; loss and repetition are             *)
(* PackStream's subject.                                                   *)
(***************************************************************************)
EXTENDS Naturals, Sequences, FiniteSets, FiniteSetsExt, SequencesExt

CONSTANTS
  Ids,       \* rule ids, ordered as numbers
  Tags,      \* group-by tags the service may arm
  Calls,     \* calls, [tag, trace, provider, model, unverified]
  Drafts,    \* what a rule may say, [kind, priority, mode, on, gated, to]
  NoList,    \* a directive without an `entities` key
  None,      \* no trace, no target, no deciding rule
  Canon,     \* provider slug -> canonical slug (effective_provider)
  Undated,   \* model -> model without its snapshot date (strip_date_suffix)
  MaxOps     \* operations of one delta

Kinds  == {"UNCONDITIONAL_BLOCK", "ENTITY_BLOCK", "REROUTE"}
Modes  == {"enforce", "dry_run"}
Traces == {c.trace : c \in Calls} \ {None}
Target == [provider : DOMAIN Canon, model : DOMAIN Undated]

Lists == (SUBSET Tags) \union {NoList}
Directive == [id : Ids, kind : Kinds, priority : Nat, mode : Modes,
              on : SUBSET Calls, to : Target \union {None}, entities : Lists]

ASSUME DraftsAssumption ==
  /\ Ids \subseteq Nat /\ MaxOps \in Nat
  /\ \A r \in Drafts :
       /\ r.kind \in Kinds /\ r.mode \in Modes /\ r.priority \in Nat
       /\ r.on \subseteq Calls /\ r.to \in Target \union {None}
       /\ r.gated \in BOOLEAN
       \* An entity block without entities would block nobody.
       /\ r.kind = "ENTITY_BLOCK" => r.gated
       /\ r.kind = "UNCONDITIONAL_BLOCK" => ~r.gated
  /\ None \notin Ids /\ \A list \in SUBSET Tags : list # NoList
  /\ \A c \in Calls : /\ c.unverified \in BOOLEAN
                      /\ c.provider \in DOMAIN Canon /\ c.model \in DOMAIN Undated

VARIABLES
  pack,      \* [directives, loops, derived]: the pack evaluators are handed
  healthy,   \* a pack is there and _cache_invalid is not set
  work,      \* the delta being applied, or None
  truth      \* [rules, loops]: what the service has said, in order, so far

vars == <<pack, healthy, work, truth>>

Truth == [rules : SUBSET Directive, loops : SUBSET Traces]
\* said: what the service has once the operations so far count; left: how many
\* more this delta may hold.
WorkOn(ids) == [directives : Seq(Directive), index : [ids -> Nat],
                loops : SUBSET Traces, said : Truth, left : 0 .. MaxOps]

-------------------------------------------------------------------------------
(* Deciding a call.                                                          *)

Before(d, e) == d.priority < e.priority \/ (d.priority = e.priority /\ d.id < e.id)

EntitySet(d) ==
  CASE d.kind = "ENTITY_BLOCK" -> IF d.entities = NoList THEN {} ELSE d.entities
    [] d.kind = "REROUTE"      -> d.entities
    [] OTHER                   -> NoList

\* _sorted_directives: the i-th is the one that i - 1 come before.
Sorted(directives) ==
  [i \in 1 .. Len(directives) |->
     CHOOSE d \in Range(directives) :
       Cardinality({e \in Range(directives) : Before(e, d)}) = i - 1]

\* _build_derived_raw: directives in evaluation order, their entity sets frozen.
Derive(directives, loops) ==
  LET order == Sorted(directives)
  IN  [order |-> order, lists |-> [i \in DOMAIN order |-> EntitySet(order[i])],
       loops |-> loops]

Noop(requested, target) == requested = target \/ Undated[requested] = target

Servable(d, call) == ~call.unverified /\ Canon[d.to.provider] = Canon[call.provider]

\* The selector matches, and a reroute has somewhere to go.
Selected(d, call) == call \in d.on /\ (d.kind = "REROUTE" => d.to # None)
Listed(list, call) == list = NoList \/ call.tag \in list

\* The positions of a kind's directives that would act on a call if in force.
Hits(der, kind, call) ==
  {i \in DOMAIN der.order :
    LET d == der.order[i]
    IN  /\ d.kind = kind /\ Selected(d, call) /\ Listed(der.lists[i], call)
        /\ kind = "REROUTE" => Servable(d, call) /\ ~Noop(call.model, d.to.model)}

InForce(der, positions) == {i \in positions : der.order[i].mode = "enforce"}
Acting(der, kind, call) == InForce(der, Hits(der, kind, call))

Verdict(status, rule) == [status |-> status, rule |-> rule]

Passes == <<"UNCONDITIONAL_BLOCK", "ENTITY_BLOCK", "REROUTE">>
Outcome(kind) == IF kind = "REROUTE" THEN "rerouted" ELSE "blocked"
Would(kind)   == IF kind = "REROUTE" THEN "would_reroute" ELSE "would_block"

\* Where the passes stop: the first directive in force that acts, in the
\* earliest pass that has one.  At most one position.
Deciding(der, call) ==
  {i \in DOMAIN der.order :
    LET d == der.order[i]
    IN  /\ i \in Acting(der, d.kind, call) /\ i = Min(Acting(der, d.kind, call))
        /\ \A p, q \in DOMAIN Passes :
             d.kind = Passes[q] /\ p < q => Acting(der, Passes[p], call) = {}}

\* evaluate(): a looping trace is blocked before any directive is looked at.
Decision(der, call) ==
  IF call.trace \in der.loops THEN Verdict("blocked", None)
  ELSE IF Deciding(der, call) = {} THEN Verdict("allowed", None)
  ELSE LET d == der.order[Min(Deciding(der, call))]
       IN  Verdict(Outcome(d.kind), d.id)

PassOf(d) == CHOOSE p \in DOMAIN Passes : Passes[p] = d.kind

\* The positions the passes come to before one decides.
Visited(der, call) ==
  {i \in DOMAIN der.order :
    /\ call.trace \notin der.loops
    /\ \A j \in Deciding(der, call) :
         \/ PassOf(der.order[i]) < PassOf(der.order[j])
         \/ PassOf(der.order[i]) = PassOf(der.order[j]) /\ i <= j}

\* The observations: what dry-run directives would have done, and reroutes that
\* could not be applied, whatever their mode.
Observations(der, call) ==
  {[rule |-> der.order[i].id, outcome |-> Would(der.order[i].kind)] :
     i \in {j \in Visited(der, call) : /\ der.order[j].mode = "dry_run"
                                       /\ j \in Hits(der, der.order[j].kind, call)}}
  \union
  {[rule |-> der.order[i].id, outcome |-> "reroute_rejected"] :
     i \in {j \in Visited(der, call) :
              LET d == der.order[j]
              IN  /\ d.kind = "REROUTE" /\ Selected(d, call)
                  /\ Listed(der.lists[j], call) /\ ~Servable(d, call)}}

\* Mutant of ArmableMiss: entity-gated reroutes are forgotten.
ArmableMissBlocksOnly(der, call) ==
  /\ Decision(der, call).status = "allowed"
  /\ \E i \in DOMAIN der.order :
       LET d == der.order[i]
       IN  d.kind = "ENTITY_BLOCK" /\ d.mode = "enforce"
           /\ Selected(d, call) /\ ~Listed(der.lists[i], call)

\* armable_miss: the call was allowed, but an entity-gated directive in force
\* selected it and only its list kept it from acting.
ArmableMiss(der, call) ==
  /\ Decision(der, call).status = "allowed"
  /\ \E i \in DOMAIN der.order :
       LET d == der.order[i]
       IN  d.kind # "UNCONDITIONAL_BLOCK" /\ d.mode = "enforce"
           /\ Selected(d, call) /\ ~Listed(der.lists[i], call)

-------------------------------------------------------------------------------
(* Snapshots and deltas.                                                     *)

\* dir_by_id.
Index(directives) ==
  [id \in {d.id : d \in Range(directives)} |->
     CHOOSE i \in DOMAIN directives : directives[i].id = id]

\* A rule as the service keeps it, and what a draft makes of it: the armed tags
\* stay while the rule keeps its kind.
Known(rules) == {d.id : d \in rules}
Drafted(id, draft, entities) ==
  [id |-> id, kind |-> draft.kind, priority |-> draft.priority,
   mode |-> draft.mode, on |-> draft.on, to |-> draft.to, entities |-> entities]

NoPack == [directives |-> <<>>, loops |-> {}, derived |-> Derive(<<>>, {})]

Init ==
  /\ truth = [rules |-> {}, loops |-> {}]
  /\ pack = NoPack
  /\ healthy = FALSE
  /\ work = None

\* apply_snapshot: the service's list in some order, its derived structures with it.
ApplySnapshot ==
  /\ work = None
  /\ \E directives \in SetToSeqs(truth.rules) :
       pack' = [directives |-> directives, loops |-> truth.loops,
                derived |-> Derive(directives, truth.loops)]
  /\ healthy' = TRUE
  /\ UNCHANGED <<work, truth>>

\* apply_deltas copies the lists and indexes them; the lock is held until Commit
\* or a poisoning.
BeginDelta ==
  /\ work = None /\ healthy
  /\ work' = [directives |-> pack.directives, index |-> Index(pack.directives),
              loops |-> pack.loops, said |-> truth, left |-> MaxOps]
  /\ UNCHANGED <<pack, healthy, truth>>

Op(rest, said) ==
  /\ work.left > 0
  /\ work' = [rest EXCEPT !.said = said, !.left = @ - 1]
  /\ UNCHANGED <<pack, healthy, truth>>

\* Mutant of Carried: a full replace.
CarriedNot(prev, d) == d

\* The directive that stands in the list after an upsert: an omitted list is
\* carried forward while the kind is unchanged.
Carried(prev, d) ==
  IF d.entities = NoList /\ prev.kind = d.kind
     /\ d.kind \in {"ENTITY_BLOCK", "REROUTE"} /\ prev.entities # NoList
  THEN [d EXCEPT !.entities = prev.entities] ELSE d

\* What the service then has for the rule.
Kept(id, draft) ==
  LET was == {d \in work.said.rules : d.id = id /\ d.kind = draft.kind
                                      /\ d.entities # NoList}
  IN  IF ~draft.gated THEN NoList
      ELSE IF was = {} THEN {} ELSE (CHOOSE d \in was : TRUE).entities

\* The service leaves the list out only where leaving it out says the same:
\* of a rule that has one and keeps it, or of one that has none and gets none.
Omissible(id, draft) ==
  LET gatedBefore == \E d \in work.said.rules :
                       d.id = id /\ d.kind = draft.kind /\ d.entities # NoList
  IN  draft.gated <=> gatedBefore

\* directive_upserted.
Upsert(id, draft, listed) ==
  LET kept == Kept(id, draft)
      d    == Drafted(id, draft, IF listed THEN kept ELSE NoList)
      said == [work.said EXCEPT !.rules =
                 {r \in @ : r.id # id} \union {Drafted(id, draft, kept)}]
  IN  /\ work # None
      /\ IF listed THEN draft.gated ELSE Omissible(id, draft)
      /\ \/ /\ id \in DOMAIN work.index
            /\ LET at == work.index[id]
               IN  Op([work EXCEPT !.directives[at] = Carried(@, d)], said)
         \/ /\ id \notin DOMAIN work.index
            /\ LET longer == Append(work.directives, d)
               IN  Op([work EXCEPT !.directives = longer, !.index = Index(longer)], said)

\* Mutants of Without: the directive's place stays, empty; the positions behind
\* the removed directive go stale.
WithoutHole(w, id) ==
  [w EXCEPT !.directives[w.index[id]] = None,
            !.index = [other \in DOMAIN @ \ {id} |-> @[other]]]
WithoutStaleIndex(w, id) ==
  [w EXCEPT !.directives = RemoveAt(@, w.index[id]),
            !.index = [other \in DOMAIN @ \ {id} |-> @[other]]]
Without(w, id) ==
  LET rest == RemoveAt(w.directives, w.index[id])
  IN  [w EXCEPT !.directives = rest, !.index = Index(rest)]

\* directive_removed.
RemoveRule(id) ==
  /\ work # None /\ id \in DOMAIN work.index
  /\ Op(Without(work, id), [work.said EXCEPT !.rules = {r \in @ : r.id # id}])

\* entity_blocked, entity_rerouted and their opposites.
Arm(id, tag, on) ==
  /\ work # None /\ id \in DOMAIN work.index
  /\ \E r \in work.said.rules : r.id = id /\ r.entities # NoList
  /\ LET change(d) ==
           LET list == IF d.entities = NoList THEN {} ELSE d.entities
           IN  [d EXCEPT !.entities = IF on THEN list \union {tag} ELSE list \ {tag}]
     IN  Op([work EXCEPT !.directives[work.index[id]] = change(@)],
            [work.said EXCEPT !.rules =
               {IF r.id = id THEN change(r) ELSE r : r \in @}])

\* loop_blocked and loop_unblocked.
Loop(trace, on) ==
  /\ work # None
  /\ LET change(loops) == IF on THEN loops \union {trace} ELSE loops \ {trace}
     IN  Op([work EXCEPT !.loops = change(@)], [work.said EXCEPT !.loops = change(@)])

\* An operation that cannot be performed, the removal of a rule the pack does
\* not hold or one that raises, poisons the pack.  Its content stays, but nobody
\* reads it before the next snapshot replaces it: it is forgotten here.
Poison ==
  /\ work # None /\ work.left > 0
  /\ healthy' = FALSE /\ work' = None /\ truth' = work.said
  /\ pack' = NoPack

Committed(w) ==
  [directives |-> w.directives, loops |-> w.loops,
   derived |-> Derive(w.directives, w.loops)]

\* The new pack, with the structures derived from it, replaces the old at once.
Commit ==
  /\ work # None /\ work.left < MaxOps
  /\ pack' = Committed(work)
  /\ truth' = work.said /\ work' = None
  /\ UNCHANGED healthy

Next ==
  \/ ApplySnapshot \/ BeginDelta \/ Poison \/ Commit
  \/ \E id \in Ids :
       \/ \E draft \in Drafts, listed \in BOOLEAN : Upsert(id, draft, listed)
       \/ RemoveRule(id)
       \/ \E tag \in Tags, on \in BOOLEAN : Arm(id, tag, on)
  \/ \E trace \in Traces, on \in BOOLEAN : Loop(trace, on)

Spec == Init /\ [][Next]_vars

-------------------------------------------------------------------------------
(* What the pack promises. *)

TypeOK ==
  /\ pack.directives \in Seq(Directive) /\ pack.loops \subseteq Traces
  /\ healthy \in BOOLEAN
  /\ truth \in Truth
  /\ work = None \/ \E ids \in SUBSET Ids : work \in WorkOn(ids)

\* The hand-kept index knows exactly the listed rules and points at each, after
\* every operation of a delta: an edit or an arming never lands on another rule
\* (dir_by_id across directive_removed).
PointsAtRules(index, directives) ==
  /\ DOMAIN index = Known(Range(directives))
  /\ \A id \in DOMAIN index :
       index[id] \in DOMAIN directives /\ directives[index[id]].id = id
IndexPointsAtRule == work # None => PointsAtRules(work.index, work.directives)

\* The reference: of the service's rules in force that apply to the call, the
\* one that comes first by kind, priority and id.
Applies(r, call) ==
  /\ r.mode = "enforce" /\ call \in r.on
  /\ r.entities # NoList => call.tag \in r.entities
  /\ r.kind = "REROUTE" =>
       /\ r.to # None /\ ~call.unverified
       /\ Canon[r.to.provider] = Canon[call.provider]
       /\ r.to.model \notin {call.model, Undated[call.model]}
First(r, others) ==
  \A q \in others : PassOf(r) < PassOf(q) \/ (PassOf(r) = PassOf(q) /\ ~Before(q, r))
Right(call) ==
  LET rules == {r \in truth.rules : Applies(r, call)}
  IN  IF call.trace \in truth.loops THEN Verdict("blocked", None)
      ELSE IF rules = {} THEN Verdict("allowed", None)
      ELSE LET r == CHOOSE r \in rules : First(r, rules)
           IN  Verdict(Outcome(r.kind), r.id)

\* get_pack hands the pack out: it waits for the lock.
Readable == healthy /\ work = None

Switched(der, i, mode) == [der EXCEPT !.order[i].mode = mode]

\* A healthy pack, however many deltas it is away from its last snapshot,
\* decides every call as the service's own rules would: no edit, removal or
\* arming is lost or lands on another rule (apply_deltas, evaluate).  And a
\* dry-run directive is observed as acting exactly if it would decide the call
\* were it in force: the audit neither invents nor hides an effect.
PackTellsTruth ==
  Readable => \A call \in Calls :
    /\ Decision(pack.derived, call) = Right(call)
    /\ \A i \in DOMAIN pack.derived.order :
         LET d == pack.derived.order[i]
             would == Verdict(Outcome(d.kind), d.id)
             seen  == [rule |-> d.id, outcome |-> Would(d.kind)]
         IN  d.mode = "dry_run" =>
               (seen \in Observations(pack.derived, call)
                  <=> Decision(Switched(pack.derived, i, "enforce"), call) = would)

\* An allowed call without an armable miss stays allowed whatever tags the
\* service arms: skipping the re-verification on a stale stream can hide no
\* entity rule (armable_miss, read by the enforcer's stale-stream gate).
MissIsSound ==
  Readable => \A call \in Calls :
    Decision(pack.derived, call).status = "allowed" /\ ~ArmableMiss(pack.derived, call)
      => \A armed \in SUBSET (DOMAIN pack.derived.order) :
           LET lists == [i \in DOMAIN pack.derived.order |->
                           IF i \in armed /\ pack.derived.lists[i] # NoList
                           THEN pack.derived.lists[i] \union {call.tag}
                           ELSE pack.derived.lists[i]]
           IN  Decision([pack.derived EXCEPT !.lists = lists], call).status = "allowed"
===============================================================================
