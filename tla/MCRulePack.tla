------------------------------ MODULE MCRulePack ------------------------------
(* Instances of RulePack for TLC. *)
EXTENDS RulePack, TLC

MCCanon   == "together" :> "together" @@ "together_ai" :> "together" @@ "openai" :> "openai"
MCUndated == "small" :> "small" @@ "medium" :> "medium" @@ "big" :> "big"
             @@ "big-dated" :> "big"

\* Alice pins a dated model; bob's calls loop, go through a custom host, or to
\* another provider.
MCCall(tag, trace, provider, model, unverified) ==
  [tag |-> tag, trace |-> trace, provider |-> provider, model |-> model,
   unverified |-> unverified]
Pinned  == MCCall("alice", None, "together_ai", "big-dated", FALSE)
Plain   == MCCall("bob", "t1", "together", "medium", FALSE)
Custom  == MCCall("alice", None, "together", "medium", TRUE)
Foreign == MCCall("alice", "t1", "openai", "medium", FALSE)
MCCalls == {Pinned, Plain, Custom, Foreign}
MCTags  == {"alice"}

MCDraft(kind, priority, mode, on, gated, to) ==
  [kind |-> kind, priority |-> priority, mode |-> mode, on |-> on,
   gated |-> gated, to |-> to]
To(provider, model) == [provider |-> provider, model |-> model]

MCDrafts ==
  {MCDraft("UNCONDITIONAL_BLOCK", 2, "enforce", {Plain}, FALSE, None),
   MCDraft("UNCONDITIONAL_BLOCK", 1, "dry_run", MCCalls, FALSE, None),
   MCDraft("ENTITY_BLOCK", 1, "enforce", MCCalls, TRUE, None),
   MCDraft("REROUTE", 1, "enforce", MCCalls, TRUE, To("together", "small")),
   MCDraft("REROUTE", 2, "dry_run", MCCalls, FALSE, To("together_ai", "big"))}
===============================================================================
