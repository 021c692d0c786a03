---------------------------- MODULE MCModelRouter ----------------------------
(* Instances of ModelRouter for TLC.                                       *)
EXTENDS ModelRouter

\* Model 3 belongs to a provider that is not registered.
MCProvider == <<"a", "b", "c">>
MCInfo(caps, input, output, price) ==
    [capabilities |-> caps, max_input_tokens |-> input, max_output_tokens |-> output,
     cost |-> [input |-> price, output |-> price]]
MCCatalog == <<MCInfo({"Text", "Vision"}, 8, 4, 2), MCInfo({"Text"}, 4, 6, 1)>>

Nothing == [m \in {} |-> 0]
Plain == [cost_overrides |-> Nothing, disabled_capabilities |-> Nothing,
          disabled_models |-> {}, custom_models |-> Nothing]
\* The reloaded registry has lost model 1 and has a dearer, blind model 2.
Trimmed == [Plain EXCEPT !.disabled_models = {1},
                         !.disabled_capabilities = [m \in {2} |-> {"Vision"}],
                         !.cost_overrides = [m \in {2} |-> [input |-> 3, output |-> 3]]]
MCOverlays == <<Plain, Trimmed>>

MCStrategy == <<"rule_based", "capability">>
\* Chat names a model twice, so that one request can both open its circuit and
\* probe it; with a second request both trial slots are taken.
MCRules == [i \in 1 .. 4 |-> [kind |-> "Chat", model |-> <<3, 1, 1, 2>>[i]]]

AnyText == [kind |-> NoKind, est_input_tokens |-> 1, est_output_tokens |-> 1,
            max_cost |-> 0, priority |-> "Quality", required |-> {"Text"},
            pin |-> NoModel, deadline |-> TRUE]
Chat == [AnyText EXCEPT !.kind = "Chat", !.deadline = FALSE]
Pinned == [AnyText EXCEPT !.pin = 1, !.deadline = FALSE]
MCTasks == {AnyText, Chat, Pinned}
ReloadTasks == {AnyText}
=============================================================================
