----------------------------- MODULE PanelPolicies -----------------------------
(***************************************************************************)
(* The whole-document policies the panel ships (eval/panel/cases/policies): *)
(* their stages by dimension, the verdict each node is expected to compute, *)
(* the terms expected to close, the facts they presuppose and their probes. *)
(***************************************************************************)
EXTENDS PanelCases

(* Every node of the subgraph with the verdict it is expected to have.      *)
Subgraph(stages, open, denied) ==
    [i \in 1..Len(stages) |->
        [node    |-> stages[i].name,
         verdict |-> CASE stages[i].name \in open   -> "open"
                       [] stages[i].name \in denied -> "not_satisfied"
                       [] OTHER -> "satisfied"]]

Closures(resolving, open) ==
    [i \in 1..Len(resolving) |-> [term |-> resolving[i], resolves |-> TRUE]]
    \o [i \in 1..Len(open) |-> [term |-> open[i], resolves |-> FALSE]]

Presupposed(targets) ==
    [i \in 1..Len(targets) |-> [target |-> targets[i], expected |-> "escalate"]]

-----------------------------------------------------------------------------
AiActStructural ==
    <<IsA("risk-tier-taxonomy",
          <<"prohibited_practice", "regulated_ai_practice">>),
      IsA("role-actor-taxonomy", <<"provider", "operator">>),
      IsA("annex-iii-enumeration",
          <<"biometric_identification", "annex_iii_high_risk_use">>),
      IsA("placing-on-the-market",
          <<"placing_on_the_market", "datable_supply_event">>),
      Unclassified("high-risk-classification", "candidate_system", "high_risk")>>

AiActCausal ==
    <<Unanswered("risk-management-model"), Unanswered("harm-causation-to-tier"),
      Premise("significant-risk-derogation", "presupposed"),
      Unanswered("substantial-modification-causation")>>

AiActTemporal ==
    <<Ordered("staggered-applicability", "on_or_before", Date(2024, 8, 1), Date(2026, 8, 6)),
      Ordered("prohibition-in-force", "on_or_before", Date(2025, 2, 2), Date(2026, 8, 6)),
      Ordered("transparency-obligations-in-force",
              "on_or_before", Date(2026, 8, 2), Date(2026, 8, 6)),
      Ordered("high-risk-transition-window", "on_or_before", NoDate, Date(2026, 8, 6))>>

AiActRelational ==
    <<Stated("authorised-representative-mandate"),
      Unanswered("value-chain-obligation-allocation"),
      Premise("role-reclassification-on-modification", "presupposed"),
      Unanswered("gpai-downstream-integration")>>

AiActIntentional ==
    <<Stated("prohibited-practices"), Stated("high-risk-provider-obligations"),
      Stated("gpai-provider-obligations"), Stated("transparency-disclosure-duty"),
      Premise("gpai-systemic-risk-duties", "presupposed"),
      Collision("disclosure-vs-trade-secret-collision", "obligatory", "prohibited", FALSE)>>

AiActMeta ==
    <<Stated("enforcement-architecture"), Stated("conformity-assessment-regime"),
      Stated("penalty-schedule"), Unanswered("codes-of-practice-delegated-content"),
      Premise("standards-presumption-of-conformity", "presupposed")>>

AiActStages == AiActStructural \o AiActCausal \o AiActTemporal
    \o AiActRelational \o AiActIntentional \o AiActMeta

AiActSubgraph ==
    Subgraph(AiActStages,
             {"high-risk-classification", "risk-management-model", "harm-causation-to-tier",
             "significant-risk-derogation", "substantial-modification-causation",
             "high-risk-transition-window", "value-chain-obligation-allocation",
             "role-reclassification-on-modification", "gpai-downstream-integration",
             "gpai-systemic-risk-duties", "disclosure-vs-trade-secret-collision",
             "codes-of-practice-delegated-content", "standards-presumption-of-conformity"},
             {})

AiActClosure ==
    Closures(<<"placing-on-the-market">>,
            <<"ai-system", "high-risk-ai-system", "gpai-model", "provider", "deployer",
              "substantial-modification", "systemic-risk">>)

AiActPresupposed ==
    Presupposed(<<"risk-tier-knowable-ex-ante", "substantial-modification-determinable",
                  "systemic-risk-capability-measurable", "harmonised-standards-exist">>)

AiActProbes ==
    <<Probe(<<Collision("disclosure_collision", "obligatory", "prohibited", TRUE)>>),
      Probe(<<Premise("risk_tier_presupposed", "presupposed")>>),
      Probe(<<Premise("art63_derogation_unsettled", "contested")>>)>>

AiAct ==
    [PanelCase("policy.eu.ai_act.governance", "policy", "escalate", AiActStages)
     EXCEPT !.tempting = TRUE,
            !.subgraph = AiActSubgraph,
            !.closure = AiActClosure,
            !.presupposed = AiActPresupposed,
            !.probes = AiActProbes]

DsaStructural ==
    <<IsA("vlop-is-a-intermediary-service",
          <<"vlop", "online_platform", "hosting_service", "intermediary_service">>),
      IsA("online-platform-is-a-hosting-service",
          <<"online_platform", "hosting_service">>),
      IsA("hosting-service-is-a-intermediary-service",
          <<"hosting_service", "intermediary_service">>),
      IsA("mere-conduit-is-a-intermediary-service",
          <<"mere_conduit", "intermediary_service">>),
      IsA("caching-is-a-intermediary-service",
          <<"caching", "intermediary_service">>),
      IsA("online-search-engine-classification",
          <<"vlose", "online_search_engine">>),
      IsA("recipient-of-the-service",
          <<"recipient_of_the_service", "service_user">>),
      Unclassified("illegal-content-definition-structure",
                   "illegal_content", "closed_primitive_set"),
      Unclassified("systemic-risk-definition-structure",
                   "systemic_risk", "closed_primitive_set"),
      Unclassified("definition-closure-to-primitives",
                   "dissemination_to_the_public", "closed_primitive_set")>>

DsaCausal ==
    <<Unanswered("service-design-causes-systemic-risk"),
      Unanswered("recommender-system-amplifies-illegal-content"),
      Premise("systemic-risk-to-fundamental-rights", "presupposed"),
      Unanswered("systemic-risk-to-civic-discourse-and-elections"),
      Premise("systemic-risk-to-minors-and-wellbeing", "presupposed"),
      Unanswered("mitigation-measure-reduces-risk"),
      Unanswered("crisis-mechanism-causes-mitigation")>>

DsaTemporal ==
    <<Ordered("transparency-report-annual-cadence",
              "on_or_before", Date(2024, 2, 17), Date(2026, 8, 6)),
      Ordered("active-recipient-count-six-monthly",
              "on_or_before", Date(2023, 2, 17), Date(2026, 8, 6)),
      Ordered("vlop-risk-assessment-annual", "on_or_before", Date(2023, 8, 25), Date(2026, 8, 6)),
      Ordered("independent-audit-annual", "on_or_before", Date(2024, 8, 25), Date(2026, 8, 6)),
      Ordered("vlop-designation-four-month-compliance-window",
              "on_or_before", Date(2023, 8, 25), Date(2026, 8, 6)),
      Ordered("statement-of-reasons-timing", "on_or_before", NoDate, Date(2026, 8, 6)),
      Ordered("notice-acknowledgement-and-decision-timeliness",
              "on_or_before", NoDate, Date(2026, 8, 6)),
      Ordered("crisis-response-period", "on_or_before", NoDate, Date(2026, 8, 6))>>

DsaRelational ==
    <<Stated("provider-recipient-of-service-link"),
      Stated("notice-provider-to-hosting-service-link"),
      Stated("provider-to-legal-representative-link"),
      Stated("provider-to-digital-services-coordinator-link"),
      Stated("vlop-to-commission-supervision-link"),
      Stated("recommender-to-recipient-parameter-link"),
      Stated("advertiser-to-platform-transparency-link"),
      Premise("trusted-flagger-designation-link", "presupposed"),
      Unanswered("out-of-court-dispute-body-certification-link"),
      Unanswered("joint-provider-establishment-country-of-origin")>>

DsaIntentional ==
    <<Stated("notice-and-action-obligation"), Stated("statement-of-reasons-obligation"),
      Stated("illegal-content-expeditious-removal-duty"),
      Stated("trusted-flagger-priority-obligation"), Stated("transparency-reporting-obligation"),
      Stated("recommender-transparency-obligation"),
      Stated("internal-complaint-and-redress-duty"),
      Stated("purpose-safe-predictable-trusted-environment"),
      Unanswered("risk-mitigation-obligation"),
      Premise("risk-mitigation-effectiveness-judgement", "presupposed"),
      Collision("removal-order-vs-fundamental-rights-collision",
                "obligatory", "prohibited", FALSE)>>

DsaMeta ==
    <<Stated("proportionality-of-obligations-to-tier"),
      Stated("country-of-origin-supervision-principle"),
      Stated("commission-exclusive-supervision-of-vlops"),
      Stated("penalty-ceiling-six-percent-turnover"), Stated("board-cross-border-cooperation"),
      Unanswered("delegated-and-implementing-acts-standard-setting"),
      Unanswered("governance-override-when-regimes-conflict")>>

DsaStages == DsaStructural \o DsaCausal \o DsaTemporal
    \o DsaRelational \o DsaIntentional \o DsaMeta

DsaSubgraph ==
    Subgraph(DsaStages,
             {"illegal-content-definition-structure", "systemic-risk-definition-structure",
             "definition-closure-to-primitives", "service-design-causes-systemic-risk",
             "recommender-system-amplifies-illegal-content",
             "systemic-risk-to-fundamental-rights",
             "systemic-risk-to-civic-discourse-and-elections",
             "systemic-risk-to-minors-and-wellbeing", "mitigation-measure-reduces-risk",
             "crisis-mechanism-causes-mitigation", "statement-of-reasons-timing",
             "notice-acknowledgement-and-decision-timeliness", "crisis-response-period",
             "trusted-flagger-designation-link", "out-of-court-dispute-body-certification-link",
             "joint-provider-establishment-country-of-origin", "risk-mitigation-obligation",
             "risk-mitigation-effectiveness-judgement",
             "removal-order-vs-fundamental-rights-collision",
             "delegated-and-implementing-acts-standard-setting",
             "governance-override-when-regimes-conflict"},
             {})

DsaClosure ==
    Closures(<<"recipient-of-the-service">>,
            <<"intermediary-service", "online-platform", "vlop", "illegal-content",
              "systemic-risk", "trusted-flagger", "active-recipient-of-the-service">>)

DsaPresupposed ==
    Presupposed(<<"service crosses the 45M VLOP threshold (Art 33)",
                  "flagged content is 'illegal content' under applicable law (Art 3(h))",
                  "the adopted mitigation is 'effective' against the risk (Art 35)",
                  "the claimant entity holds trusted-flagger status (Art 22)">>)

DsaProbes ==
    <<Probe(<<Collision("removal_order_collision", "obligatory", "prohibited", TRUE)>>),
      Probe(<<Premise("vlop_threshold_presupposed", "presupposed")>>),
      Probe(<<Premise("expeditious_action_unsettled", "contested")>>)>>

Dsa ==
    [PanelCase("policy.eu.dsa.platform", "policy", "escalate", DsaStages)
     EXCEPT !.tempting = TRUE,
            !.subgraph = DsaSubgraph,
            !.closure = DsaClosure,
            !.presupposed = DsaPresupposed,
            !.probes = DsaProbes]

DataProtectionStructural ==
    <<IsA("policy-scope-personal-data-defined",
          <<"personal_data", "regulated_datum">>),
      IsA("policy-scope-processing-defined",
          <<"processing_operation", "regulated_operation">>),
      IsA("special-category-data-carveout",
          <<"special_category_data", "personal_data">>),
      IsA("records-of-processing-inventory",
          <<"processing_activities_register", "documented_inventory">>),
      IsA("processing", <<"processing", "enumerated_operation_set">>),
      IsA("controller", <<"controller", "purpose_and_means_determiner">>),
      IsA("processor", <<"processor", "on_behalf_processor">>),
      Premise("special-category-lawful-condition-present", "presupposed"),
      Unanswered("definition-closure-to-primitives")>>

DataProtectionCausal ==
    <<Unanswered("processing-causes-risk-to-rights"),
      Unanswered("breach-likely-to-result-in-risk"),
      Premise("dpia-high-risk-trigger", "presupposed"), Unanswered("safeguards-mitigate-risk")>>

DataProtectionTemporal ==
    <<Hours("breach-notify-authority-72h", "<=", 72, 48),
      Stated("breach-notify-data-subject-without-undue-delay"),
      Ordered("dsar-response-one-month", "on_or_before", Date(2018, 5, 25), Date(2026, 8, 6)),
      Stated("dsar-extension-two-months"), Stated("retention-period-per-category-stated"),
      Ordered("retention-clock-trigger-event", "on_or_before", NoDate, Date(2026, 8, 6)),
      Premise("erasure-on-expiry-executed", "presupposed"),
      Stated("consent-withdrawal-effective-going-forward")>>

DataProtectionRelational ==
    <<Stated("controller-role-identified"), Stated("dpo-appointed-and-contactable"),
      Stated("processor-engaged-under-art28-contract"),
      Stated("sub-processor-authorisation-chain"),
      Premise("joint-controller-arrangement", "presupposed"),
      Stated("data-subject-rights-addressee"), Stated("supervisory-authority-lead-identified"),
      Unanswered("processor-actually-art28-compliant")>>

DataProtectionIntentional ==
    <<Stated("lawful-basis-enumerated"), Stated("purpose-limitation-stated"),
      Stated("data-minimisation-principle"),
      Premise("lawful-basis-valid-for-this-processing", "presupposed"),
      Unanswered("legitimate-interest-balancing-done"),
      Premise("accountability-demonstrable", "presupposed")>>

DataProtectionMeta ==
    <<Stated("policy-review-cadence"), Stated("training-and-awareness-mandate"),
      Stated("breach-register-maintained"),
      Collision("governance-override-when-laws-conflict", "obligatory", "prohibited", FALSE)>>

DataProtectionStages == DataProtectionStructural \o DataProtectionCausal \o DataProtectionTemporal
    \o DataProtectionRelational \o DataProtectionIntentional \o DataProtectionMeta

DataProtectionSubgraph ==
    Subgraph(DataProtectionStages,
             {"special-category-lawful-condition-present", "definition-closure-to-primitives",
             "processing-causes-risk-to-rights", "breach-likely-to-result-in-risk",
             "dpia-high-risk-trigger", "safeguards-mitigate-risk",
             "retention-clock-trigger-event", "erasure-on-expiry-executed",
             "joint-controller-arrangement", "processor-actually-art28-compliant",
             "lawful-basis-valid-for-this-processing", "legitimate-interest-balancing-done",
             "accountability-demonstrable", "governance-override-when-laws-conflict"},
             {})

DataProtectionClosure ==
    Closures(<<"processing", "controller", "processor">>,
            <<"personal-data", "special-category", "appropriate-safeguards", "consent",
              "adequate-level-of-protection">>)

DataProtectionPresupposed ==
    Presupposed(<<"valid-lawful-basis-per-activity", "art32-measures-actually-adequate",
                  "third-country-transfer-adequacy", "dpia-high-risk-judgement">>)

DataProtectionProbes ==
    <<Probe(<<Collision("erasure_vs_disclosure_collision", "obligatory", "prohibited", FALSE)>>),
      Probe(<<Premise("transfer_adequacy_presupposed", "presupposed")>>),
      Probe(<<Premise("li_balancing_unsettled", "contested")>>)>>

DataProtection ==
    [PanelCase("policy.eu.gdpr.data_protection", "policy", "escalate", DataProtectionStages)
     EXCEPT !.tempting = TRUE,
            !.subgraph = DataProtectionSubgraph,
            !.closure = DataProtectionClosure,
            !.presupposed = DataProtectionPresupposed,
            !.probes = DataProtectionProbes]

AcceptableUseStructural ==
    <<IsA("policy-scope-boundary",
          <<"ai_use_for_company_work", "governed_activity">>),
      IsA("personnel", <<"employee", "personnel">>),
      Unclassified("ai-system-definition", "autocomplete_feature", "ai_system"),
      Unclassified("approved-tool-registry", "candidate_tool", "approved_ai_tool"),
      Unclassified("confidential-data-class", "candidate_datum", "confidential_data"),
      Unreached("definition-closure-complete", "defined_terms", "primitive_grounded")>>

AcceptableUseCausal ==
    <<Unanswered("data-leak-causation-model"), Premise("high-impact-effect-link", "presupposed")>>

AcceptableUseTemporal ==
    <<Ordered("incident-report-deadline", "on_or_before", Date(2026, 8, 5), Date(2026, 8, 6)),
      Ordered("oversight-timing-anchor", "on_or_before", Date(2026, 8, 4), Date(2026, 8, 6)),
      Ordered("awareness-onset", "on_or_before", NoDate, Date(2026, 8, 6)),
      Ordered("policy-review-cadence", "on_or_before", NoDate, Date(2026, 8, 6))>>

AcceptableUseRelational ==
    <<Stated("accountability-owner"), Stated("manager-reporting-line"),
      Premise("governance-lead-recipient", "presupposed"), Unanswered("vendor-processor-relation")>>

AcceptableUseIntentional ==
    <<Stated("policy-purpose"), Stated("approved-tools-obligation"),
      Stated("prohibited-uses-norm"), Stated("confidential-data-prohibition"),
      Stated("incident-report-duty"), Stated("enforcement-consequence"),
      Premise("human-oversight-duty", "presupposed"),
      Premise("high-impact-signoff-duty", "presupposed"),
      Premise("disclosure-duty", "presupposed")>>

AcceptableUseMeta ==
    <<Stated("policy-authority"), Stated("enforcement-metanorm"),
      Premise("policy-ownership", "presupposed"), Unanswered("review-cadence-metanorm"),
      Unanswered("exception-authority-metanorm"), Unanswered("amendment-authority"),
      Collision("norm-set-health", "obligatory", "prohibited", FALSE),
      Unreached("world-model-coverage-complete", "world_model", "fully_covered")>>

AcceptableUseStages == AcceptableUseStructural \o AcceptableUseCausal \o AcceptableUseTemporal
    \o AcceptableUseRelational \o AcceptableUseIntentional \o AcceptableUseMeta

AcceptableUseSubgraph ==
    Subgraph(AcceptableUseStages,
             {"ai-system-definition", "approved-tool-registry", "confidential-data-class",
             "data-leak-causation-model", "high-impact-effect-link", "awareness-onset",
             "policy-review-cadence", "governance-lead-recipient", "vendor-processor-relation",
             "human-oversight-duty", "high-impact-signoff-duty", "disclosure-duty",
             "policy-ownership", "review-cadence-metanorm", "exception-authority-metanorm",
             "amendment-authority", "norm-set-health"},
             {"definition-closure-complete", "world-model-coverage-complete"})

AcceptableUseClosure ==
    Closures(<<"personnel">>,
            <<"approved-ai-tool", "confidential-data", "meaningful-human-oversight",
              "high-impact-decision", "ai-system", "incident", "become-aware">>)

AcceptableUsePresupposed ==
    Presupposed(<<"approved-tools-register-exists-and-knowable",
                  "data-classification-scheme-exists-and-accessible",
                  "meaningful-oversight-has-checkable-content", "high-impact-threshold-defined",
                  "ai-governance-lead-role-defined-and-staffed">>)

AcceptableUseProbes ==
    <<Probe(<<Collision("approved_vs_confidential_collision", "obligatory", "prohibited", FALSE)>>),
      Probe(<<Premise("ai_system_boundary_unsettled", "contested")>>)>>

AcceptableUse ==
    [PanelCase("policy.internal.ai_aup", "policy", "escalate", AcceptableUseStages)
     EXCEPT !.tempting = TRUE,
            !.subgraph = AcceptableUseSubgraph,
            !.closure = AcceptableUseClosure,
            !.presupposed = AcceptableUsePresupposed,
            !.probes = AcceptableUseProbes]

(* collect_cases: every shipped case, in the order of their ids.            *)
ShippedPanel ==
    <<AutoRenewal, NegotiatedClause, NoticeWaiver, PerpetualBuyout, PerpetualConfidentiality,
      AiAct, Dsa, DataProtection, AcceptableUse, MiningTemptation, ProviderRole, ClauseBlacklist,
      MajorIncident, BreachNotification, EssentialEntity>>
=============================================================================
