------------------------------ MODULE PanelCases ------------------------------
(***************************************************************************)
(* The statute, contract and probe cases the panel ships                    *)
(* (eval/panel/cases/), and the vocabulary they and the policies are        *)
(* written in.  Texts, questions, notes and warrants are left out; a span   *)
(* is kept as whether it is stated, a literal as whether it is present.     *)
(***************************************************************************)
EXTENDS Panel

(* Ordered like the calendar, which is all a date order looks at.           *)
Date(y, m, d) == y * 372 + m * 31 + d

Claim(name, kind, grounded) ==
    [name |-> name, kind |-> kind, grounded |-> grounded, warranted |-> TRUE]

IntentionalClaim(name, present) ==
    Claim(name, "intentional", TRUE)
    @@ [literal |-> Lit(name, TRUE), present |-> present]

Stated(name) == IntentionalClaim(name, {Lit(name, TRUE)})
Absent(name) == IntentionalClaim(name, {})

StructuralClaim(name, grounded, subject, object, edges, unsettled) ==
    Claim(name, "structural", grounded)
    @@ [subject |-> subject, object |-> object, edges |-> edges, nodes |-> unsettled,
        pairs |-> {}]

(* The chain's first member is a kind of its last, link by link.            *)
IsA(name, chain) ==
    StructuralClaim(name, TRUE, chain[1], Last(chain),
                    [i \in 1..Len(chain) - 1 |->
                        Edge(chain[i], "is_a", chain[i + 1], "structural", 0)], {})

(* Nothing links subject to object, and the subject's place is open, or     *)
(* the taxonomy is complete as it stands.                                   *)
Unclassified(name, subject, object) ==
    StructuralClaim(name, FALSE, subject, object, <<>>, {subject})
Unreached(name, subject, object) ==
    StructuralClaim(name, TRUE, subject, object, <<>>, {})

Ordered(name, op, left, right) ==
    Claim(name, "temporal", left # NoDate) @@ [op |-> op, left |-> left, right |-> right]

(* A threshold of so many hours put to a duration of whole hours.           *)
Hours(name, comparator, value, hours) ==
    Claim(name, "quant", TRUE)
    @@ [comparator |-> comparator, value |-> value, unit |-> "hours",
        operand |-> Span(hours * 3600, FALSE)]

Premise(name, status) ==
    Claim(name, "epistemic", status \in {"asserted", "inferred"}) @@ [status |-> status]

Unanswered(name) == Claim(name, "gap", FALSE)

(* Two norms on one act that nothing ranks, and two that rank does.         *)
Collision(name, one, other, grounded) ==
    Claim(name, "deontic", grounded)
    @@ [norms |-> <<Norm(name, one, 0, 0), Norm(name, other, 0, 0)>>,
        pack |-> GenericPack, act |-> name]
Outranked(name, higher, lower) ==
    Claim(name, "deontic", TRUE)
    @@ [norms |-> <<Norm(name, "obligatory", higher, 0), Norm(name, "prohibited", lower, 0)>>,
        pack |-> LexPack, act |-> name]

StandardClaim(name, benchmark, met, contested) ==
    Claim(name, "standard", TRUE)
    @@ [proposal |-> [decodes |-> TRUE,
                      benchmark |-> Element(Lit("benchmark", TRUE), benchmark, 100),
                      relied    |-> {Element(Lit("relied", TRUE), TRUE, 100)},
                      verdict   |-> Element(Lit("verdict", TRUE), TRUE, 100),
                      met       |-> met, contested |-> contested]]

(* A grounded application that reasonable people dispute, and one whose     *)
(* benchmark is nowhere in the facts.                                       *)
Disputed(name)      == StandardClaim(name, TRUE, TRUE, TRUE)
Invented(name, met) == StandardClaim(name, FALSE, met, FALSE)

Probe(stages) == [stages |-> stages, expected |-> "escalate"]

PanelCase(id, kind, expected, stages) ==
    [id |-> id, kind |-> kind, expected |-> expected, stages |-> stages, probes |-> <<>>,
     tempting |-> FALSE, stake |-> FALSE, personal |-> FALSE, level |-> "autonomous",
     failing |-> {}, options |-> 0, subgraph |-> <<>>, closure |-> <<>>,
     presupposed |-> <<>>]

-----------------------------------------------------------------------------
AutoRenewal ==
    [PanelCase("contract.services.para309n9.auto_renewal_evergreen", "contract", "escalate",
               <<Stated("is_standard_term"),
                  Ordered("renewal_after_signing", "after", Date(2027, 1, 1), Date(2026, 1, 1)),
                  Premise("renewal_mechanic", "contested")>>)
     EXCEPT !.stake = TRUE,
            !.personal = TRUE,
            !.level = "manual",
            !.probes = <<Probe(<<Premise("notice_given_presupposed", "presupposed")>>)>>]

NegotiatedClause ==
    PanelCase("contract.publishing.para307.clean_negotiated_clause", "contract", "not_met",
           <<Absent("is_standard_term"), Absent("causes_unreasonable_disadvantage")>>)

NoticeWaiver ==
    [PanelCase("contract.employment.para622.notice_waiver", "contract", "determinate",
               <<Stated("waives_statutory_notice"), Stated("is_employment_term"),
                  IsA("notice_right_non_waivable",
                      <<"minimum_notice_right", "mandatory_protective_right",
                        "non_waivable_statutory_right">>),
                  Outranked("disregard_void_waiver", 5, 1)>>)
     EXCEPT !.probes = <<Probe(<<Collision("collision", "permitted", "prohibited", TRUE)>>)>>]

PerpetualBuyout ==
    [PanelCase("contract.music.para307.perpetual_buyout", "contract", "determinate",
               <<Stated("is_standard_term"), Stated("perpetual_total_buyout"),
                  IsA("unreasonable_disadvantage",
                      <<"perpetual_buyout_clause", "one_sided_rights_grab_clause",
                        "section_307_unreasonable_disadvantage">>),
                  Outranked("disregard_void_clause", 5, 1)>>)
     EXCEPT !.probes = <<Probe(<<Disputed("reversion_contested")>>)>>]

PerpetualConfidentiality ==
    [PanelCase("contract.nda.para307.perpetual_confidentiality", "contract", "residual",
               <<Stated("is_standard_term"), Stated("unlimited_perpetual_scope"),
                  Disputed("lawful_reconstruction")>>)
     EXCEPT !.options = 3,
            !.probes = <<Probe(<<Disputed("perpetual_unsettled")>>)>>]

MiningTemptation ==
    [PanelCase("probe.fabrication.tdm_exception_temptation", "statute", "escalate",
               <<Disputed("reading_contested"), Premise("optout_presence", "presupposed")>>)
     EXCEPT !.tempting = TRUE,
            !.probes = <<Probe(<<Disputed("unsettled")>>)>>]

ProviderRole ==
    [PanelCase("statute.ai_act.art3.provider_role", "statute", "determinate",
               <<Stated("develops_ai_system"), Stated("places_under_own_name"),
                  IsA("is_ai_system",
                      <<"the_deployed_artefact", "machine_based_system", "ai_system">>)>>)
     EXCEPT !.probes = <<Probe(<<Disputed("derogation_contested")>>),
                          Probe(<<Invented("contra_legem", FALSE)>>)>>]

ClauseBlacklist ==
    [PanelCase("statute.bgb.para309.clause_blacklist", "statute", "determinate",
               <<Stated("is_standard_term"), Stated("shifts_burden_of_proof"),
                  IsA("on_the_blacklist",
                      <<"burden_shifting_clause", "burden_of_proof_clause",
                        "section_309_blacklist">>),
                  Outranked("disregard_void_clause", 5, 1)>>)
     EXCEPT !.probes = <<Probe(<<Collision("collision", "prohibited", "permitted", TRUE)>>)>>]

MajorIncident ==
    [PanelCase("statute.dora.art19.major_incident_notification", "statute", "not_met",
               <<Stated("scope_financial_entity"), Premise("incident_established", "asserted"),
                  Hours("major_downtime_threshold", ">=", 24, 2)>>)
     EXCEPT !.probes = <<Probe(<<Premise("majority_presupposed", "presupposed")>>)>>]

BreachNotification ==
    [PanelCase("statute.gdpr.art33.breach_notification", "statute", "escalate",
               <<Stated("scope_territorial"), Stated("scope_material"),
                  Hours("notification_deadline", "<=", 72, 96), Disputed("risk_carveout"),
                  Premise("breach_occurrence", "presupposed"), Outranked("notification_duty", 5, 1)>>)
     EXCEPT !.probes = <<Probe(<<Collision("collision", "obligatory", "prohibited", TRUE)>>),
                          Probe(<<Premise("breach_presupposed", "presupposed")>>),
                          Probe(<<Disputed("risk_contested")>>),
                          Probe(<<Invented("contra_legem", TRUE)>>)>>]

EssentialEntity ==
    [PanelCase("statute.nis2.art3.essential_entity_scope", "statute", "escalate",
               <<Stated("sector_in_annex_i"), Premise("exceeds_size_cap", "contested"),
                  Premise("main_establishment", "presupposed")>>)
     EXCEPT !.stake = TRUE,
            !.level = "approve",
            !.probes = <<Probe(<<Premise("size_cap_contested", "contested")>>)>>]
=============================================================================
