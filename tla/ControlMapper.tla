--------------------------- MODULE ControlMapper ---------------------------
(***************************************************************************)
(* The mapping engine of compliance-service                                *)
(* (control-mapper/mapping-engine.ts, predicates.ts) over its rules        *)
(* (mapping-rules.json).  An input is a record of its subject kind, its    *)
(* rule, severity and kind, whether it is a known exploited vulnerability  *)
(* and whether it was introduced in the last 30 days.                      *)
(***************************************************************************)
EXTENDS Integers, SequencesExt

SeverityOrder ==
  [critical |-> 4, high |-> 3, medium |-> 2, low |-> 1, info |-> 0, unknown |-> -1]

\* The rules: each control with the inputs its predicate accepts.
Rules(input) ==
  LET Rule(control, framework, priority, when) ==
        [control |-> control, framework |-> framework, priority |-> priority,
         when |-> when]
      vulnerability == input.subject = "vulnerability"
      risk(ids)  == input.subject = "runtime_risk" /\ input.rule \in ids
      issue(ids) == input.subject = "health_issue" /\ input.rule \in ids
  IN  << Rule("7", "cis_v8", 100,
              vulnerability /\ SeverityOrder[input.severity] >= SeverityOrder.medium),
         Rule("16", "cis_v8", 110, vulnerability /\ input.kind = "sca"),
         Rule("SI-2", "nist_800_53", 1, vulnerability),
         Rule("RA-5", "nist_800_53", 2, vulnerability),
         Rule("SI-7", "nist_800_53", 200, vulnerability /\ input.kev),
         Rule("SA-11", "nist_800_53", 150, vulnerability /\ input.recent),
         Rule("4", "cis_v8", 110, risk({1, 3, 4, 5})),
         Rule("CM-6", "nist_800_53", 90, risk({1, 3, 4, 5})),
         Rule("AC-6", "nist_800_53", 130, risk({1, 2, 3, 4, 6, 7})),
         Rule("3", "cis_v8", 120, risk({2})),
         Rule("SC-7", "nist_800_53", 100, risk({2})),
         Rule("6", "cis_v8", 105, risk({6, 7})),
         Rule("AC-2", "nist_800_53", 85, risk({6, 7})),
         Rule("AC-3", "nist_800_53", 85, risk({6, 7})),
         Rule("2", "cis_v8", 80, risk({9})),
         Rule("CM-2", "nist_800_53", 70, risk({9})),
         Rule("CM-8", "nist_800_53", 70, risk({9})),
         Rule("SC-5", "nist_800_53", 60, risk({8})),
         Rule("SI-4", "nist_800_53", 90,
              issue({"crash_loop_back_off", "oom_killed", "restart_storm",
                     "node_pressure", "image_pull_back_off", "pending_pod",
                     "failed_pod", "unschedulable_workload"})),
         Rule("CP-10", "nist_800_53", 85,
              issue({"crash_loop_back_off", "oom_killed", "pending_pod", "failed_pod",
                     "unschedulable_workload"})),
         Rule("SC-5", "nist_800_53", 90,
              issue({"restart_storm", "oom_killed", "node_pressure"})),
         Rule("12", "cis_v8", 95, issue({"node_pressure"})) >>

\* evaluate(): the rules that match, the highest priority first.
Matches(input) ==
  SortSeq(SelectSeq(Rules(input), LAMBDA r : r.when),
          LAMBDA r, s : r.priority > s.priority)

\* evaluateBatch() on one input: the controls it fails.
Fails(input) == {r.control : r \in ToSet(Matches(input))}
=============================================================================
