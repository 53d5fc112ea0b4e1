----------------------------- MODULE SigmaRules -----------------------------
(***************************************************************************)
(* The Sigma engine of the detection service (detection_core/sigma.py) and  *)
(* the rules it loads (data/sigma/): how a rule's fields are looked up in a *)
(* normalized event and in the raw record it keeps, and when a rule fires.  *)
(*                                                                          *)
(* What a rule expects of a field (a list of values, a modifier) is one     *)
(* value, "expected"; any other value is "other".                           *)
(***************************************************************************)
EXTENDS Integers

VARIABLES
  rule,    \* the rule evaluated
  event    \* field -> what the parser made of it, and what the raw record says

sigmaVars == <<rule, event>>

Values == {"absent", "expected", "other"}

-----------------------------------------------------------------------------
(* load_rules: data/sigma/*.yml. The rule without a selection,              *)
(* lateral_movement_host_hopping, is a correlation over several events.     *)
Rule(selection, filter) == [selection |-> selection, filter |-> filter]

WindowsLogRules ==
  {Rule({"event_id", "service_name"}, {}),         \* ad_kerberoasting_pattern
   Rule({"event_id", "logon_type"}, {}),           \* lateral_movement_rdp_privileged
   Rule({"event_id", "privilege_list"}, {})}       \* sensitive_privilege_use

ProcessRules ==
  {Rule({"command_line"}, {}),                     \* lateral_movement_psexec, lsass_access
   Rule({"image", "command_line"}, {}),            \* lateral_movement_wmi, powershell_encoded_command
   Rule({"parent_image", "image"}, {}),            \* office_spawns_shell
   Rule({"parent_image", "image"}, {"signed"})}    \* rare_process_ancestry

FileAndMailRules ==
  {Rule({"target_filename"}, {}),                  \* ransom_note_dropped, ransomware_extension_burst
   Rule({"attachment_name"}, {}),                  \* macro_enabled_attachment
   Rule({"spf", "dmarc"}, {"verdict"}),            \* phishing_link_click
   Rule({"mitre_techniques"}, {})}                 \* credential_dumping_indicators

NetworkRules ==
  {Rule({"alert_category"}, {}),                   \* c2_beacon_tls
   Rule({"zeek_log_type", "dns_query_length"}, {}), \* dns_tunneling_heuristic
   Rule({"dns_query"}, {})}                        \* repeat_c2_infrastructure_reuse

CloudRules ==
  {Rule({"event_name"}, {}),                       \* cloudtrail_iam_privilege_escalation
   Rule({"event_name", "mfa_used"}, {}),           \* cloudtrail_no_mfa_sensitive_action
   Rule({"k8s_resource", "k8s_verb"}, {})}         \* k8s_exec_secrets_access

load_rules == WindowsLogRules \cup ProcessRules \cup FileAndMailRules \cup NetworkRules \cup CloudRules

(* Fields that have an attribute of CanonicalEvent, by their own name or by *)
(* FIELD_ALIASES, which a parser fills in when the record has them.         *)
FIELD_ALIASES ==
  {"image", "parent_image", "target_filename", "dns_query", "attachment_name",
   "mitre_techniques", "command_line", "dns_query_length"}

(* What the attribute of a field holds. event_id is not the record's        *)
(* EventID: it is the identifier generated for the event, and never empty.  *)
Attribute(f) == IF f = "event_id" THEN "other" ELSE event[f].parsed

(* _get_field: the attribute unless it is empty, else the raw record, whose *)
(* keys match whatever their case and underscores. The length of a domain   *)
(* that is missing is 0.                                                    *)
_get_field(f) ==
  IF f = "dns_query_length" /\ Attribute(f) = "absent" THEN "other"
  ELSE IF Attribute(f) # "absent" THEN Attribute(f) ELSE event[f].raw

_match_value(actual) == actual = "expected"

_evaluate_block(fields) == \A f \in fields : _match_value(_get_field(f))

(* "selection", or "selection and not filter_..."                           *)
match_single ==
  _evaluate_block(rule.selection) /\ (rule.filter # {} => ~_evaluate_block(rule.filter))

SigmaInit ==
  /\ rule \in load_rules
  /\ event \in [rule.selection \cup rule.filter -> [parsed : Values, raw : Values]]
  /\ \A f \in DOMAIN event : f \notin FIELD_ALIASES => event[f].parsed = "absent"

SigmaSpec == SigmaInit /\ [][UNCHANGED sigmaVars]_sigmaVars

-----------------------------------------------------------------------------
(* What the record says of a field, as far as the parsers read it            *)
Says(f) ==
  IF f = "dns_query_length" THEN event[f].parsed = "expected"
  ELSE event[f].raw = "expected" /\ event[f].parsed \in {"absent", "expected"}

(* "falls back to the original raw payload preserved on event.raw, ... so   *)
(* PascalCase source fields like EventID line up with snake_case Sigma      *)
(* field names like event_id": a rule fires on a record that gives every    *)
(* field of its selection the value expected and no field of its filter.    *)
RuleFindsItsFields ==
  /\ \A f \in rule.selection : Says(f)
  /\ \A f \in rule.filter : event[f].raw # "expected" /\ event[f].parsed # "expected"
  => match_single
=============================================================================
