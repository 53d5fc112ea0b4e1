----------------------------- MODULE EventGraph -----------------------------
(***************************************************************************)
(* What one raw event becomes on its way to the graph, as pure operators:   *)
(* the canonical event of its source's parser (normalization), the entities *)
(* of the canonical event (enrichment), their edges (graph builder).        *)
(*                                                                         *)
(* A payload is the set of the keys it gives a value to.  The value itself  *)
(* is left out: a canonical field holds the key it was read from, and an    *)
(* entity's id is its type and that key, so two keys never name one entity. *)
(* The process id that completes a process's key is left out with it.       *)
(***************************************************************************)
EXTENDS Sequences, FiniteSets, SequencesExt, TLC

CONSTANT Techniques     \* technique ids, those of a payload and the inferred ones

-----------------------------------------------------------------------------
(* Normalization.  For each parser, the keys a canonical field is read from *)
(* in the order they are tried.  Zeek has one layout for each of its logs.  *)
parse_sysmon ==
  [host |-> <<"Computer">>, user |-> <<"User">>, process |-> <<"Image">>,
   parent_process |-> <<"ParentImage", "SourceImage">>, file_path |-> <<"TargetFilename">>,
   file_hash |-> <<"Hashes">>, registry_key |-> <<"TargetObject">>, domain |-> <<"QueryName">>]
parse_zeek ==
  [host |-> <<"host">>, user |-> <<"user">>, src_ip |-> <<"id.orig_h">>, dst_ip |-> <<"id.resp_h">>]
parse_zeek_dns == [domain |-> <<"query">>, dst_ip |-> <<"answers", "id.resp_h">>] @@ parse_zeek
parse_suricata == [host |-> <<"host">>, src_ip |-> <<"src_ip">>, dst_ip |-> <<"dest_ip">>]
parse_active_directory ==
  [host |-> <<"Computer">>, user |-> <<"TargetUserName", "SubjectUserName">>, src_ip |-> <<"IpAddress">>]
parse_cloudtrail ==
  [user |-> <<"user", "userIdentity">>, src_ip |-> <<"sourceIPAddress", "src_ip">>,
   cloud_resource |-> <<"cloud_resource", "eventSource">>]
parse_email ==
  [host |-> <<"host">>, user |-> <<"user", "to">>, email |-> <<"from", "to">>,
   url |-> <<"url", "urls">>, file_hash |-> <<"attachment_hash", "attachments">>,
   file_path |-> <<"attachment_name", "attachments">>]
parse_edr ==
  [host |-> <<"host">>, user |-> <<"user">>, process |-> <<"process_name">>,
   parent_process |-> <<"parent_process">>, file_hash |-> <<"sha256">>,
   dst_ip |-> <<"network_connections">>]
parse_kubernetes == [user |-> <<"user">>, k8s_pod |-> <<"k8s_pod", "pod">>]
parse_dns ==
  [host |-> <<"host">>, src_ip |-> <<"src_ip", "client_ip">>, domain |-> <<"query">>,
   dst_ip |-> <<"answer", "resolved_ip">>]
parse_firewall == [host |-> <<"host">>, src_ip |-> <<"src_ip">>, dst_ip |-> <<"dst_ip">>]
parse_generic == [user |-> <<"user">>] @@ parse_firewall

Columns ==
  [sysmon |-> parse_sysmon, zeek |-> parse_zeek, zeek_dns |-> parse_zeek_dns,
   suricata |-> parse_suricata, active_directory |-> parse_active_directory,
   cloudtrail |-> parse_cloudtrail, email |-> parse_email, edr |-> parse_edr,
   kubernetes |-> parse_kubernetes, dns |-> parse_dns, firewall |-> parse_firewall,
   generic |-> parse_generic]

Layouts == DOMAIN Columns
KeysOf(layout) == UNION {ToSet(Columns[layout][f]) : f \in DOMAIN Columns[layout]}

(* The event types the graph builder tells apart.  A parser that takes the  *)
(* type from the payload can yield any of them.                             *)
LOGON_EVENT_TYPES == {"logon", "logon_failure", "special_privileges_assigned"}
NETWORK_EVENT_TYPES == {"network_connection", "network_alert", "zeek_conn", "firewall_connection"}
FILE_EVENT_TYPES == {"file_create", "file_modify", "file_delete"}
AnyType == LOGON_EVENT_TYPES \cup NETWORK_EVENT_TYPES \cup FILE_EVENT_TYPES \cup {"process_access", "other"}

TypesOf(layout) ==
  CASE layout = "sysmon" -> {"network_connection", "process_access", "file_create", "file_delete", "other"}
    [] layout = "zeek" -> {"zeek_conn", "other"}
    [] layout = "suricata" -> {"network_alert"}
    [] layout = "active_directory" -> LOGON_EVENT_TYPES \cup {"other"}
    [] layout = "firewall" -> {"firewall_connection"}
    [] layout \in {"email", "kubernetes", "generic"} -> AnyType
    [] OTHER -> {"other"}

RawEvent(layout, type, keys, techniques) ==
  [layout |-> layout, type |-> type, keys |-> keys, techniques |-> techniques]
RawEvents ==
  UNION {{RawEvent(layout, type, keys, techniques) :
            type \in TypesOf(layout), keys \in SUBSET KeysOf(layout), techniques \in SUBSET Techniques} :
         layout \in Layouts}

Given(raw, field) == {k \in ToSet(Columns[raw.layout][field]) : k \in raw.keys}

(* The first of the field's keys that has a value.                          *)
Parsed(raw, field) ==
  SelectSeq(Columns[raw.layout][field], LAMBDA key : key \in raw.keys)[1]

normalize_raw_message(raw) ==
  [f \in {f \in DOMAIN Columns[raw.layout] : Given(raw, f) # {}} |-> Parsed(raw, f)]

-----------------------------------------------------------------------------
(* Enrichment: the entities, in the order extract_entities appends them; a  *)
(* list of them is the set of its entries, each with its place in it.       *)
EntityFields ==
  << <<"Host", "host">>, <<"User", "user">>, <<"Process", "process">>,
     <<"Process", "parent_process">>, <<"File", "file_path">>, <<"Hash", "file_hash">>,
     <<"IP", "src_ip">>, <<"IP", "dst_ip">>, <<"Domain", "domain">>, <<"URL", "url">>,
     <<"RegistryKey", "registry_key">>, <<"Email", "email">>,
     <<"CloudResource", "cloud_resource">>, <<"K8sWorkload", "k8s_pod">> >>

Entity(type, key) == <<type, key>>
Listed(at, type, key) == [at |-> at, type |-> type, entity |-> Entity(type, key)]
TechniquesIn(raw) == {Listed(Len(EntityFields) + 1, "AttackTechnique", t) : t \in raw.techniques}

(* Mutant of extract_entities: the parent process comes first.              *)
extract_entities_parent_first(raw) ==
  LET event == normalize_raw_message(raw)
  IN {Listed(Len(EntityFields) - i, EntityFields[i][1], event[EntityFields[i][2]]) :
        i \in {i \in DOMAIN EntityFields : EntityFields[i][2] \in DOMAIN event}} \cup TechniquesIn(raw)

extract_entities(raw) ==
  LET event == normalize_raw_message(raw)
  IN {Listed(i, EntityFields[i][1], event[EntityFields[i][2]]) :
        i \in {i \in DOMAIN EntityFields : EntityFields[i][2] \in DOMAIN event}} \cup TechniquesIn(raw)

-----------------------------------------------------------------------------
(* Graph builder.  What the list begins and ends with is a set of one entry *)
(* or, of no list, of none: an edge from nothing is no edge.                *)
Edge(src, type, dst) == [src |-> src, type |-> type, dst |-> dst]
Edges(srcs, type, dsts) == {Edge(s.entity, type, d.entity) : s \in srcs, d \in dsts}

First(entries) == {e \in entries : \A other \in entries : e.at <= other.at}
Later(entries) == entries \ First(entries)
LastOf(entries) == {e \in entries : \A other \in entries : e.at >= other.at}
FirstOf(one, another) == IF one # {} THEN one ELSE another

derive_graph_updates(raw) ==
  LET entities == extract_entities(raw)
      All(type) == {e \in entities : e.type = type}
      Find(type) == First(All(type))
      user == Find("User")
      host == Find("Host")
      process == Find("Process")
      ips == All("IP")
      actor == FirstOf(process, host)
      If(condition, edges) == IF condition THEN edges ELSE {}
  IN UNION {
       If(raw.type \in LOGON_EVENT_TYPES, Edges(user, "authenticated_to", host)),
       Edges(user, "logged_in_to", host),
       Edges(First(Later(All("Process"))), "spawned", process),
       If(Later(All("Process")) = {}, Edges(host, "executed", process)),
       If(raw.type = "process_access", Edges(process, "accessed", All("File"))),
       If(raw.type = "file_create", Edges(actor, "created", All("File"))),
       If(raw.type \in {"file_modify", "file_delete"}, Edges(actor, "modified", All("File"))),
       If(Cardinality(ips) = 2, Edges(First(ips), "connected_to", Later(ips))),
       If(Cardinality(ips) = 1 /\ raw.type \in NETWORK_EVENT_TYPES, Edges(host, "connected_to", ips)),
       Edges(Find("Domain"), "resolved_to", LastOf(ips)),
       Edges(process, "downloaded", Find("URL")),
       If(process = {}, Edges(FirstOf(user, host), "accessed", Find("URL"))),
       Edges(process, "modified", Find("RegistryKey")),
       Edges(Find("Email"), "emailed", user),
       Edges(process, "created", Find("Hash")),
       Edges(FirstOf(actor, user), "mapped_to_technique", All("AttackTechnique"))}

-----------------------------------------------------------------------------
VARIABLE raw    \* the event looked at

EventInit == raw \in RawEvents
NoEvent == RawEvent("generic", "other", {}, {})

(* An edge between entities of one type runs from the one that acts to the  *)
(* one acted upon, although entities are told apart by their place in the   *)
(* list only ("entities are appended [process, parent_process] order"); and *)
(* a technique is charged to the process that acted, not to its parent.     *)
EdgesFollowFields ==
  LET event == normalize_raw_message(raw)
      edges == derive_graph_updates(raw)
      Has(f) == f \in DOMAIN event
  IN \A e \in edges :
       /\ e.type = "spawned" =>
            /\ Has("process") /\ Has("parent_process")
            /\ e.src = Entity("Process", event.parent_process)
            /\ e.dst = Entity("Process", event.process)
       /\ e.type = "connected_to" /\ e.src[1] = "IP" =>
            e.src = Entity("IP", event.src_ip) /\ e.dst = Entity("IP", event.dst_ip)
       /\ e.type = "mapped_to_technique" /\ Has("process") =>
            e.src = Entity("Process", event.process)
       /\ e.type = "resolved_to" /\ Has("dst_ip") => e.dst = Entity("IP", event.dst_ip)
=============================================================================
