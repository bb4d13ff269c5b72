---------------------------- MODULE AttributeForms ----------------------------
(***************************************************************************)
(* From a form to its effect.  The connector describes a form to Core,     *)
(* Core shows it, runs the callbacks of its attributes and sends what the  *)
(* user chose: to a discovery, which collects certificates, or as an RA    *)
(* profile, with which certificates are issued and identified.  What the   *)
(* forest of an authority's server holds is printed by PowerShell and      *)
(* parsed here.                                                            *)
(* Failures of WinRM, pages, issue dates and what changes on the server    *)
(* meanwhile are the business of AdcsCollection and CertificateManagement. *)
(***************************************************************************)
EXTENDS DumpParser, RequestEncoding

CONSTANTS
    Authorities,    \* UUIDs of authority instances
    Forest,         \* Forest[a]: the CAs a's server sees, as PowerShell objects
    TemplatesOf,    \* TemplatesOf[a]: its certificate templates
    Database,       \* Database[name]: the rows of the CA of that name
    ConfigStrings,  \* what a user may type, split at its backslash
    CRMFs,          \* certificate requests: sequences of CRMF messages
    Pkcs10s         \* certificate requests that are PKCS#10 already

ASSUME FormsAssumption ==
    /\ NoValue \notin Authorities
    /\ \A a \in Authorities : Forest[a] \in Seq(Range(Forest[a]))
    /\ \A a \in Authorities : TemplatesOf[a] \in Seq(Range(TemplatesOf[a]))
    /\ \A a \in Authorities : \A i \in DOMAIN Forest[a] : Forest[a][i]["Name"] \in DOMAIN Database

(* Names of templates are unique in a forest, serial numbers in a CA, and    *)
(* an extension is in a request once.                                        *)
ASSUME UniqueAssumption ==
    /\ \A a \in Authorities : \A t, u \in Range(TemplatesOf[a]) : t["Name"] = u["Name"] => t = u
    /\ \A n \in DOMAIN Database :
        /\ Database[n] \in Seq(Range(Database[n]))
        /\ \A i, j \in DOMAIN Database[n] : Database[n][i].serial = Database[n][j].serial => i = j
    /\ \A crmf \in CRMFs : LET extensions == crmf[1].certTemplate.extensions IN
        /\ extensions \in Seq(Range(extensions))
        /\ \A i, j \in DOMAIN extensions : extensions[i].extn_id = SAN /\ extensions[j].extn_id = SAN => i = j

VARIABLES
    authorities,    \* rows of authority_instance, which may be deleted
    form,           \* what the form is for, and the authority of an RA profile
    shown,          \* the definitions Core shows
    values,         \* values[name]: the content chosen so far
    pending,        \* names of the attributes whose callback is to be run
    sent,           \* the attributes as they were sent
    outcome         \* what came of it

vars == <<authorities, form, shown, values, pending, sent, outcome>>

DiscoveryNames == {"discovery_authority_instance", "discovery_select_ca_method",
                   "discovery_ca_name", "discovery_config_string", "discovery_template_name"}
RaProfileNames == {"raprofile_authority_uuid", "raprofile_select_ca_method",
                   "raprofile_ca_name", "raprofile_config_string", "raprofile_template_name"}
(* What the callbacks of the groups bring. *)
GroupNames == {"discovery_ca_name", "discovery_config_string",
               "raprofile_ca_name", "raprofile_config_string"}

NoOutcome == [status |-> "none"]
Refused == [status |-> "refused", meta |-> <<get_failed_reason_metadata_attribute("reason")>>]

-------------------------------------------------------------------------------
(* What sessions ask the server of an authority.                             *)
get_cas(a) == parse_authority_data(PrintedObjects(AuthorityKeys, Forest[a]))
get_templates(a) == parse_template_data(PrintedObjects(TemplateKeys, TemplatesOf[a]))

(* The "" of get_attribute_value is no CA. *)
ASSUME CasAssumption == \A a \in Authorities : NoValue \notin Range(get_cas(a))

(* A row has a certificate, and what it has of a template of the forest is   *)
(* the name under schema 1 and the OID otherwise.                            *)
ASSUME RowsAssumption ==
    \A a \in Authorities : \A o \in Range(Forest[a]) : \A row \in Range(Database[o["Name"]]) :
        /\ row.chunks \in Seq(Range(row.chunks)) \ {<<>>}
        /\ \A t \in Range(TemplatesOf[a]) : row.template \in {t["Name"], t["OID"]} =>
               row.template = IF t["SchemaVersion"] = "1" THEN t["Name"] ELSE t["OID"]

(* Get-CertificationAuthority -Name, and its rows of some templates or any. *)
RowsOf(a, ca, any, templates) ==
    LET rows == IF \E i \in DOMAIN Forest[a] : Forest[a][i]["Name"] = ca.name
                THEN Database[ca.name] ELSE <<>>
    IN  Elements(rows, {i \in DOMAIN rows : any \/ rows[i].template \in templates})

(* Mutant: the filter compares names whatever the template's schema. *)
dump_certificates_ByName(a, ca, template) ==
    PrintedRows(RowsOf(a, ca, template = {}, {t.name : t \in template}))

(* The filter on the template, by its name or its OID. *)
dump_certificates(a, ca, template) ==
    PrintedRows(RowsOf(a, ca, template = {},
                       {IF t.schema_version = "1" THEN t.name ELSE t.oid : t \in template}))

(* A string with a backslash, and something before and after it. *)
WellFormed(configString) ==
    configString # NoValue /\ Len(configString) > 1 /\ configString[1] # "" /\ configString[2] # ""

OfConfigString(configString) ==
    [name |-> configString[2], display_name |-> configString[2],
     computer_name |-> configString[1], config_string |-> configString,
     ca_type |-> NoValue, is_enterprise |-> NoValue, is_root |-> NoValue,
     is_accessible |-> NoValue, service_status |-> NoValue]

-------------------------------------------------------------------------------
(* The views behind the callbacks. *)
get_discovery_ca_select_configuration(method, a) ==
    IF method = "configstring" THEN <<get_discovery_config_string_attribute>>
    ELSE <<get_discovery_ca_name_attribute(get_cas(a))>>

(* Mutant: the discovery's attribute is answered, under its name. *)
get_raprofile_ca_select_configuration_Discovery(method, a) ==
    IF method = "configstring" THEN <<get_discovery_config_string_attribute>>
    ELSE <<get_raprofile_ca_name_attribute(get_cas(a))>>

get_raprofile_ca_select_configuration(method, a) ==
    IF method = "configstring" THEN <<get_raprofile_config_string_attribute>>
    ELSE <<get_raprofile_ca_name_attribute(get_cas(a))>>

(* A variable of the path, from the chosen value that is mapped to it. *)
PathVariable(callback, variable) ==
    LET mapping == CHOOSE m \in callback.mappings : m.variable = variable
        value == values[mapping.attribute][1]
    IN  IF mapping.property = "uuid" THEN value.uuid ELSE value

Mapped(callback) == {m.attribute : m \in callback.mappings}
Runnable(callback) == \A n \in Mapped(callback) : values[n] # <<>>

(* What the definition becomes, or brings with it, when its callback is run. *)
Routed(attribute) ==
    LET callback == attribute.callback
        a == PathVariable(callback, "authority_instance_uuid")
    IN  CASE callback.context = "discovery/caSelect" ->
                 <<attribute>> \o get_discovery_ca_select_configuration(
                                      PathVariable(callback, "ca_select_method"), a)
          [] callback.context = "raProfile/caSelect" ->
                 <<attribute>> \o get_raprofile_ca_select_configuration(
                                      PathVariable(callback, "ca_select_method"), a)
          [] callback.context = "discovery/listTemplate" ->
                 <<[attribute EXCEPT !.content = get_templates(a)]>>

(* Only a configuration string is asked for without a session. *)
NeedsSession(attribute) ==
    \/ attribute.type # "group"
    \/ PathVariable(attribute.callback, "ca_select_method") # "configstring"

-------------------------------------------------------------------------------
Init ==
    /\ authorities = Authorities
    /\ form = [kind |-> "none", uuid |-> NoValue]
    /\ shown = <<>> /\ values = <<>> /\ pending = {} /\ sent = <<>>
    /\ outcome = NoOutcome

(* DELETE of an authority instance, by another user. *)
DeleteAuthority(a) ==
    /\ a \in authorities
    /\ authorities' = authorities \ {a}
    /\ UNCHANGED <<form, shown, values, pending, sent, outcome>>

(* GET v1/discoveryProvider/{kind}/attributes *)
get_discovery_attributes ==
    /\ form.kind = "none"
    /\ form' = [kind |-> "discovery", uuid |-> NoValue]
    /\ shown' = get_discovery_attributes_list(
                    SetToSeq({[uuid |-> a, name |-> a] : a \in authorities}))
    /\ values' = [n \in DiscoveryNames |-> <<>>]
    /\ UNCHANGED <<authorities, pending, sent, outcome>>

(* GET v1/authorityProvider/authorities/{uuid}/raProfile/attributes: the     *)
(* hidden UUID is filled in by Core.                                         *)
get_raprofile_attributes(a) ==
    /\ form.kind = "none" /\ a \in authorities
    /\ form' = [kind |-> "raprofile", uuid |-> a]
    /\ shown' = get_raprofile_attributes_list(a, get_templates(a))
    /\ values' = [n \in RaProfileNames |->
                    IF n = "raprofile_authority_uuid" THEN <<a>> ELSE <<>>]
    /\ UNCHANGED <<authorities, pending, sent, outcome>>

Selectable(attribute) ==
    IF ~attribute.list THEN {<<>>} \union {<<c>> : c \in ConfigStrings}
    ELSE IF attribute.multi
         THEN {Elements(attribute.content, {i \in DOMAIN attribute.content : attribute.content[i] \in S}) :
                 S \in SUBSET Range(attribute.content)}
         ELSE {<<c>> : c \in Range(attribute.content)}

(* The user chooses.  What a callback of the chosen attribute had brought is *)
(* not shown any more, though its values may still be there.                 *)
Fill ==
    /\ sent = <<>>
    /\ \E attribute \in Range(shown) :
        /\ attribute.type = "data" /\ attribute.visible /\ attribute.name \in DOMAIN values
        /\ \E content \in Selectable(attribute) : values' = [values EXCEPT ![attribute.name] = content]
        /\ LET outdated == {b \in Range(shown) : attribute.name \in Mapped(b.callback)}
               group == \E b \in outdated : b.type = "group"
               kept == Elements(shown, {i \in DOMAIN shown : ~group \/ shown[i].name \notin GroupNames})
           IN  /\ shown' = [i \in DOMAIN kept |->
                                IF kept[i] \in outdated /\ kept[i].type = "data"
                                THEN [kept[i] EXCEPT !.content = <<>>] ELSE kept[i]]
               /\ pending' = pending \union {b.name : b \in outdated}
    /\ UNCHANGED <<authorities, form, sent, outcome>>

(* Core runs a callback once all that is mapped is there: the chosen values  *)
(* that are not offered any more are dropped.  A session to an authority     *)
(* that is gone is a 500, and the callback is run again.                     *)
RunCallback ==
    \E i \in DOMAIN shown :
        LET attribute == shown[i] IN
        /\ sent = <<>> /\ attribute.name \in pending /\ Runnable(attribute.callback)
        /\ NeedsSession(attribute) =>
               PathVariable(attribute.callback, "authority_instance_uuid") \in authorities
        /\ LET brought == Routed(attribute)
               offered == UNION {Range(b.content) : b \in Range(brought)}
               lists == {b.name : b \in {b \in Range(brought) : b.list}}
           IN  /\ shown' = SubSeq(shown, 1, i - 1) \o brought \o SubSeq(shown, i + 1, Len(shown))
               /\ values' = [n \in DOMAIN values |->
                                IF n \in lists
                                THEN Elements(values[n], {k \in DOMAIN values[n] : values[n][k] \in offered})
                                ELSE values[n]]
        /\ pending' = pending \ {attribute.name}
        /\ UNCHANGED <<authorities, form, sent, outcome>>

(* Core checks that what is required is there, and the connector's validate  *)
(* endpoints accept anything.  Values not shown may or may not be sent.      *)
Submit ==
    /\ sent = <<>> /\ shown # <<>> /\ pending = {}
    /\ \A attribute \in Range(shown) : attribute.required => values[attribute.name] # <<>>
    /\ \E names \in {DOMAIN values, DOMAIN values \intersect {b.name : b \in Range(shown)}} :
           sent' = SetToSeq({[name |-> n, content |-> values[n]] : n \in names})
    /\ UNCHANGED <<authorities, form, shown, values, pending, outcome>>

-------------------------------------------------------------------------------
(* discover_certificates: the CAs to ask, none standing for all; no sequence *)
(* at all is an exception.                                                   *)
SelectedCas ==
    LET method == get_attribute_value("discovery_select_ca_method", sent)
        configString == get_attribute_value("discovery_config_string", sent)
    IN  CASE method = "search" ->
                 {from_dicts(get_attribute_value_list("discovery_ca_name", sent), AuthorityFields)}
          [] method = "configstring" /\ WellFormed(configString) -> {<<OfConfigString(configString)>>}
          [] OTHER -> {}

get_certificate_meta(cas, template) ==
    <<get_ca_name_metadata_attribute(cas[1].name), get_template_name_metadata_attribute(template)>>

(* What every CA is found to have of every template, or of any. *)
Found(a, cas, queries) ==
    UNION {Range(parse_certificates(dump_certificates(a, ca, q))) : ca \in Range(cas), q \in queries}

(* run_discovery with the attributes of the form. *)
run_discovery ==
    /\ form.kind = "discovery" /\ sent # <<>> /\ outcome = NoOutcome
    /\ LET a == get_attribute_value("discovery_authority_instance", sent).uuid
           templates == from_dicts(get_attribute_value_list("discovery_template_name", sent),
                                   TemplateFields)
           queries == IF templates = <<>> THEN {{}} ELSE {{t} : t \in Range(templates)}
       IN  IF a \notin authorities \/ SelectedCas = {}
           THEN outcome' = Refused
           ELSE \E selected \in SelectedCas :
                    LET cas == IF selected = <<>> THEN get_cas(a) ELSE selected
                    IN  outcome' = [status |-> "completed", certificates |->
                            {[certificate |-> c.certificate,
                              meta |-> get_certificate_meta(cas, c.template)] : c \in Found(a, cas, queries)}]
    /\ UNCHANGED <<authorities, form, shown, values, pending, sent>>

(* Mutant: a CA among the values is taken whatever the method is. *)
get_ca_from_attributes_AnyMethod ==
    LET chosen == get_attribute_value("raprofile_ca_name", sent)
        configString == get_attribute_value("raprofile_config_string", sent)
    IN  IF Readable(chosen, AuthorityFields) THEN {from_dict(chosen, AuthorityFields)}
        ELSE IF WellFormed(configString) THEN {OfConfigString(configString)}
        ELSE {}

(* The CA of the RA profile; none at all is an exception. *)
get_ca_from_attributes ==
    LET method == get_attribute_value("raprofile_select_ca_method", sent)
        chosen == get_attribute_value("raprofile_ca_name", sent)
        configString == get_attribute_value("raprofile_config_string", sent)
    IN  CASE method = "search" /\ Readable(chosen, AuthorityFields) ->
                 {from_dict(chosen, AuthorityFields)}
          [] method = "configstring" /\ WellFormed(configString) -> {OfConfigString(configString)}
          [] OTHER -> {}

(* What a client asks for, in one of the formats of CertificateRequestFormat. *)
Requests == {[format |-> "crmf", request |-> crmf] : crmf \in CRMFs}
            \union {[format |-> "pkcs10", request |-> pkcs10] : pkcs10 \in Pkcs10s}

(* Only a CRMF request is converted; another goes to the CA as it is.        *)
certificate_request(request_dto, ca, template) ==
    IF request_dto.format = "crmf" THEN create_cms(request_dto.request, ca.name, template)
    ELSE request_dto.request

(* prepare_and_issue with the RA profile's attributes: what is submitted, to *)
(* whom, and the template the script names beside the request.               *)
prepare_and_issue(request_dto) ==
    /\ form.kind = "raprofile" /\ sent # <<>> /\ outcome = NoOutcome
    /\ LET template == from_dict(get_attribute_value("raprofile_template_name", sent), TemplateFields)
       IN  IF get_ca_from_attributes = {} \/ form.uuid \notin authorities
           THEN outcome' = Refused
           ELSE \E ca \in get_ca_from_attributes :
                    outcome' = [status |-> "submitted", asked |-> request_dto,
                                config_string |-> ca.config_string, template |-> template.name,
                                request |-> certificate_request(request_dto, ca, template)]
    /\ UNCHANGED <<authorities, form, shown, values, pending, sent>>

(* identify_certificate_script: the rows of the CA with a serial number. *)
identified_rows(a, ca, serial) ==
    LET rows == IF \E i \in DOMAIN Forest[a] : Forest[a][i]["Name"] = ca.name
                THEN Elements(Database[ca.name],
                              {i \in DOMAIN Database[ca.name] : Database[ca.name][i].serial = serial})
                ELSE <<>>
    IN  PrintedObjects(IdentifiedKeys, [i \in DOMAIN rows |->
            [k \in Range(IdentifiedKeys) |->
                CASE k = "CertificateTemplate" -> rows[i].template
                  [] k = "SerialNumber" -> rows[i].serial
                  [] k = "ConfigString" -> ca.config_string]])

(* identify with the RA profile's attributes: the certificate is the CA's    *)
(* and of the template, which its row has by OID or by name.                 *)
identify(serial) ==
    /\ form.kind = "raprofile" /\ sent # <<>> /\ outcome = NoOutcome
    /\ LET template == from_dict(get_attribute_value("raprofile_template_name", sent), TemplateFields)
           answer(parsed) ==
               IF parsed = <<>> THEN "notFound"
               ELSE IF Len(parsed) = 1 /\ parsed[1].certificate_template \in {template.oid, template.name}
               THEN "identified" ELSE "invalid"
       IN  IF get_ca_from_attributes = {} \/ form.uuid \notin authorities
           THEN outcome' = Refused
           ELSE \E ca \in get_ca_from_attributes :
                    outcome' = [serial |-> serial, status |->
                        answer(parse_identified_certificates(identified_rows(form.uuid, ca, serial)))]
    /\ UNCHANGED <<authorities, form, shown, values, pending, sent>>

Serials == UNION {{row.serial : row \in Range(Database[n])} : n \in DOMAIN Database}

Next ==
    \/ \E a \in Authorities : DeleteAuthority(a) \/ get_raprofile_attributes(a)
    \/ get_discovery_attributes \/ Fill \/ RunCallback \/ Submit \/ run_discovery
    \/ \E request_dto \in Requests : prepare_and_issue(request_dto)
    \/ \E serial \in Serials : identify(serial)

Spec == Init /\ [][Next]_vars

-------------------------------------------------------------------------------
(* What the user sees: objects of the forest, known by their names.          *)
ChosenAuthority ==
    IF form.kind = "raprofile" THEN form.uuid ELSE values["discovery_authority_instance"][1].uuid

ChosenTemplates(name) ==
    {t \in Range(TemplatesOf[ChosenAuthority]) : \E c \in Range(values[name]) : c.name = t["Name"]}

(* A selected CA, or the one a configuration string names: Name and ConfigString. *)
ChosenCas(method, ca, configString) ==
    IF values[method] = <<"search">>
    THEN {[name |-> c.name, config |-> c.config_string] : c \in Range(values[ca])}
    ELSE {[name |-> c[2], config |-> c] : c \in {c \in Range(values[configString]) : WellFormed(c)}}

(* Whatever the user has changed and in whatever order the callbacks ran,    *)
(* what is offered for CAs and templates is what the server of the chosen    *)
(* authority has, every property in its field, and a chosen one is offered;  *)
(* no two attributes have one name, and every name is one the services read. *)
OffersAreReal ==
    /\ \A i, j \in DOMAIN shown : shown[i].name = shown[j].name => i = j
    /\ \A attribute \in Range(shown) :
        /\ attribute.type = "data" =>
               attribute.name \in DOMAIN values \union {"discovery_issued_after"}
        /\ attribute.name \in {"discovery_ca_name", "raprofile_ca_name"} /\ pending = {} =>
               /\ {<<c.name, c.display_name, c.computer_name, c.config_string, c.ca_type,
                     c.is_enterprise, c.is_root, c.is_accessible, c.service_status>> :
                        c \in Range(attribute.content)} =
                  {[k \in DOMAIN AuthorityKeys |-> o[AuthorityKeys[k]]] :
                        o \in Range(Forest[ChosenAuthority])}
               /\ Range(values[attribute.name]) \subseteq Range(attribute.content)
        /\ \/ attribute.name = "raprofile_template_name"
           \/ attribute.name = "discovery_template_name" /\ pending = {}
                 /\ values["discovery_authority_instance"] # <<>>
           => /\ {<<t.name, t.display_name, t.schema_version, t.version, t.oid>> :
                       t \in Range(attribute.content)} =
                 {[k \in DOMAIN TemplateKeys |-> o[TemplateKeys[k]]] :
                       o \in Range(TemplatesOf[ChosenAuthority])}
              /\ Range(values[attribute.name]) \subseteq Range(attribute.content)

(* "Discovery by default runs on all authorities and templates": a discovery *)
(* finds exactly the rows of the chosen CAs, or of all, that belong to the   *)
(* chosen templates, or to any, labelled with their template; it is refused  *)
(* only if the authority is gone or the configuration string is no such.     *)
DiscoversWhatWasChosen ==
    LET cas == ChosenCas("discovery_select_ca_method", "discovery_ca_name", "discovery_config_string")
        forest == {o["Name"] : o \in Range(Forest[ChosenAuthority])}
        names == IF cas = {} THEN forest ELSE forest \intersect {c.name : c \in cas}
        templates == ChosenTemplates("discovery_template_name")
        wanted(row) == templates = {} \/ \E t \in templates : row.template \in {t["Name"], t["OID"]}
    IN  /\ outcome.status = "completed" =>
               {<<c.certificate, c.meta[2].content[1]>> : c \in outcome.certificates} =
               {<<row.chunks, row.template>> : row \in
                   {row \in UNION {Range(Database[n]) : n \in names} : wanted(row)}}
        /\ form.kind = "discovery" /\ outcome.status = "refused" =>
               \/ ChosenAuthority \notin authorities
               \/ values["discovery_select_ca_method"] = <<"configstring">> /\ cas = {}

(* A request is submitted to the chosen CA with the chosen template's name,  *)
(* a PKCS#10 as it came.  What is made of a CRMF request verifies at the CA  *)
(* and asks for the subject, key and subjectAltName of the client under that *)
(* template, by name or by OID and version.  A certificate is identified     *)
(* exactly if the chosen CA, in the authority's forest, has it under the     *)
(* template; a call is refused only if the authority is gone or no CA was    *)
(* chosen.                                                                   *)
ProfileIsFollowed ==
    LET cas == ChosenCas("raprofile_select_ca_method", "raprofile_ca_name", "raprofile_config_string")
        asked == Requested(outcome.request)
        client == outcome.asked.request[1].certTemplate
        alternatives == {e \in Range(client.extensions) : e.extn_id = SAN}
        template == CHOOSE t \in ChosenTemplates("raprofile_template_name") : TRUE
        values_of_template == IF template["SchemaVersion"] = "1" THEN <<template["Name"]>>
                              ELSE <<template["OID"]>> \o template["Version"]
    IN  /\ outcome.status = "submitted" =>
               /\ outcome.config_string \in {c.config : c \in cas}
               /\ outcome.template = template["Name"]
               /\ outcome.asked.format # "crmf" => outcome.request = outcome.asked.request
        /\ outcome.status = "submitted" /\ outcome.asked.format = "crmf" =>
               /\ Verifies(outcome.request)
               /\ asked.subject = client.subject /\ asked.key = client.publicKey
               /\ alternatives = {e \in asked.extensions : e.extn_id = SAN}
               /\ {e.extn_value : e \in asked.extensions \ alternatives} = {values_of_template}
        /\ outcome.status \in {"identified", "notFound", "invalid"} =>
               (outcome.status = "identified" <=>
                    \E n \in {o["Name"] : o \in Range(Forest[form.uuid])} \intersect {c.name : c \in cas} :
                        \E row \in Range(Database[n]) :
                            /\ row.serial = outcome.serial
                            /\ row.template \in {template["Name"], template["OID"]})
        /\ form.kind = "raprofile" /\ outcome.status = "refused" =>
               form.uuid \notin authorities \/ cas = {}
===============================================================================
