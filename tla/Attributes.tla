------------------------------ MODULE Attributes ------------------------------
(***************************************************************************)
(* The attributes the connector describes to Core and reads back: the      *)
(* helpers of utils/attribute_definition_utils.py and one definition per   *)
(* attribute.  An attribute that comes back has its name and its content;  *)
(* labels, UUIDs, descriptions and references are left out, and a content  *)
(* is the sequence of its data.                                            *)
(***************************************************************************)
EXTENDS SequencesExt, Lists

CONSTANT NoValue        \* the "" of get_attribute_value

-------------------------------------------------------------------------------
(* attribute_definition_utils.py *)

(* The first attribute of that name with a content. *)
get_attribute_value_list(name, attributes) ==
    LET found == Elements(attributes, {i \in DOMAIN attributes :
                        attributes[i].name = name /\ attributes[i].content # <<>>})
    IN  IF found = <<>> THEN <<>> ELSE found[1].content

get_attribute_value(name, attributes) ==
    LET list == get_attribute_value_list(name, attributes)
    IN  IF list = <<>> THEN NoValue ELSE list[1]

(* The original attributes the request has, with the request's content: of  *)
(* two with one name, the last.                                             *)
merge_attributes(request, original) ==
    LET requested(name) == Elements(request, {i \in DOMAIN request : request[i].name = name})
        kept == Elements(original, {i \in DOMAIN original : requested(original[i].name) # <<>>})
    IN  [i \in DOMAIN kept |->
            [kept[i] EXCEPT !.content = Last(requested(kept[i].name)).content]]

-------------------------------------------------------------------------------
(* services/attributes/__init__.py *)

NoCallback == [context |-> "none", mappings |-> {}]

(* build_attribute with get_data_attribute_properties. *)
DataAttribute(name, contentType, flags, content, callback) ==
    [name |-> name, type |-> "data", contentType |-> contentType,
     required |-> "required" \in flags, visible |-> "hidden" \notin flags,
     list |-> "list" \in flags, multi |-> "multi" \in flags,
     content |-> content, callback |-> callback]

(* build_attribute with get_info_attribute_properties. *)
InfoAttribute(name) ==
    [DataAttribute(name, "text", {}, <<>>, NoCallback) EXCEPT !.type = "info"]

(* build_attribute with no properties: a place that a callback fills. *)
GroupAttribute(name, context, mappings) ==
    [DataAttribute(name, "none", {}, <<>>,
                   [context |-> context, mappings |-> mappings])
        EXCEPT !.type = "group"]

(* build_attribute with get_metadata_attribute_properties. *)
MetaAttribute(name, value) ==
    [DataAttribute(name, "string", {}, <<value>>, NoCallback) EXCEPT !.type = "meta"]

(* A variable of a callback's path is the content of an attribute, or a      *)
(* property of it.                                                           *)
From(attribute, variable) == [attribute |-> attribute, property |-> "all", variable |-> variable]
FromUuid(attribute, variable) == [From(attribute, variable) EXCEPT !.property = "uuid"]

-------------------------------------------------------------------------------
(* authority_attributes.py *)

Transports == {"credssp"}

get_adcs_info_attribute == InfoAttribute("authority_adcs_info")

get_credential_type_attribute ==
    DataAttribute("authority_credential_type", "string", {"required", "list"},
                  <<"Basic">>, NoCallback)

get_credential_attribute ==
    DataAttribute("authority_credential", "credential", {"required", "list"}, <<>>,
                  [context |-> "core/getCredentials",
                   mappings |-> {From("authority_credential_type", "credentialKind")}])

get_server_attribute ==
    DataAttribute("authority_server_address", "string", {"required"}, <<>>, NoCallback)

get_use_https_attribute ==
    DataAttribute("authority_use_https", "boolean", {}, <<"true">>, NoCallback)

get_winrm_port_attribute ==
    DataAttribute("authority_winrm_port", "integer", {"required"}, <<"5985">>, NoCallback)

get_winrm_transport_attribute ==
    DataAttribute("authority_winrm_transport", "string", {"required", "list"},
                  <<"credssp">>, NoCallback)

get_winrm_transport_config_attribute ==
    GroupAttribute("authority_winrm_transport_config", "authority/winrmConfig",
                   {From("authority_winrm_transport", "winrm_transport")})

get_authority_attributes_list ==
    <<get_adcs_info_attribute, get_credential_type_attribute, get_credential_attribute,
      get_server_attribute, get_use_https_attribute, get_winrm_port_attribute,
      get_winrm_transport_attribute>>

get_all_authority_attributes_list ==
    Append(get_authority_attributes_list, get_winrm_transport_config_attribute)

-------------------------------------------------------------------------------
(* discovery_attributes.py *)

CaSelectMethods == <<"search", "configstring">>

get_discovery_info_attribute == InfoAttribute("discovery_info")

get_authority_instances_attribute(instances) ==
    DataAttribute("discovery_authority_instance", "object", {"required", "list"},
                  instances, NoCallback)

get_discovery_select_ca_method_attribute ==
    DataAttribute("discovery_select_ca_method", "string", {"required", "list"},
                  CaSelectMethods, NoCallback)

get_discovery_ca_select_group_attribute ==
    GroupAttribute("discovery_ca_select_group", "discovery/caSelect",
                   {From("discovery_select_ca_method", "ca_select_method"),
                    FromUuid("discovery_authority_instance", "authority_instance_uuid")})

get_discovery_ca_name_attribute(cas) ==
    DataAttribute("discovery_ca_name", "object", {"list", "multi"}, cas, NoCallback)

get_discovery_template_name_attribute ==
    DataAttribute("discovery_template_name", "object", {"list", "multi"}, <<>>,
                  [context |-> "discovery/listTemplate",
                   mappings |-> {FromUuid("discovery_authority_instance",
                                          "authority_instance_uuid")}])

get_issued_after_attribute ==
    DataAttribute("discovery_issued_after", "datetime", {}, <<>>, NoCallback)

get_discovery_config_string_attribute ==
    DataAttribute("discovery_config_string", "string", {}, <<>>, NoCallback)

get_discovery_attributes_list(instances) ==
    <<get_discovery_info_attribute, get_authority_instances_attribute(instances),
      get_discovery_select_ca_method_attribute, get_discovery_ca_select_group_attribute,
      get_discovery_template_name_attribute, get_issued_after_attribute>>

-------------------------------------------------------------------------------
(* raprofile_attributes.py *)

get_raprofile_select_ca_method_attribute ==
    DataAttribute("raprofile_select_ca_method", "string", {"required", "list"},
                  CaSelectMethods, NoCallback)

get_authority_uuid_attribute(uuid) ==
    DataAttribute("raprofile_authority_uuid", "string", {"required", "hidden"},
                  <<uuid>>, NoCallback)

get_raprofile_ca_select_group_attribute ==
    GroupAttribute("raprofile_ca_select_group", "raProfile/caSelect",
                   {From("raprofile_select_ca_method", "ca_select_method"),
                    From("raprofile_authority_uuid", "authority_instance_uuid")})

get_raprofile_template_name_attribute(templates) ==
    DataAttribute("raprofile_template_name", "object", {"required", "list"},
                  templates, NoCallback)

get_raprofile_config_string_attribute ==
    DataAttribute("raprofile_config_string", "string", {}, <<>>, NoCallback)

get_raprofile_ca_name_attribute(cas) ==
    DataAttribute("raprofile_ca_name", "object", {"list"}, cas, NoCallback)

get_raprofile_attributes_list(uuid, templates) ==
    <<get_raprofile_select_ca_method_attribute, get_authority_uuid_attribute(uuid),
      get_raprofile_ca_select_group_attribute,
      get_raprofile_template_name_attribute(templates)>>

-------------------------------------------------------------------------------
(* metadata_attributes.py *)

get_ca_name_metadata_attribute(name) == MetaAttribute("metadata_ca_name", name)

get_template_name_metadata_attribute(name) == MetaAttribute("metadata_template_name", name)

get_failed_reason_metadata_attribute(reason) ==
    MetaAttribute("metadata_failed_reason", reason)
===============================================================================
