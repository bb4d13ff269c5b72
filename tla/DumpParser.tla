------------------------------ MODULE DumpParser ------------------------------
(***************************************************************************)
(* What PowerShell prints with Format-List and what utils/dump_parser.py   *)
(* makes of it, line by line.  A line is a key and a value: the name of a  *)
(* property before the colon, "more" for a line that continues a value,    *)
(* "other" for any other.                                                  *)
(***************************************************************************)
EXTENDS Attributes

Line(key, value) == [key |-> key, value |-> value]
OtherLine == Line("other", NoValue)

-------------------------------------------------------------------------------
(* Format-List: one line per property in the order of Select, an empty line  *)
(* after each object.  A long value's further lines are left out: the loops  *)
(* that read these records skip them.                                        *)
PrintedObjects(keys, objects) ==
    FlattenSeq([i \in DOMAIN objects |->
        Append([k \in DOMAIN keys |-> Line(keys[k], objects[i][keys[k]])], OtherLine)])

(* A row of Get-AdcsDatabaseRow: its template, its certificate in chunks and *)
(* the properties around them, of which one always follows the certificate   *)
(* (tests.py:34); a row that no template made has an empty value.            *)
PrintedRows(rows) ==
    FlattenSeq([i \in DOMAIN rows |->
        <<OtherLine, Line("CertificateTemplate", rows[i].template),
          Line("RawCertificate", rows[i].chunks[1])>>
        \o [c \in 1..(Len(rows[i].chunks) - 1) |-> Line("more", rows[i].chunks[c + 1])]
        \o <<Line("CertificateTemplateOid", rows[i].template), OtherLine,
             Line("more", NoValue), OtherLine>>])

(* std_out.strip().split: the blank lines at either end are gone. *)
Stripped(lines) ==
    LET told == {i \in DOMAIN lines : lines[i] # OtherLine}
    IN  IF told = {} THEN <<OtherLine>> ELSE SubSeq(lines, Min(told), Max(told))

-------------------------------------------------------------------------------
(* The loop of parse_identified_certificates, parse_template_data and         *)
(* parse_authority_data: a line sets its field, the one of the last key       *)
(* completes the record and empties the fields.                               *)
NoFields(keys) == [k \in keys |-> NoValue]

ReadLine(keys, last, state, line) ==
    IF line.key \notin keys THEN state
    ELSE LET record == [state.record EXCEPT ![line.key] = line.value]
         IN  IF line.key = last
             THEN [record |-> NoFields(keys), result |-> Append(state.result, record)]
             ELSE [state EXCEPT !.record = record]

ParseRecords(keys, last, lines) ==
    FoldLeft(LAMBDA state, line : ReadLine(keys, last, state, line),
             [record |-> NoFields(keys), result |-> <<>>], Stripped(lines)).result

TemplateKeys == <<"Name", "DisplayName", "SchemaVersion", "Version", "OID">>
AuthorityKeys == <<"Name", "DisplayName", "ComputerName", "ConfigString", "Type",
                   "IsEnterprise", "IsRoot", "IsAccessible", "ServiceStatus">>
IdentifiedKeys == <<"CertificateTemplate", "SerialNumber", "ConfigString">>

parse_identified_certificates(lines) ==
    LET parsed == ParseRecords(Range(IdentifiedKeys), "ConfigString", lines)
    IN  [i \in DOMAIN parsed |->
            [certificate_template |-> parsed[i]["CertificateTemplate"],
             serial_number |-> parsed[i]["SerialNumber"],
             config_string |-> parsed[i]["ConfigString"]]]

(* Mutant: the record is complete with the line before the last. *)
parse_template_data_Early(lines) ==
    LET parsed == ParseRecords(Range(TemplateKeys), "Version", lines)
    IN  [i \in DOMAIN parsed |->
            [name |-> parsed[i]["Name"], display_name |-> parsed[i]["DisplayName"],
             schema_version |-> parsed[i]["SchemaVersion"],
             version |-> parsed[i]["Version"], oid |-> parsed[i]["OID"]]]

parse_template_data(lines) ==
    LET parsed == ParseRecords(Range(TemplateKeys), "OID", lines)
    IN  [i \in DOMAIN parsed |->
            [name |-> parsed[i]["Name"], display_name |-> parsed[i]["DisplayName"],
             schema_version |-> parsed[i]["SchemaVersion"],
             version |-> parsed[i]["Version"], oid |-> parsed[i]["OID"]]]

parse_authority_data(lines) ==
    LET parsed == ParseRecords(Range(AuthorityKeys), "ServiceStatus", lines)
    IN  [i \in DOMAIN parsed |->
            [name |-> parsed[i]["Name"], display_name |-> parsed[i]["DisplayName"],
             computer_name |-> parsed[i]["ComputerName"],
             config_string |-> parsed[i]["ConfigString"], ca_type |-> parsed[i]["Type"],
             is_enterprise |-> parsed[i]["IsEnterprise"], is_root |-> parsed[i]["IsRoot"],
             is_accessible |-> parsed[i]["IsAccessible"],
             service_status |-> parsed[i]["ServiceStatus"]]]

(* parse_certificates: a certificate goes on while lines continue it, any     *)
(* other line that is not one of its keys closes it.                          *)
NoCertificate(result) ==
    [in_cert |-> FALSE, cert |-> <<>>, template |-> NoValue, result |-> result]

ReadCertificateLine(state, line) ==
    CASE state.in_cert /\ line.key = "more" ->
             [state EXCEPT !.cert = Append(@, line.value)]
      [] line.key = "CertificateTemplate" ->
             [state EXCEPT !.template = line.value]
      [] line.key = "RawCertificate" ->
             [state EXCEPT !.cert = Append(@, line.value), !.in_cert = TRUE]
      [] state.in_cert /\ line.key \notin {"more", "CertificateTemplate", "RawCertificate"} ->
             NoCertificate(Append(state.result, [template |-> state.template,
                                                 certificate |-> state.cert]))
      [] OTHER -> state

parse_certificates(lines) ==
    FoldLeft(ReadCertificateLine, NoCertificate(<<>>), Stripped(lines)).result

(* The data of an attribute is the record's __dict__; from_dict reads every   *)
(* key of it, and "" has none.                                                *)
TemplateFields == {"name", "display_name", "schema_version", "version", "oid"}
AuthorityFields == {"name", "display_name", "computer_name", "config_string", "ca_type",
                    "is_enterprise", "is_root", "is_accessible", "service_status"}

Readable(data, fields) == data # NoValue /\ fields \subseteq DOMAIN data
from_dict(data, fields) == [f \in fields |-> data[f]]
from_dicts(list, fields) == [i \in DOMAIN list |-> from_dict(list[i], fields)]
===============================================================================
