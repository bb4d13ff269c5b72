--------------------------- MODULE RequestEncoding ---------------------------
(***************************************************************************)
(* utils/cms_utils.py: a CRMF request re-encoded as the CMC request of     *)
(* [MS-WCCE] 3.1.1.4.3.1.3, a null-signed PKCS#10 inside PKIData inside    *)
(* SignedData.  ASN.1 structures are records with their fields' values;    *)
(* encoding is one to one, so SHA-256 of an encoding is a term around it.  *)
(***************************************************************************)
EXTENDS SequencesExt, Lists

Sha256(encoded) == [sha256 |-> encoded]

SAN == "2.5.29.17"

(* The versions of a template, "100.3", are major and minor. *)
TemplateExtension(template) ==
    IF template.schema_version = "1"
    THEN [extn_id |-> "microsoft_enroll_certtype", critical |-> FALSE,
          extn_value |-> <<template.name>>]
    ELSE [extn_id |-> "1.3.6.1.4.1.311.21.7", critical |-> FALSE,
          extn_value |-> <<template.oid>> \o template.version]

(* Mutant: the critical flag is not copied. *)
SubjectAltName_NotCritical(extensions) ==
    LET names == Elements(extensions, {i \in DOMAIN extensions : extensions[i].extn_id = SAN})
    IN  IF names = <<>> THEN <<>> ELSE <<[Head(names) EXCEPT !.critical = FALSE]>>

(* The first subjectAltName of the request, as it is; other extensions are   *)
(* not copied.                                                               *)
SubjectAltName(extensions) ==
    LET names == Elements(extensions, {i \in DOMAIN extensions : extensions[i].extn_id = SAN})
    IN  IF names = <<>> THEN <<>> ELSE <<Head(names)>>

(* Of the messages of a CRMF request the first; its proof of possession is   *)
(* not looked at.                                                            *)
convert_crmf_to_null_signed_pkcs10(crmf, template) ==
    LET request == crmf[1].certTemplate
        cri == [version |-> 0, subject |-> request.subject,
                subject_pk_info |-> request.publicKey,
                attributes |->
                    <<[type |-> "extension_request",
                       values |-> <<<<TemplateExtension(template)>>
                                    \o SubjectAltName(request.extensions)>>]>>]
    IN  [certification_request_info |-> cri, signature_algorithm |-> "sha256",
         signature |-> Sha256(cri)]

create_pki_data(pkcs10) ==
    [controlSequence |-> <<>>,
     reqSequence |-> <<[tcr |-> [bodyPartID |-> 0, certificationRequest |-> pkcs10]]>>,
     cmsSequence |-> <<>>, otherMsgSequence |-> <<>>]

create_encap_content_info(pki_data) ==
    [content_type |-> "1.3.6.1.5.5.7.12.2", content |-> pki_data]

create_signed_attributes(content) ==
    [content_type |-> "1.3.6.1.5.5.7.12.2", message_digest |-> Sha256(content)]

create_signer_infos(ca_name, content) ==
    LET signed_attrs == create_signed_attributes(content)
    IN  <<[version |-> 1, sid |-> [issuer |-> ca_name, serial_number |-> 123456789],
           digest_algorithm |-> "sha256", signed_attrs |-> signed_attrs,
           signature_algorithm |-> "1.3.6.1.5.5.7.6.2", signature |-> Sha256(signed_attrs)]>>

create_signed_data(pki_data, ca_name) ==
    LET encap == create_encap_content_info(pki_data)
    IN  [version |-> 3, digest_algorithms |-> {"sha256"}, encap_content_info |-> encap,
         signer_infos |-> create_signer_infos(ca_name, encap.content)]

create_cms(crmf, ca_name, template) ==
    [content_type |-> "1.2.840.113549.1.7.2",
     content |-> create_signed_data(
                     create_pki_data(convert_crmf_to_null_signed_pkcs10(crmf, template)),
                     ca_name)]

-------------------------------------------------------------------------------
(* The CA's side, after [MS-WCCE] and RFC 2797: every digest must be that of  *)
(* what it covers, and one PKCS#10 is in the request.                         *)
Pkcs10Of(cms) == cms.content.encap_content_info.content.reqSequence[1].tcr.certificationRequest

Verifies(cms) ==
    LET signed == cms.content
        signer == signed.signer_infos[1]
        pkcs10 == Pkcs10Of(cms)
    IN  /\ signer.signature = Sha256(signer.signed_attrs)
        /\ signer.signed_attrs.message_digest = Sha256(signed.encap_content_info.content)
        /\ signer.signed_attrs.content_type = signed.encap_content_info.content_type
        /\ signer.digest_algorithm \in signed.digest_algorithms
        /\ pkcs10.signature = Sha256(pkcs10.certification_request_info)

(* What the CA will issue: subject, key and the requested extensions. *)
Requested(cms) ==
    LET cri == Pkcs10Of(cms).certification_request_info
    IN  [subject |-> cri.subject, key |-> cri.subject_pk_info,
         extensions |-> Range(cri.attributes[1].values[1])]
===============================================================================
