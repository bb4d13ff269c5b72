--------------------------- MODULE MCAttributeForms ---------------------------
(* A small instance of AttributeForms for TLC: two authorities in forests of *)
(* their own, one with two CAs, templates of both schemas.                   *)
EXTENDS AttributeForms

CONSTANTS a1, a2, csr

Ca(computer, name) ==
    [k \in Range(AuthorityKeys) |->
        CASE k = "ConfigString" -> <<computer, name>> [] k = "ComputerName" -> computer
          [] k \in {"IsEnterprise", "IsRoot", "IsAccessible"} -> TRUE
          [] k \in {"Name", "DisplayName"} -> name [] OTHER -> k]

Template(name, oid, schema, version) ==
    [k \in Range(TemplateKeys) |->
        CASE k = "OID" -> oid [] k = "SchemaVersion" -> schema [] k = "Version" -> version
          [] OTHER -> name]

Web == Template("WebServer", "1.1", "1", <<4, 1>>)
Client == Template("Client", "1.2", "2", <<100, 3>>)

MCForest == (a1 :> <<Ca("c1", "CA1"), Ca("c2", "CA2")>>) @@ (a2 :> <<Ca("c3", "CA3")>>)
MCTemplatesOf == (a1 :> <<Web, Client>>) @@ (a2 :> <<Client>>)

(* A row of each template and one without, the certificate in two lines. *)
Row(ca, template) == [template |-> template, serial |-> <<ca, template>>,
                      chunks |-> <<<<ca, template, 1>>, <<ca, template, 2>>>>]
MCDatabase == [ca \in {"CA1", "CA2", "CA3"} |->
                  <<Row(ca, "WebServer"), Row(ca, NoValue), Row(ca, "1.2")>>]

(* The computer is not compared when a CA is looked up by its name. *)
MCConfigStrings == {<<"c2", "CA2">>, <<"c1", "CA2">>, <<"CA2">>, <<"c2", "">>}

Extension(id, critical) == [extn_id |-> id, critical |-> critical, extn_value |-> <<id>>]
Message(subject, extensions) ==
    [certTemplate |-> [subject |-> subject, publicKey |-> <<"key", subject>>, extensions |-> extensions]]
MCCRMFs == {<<Message("s1", <<>>)>>,
            <<Message("s2", <<Extension("2.5.29.15", TRUE), Extension(SAN, TRUE)>>),
              Message("s3", <<>>)>>}
===============================================================================
