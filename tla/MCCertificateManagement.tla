------------------------ MODULE MCCertificateManagement ------------------------
(* Small instances of CertificateManagement for TLC: the RA profiles of the  *)
(* configurations, which give the other constants their values.              *)
EXTENDS CertificateManagement

AllProfiles == [ca : CAs, template : Templates]

(* Every CA and every template has a profile, and some pairs have none. *)
BothProfiles ==
    LET ca == SetToSeq(CAs)
        template == SetToSeq(Templates)
    IN  {[ca |-> ca[i], template |-> template[i]] : i \in DOMAIN ca \intersect DOMAIN template}
===============================================================================
