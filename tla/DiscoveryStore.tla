---------------------------- MODULE DiscoveryStore ----------------------------
(***************************************************************************)
(* What the connector's certificate store promises to ILM Core, with every *)
(* operation a single step: a discovery ends at most once, its             *)
(* certificates appear together with the status "completed" or not at all, *)
(* a deleted discovery stays deleted, and the cleanup removes nothing a    *)
(* discovery still shows.  CertificateStore is shown to implement it.      *)
(***************************************************************************)
EXTENDS Naturals

CONSTANTS
    Discoveries,    \* discovery requests (one discovery_history row each)
    Fingerprints,   \* certificate fingerprints ADCS can return
    MaxCopies       \* how often one certificate may occur in one collection

VARIABLES
    status,     \* status[d], the discovery's life as ILM Core sees it
    content,    \* content[d][fp], how many certificates fp discovery d shows
    stored      \* the fingerprints kept in the certificate table

vars == <<status, content, stored>>

Nothing == [fp \in Fingerprints |-> 0]

Collection == [Fingerprints -> 0..MaxCopies]

Shown(d) == {fp \in Fingerprints : content[d][fp] > 0}

Visible == UNION {Shown(d) : d \in Discoveries}

Init ==
    /\ status = [d \in Discoveries |-> "unborn"]
    /\ content = [d \in Discoveries |-> Nothing]
    /\ stored = {}

(* POST /discover is accepted: the discovery exists and runs. *)
Start(d) ==
    /\ status[d] = "unborn"
    /\ status' = [status EXCEPT ![d] = "inProgress"]
    /\ UNCHANGED <<content, stored>>

(* All that was collected is stored, linked and announced in one step. *)
Complete(d) ==
    /\ status[d] = "inProgress"
    /\ \E collection \in Collection :
        /\ content' = [content EXCEPT ![d] = collection]
        /\ stored' = stored \union {fp \in Fingerprints : collection[fp] > 0}
    /\ status' = [status EXCEPT ![d] = "completed"]

(* The discovery gives up and shows nothing. *)
Fail(d) ==
    /\ status[d] = "inProgress"
    /\ status' = [status EXCEPT ![d] = "failed"]
    /\ UNCHANGED <<content, stored>>

(* DELETE of an existing discovery; its certificates are left to Sweep. *)
Delete(d) ==
    /\ status[d] \in {"inProgress", "completed", "failed"}
    /\ status' = [status EXCEPT ![d] = "deleted"]
    /\ content' = [content EXCEPT ![d] = Nothing]
    /\ UNCHANGED stored

(* The cleanup removes some certificates that no discovery shows. *)
Sweep ==
    /\ \E orphans \in SUBSET (stored \ Visible) : stored' = stored \ orphans
    /\ UNCHANGED <<status, content>>

Next ==
    \/ \E d \in Discoveries : Start(d) \/ Complete(d) \/ Fail(d) \/ Delete(d)
    \/ Sweep

Spec == Init /\ [][Next]_vars
===============================================================================
