------------------------- MODULE CertificateManagement -------------------------
(***************************************************************************)
(* Issue (and renew), revoke and identify: calls of certificate_management *)
(* that run one PowerShell script each, in a WinRM shell of their own, on  *)
(* the host of the CAs.  A call is a thread of the connector and a script; *)
(* when the transport fails the thread answers an error, and the script    *)
(* goes on without it.  The CAs' administrators approve and deny pending   *)
(* requests meanwhile.                                                     *)
(***************************************************************************)
EXTENDS Naturals, SequencesExt

CONSTANTS
    Calls,          \* the calls
    CAs,            \* certification authorities
    Templates,      \* certificate templates
    Profiles,       \* the RA profiles: a CA and a template each
    PollInterval,   \* ADCS_ISSUE_POLLING_INTERVAL
    Timeout         \* ADCS_ISSUE_POLLING_TIMEOUT

ASSUME ManagementAssumption ==
    /\ Profiles # {} /\ Profiles \subseteq [ca : CAs, template : Templates]
    /\ PollInterval \in Nat \ {0} /\ Timeout \in Nat

VARIABLES
    requests,       \* the CAs' requests; a request's id is its index
    call,           \* call[c]: the thread, its input and its answer
    script,         \* script[c]: the script and its variables
    shells,         \* the calls whose shell is open on the host
    atWake          \* history: the request's state when the script last woke up

vars == <<requests, call, script, shells, atWake>>

States == {"incomplete", "pending", "denied", "issued", "revoked"}
Certified == {"issued", "revoked"}

Request == [ca : CAs, template : Templates, state : States]

(* An input is a kind, an RA profile and a certificate, as the id of its    *)
(* request; 0 for a new one.                                                *)
Call ==
    [pc : {"idle", "received", "running", "disconnecting", "answered"},
     kind : {"issue", "revoke", "identify"}, profile : Profiles, certificate : Nat,
     answer : {"none", "certificate", "empty", "revoked", "found", "notFound", "mismatch",
               "rejected", "error"}]

(* Variables that may be $null, and the output, are sets of at most one.    *)
Script ==
    [at : {"none", "submit", "sleep", "retrieve", "until", "fetch", "revoke", "identify",
           "done", "threw"},
     requestId : SUBSET (1..Len(requests)), disposition : SUBSET States,
     elapsed : 0..(Timeout + PollInterval), output : SUBSET (1..Len(requests))]

NoScript == [at |-> "none", requestId |-> {}, disposition |-> {}, elapsed |-> 0, output |-> {}]

(* $null: the script sets $timeoutMilliseconds and reads $timeout. *)
ScriptTimeout == {}

(* PowerShell's -ge: every number is -ge $null. *)
Ge(a, b) == \A n \in b : a >= n

Certificates == {id \in DOMAIN requests : requests[id].state \in Certified}

-------------------------------------------------------------------------------
(* There is a certificate to begin with. *)
Init ==
    /\ requests \in {<<r>> : r \in [ca : CAs, template : Templates, state : {"issued"}]}
    /\ call = [c \in Calls |-> [pc |-> "idle", kind |-> "issue",
            profile |-> CHOOSE p \in Profiles : TRUE, certificate |-> 0, answer |-> "none"]]
    /\ script = [c \in Calls |-> NoScript]
    /\ shells = {}
    /\ atWake = [c \in Calls |-> "unknown"]

Answer(c, answer) == [call EXCEPT ![c].pc = "answered", ![c].answer = answer]

Receive(c) ==
    /\ call[c].pc = "idle"
    /\ \E kind \in {"issue", "revoke", "identify"}, profile \in Profiles :
        \E id \in IF kind = "issue" THEN {0} ELSE Certificates :
            call' = [call EXCEPT ![c] = [pc |-> "received", kind |-> kind, profile |-> profile,
                                         certificate |-> id, answer |-> "none"]]
    /\ UNCHANGED <<requests, script, shells, atWake>>

(* The attributes, the format, the request or the certificate cannot be     *)
(* used, or the authority is unknown: the call ends before it has a shell.  *)
Reject(c) ==
    /\ call[c].pc = "received"
    /\ call' = Answer(c, "rejected")
    /\ UNCHANGED <<requests, script, shells, atWake>>

(* connect() and run_command: the script starts. *)
Connect(c) ==
    /\ call[c].pc = "received"
    /\ call' = [call EXCEPT ![c].pc = "running"]
    /\ shells' = shells \union {c}
    /\ script' = [script EXCEPT ![c].at =
                    IF call[c].kind = "issue" THEN "submit" ELSE call[c].kind]
    /\ UNCHANGED <<requests, atWake>>

-------------------------------------------------------------------------------
(* submit_certificate_request_script *)

(* Mutant: the disposition is not looked at. *)
AfterSubmit_Unchecked(state) == "fetch"

AfterSubmit(state) == IF state \in {"incomplete", "issued"} THEN "fetch" ELSE "sleep"

Submit(c) ==
    /\ script[c].at = "submit"
    /\ \E state \in {"incomplete", "pending", "denied", "issued"} :
        /\ requests' = Append(requests,
                        [ca |-> call[c].profile.ca, template |-> call[c].profile.template, state |-> state])
        /\ script' = [script EXCEPT
                        ![c].requestId = {Len(requests) + 1},
                        ![c].disposition = {state},
                        ![c].at = AfterSubmit(state)]
    /\ UNCHANGED <<call, shells, atWake>>

(* A COM call fails: an error ends its statement, not the script. *)
SubmitFails(c) ==
    /\ script[c].at = "submit"
    /\ script' = [script EXCEPT ![c].at = "sleep"]
    /\ UNCHANGED <<requests, call, shells, atWake>>

(* Bound: $elapsed is counted up to the first value past Timeout. *)
Sleep(c) ==
    /\ script[c].at = "sleep"
    /\ script' = [script EXCEPT
                    ![c].elapsed = IF @ >= Timeout THEN @ ELSE @ + PollInterval,
                    ![c].at = "retrieve"]
    /\ atWake' = [atWake EXCEPT ![c] =
                    IF script[c].requestId = {} THEN "unknown"
                    ELSE requests[CHOOSE id \in script[c].requestId : TRUE].state]
    /\ UNCHANGED <<requests, call, shells>>

Retrieve(c) ==
    /\ script[c].at = "retrieve"
    /\ \E id \in script[c].requestId :
        script' = [script EXCEPT ![c].disposition = {requests[id].state}, ![c].at = "until"]
    /\ UNCHANGED <<requests, call, shells, atWake>>

(* $disposition keeps its value; without a request this is certain. *)
RetrieveFails(c) ==
    /\ script[c].at = "retrieve"
    /\ script' = [script EXCEPT ![c].at = "until"]
    /\ atWake' = [atWake EXCEPT ![c] = "unknown"]
    /\ UNCHANGED <<requests, call, shells>>

(* Mutant: the time is looked at before the disposition. *)
AfterPoll_TimeFirst(disposition, elapsed) ==
    IF Ge(elapsed, ScriptTimeout) THEN "threw" ELSE IF disposition = {"issued"} THEN "fetch" ELSE "sleep"

(* Mutant: only an issued certificate ends the loop. *)
AfterPoll_Issued(disposition, elapsed) == IF disposition = {"issued"} THEN "fetch" ELSE "sleep"

(* The end of the loop, and what follows it. *)
AfterPoll(disposition, elapsed) ==
    IF disposition = {"issued"} THEN "fetch" ELSE IF Ge(elapsed, ScriptTimeout) THEN "threw" ELSE "sleep"

Until(c) ==
    /\ script[c].at = "until"
    /\ script' = [script EXCEPT ![c].at = AfterPoll(script[c].disposition, script[c].elapsed)]
    /\ UNCHANGED <<requests, call, shells, atWake>>

(* GetCertificate: what is printed is the certificate of the request. *)
Fetch(c) ==
    /\ script[c].at = "fetch" /\ script[c].disposition = {"issued"}
    /\ script' = [script EXCEPT ![c].output = script[c].requestId, ![c].at = "done"]
    /\ UNCHANGED <<requests, call, shells, atWake>>

(* It fails, on an incomplete request always: the script prints nothing and  *)
(* its exit code is 0.                                                       *)
FetchFails(c) ==
    /\ script[c].at = "fetch"
    /\ script' = [script EXCEPT ![c].at = "done"]
    /\ UNCHANGED <<requests, call, shells, atWake>>

-------------------------------------------------------------------------------
(* get_revoke_script, identify_certificate_script *)

(* Get-IssuedRequest | Revoke-Certificate: nothing found, nothing revoked. *)
Revoke(c) ==
    /\ script[c].at = "revoke"
    /\ LET id == call[c].certificate
           found == requests[id].ca = call[c].profile.ca /\ requests[id].state = "issued"
       IN  requests' = IF found THEN [requests EXCEPT ![id].state = "revoked"] ELSE requests
    /\ script' = [script EXCEPT ![c].at = "done"]
    /\ UNCHANGED <<call, shells, atWake>>

(* Mutant: only requests that are issued and not revoked. *)
Listed_IssuedOnly(c) ==
    {id \in {call[c].certificate} : requests[id].ca = call[c].profile.ca /\ requests[id].state = "issued"}

(* The rows with the serial number and a disposition from 12 to 21. *)
Listed(c) ==
    {id \in {call[c].certificate} : requests[id].ca = call[c].profile.ca /\ requests[id].state \in Certified}

Identify(c) ==
    /\ script[c].at = "identify"
    /\ script' = [script EXCEPT ![c].output = Listed(c), ![c].at = "done"]
    /\ UNCHANGED <<requests, call, shells, atWake>>

(* The module, the CA or the command fails: a nonzero exit code. *)
CommandFails(c) ==
    /\ script[c].at \in {"revoke", "identify"}
    /\ script' = [script EXCEPT ![c].at = "threw"]
    /\ UNCHANGED <<requests, call, shells, atWake>>

-------------------------------------------------------------------------------
(* Mutant: the exit code is not checked. *)
Succeeded_Always(c) == TRUE

(* check_result *)
Succeeded(c) == script[c].at = "done"

(* get_command_output returns when the script has ended. *)
Collect(c) ==
    /\ call[c].pc = "running"
    /\ script[c].at \in {"done", "threw"}
    /\ call' = IF Succeeded(c) THEN [call EXCEPT ![c].pc = "disconnecting"] ELSE Answer(c, "error")
    /\ UNCHANGED <<requests, script, shells, atWake>>

(* Mutant: an empty output is answered like any other. *)
IssueAnswer_NoEmptyCheck(c) == "certificate"

IssueAnswer(c) == IF script[c].output = {} THEN "empty" ELSE "certificate"

IdentifyAnswer(c) ==
    IF script[c].output = {} THEN "notFound"
    ELSE IF \E id \in script[c].output : requests[id].template = call[c].profile.template
    THEN "found" ELSE "mismatch"

AnswerOf(c) ==
    CASE call[c].kind = "issue" -> IssueAnswer(c)
      [] call[c].kind = "revoke" -> "revoked"
      [] call[c].kind = "identify" -> IdentifyAnswer(c)

(* Mutant: an empty output is raised before the shell is closed. *)
Closed_CheckFirst(c) == IF AnswerOf(c) = "empty" THEN {} ELSE {c}

(* disconnect() closes the shell of the call's own session. *)
Closed(c) == {c}

Disconnect(c) ==
    /\ call[c].pc = "disconnecting"
    /\ shells' = shells \ Closed(c)
    /\ call' = Answer(c, AnswerOf(c))
    /\ UNCHANGED <<requests, script, atWake>>

(* The shell cannot be opened, the script not be built or started, its      *)
(* output is lost or the shell cannot be closed: an error, while a script   *)
(* that has started goes on.                                                *)
TransportFails(c) ==
    /\ call[c].pc \in {"received", "running", "disconnecting"}
    /\ call' = Answer(c, "error")
    /\ \/ UNCHANGED shells
       \/ call[c].pc = "received" /\ shells' = shells \union {c}
       \/ call[c].pc = "disconnecting" /\ shells' = shells \ {c}
    /\ UNCHANGED <<requests, script, atWake>>

(* An administrator decides on a pending request. *)
Decide(id) ==
    /\ requests[id].state = "pending"
    /\ \E state \in {"issued", "denied"} : requests' = [requests EXCEPT ![id].state = state]
    /\ UNCHANGED <<call, script, shells, atWake>>

Thread(c) == Reject(c) \/ Connect(c) \/ Collect(c) \/ Disconnect(c)

RunScript(c) ==
    \/ Submit(c) \/ SubmitFails(c) \/ Sleep(c) \/ Retrieve(c) \/ RetrieveFails(c)
    \/ Until(c) \/ Fetch(c) \/ FetchFails(c) \/ Revoke(c) \/ Identify(c) \/ CommandFails(c)

Next ==
    \/ \E c \in Calls : Receive(c) \/ Thread(c) \/ RunScript(c) \/ TransportFails(c)
    \/ \E id \in DOMAIN requests : Decide(id)

Spec == Init /\ [][Next]_vars

(* Threads and scripts run; the answer of a script arrives or is an error. *)
FairSpec == Spec /\ \A c \in Calls : WF_vars(Thread(c)) /\ WF_vars(RunScript(c))

-------------------------------------------------------------------------------
(* Every variable has its type, and a certificate is fetched only of a      *)
(* request that the CA has said to be issued or incomplete.                 *)
TypeOK ==
    /\ requests \in Seq(Request)
    /\ call \in [Calls -> Call]
    /\ script \in [Calls -> Script]
    /\ shells \subseteq Calls
    /\ atWake \in [Calls -> States \union {"unknown"}]
    /\ \A c \in Calls : script[c].at = "fetch" => script[c].disposition \in {{"issued"}, {"incomplete"}}

(* Issue and renew answer 200 only with the certificate that the CA issued  *)
(* for the call's own request, under the RA profile's CA and template, and  *)
(* no certificate is the answer to two calls.                               *)
OwnCertificate ==
    \A c \in Calls : call[c].answer = "certificate" =>
        /\ \E id \in Certificates :
            /\ script[c].output = {id} /\ script[c].requestId = {id}
            /\ requests[id].ca = call[c].profile.ca /\ requests[id].template = call[c].profile.template
        /\ \A other \in Calls \ {c} : script[other].output \intersect script[c].requestId # {} =>
                                        call[other].kind = "identify"

(* The submit script does not give up on a certificate that was issued      *)
(* before its last poll, unless the poll itself failed or the certificate   *)
(* has been revoked since.                                                  *)
NoneMissed ==
    \A c \in Calls :
        call[c].kind = "issue" /\ script[c].at = "threw" /\ atWake[c] = "issued" =>
            \E id \in script[c].requestId : requests[id].state = "revoked"

(* A revocation answered 200 is in effect at the CA that issued the         *)
(* certificate, if that is the CA of the RA profile, whichever calls raced; *)
(* and what is revoked is what the script of a revocation under its CA's RA *)
(* profile was asked to revoke.                                             *)
RevokedIsRevoked ==
    /\ \A c \in Calls :
           /\ call[c].answer = "revoked"
           /\ requests[call[c].certificate].ca = call[c].profile.ca
           => requests[call[c].certificate].state = "revoked"
    /\ \A id \in DOMAIN requests :
           requests[id].state = "revoked" =>
               \E c \in Calls :
                   /\ call[c].kind = "revoke" /\ script[c].at = "done"
                   /\ call[c].certificate = id /\ call[c].profile.ca = requests[id].ca

(* Identify says "not found" only of a certificate of another CA, also when *)
(* it is being revoked, and "found" only under its CA and template.         *)
IdentifyIsRight ==
    \A c \in Calls : LET r == requests[call[c].certificate] IN
        /\ call[c].answer = "notFound" => r.ca # call[c].profile.ca
        /\ call[c].answer = "found" => r.ca = call[c].profile.ca /\ r.template = call[c].profile.template

(* Only calls under way and calls answered with an error have a shell, and  *)
(* no shell is closed under a script that still runs in it, whose effect at *)
(* the CA would then be unknown to everybody.                               *)
ShellsAreClosed ==
    /\ \A c \in shells : call[c].pc \in {"running", "disconnecting"} \/ call[c].answer = "error"
    /\ \A c \in Calls : script[c].at \notin {"none", "done", "threw"} => c \in shells

(* Every call that is received is answered. *)
CallsAreAnswered ==
    \A c \in Calls : call[c].pc = "received" ~> call[c].pc = "answered"

(* The submit script gives up on a request that is still pending only after *)
(* the configured time ("Timeout in milliseconds to wait for issued         *)
(* certificates").                                                          *)
WaitsForTimeout ==
    \A c \in Calls :
        script[c].at = "threw" /\ script[c].disposition = {"pending"} => script[c].elapsed >= Timeout
===============================================================================
