--------------------- MODULE CertificateManagement_proofs ---------------------
(***************************************************************************)
(* Any number of calls, CAs, templates and RA profiles: the invariant that *)
(* CertificateManagement keeps, and the safety properties it implies.      *)
(***************************************************************************)
EXTENDS CertificateManagement, SequenceTheorems, TLAPS

Issuing == {"submit", "sleep", "retrieve", "until", "fetch"}

Types ==
    /\ requests \in Seq(Request)
    /\ call \in [Calls -> Call]
    /\ script = [c \in Calls |-> script[c]]
    /\ shells \subseteq Calls
    /\ atWake \in [Calls -> States \union {"unknown"}]

-------------------------------------------------------------------------------
(* The thread: its input, what it knows of its script, and its shell. *)
Asked(c) ==
    /\ call[c].kind = "issue" \/ call[c].certificate \in Certificates
    /\ call[c].answer # "none" => call[c].pc = "answered"
    /\ call[c].pc \in {"idle", "received"} => script[c] = NoScript
    /\ c \in shells => call[c].pc \in {"running", "disconnecting"} \/ call[c].answer = "error"
    /\ script[c].at \notin {"none", "done", "threw"} => c \in shells

Answered(c) ==
    /\ call[c].pc = "disconnecting" => script[c].at = "done"
    /\ call[c].answer \in {"certificate", "revoked", "found", "notFound"} => script[c].at = "done"
    /\ call[c].answer = "certificate" => call[c].kind = "issue" /\ script[c].output # {}
    /\ call[c].answer = "revoked" => call[c].kind = "revoke"
    /\ call[c].answer = "notFound" => call[c].kind = "identify" /\ script[c].output = {}
    /\ call[c].answer = "found" => call[c].kind = "identify" /\
           \E id \in script[c].output : requests[id].template = call[c].profile.template

(* The script: it is of the call's kind and prints at its end. *)
Ran(c) ==
    /\ script[c] \in Script
    /\ script[c].at \in Issuing => call[c].kind = "issue"
    /\ script[c].at \in {"revoke", "identify"} => call[c].kind = script[c].at
    /\ script[c].at = "fetch" => script[c].disposition \in {{"issued"}, {"incomplete"}}
    /\ script[c].at # "done" => script[c].output = {}
    /\ call[c].kind = "revoke" => script[c].output = {}

(* Its request, the only one, is under the RA profile; what it knows of the  *)
(* request is still so, as a certificate can only be revoked.                *)
Requested(c) ==
    /\ \A i, j \in script[c].requestId : i = j
    /\ \A id \in script[c].requestId :
           /\ requests[id].ca = call[c].profile.ca
           /\ requests[id].template = call[c].profile.template
           /\ script[c].disposition = {"issued"} => requests[id].state \in Certified
    /\ call[c].kind = "issue" /\ script[c].output # {} =>
           script[c].output = script[c].requestId /\ script[c].requestId \subseteq Certificates

Effect(c) ==
    /\ call[c].kind = "revoke" /\ script[c].at = "done"
       /\ requests[call[c].certificate].ca = call[c].profile.ca
       => requests[call[c].certificate].state = "revoked"
    /\ call[c].kind = "identify" /\ script[c].at = "done" =>
       script[c].output = {id \in {call[c].certificate} : requests[id].ca = call[c].profile.ca}

(* What the wake-up of the script saw, from its poll to its end. *)
IsRevoked(c) == \E id \in script[c].requestId : requests[id].state = "revoked"

Woken(c) ==
    atWake[c] = "issued" =>
        /\ script[c].at = "retrieve" =>
               \E id \in script[c].requestId : requests[id].state \in Certified
        /\ script[c].at = "until" => script[c].disposition = {"issued"} \/ IsRevoked(c)
        /\ call[c].kind = "issue" /\ script[c].at = "threw" => IsRevoked(c)

ScriptSound(c) == Ran(c) /\ Requested(c) /\ Effect(c) /\ Woken(c)

Sound(c) == Asked(c) /\ Answered(c) /\ ScriptSound(c)

(* No request is that of two calls. *)
Disjoint ==
    \A c, d \in Calls : c # d => script[c].requestId \intersect script[d].requestId = {}

IInv == Types /\ Disjoint /\ \A c \in Calls : Sound(c)

-------------------------------------------------------------------------------
(* What a step may do to the CAs' requests: they stay, with their CA and     *)
(* template; a certificate stays one, and a revoked one stays revoked.       *)
Grows ==
    /\ requests' \in Seq(Request)
    /\ Len(requests) <= Len(requests')
    /\ \A id \in DOMAIN requests :
           /\ requests'[id].ca = requests[id].ca
           /\ requests'[id].template = requests[id].template
           /\ requests[id].state \in Certified => requests'[id].state \in Certified
           /\ requests[id].state = "revoked" => requests'[id].state = "revoked"

SameInput(c) ==
    /\ call'[c].kind = call[c].kind
    /\ call'[c].profile = call[c].profile
    /\ call'[c].certificate = call[c].certificate

SameScript(c) == script'[c] = script[c] /\ atWake'[c] = atWake[c]

SameShell(c) == c \in shells' <=> c \in shells

LEMMA Unchanged ==
    ASSUME requests \in Seq(Request), UNCHANGED requests
    PROVE  Grows
BY DEF Grows

(* The rows a script or a call refers to are there. *)
LEMMA Domain ==
    ASSUME requests \in Seq(Request), Grows
    PROVE  /\ DOMAIN requests = 1..Len(requests) /\ DOMAIN requests' = 1..Len(requests')
           /\ Len(requests) \in Nat /\ Len(requests') \in Nat
           /\ DOMAIN requests \subseteq DOMAIN requests'
           /\ Certificates \subseteq Certificates'
<1>1. /\ DOMAIN requests = 1..Len(requests) /\ DOMAIN requests' = 1..Len(requests')
      /\ Len(requests) \in Nat /\ Len(requests') \in Nat
  BY DEF Grows
<1>2. DOMAIN requests \subseteq DOMAIN requests'
  BY <1>1 DEF Grows
<1>3. Certificates \subseteq Certificates'
  BY <1>2 DEF Grows, Certificates
<1> QED
  BY <1>1, <1>2, <1>3

(* A request gets another state. *)
LEMMA StateStep ==
    ASSUME requests \in Seq(Request), NEW id \in DOMAIN requests, NEW state \in States,
           requests' = [requests EXCEPT ![id].state = state],
           requests[id].state \in Certified => state = "revoked"
    PROVE  Grows /\ requests'[id].ca = requests[id].ca /\ requests'[id].state = state
<1>1. /\ requests'[id] = [requests[id] EXCEPT !.state = state]
      /\ \A i \in DOMAIN requests : i # id => requests'[i] = requests[i]
  OBVIOUS
<1>2. requests[id] \in Request
  OBVIOUS
<1>3. /\ requests'[id] \in Request /\ requests'[id].state = state
      /\ requests'[id].ca = requests[id].ca /\ requests'[id].template = requests[id].template
  BY <1>1, <1>2 DEF Request
<1>4. requests' \in Seq(Request) /\ Len(requests') = Len(requests)
  <2>1. Len(requests) \in Nat /\ DOMAIN requests = 1..Len(requests)
    OBVIOUS
  <2>2. \A i \in DOMAIN requests : requests[i] \in Request
    OBVIOUS
  <2>3. DOMAIN requests' = DOMAIN requests /\ requests' = [i \in DOMAIN requests |-> requests'[i]]
    OBVIOUS
  <2>4. \A i \in DOMAIN requests : requests'[i] \in Request
    BY <1>1, <1>3, <2>2
  <2>5. requests' \in [1..Len(requests) -> Request]
    BY <2>1, <2>3, <2>4
  <2>6. requests' \in Seq(Request)
    BY <2>1, <2>5, SeqDef
  <2> QED
    BY <2>1, <2>3, <2>6, LenProperties
<1>5. \A i \in DOMAIN requests :
         /\ requests'[i].ca = requests[i].ca
         /\ requests'[i].template = requests[i].template
         /\ requests[i].state \in Certified => requests'[i].state \in Certified
         /\ requests[i].state = "revoked" => requests'[i].state = "revoked"
  BY <1>1, <1>3 DEF Certified
<1>6. Len(requests) <= Len(requests')
  BY <1>4
<1> QED
  BY <1>3, <1>4, <1>5, <1>6 DEF Grows

(* A script that takes no step keeps what is said of it. *)
LEMMA ScriptFrame ==
    ASSUME Types, Grows, NEW c \in Calls, Asked(c), ScriptSound(c), SameInput(c), SameScript(c)
    PROVE  ScriptSound(c)'
<1>1. requests \in Seq(Request)
  BY DEF Types
<1>2. script[c].requestId \subseteq DOMAIN requests /\ script[c].output \subseteq DOMAIN requests
  BY <1>1, Domain DEF ScriptSound, Ran, Script
<1>3. Ran(c)'
  <2>1. script[c] \in Script'
    BY <1>1, Domain DEF ScriptSound, Ran, Script
  <2> QED
    BY <2>1 DEF ScriptSound, Ran, SameInput, SameScript
<1>4. Requested(c)'
  <2>1. ASSUME NEW id \in script[c].requestId
        PROVE  /\ requests'[id].ca = call[c].profile.ca
               /\ requests'[id].template = call[c].profile.template
               /\ script[c].disposition = {"issued"} => requests'[id].state \in Certified
    BY <1>2 DEF ScriptSound, Requested, Grows
  <2>2. Certificates \subseteq Certificates'
    BY <1>1, Domain
  <2> QED
    BY <2>1, <2>2 DEF ScriptSound, Requested, SameInput, SameScript
<1>5. Effect(c)'
  <2>1. CASE call[c].kind = "issue"
    BY <2>1 DEF Effect, SameInput
  <2>2. CASE call[c].kind # "issue"
    <3>1. call[c].certificate \in DOMAIN requests
      BY <2>2 DEF Asked, Certificates
    <3> QED
      BY <3>1 DEF ScriptSound, Effect, Grows, SameInput, SameScript
  <2> QED
    BY <2>1, <2>2
<1>6. Woken(c)'
  <2>1. IsRevoked(c) => IsRevoked(c)'
    BY <1>2 DEF IsRevoked, Grows, SameScript
  <2>2. ASSUME NEW id \in script[c].requestId, requests[id].state \in Certified
        PROVE  requests'[id].state \in Certified
    BY <1>2, <2>2 DEF Grows
  <2> QED
    BY <2>1, <2>2 DEF ScriptSound, Woken, SameInput, SameScript
<1> QED
  BY <1>3, <1>4, <1>5, <1>6 DEF ScriptSound

(* A step of one call, or of none, leaves the others as they are. *)
LEMMA Frame ==
    ASSUME Types, Grows, NEW c \in Calls, Sound(c), call'[c] = call[c], SameScript(c), SameShell(c)
    PROVE  Sound(c)'
<1>1. requests \in Seq(Request)
  BY DEF Types
<1>2. ScriptSound(c)'
  BY ScriptFrame DEF Sound, SameInput
<1>3. Asked(c)'
  BY <1>1, Domain DEF Sound, Asked, SameScript, SameShell
<1>4. Answered(c)'
  <2>1. \A id \in script[c].output : requests'[id].template = requests[id].template
    BY <1>1, Domain DEF Sound, ScriptSound, Ran, Script, Grows
  <2> QED
    BY <2>1 DEF Sound, Answered, SameScript
<1> QED
  BY <1>2, <1>3, <1>4 DEF Sound

LEMMA ScriptFunction ==
    ASSUME IInv
    PROVE  script \in [Calls -> Script]
<1>1. \A c \in Calls : script[c] \in Script
  BY DEF IInv, Sound, ScriptSound, Ran
<1> QED
  BY <1>1 DEF IInv, Types

(* The invariant after a step of one call, whose request may be a new one. *)
LEMMA OneCall ==
    ASSUME IInv, Grows, Types', NEW c \in Calls, Sound(c)',
           \A d \in Calls \ {c} : call'[d] = call[d] /\ SameScript(d) /\ SameShell(d),
           script'[c].requestId \intersect DOMAIN requests \subseteq script[c].requestId
    PROVE  IInv'
<1>1. \A d \in Calls \ {c} : Sound(d)'
  BY Frame DEF IInv
<1>2. \A d \in Calls : script[d].requestId \subseteq DOMAIN requests
  BY Domain DEF IInv, Types, Sound, ScriptSound, Ran, Script
<1>3. Disjoint'
  BY <1>2 DEF IInv, Disjoint, SameScript
<1> QED
  BY <1>1, <1>3 DEF IInv

-------------------------------------------------------------------------------
LEMMA InitIInv == Init => IInv
<1> SUFFICES ASSUME Init PROVE IInv
  OBVIOUS
<1>1. PICK r \in [ca : CAs, template : Templates, state : {"issued"}] : requests = <<r>>
  BY DEF Init
<1>2. r \in Request
  BY DEF Request, States
<1>3. requests \in Seq(Request)
  BY <1>1, <1>2
<1>4. (CHOOSE p \in Profiles : TRUE) \in Profiles
  BY ManagementAssumption
<1>5. Types
  BY <1>3, <1>4 DEF Init, Types, Call
<1>6. ASSUME NEW c \in Calls PROVE Sound(c)
  <2>1. /\ call[c].pc = "idle" /\ call[c].kind = "issue" /\ call[c].answer = "none"
        /\ script[c] = NoScript /\ atWake[c] = "unknown" /\ c \notin shells
    BY DEF Init
  <2>2. NoScript \in Script
    BY <1>3, ManagementAssumption DEF NoScript, Script
  <2>3. Ran(c) /\ Requested(c) /\ Effect(c) /\ Woken(c)
    BY <2>1, <2>2 DEF Ran, Requested, Effect, Woken, NoScript, Issuing
  <2> QED
    BY <2>1, <2>3 DEF Sound, Asked, Answered, ScriptSound, NoScript
<1>7. Disjoint
  BY DEF Init, Disjoint, NoScript
<1> QED
  BY <1>5, <1>6, <1>7 DEF IInv

-------------------------------------------------------------------------------
(* The threads.  A step that leaves the scripts alone has only to keep what  *)
(* is said of the call itself.                                               *)
LEMMA ThreadStep ==
    ASSUME IInv, NEW c \in Calls, UNCHANGED <<requests, script, atWake>>, Types',
           \A d \in Calls \ {c} : call'[d] = call[d] /\ SameShell(d),
           SameInput(c), Asked(c)', Answered(c)'
    PROVE  IInv'
<1>1. Grows
  BY Unchanged DEF IInv, Types
<1>2. ScriptSound(c)'
  BY <1>1, ScriptFrame DEF IInv, Sound, SameScript
<1>3. Sound(c)'
  BY <1>2 DEF Sound
<1> QED
  BY <1>1, <1>3, OneCall DEF SameScript

LEMMA AnswerStep ==
    ASSUME IInv, NEW c \in Calls, UNCHANGED <<requests, script, atWake>>,
           call[c].pc # "idle",
           NEW answer, call' = Answer(c, answer),
           answer \in {"certificate", "empty", "revoked", "found", "notFound", "mismatch",
                       "rejected", "error"},
           shells' \subseteq Calls, \A d \in Calls \ {c} : SameShell(d),
           c \in shells' => answer = "error",
           SameShell(c) \/ script[c].at \in {"none", "done", "threw"},
           Answered(c)'
    PROVE  IInv'
<1>1. /\ call' \in [Calls -> Call] /\ SameInput(c)
      /\ call'[c].pc = "answered" /\ call'[c].answer = answer
      /\ \A d \in Calls \ {c} : call'[d] = call[d]
  BY DEF Answer, IInv, Types, Call, SameInput
<1>2. Types'
  BY <1>1 DEF IInv, Types
<1>3. Asked(c)'
  BY <1>1 DEF IInv, Sound, Asked, SameInput, SameShell, Certificates
<1> QED
  BY <1>1, <1>2, <1>3, ThreadStep

LEMMA ReceiveKeeps ==
    ASSUME IInv, NEW c \in Calls, Receive(c)
    PROVE  IInv'
<1>1. PICK kind \in {"issue", "revoke", "identify"}, profile \in Profiles :
        \E id \in IF kind = "issue" THEN {0} ELSE Certificates :
            call' = [call EXCEPT ![c] = [pc |-> "received", kind |-> kind, profile |-> profile,
                                         certificate |-> id, answer |-> "none"]]
  BY DEF Receive
<1>2. PICK id \in IF kind = "issue" THEN {0} ELSE Certificates :
            call' = [call EXCEPT ![c] = [pc |-> "received", kind |-> kind, profile |-> profile,
                                         certificate |-> id, answer |-> "none"]]
  BY <1>1
<1>3. id \in Nat
  BY DEF Certificates, IInv, Types
<1>4. Types'
  BY <1>2, <1>3 DEF Receive, IInv, Types, Call
<1>5. /\ call'[c] = [pc |-> "received", kind |-> kind, profile |-> profile,
                     certificate |-> id, answer |-> "none"]
      /\ \A d \in Calls \ {c} : call'[d] = call[d]
  BY <1>2 DEF IInv, Types
<1>6. script[c] = NoScript /\ c \notin shells /\ script[c].at = "none"
  BY DEF Receive, IInv, Sound, Asked, NoScript
<1>7. Asked(c)' /\ Answered(c)'
  BY <1>5, <1>6 DEF Receive, Asked, Answered, Certificates
<1>8. ScriptSound(c)'
  <2>1. script'[c] = NoScript /\ NoScript \in Script'
    BY <1>6 DEF Receive, IInv, Sound, ScriptSound, Ran, Script
  <2>2. Ran(c)' /\ Requested(c)'
    BY <2>1 DEF Ran, Requested, NoScript, Issuing
  <2>3. Effect(c)' /\ Woken(c)'
    BY <2>1 DEF Effect, Woken, NoScript
  <2> QED
    BY <2>2, <2>3 DEF ScriptSound
<1>9. Grows
  BY Unchanged DEF Receive, IInv, Types
<1> QED
  BY <1>4, <1>5, <1>7, <1>8, <1>9, OneCall DEF Receive, Sound, SameScript, SameShell

LEMMA RejectKeeps ==
    ASSUME IInv, NEW c \in Calls, Reject(c)
    PROVE  IInv'
<1>1. call'[c] = [call[c] EXCEPT !.pc = "answered", !.answer = "rejected"]
  BY DEF Reject, Answer, IInv, Types, Call
<1>2. call'[c].pc = "answered" /\ call'[c].answer = "rejected" /\ call[c].answer = "none"
  BY <1>1 DEF Reject, IInv, Types, Call, Sound, Asked
<1>3. c \notin shells
  BY <1>2 DEF Reject, IInv, Sound, Asked
<1>4. Answered(c)'
  BY <1>2 DEF Answered
<1> QED
  BY <1>3, <1>4, AnswerStep DEF Reject, SameShell, IInv, Types

LEMMA ConnectKeeps ==
    ASSUME IInv, NEW c \in Calls, Connect(c)
    PROVE  IInv'
<1> DEFINE at == IF call[c].kind = "issue" THEN "submit" ELSE call[c].kind
<1>1. call[c].pc = "received" /\ call[c].answer = "none" /\ script[c] = NoScript
  BY DEF Connect, IInv, Sound, Asked
<1>2. call[c] \in Call /\ call'[c] = [call[c] EXCEPT !.pc = "running"]
      /\ call' \in [Calls -> Call] /\ \A d \in Calls \ {c} : call'[d] = call[d]
  BY DEF Connect, IInv, Types, Call
<1>3. call'[c].pc = "running" /\ call'[c].answer = "none" /\ SameInput(c)
  BY <1>1, <1>2 DEF Call, SameInput
<1>4. /\ script'[c] = [at |-> at, requestId |-> {}, disposition |-> {}, elapsed |-> 0, output |-> {}]
      /\ script' = [d \in Calls |-> script'[d]]
      /\ \A d \in Calls \ {c} : script'[d] = script[d]
  <2>1. /\ script'[c] = [script[c] EXCEPT !.at = at]
        /\ script' = [d \in Calls |-> script'[d]]
        /\ \A d \in Calls \ {c} : script'[d] = script[d]
    BY ScriptFunction DEF Connect
  <2> QED
    BY <1>1, <2>1 DEF NoScript
<1>5. Types'
  BY <1>2, <1>4 DEF Connect, IInv, Types
<1>6. Asked(c)' /\ Answered(c)'
  BY <1>3 DEF Connect, IInv, Sound, Asked, Answered, SameInput, Certificates
<1>7. ScriptSound(c)'
  <2>1. \/ call[c].kind = "issue" /\ at = "submit"
        \/ call[c].kind \in {"revoke", "identify"} /\ at = call[c].kind
    BY <1>2 DEF Call
  <2> HIDE DEF at
  <2>2. script'[c] \in Script'
    BY <1>4, <2>1, ManagementAssumption DEF Script
  <2>3. Ran(c)' /\ Requested(c)'
    BY <1>3, <1>4, <2>1, <2>2 DEF Ran, Requested, Issuing, SameInput
  <2>4. Effect(c)' /\ Woken(c)'
    BY <1>4, <2>1 DEF Effect, Woken
  <2> QED
    BY <2>3, <2>4 DEF ScriptSound
<1>8. Grows
  BY Unchanged DEF Connect, IInv, Types
<1>9. \A d \in Calls \ {c} : call'[d] = call[d] /\ SameScript(d) /\ SameShell(d)
  BY <1>2, <1>4 DEF Connect, SameScript, SameShell
<1>10. script'[c].requestId = {}
  BY <1>4
<1> QED
  BY <1>5, <1>6, <1>7, <1>8, <1>9, <1>10, OneCall DEF Sound

LEMMA CollectKeeps ==
    ASSUME IInv, NEW c \in Calls, Collect(c)
    PROVE  IInv'
<1>1. CASE Succeeded(c)
  <2>1. /\ call' = [call EXCEPT ![c].pc = "disconnecting"]
        /\ script[c].at = "done"
    BY <1>1 DEF Collect, Succeeded
  <2>2. /\ call' \in [Calls -> Call] /\ SameInput(c)
        /\ call'[c].pc = "disconnecting" /\ call'[c].answer = call[c].answer
        /\ \A d \in Calls \ {c} : call'[d] = call[d]
    BY <2>1 DEF IInv, Types, Call, SameInput
  <2>3. call[c].answer = "none"
    BY DEF Collect, IInv, Sound, Asked
  <2>4. Types'
    BY <2>2 DEF Collect, IInv, Types
  <2>5. Asked(c)' /\ Answered(c)'
    BY <2>1, <2>2, <2>3 DEF Collect, IInv, Sound, Asked, Answered, SameInput, Certificates
  <2> QED
    BY <2>2, <2>4, <2>5, ThreadStep DEF Collect, SameShell
<1>2. CASE ~Succeeded(c)
  <2>1. call' = Answer(c, "error")
    BY <1>2 DEF Collect
  <2>2. call'[c].pc = "answered" /\ call'[c].answer = "error"
    BY <2>1 DEF Answer, IInv, Types, Call
  <2>3. Answered(c)'
    BY <2>2 DEF Answered
  <2> QED
    BY <2>1, <2>3, AnswerStep DEF Collect, SameShell, IInv, Types
<1> QED
  BY <1>1, <1>2

LEMMA DisconnectKeeps ==
    ASSUME IInv, NEW c \in Calls, Disconnect(c)
    PROVE  IInv'
<1>1. script[c].at = "done" /\ call[c] \in Call
  BY DEF Disconnect, IInv, Types, Sound, Answered
<1>2. /\ call'[c].pc = "answered" /\ call'[c].answer = AnswerOf(c)
      /\ call'[c].kind = call[c].kind /\ call'[c].profile = call[c].profile
  BY DEF Disconnect, Answer, IInv, Types, Call
<1>3. \/ call[c].kind = "issue" /\ AnswerOf(c) = IssueAnswer(c)
      \/ call[c].kind = "revoke" /\ AnswerOf(c) = "revoked"
      \/ call[c].kind = "identify" /\ AnswerOf(c) = IdentifyAnswer(c)
  BY <1>1 DEF AnswerOf, Call
<1>4. AnswerOf(c) \in {"certificate", "empty", "revoked", "found", "notFound", "mismatch"}
  BY <1>3 DEF IssueAnswer, IdentifyAnswer
<1>5. Answered(c)'
  BY <1>1, <1>2, <1>3 DEF Disconnect, Answered, IssueAnswer, IdentifyAnswer
<1>6. shells' \subseteq Calls /\ c \notin shells' /\ \A d \in Calls \ {c} : SameShell(d)
  BY DEF Disconnect, Closed, SameShell, IInv, Types
<1> QED
  BY <1>1, <1>4, <1>5, <1>6, AnswerStep DEF Disconnect

LEMMA TransportFailsKeeps ==
    ASSUME IInv, NEW c \in Calls, TransportFails(c)
    PROVE  IInv'
<1>1. call'[c].pc = "answered" /\ call'[c].answer = "error"
  BY DEF TransportFails, Answer, IInv, Types, Call
<1>2. Answered(c)'
  BY <1>1 DEF Answered
<1>3. shells' \subseteq Calls /\ \A d \in Calls \ {c} : SameShell(d)
  BY DEF TransportFails, SameShell, IInv, Types
<1>4. SameShell(c) \/ script[c].at \in {"none", "done", "threw"}
  BY DEF TransportFails, SameShell, IInv, Sound, Asked, Answered, NoScript
<1> QED
  BY <1>2, <1>3, <1>4, AnswerStep DEF TransportFails

-------------------------------------------------------------------------------
(* The scripts.  A script that takes a step is not at its end, so its thread *)
(* has no answer from it yet.                                                *)
LEMMA ScriptStep ==
    ASSUME IInv, NEW c \in Calls, script[c].at \notin {"none", "done", "threw"},
           UNCHANGED <<call, shells>>, Grows,
           script' = [d \in Calls |-> script'[d]],
           atWake' \in [Calls -> States \union {"unknown"}],
           \A d \in Calls \ {c} : SameScript(d),
           script'[c].requestId \intersect DOMAIN requests \subseteq script[c].requestId,
           Ran(c)', Requested(c)', Effect(c)', Woken(c)'
    PROVE  IInv'
<1>1. Types'
  BY DEF IInv, Types, Grows
<1>2. call[c].pc \notin {"idle", "received", "disconnecting"}
      /\ call[c].answer \notin {"certificate", "revoked", "found", "notFound"}
  BY DEF IInv, Sound, Asked, Answered, NoScript
<1>3. Certificates \subseteq Certificates'
  BY Domain DEF IInv, Types
<1>4. Asked(c)' /\ Answered(c)'
  BY <1>2, <1>3 DEF IInv, Sound, Asked, Answered
<1>5. \A d \in Calls \ {c} : call'[d] = call[d] /\ SameScript(d) /\ SameShell(d)
  BY DEF SameShell
<1> QED
  BY <1>1, <1>4, <1>5, OneCall DEF Sound, ScriptSound

(* Most steps leave the CAs, the request and what was seen at wake-up alone. *)
LEMMA QuietStep ==
    ASSUME IInv, NEW c \in Calls, script[c].at \notin {"none", "done", "threw"},
           UNCHANGED <<requests, call, shells, atWake>>,
           script' = [d \in Calls |-> script'[d]],
           \A d \in Calls \ {c} : script'[d] = script[d],
           script'[c].requestId = script[c].requestId,
           Ran(c)', Requested(c)', Effect(c)', Woken(c)'
    PROVE  IInv'
<1>1. Grows
  BY Unchanged DEF IInv, Types
<1> QED
  BY <1>1, ScriptStep DEF SameScript, IInv, Types

LEMMA SubmitKeeps ==
    ASSUME IInv, NEW c \in Calls, Submit(c)
    PROVE  IInv'
<1> DEFINE row(state) == [ca |-> call[c].profile.ca, template |-> call[c].profile.template,
                          state |-> state]
           new == Len(requests) + 1
<1>1. PICK state \in {"incomplete", "pending", "denied", "issued"} :
        /\ requests' = Append(requests, row(state))
        /\ script' = [script EXCEPT ![c].requestId = {new}, ![c].disposition = {state},
                                    ![c].at = AfterSubmit(state)]
  BY DEF Submit
<1>2. requests \in Seq(Request) /\ Len(requests) \in Nat /\ DOMAIN requests = 1..Len(requests)
  BY DEF IInv, Types
<1>3. row(state) \in Request
  BY ManagementAssumption DEF IInv, Types, Call, Request, States
<1>4. /\ requests' \in Seq(Request) /\ Len(requests') = new
      /\ \A id \in DOMAIN requests : requests'[id] = requests[id]
      /\ requests'[new] = row(state)
  BY <1>1, <1>2, <1>3
<1> HIDE DEF row
<1>5. row(state).ca = call[c].profile.ca /\ row(state).template = call[c].profile.template
      /\ row(state).state = state
  BY DEF row
<1>6. Grows
  BY <1>2, <1>4 DEF Grows
<1>7. /\ script \in [Calls -> Script] /\ script[c] \in Script
      /\ script[c].at = "submit" /\ script[c].output = {} /\ call[c].kind = "issue"
  BY ScriptFunction DEF Submit, IInv, Sound, ScriptSound, Ran, Issuing
<1>8. /\ script' = [d \in Calls |-> script'[d]]
      /\ \A d \in Calls \ {c} : script'[d] = script[d]
      /\ script'[c] = [script[c] EXCEPT !.requestId = {new}, !.disposition = {state},
                                        !.at = AfterSubmit(state)]
  BY <1>1, <1>7
<1>9. script'[c] = [at |-> AfterSubmit(state), requestId |-> {new}, disposition |-> {state},
                    elapsed |-> script[c].elapsed, output |-> {}]
  BY <1>7, <1>8 DEF Script
<1>10. AfterSubmit(state) \in {"fetch", "sleep"}
       /\ (AfterSubmit(state) = "fetch" => state \in {"issued", "incomplete"})
  BY DEF AfterSubmit
<1>11. /\ script'[c].at = AfterSubmit(state) /\ script'[c].requestId = {new}
       /\ script'[c].disposition = {state} /\ script'[c].output = {}
  BY <1>9
<1>12. UNCHANGED <<call, shells, atWake>>
  BY DEF Submit
<1>13. Ran(c)'
  <2>1. {new} \subseteq 1..Len(requests')
    BY <1>2, <1>4
  <2>2. script'[c] \in Script'
    BY <1>7, <1>9, <1>10, <2>1 DEF Script, States
  <2> QED
    BY <1>7, <1>10, <1>11, <1>12, <2>2 DEF Ran
<1>14. Requested(c)'
  BY <1>4, <1>5, <1>11, <1>12 DEF Requested, Certified
<1>15. Effect(c)' /\ Woken(c)'
  BY <1>7, <1>10, <1>11, <1>12 DEF Effect, Woken
<1>16. script'[c].requestId \intersect DOMAIN requests = {}
  BY <1>2, <1>11
<1> QED
  BY <1>6, <1>7, <1>8, <1>13, <1>14, <1>15, <1>16, <1>12, ScriptStep DEF SameScript, IInv, Types

LEMMA SubmitFailsKeeps ==
    ASSUME IInv, NEW c \in Calls, SubmitFails(c)
    PROVE  IInv'
<1>1. /\ script \in [Calls -> Script] /\ script[c] \in Script
      /\ script[c].at = "submit" /\ Ran(c) /\ Requested(c)
  BY ScriptFunction DEF SubmitFails, IInv, Sound, ScriptSound
<1>2. /\ script' = [d \in Calls |-> script'[d]]
      /\ \A d \in Calls \ {c} : script'[d] = script[d]
      /\ script'[c] = [script[c] EXCEPT !.at = "sleep"]
  BY <1>1 DEF SubmitFails
<1>3. /\ script'[c] \in Script /\ script'[c].at = "sleep"
      /\ script'[c].requestId = script[c].requestId
      /\ script'[c].disposition = script[c].disposition /\ script'[c].output = script[c].output
  BY <1>1, <1>2 DEF Script
<1>4. Ran(c)'
  BY <1>1, <1>3 DEF SubmitFails, Ran, Issuing, Script
<1>5. Requested(c)'
  BY <1>1, <1>3 DEF SubmitFails, Requested, Certificates
<1>6. Effect(c)' /\ Woken(c)'
  BY <1>3 DEF Effect, Woken
<1> QED
  BY <1>1, <1>2, <1>3, <1>4, <1>5, <1>6, QuietStep DEF SubmitFails

LEMMA SleepKeeps ==
    ASSUME IInv, NEW c \in Calls, Sleep(c)
    PROVE  IInv'
<1> DEFINE elapsed == IF script[c].elapsed >= Timeout THEN script[c].elapsed
                      ELSE script[c].elapsed + PollInterval
           seen == IF script[c].requestId = {} THEN "unknown"
                   ELSE requests[CHOOSE id \in script[c].requestId : TRUE].state
<1>1. /\ script \in [Calls -> Script] /\ script[c] \in Script
      /\ script[c].at = "sleep" /\ Ran(c) /\ Requested(c)
  BY ScriptFunction DEF Sleep, IInv, Sound, ScriptSound
<1>2. /\ script' = [d \in Calls |-> script'[d]]
      /\ \A d \in Calls \ {c} : script'[d] = script[d]
      /\ script'[c] = [script[c] EXCEPT !.elapsed = elapsed, !.at = "retrieve"]
  BY <1>1 DEF Sleep
<1>3. /\ atWake' = [atWake EXCEPT ![c] = seen]
      /\ UNCHANGED <<requests, call, shells>>
  BY DEF Sleep
<1>4. elapsed \in 0..(Timeout + PollInterval)
  BY <1>1, ManagementAssumption DEF Script
<1>5. ASSUME script[c].requestId # {}
      PROVE  \E id \in script[c].requestId : id \in DOMAIN requests /\ seen = requests[id].state
  <2>1. (CHOOSE id \in script[c].requestId : TRUE) \in script[c].requestId
    BY <1>5
  <2>2. script[c].requestId \subseteq DOMAIN requests
    BY <1>1 DEF Script, IInv, Types
  <2> QED
    BY <1>5, <2>1, <2>2
<1>6. seen \in States \union {"unknown"}
      /\ (seen = "issued" => \E id \in script[c].requestId : requests[id].state = "issued")
  <2>1. CASE script[c].requestId = {}
    BY <2>1
  <2>2. CASE script[c].requestId # {}
    <3>1. PICK id \in DOMAIN requests : id \in script[c].requestId /\ seen = requests[id].state
      BY <1>5, <2>2
    <3>2. requests[id] \in Request
      BY <3>1 DEF IInv, Types
    <3> QED
      BY <3>1, <3>2 DEF Request
  <2> QED
    BY <2>1, <2>2
<1> HIDE DEF elapsed, seen
<1>7. /\ script'[c] \in Script /\ script'[c].at = "retrieve"
      /\ script'[c].requestId = script[c].requestId
      /\ script'[c].disposition = script[c].disposition /\ script'[c].output = script[c].output
  BY <1>1, <1>2, <1>4 DEF Script
<1>8. Ran(c)'
  BY <1>1, <1>3, <1>7 DEF Ran, Issuing, Script
<1>9. Requested(c)'
  BY <1>1, <1>3, <1>7 DEF Requested, Certificates
<1>10. atWake'[c] = seen /\ atWake' \in [Calls -> States \union {"unknown"}]
       /\ \A d \in Calls \ {c} : atWake'[d] = atWake[d]
  BY <1>3, <1>6 DEF IInv, Types
<1>11. Effect(c)' /\ Woken(c)'
  BY <1>3, <1>6, <1>7, <1>10 DEF Effect, Woken, Certified
<1>12. Grows
  BY <1>3, Unchanged DEF IInv, Types
<1> QED
  BY <1>1, <1>2, <1>3, <1>7, <1>8, <1>9, <1>10, <1>11, <1>12, ScriptStep DEF SameScript

LEMMA RetrieveKeeps ==
    ASSUME IInv, NEW c \in Calls, Retrieve(c)
    PROVE  IInv'
<1>1. /\ script \in [Calls -> Script] /\ script[c] \in Script
      /\ script[c].at = "retrieve" /\ Ran(c) /\ Requested(c) /\ Woken(c)
  BY ScriptFunction DEF Retrieve, IInv, Sound, ScriptSound
<1>2. PICK id \in script[c].requestId :
        script' = [script EXCEPT ![c].disposition = {requests[id].state}, ![c].at = "until"]
  BY DEF Retrieve
<1>3. /\ script' = [d \in Calls |-> script'[d]]
      /\ \A d \in Calls \ {c} : script'[d] = script[d]
      /\ script'[c] = [script[c] EXCEPT !.disposition = {requests[id].state}, !.at = "until"]
  BY <1>1, <1>2
<1>4. UNCHANGED <<requests, call, shells, atWake>>
  BY DEF Retrieve
<1>5. id \in DOMAIN requests /\ requests[id].state \in States
  <2>1. id \in DOMAIN requests /\ requests[id] \in Request
    BY <1>1 DEF Script, IInv, Types
  <2> QED
    BY <2>1 DEF Request
<1>6. /\ script'[c] \in Script /\ script'[c].at = "until"
      /\ script'[c].requestId = script[c].requestId
      /\ script'[c].disposition = {requests[id].state} /\ script'[c].output = script[c].output
  <2> DEFINE disposition == {requests[id].state}
  <2>1. disposition \in SUBSET States
    BY <1>5
  <2> HIDE DEF disposition
  <2>2. script'[c] = [script[c] EXCEPT !.disposition = disposition, !.at = "until"]
    BY <1>3 DEF disposition
  <2>3. /\ script'[c] \in Script /\ script'[c].at = "until"
        /\ script'[c].requestId = script[c].requestId
        /\ script'[c].disposition = disposition /\ script'[c].output = script[c].output
    BY <1>1, <2>1, <2>2 DEF Script
  <2> QED
    BY <2>3 DEF disposition
<1>7. Ran(c)'
  BY <1>1, <1>4, <1>6 DEF Ran, Issuing, Script
<1>8. Requested(c)'
  <2>1. \A j \in script[c].requestId : j = id
    BY <1>1 DEF Requested
  <2>2. {requests[id].state} = {"issued"} => requests[id].state \in Certified
    BY DEF Certified
  <2> QED
    BY <1>1, <1>4, <1>6, <2>1, <2>2 DEF Requested, Ran, Certificates
<1>9. Effect(c)' /\ Woken(c)'
  <2>1. \A j \in script[c].requestId : j = id
    BY <1>1 DEF Requested
  <2>2. requests[id].state \in Certified =>
            {requests[id].state} = {"issued"} \/ requests[id].state = "revoked"
    BY DEF Certified
  <2> QED
    BY <1>1, <1>4, <1>6, <2>1, <2>2 DEF Effect, Woken, IsRevoked
<1> QED
  BY <1>1, <1>3, <1>4, <1>6, <1>7, <1>8, <1>9, QuietStep

LEMMA RetrieveFailsKeeps ==
    ASSUME IInv, NEW c \in Calls, RetrieveFails(c)
    PROVE  IInv'
<1>1. /\ script \in [Calls -> Script] /\ script[c] \in Script
      /\ script[c].at = "retrieve" /\ Ran(c) /\ Requested(c)
  BY ScriptFunction DEF RetrieveFails, IInv, Sound, ScriptSound
<1>2. /\ script' = [d \in Calls |-> script'[d]]
      /\ \A d \in Calls \ {c} : script'[d] = script[d]
      /\ script'[c] = [script[c] EXCEPT !.at = "until"]
  BY <1>1 DEF RetrieveFails
<1>3. /\ atWake' = [atWake EXCEPT ![c] = "unknown"]
      /\ UNCHANGED <<requests, call, shells>>
  BY DEF RetrieveFails
<1>4. atWake'[c] = "unknown" /\ atWake' \in [Calls -> States \union {"unknown"}]
      /\ \A d \in Calls \ {c} : atWake'[d] = atWake[d]
  BY <1>3 DEF IInv, Types
<1>5. /\ script'[c] \in Script /\ script'[c].at = "until"
      /\ script'[c].requestId = script[c].requestId
      /\ script'[c].disposition = script[c].disposition /\ script'[c].output = script[c].output
  BY <1>1, <1>2 DEF Script
<1>6. Ran(c)'
  BY <1>1, <1>3, <1>5 DEF Ran, Issuing, Script
<1>7. Requested(c)'
  BY <1>1, <1>3, <1>5 DEF Requested, Certificates
<1>8. Effect(c)' /\ Woken(c)'
  BY <1>4, <1>5 DEF Effect, Woken
<1>9. Grows
  BY <1>3, Unchanged DEF IInv, Types
<1> QED
  BY <1>1, <1>2, <1>3, <1>4, <1>5, <1>6, <1>7, <1>8, <1>9, ScriptStep DEF SameScript

LEMMA UntilKeeps ==
    ASSUME IInv, NEW c \in Calls, Until(c)
    PROVE  IInv'
<1> DEFINE at == AfterPoll(script[c].disposition, script[c].elapsed)
<1>1. /\ script \in [Calls -> Script] /\ script[c] \in Script
      /\ script[c].at = "until" /\ Ran(c) /\ Requested(c) /\ Woken(c)
  BY ScriptFunction DEF Until, IInv, Sound, ScriptSound
<1>2. /\ script' = [d \in Calls |-> script'[d]]
      /\ \A d \in Calls \ {c} : script'[d] = script[d]
      /\ script'[c] = [script[c] EXCEPT !.at = at]
  BY <1>1 DEF Until
<1>3. UNCHANGED <<requests, call, shells, atWake>>
  BY DEF Until
<1>4. at \in {"fetch", "sleep", "threw"} /\ (at = "fetch" <=> script[c].disposition = {"issued"})
  BY DEF AfterPoll
<1> HIDE DEF at
<1>5. /\ script'[c] \in Script /\ script'[c].at = at
      /\ script'[c].requestId = script[c].requestId
      /\ script'[c].disposition = script[c].disposition /\ script'[c].output = script[c].output
  BY <1>1, <1>2, <1>4 DEF Script
<1>6. Ran(c)'
  BY <1>1, <1>3, <1>4, <1>5 DEF Ran, Issuing, Script
<1>7. Requested(c)'
  BY <1>1, <1>3, <1>5 DEF Requested, Certificates
<1>8. Effect(c)' /\ Woken(c)'
  BY <1>1, <1>3, <1>4, <1>5 DEF Effect, Woken, IsRevoked
<1> QED
  BY <1>1, <1>2, <1>3, <1>5, <1>6, <1>7, <1>8, QuietStep

LEMMA FetchKeeps ==
    ASSUME IInv, NEW c \in Calls, Fetch(c) \/ FetchFails(c)
    PROVE  IInv'
<1>1. /\ script \in [Calls -> Script] /\ script[c] \in Script
      /\ script[c].at = "fetch" /\ Ran(c) /\ Requested(c)
  BY ScriptFunction DEF Fetch, FetchFails, IInv, Sound, ScriptSound
<1>2. /\ script' = [d \in Calls |-> script'[d]]
      /\ \A d \in Calls \ {c} : script'[d] = script[d]
  BY <1>1 DEF Fetch, FetchFails
<1>3. UNCHANGED <<requests, call, shells, atWake>>
  BY DEF Fetch, FetchFails
<1>4. script[c].requestId \subseteq DOMAIN requests
  BY <1>1 DEF Script, IInv, Types
<1>5. /\ script'[c] \in Script /\ script'[c].at = "done"
      /\ script'[c].requestId = script[c].requestId
      /\ script'[c].disposition = script[c].disposition
      /\ \/ script'[c].output = {}
         \/ script'[c].output = script[c].requestId /\ script[c].disposition = {"issued"}
  <2>1. CASE Fetch(c)
    <3>1. /\ script'[c] = [script[c] EXCEPT !.output = script[c].requestId, !.at = "done"]
          /\ script[c].disposition = {"issued"}
      BY <1>1, <2>1 DEF Fetch
    <3> QED
      BY <1>1, <3>1 DEF Script
  <2>2. CASE FetchFails(c)
    <3>1. script'[c] = [script[c] EXCEPT !.at = "done"] /\ script[c].output = {}
      BY <1>1, <2>2 DEF FetchFails, Ran
    <3> QED
      BY <1>1, <3>1 DEF Script
  <2> QED
    BY <2>1, <2>2
<1>6. script'[c].output # {} => script[c].requestId \subseteq Certificates
  BY <1>1, <1>4, <1>5 DEF Requested, Certificates
<1>7. call[c].kind = "issue"
  BY <1>1 DEF Ran, Issuing
<1>8. Ran(c)'
  BY <1>3, <1>5, <1>7 DEF Ran, Issuing, Script
<1>9. Requested(c)'
  BY <1>1, <1>3, <1>5, <1>6 DEF Requested, Certificates
<1>10. Effect(c)' /\ Woken(c)'
  BY <1>3, <1>5, <1>7 DEF Effect, Woken
<1> QED
  BY <1>1, <1>2, <1>3, <1>5, <1>8, <1>9, <1>10, QuietStep

LEMMA RevokeKeeps ==
    ASSUME IInv, NEW c \in Calls, Revoke(c)
    PROVE  IInv'
<1> DEFINE id == call[c].certificate
           found == requests[id].ca = call[c].profile.ca /\ requests[id].state = "issued"
<1>1. /\ script \in [Calls -> Script] /\ script[c] \in Script
      /\ script[c].at = "revoke" /\ Ran(c) /\ Requested(c) /\ call[c].kind = "revoke"
  BY ScriptFunction DEF Revoke, IInv, Sound, ScriptSound, Ran
<1>2. /\ script' = [d \in Calls |-> script'[d]]
      /\ \A d \in Calls \ {c} : script'[d] = script[d]
      /\ script'[c] = [script[c] EXCEPT !.at = "done"]
  BY <1>1 DEF Revoke
<1>3. /\ UNCHANGED <<call, shells, atWake>>
      /\ requests' = IF found THEN [requests EXCEPT ![id].state = "revoked"] ELSE requests
  BY DEF Revoke
<1>4. /\ id \in DOMAIN requests /\ requests[id].state \in Certified
      /\ requests \in Seq(Request)
  BY <1>1 DEF IInv, Types, Sound, Asked, Certificates
<1>5. /\ Grows
      /\ requests'[id].ca = requests[id].ca
      /\ requests'[id].ca = call[c].profile.ca => requests'[id].state = "revoked"
  <2>1. CASE found
    <3> HIDE DEF id
    <3> QED
      BY <1>3, <1>4, <2>1, StateStep DEF States
  <2>2. CASE ~found
    BY <1>3, <1>4, <2>2, Unchanged DEF Certified
  <2> QED
    BY <2>1, <2>2
<1> HIDE DEF id, found
<1>6. /\ script'[c].at = "done" /\ script'[c].requestId = script[c].requestId
      /\ script'[c].disposition = script[c].disposition /\ script'[c].output = script[c].output
      /\ script'[c] \in Script
  BY <1>1, <1>2 DEF Script
<1>7. Ran(c)'
  <2>1. Len(requests) \in Nat /\ Len(requests') \in Nat /\ Len(requests) <= Len(requests')
    BY <1>4, <1>5, Domain DEF Grows
  <2>2. script'[c] \in Script'
    BY <1>6, <2>1 DEF Script
  <2> QED
    BY <1>1, <1>3, <1>6, <2>2 DEF Ran, Issuing
<1>8. Requested(c)'
  <2>1. script[c].requestId \subseteq DOMAIN requests
    BY <1>1, <1>4 DEF Script
  <2> QED
    BY <1>1, <1>3, <1>5, <1>6, <2>1 DEF Requested, Grows
<1>9. Effect(c)'
  BY <1>1, <1>3, <1>5, <1>6 DEF Effect, id
<1>10. Woken(c)'
  BY <1>6 DEF Woken
<1> QED
  BY <1>1, <1>2, <1>3, <1>5, <1>6, <1>7, <1>8, <1>9, <1>10, ScriptStep DEF SameScript, IInv, Types

LEMMA IdentifyKeeps ==
    ASSUME IInv, NEW c \in Calls, Identify(c)
    PROVE  IInv'
<1>1. /\ script \in [Calls -> Script] /\ script[c] \in Script
      /\ script[c].at = "identify" /\ Ran(c) /\ Requested(c) /\ call[c].kind = "identify"
  BY ScriptFunction DEF Identify, IInv, Sound, ScriptSound, Ran
<1>2. /\ script' = [d \in Calls |-> script'[d]]
      /\ \A d \in Calls \ {c} : script'[d] = script[d]
      /\ script'[c] = [script[c] EXCEPT !.output = Listed(c), !.at = "done"]
  BY <1>1 DEF Identify
<1>3. UNCHANGED <<requests, call, shells, atWake>>
  BY DEF Identify
<1>4. call[c].certificate \in 1..Len(requests)
      /\ requests[call[c].certificate].state \in Certified
  BY <1>1 DEF IInv, Types, Sound, Asked, Certificates
<1>5. Listed(c) = {id \in {call[c].certificate} : requests[id].ca = call[c].profile.ca}
      /\ Listed(c) \in SUBSET (1..Len(requests))
  BY <1>4 DEF Listed
<1>6. /\ script'[c] \in Script /\ script'[c].at = "done" /\ script'[c].output = Listed(c)
      /\ script'[c].requestId = script[c].requestId
      /\ script'[c].disposition = script[c].disposition
  BY <1>1, <1>2, <1>5 DEF Script
<1>7. Ran(c)'
  BY <1>1, <1>3, <1>6 DEF Ran, Issuing, Script
<1>8. Requested(c)'
  BY <1>1, <1>3, <1>6 DEF Requested
<1>9. Effect(c)' /\ Woken(c)'
  BY <1>1, <1>3, <1>5, <1>6 DEF Effect, Woken
<1> QED
  BY <1>1, <1>2, <1>3, <1>6, <1>7, <1>8, <1>9, QuietStep

LEMMA CommandFailsKeeps ==
    ASSUME IInv, NEW c \in Calls, CommandFails(c)
    PROVE  IInv'
<1>1. /\ script \in [Calls -> Script] /\ script[c] \in Script
      /\ script[c].at \in {"revoke", "identify"} /\ Ran(c) /\ Requested(c)
      /\ call[c].kind \in {"revoke", "identify"}
  BY ScriptFunction DEF CommandFails, IInv, Sound, ScriptSound, Ran
<1>2. /\ script' = [d \in Calls |-> script'[d]]
      /\ \A d \in Calls \ {c} : script'[d] = script[d]
      /\ script'[c] = [script[c] EXCEPT !.at = "threw"]
  BY <1>1 DEF CommandFails
<1>3. UNCHANGED <<requests, call, shells, atWake>>
  BY DEF CommandFails
<1>4. /\ script'[c] \in Script /\ script'[c].at = "threw"
      /\ script'[c].requestId = script[c].requestId
      /\ script'[c].disposition = script[c].disposition /\ script'[c].output = script[c].output
  BY <1>1, <1>2 DEF Script
<1>5. Ran(c)'
  BY <1>1, <1>3, <1>4 DEF Ran, Issuing, Script
<1>6. Requested(c)'
  BY <1>1, <1>3, <1>4 DEF Requested
<1>7. Effect(c)' /\ Woken(c)'
  BY <1>1, <1>3, <1>4 DEF Effect, Woken
<1> QED
  BY <1>1, <1>2, <1>3, <1>4, <1>5, <1>6, <1>7, QuietStep

-------------------------------------------------------------------------------
(* An administrator's decision makes no certificate another. *)
LEMMA DecideKeeps ==
    ASSUME IInv, NEW id \in DOMAIN requests, Decide(id)
    PROVE  IInv'
<1>1. PICK state \in {"issued", "denied"} : requests' = [requests EXCEPT ![id].state = state]
  BY DEF Decide
<1>2. UNCHANGED <<call, script, shells, atWake>> /\ requests[id].state = "pending"
  BY DEF Decide
<1>3. requests \in Seq(Request)
  BY DEF IInv, Types
<1>4. Grows
  BY <1>1, <1>2, <1>3, StateStep DEF Certified, States
<1>5. Types'
  BY <1>2, <1>4 DEF IInv, Types, Grows
<1>6. \A c \in Calls : Sound(c)'
  BY <1>2, <1>4, Frame DEF IInv, SameScript, SameShell
<1> QED
  BY <1>2, <1>5, <1>6 DEF IInv, Disjoint

-------------------------------------------------------------------------------
(* No step of a thread, a script, the transport or an administrator breaks   *)
(* the invariant.                                                            *)
LEMMA NextIInv == IInv /\ [Next]_vars => IInv'
<1> SUFFICES ASSUME IInv, [Next]_vars PROVE IInv'
  OBVIOUS
<1>1. ASSUME NEW c \in Calls, Thread(c) PROVE IInv'
  BY <1>1, RejectKeeps, ConnectKeeps, CollectKeeps, DisconnectKeeps DEF Thread
<1>2. ASSUME NEW c \in Calls, RunScript(c) PROVE IInv'
  BY <1>2, SubmitKeeps, SubmitFailsKeeps, SleepKeeps, RetrieveKeeps, RetrieveFailsKeeps,
     UntilKeeps, FetchKeeps, RevokeKeeps, IdentifyKeeps, CommandFailsKeeps DEF RunScript
<1>3. ASSUME UNCHANGED vars PROVE IInv'
  <2>1. UNCHANGED <<requests, call, script, shells, atWake>>
    BY <1>3 DEF vars
  <2>2. Grows
    BY <2>1, Unchanged DEF IInv, Types
  <2>3. \A c \in Calls : Sound(c)'
    BY <2>1, <2>2, Frame DEF IInv, SameScript, SameShell
  <2> QED
    BY <2>1, <2>3 DEF IInv, Types, Disjoint
<1> QED
  BY <1>1, <1>2, <1>3, ReceiveKeeps, TransportFailsKeeps, DecideKeeps DEF Next

(* Whatever calls, scripts, lost answers and administrators do: the          *)
(* invariant of submit_certificate_request_script, the revoke and identify   *)
(* scripts and the threads that run them.                                    *)
THEOREM Invariant == Spec => []IInv
<1>1. Init => IInv
  BY InitIInv
<1>2. IInv /\ [Next]_vars => IInv'
  BY NextIInv
<1> QED
  BY <1>1, <1>2, PTL DEF Spec

(* Every variable has its type, and the script fetches a certificate only    *)
(* after an issued or incomplete disposition.                                *)
THEOREM TypeCorrect == Spec => []TypeOK
<1>1. IInv => TypeOK
  BY ScriptFunction DEF IInv, Types, TypeOK, Sound, ScriptSound, Ran
<1> QED
  BY <1>1, Invariant, PTL

(* Issue and renew answer with the certificate of the call's own request,    *)
(* under its CA and template, and with no other call's, however many submit  *)
(* to the CAs at once.                                                       *)
THEOREM CertificatesAreOwn == Spec => []OwnCertificate
<1>1. ASSUME IInv PROVE OwnCertificate
  <2> SUFFICES ASSUME NEW c \in Calls, call[c].answer = "certificate"
               PROVE  /\ \E id \in Certificates :
                            /\ script[c].output = {id} /\ script[c].requestId = {id}
                            /\ requests[id].ca = call[c].profile.ca
                            /\ requests[id].template = call[c].profile.template
                      /\ \A other \in Calls \ {c} :
                            script[other].output \intersect script[c].requestId # {} =>
                                call[other].kind = "identify"
    BY DEF OwnCertificate
  <2>1. /\ call[c].kind = "issue" /\ script[c].output # {}
        /\ Requested(c) /\ script[c].output = script[c].requestId
        /\ script[c].requestId \subseteq Certificates
    BY <1>1 DEF IInv, Sound, Answered, ScriptSound, Requested
  <2>2. PICK id \in script[c].requestId : TRUE
    BY <2>1
  <2>3. script[c].requestId = {id} /\ id \in Certificates
        /\ requests[id].ca = call[c].profile.ca /\ requests[id].template = call[c].profile.template
    BY <2>1, <2>2 DEF Requested
  <2>4. ASSUME NEW other \in Calls \ {c},
               script[other].output \intersect script[c].requestId # {}
        PROVE  call[other].kind = "identify"
    <3>1. call[other].kind \in {"issue", "revoke", "identify"}
      BY <1>1 DEF IInv, Types, Call
    <3>2. Ran(other) /\ Requested(other)
      BY <1>1 DEF IInv, Sound, ScriptSound
    <3>3. script[other].requestId \intersect script[c].requestId = {}
      BY <1>1 DEF IInv, Disjoint
    <3> QED
      BY <2>4, <3>1, <3>2, <3>3 DEF Ran, Requested
  <2> QED
    BY <2>1, <2>3, <2>4
<1> QED
  BY <1>1, Invariant, PTL

(* The submit script does not give up on a certificate issued before its     *)
(* last poll.                                                                *)
THEOREM IssuedIsNotMissed == Spec => []NoneMissed
<1>1. IInv => NoneMissed
  BY DEF IInv, Sound, ScriptSound, Woken, IsRevoked, NoneMissed
<1> QED
  BY <1>1, Invariant, PTL

-------------------------------------------------------------------------------
(* What is revoked, a call was asked to revoke. *)
Revoked(id) == id \in DOMAIN requests /\ requests[id].state = "revoked"

AskedFor(id, c) ==
    /\ call[c].kind = "revoke" /\ script[c].at = "done"
    /\ call[c].certificate = id /\ call[c].profile.ca = requests[id].ca

Justified == \A id : Revoked(id) => \E c \in Calls : AskedFor(id, c)

(* A script that is done stays so, and a call keeps its input. *)
LEMMA DoneStays ==
    ASSUME IInv, [Next]_vars, NEW c \in Calls, script[c].at = "done"
    PROVE  SameInput(c) /\ script'[c].at = "done"
<1>0. script \in [Calls -> Script] /\ call \in [Calls -> Call]
  BY ScriptFunction DEF IInv, Types
<1>1. ASSUME NEW d \in Calls, Receive(d) PROVE SameInput(c) /\ script'[c].at = "done"
  <2>1. c # d /\ script' = script
    BY <1>1 DEF Receive, IInv, Sound, Asked, NoScript
  <2> QED
    BY <1>0, <1>1, <2>1 DEF Receive, SameInput
<1>2. ASSUME NEW d \in Calls, Thread(d) \/ TransportFails(d)
      PROVE  SameInput(c) /\ script'[c].at = "done"
  <2>1. CASE Connect(d)
    <3>1. c # d
      BY <2>1 DEF Connect, IInv, Sound, Asked, NoScript
    <3> QED
      BY <1>0, <2>1, <3>1 DEF Connect, SameInput, Call
  <2>2. CASE Collect(d)
    BY <1>0, <2>2 DEF Collect, Answer, SameInput, Call
  <2>3. CASE Reject(d) \/ Disconnect(d) \/ TransportFails(d)
    BY <1>0, <2>3 DEF Reject, Disconnect, TransportFails, Answer, SameInput, Call
  <2> QED
    BY <1>2, <2>1, <2>2, <2>3 DEF Thread
<1>3. ASSUME NEW d \in Calls, RunScript(d) PROVE SameInput(c) /\ script'[c].at = "done"
  <2>1. c # d /\ call' = call
    BY <1>3 DEF RunScript, Submit, SubmitFails, Sleep, Retrieve, RetrieveFails, Until, Fetch,
       FetchFails, Revoke, Identify, CommandFails
  <2>2. script'[c] = script[c]
    BY <1>0, <1>3, <2>1 DEF RunScript, Submit, SubmitFails, Sleep, Retrieve, RetrieveFails,
       Until, Fetch, FetchFails, Revoke, Identify, CommandFails
  <2> QED
    BY <2>1, <2>2 DEF SameInput
<1>4. CASE (\E id \in DOMAIN requests : Decide(id)) \/ UNCHANGED vars
  BY <1>4 DEF Decide, vars, SameInput
<1> QED
  BY <1>1, <1>2, <1>3, <1>4 DEF Next

(* Only the script of a revocation revokes. *)
LEMMA RevokedStep ==
    ASSUME IInv, [Next]_vars, NEW id, Revoked(id)'
    PROVE  \/ Revoked(id) /\ requests'[id].ca = requests[id].ca
           \/ \E c \in Calls : AskedFor(id, c)'
<1>0. requests \in Seq(Request) /\ DOMAIN requests = 1..Len(requests) /\ Len(requests) \in Nat
  BY DEF IInv, Types
<1>1. CASE UNCHANGED requests
  BY <1>1 DEF Revoked
<1>2. ASSUME NEW c \in Calls, Submit(c) PROVE Revoked(id) /\ requests'[id].ca = requests[id].ca
  <2>1. PICK r : requests' = Append(requests, r) /\ r.state # "revoked"
    BY <1>2 DEF Submit
  <2>2. /\ \A i \in 1..Len(requests) : requests'[i] = requests[i]
        /\ requests'[Len(requests) + 1] = r
        /\ DOMAIN requests' = 1..(Len(requests) + 1)
    BY <1>0, <2>1
  <2> QED
    BY <1>0, <2>1, <2>2 DEF Revoked
<1>3. ASSUME NEW c \in Calls, Revoke(c)
      PROVE  \/ Revoked(id) /\ requests'[id].ca = requests[id].ca
             \/ AskedFor(id, c)'
  <2> DEFINE found == /\ requests[call[c].certificate].ca = call[c].profile.ca
                      /\ requests[call[c].certificate].state = "issued"
  <2>1. CASE ~found
    <3>1. UNCHANGED requests
      BY <1>3, <2>1 DEF Revoke
    <3> QED
      BY <1>1, <3>1 DEF Revoked
  <2>2. CASE found
    <3>1. call[c].certificate \in DOMAIN requests /\ call[c].kind = "revoke"
      BY <1>3 DEF Revoke, IInv, Sound, Asked, ScriptSound, Ran, Certificates
    <3>2. requests' = [requests EXCEPT ![call[c].certificate].state = "revoked"]
      BY <1>3, <2>2 DEF Revoke
    <3>3. /\ \A i \in DOMAIN requests : requests'[i] = IF i = call[c].certificate
                                     THEN [requests[i] EXCEPT !.state = "revoked"] ELSE requests[i]
          /\ DOMAIN requests' = DOMAIN requests
      BY <3>2
    <3>4. CASE id # call[c].certificate
      BY <3>3, <3>4 DEF Revoked
    <3>5. CASE id = call[c].certificate
      <4>1. requests'[id].ca = requests[id].ca
        <5>1. requests[id] \in Request /\ requests'[id] = [requests[id] EXCEPT !.state = "revoked"]
          BY <1>0, <3>1, <3>3, <3>5
        <5> QED
          BY <5>1 DEF Request
      <4>2. call' = call /\ script'[c].at = "done"
        BY <1>3, ScriptFunction DEF Revoke, IInv
      <4> QED
        BY <2>2, <3>1, <3>5, <4>1, <4>2 DEF AskedFor
    <3> QED
      BY <3>4, <3>5
  <2> QED
    BY <2>1, <2>2
<1>4. ASSUME NEW i \in DOMAIN requests, Decide(i)
      PROVE  Revoked(id) /\ requests'[id].ca = requests[id].ca
  <2>1. PICK state \in {"issued", "denied"} : requests' = [requests EXCEPT ![i].state = state]
    BY <1>4 DEF Decide
  <2>2. /\ \A j \in DOMAIN requests : requests'[j] = IF j = i
                                 THEN [requests[j] EXCEPT !.state = state] ELSE requests[j]
        /\ DOMAIN requests' = DOMAIN requests
    BY <2>1
  <2>3. id # i
    <3>1. requests[i] \in Request /\ requests'[i] = [requests[i] EXCEPT !.state = state]
      BY <1>0, <2>2
    <3>2. requests'[i].state = state
      BY <3>1 DEF Request
    <3> QED
      BY <3>2 DEF Revoked
  <2> QED
    BY <2>2, <2>3 DEF Revoked
<1>5. UNCHANGED requests \/ (\E c \in Calls : Submit(c) \/ Revoke(c))
      \/ (\E i \in DOMAIN requests : Decide(i))
  <2>1. ASSUME NEW c \in Calls, Receive(c) \/ Thread(c) \/ TransportFails(c) PROVE UNCHANGED requests
    BY <2>1 DEF Receive, Thread, Reject, Connect, Collect, Disconnect, TransportFails
  <2>2. ASSUME NEW c \in Calls, RunScript(c) PROVE UNCHANGED requests \/ Submit(c) \/ Revoke(c)
    BY <2>2 DEF RunScript, SubmitFails, Sleep, Retrieve, RetrieveFails, Until, Fetch, FetchFails,
       Identify, CommandFails
  <2> QED
    BY <2>1, <2>2 DEF Next, vars
<1> QED
  BY <1>1, <1>2, <1>3, <1>4, <1>5

LEMMA NextJustified == IInv /\ Justified /\ [Next]_vars => Justified'
<1> SUFFICES ASSUME IInv, Justified, [Next]_vars, NEW id, Revoked(id)'
             PROVE  \E c \in Calls : AskedFor(id, c)'
  BY DEF Justified
<1>1. CASE Revoked(id) /\ requests'[id].ca = requests[id].ca
  <2>1. PICK c \in Calls : AskedFor(id, c)
    BY <1>1 DEF Justified
  <2>2. SameInput(c) /\ script'[c].at = "done"
    BY <2>1, DoneStays DEF AskedFor
  <2> QED
    BY <1>1, <2>1, <2>2 DEF AskedFor, SameInput
<1> QED
  BY <1>1, RevokedStep

LEMMA InitJustified == Init => Justified
<1> SUFFICES ASSUME Init, NEW id, Revoked(id) PROVE FALSE
  BY DEF Justified
<1>1. PICK r \in [ca : CAs, template : Templates, state : {"issued"}] : requests = <<r>>
  BY DEF Init
<1> QED
  BY <1>1 DEF Revoked

(* A revocation answered 200 is and stays in effect, and nothing is revoked  *)
(* but what a call was asked to revoke, under its own CA.                    *)
THEOREM RevocationsHold == Spec => []RevokedIsRevoked
<1>1. ASSUME IInv, NEW c \in Calls, call[c].answer = "revoked",
             requests[call[c].certificate].ca = call[c].profile.ca
      PROVE  requests[call[c].certificate].state = "revoked"
  BY <1>1 DEF IInv, Sound, Answered, ScriptSound, Effect
<1>2. IInv /\ Justified => RevokedIsRevoked
  BY <1>1 DEF RevokedIsRevoked, Justified, Revoked, AskedFor
<1> QED
  BY <1>2, Invariant, InitJustified, NextJustified, PTL DEF Spec

(* Identify does not deny a certificate of its CA, and finds none of another *)
(* CA or template, whatever is revoked meanwhile.                            *)
THEOREM IdentifyHolds == Spec => []IdentifyIsRight
<1>1. ASSUME IInv, NEW c \in Calls
      PROVE  /\ call[c].answer = "notFound" =>
                    requests[call[c].certificate].ca # call[c].profile.ca
             /\ call[c].answer = "found" =>
                    /\ requests[call[c].certificate].ca = call[c].profile.ca
                    /\ requests[call[c].certificate].template = call[c].profile.template
  BY <1>1 DEF IInv, Sound, Answered, ScriptSound, Effect
<1>2. IInv => IdentifyIsRight
  BY <1>1 DEF IdentifyIsRight
<1> QED
  BY <1>2, Invariant, PTL

(* disconnect() leaves no shell behind a call that was answered otherwise    *)
(* than with an error, and closes none under a script that still runs.       *)
THEOREM ShellsClose == Spec => []ShellsAreClosed
<1>1. IInv => ShellsAreClosed
  BY DEF IInv, Types, Sound, Asked, ShellsAreClosed
<1> QED
  BY <1>1, Invariant, PTL
===============================================================================
