----------------------------- MODULE DiscoveryPoll -----------------------------
(***************************************************************************)
(* What ILM Core reads while CertificateStore works: the answer to the     *)
(* POST that starts a discovery and to the polls that follow.  An answer   *)
(* is put together from three statements - the history row, the number of  *)
(* its links, one page of them - and at READ COMMITTED each statement sees *)
(* what is committed when it runs.                                         *)
(***************************************************************************)
EXTENDS CertificateStore

CONSTANTS
    Polls,          \* requests for discovery data, each answered once
    MaxPage,        \* bound: the page numbers Core asks for are 0..MaxPage
    ItemsPerPage

ASSUME PollAssumption ==
    /\ Polls \intersect (Discoveries \union Requests \union Sweepers) = {}
    /\ MaxPage \in Nat /\ ItemsPerPage \in Nat \ {0}

VARIABLES
    ppc,            \* where the request thread is
    asked,          \* the discovery it is about
    page,           \* pageNumber of the request
    seenStatus,     \* status in the answer
    seenTotal,      \* totalCertificatesDiscovered in the answer
    seenData        \* the rows behind certificateData in the answer

pollVars == <<ppc, asked, page, seenStatus, seenTotal, seenData>>
allVars == <<vars, pollVars>>

-------------------------------------------------------------------------------
LinksOf(d) == {l \in link : l.discovery = d}

(* order_by('uuid'): some fixed order of the rows. *)
Before(l, m) ==
    \/ l.certificate < m.certificate
    \/ l.certificate = m.certificate /\ l.copy < m.copy

Position(l) == Cardinality({m \in LinksOf(l.discovery) : Before(m, l)})

(* Pages are numbered from 1; 0 is read as 1. *)
PageIndex(n) == IF n <= 0 THEN 0 ELSE n - 1

(* Mutant: the slice of the commented-out query, [page_number * n : n]. *)
PageOf_EndIsLength(d, n) ==
    {l \in LinksOf(d) :
        PageIndex(n) * ItemsPerPage <= Position(l) /\ Position(l) < ItemsPerPage}

(* [page_number * items_per_page : (page_number + 1) * items_per_page] *)
PageOf(d, n) ==
    {l \in LinksOf(d) :
        /\ PageIndex(n) * ItemsPerPage <= Position(l)
        /\ Position(l) < (PageIndex(n) + 1) * ItemsPerPage}

-------------------------------------------------------------------------------
PollInit ==
    /\ Init
    /\ ppc = [p \in Polls |-> "idle"]
    /\ asked \in [Polls -> Discoveries]
    /\ page \in [Polls -> 0..MaxPage]
    /\ seenStatus = [p \in Polls |-> "none"]
    /\ seenTotal = [p \in Polls |-> 0]
    /\ seenData = [p \in Polls |-> {}]

(* start_discovery has spawned the thread and goes on with the object it    *)
(* created, whose status is inProgress whatever the thread has done since.  *)
(* It asks for page 0.                                                      *)
AnswerStart(p) ==
    /\ ppc[p] = "idle" /\ page[p] = 0
    /\ pc[asked[p]] # "unborn"
    /\ ppc' = [ppc EXCEPT ![p] = "counting"]
    /\ seenStatus' = [seenStatus EXCEPT ![p] = "inProgress"]
    /\ UNCHANGED <<vars, asked, page, seenTotal, seenData>>

(* discovery_operations reads the history row. *)
ReadStatus(p) ==
    /\ ppc[p] = "idle"
    /\ history[asked[p]] # "noRow"
    /\ ppc' = [ppc EXCEPT ![p] = "counting"]
    /\ seenStatus' = [seenStatus EXCEPT ![p] = history[asked[p]]]
    /\ UNCHANGED <<vars, asked, page, seenTotal, seenData>>

(* No such row: 404. *)
PollNotFound(p) ==
    /\ ppc[p] = "idle"
    /\ history[asked[p]] = "noRow" /\ pc[asked[p]] # "unborn"
    /\ ppc' = [ppc EXCEPT ![p] = "notFound"]
    /\ UNCHANGED <<vars, asked, page, seenStatus, seenTotal, seenData>>

(* Mutant: the count is of distinct certificates. *)
CountLinks_Distinct(p) ==
    /\ ppc[p] = "counting"
    /\ ppc' = [ppc EXCEPT ![p] = "paging"]
    /\ seenTotal' = [seenTotal EXCEPT ![p] =
                        Cardinality({l.certificate : l \in LinksOf(asked[p])})]
    /\ UNCHANGED <<vars, asked, page, seenStatus, seenData>>

(* total_certificates: a count of the committed links. *)
CountLinks(p) ==
    /\ ppc[p] = "counting"
    /\ ppc' = [ppc EXCEPT ![p] = "paging"]
    /\ seenTotal' = [seenTotal EXCEPT ![p] = Cardinality(LinksOf(asked[p]))]
    /\ UNCHANGED <<vars, asked, page, seenStatus, seenData>>

(* The page.  The branch for a discovery in progress compares the status    *)
(* string with the member DiscoveryStatus.IN_PROGRESS of a plain Enum: they *)
(* are never equal, so the page is read whatever the status is.             *)
ReadPage(p) ==
    /\ ppc[p] = "paging"
    /\ ppc' = [ppc EXCEPT ![p] = "answered"]
    /\ seenData' = [seenData EXCEPT ![p] = PageOf(asked[p], page[p])]
    /\ UNCHANGED <<vars, asked, page, seenStatus, seenTotal>>

PollNext ==
    \/ Next /\ UNCHANGED pollVars
    \/ \E p \in Polls :
        AnswerStart(p) \/ ReadStatus(p) \/ PollNotFound(p) \/ CountLinks(p) \/ ReadPage(p)

PollSpec == PollInit /\ [][PollNext]_allVars

-------------------------------------------------------------------------------
(* An answer that says "completed" is whole although three statements made  *)
(* it: unless the discovery has been deleted meanwhile, its total is what   *)
(* the discovery collected and its data is the page asked for.              *)
CompletedIsWhole ==
    \A p \in Polls :
        ppc[p] = "answered" /\ seenStatus[p] = "completed" /\ history[asked[p]] # "noRow" =>
            /\ seenTotal[p] = SumFunction(found[asked[p]])
            /\ seenData[p] = PageOf(asked[p], page[p])

(* Page 0 is page 1. *)
PageAsked(p) == IF page[p] = 0 THEN 1 ELSE page[p]

(* Core loses and repeats no certificate by paging: answers to page 0 and    *)
(* to page 1 are the same, as are any two to the same page, answers to other *)
(* pages share nothing, and answers to every page up to the last hold all.   *)
PagesPartition ==
    \A d \in Discoveries : history[d] = "completed" =>
        LET answers == {p \in Polls : /\ asked[p] = d
                                      /\ ppc[p] = "answered" /\ seenStatus[p] = "completed"}
            reached == {PageAsked(p) : p \in answers}
        IN  /\ \A p, q \in answers :
                IF PageAsked(p) = PageAsked(q) THEN seenData[p] = seenData[q]
                ELSE seenData[p] \intersect seenData[q] = {}
            /\ (\A n \in 1..Cardinality(LinksOf(d)) :
                    (n - 1) * ItemsPerPage < Cardinality(LinksOf(d)) => n \in reached)
                => UNION {seenData[p] : p \in answers} = LinksOf(d)

(* An answer that says "inProgress" has no data and a total of 0: what      *)
(* get_discovery_history_data means to return (lines 188-190) and what      *)
(* test_start_discovery_creates_discovery_and_returns_200 asserts of the    *)
(* answer to a start.                                                       *)
InProgressIsEmpty ==
    \A p \in Polls : ppc[p] = "answered" /\ seenStatus[p] = "inProgress" =>
        seenTotal[p] = 0 /\ seenData[p] = {}
===============================================================================
