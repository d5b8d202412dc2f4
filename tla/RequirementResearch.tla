------------------------- MODULE RequirementResearch -------------------------
(***************************************************************************)
(* The handler that refreshes one requirement of one supplier from approved     *)
(* pages, application/requirement_research.py, over the attempts that the         *)
(* runner of EntityResearch gives its work item: each attempt reserves and         *)
(* requests one page after the other, records them in a ledger of its own,         *)
(* assesses them and returns a claim, which the runner commits.                    *)
(*                                                                          *)
(* The runner is here as far as the item goes: claimed, failed, retried,           *)
(* recovered after a crash, completed.  The ledger is its write-ahead log and its    *)
(* file, by name; EvidenceLedger has the rest.  What a page says of the             *)
(* requirement is left open.                                                  *)
(***************************************************************************)
EXTENDS Naturals, Sequences, FiniteSets

CONSTANTS
    Site,            \* the origin of the candidate's website
    Mirror,          \* another origin of the supplier, approved or not
    Elsewhere,       \* an origin that is not the supplier's
    PageCount,       \* bound: URLs of a payload
    MaxTries,        \* max_attempts
    CallLimit,       \* what the dataset's limits allow
    MaxWriteErrors   \* bound: writes that fail, of a row or of the file

ASSUME ResearchAssumption ==
    PageCount \in Nat /\ MaxTries \in Nat /\ CallLimit \in Nat /\ MaxWriteErrors \in Nat

VARIABLES
    payload,    \* the URLs' origins, in order, and the approved origins
    item,       \* the work item: its status, its attempts and its claim
    handler,    \* the attempt under way, if any
    log, onDisk,  \* per ledger name: the rows of its log, those of its file
    reserved,   \* calls reserved from the dataset's limits
    seen,       \* history: rows that record() returned
    writeErrors

qvars == <<payload, item, handler, log, onDisk, reserved, seen, writeErrors>>

Origins == {Site, Mirror, Elsewhere}
Answers == {"yes", "no", "silent"}
Tries == 1..MaxTries
Stored(rows) == {rows[i] : i \in DOMAIN rows}

NoClaim == [try |-> 0, status |-> "none", refs |-> {}]
Resting == [pc |-> "off", rows |-> <<>>, claim |-> NoClaim]

-----------------------------------------------------------------------------
(* The payload                                                              *)

\* validate_scope: the candidate's own website is approved, and so is the origin of
\* every page.
Admitted(p) == Site \in p.approved /\ \A i \in DOMAIN p.pages : p.pages[i] \in p.approved

Payloads == {p \in [approved : SUBSET Origins, pages : UNION {[1..n -> Origins] : n \in 1..PageCount}] :
                Admitted(p) /\ Elsewhere \notin p.approved}

ResearchInit ==
    /\ payload \in Payloads
    /\ item = [status |-> "queued", attempts |-> 0, claim |-> NoClaim]
    /\ handler = Resting
    /\ log = [a \in Tries |-> <<>>] /\ onDisk = [a \in Tries |-> {}]
    /\ reserved = 0 /\ seen = {} /\ writeErrors = 0

-----------------------------------------------------------------------------
(* The handler                                                              *)

\* Mutant: the ledger is named by the work item only.
NameOfItem(a) == 1

\* The name of an attempt's ledger.
Name(a) == a
Mine == Name(item.attempts)

\* _claim_next, and the start of __call__: a new ledger, empty in memory.
Begin ==
    /\ item.status = "queued" /\ item.attempts < MaxTries
    /\ item' = [item EXCEPT !.status = "running", !.attempts = @ + 1]
    /\ handler' = [Resting EXCEPT !.pc = "fetch"]
    /\ UNCHANGED <<payload, log, onDisk, reserved, seen, writeErrors>>

NextPage == Len(handler.rows) + 1
Row(n, at, says) == [try |-> item.attempts, page |-> n, at |-> at, says |-> says]
Raises == handler' = [handler EXCEPT !.pc = "raised"]

\* Mutant: a page that cannot be retrieved is passed over.
UnretrievedSilent ==
    /\ reserved' = reserved + 1
    /\ handler' = [handler EXCEPT !.rows = Append(@, Row(NextPage, Site, "silent"))]
    /\ UNCHANGED <<log, seen>>

\* The provider returned an error, or nothing.
Unretrieved == reserved' = reserved + 1 /\ Raises /\ UNCHANGED <<log, seen>>

\* The page's final URL left the approved origins.
Strayed(at) == at \notin payload.approved

\* One page: the reservation, the request for it alone, and its row, which is in the
\* log before record() returns.  A denied reservation raises like a bad page.
FetchPage ==
    /\ handler.pc = "fetch" /\ NextPage <= Len(payload.pages)
    /\ \/ reserved = CallLimit /\ Raises /\ UNCHANGED <<reserved, log, seen>>
       \/ reserved < CallLimit /\ Unretrieved
       \/ \E at \in Origins : /\ reserved < CallLimit /\ Strayed(at)
                              /\ reserved' = reserved + 1 /\ Raises /\ UNCHANGED <<log, seen>>
       \/ \E at \in Origins, says \in Answers :
            LET row == Row(NextPage, at, says) IN
            /\ reserved < CallLimit /\ ~Strayed(at)
            /\ reserved' = reserved + 1
            /\ handler' = [handler EXCEPT !.rows = Append(@, row)]
            /\ log' = [log EXCEPT ![Mine] = Append(@, row)]
            /\ seen' = seen \cup {row}
    /\ UNCHANGED <<payload, item, onDisk, writeErrors>>

\* The write of the row fails: record() raises, and nothing is returned, but the row
\* stays in the ledger's memory; its line may be in the log all the same.
FetchPageUnwritten ==
    /\ handler.pc = "fetch" /\ NextPage <= Len(payload.pages)
    /\ reserved < CallLimit /\ reserved' = reserved + 1
    /\ writeErrors < MaxWriteErrors /\ writeErrors' = writeErrors + 1
    /\ \E at \in Origins, says \in Answers :
         /\ ~Strayed(at)
         /\ handler' = [handler EXCEPT !.pc = "raised", !.rows = Append(@, Row(NextPage, at, says))]
         /\ \/ log' = [log EXCEPT ![Mine] = Append(@, Row(NextPage, at, says))]
            \/ UNCHANGED log
    /\ UNCHANGED <<payload, item, onDisk, seen>>

\* assess_requirements, for the one requirement: what the pages of the candidate's
\* own host say; saying both is not an answer.
Telling(rows) == {r \in Stored(rows) : r.at = Site /\ r.says # "silent"}
Assessment(rows) ==
    LET signs == {r.says : r \in Telling(rows)} IN
    [try |-> item.attempts, refs |-> Telling(rows),
     status |-> CASE signs = {"yes"} -> "supported" [] signs = {"no"} -> "contradicted"
                  [] OTHER -> "not_found"]

Assess ==
    /\ handler.pc = "fetch" /\ NextPage > Len(payload.pages)
    /\ handler' = [handler EXCEPT !.pc = "return", !.claim = Assessment(handler.rows)]
    /\ UNCHANGED <<payload, item, log, onDisk, reserved, seen, writeErrors>>

\* The finally clause: persist() replaces the file by this ledger's rows and removes
\* the log, however the attempt ended, even without a row.  An error
\* takes the place of the claim.
PersistLedger ==
    /\ handler.pc \in {"return", "raised"}
    /\ \/ /\ handler' = [handler EXCEPT !.pc = IF handler.pc = "return" THEN "commit" ELSE "fail"]
          /\ onDisk' = [onDisk EXCEPT ![Mine] = Stored(handler.rows)]
          /\ log' = [log EXCEPT ![Mine] = <<>>]
          /\ UNCHANGED writeErrors
       \/ /\ writeErrors < MaxWriteErrors /\ writeErrors' = writeErrors + 1
          /\ handler' = [handler EXCEPT !.pc = "fail"]
          /\ UNCHANGED <<onDisk, log>>
    /\ UNCHANGED <<payload, item, reserved, seen>>

-----------------------------------------------------------------------------
(* The runner                                                               *)

\* _complete or _fail
Settle ==
    /\ handler.pc \in {"commit", "fail"}
    /\ item' = IF handler.pc = "commit" THEN [item EXCEPT !.status = "completed", !.claim = handler.claim]
               ELSE [item EXCEPT !.status = "failed"]
    /\ handler' = Resting
    /\ UNCHANGED <<payload, log, onDisk, reserved, seen, writeErrors>>

\* main --retry-failed
RetryFailed ==
    /\ item.status = "failed" /\ item.attempts < MaxTries
    /\ item' = [item EXCEPT !.status = "queued"]
    /\ UNCHANGED <<payload, handler, log, onDisk, reserved, seen, writeErrors>>

\* The process dies, and the next one recovers the item.
DieAndRecover ==
    /\ handler # Resting
    /\ handler' = Resting
    /\ item' = [item EXCEPT !.status = IF item.attempts < MaxTries THEN "queued" ELSE "failed"]
    /\ UNCHANGED <<payload, log, onDisk, reserved, seen, writeErrors>>

ResearchNext ==
    Begin \/ FetchPage \/ FetchPageUnwritten \/ Assess \/ PersistLedger \/ Settle
        \/ RetryFailed \/ DieAndRecover

ResearchSpec == ResearchInit /\ [][ResearchNext]_qvars

-----------------------------------------------------------------------------
(* Properties                                                               *)

(* "Partial evidence survives provider failure; completed claims are committed    *)
(* only by the runner after the handler returns successfully"                     *)
(* (requirement_research.py:152): through failures, retries and crashes a page      *)
(* that was recorded is on disk.                                              *)
PartialEvidenceSurvives == \A r \in seen : \E a \in Tries : r \in Stored(log[a]) \cup onDisk[a]

(* A completed claim rests on the whole of one attempt: every page of the payload    *)
(* was retrieved in it from an approved origin and is in its persisted ledger, and   *)
(* the claim is what those pages say, the candidate's own ones; nothing of an         *)
(* earlier attempt is mixed in.                                                *)
ClaimIsWhole ==
    item.status = "completed" =>
        LET rows == {r \in onDisk[Name(item.claim.try)] : r.try = item.claim.try} IN
        /\ {r.page : r \in rows} = DOMAIN payload.pages
        /\ \A r \in rows : r \in seen /\ r.at \in payload.approved
        /\ item.claim.refs = {r \in rows : r.at = Site /\ r.says # "silent"}
        /\ item.claim.status = "supported" => \A r \in item.claim.refs : r.says = "yes"

(* What a research run leaves behind.                                            *)
ClaimsBacked == PartialEvidenceSurvives /\ ClaimIsWhole

=============================================================================
