----------------------------- MODULE ReviewStore -----------------------------
(***************************************************************************)
(* pending_human_review.json of one owner, spider_qwen/governance/           *)
(* review_events.py: runs add events to it, among them the RFQ drafts they     *)
(* withhold, and the `review` command approves or rejects them.               *)
(*                                                                          *)
(* Nothing locks the file.  Every operation reads it, changes what it read,   *)
(* writes that to a temporary file of its own and replaces the file with it;   *)
(* other processes, and a crash, may come between any two of these steps.      *)
(***************************************************************************)
EXTENDS Naturals, FiniteSets

CONSTANTS
    Creators,   \* runs, each of which adds one event, known by the run
    Reviewers   \* `review approve` and `review reject` commands

\* No process is both.
ASSUME ReviewAssumption == Creators \cap Reviewers = {}

VARIABLES
    reviews,    \* the file: the status of the events in it, and whether it parses
    tmp,        \* temporary files, by name: what was written so far
    at,         \* per actor: where it is in its operation
    copy,       \* per actor: the events it read, changed
    asked,      \* per reviewer: the event and the status asked for
    \* history: operations that returned: created events, decisions, and whether
    \* an operation ever began while another was under way
    created, decided, overlapped

actor == <<at, copy, asked>>
past == <<created, decided, overlapped>>
rvars == <<reviews, tmp, actor, past>>

People == Creators \cup Reviewers
NoEvents == [e \in {} |-> "pending"]
NoWish == [event |-> "none", status |-> "none"]
Whole(events) == [kind |-> "whole", events |-> events]
Half == [kind |-> "half", events |-> NoEvents]
Missing == [kind |-> "missing", events |-> NoEvents]

\* Mutant: all writers use one temporary file.
TmpNameShared(a) == "shared"

\* A name of the writer's own.
TmpName(a) == a

Names == People \cup {"shared"}

ReviewInit ==
    /\ reviews = Whole(NoEvents)
    /\ tmp = [n \in Names |-> Missing]
    /\ at = [a \in People |-> "idle"] /\ copy = [a \in People |-> NoEvents]
    /\ asked = [a \in Reviewers |-> NoWish]
    /\ created = {} /\ decided = {} /\ overlapped = FALSE

-----------------------------------------------------------------------------

Overlaps == overlapped' = (overlapped \/ \E b \in People : at[b] \notin {"idle", "over"})

\* _read: a file that does not parse is put aside, and counts as empty.
Stored == IF reviews.kind = "whole" THEN reviews.events ELSE NoEvents
PutAside == reviews' = IF reviews.kind = "whole" THEN reviews ELSE Whole(NoEvents)

With(events, e, status) ==
    [x \in DOMAIN events \cup {e} |-> IF x = e THEN status ELSE events[x]]

\* Mutant: create() keeps the pending events only.
CreatePending(c) ==
    /\ at[c] = "idle" /\ Overlaps /\ PutAside
    /\ LET open == {e \in DOMAIN Stored : Stored[e] = "pending"}
       IN  copy' = [copy EXCEPT ![c] = With([e \in open |-> "pending"], c, "pending")]
    /\ at' = [at EXCEPT ![c] = "changed"]
    /\ UNCHANGED <<tmp, asked, created, decided>>

\* create()
Create(c) ==
    /\ at[c] = "idle" /\ Overlaps /\ PutAside
    /\ copy' = [copy EXCEPT ![c] = With(Stored, c, "pending")]
    /\ at' = [at EXCEPT ![c] = "changed"]
    /\ UNCHANGED <<tmp, asked, created, decided>>

\* Mutant: a decided event may be decided again.
DecideAgain(r, e, status) ==
    /\ at[r] = "idle" /\ Overlaps /\ PutAside
    /\ asked' = [asked EXCEPT ![r] = [event |-> e, status |-> status]]
    /\ IF e \in DOMAIN Stored
       THEN /\ copy' = [copy EXCEPT ![r] = With(Stored, e, status)]
            /\ at' = [at EXCEPT ![r] = "changed"]
       ELSE at' = [at EXCEPT ![r] = "over"] /\ UNCHANGED copy
    /\ UNCHANGED <<tmp, created, decided>>

\* _set_status(): an unknown event is answered with None, one that was decided
\* otherwise with an error.
Decide(r, e, status) ==
    /\ at[r] = "idle" /\ Overlaps /\ PutAside
    /\ asked' = [asked EXCEPT ![r] = [event |-> e, status |-> status]]
    /\ IF e \in DOMAIN Stored /\ Stored[e] \in {"pending", status}
       THEN /\ copy' = [copy EXCEPT ![r] = With(Stored, e, status)]
            /\ at' = [at EXCEPT ![r] = "changed"]
       ELSE at' = [at EXCEPT ![r] = "over"] /\ UNCHANGED copy
    /\ UNCHANGED <<tmp, created, decided>>

\* _write: the temporary file is opened, which empties it, ...
OpenTmp(a) ==
    /\ at[a] = "changed" /\ at' = [at EXCEPT ![a] = "opened"]
    /\ tmp' = [tmp EXCEPT ![TmpName(a)] = Half]
    /\ UNCHANGED <<reviews, copy, asked, past>>

\* ... written ...
FillTmp(a) ==
    /\ at[a] = "opened" /\ at' = [at EXCEPT ![a] = "written"]
    /\ tmp' = [tmp EXCEPT ![TmpName(a)] = Whole(copy[a])]
    /\ UNCHANGED <<reviews, copy, asked, past>>

\* ... and replaces the file; the operation returns.
Replace(a) ==
    /\ at[a] = "written" /\ at' = [at EXCEPT ![a] = "over"]
    /\ tmp[TmpName(a)] # Missing
    /\ reviews' = tmp[TmpName(a)] /\ tmp' = [tmp EXCEPT ![TmpName(a)] = Missing]
    /\ IF a \in Creators
       THEN created' = created \cup {a} /\ UNCHANGED decided
       ELSE decided' = decided \cup {asked[a]} /\ UNCHANGED created
    /\ UNCHANGED <<copy, asked, overlapped>>

\* The process dies, and leaves its temporary file behind.
CommandDies(a) ==
    /\ at[a] \notin {"idle", "over"} /\ at' = [at EXCEPT ![a] = "over"]
    /\ UNCHANGED <<reviews, tmp, copy, asked, past>>

ReviewNext ==
    \/ \E c \in Creators : Create(c)
    \/ \E r \in Reviewers, e \in Creators, status \in {"approved", "rejected"} :
          Decide(r, e, status)
    \/ \E a \in People : OpenTmp(a) \/ FillTmp(a) \/ Replace(a) \/ CommandDies(a)

ReviewSpec == ReviewInit /\ [][ReviewNext]_rvars

-----------------------------------------------------------------------------
(* Properties                                                               *)

\* Whatever interleaves or dies, no reader ever finds half a file (review_events.py:115);
\* and while operations come one after the other, also with crashes in them, an
\* event whose create() returned stays in the file, and is decided once: nobody
\* reverses a decision that returned (review_events.py:70).  Operations that
\* overlap may lose one another's events, for nothing is locked.
ReviewsKept ==
    /\ reviews.kind = "whole"
    /\ ~overlapped =>
        /\ \A c \in created : c \in DOMAIN reviews.events
        /\ \A d \in decided : reviews.events[d.event] = d.status

=============================================================================
