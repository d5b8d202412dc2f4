--------------------------- MODULE EvidenceLedger ---------------------------
(***************************************************************************)
(* The evidence ledger of one run, spider_qwen/evidence/ledger.py: the rows  *)
(* in memory with their hash chain, the write-ahead log each record() is     *)
(* appended to, and the canonical file persist() publishes with a tree head. *)
(*                                                                          *)
(* sha256 is taken to be injective.  A chain hash is then the sequence of    *)
(* row contents it binds, the root of the Merkle log the sequence of its     *)
(* leaves, and a signature the head that was signed.                         *)
(*                                                                          *)
(* The run that drew the id creates the ledger, records, annotates and then  *)
(* persists it.  A ledger may also be loaded again, and written to after it was *)
(* loaded or persisted, which the class supports though no run does it.        *)
(***************************************************************************)
EXTENDS Naturals, Sequences

CONSTANTS
    MaxRows,     \* bound: rows ever recorded
    MaxNotes,    \* bound: annotations of a row
    MaxHeads,    \* bound: tree heads computed
    MaxFaults    \* bound: writes that fail

ASSUME EvidenceLedgerAssumption ==
    /\ MaxRows \in Nat /\ MaxNotes \in Nat /\ MaxHeads \in Nat /\ MaxFaults \in Nat

VARIABLES
    \* the process: whether it has a ledger, its rows, _chain_stale, the tree
    \* head it was loaded with or persisted, and that head's signature
    open, items, stale, head, signed,
    \* whether persist() has replaced the file but not yet removed the log
    replaced,
    \* <run_id>.ledger.wal.jsonl: its lines, and how the last one ends
    wal, tail,
    \* <run_id>.ledger.json, if it exists
    file,
    \* the environment: whether the run id was used, rows and heads made so far,
    \* the rows whose record() returned while the log was whole and there was no
    \* file, failed writes
    used, rows, heads, acked, faults

memory == <<open, items, stale, head, signed, replaced>>
disk == <<wal, tail, file>>
vars == <<memory, disk, used, rows, heads, acked, faults>>

NoHead == [leaves |-> <<>>, stamp |-> 0]
NoFile == [exists |-> FALSE, items |-> <<>>, head |-> NoHead, signed |-> NoHead]
Garbage == [id |-> 0, note |-> 0]   \* a line of the log that does not parse

\* content_digest, and the hash chain over a sequence of rows.
Content(row) == [id |-> row.id, note |-> row.note]
Contents(s) == [i \in DOMAIN s |-> Content(s[i])]
Link(row, parent) ==
    [id |-> row.id, note |-> row.note, parent |-> parent, hash |-> Append(parent, Content(row))]
Tip(s) == IF s = <<>> THEN <<>> ELSE s[Len(s)].hash
Leaves(s) == [i \in DOMAIN s |-> s[i].hash]

\* _seal_chain over every row, and only if an annotation made the chain stale.
Sealed(s) == [i \in DOMAIN s |-> Link(s[i], SubSeq(Contents(s), 1, i - 1))]
Current == IF stale THEN Sealed(items) ELSE items

\* verify_chain finds no issue.
ChainHolds(s) == \A i \in DOMAIN s : s[i] = Link(s[i], Tip(SubSeq(s, 1, i - 1)))

\* load() refuses a file that its tree head, or its chain, contradicts.
Accepted(f) == (f.head # NoHead => f.head.leaves = Leaves(f.items)) /\ ChainHolds(f.items)

\* The rows of the log up to the first line that does not parse.
Replayed == SubSeq(wal, 1, CHOOSE n \in 0..Len(wal) :
                /\ \A i \in 1..n : wal[i] # Garbage
                /\ n = Len(wal) \/ wal[n + 1] = Garbage)

\* What load() returns: the file if there is one, or else the log.
Loaded == IF file.exists THEN file.items ELSE Sealed(Replayed)

\* The log holds whole lines only: no crash or failed write has cut one.
LogWhole == tail = "clean" /\ Garbage \notin {wal[i] : i \in DOMAIN wal}

Writable == open /\ ~replaced
Fault == faults < MaxFaults /\ faults' = faults + 1
Closed == open' = FALSE /\ items' = <<>> /\ stale' = FALSE /\ head' = NoHead
          /\ signed' = NoHead /\ replaced' = FALSE

Init ==
    /\ open = FALSE /\ items = <<>> /\ stale = FALSE /\ head = NoHead /\ signed = NoHead
    /\ replaced = FALSE
    /\ wal = <<>> /\ tail = "clean" /\ file = NoFile
    /\ used = FALSE /\ rows = 0 /\ heads = 0 /\ acked = {} /\ faults = 0

-----------------------------------------------------------------------------
(* Opening                                                                  *)

\* EvidenceLedger(run_id, state_dir), by the run that drew the id.
Create ==
    /\ ~open /\ ~used
    /\ open' = TRUE /\ used' = TRUE
    /\ UNCHANGED <<items, stale, head, signed, replaced, disk, rows, heads, acked, faults>>

\* Mutant: the log is preferred to the file.
LoadLogFirst ==
    /\ ~open /\ used
    /\ open' = TRUE /\ stale' = FALSE /\ replaced' = FALSE
    /\ items' = IF wal # <<>> THEN Sealed(Replayed) ELSE file.items
    /\ head' = IF wal # <<>> THEN NoHead ELSE file.head
    /\ signed' = IF wal # <<>> THEN NoHead ELSE file.signed
    /\ UNCHANGED <<disk, used, rows, heads, acked, faults>>

Load ==
    /\ ~open /\ used /\ Accepted(file)
    /\ open' = TRUE /\ stale' = FALSE /\ replaced' = FALSE
    /\ items' = Loaded /\ head' = file.head /\ signed' = file.signed
    /\ UNCHANGED <<disk, used, rows, heads, acked, faults>>

-----------------------------------------------------------------------------
(* Writing                                                                  *)

Chained(row) == Append(Current, Link(row, Tip(Current)))
NewRow == [id |-> rows + 1, note |-> 0]

\* A line is appended in whatever way the last one ended: after half a line the
\* two make one that does not parse.
Written(row) ==
    CASE tail = "clean" -> Append(wal, row)
      [] tail = "cut"   -> Append(wal, Garbage)
      [] tail = "whole" -> [wal EXCEPT ![Len(wal)] = Garbage]

\* Part of a line is appended, or all of it but the newline.
TornBy(row) ==
    \/ tail' = "cut" /\ wal' = IF tail = "whole" THEN SubSeq(wal, 1, Len(wal) - 1) ELSE wal
    \/ tail = "clean" /\ tail' = "whole" /\ wal' = Append(wal, row)

\* Mutant: the row is linked to the tip without sealing the chain first.
RecordUnsealed ==
    /\ Writable /\ rows < MaxRows
    /\ rows' = rows + 1
    /\ items' = Append(items, Link(NewRow, Tip(items))) /\ stale' = FALSE
    /\ wal' = Written(NewRow) /\ tail' = "clean"
    /\ acked' = IF ~file.exists /\ LogWhole THEN acked \cup {rows + 1} ELSE acked
    /\ UNCHANGED <<open, head, signed, replaced, file, used, heads, faults>>

Record ==
    /\ Writable /\ rows < MaxRows
    /\ rows' = rows + 1
    /\ items' = Chained(NewRow) /\ stale' = FALSE
    /\ wal' = Written(NewRow) /\ tail' = "clean"
    /\ acked' = IF ~file.exists /\ LogWhole THEN acked \cup {rows + 1} ELSE acked
    /\ UNCHANGED <<open, head, signed, replaced, file, used, heads, faults>>

\* The append fails after some of its bytes, or none, or only the fsync after all
\* of them does: record() raises, but the row stays in memory.
RecordError ==
    /\ Writable /\ rows < MaxRows /\ Fault
    /\ rows' = rows + 1
    /\ items' = Chained(NewRow) /\ stale' = FALSE
    /\ \/ TornBy(NewRow)
       \/ UNCHANGED <<wal, tail>>
       \/ wal' = Written(NewRow) /\ tail' = "clean"
    /\ UNCHANGED <<open, head, signed, replaced, file, used, heads, acked>>

\* Mutant: rows a published head covers may be annotated.
AnnotateCommitted(i) ==
    /\ Writable /\ i \in DOMAIN items
    /\ items[i].note < MaxNotes
    /\ items' = [items EXCEPT ![i].note = @ + 1]
    /\ stale' = TRUE
    /\ UNCHANGED <<open, head, signed, replaced, disk, used, rows, heads, acked, faults>>

\* annotate(): refused for the rows the published tree head covers.
Annotate(i) ==
    /\ Writable /\ i \in DOMAIN items
    /\ i > Len(head.leaves)
    /\ items[i].note < MaxNotes
    /\ items' = [items EXCEPT ![i].note = @ + 1]
    /\ stale' = TRUE
    /\ UNCHANGED <<open, head, signed, replaced, disk, used, rows, heads, acked, faults>>

\* transparency_log, verify_chain and the proofs seal a stale chain.
Seal ==
    /\ open /\ stale
    /\ items' = Sealed(items) /\ stale' = FALSE
    /\ UNCHANGED <<open, head, signed, replaced, disk, used, rows, heads, acked, faults>>

-----------------------------------------------------------------------------
(* Publishing                                                               *)

\* The head of the present rows: the one published before if it still fits.
NextHead(s) == IF s = <<>> THEN head
               ELSE IF head.leaves = Leaves(s) THEN head
               ELSE [leaves |-> Leaves(s), stamp |-> heads + 1]

\* Mutant: without a key the old signature stays, whatever it signs.
SignatureKept(h, key) == IF key THEN h ELSE signed

\* Its signature, with or without a key: a signature of an unchanged head stays.
Signature(h, key) == IF key THEN h ELSE IF signed = h THEN signed ELSE NoHead

\* persist(): seal, keep or make the head, write, replace the file ...
Persist(key) ==
    /\ open /\ ~replaced /\ heads < MaxHeads
    /\ LET h == NextHead(Current) IN
       /\ heads' = IF h = head THEN heads ELSE heads + 1
       /\ items' = Current /\ stale' = FALSE /\ head' = h /\ signed' = Signature(h, key)
       /\ file' = [exists |-> TRUE, items |-> Current, head |-> h, signed |-> Signature(h, key)]
    /\ replaced' = TRUE
    /\ UNCHANGED <<open, wal, tail, used, rows, acked, faults>>

\* Mutant: the log is removed before the file is replaced.
PersistUnlinkEarly ==
    /\ open /\ ~replaced
    /\ wal' = <<>> /\ tail' = "clean"
    /\ UNCHANGED <<memory, file, used, rows, heads, acked, faults>>

\* ... and only then remove the log.
PersistUnlink ==
    /\ open /\ replaced
    /\ wal' = <<>> /\ tail' = "clean" /\ replaced' = FALSE
    /\ UNCHANGED <<open, items, stale, head, signed, file, used, rows, heads, acked, faults>>

\* The file cannot be written: the head is kept in memory all the same.  If it is
\* the signing key that cannot be read, the signature of the head before it is
\* kept too.
PersistError(key) ==
    /\ open /\ ~replaced /\ heads < MaxHeads /\ Fault
    /\ LET h == NextHead(Current) IN
       /\ heads' = IF h = head THEN heads ELSE heads + 1
       /\ items' = Current /\ stale' = FALSE /\ head' = h
       /\ signed' \in {Signature(h, key), signed}
    /\ UNCHANGED <<open, replaced, disk, used, rows, acked>>

-----------------------------------------------------------------------------
(* The process ends, in the middle of an append perhaps.                    *)

Crash ==
    /\ open /\ Closed
    /\ UNCHANGED <<disk, used, rows, heads, acked, faults>>

CrashInAppend ==
    /\ Writable /\ rows < MaxRows
    /\ rows' = rows + 1
    /\ TornBy(NewRow)
    /\ Closed
    /\ UNCHANGED <<file, used, heads, acked, faults>>

-----------------------------------------------------------------------------
Next ==
    \/ Create \/ Load \/ Record \/ RecordError
    \/ \E i \in 1..MaxRows : Annotate(i)
    \/ Seal \/ PersistUnlink
    \/ \E key \in BOOLEAN : Persist(key) \/ PersistError(key)
    \/ Crash \/ CrashInAppend

Spec == Init /\ [][Next]_vars

-----------------------------------------------------------------------------
(* Properties                                                               *)

(* load() never refuses a file persist() wrote, the file holds the head of its  *)
(* rows, and its signature, if any, is of that head: lazy sealing, later records  *)
(* and repeated persists do not leave a chain that looks tampered with.         *)
LoadAccepts == Accepted(file) /\ file.signed \in {NoHead, file.head}

(* The rows a published head covers are the ones its leaves bind, for as long  *)
(* as the ledger is open: no annotation and no reseal rewrites them.           *)
CommittedPrefixHolds ==
    open => /\ Len(head.leaves) <= Len(items)
            /\ \A i \in 1..Len(head.leaves) : Current[i].hash = head.leaves[i]

(* What is published is sound: the file on disk, and the rows in memory that it  *)
(* covers.                                                                    *)
PublishedIsSound == LoadAccepts /\ CommittedPrefixHolds

(* What an outsider may have recorded stays true: the published head is kept,  *)
(* timestamp, signature and all, or extended by more rows.                     *)
PublishedHeadStands ==
    [][file.head # NoHead =>
         \/ file'.head = file.head /\ (file.signed # NoHead => file'.signed = file.signed)
         \/ /\ Len(file'.head.leaves) > Len(file.head.leaves)
            /\ SubSeq(file'.head.leaves, 1, Len(file.head.leaves)) = file.head.leaves]_vars

(* "Evidence must survive a crash mid-run, not only the end-of-run persist()"   *)
(* (ledger.py:229): a row whose record() returned is in whatever load() returns, *)
(* through crashes, reloads, failed writes and persists.  Not so for a row that   *)
(* is appended after the file exists, which only a reloaded ledger does, or       *)
(* after a line of the log that was cut.                                       *)
RecordedSurvives == \A n \in acked : \E i \in DOMAIN Loaded : Loaded[i].id = n

=============================================================================
