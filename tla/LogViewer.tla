------------------------------ MODULE LogViewer ------------------------------
(***************************************************************************)
(* The log of a job from its upload to the screen: what the server keeps   *)
(* of it (processLog), the end of it that is sent (getJobLog), the request *)
(* with its timeout and retries (api/client.ts, the query's options), and  *)
(* the rows, their numbers and the stepping through errors of the dialog   *)
(* (LogViewerModal).  New logs arrive and events refetch at any time.      *)
(***************************************************************************)
EXTENDS Integers, FiniteSets

CONSTANTS
    NULL,
    Uploads,       \* logs: a number of lines, those with an error, those not ended by LF
    MaxLogLines,   \* what the server keeps of a log
    Tail,          \* defaultLogTail, what it sends unless asked for all
    Retries,       \* attempts after the first, 3 in DEFAULT_QUERY_OPTIONS
    MaxChanges     \* bound: uploads and removals

ASSUME ViewerAssumption ==
    /\ Uploads \subseteq [lines : Nat, errors : SUBSET Nat, noLF : SUBSET Nat]
    /\ {MaxLogLines, Tail} \subseteq Nat \ {0} /\ {Retries, MaxChanges} \subseteq Nat
    /\ NULL \notin [first : Int, last : Nat, upload : Uploads]
    /\ NULL \notin [first : Int, last : Nat, truncated : BOOLEAN, total : Nat, upload : Uploads]

VARIABLES
    log,       \* the stored log, NULL when the job is gone: a line is its number in the upload
    isOpen, showAll, currentErrorIndex,            \* of the dialog on the job's card
    data, error, fetch, answer, failureCount,      \* of the queries for the tail and for all
    changes

dialog == <<isOpen, showAll, currentErrorIndex>>
queries == <<data, error, fetch, answer, failureCount>>
vars == <<log, dialog, queries, changes>>

Keys == {"tail", "all"}
Key == IF showAll THEN "all" ELSE "tail"

-----------------------------------------------------------------------------
(* The server: lines first..last of an upload.                             *)

ProcessLog(upload) ==
    LET truncated == upload.lines > MaxLogLines
    IN  [first |-> IF truncated THEN upload.lines - MaxLogLines + 1 ELSE 1, last |-> upload.lines,
         truncated |-> truncated, upload |-> upload]

\* Seeded fault: the total is what is sent, not what is stored.
GetJobLogSent(all) ==
    LET total == log.last - log.first + 1
        truncated == ~all /\ total > Tail
        sent == IF truncated THEN Tail ELSE total
    IN  [first |-> log.last - sent + 1, last |-> log.last, truncated |-> truncated,
         total |-> sent, upload |-> log.upload]

GetJobLog(all) ==
    LET total == log.last - log.first + 1
        truncated == ~all /\ total > Tail
        sent == IF truncated THEN Tail ELSE total
    IN  [first |-> log.last - sent + 1, last |-> log.last, truncated |-> truncated,
         total |-> total, upload |-> log.upload]

-----------------------------------------------------------------------------
(* What the dialog shows.  It splits at LF only, the server at every line  *)
(* end; a row is named by the last of the lines it holds.                  *)

RowsOf(d) == IF d = NULL THEN {}
             ELSE {n \in d.first..d.last : n \notin d.upload.noLF \/ n = d.last}

Index(d, row) == Cardinality({r \in RowsOf(d) : r < row})

ErrorRows(d) ==
    {row \in RowsOf(d) : \E n \in d.upload.errors :
        /\ d.first <= n /\ n <= row
        /\ \A r \in RowsOf(d) : r < row => r < n}

Clamped(n) == IF n > 0 THEN n ELSE 0

LineNumber(d, row) ==
    LET baseLine == IF d.truncated /\ ~showAll THEN Clamped(d.total - Cardinality(RowsOf(d))) ELSE 0
    IN  baseLine + Index(d, row) + 1

Shown == data[Key]
IsLoading == Shown = NULL /\ fetch[Key] # "idle"

\* What is shown, but for its numbers: the same text makes for the same rows.
Text(d) == IF d = NULL THEN NULL ELSE [first |-> d.first, last |-> d.last, upload |-> d.upload]

\* Seeded fault: the position among the errors survives a new log.
KeepErrorIndex(d) == UNCHANGED currentErrorIndex

\* The effect on new lines.
ResetErrorIndex(d) ==
    currentErrorIndex' = IF Text(d) # Text(Shown) THEN -1 ELSE currentErrorIndex

-----------------------------------------------------------------------------
Init ==
    /\ \E upload \in Uploads : log = ProcessLog(upload)
    /\ isOpen = FALSE /\ showAll = FALSE /\ currentErrorIndex = -1
    /\ data = [k \in Keys |-> NULL] /\ error = [k \in Keys |-> FALSE]
    /\ fetch = [k \in Keys |-> "idle"] /\ answer = [k \in Keys |-> NULL]
    /\ failureCount = [k \in Keys |-> 0]
    /\ changes = 0

Upload ==
    /\ changes < MaxChanges /\ changes' = changes + 1
    /\ \E upload \in Uploads : log' = ProcessLog(upload)
    /\ UNCHANGED <<dialog, queries>>

Remove ==
    /\ log # NULL
    /\ changes < MaxChanges /\ changes' = changes + 1
    /\ log' = NULL
    /\ UNCHANGED <<dialog, queries>>

-----------------------------------------------------------------------------
(* A request and its retries.                                              *)

\* A fetch of k begins; without data its error is forgotten.
Start(k) ==
    /\ fetch' = [fetch EXCEPT ![k] = "sent"] /\ answer' = [answer EXCEPT ![k] = NULL]
    /\ failureCount' = [failureCount EXCEPT ![k] = 0]
    /\ error' = [error EXCEPT ![k] = @ /\ data[k] # NULL]
    /\ UNCHANGED data

End(k) == fetch' = [fetch EXCEPT ![k] = "idle"] /\ answer' = [answer EXCEPT ![k] = NULL]

\* Headers stop the timer; the body may take for ever.
Headers(k) ==
    /\ fetch[k] = "sent" /\ log # NULL
    /\ fetch' = [fetch EXCEPT ![k] = "body"]
    /\ answer' = [answer EXCEPT ![k] = GetJobLog(k = "all")]
    /\ UNCHANGED <<log, dialog, data, error, failureCount, changes>>

Body(k) ==
    /\ fetch[k] = "body"
    /\ data' = [data EXCEPT ![k] = answer[k]] /\ error' = [error EXCEPT ![k] = FALSE]
    /\ End(k)
    /\ IF k = Key THEN ResetErrorIndex(answer[k]) ELSE UNCHANGED currentErrorIndex
    /\ UNCHANGED <<log, isOpen, showAll, failureCount, changes>>

Fails(k) == error' = [error EXCEPT ![k] = TRUE] /\ End(k) /\ UNCHANGED failureCount

\* 404 when there is no log, or the timeout's 408: not retried.
ClientError(k) ==
    /\ fetch[k] = "sent"
    /\ Fails(k)
    /\ UNCHANGED <<log, dialog, data, changes>>

\* Seeded fault: there is no end to the retries.
TransientErrorForEver(k) ==
    /\ fetch[k] \in {"sent", "body"}
    /\ fetch' = [fetch EXCEPT ![k] = "delay"] /\ answer' = [answer EXCEPT ![k] = NULL]
    /\ UNCHANGED <<log, dialog, data, error, failureCount, changes>>

\* A 5xx, a malformed or broken body, no network: retried so many times.
TransientError(k) ==
    /\ fetch[k] \in {"sent", "body"}
    /\ \/ /\ failureCount[k] < Retries
          /\ failureCount' = [failureCount EXCEPT ![k] = @ + 1]
          /\ fetch' = [fetch EXCEPT ![k] = "delay"] /\ answer' = [answer EXCEPT ![k] = NULL]
          /\ UNCHANGED error
       \/ failureCount[k] >= Retries /\ Fails(k)
    /\ UNCHANGED <<log, dialog, data, changes>>

\* After the delay; a query that is not observed any more gives up.
Retry(k) ==
    /\ fetch[k] = "delay"
    /\ \/ k = Key /\ fetch' = [fetch EXCEPT ![k] = "sent"] /\ UNCHANGED <<error, answer, failureCount>>
       \/ k # Key /\ Fails(k)
    /\ UNCHANGED <<log, dialog, data, changes>>

-----------------------------------------------------------------------------
(* The user, and the rest of the page.                                     *)

\* Data older than 30 seconds, or none, is fetched when the dialog asks for it.
Wanted(k) ==
    \/ fetch[k] = "idle" /\ Start(k)
    \/ (fetch[k] # "idle" \/ data[k] # NULL) /\ UNCHANGED queries

\* showAll is as it was left: only another job resets it.
Open ==
    /\ ~isOpen
    /\ isOpen' = TRUE
    /\ Wanted(Key)
    /\ UNCHANGED <<log, showAll, currentErrorIndex, changes>>

Close ==
    /\ isOpen
    /\ isOpen' = FALSE
    /\ UNCHANGED <<log, showAll, currentErrorIndex, queries, changes>>

ShowAll ==
    /\ isOpen /\ ~showAll /\ ~IsLoading
    /\ Shown # NULL /\ Shown.truncated
    /\ showAll' = TRUE
    /\ Wanted("all")
    /\ ResetErrorIndex(data["all"])
    /\ UNCHANGED <<log, isOpen, changes>>

RetryButton ==
    /\ isOpen /\ error[Key] /\ fetch[Key] = "idle"
    /\ Start(Key)
    /\ UNCHANGED <<log, dialog, changes>>

Jump ==
    LET last == Cardinality(ErrorRows(Shown)) - 1
        next == IF currentErrorIndex < last THEN currentErrorIndex + 1 ELSE 0
        prev == IF currentErrorIndex > 0 THEN currentErrorIndex - 1 ELSE last
    IN  /\ isOpen /\ ~IsLoading
        /\ \/ last >= 0 /\ currentErrorIndex' \in {next, prev}
           \/ Shown # NULL /\ currentErrorIndex' = -1      \* to the top or the bottom
        /\ UNCHANGED <<log, isOpen, showAll, queries, changes>>

\* An event, a settled mutation or the window's focus.
Refetch ==
    /\ isOpen /\ (fetch[Key] = "idle" \/ Shown # NULL)
    /\ Start(Key)
    /\ UNCHANGED <<log, dialog, changes>>

\* A mutation cancels the fetches under ["jobs"]; the dialog keeps one from being clicked.
Cancel ==
    /\ ~isOpen /\ \E k \in Keys : fetch[k] # "idle"
    /\ fetch' = [k \in Keys |-> "idle"] /\ answer' = [k \in Keys |-> NULL]
    /\ UNCHANGED <<log, dialog, data, error, failureCount, changes>>

\* The card leaves the list, and comes back as new.
Unmount ==
    /\ isOpen' = FALSE /\ showAll' = FALSE /\ currentErrorIndex' = -1
    /\ UNCHANGED <<log, queries, changes>>

Next ==
    \/ Upload \/ Remove
    \/ \E k \in Keys : Headers(k) \/ Body(k) \/ ClientError(k) \/ TransientError(k) \/ Retry(k)
    \/ Open \/ Close \/ ShowAll \/ RetryButton \/ Jump \/ Refetch \/ Cancel \/ Unmount

Answered(k) == fetch[k] = "sent" /\ (Headers(k) \/ ClientError(k) \/ TransientError(k))

\* The timer ends a request without headers, and the delay before a retry ends.  Nothing
\* bounds the body.
Spec ==
    /\ Init /\ [][Next]_vars
    /\ \A k \in Keys : WF_vars(Answered(k)) /\ WF_vars(Retry(k))

-----------------------------------------------------------------------------
(* Properties.                                                             *)

\* The state is well formed; in particular the position among the errors is one of the log
\* on the screen, whatever log a refetch has put in its place (LogViewerModal.tsx:117).
ViewerTypeOK ==
    /\ log # NULL => log.upload \in Uploads
    /\ currentErrorIndex \in -1..(Cardinality(ErrorRows(Shown)) - 1)
    /\ \A k \in Keys :
          /\ fetch[k] \in {"idle", "sent", "body", "delay"}
          /\ answer[k] # NULL <=> fetch[k] = "body"
          /\ failureCount[k] \in 0..Retries
          /\ data[k] # NULL => data[k].upload \in Uploads

\* The number beside a row is the place, in the stored log, of the line it shows, in the tail
\* as in the whole, and the stored log is the end of the upload, as much as the server may
\* keep (LogViewerModal.tsx:423, status.go:205); for a log whose lines all end with LF.
NumbersArePlaces ==
    Shown # NULL /\ Shown.upload.noLF = {} =>
        \A row \in RowsOf(Shown) :
            LineNumber(Shown, row) = row - Clamped(Shown.upload.lines - MaxLogLines)

\* A dialog does not say "Loading logs..." for ever, unless the server has sent headers and
\* never the rest (client.ts:48).
LoadingEnds == isOpen /\ IsLoading ~> ~IsLoading \/ ~isOpen \/ fetch[Key] = "body"
=============================================================================
