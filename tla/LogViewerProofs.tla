--------------------------- MODULE LogViewerProofs ---------------------------
(***************************************************************************)
(* Theorems of LogViewer, for logs of any length and any limits of the     *)
(* server: the number beside a line is its place in the stored log, and    *)
(* the position among the errors is one of the log that is shown.          *)
(***************************************************************************)
EXTENDS LogViewer, FiniteSetTheorems, TLAPS

-----------------------------------------------------------------------------
(* What the server keeps and sends.                                        *)

\* The lines kept of an upload, and those of them sent.
Total(upload) == IF upload.lines > MaxLogLines THEN MaxLogLines ELSE upload.lines
Sent(upload, all) == IF ~all /\ Total(upload) > Tail THEN Tail ELSE Total(upload)

Answer == [first : Int, last : Nat, truncated : BOOLEAN, total : Nat, upload : Uploads]

\* An answer holds the end of the upload.
IsAnswer(d, all) ==
    /\ d \in Answer
    /\ d.last = d.upload.lines /\ d.total = Total(d.upload)
    /\ d.truncated <=> ~all /\ d.total > Tail
    /\ d.first = d.last - Sent(d.upload, all) + 1

\* The server answers with the end of what it keeps.
LEMMA AnswerIs ==
    ASSUME NEW upload \in Uploads, log = ProcessLog(upload), NEW all \in BOOLEAN
    PROVE  IsAnswer(GetJobLog(all), all)
<1> DEFINE n == upload.lines
<1>1. n \in Nat /\ MaxLogLines \in Nat /\ Tail \in Nat
  BY ViewerAssumption
<1>2. log.upload = upload /\ log.last = n /\ log.first = IF n > MaxLogLines THEN n - MaxLogLines + 1 ELSE 1
  BY DEF ProcessLog
<1>3. log.last - log.first + 1 = Total(upload)
  BY <1>1, <1>2 DEF Total
<1>4. GetJobLog(all) = [first |-> n - Sent(upload, all) + 1, last |-> n,
                        truncated |-> ~all /\ Total(upload) > Tail,
                        total |-> Total(upload), upload |-> upload]
  BY <1>2, <1>3 DEF GetJobLog, Sent
<1>5. Total(upload) \in Nat /\ Sent(upload, all) \in Nat
  BY <1>1 DEF Total, Sent
<1> DEFINE d == GetJobLog(all)
<1>6. /\ d.first = n - Sent(upload, all) + 1 /\ d.last = n /\ d.total = Total(upload)
      /\ d.upload = upload /\ d.truncated = (~all /\ Total(upload) > Tail)
  BY <1>4
<1>7. n - Sent(upload, all) + 1 \in Int
  BY <1>1, <1>5
<1>8. d \in Answer
  BY <1>1, <1>4, <1>5, <1>7 DEF Answer
<1>9. d.last = d.upload.lines /\ d.total = Total(d.upload)
  BY <1>6
<1>10. d.truncated <=> ~all /\ d.total > Tail
  BY <1>6
<1>11. d.first = d.last - Sent(d.upload, all) + 1
  BY <1>6
<1> QED
  BY <1>8, <1>9, <1>10, <1>11 DEF IsAnswer

\* An answer is no NULL, and its text neither.
LEMMA AnswerNotNull ==
    ASSUME NEW d \in Answer
    PROVE  /\ d # NULL
           /\ Text(d) = [first |-> d.first, last |-> d.last, upload |-> d.upload]
           /\ Text(d) # NULL
BY ViewerAssumption DEF Answer, Text

\* The same text has the same errors.
LEMMA SameErrors ==
    ASSUME NEW d, NEW e, d = NULL \/ d \in Answer, e = NULL \/ e \in Answer, Text(d) = Text(e)
    PROVE  ErrorRows(d) = ErrorRows(e)
<1>1. CASE d = NULL
  <2>1. e = NULL
    BY <1>1, AnswerNotNull DEF Text
  <2> QED
    BY <1>1, <2>1
<1>2. CASE d # NULL
  <2>1. e # NULL /\ d.first = e.first /\ d.last = e.last /\ d.upload = e.upload
    BY <1>2, AnswerNotNull DEF Text
  <2>2. RowsOf(d) = RowsOf(e)
    BY <1>2, <2>1 DEF RowsOf
  <2> QED
    BY <2>1, <2>2 DEF ErrorRows
<1> QED
  BY <1>1, <1>2

\* There are finitely many errors.
LEMMA ErrorsFinite ==
    ASSUME NEW d, d = NULL \/ d \in Answer
    PROVE  Cardinality(ErrorRows(d)) \in Nat
<1>1. CASE d = NULL
  <2>1. ErrorRows(d) = {}
    BY <1>1 DEF ErrorRows, RowsOf
  <2> QED
    BY <2>1, FS_EmptySet
<1>2. CASE d \in Answer
  <2>1. IsFiniteSet(d.first..d.last)
    BY <1>2, FS_Interval DEF Answer
  <2>2. ErrorRows(d) \subseteq d.first..d.last
    BY <1>2, AnswerNotNull DEF ErrorRows, RowsOf
  <2>3. IsFiniteSet(ErrorRows(d))
    BY <2>1, <2>2, FS_Subset
  <2> QED
    BY <2>3, FS_CardinalityType
<1> QED
  BY <1>1, <1>2

-----------------------------------------------------------------------------
(* The number of a row.                                                    *)

\* In an answer every line of which ends in LF, the number of a row is its place in what the
\* server keeps, whether the tail is shown or the whole.
LEMMA NumberIsPlace ==
    ASSUME NEW d, IsAnswer(d, showAll), d.upload.noLF = {}, NEW row \in RowsOf(d), showAll \in BOOLEAN
    PROVE  LineNumber(d, row) = row - Clamped(d.upload.lines - MaxLogLines)
<1> DEFINE n == d.upload.lines
           sent == Sent(d.upload, showAll)
           total == Total(d.upload)
<1>1. n \in Nat /\ MaxLogLines \in Nat \ {0} /\ Tail \in Nat \ {0} /\ d # NULL
  BY ViewerAssumption, AnswerNotNull DEF IsAnswer, Answer
<1>2. /\ d.last = n /\ d.total = total /\ d.first = n - sent + 1
      /\ d.truncated <=> ~showAll /\ total > Tail
  BY DEF IsAnswer
<1>3. total \in Nat /\ sent \in Nat
  BY <1>1 DEF Total, Sent
<1>4. RowsOf(d) = (n - sent + 1)..n
  BY <1>1, <1>2 DEF RowsOf
<1>5. total = (IF n > MaxLogLines THEN MaxLogLines ELSE n) /\ sent = IF ~showAll /\ total > Tail THEN Tail ELSE total
  BY DEF Total, Sent
<1> HIDE DEF n, sent, total
<1>6. Cardinality(RowsOf(d)) = sent
  <2>1. n - sent + 1 \in Int
    BY <1>1, <1>3
  <2>2. Cardinality((n - sent + 1)..n) = IF n - sent + 1 > n THEN 0 ELSE n - (n - sent + 1) + 1
    BY <1>1, <2>1, FS_Interval
  <2> QED
    BY <1>1, <1>3, <1>4, <2>2
<1>7. Index(d, row) = row - (n - sent + 1)
  <2>1. {r \in RowsOf(d) : r < row} = (n - sent + 1)..(row - 1)
    BY <1>1, <1>3, <1>4
  <2>2. n - sent + 1 \in Int /\ row - 1 \in Int /\ row >= n - sent + 1
    BY <1>1, <1>3, <1>4
  <2>3. Cardinality((n - sent + 1)..(row - 1)) =
            IF n - sent + 1 > row - 1 THEN 0 ELSE (row - 1) - (n - sent + 1) + 1
    BY <2>2, FS_Interval
  <2>4. Index(d, row) = Cardinality((n - sent + 1)..(row - 1))
    BY <2>1 DEF Index
  <2>5. row \in Int
    BY <1>1, <1>3, <1>4
  <2> QED
    BY <1>1, <1>3, <2>2, <2>3, <2>4, <2>5
<1>8. row \in Int
  BY <1>1, <1>3, <1>4
<1>9. LineNumber(d, row) = (IF total > Tail /\ ~showAll THEN Clamped(total - sent) ELSE 0) + (row - (n - sent + 1)) + 1
  BY <1>2, <1>6, <1>7 DEF LineNumber
<1>10. n = d.upload.lines
  BY DEF n
<1> QED
  BY <1>1, <1>3, <1>5, <1>8, <1>9, <1>10 DEF Clamped

-----------------------------------------------------------------------------
(* The invariant.                                                          *)

\* The log is what the server keeps of some upload.
LogInv == log = NULL \/ \E upload \in Uploads : log = ProcessLog(upload)

\* What a query holds, and what is under way to it, is an answer of its own kind.
Held(f) ==
    /\ f \in [Keys -> {NULL} \cup Answer]
    /\ \A k \in Keys : f[k] # NULL => IsAnswer(f[k], k = "all")

QueryInv ==
    /\ Held(data) /\ Held(answer)
    /\ fetch \in [Keys -> {"idle", "sent", "body", "delay"}]
    /\ error \in [Keys -> BOOLEAN]
    /\ failureCount \in [Keys -> 0..Retries]
    /\ \A k \in Keys : answer[k] # NULL <=> fetch[k] = "body"

PositionInv == currentErrorIndex \in -1..(Cardinality(ErrorRows(Shown)) - 1)

ViewerInv == LogInv /\ isOpen \in BOOLEAN /\ showAll \in BOOLEAN /\ QueryInv /\ PositionInv

\* The query the dialog asks for is one of the two, and holds nothing or an answer.
LEMMA KeyIs ==
    ASSUME showAll \in BOOLEAN, Held(data)
    PROVE  Key \in Keys /\ (Shown = NULL \/ Shown \in Answer) /\ (Key = "all" <=> showAll)
BY DEF Key, Keys, Shown, Held

\* A change that forgets the position, or leaves it and the text alone, keeps it in range.
LEMMA PositionKept ==
    ASSUME ViewerInv, showAll' \in BOOLEAN, Held(data'),
           \/ currentErrorIndex' = -1
           \/ currentErrorIndex' = currentErrorIndex /\ Text(Shown') = Text(Shown)
    PROVE  PositionInv'
<1>1. (Shown = NULL \/ Shown \in Answer) /\ (Shown' = NULL \/ Shown' \in Answer)
  BY KeyIs DEF ViewerInv, QueryInv, Key, Keys, Shown, Held
<1>2. Cardinality(ErrorRows(Shown')) \in Nat
  BY <1>1, ErrorsFinite
<1>3. CASE currentErrorIndex' = -1
  BY <1>2, <1>3 DEF PositionInv
<1>4. CASE currentErrorIndex' = currentErrorIndex /\ Text(Shown') = Text(Shown)
  <2>1. ErrorRows(Shown') = ErrorRows(Shown)
    BY <1>1, <1>4, SameErrors
  <2> QED
    BY <1>4, <2>1 DEF ViewerInv, PositionInv
<1> QED
  BY <1>3, <1>4

\* A step of a query under way that leaves what the dialog shows alone.
LEMMA PositionAlone ==
    ASSUME ViewerInv, UNCHANGED <<showAll, data, currentErrorIndex>>
    PROVE  PositionInv'
BY DEF ViewerInv, PositionInv, Shown, Key

\* The server has a log, no query has been asked, no position taken.
LEMMA InitViewerInv == Init => ViewerInv
<1> SUFFICES ASSUME Init PROVE ViewerInv
  OBVIOUS
<1>1. LogInv /\ isOpen \in BOOLEAN /\ showAll \in BOOLEAN
  BY DEF Init, LogInv
<1>2. QueryInv
  BY ViewerAssumption DEF Init, QueryInv, Held
<1>3. Shown = NULL
  BY DEF Init, Shown, Key, Keys
<1>4. Cardinality(ErrorRows(Shown)) \in Nat
  BY <1>3, ErrorsFinite
<1>5. PositionInv
  BY <1>4 DEF Init, PositionInv
<1> QED
  BY <1>1, <1>2, <1>5 DEF ViewerInv

-----------------------------------------------------------------------------
(* The steps of a query.                                                   *)

\* A fetch that begins.
LEMMA StartKeeps ==
    ASSUME QueryInv, NEW k \in Keys, Start(k)
    PROVE  QueryInv'
BY ViewerAssumption DEF QueryInv, Held, Start

\* A fetch that begins if none is under way.
LEMMA WantedKeeps ==
    ASSUME QueryInv, NEW k \in Keys, Wanted(k)
    PROVE  QueryInv' /\ data' = data
<1>1. CASE Start(k)
  BY <1>1, StartKeeps DEF Start
<1>2. CASE UNCHANGED queries
  BY <1>2 DEF queries, QueryInv, Held
<1> QED
  BY <1>1, <1>2 DEF Wanted

\* A fetch that fails for good.
LEMMA FailsKeeps ==
    ASSUME QueryInv, NEW k \in Keys, Fails(k), UNCHANGED data
    PROVE  QueryInv'
BY DEF QueryInv, Held, Fails, End

\* The server answers.
LEMMA HeadersKeeps ==
    ASSUME QueryInv, LogInv, NEW k \in Keys, Headers(k)
    PROVE  QueryInv'
<1>1. PICK upload \in Uploads : log = ProcessLog(upload)
  BY DEF LogInv, Headers
<1>2. IsAnswer(GetJobLog(k = "all"), k = "all")
  BY <1>1, AnswerIs
<1> DEFINE d == GetJobLog(k = "all")
<1>3. d \in Answer /\ d # NULL
  BY <1>2, AnswerNotNull DEF IsAnswer
<1>4. answer' = [answer EXCEPT ![k] = d] /\ fetch' = [fetch EXCEPT ![k] = "body"]
      /\ UNCHANGED <<data, error, failureCount>>
  BY DEF Headers
<1>5. IsAnswer(d, k = "all")
  BY <1>2
<1> HIDE DEF d
<1>6. Held(answer')
  BY <1>3, <1>4, <1>5 DEF QueryInv, Held
<1>7. \A j \in Keys : answer'[j] # NULL <=> fetch'[j] = "body"
  BY <1>3, <1>4 DEF QueryInv, Held
<1>8. Held(data') /\ fetch' \in [Keys -> {"idle", "sent", "body", "delay"}]
  BY <1>4 DEF QueryInv
<1> QED
  BY <1>4, <1>6, <1>7, <1>8 DEF QueryInv

\* The answer is in the cache.
LEMMA BodyKeeps ==
    ASSUME QueryInv, NEW k \in Keys, Body(k)
    PROVE  QueryInv'
BY DEF QueryInv, Held, Body, End

\* A fetch that fails and may be retried.
LEMMA TransientErrorKeeps ==
    ASSUME QueryInv, NEW k \in Keys, TransientError(k)
    PROVE  QueryInv'
<1>1. data' = data
  BY DEF TransientError
<1>2. CASE Fails(k)
  BY <1>1, <1>2, FailsKeeps
<1>3. CASE /\ failureCount[k] < Retries
           /\ failureCount' = [failureCount EXCEPT ![k] = @ + 1]
           /\ fetch' = [fetch EXCEPT ![k] = "delay"] /\ answer' = [answer EXCEPT ![k] = NULL]
           /\ UNCHANGED error
  <2>1. failureCount[k] + 1 \in 0..Retries
    BY <1>3, ViewerAssumption DEF QueryInv
  <2>2. failureCount' \in [Keys -> 0..Retries]
    BY <1>3, <2>1 DEF QueryInv
  <2>3. Held(data') /\ Held(answer') /\ error' \in [Keys -> BOOLEAN]
    BY <1>1, <1>3 DEF QueryInv, Held
  <2>4. /\ fetch' \in [Keys -> {"idle", "sent", "body", "delay"}]
        /\ \A j \in Keys : answer'[j] # NULL <=> fetch'[j] = "body"
    BY <1>3 DEF QueryInv, Held
  <2> QED
    BY <2>2, <2>3, <2>4 DEF QueryInv
<1> QED
  BY <1>2, <1>3 DEF TransientError

\* The retry is sent, or given up when nobody observes the query.
LEMMA RetryKeeps ==
    ASSUME QueryInv, NEW k \in Keys, Retry(k)
    PROVE  QueryInv'
<1>1. CASE Fails(k)
  BY <1>1, FailsKeeps DEF Retry
<1>2. CASE fetch' = [fetch EXCEPT ![k] = "sent"] /\ UNCHANGED <<error, answer, failureCount>>
  BY <1>2 DEF Retry, QueryInv, Held
<1> QED
  BY <1>1, <1>2 DEF Retry

-----------------------------------------------------------------------------
(* Every step.                                                             *)

\* A query under way takes a step: only an answer in full changes what is shown.
LEMMA RequestKeeps ==
    ASSUME ViewerInv, NEW k \in Keys,
           Headers(k) \/ Body(k) \/ ClientError(k) \/ TransientError(k) \/ Retry(k)
    PROVE  ViewerInv'
<1>1. LogInv' /\ isOpen' \in BOOLEAN /\ showAll' \in BOOLEAN /\ UNCHANGED showAll
  BY DEF ViewerInv, LogInv, Headers, Body, ClientError, TransientError, Retry, dialog
<1>2. CASE Body(k)
  <2>1. QueryInv'
    BY <1>2, BodyKeeps DEF ViewerInv
  <2>2. CASE k = Key
    <3>1. Shown' = answer[k]
      BY <1>1, <1>2, <2>2 DEF Body, Shown, Key, ViewerInv, QueryInv, Held
    <3>2. currentErrorIndex' = -1 \/ (currentErrorIndex' = currentErrorIndex /\ Text(Shown') = Text(Shown))
      BY <1>2, <2>2, <3>1 DEF Body, ResetErrorIndex
    <3> QED
      BY <1>1, <2>1, <3>2, PositionKept DEF ViewerInv, QueryInv
  <2>3. CASE k # Key
    <3>1. Shown' = Shown /\ currentErrorIndex' = currentErrorIndex
      BY <1>1, <1>2, <2>3, KeyIs DEF Body, Shown, Key, ViewerInv, QueryInv, Held
    <3> QED
      BY <1>1, <2>1, <3>1, PositionKept DEF ViewerInv, QueryInv
  <2> QED
    BY <2>2, <2>3
<1>3. CASE ~Body(k)
  <2>1. UNCHANGED <<showAll, data, currentErrorIndex>>
    BY <1>3 DEF Headers, ClientError, TransientError, Retry, dialog
  <2>2. QueryInv'
    <3>1. CASE ClientError(k)
      BY <3>1, FailsKeeps DEF ViewerInv, ClientError
    <3> QED
      BY <1>3, <3>1, HeadersKeeps, TransientErrorKeeps, RetryKeeps DEF ViewerInv
  <2> QED
    BY <1>1, <2>1, <2>2, PositionAlone DEF ViewerInv
<1> QED
  BY <1>2, <1>3

\* The position among the errors goes round them, and to none of them at the top and the end.
LEMMA JumpKeeps ==
    ASSUME ViewerInv, Jump
    PROVE  ViewerInv'
<1> DEFINE last == Cardinality(ErrorRows(Shown)) - 1
<1>1. UNCHANGED <<log, isOpen, showAll, queries>>
  BY DEF Jump
<1>2. Cardinality(ErrorRows(Shown)) \in Nat
  BY KeyIs, ErrorsFinite DEF ViewerInv, QueryInv
<1>3. currentErrorIndex \in -1..last
  BY DEF ViewerInv, PositionInv
<1>4. \/ last >= 0 /\ currentErrorIndex' \in
             {IF currentErrorIndex < last THEN currentErrorIndex + 1 ELSE 0,
              IF currentErrorIndex > 0 THEN currentErrorIndex - 1 ELSE last}
      \/ currentErrorIndex' = -1
  BY DEF Jump
<1>5. last \in Int /\ last >= -1
  BY <1>2
<1> HIDE DEF last
<1>6. currentErrorIndex' \in -1..last
  BY <1>3, <1>4, <1>5
<1>7. Shown' = Shown
  BY <1>1 DEF queries, Shown, Key
<1>8. PositionInv'
  BY <1>6, <1>7 DEF PositionInv, last
<1>9. QueryInv' /\ LogInv' /\ isOpen' \in BOOLEAN /\ showAll' \in BOOLEAN
  BY <1>1 DEF ViewerInv, QueryInv, Held, LogInv, queries
<1> QED
  BY <1>8, <1>9 DEF ViewerInv

\* The user, the rest of the page and the server.
LEMMA PageKeeps ==
    ASSUME ViewerInv,
           \/ Upload \/ Remove \/ Open \/ Close \/ ShowAll \/ RetryButton \/ Refetch \/ Cancel \/ Unmount
    PROVE  ViewerInv'
<1> USE DEF ViewerInv
<1>1. CASE Upload \/ Remove
  <2>1. LogInv' /\ UNCHANGED <<dialog, queries>>
    BY <1>1 DEF Upload, Remove, LogInv
  <2>2. QueryInv' /\ UNCHANGED <<showAll, data, currentErrorIndex>> /\ UNCHANGED isOpen
    BY <2>1 DEF dialog, queries, QueryInv, Held
  <2> QED
    BY <2>1, <2>2, PositionAlone
<1>2. CASE Open
  <2>1. QueryInv' /\ data' = data
    BY <1>2, WantedKeeps, KeyIs DEF Open, QueryInv
  <2> QED
    BY <1>2, <2>1, PositionAlone DEF Open, LogInv
<1>3. CASE Close
  <2>1. QueryInv' /\ UNCHANGED <<showAll, data, currentErrorIndex>>
    BY <1>3 DEF Close, queries, QueryInv, Held
  <2> QED
    BY <1>3, <2>1, PositionAlone DEF Close, LogInv
<1>4. CASE ShowAll
  <2>1. QueryInv' /\ data' = data /\ showAll' = TRUE
    BY <1>4, WantedKeeps DEF ShowAll, Keys
  <2>2. Shown' = data["all"]
    BY <2>1 DEF Shown, Key
  <2>3. currentErrorIndex' = -1 \/ (currentErrorIndex' = currentErrorIndex /\ Text(Shown') = Text(Shown))
    BY <1>4, <2>2 DEF ShowAll, ResetErrorIndex
  <2>4. PositionInv'
    BY <2>1, <2>3, PositionKept DEF QueryInv
  <2> QED
    BY <1>4, <2>1, <2>4 DEF ShowAll, LogInv
<1>5. CASE RetryButton \/ Refetch
  <2>1. Start(Key) /\ UNCHANGED <<log, dialog>>
    BY <1>5 DEF RetryButton, Refetch
  <2>2. QueryInv' /\ data' = data
    BY <2>1, StartKeeps, KeyIs DEF Start, QueryInv
  <2>3. UNCHANGED <<isOpen, showAll, currentErrorIndex>>
    BY <2>1 DEF dialog
  <2> QED
    BY <2>1, <2>2, <2>3, PositionAlone DEF LogInv
<1>6. CASE Cancel
  <2>1. QueryInv'
    BY <1>6 DEF Cancel, QueryInv, Held
  <2>2. UNCHANGED <<log, isOpen, showAll, currentErrorIndex, data>>
    BY <1>6 DEF Cancel, dialog
  <2> QED
    BY <2>1, <2>2, PositionAlone DEF LogInv
<1>7. CASE Unmount
  <2>1. QueryInv'
    BY <1>7 DEF Unmount, queries, QueryInv, Held
  <2>2. showAll' \in BOOLEAN /\ isOpen' \in BOOLEAN /\ currentErrorIndex' = -1 /\ log' = log
    BY <1>7 DEF Unmount
  <2> QED
    BY <2>1, <2>2, PositionKept DEF LogInv, QueryInv
<1> QED
  BY <1>1, <1>2, <1>3, <1>4, <1>5, <1>6, <1>7

\* The invariant survives every step.
LEMMA ViewerNext == ViewerInv /\ [Next]_vars => ViewerInv'
<1> SUFFICES ASSUME ViewerInv, [Next]_vars PROVE ViewerInv'
  OBVIOUS
<1>1. CASE Next
  BY <1>1, RequestKeeps, JumpKeeps, PageKeeps DEF Next
<1>2. CASE UNCHANGED vars
  <2>1. UNCHANGED <<log, dialog, queries>>
    BY <1>2 DEF vars
  <2>2. QueryInv' /\ LogInv' /\ UNCHANGED <<isOpen, showAll, data, currentErrorIndex>>
    BY <2>1 DEF dialog, queries, QueryInv, Held, LogInv, ViewerInv
  <2> QED
    BY <2>2, PositionAlone DEF ViewerInv
<1> QED
  BY <1>1, <1>2

\* The invariant holds of every reachable state.
LEMMA ViewerAlways == Spec => []ViewerInv
<1>1. Init => ViewerInv
  BY InitViewerInv
<1>2. ViewerInv /\ [Next]_vars => ViewerInv'
  BY ViewerNext
<1> QED
  BY <1>1, <1>2, PTL DEF Spec

-----------------------------------------------------------------------------
(* The theorems.                                                           *)

\* The state is well formed, and the position among the errors is one of the log shown
\* whatever a refetch put in its place (LogViewerModal.tsx:117), for logs of any length.
THEOREM ViewerTypeCorrect == Spec => []ViewerTypeOK
<1>1. ViewerInv => ViewerTypeOK
  <2> SUFFICES ASSUME ViewerInv PROVE ViewerTypeOK
    OBVIOUS
  <2>1. log # NULL => log.upload \in Uploads
    BY DEF ViewerInv, LogInv, ProcessLog
  <2>2. \A k \in Keys : data[k] # NULL => data[k].upload \in Uploads
    BY DEF ViewerInv, QueryInv, Held, Answer
  <2> QED
    BY <2>1, <2>2 DEF ViewerInv, QueryInv, PositionInv, ViewerTypeOK
<1> QED
  BY <1>1, ViewerAlways, PTL

\* The number beside a row is the place of its line in the stored log, which is the end of the
\* upload (LogViewerModal.tsx:423, status.go:205), whatever the two limits are.
THEOREM NumbersRight == Spec => []NumbersArePlaces
<1>1. ViewerInv => NumbersArePlaces
  <2> SUFFICES ASSUME ViewerInv, Shown # NULL, Shown.upload.noLF = {}, NEW row \in RowsOf(Shown)
               PROVE  LineNumber(Shown, row) = row - Clamped(Shown.upload.lines - MaxLogLines)
    BY DEF NumbersArePlaces
  <2>1. showAll \in BOOLEAN /\ Held(data)
    BY DEF ViewerInv, QueryInv
  <2>2. IsAnswer(Shown, Key = "all") /\ ((Key = "all") = showAll)
    BY <2>1, KeyIs DEF Shown, Held
  <2>3. IsAnswer(Shown, showAll)
    BY <2>2
  <2> QED
    BY <2>1, <2>3, NumberIsPlace
<1> QED
  BY <1>1, ViewerAlways, PTL
=============================================================================
