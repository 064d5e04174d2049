------------------------ MODULE OptimisticCacheProofs ------------------------
(***************************************************************************)
(* Theorems of OptimisticCache, for all jobs, groups and statuses: what    *)
(* the pages show is well formed, no optimistic update is left behind, and *)
(* over fresh data a click shows what the refetch will show.               *)
(***************************************************************************)
EXTENDS OptimisticCache, FiniteSetTheorems, TLAPS

-----------------------------------------------------------------------------
(* Lists of jobs and their summaries.                                      *)

\* A list is a function on some of the jobs it may hold.
LEMMA ListElim ==
    ASSUME NEW S, NEW l \in Lists(S)
    PROVE  /\ DOMAIN l \subseteq S
           /\ l = [j \in DOMAIN l |-> l[j]]
           /\ \A j \in DOMAIN l : l[j] \in Cards
BY DEF Lists

\* And any such function is a list.
LEMMA ListIntro ==
    ASSUME NEW S, NEW T \in SUBSET S, NEW l \in [T -> Cards]
    PROVE  l \in Lists(S)
BY DEF Lists

\* The jobs at the server are a list too.
LEMMA TablesAreLists == JobTables \subseteq Lists(Jobs)
BY DEF JobTables, JobStates, Lists

\* A list of the group's jobs is a list of jobs.
LEMMA GroupLists == ASSUME NEW g PROVE Lists(JobsIn(g)) \subseteq Lists(Jobs)
BY DEF Lists, JobsIn

\* Some of the jobs of a list can be counted.
LEMMA Countable ==
    ASSUME NEW l \in Lists(Jobs), NEW T \in SUBSET DOMAIN l
    PROVE  IsFiniteSet(T) /\ Cardinality(T) \in Nat
<1>1. T \in SUBSET Jobs
  BY ListElim
<1>2. IsFiniteSet(T)
  BY <1>1, CacheAssumption, FS_Subset
<1> QED
  BY <1>2, FS_CardinalityType

\* So that the numbers of a summary are numbers.
LEMMA SummaryType == ASSUME NEW l \in Lists(Jobs) PROVE Summary(l) \in Summaries
<1>1. /\ NeedingAck(l) \in SUBSET DOMAIN l /\ AckedIn(l) \in SUBSET DOMAIN l
      /\ \A s \in Statuses : WithStatus(l, s) \in SUBSET DOMAIN l
  BY DEF NeedingAck, AckedIn, WithStatus
<1>2. /\ Cardinality(DOMAIN l) \in Nat
      /\ Cardinality(NeedingAck(l)) \in Nat /\ Cardinality(AckedIn(l)) \in Nat
      /\ \A s \in Statuses : Cardinality(WithStatus(l, s)) \in Nat
  BY <1>1, Countable
<1>3. \A m, n, k : HealthFromCounts(m, n, k) \in {"empty", "unhealthy", "in_progress", "healthy"}
  BY DEF HealthFromCounts
<1> QED
  BY <1>2, <1>3 DEF Summary, Summaries

\* What is left of a list is a list.
LEMMA RestrictedType ==
    ASSUME NEW S, NEW l \in Lists(S), NEW T
    PROVE  Restricted(l, T) \in Lists(S) /\ Restricted(l, T) \in Lists(T)
<1>1. DOMAIN l \cap T \in SUBSET S /\ DOMAIN l \cap T \in SUBSET T
  BY ListElim
<1>2. Restricted(l, T) \in [DOMAIN l \cap T -> Cards]
  BY ListElim DEF Restricted
<1> QED
  BY <1>1, <1>2, ListIntro

\* What the server answers is data of the query.
LEMMA ReadType ==
    ASSUME NEW q \in Queries, NEW all \in Lists(Jobs)
    PROVE  IsData(q, Read(q, all))
<1>1. CASE q = "health"
  BY <1>1, SummaryType DEF Read, IsData
<1>2. CASE q = "groups"
  <2>1. \A g \in Groups : Restricted(all, JobsIn(g)) \in Lists(Jobs)
    BY RestrictedType
  <2> QED
    BY <1>2, <2>1, SummaryType DEF Read, IsData
<1>3. CASE q = "groupJobs"
  <2>1. Restricted(all, JobsIn(HomeGroup)) \in Lists(JobsIn(HomeGroup))
    BY RestrictedType
  <2> QED
    BY <1>3, <2>1 DEF Read, IsData
<1>4. CASE q = "jobs"
  <2>1. ASSUME NEW T PROVE Restricted(all, T) \in Lists(Jobs)
    BY RestrictedType
  <2>2. ASSUME NEW l \in Lists(Jobs) PROVE [list |-> l, total |-> Cardinality(DOMAIN l)] \in Listings
    BY Countable DEF Listings
  <2>3. Listing(all) \in Listings
    BY <2>1, <2>2 DEF Listing
  <2> QED
    BY <1>4, <2>3 DEF Read, IsData
<1> QED
  BY <1>1, <1>2, <1>3, <1>4 DEF Queries

\* Data is not the absence of data.
LEMMA DataIsThere ==
    ASSUME NEW q \in Queries, NEW data, IsData(q, data)
    PROVE  data # NULL
BY CacheAssumption, GroupLists DEF IsData, Queries

-----------------------------------------------------------------------------
(* What the hooks make of data is data.                                    *)

\* Counts stay numbers when something is taken off.
LEMMA LessType == ASSUME NEW n \in Nat, NEW k \in Nat PROVE Less(n, k) \in Nat /\ Less(n, k) <= n
BY DEF Less

\* The parts of a summary.
LEMMA SummaryElim ==
    ASSUME NEW row \in Summaries
    PROVE  /\ row = [total |-> row.total, unhealthy |-> row.unhealthy, acked |-> row.acked,
                     byStatus |-> row.byStatus, health |-> row.health]
           /\ row.total \in Nat /\ row.unhealthy \in Nat /\ row.acked \in Nat
           /\ row.byStatus \in [Statuses -> Nat]
           /\ row.health \in {"empty", "unhealthy", "in_progress", "healthy"}
BY DEF Summaries

\* The acknowledgements keep a summary a summary.
LEMMA AckRowTypes ==
    ASSUME NEW row \in Summaries
    PROVE  /\ OneAcked(row) \in Summaries
           /\ \A h \in {"empty", "unhealthy", "in_progress", "healthy"} : AllAcked(row, h) \in Summaries
           /\ \A k \in Nat : Acknowledged(row, k) \in Summaries
           /\ NotUnhealthy(row) \in {"empty", "unhealthy", "in_progress", "healthy"}
           /\ WithoutUnhealthy(row) \in {"empty", "unhealthy", "in_progress", "healthy"}
<1>1. \A k \in Nat : Less(row.unhealthy, k) \in Nat /\ row.acked + k \in Nat
  BY LessType, SummaryElim
<1>2. row.acked + row.unhealthy \in Nat
  BY SummaryElim
<1>3. WithoutUnhealthy(row) \in {"empty", "unhealthy", "in_progress", "healthy"}
  BY DEF WithoutUnhealthy
<1>4. NotUnhealthy(row) \in {"empty", "unhealthy", "in_progress", "healthy"}
  BY DEF NotUnhealthy, Summaries
<1>5. OneAcked(row) \in Summaries
  BY <1>1 DEF OneAcked, Summaries
<1>6. \A h \in {"empty", "unhealthy", "in_progress", "healthy"} : AllAcked(row, h) \in Summaries
  BY <1>2 DEF AllAcked, Summaries
<1>7. ASSUME NEW k \in Nat PROVE Acknowledged(row, k) \in Summaries
  <2> DEFINE h == IF row.unhealthy <= k THEN WithoutUnhealthy(row) ELSE row.health
  <2>1. h \in {"empty", "unhealthy", "in_progress", "healthy"}
    BY <1>3, SummaryElim
  <2>2. Acknowledged(row, k) = [row EXCEPT !.unhealthy = Less(row.unhealthy, k),
                                           !.acked = row.acked + k, !.health = h]
    BY DEF Acknowledged
  <2> HIDE DEF h
  <2> QED
    BY <1>1, <2>1, <2>2 DEF Summaries
<1> QED
  BY <1>3, <1>4, <1>5, <1>6, <1>7

\* So does the removal of a job.
LEMMA WithoutType ==
    ASSUME NEW row \in Summaries, NEW job \in Cards
    PROVE  Without(row, job) \in Summaries
<1> DEFINE u == IF NeedsAck(job) THEN Less(row.unhealthy, 1) ELSE row.unhealthy
           a == IF job.acked THEN Less(row.acked, 1) ELSE row.acked
           b == [row.byStatus EXCEPT ![job.status] = Less(row.byStatus[job.status], 1)]
<1>1. job.status \in Statuses
  BY DEF Cards
<1>2. u \in Nat /\ a \in Nat /\ Less(row.total, 1) \in Nat
  BY LessType, SummaryElim
<1>3. b \in [Statuses -> Nat]
  BY <1>1, LessType, SummaryElim
<1>4. Without(row, job) = [row EXCEPT !.total = Less(row.total, 1), !.unhealthy = u, !.acked = a, !.byStatus = b]
  BY DEF Without
<1> HIDE DEF u, a, b
<1> QED
  BY <1>2, <1>3, <1>4 DEF Summaries

\* And lists stay lists.
LEMMA MarkTypes ==
    ASSUME NEW S, NEW l \in Lists(S)
    PROVE  /\ \A T : Mark(l, T) \in Lists(S)
           /\ \A j : UpdateJobInCache(l, j) \in Lists(S)
<1>0. ASSUME NEW card \in Cards PROVE [card EXCEPT !.acked = TRUE] \in Cards
  BY DEF Cards
<1>1. \A j \in DOMAIN l : l[j] \in Cards /\ [l[j] EXCEPT !.acked = TRUE] \in Cards
  BY <1>0, ListElim
<1>2. ASSUME NEW T PROVE Mark(l, T) \in [DOMAIN l -> Cards]
  BY <1>1 DEF Mark
<1>3. ASSUME NEW j PROVE UpdateJobInCache(l, j) \in [DOMAIN l -> Cards]
  BY <1>1 DEF UpdateJobInCache
<1>4. DOMAIN l \in SUBSET S
  BY ListElim
<1> QED
  BY <1>2, <1>3, <1>4, ListIntro

-----------------------------------------------------------------------------
(* The types of the cache.                                                 *)

\* What the types say of the data of each query.
LEMMA LoadedData ==
    ASSUME CacheTypeOK
    PROVE  /\ Loaded("health") => cache["health"] \in Summaries
           /\ Loaded("groups") => cache["groups"] \in [Groups -> Summaries]
           /\ Loaded("groupJobs") => cache["groupJobs"] \in Lists(JobsIn(HomeGroup))
           /\ Loaded("jobs") => cache["jobs"] \in Listings
BY DEF CacheTypeOK, IsData, Queries

\* A job that a hook finds is a job of a list.
LEMMA SightingType == ASSUME CacheTypeOK, NEW j PROVE Sighting(j) \in Cards \cup {NULL}
<1>1. CASE Loaded("jobs") /\ j \in DOMAIN cache["jobs"].list
  <2>1. cache["jobs"].list \in Lists(Jobs)
    BY <1>1, LoadedData DEF Listings
  <2> QED
    BY <1>1, <2>1, ListElim DEF Sighting
<1>2. CASE Loaded("groupJobs") /\ j \in DOMAIN cache["groupJobs"]
  BY <1>1, <1>2, LoadedData, ListElim DEF Sighting
<1> QED
  BY <1>1, <1>2 DEF Sighting

\* The parts of an operation.
LEMMA OperationElim ==
    ASSUME NEW op \in Operations
    PROVE  /\ op.kind \in {"ackJob", "ackGroup", "ackAll", "delete"}
           /\ op.kind \in {"ackJob", "delete"} => op.target \in Jobs
           /\ op.kind = "ackGroup" => op.target \in Groups
BY DEF Operations

\* Of a listing, only the list is changed by an acknowledgement.
LEMMA ListingType ==
    ASSUME NEW c \in Listings, NEW l \in Lists(Jobs)
    PROVE  [c EXCEPT !.list = l] \in Listings
BY DEF Listings

\* What the hook for one job makes of data is data.
LEMMA AckJobType ==
    ASSUME CacheTypeOK, NEW j \in Jobs, NEW q \in Queries, Loaded(q)
    PROVE  IsData(q, AckJobData(q, cache[q], j))
<1> DEFINE counts == Sighting(j) # NULL /\ Sighting(j).status \in Unhealthy
<1>1. CASE q = "jobs"
  <2>1. cache[q] \in Listings /\ cache[q].list \in Lists(Jobs)
    BY <1>1, LoadedData DEF Listings
  <2>2. AckJobData(q, cache[q], j) = [cache[q] EXCEPT !.list = UpdateJobInCache(cache[q].list, j)]
    BY <1>1 DEF AckJobData
  <2> QED
    BY <1>1, <2>1, <2>2, MarkTypes, ListingType DEF IsData
<1>2. CASE q = "groupJobs"
  BY <1>2, LoadedData, MarkTypes DEF IsData, AckJobData
<1>3. CASE q = "groups"
  <2>1. GroupOf[j] \in Groups /\ cache[q] \in [Groups -> Summaries]
    BY <1>3, LoadedData, CacheAssumption
  <2>2. AckJobData(q, cache[q], j)
            = IF counts THEN [cache[q] EXCEPT ![GroupOf[j]] = OneAcked(cache[q][GroupOf[j]])] ELSE cache[q]
    BY <1>3 DEF AckJobData
  <2> HIDE DEF counts
  <2> QED
    BY <1>3, <2>1, <2>2, AckRowTypes DEF IsData
<1>4. CASE q = "health"
  <2>1. AckJobData(q, cache[q], j) = IF counts THEN Acknowledged(cache[q], 1) ELSE cache[q]
    BY <1>4 DEF AckJobData
  <2> HIDE DEF counts
  <2> QED
    BY <1>4, <2>1, LoadedData, AckRowTypes DEF IsData
<1> QED
  BY <1>1, <1>2, <1>3, <1>4 DEF Queries

\* So is what the hook for a group makes of it.
LEMMA AckGroupType ==
    ASSUME CacheTypeOK, NEW g \in Groups, NEW q \in Queries, Loaded(q)
    PROVE  IsData(q, AckGroupData(q, cache[q], g))
<1> DEFINE acked == IF Loaded("groups") THEN cache["groups"][g].unhealthy ELSE 0
<1>1. CASE q = "jobs"
  <2>1. cache[q] \in Listings /\ cache[q].list \in Lists(Jobs)
    BY <1>1, LoadedData DEF Listings
  <2>2. AckGroupData(q, cache[q], g) = [cache[q] EXCEPT !.list = Mark(cache[q].list, JobsIn(g))]
    BY <1>1 DEF AckGroupData
  <2> QED
    BY <1>1, <2>1, <2>2, MarkTypes, ListingType DEF IsData
<1>2. CASE q = "groupJobs"
  BY <1>2, LoadedData, MarkTypes DEF IsData, AckGroupData
<1>3. CASE q = "groups"
  BY <1>3, LoadedData, AckRowTypes DEF IsData, AckGroupData
<1>4. CASE q = "health"
  <2>1. AckGroupData(q, cache[q], g) = IF acked > 0 THEN Acknowledged(cache[q], acked) ELSE cache[q]
    BY <1>4 DEF AckGroupData
  <2>2. acked \in Nat
    BY LoadedData, SummaryElim
  <2> HIDE DEF acked
  <2> QED
    BY <1>4, <2>1, <2>2, LoadedData, AckRowTypes DEF IsData
<1> QED
  BY <1>1, <1>2, <1>3, <1>4 DEF Queries

\* And what the hook for all jobs makes of it.
LEMMA AckAllType ==
    ASSUME CacheTypeOK, NEW q \in Queries, Loaded(q)
    PROVE  IsData(q, AckAllData(q, cache[q]))
<1>1. CASE q = "jobs"
  <2>1. cache[q] \in Listings /\ cache[q].list \in Lists(Jobs)
    BY <1>1, LoadedData DEF Listings
  <2>2. AckAllData(q, cache[q]) = [cache[q] EXCEPT !.list = Mark(cache[q].list, Jobs)]
    BY <1>1 DEF AckAllData
  <2> QED
    BY <1>1, <2>1, <2>2, MarkTypes, ListingType DEF IsData
<1>2. CASE q = "groupJobs"
  BY <1>2, LoadedData, MarkTypes DEF IsData, AckAllData
<1>3. CASE q = "groups"
  BY <1>3, LoadedData, AckRowTypes DEF IsData, AckAllData
<1>4. CASE q = "health"
  BY <1>4, LoadedData, AckRowTypes DEF IsData, AckAllData
<1> QED
  BY <1>1, <1>2, <1>3, <1>4 DEF Queries

\* And what the hook for a deletion makes of it.
LEMMA DeleteType ==
    ASSUME CacheTypeOK, NEW j \in Jobs, NEW q \in Queries, Loaded(q)
    PROVE  IsData(q, DeleteData(q, cache[q], j))
<1>1. CASE q = "jobs"
  <2>1. cache[q].list \in Lists(Jobs) /\ cache[q].total \in Nat
    BY <1>1, LoadedData DEF Listings
  <2>2. Restricted(cache[q].list, Jobs \ {j}) \in Lists(Jobs) /\ Less(cache[q].total, 1) \in Nat
    BY <2>1, RestrictedType, LessType
  <2> QED
    BY <1>1, <2>1, <2>2 DEF IsData, DeleteData, Listings
<1>2. CASE q = "groupJobs"
  BY <1>2, LoadedData, RestrictedType DEF IsData, DeleteData
<1>3. CASE q = "groups"
  <2>1. GroupOf[j] \in Groups /\ cache[q] \in [Groups -> Summaries]
    BY <1>3, LoadedData, CacheAssumption
  <2> QED
    BY <1>3, <2>1, SightingType, WithoutType DEF IsData, DeleteData
<1>4. CASE q = "health"
  BY <1>4, LoadedData, SightingType, WithoutType DEF IsData, DeleteData
<1> QED
  BY <1>1, <1>2, <1>3, <1>4 DEF Queries

\* A click leaves every query with data, or without any as before.
LEMMA OptimisticType ==
    ASSUME CacheTypeOK, NEW op \in Operations, NEW q \in Queries
    PROVE  /\ Loaded(q) => IsData(q, OptimisticUpdate(op)[q])
           /\ ~Loaded(q) => OptimisticUpdate(op)[q] = NULL
<1>1. OptimisticUpdate(op)[q] = IF Loaded(q) THEN OptimisticData(op, q, cache[q]) ELSE NULL
  BY DEF OptimisticUpdate
<1>2. ASSUME Loaded(q) PROVE IsData(q, OptimisticData(op, q, cache[q]))
  BY <1>2, OperationElim, AckJobType, AckGroupType, AckAllType, DeleteType DEF OptimisticData
<1> QED
  BY <1>1, <1>2

-----------------------------------------------------------------------------
(* Every step keeps the state well formed.                                 *)

\* The fetches by themselves.
FetchesOK ==
    /\ answer = [q \in Queries |-> answer[q]]
    /\ fetch \in [Queries -> {"idle", "sent", "answered"}]
    /\ \A q \in Queries : IF fetch[q] = "answered" THEN IsData(q, answer[q]) ELSE answer[q] = NULL
    /\ \A q \in Queries : fetch[q] # "idle" => q \in shown

\* The requests by themselves.
RequestsOK ==
    /\ acts \in 0..MaxActs
    /\ requests \subseteq [id : 1..acts, op : Operations, waiting : BOOLEAN, open : BOOLEAN]
    /\ \A r \in requests : r.waiting \/ r.open

\* The page and the cache by themselves.
PageOK ==
    /\ shown \in Screens /\ invalid \subseteq Queries
    /\ cache = [q \in Queries |-> cache[q]]
    /\ \A q \in Queries : Loaded(q) => IsData(q, cache[q])
    /\ \A q \in shown : Loaded(q)

\* Together they are the type of the state.
LEMMA TypeParts ==
    CacheTypeOK <=> jobs \in JobTables /\ event \in BOOLEAN /\ PageOK /\ FetchesOK /\ RequestsOK
BY DEF CacheTypeOK, PageOK, FetchesOK, RequestsOK

\* Also in the next state.
LEMMA TypePartsNext ==
    CacheTypeOK' <=> jobs' \in JobTables /\ event' \in BOOLEAN /\ PageOK' /\ FetchesOK' /\ RequestsOK'
BY DEF CacheTypeOK, PageOK, FetchesOK, RequestsOK, Loaded

\* What a page shows are queries.
LEMMA ShownQueries == ASSUME shown \in Screens PROVE shown \subseteq Queries
BY CacheAssumption

\* Fetches of queries the page shows keep the fetches in order.
LEMMA SendTypes ==
    ASSUME FetchesOK, NEW qs \in SUBSET shown, Send(qs), shown' = shown
    PROVE  FetchesOK'
BY DEF FetchesOK, Send

\* So does the end of one.
LEMMA EndTypes ==
    ASSUME FetchesOK, NEW q \in Queries, shown' = shown,
           fetch' = [fetch EXCEPT ![q] = "idle"], answer' = [answer EXCEPT ![q] = NULL]
    PROVE  FetchesOK'
BY DEF FetchesOK

\* A refetch of what a hook or an event names.
LEMMA InvalidateTypes ==
    ASSUME PageOK, FetchesOK, NEW keys \in SUBSET Queries, Invalidate(keys), UNCHANGED <<shown, cache>>
    PROVE  PageOK' /\ FetchesOK'
<1> DEFINE matching == keys \cup (IF "groups" \in keys THEN {"groupJobs"} ELSE {})
           refetched == {q \in matching \cap shown : fetch[q] = "idle" \/ Loaded(q)}
<1>1. invalid' = invalid \cup matching /\ Send(refetched)
  BY DEF Invalidate
<1>2. matching \subseteq Queries
  BY DEF Queries
<1>3. refetched \in SUBSET shown
  OBVIOUS
<1> HIDE DEF matching, refetched
<1>4. FetchesOK'
  BY <1>1, <1>3, SendTypes
<1>5. PageOK'
  BY <1>1, <1>2 DEF PageOK, Loaded
<1> QED
  BY <1>4, <1>5

\* A click.
LEMMA MutateTypes ==
    ASSUME CacheTypeOK, NEW op \in Operations, Mutate(op)
    PROVE  CacheTypeOK'
<1>1. PageOK'
  <2>1. cache' = OptimisticUpdate(op) /\ shown' = shown /\ invalid' \subseteq invalid
    BY DEF Mutate
  <2>2. cache' = [q \in Queries |-> cache'[q]]
    BY <2>1 DEF OptimisticUpdate
  <2>3. \A q \in Queries : (Loaded(q) => IsData(q, cache'[q])) /\ (~Loaded(q) => cache'[q] = NULL)
    BY <2>1, OptimisticType
  <2>4. \A q \in Queries : Loaded(q)' <=> Loaded(q)
    BY <2>3, DataIsThere DEF Loaded
  <2> QED
    BY <2>1, <2>2, <2>3, <2>4, ShownQueries DEF CacheTypeOK, PageOK
<1>2. FetchesOK'
  BY DEF Mutate, FetchesOK
<1>3. RequestsOK'
  <2> DEFINE new == [id |-> acts', op |-> op, waiting |-> TRUE, open |-> TRUE]
  <2>1. acts' = acts + 1 /\ acts < MaxActs /\ acts \in 0..MaxActs /\ MaxActs \in Nat
    BY CacheAssumption DEF Mutate, CacheTypeOK
  <2>2. acts' \in 0..MaxActs /\ acts' \in 1..acts' /\ 1..acts \subseteq 1..acts'
    BY <2>1
  <2>3. requests' = requests \cup {new}
    BY DEF Mutate
  <2>4. new \in [id : 1..acts', op : Operations, waiting : BOOLEAN, open : BOOLEAN] /\ new.waiting
    BY <2>2
  <2> HIDE DEF new
  <2>5. requests \subseteq [id : 1..acts', op : Operations, waiting : BOOLEAN, open : BOOLEAN]
    BY <2>2 DEF CacheTypeOK
  <2> QED
    BY <2>2, <2>3, <2>4, <2>5 DEF CacheTypeOK, RequestsOK
<1>4. jobs' = jobs /\ event' = event
  BY DEF Mutate
<1> QED
  BY <1>1, <1>2, <1>3, <1>4, TypeParts, TypePartsNext

\* The keys of a hook are queries, and with those its groups stand for they are all.
LEMMA KeysAreAll ==
    ASSUME NEW op
    PROVE  /\ KeysOf(op) \subseteq Queries
           /\ KeysOf(op) \cup (IF "groups" \in KeysOf(op) THEN {"groupJobs"} ELSE {}) = Queries
BY DEF KeysOf, AckJobKeys, AckGroupKeys, AckAllKeys, DeleteKeys, Queries

\* A request that has lost one of the two that hold it.
LEMMA RequestType ==
    ASSUME RequestsOK, NEW r \in requests
    PROVE  /\ [r EXCEPT !.waiting = FALSE] \in [id : 1..acts, op : Operations, waiting : BOOLEAN, open : BOOLEAN]
           /\ [r EXCEPT !.open = FALSE] \in [id : 1..acts, op : Operations, waiting : BOOLEAN, open : BOOLEAN]
           /\ [r EXCEPT !.waiting = FALSE].open = r.open /\ ~[r EXCEPT !.waiting = FALSE].waiting
           /\ [r EXCEPT !.open = FALSE].waiting = r.waiting
BY DEF RequestsOK

\* The answer to a click, or its failure.
LEMMA SettleTypes ==
    ASSUME CacheTypeOK, NEW r \in requests, Settle(r)
    PROVE  CacheTypeOK'
<1>1. PageOK' /\ FetchesOK'
  BY TypeParts, KeysAreAll, InvalidateTypes DEF Settle
<1>2. RequestsOK'
  <2>1. /\ requests' = (requests \ {r}) \cup (IF r.open THEN {[r EXCEPT !.waiting = FALSE]} ELSE {})
        /\ acts' = acts
    BY DEF Settle
  <2>2. RequestsOK
    BY TypeParts
  <2> DEFINE left == [r EXCEPT !.waiting = FALSE]
  <2>3. left \in [id : 1..acts, op : Operations, waiting : BOOLEAN, open : BOOLEAN] /\ left.open = r.open
    BY <2>2, RequestType
  <2> HIDE DEF left
  <2> QED
    BY <2>1, <2>2, <2>3 DEF RequestsOK, left
<1>3. jobs' = jobs /\ event' = event
  BY DEF Settle
<1> QED
  BY <1>1, <1>2, <1>3, TypeParts, TypePartsNext

\* What the server keeps is a table of jobs.
LEMMA TableElim ==
    ASSUME NEW all \in JobTables
    PROVE  /\ DOMAIN all \in SUBSET Jobs
           /\ all = [j \in DOMAIN all |-> all[j]]
           /\ \A j \in DOMAIN all : all[j] \in JobStates
BY DEF JobTables

\* And any function on some jobs to states of theirs is one.
LEMMA TableIntro ==
    ASSUME NEW T \in SUBSET Jobs, NEW all \in [T -> JobStates]
    PROVE  all \in JobTables
BY DEF JobTables

\* A request leaves a table: only failing jobs are acknowledged.
LEMMA EffectType ==
    ASSUME NEW op \in Operations, NEW all \in JobTables
    PROVE  Effect(op, all) \in JobTables
<1>1. ASSUME NEW S PROVE AckEach(all, S) \in JobTables
  <2>1. ASSUME NEW s \in JobStates, NeedsAck(s) PROVE [s EXCEPT !.acked = TRUE] \in JobStates
    BY <2>1 DEF JobStates, Cards, NeedsAck
  <2>2. AckEach(all, S) \in [DOMAIN all -> JobStates]
    BY <2>1, TableElim DEF AckEach
  <2> QED
    BY <2>2, TableElim, TableIntro
<1>2. ASSUME NEW S PROVE Restricted(all, S) \in JobTables
  <2>1. Restricted(all, S) \in [DOMAIN all \cap S -> JobStates]
    BY TableElim DEF Restricted
  <2>2. DOMAIN all \cap S \in SUBSET Jobs
    BY TableElim
  <2> QED
    BY <2>1, <2>2, TableIntro
<1> QED
  BY <1>1, <1>2 DEF Effect

\* The server runs a request or refuses it.
LEMMA ServeTypes ==
    ASSUME CacheTypeOK, NEW r \in requests, Serve(r)
    PROVE  CacheTypeOK'
<1>1. RequestsOK' 
  <2>1. /\ requests' = (requests \ {r}) \cup (IF r.waiting THEN {[r EXCEPT !.open = FALSE]} ELSE {})
        /\ acts' = acts
    BY DEF Serve
  <2>2. RequestsOK
    BY TypeParts
  <2> DEFINE left == [r EXCEPT !.open = FALSE]
  <2>3. left \in [id : 1..acts, op : Operations, waiting : BOOLEAN, open : BOOLEAN] /\ left.waiting = r.waiting
    BY <2>2, RequestType
  <2> HIDE DEF left
  <2> QED
    BY <2>1, <2>2, <2>3 DEF RequestsOK, left
<1>2. jobs' \in JobTables
  <2>1. r.op \in Operations /\ jobs \in JobTables
    BY DEF CacheTypeOK
  <2> QED
    BY <2>1, EffectType DEF Serve
<1>3. event' \in BOOLEAN
  BY DEF Serve, CacheTypeOK
<1>4. UNCHANGED <<shown, cache, invalid, fetch, answer>>
  BY DEF Serve, fetching
<1>5. PageOK' /\ FetchesOK'
  BY <1>4, TypeParts DEF PageOK, FetchesOK, Loaded
<1> QED
  BY <1>1, <1>2, <1>3, <1>5, TypePartsNext

\* Somebody else's report or removal.
LEMMA ChangeTypes ==
    ASSUME CacheTypeOK, Change
    PROVE  CacheTypeOK'
<1>1. acts' = acts + 1 /\ acts < MaxActs /\ requests' = requests
  BY DEF Change
<1>2. acts \in 0..MaxActs /\ MaxActs \in Nat
  BY CacheAssumption DEF CacheTypeOK
<1>3. acts' \in 0..MaxActs /\ 1..acts \subseteq 1..acts'
  BY <1>1, <1>2
<1>4. RequestsOK'
  BY <1>1, <1>3 DEF CacheTypeOK, RequestsOK
<1>5. jobs' \in JobTables
  <2>1. ASSUME NEW j \in Jobs, NEW new \in JobStates,
               jobs' = [k \in DOMAIN jobs \cup {j} |-> IF k = j THEN new ELSE jobs[k]]
        PROVE  jobs' \in JobTables
    <3>1. DOMAIN jobs \cup {j} \in SUBSET Jobs /\ \A k \in DOMAIN jobs : jobs[k] \in JobStates
      BY TableElim DEF CacheTypeOK
    <3>2. jobs' \in [DOMAIN jobs \cup {j} -> JobStates]
      BY <2>1, <3>1
    <3> QED
      BY <3>1, <3>2, TableIntro
  <2>2. ASSUME NEW j \in Jobs, NEW s \in Statuses
        PROVE  [status |-> s,
                acked |-> IF j \in DOMAIN jobs /\ {s, jobs[j].status} \subseteq Unhealthy
                          THEN jobs[j].acked ELSE FALSE] \in JobStates
    <3>1. j \in DOMAIN jobs => jobs[j].acked \in BOOLEAN
      BY TableElim DEF CacheTypeOK, JobStates, Cards
    <3> QED
      BY <3>1 DEF JobStates, Cards
  <2>3. ASSUME NEW j \in DOMAIN jobs, jobs' = Restricted(jobs, Jobs \ {j})
        PROVE  jobs' \in JobTables
    <3>1. jobs' \in [DOMAIN jobs \cap (Jobs \ {j}) -> JobStates]
      BY <2>3, TableElim DEF Restricted, CacheTypeOK
    <3> QED
      BY <3>1, TableElim, TableIntro DEF CacheTypeOK
  <2> QED
    BY <2>1, <2>2, <2>3 DEF Change
<1>6. UNCHANGED <<shown, cache, invalid, fetch, answer>> /\ event' = TRUE
  BY DEF Change, fetching
<1>7. PageOK' /\ FetchesOK'
  BY <1>6, TypeParts DEF PageOK, FetchesOK, Loaded
<1> QED
  BY <1>4, <1>5, <1>6, <1>7, TypePartsNext

\* An event, a poll, and what comes of a fetch.
LEMMA FetchTypes ==
    ASSUME CacheTypeOK, OnEvent \/ \E q \in Queries : Poll(q) \/ ServerReads(q) \/ Response(q) \/ FetchFails(q)
    PROVE  CacheTypeOK'
<1>1. PageOK /\ FetchesOK /\ RequestsOK /\ jobs \in JobTables
  BY TypeParts
<1>2. jobs' = jobs /\ event' \in BOOLEAN /\ UNCHANGED <<shown, requests, acts>>
  BY DEF OnEvent, Poll, ServerReads, Response, FetchFails, CacheTypeOK
<1>3. RequestsOK'
  BY <1>1, <1>2 DEF RequestsOK
<1>4. CASE OnEvent
  <2>1. PageOK' /\ FetchesOK'
    BY <1>1, <1>4, InvalidateTypes DEF OnEvent
  <2> QED
    BY <1>1, <1>2, <1>3, <2>1, TypePartsNext
<1>5. CASE \E q \in Queries : Poll(q)
  <2>1. FetchesOK'
    BY <1>1, <1>5, SendTypes DEF Poll
  <2>2. PageOK'
    BY <1>1, <1>5 DEF Poll, PageOK, Loaded
  <2> QED
    BY <1>1, <1>2, <1>3, <2>1, <2>2, TypePartsNext
<1>6. ASSUME NEW q \in Queries, ServerReads(q)
      PROVE  CacheTypeOK'
  <2>1. IsData(q, Read(q, jobs))
    BY <1>1, TablesAreLists, ReadType
  <2>2. FetchesOK'
    BY <1>1, <1>6, <2>1 DEF ServerReads, FetchesOK
  <2>3. PageOK'
    BY <1>1, <1>6 DEF ServerReads, PageOK, Loaded
  <2> QED
    BY <1>1, <1>2, <1>3, <2>2, <2>3, TypePartsNext
<1>7. ASSUME NEW q \in Queries, Response(q)
      PROVE  CacheTypeOK'
  <2>1. IsData(q, answer[q]) /\ answer[q] # NULL
    BY <1>1, <1>7, DataIsThere DEF Response, FetchesOK
  <2>2. FetchesOK'
    BY <1>1, <1>7, EndTypes DEF Response
  <2>3. PageOK'
    BY <1>1, <1>7, <2>1, ShownQueries DEF Response, PageOK, Loaded
  <2> QED
    BY <1>1, <1>2, <1>3, <2>2, <2>3, TypePartsNext
<1>8. ASSUME NEW q \in Queries, FetchFails(q)
      PROVE  CacheTypeOK'
  <2>1. FetchesOK'
    BY <1>1, <1>8, EndTypes DEF FetchFails
  <2>2. PageOK'
    BY <1>1, <1>8 DEF FetchFails, PageOK, Loaded
  <2> QED
    BY <1>1, <1>2, <1>3, <2>1, <2>2, TypePartsNext
<1> QED
  BY <1>4, <1>5, <1>6, <1>7, <1>8

\* A page is opened over a cache that holds what the server has.
LEMMA CacheTypeInit == Init => CacheTypeOK
<1> SUFFICES ASSUME Init PROVE CacheTypeOK
  OBVIOUS
<1>1. jobs \in JobTables /\ shown \in Screens /\ shown \subseteq Queries
  BY CacheAssumption DEF Init
<1>2. \A q \in Queries : IsData(q, Read(q, jobs)) /\ Read(q, jobs) # NULL
  BY <1>1, TablesAreLists, ReadType, DataIsThere
<1>3. PageOK
  BY <1>1, <1>2 DEF Init, PageOK, Loaded
<1>4. FetchesOK /\ event \in BOOLEAN
  BY DEF Init, FetchesOK
<1>5. RequestsOK
  BY CacheAssumption DEF Init, RequestsOK
<1> QED
  BY <1>1, <1>3, <1>4, <1>5, TypeParts

\* Every step keeps the state well formed.
LEMMA CacheTypeNext == CacheTypeOK /\ [Next]_vars => CacheTypeOK'
<1> SUFFICES ASSUME CacheTypeOK, [Next]_vars PROVE CacheTypeOK'
  OBVIOUS
<1>1. CASE UNCHANGED vars
  <2>1. UNCHANGED <<jobs, shown, cache, invalid, fetch, answer, requests, event, acts>>
    BY <1>1 DEF vars, fetching
  <2> QED
    BY <2>1 DEF CacheTypeOK, Loaded
<1> QED
  BY <1>1, MutateTypes, SettleTypes, ServeTypes, ChangeTypes, FetchTypes DEF Next

\* What the pages show is well formed: above all, no count is ever negative, though the
\* queries were answered at different times.
THEOREM CacheTypeCorrect == Spec => []CacheTypeOK
BY CacheTypeInit, CacheTypeNext, PTL DEF Spec

-----------------------------------------------------------------------------
(* No optimistic update is left behind.                                    *)

\* An answer on its way is up to date, unless a change is about to be announced: the
\* event will replace every fetch of the page.
AnswersFresh == ~event => \A q \in Queries : fetch[q] = "answered" => answer[q] = Read(q, jobs)

CacheInv == CacheTypeOK /\ AnswersFresh /\ NothingLeftBehind

\* A click cancels the fetches, and from then on a mutation waits.
LEMMA MutateLeavesNothing ==
    ASSUME NEW op \in Operations, Mutate(op)
    PROVE  AnswersFresh' /\ NothingLeftBehind'
<1> DEFINE new == [id |-> acts', op |-> op, waiting |-> TRUE, open |-> TRUE]
<1>1. new \in requests' /\ new.waiting
  BY DEF Mutate
<1>2. \A q \in Queries : fetch'[q] = "idle"
  BY DEF Mutate
<1> HIDE DEF new
<1> QED
  BY <1>1, <1>2 DEF AnswersFresh, NothingLeftBehind

\* When it settles, every query is marked for a refetch.
LEMMA SettleLeavesNothing ==
    ASSUME AnswersFresh, NEW r \in requests, Settle(r)
    PROVE  AnswersFresh' /\ NothingLeftBehind'
<1>1. Queries \subseteq invalid'
  BY KeysAreAll DEF Settle, Invalidate
<1>2. \A q \in Queries : fetch'[q] = "answered" => fetch[q] = "answered" /\ answer'[q] = answer[q]
  BY DEF Settle, Invalidate, Send
<1>3. jobs' = jobs /\ event' = event
  BY DEF Settle
<1> QED
  BY <1>1, <1>2, <1>3 DEF AnswersFresh, NothingLeftBehind, Read

\* The server changes nothing unannounced, and the click still waits for it.
LEMMA ServeLeavesNothing ==
    ASSUME CacheInv, NEW r \in requests, Serve(r)
    PROVE  AnswersFresh' /\ NothingLeftBehind'
<1>1. UNCHANGED <<cache, invalid, fetch, answer>>
  BY DEF Serve, fetching
<1>2. ~event' => ~event /\ jobs' = jobs
  BY DEF Serve
<1>3. (\E s \in requests : s.waiting) => \E s \in requests' : s.waiting
  <2> SUFFICES ASSUME NEW s \in requests, s.waiting PROVE \E u \in requests' : u.waiting
    OBVIOUS
  <2>1. requests' = (requests \ {r}) \cup (IF r.waiting THEN {[r EXCEPT !.open = FALSE]} ELSE {})
    BY DEF Serve
  <2>2. [r EXCEPT !.open = FALSE].waiting = r.waiting
    BY RequestType, TypeParts DEF CacheInv
  <2> DEFINE left == [r EXCEPT !.open = FALSE]
  <2>3. s = r => left \in requests' /\ left.waiting
    BY <2>1, <2>2
  <2>4. s # r => s \in requests'
    BY <2>1
  <2> HIDE DEF left
  <2> QED
    BY <2>3, <2>4
<1>4. AnswersFresh'
  BY <1>1, <1>2 DEF CacheInv, AnswersFresh
<1>5. NothingLeftBehind'
  BY <1>1, <1>2, <1>3 DEF CacheInv, NothingLeftBehind, Loaded, Current
<1> QED
  BY <1>4, <1>5

\* An event has everything the page shows fetched again, and marks the rest.
LEMMA EventLeavesNothing ==
    ASSUME CacheTypeOK, OnEvent
    PROVE  AnswersFresh' /\ NothingLeftBehind'
<1>1. Queries \subseteq invalid'
  BY DEF OnEvent, Invalidate
<1>2. ASSUME NEW q \in Queries, fetch'[q] = "answered" PROVE FALSE
  <2> DEFINE refetched == {p \in (Queries \cup {"groupJobs"}) \cap shown : fetch[p] = "idle" \/ Loaded(p)}
  <2>1. Send(refetched)
    BY DEF OnEvent, Invalidate, Queries
  <2>2. q \in shown => q \in refetched
    BY DEF CacheTypeOK
  <2>3. q \notin shown => fetch[q] = "idle"
    BY DEF CacheTypeOK
  <2> HIDE DEF refetched
  <2> QED
    BY <1>2, <2>1, <2>2, <2>3 DEF Send
<1> QED
  BY <1>1, <1>2 DEF AnswersFresh, NothingLeftBehind

\* A fetch is answered with what the server has, and stored as it was answered.
LEMMA FetchLeavesNothing ==
    ASSUME CacheInv, NEW q \in Queries, Poll(q) \/ ServerReads(q) \/ Response(q) \/ FetchFails(q)
    PROVE  AnswersFresh' /\ NothingLeftBehind'
<1>1. UNCHANGED <<jobs, event, requests>>
  BY DEF Poll, ServerReads, Response, FetchFails
<1>2. FetchesOK
  BY TypeParts DEF CacheInv
<1>3. AnswersFresh'
  <2>1. ASSUME NEW p \in Queries, fetch'[p] = "answered"
        PROVE  answer'[p] = Read(p, jobs) \/ (fetch[p] = "answered" /\ answer'[p] = answer[p])
    BY <1>2, <2>1 DEF Poll, Send, ServerReads, Response, FetchFails, FetchesOK
  <2>2. \A p \in Queries : Read(p, jobs)' = Read(p, jobs)
    BY <1>1 DEF Read
  <2> QED
    BY <1>1, <2>1, <2>2 DEF CacheInv, AnswersFresh
<1>4. NothingLeftBehind'
  <2>1. CASE UNCHANGED <<cache, invalid>>
    BY <1>1, <2>1 DEF CacheInv, NothingLeftBehind, Loaded, Current
  <2>2. CASE Response(q)
    <3>1. /\ fetch[q] = "answered" /\ invalid' = invalid \ {q}
          /\ cache' = [cache EXCEPT ![q] = answer[q]]
      BY <2>2 DEF Response
    <3>2. cache'[q] = answer[q] /\ \A p \in Queries \ {q} : cache'[p] = cache[p]
      BY <3>1 DEF CacheInv, CacheTypeOK
    <3>3. ~event => cache'[q] = Read(q, jobs)
      BY <3>1, <3>2 DEF CacheInv, AnswersFresh
    <3> QED
      BY <1>1, <3>1, <3>2, <3>3 DEF CacheInv, NothingLeftBehind, Loaded, Current
  <2> QED
    BY <2>1, <2>2 DEF Poll, ServerReads, FetchFails
<1> QED
  BY <1>3, <1>4

\* A page is opened over what the server has.
LEMMA CacheInvInit == Init => CacheInv
<1> SUFFICES ASSUME Init PROVE CacheInv
  OBVIOUS
<1>1. AnswersFresh
  BY DEF Init, AnswersFresh
<1>2. NothingLeftBehind
  BY DEF Init, NothingLeftBehind, Loaded, Current
<1> QED
  BY <1>1, <1>2, CacheTypeInit DEF CacheInv

\* Every step keeps the invariant.
LEMMA CacheInvNext == CacheInv /\ [Next]_vars => CacheInv'
<1> SUFFICES ASSUME CacheInv, [Next]_vars PROVE CacheInv'
  OBVIOUS
<1>1. CacheTypeOK'
  BY CacheTypeNext DEF CacheInv
<1>2. CASE UNCHANGED vars
  <2>1. UNCHANGED <<jobs, shown, cache, invalid, fetch, answer, requests, event, acts>>
    BY <1>2 DEF vars, fetching
  <2>2. AnswersFresh' /\ NothingLeftBehind'
    BY <2>1 DEF CacheInv, AnswersFresh, NothingLeftBehind, Loaded, Current
  <2> QED
    BY <1>1, <2>2 DEF CacheInv
<1>3. CASE Change
  BY <1>1, <1>3 DEF Change, CacheInv, AnswersFresh, NothingLeftBehind
<1> QED
  BY <1>1, <1>2, <1>3, MutateLeavesNothing, SettleLeavesNothing, ServeLeavesNothing, EventLeavesNothing,
     FetchLeavesNothing DEF CacheInv, Next

\* The invariant holds of every reachable state.
LEMMA CacheInvAlways == Spec => []CacheInv
BY CacheInvInit, CacheInvNext, PTL DEF Spec

\* When no mutation waits and every change has been announced, each query holds the
\* server's state or is marked for a refetch: whatever was refused, answered late or
\* polled in between, nothing of an optimistic update stays unnoticed.
THEOREM NothingLeft == Spec => []NothingLeftBehind
<1>1. CacheInv => NothingLeftBehind
  BY DEF CacheInv
<1> QED
  BY <1>1, CacheInvAlways, PTL

-----------------------------------------------------------------------------
(* What a request does to a list and to its summary.                       *)

Healths == {"empty", "unhealthy", "in_progress", "healthy"}

\* An acknowledgement moves the failing jobs it is about among the acknowledged ones,
\* and nothing else.
LEMMA AckEachSets ==
    ASSUME NEW l \in Lists(Jobs), NEW S
    PROVE  /\ DOMAIN AckEach(l, S) = DOMAIN l
           /\ NeedingAck(AckEach(l, S)) = NeedingAck(l) \ S
           /\ AckedIn(AckEach(l, S)) = AckedIn(l) \cup (NeedingAck(l) \cap S)
           /\ \A s : WithStatus(AckEach(l, S), s) = WithStatus(l, s)
<1> DEFINE k == AckEach(l, S)
<1>1. DOMAIN k = DOMAIN l
  BY DEF AckEach
<1>2. \A j \in DOMAIN l : l[j] \in Cards
  BY ListElim
<1>3. ASSUME NEW j \in DOMAIN l
      PROVE  k[j] = IF j \in S /\ NeedsAck(l[j]) THEN [l[j] EXCEPT !.acked = TRUE] ELSE l[j]
  BY DEF AckEach
<1>4. ASSUME NEW card \in Cards
      PROVE  [card EXCEPT !.acked = TRUE].acked /\ [card EXCEPT !.acked = TRUE].status = card.status
  BY DEF Cards
<1>5. ASSUME NEW j \in DOMAIN l
      PROVE  /\ k[j].status = l[j].status
             /\ k[j].acked <=> l[j].acked \/ (j \in S /\ NeedsAck(l[j]))
  BY <1>2, <1>3, <1>4
<1> HIDE DEF k
<1>6. \A j \in DOMAIN l : NeedsAck(k[j]) <=> NeedsAck(l[j]) /\ j \notin S
  BY <1>5 DEF NeedsAck
<1>7. NeedingAck(k) = NeedingAck(l) \ S
  BY <1>1, <1>6 DEF NeedingAck
<1>8. AckedIn(k) = AckedIn(l) \cup (NeedingAck(l) \cap S)
  BY <1>1, <1>5 DEF NeedingAck, AckedIn
<1>9. \A s : WithStatus(k, s) = WithStatus(l, s)
  BY <1>1, <1>5 DEF WithStatus
<1> QED
  BY <1>1, <1>7, <1>8, <1>9 DEF k

\* Where it finds nothing to acknowledge, nothing changes.
LEMMA AckNothing ==
    ASSUME NEW l \in Lists(Jobs), NEW S, NeedingAck(l) \cap S = {}
    PROVE  AckEach(l, S) = l
BY ListElim DEF AckEach, NeedingAck

\* The health in a summary is that of its counts, and what is unhealthy is part of the total.
LEMMA SummaryCounts ==
    ASSUME NEW l \in Lists(Jobs)
    PROVE  /\ Summary(l).health = HealthFromCounts(Summary(l).total, Summary(l).unhealthy,
                                                   Summary(l).byStatus["progress"])
           /\ Summary(l).unhealthy <= Summary(l).total
<1>1. "progress" \in Statuses
  BY CacheAssumption
<1>2. Summary(l).byStatus["progress"] = Cardinality(WithStatus(l, "progress"))
  BY <1>1 DEF Summary
<1>3. IsFiniteSet(DOMAIN l) /\ NeedingAck(l) \subseteq DOMAIN l
  BY Countable DEF NeedingAck
<1>4. Cardinality(NeedingAck(l)) <= Cardinality(DOMAIN l)
  BY <1>3, FS_Subset
<1> QED
  BY <1>2, <1>4 DEF Summary

\* The counts after an acknowledgement.
LEMMA SummaryAfterAck ==
    ASSUME NEW l \in Lists(Jobs), NEW S, NEW n, n = Cardinality(NeedingAck(l) \cap S)
    PROVE  LET s == Summary(l)
               t == Summary(AckEach(l, S))
           IN  /\ s \in Summaries /\ t \in Summaries
               /\ n \in Nat /\ n <= s.unhealthy
               /\ t.total = s.total /\ t.byStatus = s.byStatus
               /\ t.unhealthy = s.unhealthy - n
               /\ t.acked = s.acked + n
<1> DEFINE U == NeedingAck(l)
           A == AckedIn(l)
           H == U \cap S
           k == AckEach(l, S)
<1>1. k \in Lists(Jobs)
  BY MarkTypes DEF AckEach, Mark
<1>2. U \in SUBSET DOMAIN l /\ A \in SUBSET DOMAIN l /\ H \in SUBSET DOMAIN l /\ H \subseteq U /\ A \cap H = {}
  BY DEF NeedingAck, AckedIn, NeedsAck
<1>3. U \ S = U \ H /\ U \cap H = H
  OBVIOUS
<1>4. /\ DOMAIN k = DOMAIN l /\ NeedingAck(k) = U \ H /\ AckedIn(k) = A \cup H
      /\ \A s : WithStatus(k, s) = WithStatus(l, s)
  BY AckEachSets, <1>3
<1> HIDE DEF U, A, H, k
<1>5. /\ IsFiniteSet(U) /\ IsFiniteSet(A) /\ IsFiniteSet(H)
      /\ Cardinality(U) \in Nat /\ Cardinality(A) \in Nat /\ Cardinality(H) \in Nat
  BY <1>2, Countable
<1>6. Cardinality(U \ H) = Cardinality(U) - Cardinality(H)
  BY <1>3, <1>5, FS_Difference
<1>7. Cardinality(A \cup H) = Cardinality(A) + Cardinality(H)
  <2>1. Cardinality(A \cup H) = Cardinality(A) + Cardinality(H) - Cardinality(A \cap H)
    BY <1>5, FS_Union
  <2>2. Cardinality(A \cap H) = 0
    BY <1>2, FS_EmptySet
  <2> QED
    BY <1>5, <2>1, <2>2
<1>8. Cardinality(H) <= Cardinality(U)
  BY <1>2, <1>5, FS_Subset
<1>9. n = Cardinality(H)
  BY DEF U, H
<1>10. /\ Summary(l).total = Cardinality(DOMAIN l) /\ Summary(k).total = Cardinality(DOMAIN k)
       /\ Summary(l).unhealthy = Cardinality(U) /\ Summary(k).unhealthy = Cardinality(NeedingAck(k))
       /\ Summary(l).acked = Cardinality(A) /\ Summary(k).acked = Cardinality(AckedIn(k))
       /\ Summary(l).byStatus = [s \in Statuses |-> Cardinality(WithStatus(l, s))]
       /\ Summary(k).byStatus = [s \in Statuses |-> Cardinality(WithStatus(k, s))]
  BY DEF Summary, U, A
<1>11. Summary(k).byStatus = Summary(l).byStatus
  BY <1>4, <1>10
<1>12. Summary(l) \in Summaries /\ Summary(k) \in Summaries
  BY <1>1, SummaryType
<1>13. Summary(k).unhealthy = Summary(l).unhealthy - n /\ Summary(k).acked = Summary(l).acked + n
  BY <1>4, <1>6, <1>7, <1>9, <1>10
<1>14. Summary(k).total = Summary(l).total /\ n \in Nat /\ n <= Summary(l).unhealthy
  BY <1>4, <1>5, <1>8, <1>9, <1>10
<1> QED
  BY <1>11, <1>12, <1>13, <1>14 DEF k

\* The counts after a deletion.
LEMMA SummaryAfterDelete ==
    ASSUME NEW l \in Lists(Jobs), NEW j \in DOMAIN l
    PROVE  LET s == Summary(l)
               t == Summary(Restricted(l, Jobs \ {j}))
           IN  /\ s \in Summaries /\ t \in Summaries /\ l[j] \in Cards
               /\ s.total > 0 /\ t.total = s.total - 1
               /\ IF NeedsAck(l[j]) THEN s.unhealthy > 0 /\ t.unhealthy = s.unhealthy - 1
                                    ELSE t.unhealthy = s.unhealthy
               /\ IF l[j].acked THEN s.acked > 0 /\ t.acked = s.acked - 1 ELSE t.acked = s.acked
               /\ \A st \in Statuses :
                      IF st = l[j].status THEN s.byStatus[st] > 0 /\ t.byStatus[st] = s.byStatus[st] - 1
                                          ELSE t.byStatus[st] = s.byStatus[st]
<1> DEFINE k == Restricted(l, Jobs \ {j})
<1>1. k \in Lists(Jobs)
  BY RestrictedType
<1>2. DOMAIN k = DOMAIN l \ {j} /\ \A i \in DOMAIN k : k[i] = l[i]
  BY ListElim DEF Restricted
<1>3. /\ NeedingAck(k) = NeedingAck(l) \ {j} /\ AckedIn(k) = AckedIn(l) \ {j}
      /\ \A st : WithStatus(k, st) = WithStatus(l, st) \ {j}
  BY <1>2 DEF NeedingAck, AckedIn, WithStatus
<1>4. /\ NeedingAck(l) \in SUBSET DOMAIN l /\ AckedIn(l) \in SUBSET DOMAIN l
      /\ \A st : WithStatus(l, st) \in SUBSET DOMAIN l
      /\ j \in NeedingAck(l) <=> NeedsAck(l[j])
      /\ j \in AckedIn(l) <=> l[j].acked
      /\ \A st : j \in WithStatus(l, st) <=> st = l[j].status
  BY DEF NeedingAck, AckedIn, WithStatus
<1> HIDE DEF k
<1>5. ASSUME NEW T \in SUBSET DOMAIN l
      PROVE  IF j \in T THEN Cardinality(T) > 0 /\ Cardinality(T \ {j}) = Cardinality(T) - 1
                        ELSE Cardinality(T \ {j}) = Cardinality(T)
  <2>1. IsFiniteSet(T) /\ Cardinality(T) \in Nat /\ IsFiniteSet(T \ {j}) /\ Cardinality(T \ {j}) \in Nat
    BY Countable
  <2>2. Cardinality(T \ {j}) = IF j \in T THEN Cardinality(T) - 1 ELSE Cardinality(T)
    BY <2>1, FS_RemoveElement
  <2> QED
    BY <2>1, <2>2
<1>6. /\ Summary(l).total = Cardinality(DOMAIN l) /\ Summary(k).total = Cardinality(DOMAIN k)
      /\ Summary(l).unhealthy = Cardinality(NeedingAck(l)) /\ Summary(k).unhealthy = Cardinality(NeedingAck(k))
      /\ Summary(l).acked = Cardinality(AckedIn(l)) /\ Summary(k).acked = Cardinality(AckedIn(k))
      /\ \A st \in Statuses : /\ Summary(l).byStatus[st] = Cardinality(WithStatus(l, st))
                               /\ Summary(k).byStatus[st] = Cardinality(WithStatus(k, st))
  BY DEF Summary
<1>7. Summary(l).total > 0 /\ Summary(k).total = Summary(l).total - 1
  BY <1>2, <1>5, <1>6
<1>8. IF NeedsAck(l[j]) THEN Summary(l).unhealthy > 0 /\ Summary(k).unhealthy = Summary(l).unhealthy - 1
                        ELSE Summary(k).unhealthy = Summary(l).unhealthy
  BY <1>3, <1>4, <1>5, <1>6
<1>9. IF l[j].acked THEN Summary(l).acked > 0 /\ Summary(k).acked = Summary(l).acked - 1
                    ELSE Summary(k).acked = Summary(l).acked
  BY <1>3, <1>4, <1>5, <1>6
<1>10. ASSUME NEW st \in Statuses
       PROVE  IF st = l[j].status
              THEN Summary(l).byStatus[st] > 0 /\ Summary(k).byStatus[st] = Summary(l).byStatus[st] - 1
              ELSE Summary(k).byStatus[st] = Summary(l).byStatus[st]
  BY <1>3, <1>4, <1>5, <1>6
<1>11. Summary(l) \in Summaries /\ Summary(k) \in Summaries /\ l[j] \in Cards
  BY <1>1, SummaryType, ListElim
<1> QED
  BY <1>7, <1>8, <1>9, <1>10, <1>11 DEF k

-----------------------------------------------------------------------------
(* What the hooks make of a summary is the summary of what the server      *)
(* makes of the jobs.                                                      *)

\* Summaries with the same counts.
LEMMA SameNumbersIntro ==
    ASSUME NEW a \in Summaries, NEW b \in Summaries, a.total = b.total, a.unhealthy = b.unhealthy,
           a.acked = b.acked, a.byStatus = b.byStatus
    PROVE  SameNumbers(a, b) /\ (a.health = b.health => a = b)
BY DEF SameNumbers, Summaries

\* All failing jobs of a list are acknowledged.
LEMMA AllAckedIsRight ==
    ASSUME NEW l \in Lists(Jobs), NEW S, NeedingAck(l) \subseteq S, NEW h \in Healths
    PROVE  LET a == AllAcked(Summary(l), h)
               b == Summary(AckEach(l, S))
           IN  SameNumbers(a, b) /\ (h = b.health => a = b)
<1> DEFINE s == Summary(l)
           b == Summary(AckEach(l, S))
           a == AllAcked(s, h)
<1>1. NeedingAck(l) \cap S = NeedingAck(l) /\ s.unhealthy = Cardinality(NeedingAck(l))
  BY DEF Summary
<1>2. /\ s \in Summaries /\ b \in Summaries
      /\ b.total = s.total /\ b.byStatus = s.byStatus
      /\ b.unhealthy = s.unhealthy - s.unhealthy
      /\ b.acked = s.acked + s.unhealthy
  BY <1>1, SummaryAfterAck
<1> HIDE DEF s, b
<1>3. a \in Summaries
  BY <1>2, AckRowTypes DEF Healths
<1>4. /\ a.total = s.total /\ a.byStatus = s.byStatus /\ a.unhealthy = 0
      /\ a.acked = s.acked + s.unhealthy /\ a.health = h
  BY <1>2 DEF AllAcked, Summaries
<1>5. b.unhealthy = 0
  BY <1>2, SummaryElim
<1> HIDE DEF a
<1>6. SameNumbers(a, b) /\ (h = b.health => a = b)
  BY <1>2, <1>3, <1>4, <1>5, SameNumbersIntro
<1> QED
  BY <1>6 DEF a, s, b

\* One of them is.
LEMMA OneAckedIsRight ==
    ASSUME NEW l \in Lists(Jobs), NEW j \in NeedingAck(l)
    PROVE  SameNumbers(OneAcked(Summary(l)), Summary(AckEach(l, {j})))
<1> DEFINE s == Summary(l)
           b == Summary(AckEach(l, {j}))
           a == OneAcked(s)
<1>1. 1 = Cardinality(NeedingAck(l) \cap {j})
  <2>1. NeedingAck(l) \cap {j} = {j}
    OBVIOUS
  <2> QED
    BY <2>1, FS_Singleton
<1>2. /\ s \in Summaries /\ b \in Summaries
      /\ b.total = s.total /\ b.byStatus = s.byStatus
      /\ 1 <= s.unhealthy /\ b.unhealthy = s.unhealthy - 1
      /\ b.acked = s.acked + 1
  BY <1>1, SummaryAfterAck
<1> HIDE DEF s, b
<1>3. a \in Summaries
  BY <1>2, AckRowTypes
<1>4. /\ a.total = s.total /\ a.byStatus = s.byStatus /\ a.unhealthy = Less(s.unhealthy, 1)
      /\ a.acked = s.acked + 1
  BY <1>2 DEF OneAcked, Summaries
<1>5. Less(s.unhealthy, 1) = s.unhealthy - 1
  BY <1>2, SummaryElim DEF Less
<1> HIDE DEF a
<1>6. SameNumbers(a, b)
  BY <1>2, <1>3, <1>4, <1>5, SameNumbersIntro
<1> QED
  BY <1>6 DEF a, s, b

\* Some of them are, and the overall status follows the counts.
LEMMA AcknowledgedIsRight ==
    ASSUME NEW l \in Lists(Jobs), NEW S, NEW n, n = Cardinality(NeedingAck(l) \cap S), n > 0
    PROVE  Acknowledged(Summary(l), n) = Summary(AckEach(l, S))
<1> DEFINE k == AckEach(l, S)
           s == Summary(l)
           b == Summary(k)
           a == Acknowledged(s, n)
<1>1. /\ s \in Summaries /\ b \in Summaries
      /\ n \in Nat /\ n <= s.unhealthy
      /\ b.total = s.total /\ b.byStatus = s.byStatus
      /\ b.unhealthy = s.unhealthy - n
      /\ b.acked = s.acked + n
  BY SummaryAfterAck
<1>2. /\ s.health = HealthFromCounts(s.total, s.unhealthy, s.byStatus["progress"])
      /\ s.unhealthy <= s.total
  BY SummaryCounts
<1>3. b.health = HealthFromCounts(b.total, b.unhealthy, b.byStatus["progress"])
  <2>1. k \in Lists(Jobs)
    BY MarkTypes DEF AckEach, Mark
  <2> HIDE DEF k
  <2> QED
    BY <2>1, SummaryCounts
<1> HIDE DEF s, b
<1>4. a \in Summaries
  BY <1>1, AckRowTypes
<1>5. /\ a.total = s.total /\ a.byStatus = s.byStatus /\ a.unhealthy = Less(s.unhealthy, n)
      /\ a.acked = s.acked + n
      /\ a.health = IF s.unhealthy <= n THEN WithoutUnhealthy(s) ELSE s.health
  BY <1>1 DEF Acknowledged, Summaries
<1>6. /\ s.unhealthy \in Nat /\ s.total \in Nat /\ s.total > 0 /\ s.unhealthy > 0
      /\ s.byStatus["progress"] \in Nat
  BY <1>1, <1>2, SummaryElim, CacheAssumption
<1>7. Less(s.unhealthy, n) = s.unhealthy - n
  BY <1>1, <1>6 DEF Less
<1>8. a.health = b.health
  BY <1>1, <1>2, <1>3, <1>5, <1>6 DEF HealthFromCounts, WithoutUnhealthy
<1> HIDE DEF a
<1>9. a = b
  BY <1>1, <1>4, <1>5, <1>7, <1>8, SameNumbersIntro
<1> QED
  BY <1>9 DEF a, s, b, k

\* When nothing is unhealthy any more, the overall status is that of the jobs in progress.
LEMMA AckAllHealth ==
    ASSUME NEW l \in Lists(Jobs), NEW S, NeedingAck(l) \subseteq S, Summary(l).unhealthy > 0
    PROVE  Summary(AckEach(l, S)).health = WithoutUnhealthy(Summary(l))
<1> DEFINE k == AckEach(l, S)
           s == Summary(l)
           b == Summary(k)
<1>1. NeedingAck(l) \cap S = NeedingAck(l) /\ s.unhealthy = Cardinality(NeedingAck(l))
  BY DEF Summary
<1>2. /\ s \in Summaries /\ b \in Summaries
      /\ b.total = s.total /\ b.byStatus = s.byStatus
      /\ b.unhealthy = s.unhealthy - s.unhealthy
  BY <1>1, SummaryAfterAck
<1>3. s.unhealthy <= s.total /\ s.unhealthy > 0
  BY SummaryCounts
<1>4. b.health = HealthFromCounts(b.total, b.unhealthy, b.byStatus["progress"])
  <2>1. k \in Lists(Jobs)
    BY MarkTypes DEF AckEach, Mark
  <2> HIDE DEF k
  <2> QED
    BY <2>1, SummaryCounts
<1> HIDE DEF s, b
<1>5. s.unhealthy \in Nat /\ s.total \in Nat /\ s.byStatus["progress"] \in Nat
  BY <1>2, SummaryElim, CacheAssumption
<1>6. b.total > 0 /\ b.unhealthy = 0
  BY <1>2, <1>3, <1>5
<1>7. b.health = WithoutUnhealthy(s)
  BY <1>2, <1>4, <1>5, <1>6 DEF HealthFromCounts, WithoutUnhealthy
<1> QED
  BY <1>7 DEF s, b, k

\* A job is removed.
LEMMA WithoutIsRight ==
    ASSUME NEW l \in Lists(Jobs), NEW j \in DOMAIN l
    PROVE  SameNumbers(Without(Summary(l), l[j]), Summary(Restricted(l, Jobs \ {j})))
<1> DEFINE s == Summary(l)
           b == Summary(Restricted(l, Jobs \ {j}))
           a == Without(s, l[j])
<1>1. /\ s \in Summaries /\ b \in Summaries /\ l[j] \in Cards
      /\ s.total > 0 /\ b.total = s.total - 1
      /\ IF NeedsAck(l[j]) THEN s.unhealthy > 0 /\ b.unhealthy = s.unhealthy - 1
                           ELSE b.unhealthy = s.unhealthy
      /\ IF l[j].acked THEN s.acked > 0 /\ b.acked = s.acked - 1 ELSE b.acked = s.acked
      /\ \A st \in Statuses :
             IF st = l[j].status THEN s.byStatus[st] > 0 /\ b.byStatus[st] = s.byStatus[st] - 1
                                 ELSE b.byStatus[st] = s.byStatus[st]
  BY SummaryAfterDelete
<1> HIDE DEF s, b
<1>2. a \in Summaries
  BY <1>1, WithoutType
<1>3. /\ s.total \in Nat /\ s.unhealthy \in Nat /\ s.acked \in Nat
      /\ s.byStatus \in [Statuses -> Nat] /\ b.byStatus \in [Statuses -> Nat]
  BY <1>1, SummaryElim
<1>4. \A n \in Nat : n > 0 => Less(n, 1) = n - 1
  BY DEF Less
<1>5. /\ a.total = Less(s.total, 1)
      /\ a.unhealthy = IF NeedsAck(l[j]) THEN Less(s.unhealthy, 1) ELSE s.unhealthy
      /\ a.acked = IF l[j].acked THEN Less(s.acked, 1) ELSE s.acked
      /\ a.byStatus = [s.byStatus EXCEPT ![l[j].status] = Less(s.byStatus[l[j].status], 1)]
  BY <1>1, SummaryElim DEF Without
<1>6. a.byStatus = b.byStatus
  <2>1. l[j].status \in Statuses
    BY <1>1 DEF Cards
  <2>2. \A st \in Statuses : a.byStatus[st] = b.byStatus[st]
    BY <1>1, <1>3, <1>4, <1>5, <2>1
  <2>3. a.byStatus \in [Statuses -> Nat]
    BY <1>2, SummaryElim
  <2> QED
    BY <1>3, <2>2, <2>3
<1>7. a.total = b.total /\ a.acked = b.acked
  BY <1>1, <1>3, <1>4, <1>5
<1>8. a.unhealthy = b.unhealthy
  BY <1>1, <1>3, <1>4, <1>5
<1> HIDE DEF a
<1>9. SameNumbers(a, b)
  BY <1>1, <1>2, <1>6, <1>7, <1>8, SameNumbersIntro
<1> QED
  BY <1>9 DEF a, s, b

-----------------------------------------------------------------------------
(* The lists: what the server answers after a request is the answer before *)
(* it, changed as the hook changes it.                                     *)

\* An acknowledgement leaves the status of every job.
LEMMA AckEachStatus ==
    ASSUME NEW l \in Lists(Jobs), NEW S, NEW j \in DOMAIN l
    PROVE  AckEach(l, S)[j].status = l[j].status
<1>1. l[j] \in Cards
  BY ListElim
<1>2. [l[j] EXCEPT !.acked = TRUE].status = l[j].status
  BY <1>1 DEF Cards
<1> QED
  BY <1>2 DEF AckEach

\* It can be done to a part of a list.
LEMMA AckEachPart ==
    ASSUME NEW l, NEW S, NEW T
    PROVE  Restricted(AckEach(l, S), T) = AckEach(Restricted(l, T), S)
BY DEF Restricted, AckEach

\* The failing jobs of a part are those of the whole that are in it.
LEMMA NeedingAckPart ==
    ASSUME NEW l, NEW T
    PROVE  NeedingAck(Restricted(l, T)) = NeedingAck(l) \cap T
BY DEF Restricted, NeedingAck

\* The listing after an acknowledgement.
LEMMA ListingAfterAck ==
    ASSUME NEW l \in Lists(Jobs), NEW S
    PROVE  Listing(AckEach(l, S)) = [list |-> AckEach(Listing(l).list, S), total |-> Listing(l).total]
<1> DEFINE k == AckEach(l, S)
           F == {j \in DOMAIN l : l[j].status \in Filter}
           G == {j \in DOMAIN k : k[j].status \in Filter}
<1>1. F = G
  BY AckEachStatus, AckEachSets
<1>2. /\ Listing(l) = [list |-> Restricted(l, F), total |-> Cardinality(DOMAIN Restricted(l, F))]
      /\ Listing(k) = [list |-> Restricted(k, G), total |-> Cardinality(DOMAIN Restricted(k, G))]
  BY DEF Listing
<1>3. DOMAIN Restricted(k, G) = DOMAIN k \cap G /\ DOMAIN Restricted(l, F) = DOMAIN l \cap F
  BY DEF Restricted
<1>4. DOMAIN k = DOMAIN l
  BY DEF AckEach
<1>5. Restricted(k, F) = AckEach(Restricted(l, F), S)
  BY AckEachPart
<1> HIDE DEF k, F, G
<1>6. Listing(k) = [list |-> AckEach(Listing(l).list, S), total |-> Listing(l).total]
  BY <1>1, <1>2, <1>3, <1>4, <1>5
<1> QED
  BY <1>6 DEF k

\* To acknowledge a failing job for good is to acknowledge it.
LEMMA UpdateIsAck ==
    ASSUME NEW l, NEW j, j \in DOMAIN l => NeedsAck(l[j])
    PROVE  UpdateJobInCache(l, j) = AckEach(l, {j})
BY DEF UpdateJobInCache, AckEach

\* Parts of parts.
LEMMA RestrictedSwap ==
    ASSUME NEW l, NEW S, NEW T
    PROVE  Restricted(Restricted(l, S), T) = Restricted(Restricted(l, T), S)
BY DEF Restricted

\* To take away what is not there changes nothing.
LEMMA RestrictedNothing ==
    ASSUME NEW l \in Lists(Jobs), NEW j, j \notin DOMAIN l
    PROVE  Restricted(l, Jobs \ {j}) = l
<1>1. DOMAIN l \subseteq Jobs
  BY ListElim
<1>2. DOMAIN l \cap (Jobs \ {j}) = DOMAIN l
  BY <1>1
<1> QED
  BY <1>2, ListElim DEF Restricted

\* The listing after a deletion.
LEMMA ListingAfterDelete ==
    ASSUME NEW l \in Lists(Jobs), NEW j
    PROVE  LET c == Listing(l)
           IN  Listing(Restricted(l, Jobs \ {j})) =
                   [list |-> Restricted(c.list, Jobs \ {j}),
                    total |-> IF j \in DOMAIN c.list THEN Less(c.total, 1) ELSE c.total]
<1> DEFINE k == Restricted(l, Jobs \ {j})
           F == {i \in DOMAIN l : l[i].status \in Filter}
           G == {i \in DOMAIN k : k[i].status \in Filter}
           c == Restricted(l, F)
           d == Restricted(k, G)
<1>1. DOMAIN k = DOMAIN l \ {j} /\ \A i \in DOMAIN k : k[i] = l[i]
  BY ListElim DEF Restricted
<1>2. G = F \ {j}
  BY <1>1
<1>3. d = Restricted(c, Jobs \ {j}) /\ DOMAIN d = DOMAIN c \ {j}
  BY <1>1, <1>2, ListElim DEF Restricted
<1>4. /\ Listing(l) = [list |-> c, total |-> Cardinality(DOMAIN c)]
      /\ Listing(k) = [list |-> d, total |-> Cardinality(DOMAIN d)]
  BY DEF Listing
<1>5. c \in Lists(Jobs)
  BY RestrictedType
<1> HIDE DEF k, F, G, c, d
<1>6. IsFiniteSet(DOMAIN c) /\ Cardinality(DOMAIN c) \in Nat /\ Cardinality(DOMAIN c \ {j}) \in Nat
  BY <1>5, Countable
<1>7. Cardinality(DOMAIN c \ {j}) = IF j \in DOMAIN c THEN Cardinality(DOMAIN c) - 1 ELSE Cardinality(DOMAIN c)
  BY <1>6, FS_RemoveElement
<1>8. Cardinality(DOMAIN d) = IF j \in DOMAIN c THEN Less(Cardinality(DOMAIN c), 1) ELSE Cardinality(DOMAIN c)
  BY <1>3, <1>6, <1>7 DEF Less
<1>9. Listing(k) = [list |-> Restricted(Listing(l).list, Jobs \ {j}),
                    total |-> IF j \in DOMAIN Listing(l).list THEN Less(Listing(l).total, 1) ELSE Listing(l).total]
  BY <1>3, <1>4, <1>8
<1> QED
  BY <1>9 DEF k

-----------------------------------------------------------------------------
(* A click over a cache that holds the server's state.                     *)

Fresh == \A q \in Queries : Loaded(q) => Current(q)

\* What the cache holds then.
LEMMA FreshData ==
    ASSUME CacheTypeOK, Fresh
    PROVE  /\ jobs \in Lists(Jobs)
           /\ Loaded("health") => cache["health"] = Summary(jobs)
           /\ Loaded("groups") => cache["groups"] = [g \in Groups |-> Summary(Restricted(jobs, JobsIn(g)))]
           /\ Loaded("groupJobs") => cache["groupJobs"] = Restricted(jobs, JobsIn(HomeGroup))
           /\ Loaded("jobs") => cache["jobs"] = Listing(jobs)
<1>1. jobs \in Lists(Jobs)
  BY TablesAreLists DEF CacheTypeOK
<1>2. \A q \in Queries : Loaded(q) => cache[q] = Read(q, jobs)
  BY DEF Fresh, Current
<1>3. /\ Read("health", jobs) = Summary(jobs)
      /\ Read("groups", jobs) = [g \in Groups |-> Summary(Restricted(jobs, JobsIn(g)))]
      /\ Read("groupJobs", jobs) = Restricted(jobs, JobsIn(HomeGroup))
      /\ Read("jobs", jobs) = Listing(jobs)
  BY DEF Read
<1> QED
  BY <1>1, <1>2, <1>3 DEF Queries

\* The job on a card is the job at the server, and the hooks find it.
LEMMA CardIsJob ==
    ASSUME CacheTypeOK, Fresh, NEW j, OnCard(j) # NULL
    PROVE  j \in DOMAIN jobs /\ OnCard(j) = jobs[j] /\ Sighting(j) = jobs[j] /\ Sighting(j) # NULL
<1>1. ASSUME NEW T, j \in DOMAIN Restricted(jobs, T)
      PROVE  j \in DOMAIN jobs /\ Restricted(jobs, T)[j] = jobs[j]
  BY <1>1 DEF Restricted
<1>2. Loaded("jobs") /\ j \in DOMAIN cache["jobs"].list => j \in DOMAIN jobs /\ cache["jobs"].list[j] = jobs[j]
  BY <1>1, FreshData DEF Listing
<1>3. Loaded("groupJobs") /\ j \in DOMAIN cache["groupJobs"] => j \in DOMAIN jobs /\ cache["groupJobs"][j] = jobs[j]
  BY <1>1, FreshData
<1>4. \/ Loaded("jobs") /\ j \in DOMAIN cache["jobs"].list
      \/ Loaded("groupJobs") /\ j \in DOMAIN cache["groupJobs"]
  BY DEF OnCard
<1>5. j \in DOMAIN jobs /\ OnCard(j) = jobs[j] /\ Sighting(j) = jobs[j]
  BY <1>2, <1>3, <1>4 DEF OnCard, Sighting
<1> QED
  BY <1>5

\* What the server will answer after an acknowledgement, query by query: the part of a
\* group that has nothing to acknowledge stays as it is.
LEMMA GroupPart ==
    ASSUME NEW l \in Lists(Jobs), NEW S, NEW g
    PROVE  /\ Restricted(l, JobsIn(g)) \in Lists(Jobs)
           /\ Restricted(AckEach(l, S), JobsIn(g)) = AckEach(Restricted(l, JobsIn(g)), S)
           /\ NeedingAck(Restricted(l, JobsIn(g))) = NeedingAck(l) \cap JobsIn(g)
           /\ NeedingAck(l) \cap JobsIn(g) \cap S = {}
                  => AckEach(Restricted(l, JobsIn(g)), S) = Restricted(l, JobsIn(g))
<1>1. Restricted(l, JobsIn(g)) \in Lists(Jobs)
  BY RestrictedType
<1>2. NeedingAck(Restricted(l, JobsIn(g))) = NeedingAck(l) \cap JobsIn(g)
  BY NeedingAckPart
<1> QED
  BY <1>1, <1>2, AckEachPart, AckNothing

\* A summary has its own numbers.
LEMMA SameNumbersSelf == ASSUME NEW a \in Summaries PROVE SameNumbers(a, a)
BY DEF SameNumbers, Summaries

\* To set the list of a listing.
LEMMA WithList ==
    ASSUME NEW l, NEW k
    PROVE  [Listing(l) EXCEPT !.list = k] = [list |-> k, total |-> Listing(l).total]
<1>1. PICK i, n : Listing(l) = [list |-> i, total |-> n]
  BY DEF Listing
<1>2. [[list |-> i, total |-> n] EXCEPT !.list = k] = [list |-> k, total |-> n]
  OBVIOUS
<1>3. [list |-> i, total |-> n].total = n
  OBVIOUS
<1> QED
  BY <1>1, <1>2, <1>3

\* useAckJob shows what the refetch will show.
LEMMA AckJobPredicted ==
    ASSUME CacheTypeOK, Fresh, NEW op \in Operations, CanAckJob(op),
           NEW q \in Queries, Loaded(q), cache'[q] = AckJobData(q, cache[q], op.target)
    PROVE  Predicted(q, op)
<1> DEFINE j == op.target
           k == AckEach(jobs, {j})
           job == Sighting(j)
<1>1. op.kind = "ackJob" /\ j \in Jobs /\ GroupOf[j] \in Groups /\ Effect(op, jobs) = k
  BY OperationElim, CacheAssumption DEF CanAckJob, Effect
<1>2. /\ jobs \in Lists(Jobs)
      /\ j \in DOMAIN jobs /\ job = jobs[j] /\ job # NULL /\ NeedsAck(jobs[j])
      /\ job.status \in Unhealthy
  BY CardIsJob, FreshData DEF CanAckJob, NeedsAck
<1>3. j \in NeedingAck(jobs)
  BY <1>2 DEF NeedingAck
<1> HIDE DEF job
<1>4. CASE q = "health"
  <2>1. 1 = Cardinality(NeedingAck(jobs) \cap {j})
    <3>1. NeedingAck(jobs) \cap {j} = {j}
      BY <1>3
    <3> QED
      BY <3>1, FS_Singleton
  <2>2. Acknowledged(Summary(jobs), 1) = Summary(k)
    BY <1>2, <2>1, AcknowledgedIsRight
  <2>3. cache'[q] = Acknowledged(Summary(jobs), 1)
    BY <1>2, <1>4, FreshData DEF AckJobData, job
  <2>4. Read(q, k) = Summary(k)
    BY <1>4 DEF Read
  <2> QED
    BY <1>1, <1>4, <2>2, <2>3, <2>4 DEF Predicted
<1>5. CASE q = "groups"
  <2> DEFINE part(g) == Restricted(jobs, JobsIn(g))
             h == GroupOf[j]
             rows == [g \in Groups |-> Summary(part(g))]
  <2>1. cache[q] = rows
    BY <1>5, FreshData
  <2>2. cache'[q] = [rows EXCEPT ![h] = OneAcked(rows[h])]
    BY <1>2, <1>5, <2>1 DEF AckJobData, job
  <2>3. Read(q, k) = [g \in Groups |-> Summary(Restricted(k, JobsIn(g)))]
    BY <1>5 DEF Read
  <2>4. ASSUME NEW g \in Groups PROVE SameNumbers(cache'[q][g], Read(q, k)[g])
    <3>1. /\ part(g) \in Lists(Jobs) /\ Restricted(k, JobsIn(g)) = AckEach(part(g), {j})
          /\ NeedingAck(part(g)) = NeedingAck(jobs) \cap JobsIn(g)
      BY <1>2, GroupPart
    <3>2. CASE g = h
      <4>1. j \in NeedingAck(part(g))
        BY <1>1, <1>3, <3>1, <3>2 DEF JobsIn
      <4>2. SameNumbers(OneAcked(Summary(part(g))), Summary(AckEach(part(g), {j})))
        BY <3>1, <4>1, OneAckedIsRight
      <4>3. cache'[q][g] = OneAcked(Summary(part(g)))
        BY <2>2, <3>2
      <4> QED
        BY <2>3, <3>1, <4>2, <4>3
    <3>3. CASE g # h
      <4>1. NeedingAck(jobs) \cap JobsIn(g) \cap {j} = {}
        BY <3>3 DEF JobsIn
      <4>2. AckEach(part(g), {j}) = part(g)
        BY <1>2, <4>1, GroupPart
      <4>3. cache'[q][g] = Summary(part(g))
        BY <2>2, <3>3
      <4>4. SameNumbers(Summary(part(g)), Summary(part(g)))
        BY <3>1, SummaryType, SameNumbersSelf
      <4> QED
        BY <2>3, <3>1, <4>2, <4>3, <4>4
    <3> QED
      BY <3>2, <3>3
  <2> QED
    BY <1>1, <1>5, <2>4 DEF Predicted
<1>6. CASE q = "groupJobs"
  <2> DEFINE part == Restricted(jobs, JobsIn(HomeGroup))
  <2>1. cache'[q] = UpdateJobInCache(part, j)
    BY <1>6, FreshData DEF AckJobData
  <2>2. j \in DOMAIN part => NeedsAck(part[j])
    BY <1>2 DEF Restricted
  <2>3. UpdateJobInCache(part, j) = AckEach(part, {j})
    BY <2>2, UpdateIsAck
  <2>4. Read(q, k) = Restricted(k, JobsIn(HomeGroup))
    BY <1>6 DEF Read
  <2>5. Restricted(k, JobsIn(HomeGroup)) = AckEach(part, {j})
    BY AckEachPart
  <2> QED
    BY <1>1, <1>6, <2>1, <2>3, <2>4, <2>5 DEF Predicted
<1>7. CASE q = "jobs"
  <2> DEFINE list == Listing(jobs).list
  <2>1. cache'[q] = [Listing(jobs) EXCEPT !.list = UpdateJobInCache(list, j)]
    BY <1>7, FreshData DEF AckJobData
  <2>2. j \in DOMAIN list => NeedsAck(list[j])
    BY <1>2 DEF Listing, Restricted
  <2>3. UpdateJobInCache(list, j) = AckEach(list, {j})
    BY <2>2, UpdateIsAck
  <2>4. Read(q, k) = Listing(k)
    BY <1>7 DEF Read
  <2>5. Listing(k) = [list |-> AckEach(list, {j}), total |-> Listing(jobs).total]
    BY <1>2, ListingAfterAck
  <2>6. cache'[q] = [list |-> AckEach(list, {j}), total |-> Listing(jobs).total]
    BY <2>1, <2>3, WithList
  <2> QED
    BY <1>1, <1>7, <2>4, <2>5, <2>6 DEF Predicted
<1> QED
  BY <1>4, <1>5, <1>6, <1>7 DEF Queries

\* The lists after an acknowledgement that skips the jobs it is not for.
LEMMA MarkedLists ==
    ASSUME CacheTypeOK, Fresh, NEW S, NEW q \in {"groupJobs", "jobs"}, Loaded(q),
           q = "groupJobs" => cache'[q] = Mark(cache[q], S),
           q = "jobs" => cache'[q] = [cache[q] EXCEPT !.list = Mark(cache[q].list, S)]
    PROVE  cache'[q] = Read(q, AckEach(jobs, S))
<1>1. ASSUME NEW l PROVE Mark(l, S) = AckEach(l, S)
  BY DEF Mark, AckEach
<1>2. CASE q = "groupJobs"
  <2>1. cache'[q] = AckEach(Restricted(jobs, JobsIn(HomeGroup)), S)
    BY <1>1, <1>2, FreshData
  <2> QED
    BY <1>2, <2>1, AckEachPart DEF Read
<1>3. CASE q = "jobs"
  <2>1. cache'[q] = [Listing(jobs) EXCEPT !.list = AckEach(Listing(jobs).list, S)]
    BY <1>1, <1>3, FreshData
  <2>2. Listing(AckEach(jobs, S)) = [list |-> AckEach(Listing(jobs).list, S), total |-> Listing(jobs).total]
    BY FreshData, ListingAfterAck
  <2>3. Read(q, AckEach(jobs, S)) = Listing(AckEach(jobs, S))
    BY <1>3 DEF Read
  <2> QED
    BY <2>1, <2>2, <2>3, WithList
<1> QED
  BY <1>2, <1>3

\* useAckGroup shows what the refetch will show: the number it takes off the overall status
\* is that of the group's row.
LEMMA AckGroupPredicted ==
    ASSUME CacheTypeOK, Fresh, NEW op \in Operations, CanAckGroup(op),
           NEW q \in Queries, Loaded(q), cache'[q] = AckGroupData(q, cache[q], op.target)
    PROVE  Predicted(q, op)
<1> DEFINE h == op.target
           S == JobsIn(h)
           k == AckEach(jobs, S)
           part(g) == Restricted(jobs, JobsIn(g))
           rows == [g \in Groups |-> Summary(part(g))]
           n == cache["groups"][h].unhealthy
<1>1. op.kind = "ackGroup" /\ h \in Groups /\ Effect(op, jobs) = k
  BY OperationElim DEF CanAckGroup, Effect
<1>2. jobs \in Lists(Jobs) /\ Loaded("groups") /\ n > 0 /\ cache["groups"] = rows
  BY FreshData DEF CanAckGroup
<1>3. n = Cardinality(NeedingAck(jobs) \cap S)
  <2>1. n = Summary(part(h)).unhealthy
    BY <1>1, <1>2
  <2>2. Summary(part(h)).unhealthy = Cardinality(NeedingAck(part(h)))
    BY DEF Summary
  <2> QED
    BY <2>1, <2>2, NeedingAckPart
<1> HIDE DEF n
<1>4. CASE q = "health"
  <2>1. Acknowledged(Summary(jobs), n) = Summary(k)
    BY <1>2, <1>3, AcknowledgedIsRight
  <2>2. cache'[q] = Acknowledged(Summary(jobs), n)
    BY <1>2, <1>4, FreshData DEF AckGroupData, n
  <2>3. Read(q, k) = Summary(k)
    BY <1>4 DEF Read
  <2> QED
    BY <1>1, <1>4, <2>1, <2>2, <2>3 DEF Predicted
<1>5. CASE q = "groups"
  <2>1. cache'[q] = [rows EXCEPT ![h] = AllAcked(rows[h], "healthy")]
    BY <1>2, <1>5 DEF AckGroupData
  <2>2. Read(q, k) = [g \in Groups |-> Summary(Restricted(k, JobsIn(g)))]
    BY <1>5 DEF Read
  <2>3. ASSUME NEW g \in Groups PROVE SameNumbers(cache'[q][g], Read(q, k)[g])
    <3>1. /\ part(g) \in Lists(Jobs) /\ Restricted(k, JobsIn(g)) = AckEach(part(g), S)
          /\ NeedingAck(part(g)) = NeedingAck(jobs) \cap JobsIn(g)
      BY <1>2, GroupPart
    <3>2. CASE g = h
      <4>1. NeedingAck(part(g)) \subseteq S
        BY <3>1, <3>2
      <4>2. SameNumbers(AllAcked(Summary(part(g)), "healthy"), Summary(AckEach(part(g), S)))
        BY <3>1, <4>1, AllAckedIsRight DEF Healths
      <4>3. cache'[q][g] = AllAcked(Summary(part(g)), "healthy")
        BY <2>1, <3>2
      <4> QED
        BY <2>2, <3>1, <4>2, <4>3
    <3>3. CASE g # h
      <4>1. NeedingAck(jobs) \cap JobsIn(g) \cap S = {}
        BY <3>3 DEF JobsIn
      <4>2. AckEach(part(g), S) = part(g)
        BY <1>2, <4>1, GroupPart
      <4>3. cache'[q][g] = Summary(part(g))
        BY <2>1, <3>3
      <4>4. SameNumbers(Summary(part(g)), Summary(part(g)))
        BY <3>1, SummaryType, SameNumbersSelf
      <4> QED
        BY <2>2, <3>1, <4>2, <4>3, <4>4
    <3> QED
      BY <3>2, <3>3
  <2> QED
    BY <1>1, <1>5, <2>3 DEF Predicted
<1>6. CASE q \in {"groupJobs", "jobs"}
  <2>1. cache'[q] = Read(q, k)
    <3>1. /\ q = "groupJobs" => cache'[q] = Mark(cache[q], S)
          /\ q = "jobs" => cache'[q] = [cache[q] EXCEPT !.list = Mark(cache[q].list, S)]
      BY DEF AckGroupData
    <3> QED
      BY <1>6, <3>1, MarkedLists
  <2> QED
    BY <1>1, <1>6, <2>1 DEF Predicted
<1> QED
  BY <1>4, <1>5, <1>6 DEF Queries

\* useAckAll shows what the refetch will show, down to the overall status.  The page it is
\* on shows the groups, so their lists are found.
LEMMA AckAllPredicted ==
    ASSUME CacheTypeOK, Fresh, NEW op \in Operations, CanAckAll(op),
           NEW q \in Queries, Loaded(q), cache'[q] = AckAllData(q, cache[q])
    PROVE  Predicted(q, op)
<1> DEFINE k == AckEach(jobs, Jobs)
           part(g) == Restricted(jobs, JobsIn(g))
           rows == [g \in Groups |-> Summary(part(g))]
<1>1. op.kind = "ackAll" /\ Effect(op, jobs) = k
  BY DEF CanAckAll, Effect
<1>2. /\ jobs \in Lists(Jobs) /\ Loaded("groups")
      /\ cache["health"] = Summary(jobs) /\ Summary(jobs).unhealthy > 0
  BY FreshData DEF CanAckAll, CacheTypeOK
<1>3. NeedingAck(jobs) \subseteq Jobs
  <2>1. DOMAIN jobs \subseteq Jobs
    BY <1>2, ListElim
  <2> QED
    BY <2>1 DEF NeedingAck
<1>4. CASE q = "health"
  <2>1. Summary(jobs) \in Summaries
    BY <1>2, SummaryType
  <2>2. WithoutUnhealthy(Summary(jobs)) \in Healths /\ Summary(k).health = WithoutUnhealthy(Summary(jobs))
    BY <1>2, <1>3, <2>1, AckRowTypes, AckAllHealth DEF Healths
  <2>3. AllAcked(Summary(jobs), WithoutUnhealthy(Summary(jobs))) = Summary(k)
    BY <1>2, <1>3, <2>2, AllAckedIsRight
  <2>4. cache'[q] = AllAcked(Summary(jobs), WithoutUnhealthy(Summary(jobs)))
    BY <1>2, <1>4 DEF AckAllData
  <2>5. Read(q, k) = Summary(k)
    BY <1>4 DEF Read
  <2> QED
    BY <1>1, <1>4, <2>3, <2>4, <2>5 DEF Predicted
<1>5. CASE q = "groups"
  <2>1. cache[q] = rows
    BY <1>5, FreshData
  <2>2. cache'[q] = [g \in Groups |-> AllAcked(rows[g], NotUnhealthy(rows[g]))]
    BY <1>5, <2>1 DEF AckAllData
  <2>3. Read(q, k) = [g \in Groups |-> Summary(Restricted(k, JobsIn(g)))]
    BY <1>5 DEF Read
  <2>4. ASSUME NEW g \in Groups PROVE SameNumbers(cache'[q][g], Read(q, k)[g])
    <3> DEFINE status == NotUnhealthy(Summary(part(g)))
    <3>1. /\ part(g) \in Lists(Jobs) /\ Restricted(k, JobsIn(g)) = AckEach(part(g), Jobs)
          /\ NeedingAck(part(g)) = NeedingAck(jobs) \cap JobsIn(g)
      BY <1>2, GroupPart
    <3>2. NeedingAck(part(g)) \subseteq Jobs
      BY <1>3, <3>1
    <3>3. status \in Healths
      BY <3>1, SummaryType, AckRowTypes DEF Healths
    <3>4. SameNumbers(AllAcked(Summary(part(g)), status), Summary(AckEach(part(g), Jobs)))
      BY <3>1, <3>2, <3>3, AllAckedIsRight
    <3>5. cache'[q][g] = AllAcked(Summary(part(g)), status)
      BY <2>2
    <3> QED
      BY <2>3, <3>1, <3>4, <3>5
  <2> QED
    BY <1>1, <1>5, <2>4 DEF Predicted
<1>6. CASE q \in {"groupJobs", "jobs"}
  <2>1. cache'[q] = Read(q, k)
    <3>1. /\ q = "groupJobs" => cache'[q] = Mark(cache[q], Jobs)
          /\ q = "jobs" => cache'[q] = [cache[q] EXCEPT !.list = Mark(cache[q].list, Jobs)]
      BY <1>2 DEF AckAllData
    <3> QED
      BY <1>6, <3>1, MarkedLists
  <2> QED
    BY <1>1, <1>6, <2>1 DEF Predicted
<1> QED
  BY <1>4, <1>5, <1>6 DEF Queries

\* useDeleteJob shows what the refetch will show, but for the health.
LEMMA DeletePredicted ==
    ASSUME CacheTypeOK, Fresh, NEW op \in Operations, CanDelete(op),
           NEW q \in Queries, Loaded(q), cache'[q] = DeleteData(q, cache[q], op.target)
    PROVE  Predicted(q, op)
<1> DEFINE j == op.target
           k == Restricted(jobs, Jobs \ {j})
           part(g) == Restricted(jobs, JobsIn(g))
           job == Sighting(j)
<1>1. op.kind = "delete" /\ j \in Jobs /\ GroupOf[j] \in Groups /\ Effect(op, jobs) = k
  BY OperationElim, CacheAssumption DEF CanDelete, Effect
<1>2. jobs \in Lists(Jobs) /\ j \in DOMAIN jobs /\ job = jobs[j] /\ job # NULL
  BY CardIsJob, FreshData DEF CanDelete
<1> HIDE DEF job
<1>3. CASE q = "health"
  <2>1. SameNumbers(Without(Summary(jobs), jobs[j]), Summary(k))
    BY <1>2, WithoutIsRight
  <2>2. cache'[q] = Without(Summary(jobs), jobs[j])
    BY <1>2, <1>3, FreshData DEF DeleteData, job
  <2>3. Read(q, k) = Summary(k)
    BY <1>3 DEF Read
  <2> QED
    BY <1>1, <1>3, <2>1, <2>2, <2>3 DEF Predicted
<1>4. CASE q = "groups"
  <2> DEFINE h == GroupOf[j]
             rows == [g \in Groups |-> Summary(part(g))]
  <2>1. cache[q] = rows
    BY <1>4, FreshData
  <2>2. cache'[q] = [rows EXCEPT ![h] = Without(rows[h], jobs[j])]
    BY <1>2, <1>4, <2>1 DEF DeleteData, job
  <2>3. Read(q, k) = [g \in Groups |-> Summary(Restricted(k, JobsIn(g)))]
    BY <1>4 DEF Read
  <2>4. ASSUME NEW g \in Groups PROVE SameNumbers(cache'[q][g], Read(q, k)[g])
    <3>1. part(g) \in Lists(Jobs) /\ Restricted(k, JobsIn(g)) = Restricted(part(g), Jobs \ {j})
      BY <1>2, RestrictedType, RestrictedSwap
    <3>2. CASE g = h
      <4>1. j \in DOMAIN part(g) /\ part(g)[j] = jobs[j]
        BY <1>1, <1>2, <3>2 DEF JobsIn, Restricted
      <4>2. SameNumbers(Without(Summary(part(g)), part(g)[j]), Summary(Restricted(part(g), Jobs \ {j})))
        BY <3>1, <4>1, WithoutIsRight
      <4>3. cache'[q][g] = Without(Summary(part(g)), jobs[j])
        BY <2>2, <3>2
      <4> QED
        BY <2>3, <3>1, <4>1, <4>2, <4>3
    <3>3. CASE g # h
      <4>1. j \notin DOMAIN part(g)
        BY <3>3 DEF JobsIn, Restricted
      <4>2. Restricted(part(g), Jobs \ {j}) = part(g)
        BY <3>1, <4>1, RestrictedNothing
      <4>3. cache'[q][g] = Summary(part(g))
        BY <2>2, <3>3
      <4>4. SameNumbers(Summary(part(g)), Summary(part(g)))
        BY <3>1, SummaryType, SameNumbersSelf
      <4> QED
        BY <2>3, <3>1, <4>2, <4>3, <4>4
    <3> QED
      BY <3>2, <3>3
  <2> QED
    BY <1>1, <1>4, <2>4 DEF Predicted
<1>5. CASE q = "groupJobs"
  <2>1. cache'[q] = Restricted(part(HomeGroup), Jobs \ {j})
    BY <1>5, FreshData DEF DeleteData
  <2>2. Read(q, k) = Restricted(k, JobsIn(HomeGroup))
    BY <1>5 DEF Read
  <2>3. Restricted(k, JobsIn(HomeGroup)) = Restricted(part(HomeGroup), Jobs \ {j})
    BY RestrictedSwap
  <2> QED
    BY <1>1, <1>5, <2>1, <2>2, <2>3 DEF Predicted
<1>6. CASE q = "jobs"
  <2> DEFINE c == Listing(jobs)
  <2>1. cache'[q] = [list |-> Restricted(c.list, Jobs \ {j}),
                     total |-> IF j \in DOMAIN c.list THEN Less(c.total, 1) ELSE c.total]
    BY <1>6, FreshData DEF DeleteData
  <2>2. Listing(k) = [list |-> Restricted(c.list, Jobs \ {j}),
                      total |-> IF j \in DOMAIN c.list THEN Less(c.total, 1) ELSE c.total]
    BY <1>2, ListingAfterDelete
  <2>3. Read(q, k) = Listing(k)
    BY <1>6 DEF Read
  <2> QED
    BY <1>1, <1>6, <2>1, <2>2, <2>3 DEF Predicted
<1> QED
  BY <1>3, <1>4, <1>5, <1>6 DEF Queries

\* A click over fresh data shows what the refetch will show.
LEMMA MutatePredicted ==
    ASSUME CacheTypeOK, Fresh, NEW op \in Operations, Mutate(op), NEW q \in shown
    PROVE  Predicted(q, op)
<1>1. q \in Queries /\ Loaded(q)
  BY ShownQueries DEF CacheTypeOK
<1>2. cache'[q] = OptimisticData(op, q, cache[q])
  BY <1>1 DEF Mutate, OptimisticUpdate
<1>3. CanAckJob(op) \/ CanDelete(op) \/ CanAckGroup(op) \/ CanAckAll(op)
  BY DEF Mutate
<1>4. CASE CanAckJob(op)
  BY <1>1, <1>2, <1>4, AckJobPredicted DEF CanAckJob, OptimisticData
<1>5. CASE CanDelete(op)
  BY <1>1, <1>2, <1>5, DeletePredicted DEF CanDelete, OptimisticData
<1>6. CASE CanAckGroup(op)
  BY <1>1, <1>2, <1>6, AckGroupPredicted DEF CanAckGroup, OptimisticData
<1>7. CASE CanAckAll(op)
  BY <1>1, <1>2, <1>7, AckAllPredicted DEF CanAckAll, OptimisticData
<1> QED
  BY <1>3, <1>4, <1>5, <1>6, <1>7

\* Only a click makes a request, and it is the one with the new number.
LEMMA OnlyClicks ==
    ASSUME CacheTypeOK, Next, NEW r \in requests', Clicked(r)
    PROVE  \E op \in Operations : Mutate(op) /\ r.op = op
<1>1. acts \in Nat /\ \A s \in requests : s.id \in 1..acts
  BY CacheAssumption DEF CacheTypeOK
<1>2. r.id = acts' /\ acts' > acts
  BY DEF Clicked
<1>3. \/ \E op \in Operations : Mutate(op)
      \/ Change
      \/ acts' = acts
  BY DEF Next, Settle, Serve, OnEvent, Poll, ServerReads, Response, FetchFails
<1>4. CASE acts' = acts
  BY <1>1, <1>2, <1>4
<1>5. CASE Change
  <2>1. requests' = requests /\ acts' = acts + 1
    BY <1>5 DEF Change
  <2> QED
    BY <1>1, <1>2, <2>1
<1>6. ASSUME NEW op \in Operations, Mutate(op) PROVE r.op = op
  <2>1. /\ acts' = acts + 1
        /\ requests' = requests \cup {[id |-> acts', op |-> op, waiting |-> TRUE, open |-> TRUE]}
    BY <1>6 DEF Mutate
  <2>2. r \notin requests
    BY <1>1, <1>2, <2>1
  <2> QED
    BY <2>1, <2>2
<1> QED
  BY <1>3, <1>4, <1>5, <1>6

\* Over a cache that holds the server's state, the optimistic update is what the refetch
\* will show once the request has succeeded: the lists, the counts of every summary and,
\* for acknowledgements, the overall status.
THEOREM ClicksPredict == Spec => PredictsServer
<1> DEFINE P == \A r \in requests' : Clicked(r) /\ (\A q \in Queries : Loaded(q) => Current(q))
                    => \A q \in shown : Predicted(q, r.op)
<1>1. ASSUME CacheTypeOK, Next PROVE P
  <2> SUFFICES ASSUME NEW r \in requests', Clicked(r), Fresh, NEW q \in shown
               PROVE  Predicted(q, r.op)
    BY DEF Fresh
  <2>1. PICK op \in Operations : Mutate(op) /\ r.op = op
    BY <1>1, OnlyClicks
  <2> QED
    BY <1>1, <2>1, MutatePredicted
<1>2. CacheTypeOK /\ [Next]_vars => [P]_vars
  BY <1>1, Zenon
<1> QED
  BY <1>2, CacheTypeCorrect, PTL DEF Spec, PredictsServer
=============================================================================
