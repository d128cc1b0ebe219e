-------------------------- MODULE JobSearchHistory --------------------------
(***************************************************************************)
(* The searches of one user: endpoints/jobsearch keeps in Redis the result *)
(* of each query for a day and a list of the latest searches.              *)
(*                                                                         *)
(* A search asks the cache, on a miss runs a workflow of many minutes and  *)
(* fills the cache, and then records itself: the list is read, rebuilt     *)
(* with the new entry at its head and without older entries of the same    *)
(* query, cut, and put in place of the old one by MULTI/EXEC.  Nothing     *)
(* connects the read to the replacement, so overlapping searches lose      *)
(* entries; no error of Redis is shown to the user.                        *)
(*                                                                         *)
(* A query is what the user typed.  The cache trims white space, the list  *)
(* does not.  Results and times are left out.                              *)
(*                                                                         *)
(* What other modules call Init, Next, Spec and so on starts with H here,  *)
(* since ListProofs extends this module and ApplicationData.               *)
(***************************************************************************)
EXTENDS Naturals, Sequences, FiniteSets, SequencesExt

CONSTANTS
    Search,       \* requests to TriggerJobSearch
    Subject,      \* queries up to leading and trailing white space
    Foreign,      \* elements of the list that do not parse
    MaxEntries,   \* JOB_SEARCH_HISTORY_MAX_ENTRIES
    MaxFaults,    \* bound on failing calls
    MaxExpiries   \* bound on keys that reach the end of their 24 hours

Query == [subject: Subject, padded: BOOLEAN]
Recorded == [query: Query, by: Search]

ASSUME HConstants ==
    /\ Foreign \cap Recorded = {}
    /\ MaxEntries \in Nat \ {0}
    /\ MaxFaults \in Nat
    /\ MaxExpiries \in Nat

VARIABLES
    cache,      \* subjects with a cached result
    history,    \* the stored list
    place,      \* where each search stands
    query,      \* what it asks for
    loaded,     \* the list it read
    expiries,
    faults,
    story,      \* ghost: all the stored list comes from, oldest first
    loadedStory \* ghost: the story of the list a search read

request == <<place, query, loaded, loadedStory>>
hvars   == <<cache, history, request, expiries, faults, story>>

Element == Foreign \cup Recorded

HTypeOK ==
    /\ cache \subseteq Subject
    /\ history \in Seq(Element)
    /\ Len(history) <= MaxEntries
    /\ place \in [Search -> {"idle", "workflow", "set", "read", "replace", "done",
                          "failed"}]
    /\ query \in [Search -> Query]
    /\ loaded \in [Search -> Seq(Element)]
    /\ \A r \in Search : Len(loaded[r]) <= MaxEntries
    /\ expiries \in 0..MaxExpiries
    /\ faults \in 0..MaxFaults
    /\ story \in Seq(Element)
    /\ loadedStory \in [Search -> Seq(Element)]

\* At the beginning the list has elements of an older format, or none.
HInit ==
    /\ cache = {}
    /\ story \in {<<>>} \cup {<<x>> : x \in Foreign}
    /\ history = story
    /\ place = [r \in Search |-> "idle"]
    /\ query \in [Search -> Query]
    /\ loaded = [r \in Search |-> <<>>]
    /\ expiries = 0
    /\ faults = 0
    /\ loadedStory = loaded

-----------------------------------------------------------------------------
Moves(r, from, to) == place[r] = from /\ place' = [place EXCEPT ![r] = to]

Fail == faults < MaxFaults /\ faults' = faults + 1

\* jobSearchCacheKey
CacheKey(q) == q.subject

\* tryGetJobSearchFromCache: whatever is wrong with the cache is a miss.
Ask(r) ==
    /\ \/ /\ CacheKey(query[r]) \in cache
          /\ Moves(r, "idle", "read")
          /\ UNCHANGED faults
       \/ /\ CacheKey(query[r]) \notin cache
          /\ Moves(r, "idle", "workflow")
          /\ UNCHANGED faults
       \/ Moves(r, "idle", "workflow") /\ Fail
    /\ UNCHANGED <<cache, history, query, loaded, expiries, story, loadedStory>>

\* JobDiscoveryWorkflow is started and waited for.
WorkflowReturns(r) ==
    /\ \/ Moves(r, "workflow", "set") /\ UNCHANGED faults
       \/ Moves(r, "workflow", "failed") /\ Fail
    /\ UNCHANGED <<cache, history, query, loaded, expiries, story, loadedStory>>

\* setJobSearchCache; an error is logged.
SetCache(r) ==
    /\ Moves(r, "set", "read")
    /\ \/ cache' = cache \cup {CacheKey(query[r])} /\ UNCHANGED faults
       \/ UNCHANGED cache /\ Fail
    /\ UNCHANGED <<history, query, loaded, expiries, story, loadedStory>>

\* upsertJobSearchHistory reads the list; if it cannot, nothing is recorded.
Read(r) ==
    /\ \/ /\ Moves(r, "read", "replace")
          /\ loaded' = [loaded EXCEPT ![r] = history]
          /\ loadedStory' = [loadedStory EXCEPT ![r] = story]
          /\ UNCHANGED faults
       \/ Moves(r, "read", "done") /\ Fail /\ UNCHANGED <<loaded, loadedStory>>
    /\ UNCHANGED <<cache, history, query, expiries, story>>

\* The loop over the list: an element stays unless it parses and records the
\* same query.
KeptParsed(elements, q) ==
    LET Keep(kept, x) ==
            IF x \in Foreign \/ x.query = q THEN kept ELSE Append(kept, x)
    IN  FoldLeft(Keep, <<>>, elements)

Kept(elements, q) ==
    LET Keep(kept, x) ==
            IF x \notin Foreign /\ x.query = q THEN kept ELSE Append(kept, x)
    IN  FoldLeft(Keep, <<>>, elements)

CutOneEarly(elements) ==
    IF Len(elements) >= MaxEntries
    THEN SubSeq(elements, 1, MaxEntries - 1) ELSE elements

Cut(elements) ==
    IF Len(elements) > MaxEntries THEN SubSeq(elements, 1, MaxEntries) ELSE elements

EntryOf(r) == [query |-> query[r], by |-> r]

Rebuilt(r) == Cut(<<EntryOf(r)>> \o Kept(loaded[r], query[r]))

Replaces(r) ==
    /\ history' = Rebuilt(r)
    /\ story' = Append(loadedStory[r], EntryOf(r))

\* DEL, RPUSH and EXPIRE in one transaction.  One that fails may have been
\* executed.
Replace(r) ==
    /\ Moves(r, "replace", "done")
    /\ \/ Replaces(r) /\ UNCHANGED faults
       \/ Replaces(r) /\ Fail
       \/ UNCHANGED <<history, story>> /\ Fail
    /\ UNCHANGED <<cache, query, loaded, expiries, loadedStory>>

\* A key is 24 hours old: a cached result, or the list since it was last
\* replaced.
Expire ==
    /\ expiries < MaxExpiries
    /\ expiries' = expiries + 1
    /\ \/ /\ \E s \in cache : cache' = cache \ {s}
          /\ UNCHANGED <<history, story>>
       \/ /\ history # <<>>
          /\ history' = <<>>
          /\ story' = <<>>
          /\ UNCHANGED cache
    /\ UNCHANGED <<request, faults>>

-----------------------------------------------------------------------------
HNext ==
    \/ \E r \in Search : \/ Ask(r) \/ WorkflowReturns(r) \/ SetCache(r)
                         \/ Read(r) \/ Replace(r)
    \/ Expire

HSpec == HInit /\ [][HNext]_hvars

-----------------------------------------------------------------------------
(* Properties.                                                             *)

Same(x, y) == IF x \in Foreign \/ y \in Foreign THEN x = y ELSE x.query = y.query

\* The places of a story that no later element of the same query repeats.
Latest(s) == {i \in DOMAIN s : \A j \in DOMAIN s : j > i => ~Same(s[i], s[j])}

\* They, the newest first.
Recency(s) ==
    [k \in 1..Cardinality(Latest(s)) |->
        s[CHOOSE i \in Latest(s) : Cardinality({j \in Latest(s) : j >= i}) = k]]

\* The newest MaxEntries of all the distinct queries of a story.
RecencyList(s) ==
    LET all == Recency(s) IN
    IF Len(all) > MaxEntries THEN SubSeq(all, 1, MaxEntries) ELSE all

\* The list is the newest MaxEntries of all the distinct queries it comes
\* from, the newest first: cutting at every step has lost nothing that cutting
\* at the end would keep, and elements that do not parse have kept their place.
\* (upsertJobSearchHistory: "newest-first", "dedupe", "caps Redis list length")
HistoryIsRecencyList == history = RecencyList(story)

\* GetJobSearchHistory skips what does not parse.
Listed == Range(history) \ Foreign

\* What a replacement may remove, and the end of the list's 24 hours.
LosesWithReason ==
    \A x \in Listed \ Listed' :
        \/ history' = <<>>
        \/ \E r \in Search :
               /\ place[r] = "replace" /\ place'[r] # "replace"
               /\ \/ x.query = query[r]
                  \/ Len(loaded[r]) = MaxEntries /\ x = Last(loaded[r])
                  \/ x \notin Range(loaded[r])

\* A search that was recorded disappears from the user's history only with the
\* whole list, for a newer search of the same query, at the end of a full
\* list, or by a search that had read a list it was not in.
\* (upsertJobSearchHistory: the list is read, rebuilt and replaced)
LosesOnlyToOverlap == [][LosesWithReason]_hvars

-----------------------------------------------------------------------------
(* The inductive invariant behind them.                                    *)

\* What a search read was a recency list, too.
ReadsAreRecencyLists == \A r \in Search : loaded[r] = RecencyList(loadedStory[r])

HIndInv ==
    /\ HTypeOK
    /\ HistoryIsRecencyList
    /\ ReadsAreRecencyLists
=============================================================================
