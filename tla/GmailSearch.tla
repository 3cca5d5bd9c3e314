---------------------------- MODULE GmailSearch ----------------------------
(***************************************************************************)
(* Searches and threads of Gmail (googleops/gmail/operations.go): the      *)
(* messages are listed, the names of labels come from a cache the calls    *)
(* share or are fetched, and the messages of a search are then read, a few *)
(* at a time and in any order.  Labels are renamed, accounts reconnected   *)
(* and time passes in between.  The view of a message is in MessageViews.  *)
(***************************************************************************)
EXTENDS Naturals, Sequences, FiniteSets, Functions, GoMaps

Seqs == INSTANCE SequencesExt

CONSTANTS
    MailAccounts,
    Lists,           \* what a list of messages may answer: ids, "" for one without
    CacheLimit,      \* labelCacheLimit
    LabelTTL,        \* labelCacheTTL
    Concurrency,     \* messageFetchConcurrency
    MaxMessages,     \* max_messages of threads
    MaxTime, MaxSearches, MaxRenames, MaxGeneration  \* bounds

ASSUME SearchBounds ==
    /\ CacheLimit \in Nat \ {0} /\ Concurrency \in Nat \ {0} /\ LabelTTL \in Nat \ {0} /\ MaxMessages \in Nat
    /\ MaxTime \in Nat /\ MaxSearches \in Nat /\ MaxRenames \in Nat /\ MaxGeneration \in Nat

VARIABLES
    now,
    generation,   \* of each account's connection
    renamed,      \* when each version of an account's labels began
    entries,      \* the cache: key -> names and when they were fetched
    order,        \* its keys, oldest first
    searches      \* the calls, in the order they started

searchVars == <<now, generation, renamed, entries, order, searches>>

(***************************************************************************)
(* The cache                                                               *)
(***************************************************************************)

\* fault seeded in LabelKey: the generation is left out
LabelKeyOfAccount(identity) == [identity EXCEPT !.generation = 0]
\* the principal, the client and the scopes go with the generation
LabelKey(identity) == identity

Fresh(key) == key \in DOMAIN entries /\ now - entries[key].at < LabelTTL

\* an expired entry is removed as it is found
Get(key) ==
    IF key \in DOMAIN entries /\ ~Fresh(key)
    THEN entries' = DropKey(entries, key) /\ order' = Seqs!RemoveFirst(order, key)
    ELSE UNCHANGED <<entries, order>>

\* a key already there keeps its place; beyond the limit the oldest go
Set(key, names) ==
    LET ordered == IF key \in DOMAIN entries THEN order ELSE Append(order, key)
        kept    == SubSeq(ordered, IF Len(ordered) > CacheLimit THEN Len(ordered) - CacheLimit + 1 ELSE 1, Len(ordered))
    IN  /\ order' = kept
        /\ entries' = [k \in (DOMAIN entries \cup {key}) \ (Range(ordered) \ Range(kept)) |->
                          IF k = key THEN names ELSE entries[k]]

(***************************************************************************)
(* Calls                                                                   *)
(***************************************************************************)

\* names of labels: of which connection, which version, when they were asked for, and
\* their date
NoNames == [by |-> [account |-> "", generation |-> 0], version |-> 0, asked |-> 0, at |-> 0]
Present(k) == {i \in DOMAIN searches[k].list : searches[k].list[i] # ""}

\* messages.list has answered, or threads.get with its messages
StartSearch(kind, identity, list) ==
    /\ Len(searches) < MaxSearches
    /\ identity.generation = generation[identity.account]
    /\ searches' = Append(searches, [kind |-> kind, id |-> identity, list |-> list, stage |-> "labels",
                                     read |-> NoNames, names |-> NoNames, cached |-> FALSE, used |-> 0,
                                     outcome |-> "", items |-> <<>>,
                                     fetch |-> [i \in DOMAIN list |-> "waiting"]])
    /\ UNCHANGED <<now, generation, renamed, entries, order>>

HaveLabels(k, names, cached) ==
    searches' = [searches EXCEPT ![k].stage = "messages", ![k].names = names, ![k].cached = cached, ![k].used = now]

\* searches and threads read the same cache
ReadLabels(k) ==
    /\ searches[k].stage = "labels"
    /\ LET key == LabelKey(searches[k].id)
       IN  /\ Get(key)
           /\ IF Fresh(key) THEN HaveLabels(k, entries[key], TRUE)
              ELSE searches' = [searches EXCEPT ![k].stage = "fetch", ![k].read.asked = now]
    /\ UNCHANGED <<now, generation, renamed>>

\* labels.list reads the names, some time after it was asked for them
FetchLabelNames(k) ==
    /\ searches[k].stage = "fetch"
    /\ LET id == searches[k].id
       IN  searches' = [searches EXCEPT ![k].stage = "answered",
                          ![k].read = [by |-> id, version |-> Len(renamed[id.account]),
                                       asked |-> searches[k].read.asked, at |-> now]]
    /\ UNCHANGED <<now, generation, renamed, entries, order>>

\* its answer is dated when it has arrived, whenever the names were read
DateLabels(k) ==
    /\ searches[k].stage = "answered"
    /\ searches' = [searches EXCEPT ![k].stage = "store", ![k].read = NoNames,
                      ![k].names = [searches[k].read EXCEPT !.at = now]]
    /\ UNCHANGED <<now, generation, renamed, entries, order>>

StoreLabels(k) ==
    /\ searches[k].stage = "store"
    /\ Set(LabelKey(searches[k].id), searches[k].names)
    /\ HaveLabels(k, searches[k].names, FALSE)
    /\ UNCHANGED <<now, generation, renamed>>

(***************************************************************************)
(* Reading the messages of a search                                        *)
(***************************************************************************)

Running(k) == {i \in Present(k) : searches[k].fetch[i] = "running"}
Settled(k) == {i \in Present(k) : searches[k].fetch[i] \in {"read", "failed"}}

AcquireFetch(k, i) ==
    /\ searches[k].kind = "search" /\ searches[k].stage = "messages"
    /\ i \in Present(k) /\ searches[k].fetch[i] = "waiting"
    /\ Cardinality(Running(k)) < Concurrency
    /\ searches' = [searches EXCEPT ![k].fetch[i] = "running"]
    /\ UNCHANGED <<now, generation, renamed, entries, order>>

EndFetch(k, i) ==
    /\ searches[k].stage = "messages"
    /\ i \in Running(k)
    /\ \E answer \in {"read", "failed"} : searches' = [searches EXCEPT ![k].fetch[i] = answer]
    /\ UNCHANGED <<now, generation, renamed, entries, order>>

\* every message in the order of the list, or the first failure that is seen; the
\* fetches still under way are cancelled and their results are never read
CollectMessages(k) ==
    /\ searches[k].kind = "search" /\ searches[k].stage = "messages"
    /\ \/ /\ \E i \in Settled(k) : searches[k].fetch[i] = "failed"
          /\ searches' = [searches EXCEPT ![k].stage = "done", ![k].outcome = "failed",
                            ![k].fetch = <<>>]
       \/ /\ \A i \in Present(k) : searches[k].fetch[i] = "read"
          /\ searches' = [searches EXCEPT ![k].stage = "done", ![k].outcome = "done", ![k].fetch = <<>>,
                            ![k].items = SelectSeq(searches[k].list, LAMBDA m : m # "")]
    /\ UNCHANGED <<now, generation, renamed, entries, order>>

\* a thread came with its messages, the first of which are shown
ShowThread(k) ==
    /\ searches[k].kind = "thread" /\ searches[k].stage = "messages"
    /\ searches' = [searches EXCEPT ![k].stage = "done",
                      ![k].outcome = IF Len(searches[k].list) > MaxMessages THEN "truncated" ELSE "done",
                      ![k].items = SubSeq(searches[k].list, 1, MaxMessages)]
    /\ UNCHANGED <<now, generation, renamed, entries, order>>

\* a call fails, or the answer to it is lost; a search in its messages fails with one
\* of them
FailSearch(k) ==
    /\ searches[k].stage \in {"labels", "fetch", "answered"} \cup (IF searches[k].kind = "thread" THEN {"messages"} ELSE {})
    /\ searches' = [searches EXCEPT ![k].stage = "done", ![k].outcome = "failed"]
    /\ UNCHANGED <<now, generation, renamed, entries, order>>

(***************************************************************************)
(* The world                                                               *)
(***************************************************************************)

RenameLabels(a) ==
    /\ Len(renamed[a]) <= MaxRenames
    /\ renamed' = [renamed EXCEPT ![a] = Append(@, now)]
    /\ UNCHANGED <<now, generation, entries, order, searches>>

ReconnectMailbox(a) ==
    /\ generation[a] < MaxGeneration
    /\ generation' = [generation EXCEPT ![a] = @ + 1]
    /\ UNCHANGED <<now, renamed, entries, order, searches>>

Pass ==
    /\ now < MaxTime
    /\ now' = now + 1
    /\ UNCHANGED <<generation, renamed, entries, order, searches>>

SearchInit ==
    /\ now = 0 /\ generation = [a \in MailAccounts |-> 1] /\ renamed = [a \in MailAccounts |-> <<0>>]
    /\ entries = EmptyMap /\ order = <<>> /\ searches = <<>>

SearchNext ==
    \/ \E kind \in {"search", "thread"}, a \in MailAccounts, list \in Lists :
          StartSearch(kind, [account |-> a, generation |-> generation[a]], list)
    \/ \E k \in DOMAIN searches :
          \/ ReadLabels(k) \/ FetchLabelNames(k) \/ DateLabels(k) \/ StoreLabels(k)
          \/ CollectMessages(k) \/ FailSearch(k)
          \/ \E i \in DOMAIN searches[k].list : AcquireFetch(k, i) \/ EndFetch(k, i)
          \/ ShowThread(k)
    \/ \E a \in MailAccounts : RenameLabels(a) \/ ReconnectMailbox(a)
    \/ Pass

(***************************************************************************)
(* Properties                                                              *)
(***************************************************************************)

\* the cache's two halves agree and are bounded
CacheConsistent ==
    /\ Range(order) = DOMAIN entries
    /\ Cardinality(Range(order)) = Len(order) /\ Len(order) <= CacheLimit

\* the names were in force at some time since they were asked for and until the date
\* they bear
InForce(names) ==
    LET began == renamed[names.by.account]
    IN  /\ names.asked <= names.at /\ began[names.version] <= names.at
        /\ names.version < Len(began) => names.asked <= began[names.version + 1]

\* Every call names labels as its own account and connection had them between the
\* time they were asked for and the date it reports, which is less than a TTL before
\* when they came from the cache: a rename while labels.list was under way may have
\* left them older than that date, one before the request may not.  The cache stays
\* bounded and whole, however calls, evictions, renames and reconnections interleave
\* (cache.go:69 get, :86 set, operations.go:140 search, :428 fetchLabelNames).
LabelsCurrent ==
    /\ CacheConsistent
    /\ \A k \in DOMAIN searches :
          LET s == searches[k]
          IN  s.names # NoNames =>
                /\ s.names.by = s.id /\ InForce(s.names)
                /\ s.cached => s.used - s.names.at < LabelTTL
=============================================================================
