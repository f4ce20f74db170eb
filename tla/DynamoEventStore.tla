--------------------------- MODULE DynamoEventStore ---------------------------
(***************************************************************************)
(* stores/ds: the event store on a DynamoDB table.                         *)
(*                                                                         *)
(* An aggregate is a partition of the table.  It holds one item for every  *)
(* change set, under the sort key "change-set#<revision>", and one item    *)
(* "latest-revision".  Publish writes both in one transaction whose        *)
(* condition is on the latest revision; Load and Remove query the          *)
(* partition page by page.                                                 *)
(*                                                                         *)
(* A client is a goroutine that calls the store of its process about one   *)
(* aggregate, one call after the other.  Its steps are the requests it     *)
(* sends to DynamoDB and its uses of the shared revision generator;        *)
(* between them every other client, and the environment, may take steps.   *)
(***************************************************************************)
EXTENDS RevisionGenerator, Sequences, FiniteSets

CONSTANTS
  Aggregate,     \* aggregate ids, the partition keys
  Client,        \* goroutines that call the store
  HostOf,        \* HostOf[c]: the process client c runs in
  AggregateOf,   \* AggregateOf[c]: the aggregate client c works on
  UsesOf,        \* UsesOf[c]: the calls client c makes, see Uses
  Batches,       \* how many events a caller may publish at once
  Attempts,      \* how often retry.Do tries (its default is 10)
  Paged,         \* may an aggregate be too large for one page of a query?
  StaleReads,    \* TRUE: DynamoDB, eventually consistent; FALSE: DynamoDB local
  Restarting,    \* processes that may stop and start again
  Impatient      \* clients whose context may end while their transaction is on its way

(***************************************************************************)
(* The calls: Load, Remove, and Publish by the ExpectedRevision it is      *)
(* given: none, that of a new aggregate, or that of the aggregate loaded.  *)
(***************************************************************************)
Policies == {"any", "initial", "loaded"}
Uses == Policies \cup {"load", "remove"}

ASSUME StoreAssumption ==
  /\ HostOf \in [Client -> Process]
  /\ AggregateOf \in [Client -> Aggregate]
  /\ UsesOf \in [Client -> SUBSET Uses]
  /\ Batches \subseteq Nat
  /\ Attempts \in Nat \ {0}
  /\ {Paged, StaleReads} \subseteq BOOLEAN
  /\ Restarting \subseteq Process
  /\ Impatient \subseteq Client

VARIABLES
  table,     \* table[a]: the items of partition a
  replica,   \* replica[a]: an earlier state of table[a] that a query may see
  inflight,  \* transactions on their way that their client no longer waits for
  call,      \* call[c]: the call client c is making and its local variables
  loaded,    \* loaded[c]: what c's last Load returned
  outcome,   \* outcome[c]: how c's last Publish or Remove ended
  log,       \* history: log[a], the change sets of a in the order of their commits
  recorded   \* history: how often the events of c's last Publish were recorded

remoteVars == <<table, replica, inflight, log>>
clientVars == <<call, loaded, outcome, recorded>>
vars == <<generatorVars, remoteVars, clientVars>>

-----------------------------------------------------------------------------
(***************************************************************************)
(* The table.                                                              *)
(***************************************************************************)
NoRevision == -1   \* the empty ExpectedRevision; no latest-revision item

ChangeSet == [revision : Revision, events : Seq(Revision) \ {<<>>}]

(* The sort key of latest-revision: it sorts after every "change-set#...". *)
LatestKey == (MaxTime + 1) * EntropyWidth

EmptyPartition == [latest |-> NoRevision, sets |-> {}]

(* Mutation of KeysOf: the query of Load, which omits latest-revision. *)
ChangeSetKeysOf(partition) == { s.revision : s \in partition.sets }

KeysOf(partition) ==
  { s.revision : s \in partition.sets }
    \cup (IF partition.latest = NoRevision THEN {} ELSE {LatestKey})

(* Mutations of LatestCondition: with no ExpectedRevision anything goes;   *)
(* the initial revision is taken for none.                                 *)
UnorderedCondition(latest, revision, expected) ==
  \/ expected = NoRevision
  \/ expected = InitialRevision /\ latest = NoRevision
  \/ expected \notin {NoRevision, InitialRevision} /\ latest = expected

NoInitialCondition(latest, revision, expected) ==
  \/ expected \in {NoRevision, InitialRevision} /\ (latest < revision \/ latest = NoRevision)
  \/ expected \notin {NoRevision, InitialRevision} /\ latest = expected

(* The condition on the latest-revision item under which a change set is put. *)
LatestCondition(latest, revision, expected) ==
  \/ expected = NoRevision /\ (latest < revision \/ latest = NoRevision)
  \/ expected = InitialRevision /\ latest = NoRevision
  \/ expected \notin {NoRevision, InitialRevision} /\ latest = expected

(* Mutation of PutChangeSet: only the first change set sets latest-revision. *)
PutChangeSetOnly(partition, changes) ==
  [ latest |-> IF partition.latest = NoRevision THEN changes.revision ELSE partition.latest,
    sets   |-> { s \in partition.sets : s.revision # changes.revision } \cup {changes} ]

PutChangeSet(partition, changes) ==
  [ latest |-> changes.revision,
    sets   |-> { s \in partition.sets : s.revision # changes.revision } \cup {changes} ]

DeleteKeys(partition, keys) ==
  [ latest |-> IF LatestKey \in keys THEN NoRevision ELSE partition.latest,
    sets   |-> { s \in partition.sets : s.revision \notin keys } ]

(* The states of a partition that a query may be answered from. *)
Versions(a) == {table[a]} \cup (IF StaleReads THEN {replica[a]} ELSE {})

-----------------------------------------------------------------------------
(***************************************************************************)
(* Calls.                                                                  *)
(***************************************************************************)
Idle ==
  [ step |-> "idle", expected |-> NoRevision, count |-> 0, tries |-> 0, now |-> 0,
    drafts |-> <<>>, cursor |-> InitialRevision, view |-> {}, keys |-> {},
    more |-> FALSE ]

NotLoaded == [revision |-> NoRevision, sets |-> {}]

At(c, step) == call[c].step = step

(* The caller makes a call: its local variables are those of Idle with these. *)
Begin(c, locals) ==
  /\ At(c, "idle")
  /\ call' = [call EXCEPT ![c] = locals]
  /\ outcome' = [outcome EXCEPT ![c] = "none"]
  /\ recorded' = [recorded EXCEPT ![c] = 0]
  /\ UNCHANGED <<generatorVars, remoteVars, loaded>>

(* Mutation of Return: every error of the transaction is retried. *)
ReturnOrRetry(c, result) ==
  LET again == result = "error" /\ At(c, "write") /\ call[c].tries < Attempts IN
  /\ call' = [call EXCEPT ![c] = IF again THEN [@ EXCEPT !.step = "retry"] ELSE Idle]
  /\ outcome' = [outcome EXCEPT ![c] = IF again THEN @ ELSE result]

Return(c, result) ==
  /\ call' = [call EXCEPT ![c] = Idle]
  /\ outcome' = [outcome EXCEPT ![c] = result]

-----------------------------------------------------------------------------
(***************************************************************************)
(* Publish.                                                                *)
(***************************************************************************)
ExpectedBy(c) ==
  [any |-> NoRevision, initial |-> InitialRevision, loaded |-> loaded[c].revision]

(* An attempt starts with makeChangeSet reading the clock. *)
Attempting(c, locals) ==
  [locals EXCEPT !.step = "make", !.tries = @ + 1, !.now = clock[HostOf[c]], !.drafts = <<>>]

StartPublish(c) ==
  \E policy \in UsesOf[c] \cap Policies, n \in Batches \ {0} :
    /\ policy = "loaded" => loaded[c] # NotLoaded
    /\ Begin(c, Attempting(c, [Idle EXCEPT !.expected = ExpectedBy(c)[policy], !.count = n]))

(* "attempted to publish empty list of events" *)
PublishNothing(c) ==
  /\ At(c, "idle")
  /\ UsesOf[c] \cap Policies # {} /\ 0 \in Batches
  /\ outcome' = [outcome EXCEPT ![c] = "error"]
  /\ recorded' = [recorded EXCEPT ![c] = 0]
  /\ UNCHANGED <<generatorVars, remoteVars, call, loaded>>

(* retry.Do has waited and tries again. *)
Retry(c) ==
  /\ At(c, "retry")
  /\ call' = [call EXCEPT ![c] = Attempting(c, @)]
  /\ UNCHANGED <<generatorVars, remoteVars, loaded, outcome, recorded>>

(* makeChangeSet gives the next event its revision. *)
RecordEvent(c) ==
  /\ At(c, "make")
  /\ \E r \in NewRevisions(HostOf[c], call[c].now) :
       /\ NewRevision(HostOf[c], r)
       /\ call' = [call EXCEPT ![c].drafts = Append(@, r),
                               ![c].step = IF Len(call[c].drafts) + 1 = call[c].count
                                           THEN "write" ELSE "make"]
  /\ UNCHANGED <<remoteVars, loaded, outcome, recorded>>

(* ulid.MustNew panics when the entropy of a millisecond overflows. *)
GeneratorPanics(c) ==
  /\ At(c, "make")
  /\ NewRevisions(HostOf[c], call[c].now) = {}
  /\ Return(c, "error")
  /\ UNCHANGED <<generatorVars, remoteVars, loaded, recorded>>

(* Mutation of Changes: the change set carries its first revision. *)
FirstChanges(c) == [revision |-> call[c].drafts[1], events |-> call[c].drafts]

(* What makeChangeSet returned: the change set carries its last revision. *)
Changes(c) ==
  [revision |-> call[c].drafts[Len(call[c].drafts)], events |-> call[c].drafts]

(* The transaction c sends, and, as history, the load it is based on. *)
TransactionOf(c) ==
  [aggregate |-> AggregateOf[c], changes |-> Changes(c), expected |-> call[c].expected,
   basis |-> loaded[c]]

CanWrite(w) == LatestCondition(table[w.aggregate].latest, w.changes.revision, w.expected)

ConditionHolds(c) == CanWrite(TransactionOf(c))

(* DynamoDB executes the transaction: both items are put. *)
Write(w) ==
  /\ CanWrite(w)
  /\ table' = [table EXCEPT ![w.aggregate] = PutChangeSet(@, w.changes)]
  /\ log' = [log EXCEPT ![w.aggregate] = Append(@, [revision |-> w.changes.revision,
                                                    expected |-> w.expected])]
  /\ UNCHANGED replica

(* The transaction commits.  Its reply may be lost. *)
Commit(c) ==
  /\ At(c, "write")
  /\ Write(TransactionOf(c))
  /\ recorded' = [recorded EXCEPT ![c] = @ + 1]
  /\ \E result \in {"published", "error"} : Return(c, result)
  /\ UNCHANGED <<generatorVars, inflight, loaded>>

(***************************************************************************)
(* The context of the call ends, or its process stops, while the           *)
(* transaction is on its way: it may still be executed, at any time.  One  *)
(* that is refused then, or lost, has no effect.                           *)
(***************************************************************************)
GiveUp(c) ==
  /\ c \in Impatient
  /\ At(c, "write")
  /\ inflight' = inflight \cup {TransactionOf(c)}
  /\ Return(c, "error")
  /\ UNCHANGED <<generatorVars, table, replica, log, loaded, recorded>>

LateCommit(w) ==
  /\ w \in inflight
  /\ Write(w)
  /\ inflight' = inflight \ {w}
  /\ UNCHANGED <<generatorVars, clientVars>>

(* Mutation of Retriable: one try more. *)
RetriableOnceMore(c) == call[c].expected = NoRevision /\ call[c].tries <= Attempts

Retriable(c) == call[c].expected = NoRevision /\ call[c].tries < Attempts

(***************************************************************************)
(* Mutation of ConditionFails: a conflict that is not retried is never     *)
(* returned; its call hangs.                                               *)
(***************************************************************************)
ConditionFailsSilently(c) ==
  /\ At(c, "write")
  /\ ~ConditionHolds(c) /\ Retriable(c)
  /\ call' = [call EXCEPT ![c].step = "retry"]
  /\ UNCHANGED <<generatorVars, remoteVars, loaded, outcome, recorded>>

(***************************************************************************)
(* The condition fails: RevisionConflict.  It is retried, with a new       *)
(* change set, only when the caller expected no revision.                  *)
(***************************************************************************)
ConditionFails(c) ==
  /\ At(c, "write")
  /\ ~ConditionHolds(c)
  /\ \/ /\ Retriable(c)
        /\ call' = [call EXCEPT ![c].step = "retry"]
        /\ UNCHANGED outcome
     \/ /\ ~Retriable(c)
        /\ Return(c, "conflict")
  /\ UNCHANGED <<generatorVars, remoteVars, loaded, recorded>>

-----------------------------------------------------------------------------
(***************************************************************************)
(* Load.  The events come in the order of the sort keys of their change    *)
(* sets; the revision of the aggregate is that of the last event.          *)
(***************************************************************************)
StartLoad(c) ==
  /\ "load" \in UsesOf[c]
  /\ Begin(c, [Idle EXCEPT !.step = "query"])

LastEvent(changes) == changes.events[Len(changes.events)]

RevisionsFrom(sets) ==
  IF sets = {} THEN {InitialRevision}
  ELSE { LastEvent(s) : s \in { s \in sets : \A t \in sets : t.revision <= s.revision } }

ReturnLoaded(c, sets) ==
  /\ \E revision \in RevisionsFrom(sets) :
       loaded' = [loaded EXCEPT ![c] = [revision |-> revision, sets |-> sets]]
  /\ Return(c, "none")

(* One page: it ends at any item; only the last one has no LastEvaluatedKey. *)
QueryPage(c) ==
  /\ At(c, "query")
  /\ \E version \in Versions(AggregateOf[c]) :
       LET rest == { s \in version.sets : s.revision > call[c].cursor } IN
       \/ ReturnLoaded(c, call[c].view \cup rest)
       \/ /\ Paged
          /\ \E end \in rest :
               call' = [call EXCEPT ![c].cursor = end.revision,
                                    ![c].view = @ \cup { s \in rest : s.revision <= end.revision }]
          /\ UNCHANGED <<loaded, outcome>>
  /\ UNCHANGED <<generatorVars, remoteVars, recorded>>

-----------------------------------------------------------------------------
(***************************************************************************)
(* Remove.  It queries a page of keys and deletes the page, until done.    *)
(***************************************************************************)
StartRemove(c) ==
  /\ "remove" \in UsesOf[c]
  /\ Begin(c, [Idle EXCEPT !.step = "list"])

(* The rest of the keys in one page, or only those up to some key. *)
ListPage(c) ==
  /\ At(c, "list")
  /\ \E version \in Versions(AggregateOf[c]) :
       LET rest == { k \in KeysOf(version) : k > call[c].cursor } IN
       \/ /\ rest = {}
          /\ Return(c, "removed")
       \/ /\ rest # {}
          /\ call' = [call EXCEPT ![c].step = "delete", ![c].keys = rest, ![c].more = FALSE]
          /\ UNCHANGED outcome
       \/ /\ Paged
          /\ \E end \in rest :
               call' = [call EXCEPT ![c].step = "delete", ![c].cursor = end, ![c].more = TRUE,
                                    ![c].keys = { k \in rest : k <= end }]
          /\ UNCHANGED outcome
  /\ UNCHANGED <<generatorVars, remoteVars, loaded, recorded>>

(* The page is deleted in one transaction, whose reply may be lost. *)
DeletePage(c) ==
  LET a == AggregateOf[c] IN
  /\ At(c, "delete")
  /\ table' = [table EXCEPT ![a] = DeleteKeys(@, call[c].keys)]
  /\ log' = IF LatestKey \in call[c].keys THEN [log EXCEPT ![a] = <<>>] ELSE log
  /\ \/ ~call[c].more /\ Return(c, "removed")
     \/ Return(c, "error")
     \/ /\ call[c].more
        /\ call' = [call EXCEPT ![c].step = "list"]
        /\ UNCHANGED outcome
  /\ UNCHANGED <<generatorVars, replica, inflight, loaded, recorded>>

-----------------------------------------------------------------------------
(***************************************************************************)
(* Failures and the environment.                                           *)
(***************************************************************************)
(* A request fails without effect (throttled, a conflicting transaction,   *)
(* no connection): only revision conflicts are retried.                    *)
RequestFails(c) ==
  /\ call[c].step \in {"write", "query", "list", "delete"}
  /\ Return(c, "error")
  /\ UNCHANGED <<generatorVars, remoteVars, loaded, recorded>>

(* A process stops, with the calls its goroutines were making, and starts  *)
(* again, which takes it longer than a millisecond.                        *)
Restart(p) ==
  LET lost == { c \in Client : HostOf[c] = p } IN
  /\ Millis(last[p]) < clock[p]
  /\ ResetGenerator(p)
  /\ call' = [c \in Client |-> IF c \in lost THEN Idle ELSE call[c]]
  /\ loaded' = [c \in Client |-> IF c \in lost THEN NotLoaded ELSE loaded[c]]
  /\ outcome' = [c \in Client |-> IF c \in lost THEN "none" ELSE outcome[c]]
  /\ recorded' = [c \in Client |-> IF c \in lost THEN 0 ELSE recorded[c]]
  /\ UNCHANGED remoteVars

(* The replica a stale query reads catches up. *)
Replicate(a) ==
  /\ StaleReads
  /\ replica' = [replica EXCEPT ![a] = table[a]]
  /\ UNCHANGED <<generatorVars, table, inflight, log, clientVars>>

ClockTicks == Tick /\ UNCHANGED <<remoteVars, clientVars>>

-----------------------------------------------------------------------------
Init ==
  /\ InitGenerator
  /\ table = [a \in Aggregate |-> EmptyPartition]
  /\ replica = [a \in Aggregate |-> EmptyPartition]
  /\ inflight = {}
  /\ log = [a \in Aggregate |-> <<>>]
  /\ call = [c \in Client |-> Idle]
  /\ loaded = [c \in Client |-> NotLoaded]
  /\ outcome = [c \in Client |-> "none"]
  /\ recorded = [c \in Client |-> 0]

(* The steps of a call under way, as far as DynamoDB answers. *)
Step(c) ==
  \/ Retry(c) \/ RecordEvent(c) \/ GeneratorPanics(c) \/ Commit(c) \/ ConditionFails(c)
  \/ QueryPage(c) \/ ListPage(c) \/ DeletePage(c)

Start(c) == StartPublish(c) \/ PublishNothing(c) \/ StartLoad(c) \/ StartRemove(c)

Next ==
  \/ \E c \in Client : Start(c) \/ Step(c) \/ RequestFails(c) \/ GiveUp(c)
  \/ \E w \in inflight : LateCommit(w)
  \/ \E p \in Restarting : Restart(p)
  \/ \E a \in Aggregate : Replicate(a)
  \/ ClockTicks

Spec == Init /\ [][Next]_vars

(* Goroutines are scheduled and DynamoDB answers, or the request fails. *)
FairSpec == Spec /\ \A c \in Client : WF_vars(Step(c))

-----------------------------------------------------------------------------
(***************************************************************************)
(* Properties.                                                             *)
(***************************************************************************)
Partition == [latest : Revision \cup {NoRevision}, sets : SUBSET ChangeSet]

Steps == {"idle", "retry", "make", "write", "query", "list", "delete"}

Outcomes == {"none", "published", "conflict", "removed", "error"}

Call ==
  [ step : Steps, expected : Revision \cup {NoRevision, InitialRevision}, count : Batches \cup {0},
    tries : 0 .. Attempts, now : 0 .. MaxTime, drafts : Seq(Revision),
    cursor : Revision \cup {InitialRevision, LatestKey}, view : SUBSET ChangeSet,
    keys : SUBSET (Revision \cup {LatestKey}), more : BOOLEAN ]

Loaded == [revision : Revision \cup {NoRevision, InitialRevision}, sets : SUBSET ChangeSet]

Transaction ==
  [ aggregate : Aggregate, changes : ChangeSet,
    expected : Revision \cup {NoRevision, InitialRevision}, basis : Loaded ]

LogEntry == [revision : Revision, expected : Revision \cup {NoRevision, InitialRevision}]

(* The types of the variables; retry.Do makes no more than Attempts tries. *)
TypeOK ==
  /\ clock \in [Process -> 1 .. MaxTime]
  /\ last \in [Process -> Revision \cup {InitialRevision}]
  /\ issued \subseteq Revision
  /\ table \in [Aggregate -> Partition]
  /\ replica \in [Aggregate -> Partition]
  /\ inflight \subseteq Transaction
  /\ log \in [Aggregate -> Seq(LogEntry)]
  /\ call \in [Client -> Call]
  /\ loaded \in [Client -> Loaded]
  /\ outcome \in [Client -> Outcomes]
  /\ recorded \in [Client -> Nat]

(***************************************************************************)
(* What Publish returns is what happened: success means the events were    *)
(* recorded exactly once, a conflict that they were not, and however often *)
(* the transaction is retried they are never recorded twice.  It counts    *)
(* what a call records before it returns: a transaction executed later is  *)
(* one of an error, and what it may do is said by NoLostUpdate and by      *)
(* ImplementsEventLog.                                                     *)
(***************************************************************************)
PublishOutcome ==
  \A c \in Client :
    /\ recorded[c] <= 1
    /\ outcome[c] = "published" => recorded[c] = 1
    /\ outcome[c] = "conflict" => recorded[c] = 0

(* The transactions DynamoDB may execute next. *)
Sent == inflight \cup { TransactionOf(c) : c \in { c \in Client : At(c, "write") } }

(* The revision of the aggregate its publisher loaded is passed on. *)
PassesOnRevision(w) == w.expected # NoRevision /\ w.expected = w.basis.revision

LoadIsCurrent(w) == w.basis.sets = table[w.aggregate].sets

(***************************************************************************)
(* A publisher that passes on the revision of the aggregate it loaded      *)
(* changes an aggregate that is still the one it loaded, whatever other    *)
(* publishers did since, however stale the load was, however late the      *)
(* transaction arrives and whatever the clocks show.                       *)
(***************************************************************************)
NoLostUpdate ==
  \A w \in Sent : PassesOnRevision(w) /\ CanWrite(w) => LoadIsCurrent(w)

(***************************************************************************)
(* Nor does it meet a conflict when it is: what PublishesWithAnExpected-   *)
(* Revision in we/event-store-validation-suite.go asserts.                 *)
(***************************************************************************)
NoNeedlessConflict ==
  \A w \in Sent : PassesOnRevision(w) /\ LoadIsCurrent(w) => CanWrite(w)

(* A removal failed after the pages with the change sets, before the last. *)
HalfRemoved(a) == table[a].sets = {} /\ table[a].latest # NoRevision

(***************************************************************************)
(* A goroutine alone meets such a conflict in one case only: after its own *)
(* removal failed between the last change set and the latest-revision item.*)
(***************************************************************************)
OnlyHalfRemovalsConflict ==
  \A w \in Sent :
    PassesOnRevision(w) /\ LoadIsCurrent(w) /\ ~HalfRemoved(w.aggregate) => CanWrite(w)

(***************************************************************************)
(* Load returns what was committed up to some moment: the change sets of a *)
(* beginning of the log, none of them missing, and the revision of the     *)
(* last; also when other clients publish between its pages and some of the *)
(* pages are read from a stale replica.                                    *)
(***************************************************************************)
Prefix(entries, k) == { entries[i].revision : i \in 1 .. k }

LoadsArePrefixes ==
  \A c \in Client : loaded[c] # NotLoaded =>
    LET entries == log[AggregateOf[c]] IN
    \E k \in 0 .. Len(entries) :
      /\ { s.revision : s \in loaded[c].sets } = Prefix(entries, k)
      /\ loaded[c].revision = IF k = 0 THEN InitialRevision ELSE entries[k].revision

(***************************************************************************)
(* The revision a Load returns, that of the change set with the greatest   *)
(* sort key, is the revision Publish compares an ExpectedRevision with.    *)
(* When it is not, every publisher that loads first meets a conflict.      *)
(***************************************************************************)
LoadedRevisionIsLatest ==
  \A a \in Aggregate :
    IF table[a].sets = {}
    THEN table[a].latest = NoRevision
    ELSE \E s \in table[a].sets :
           /\ s.revision = table[a].latest
           /\ \A t \in table[a].sets : t.revision <= s.revision

(***************************************************************************)
(* The events of a change set have increasing revisions and the change set *)
(* has the last of them, when no two goroutines share a generator.         *)
(***************************************************************************)
EventsOrdered ==
  \A a \in Aggregate : \A s \in table[a].sets :
    /\ s.revision = LastEvent(s)
    /\ \A i \in 1 .. Len(s.events) - 1 : s.events[i] < s.events[i + 1]

(***************************************************************************)
(* When Remove returns without an error, after any number of pages and     *)
(* earlier removals that failed half way, nothing is left of an aggregate  *)
(* that nobody else works on: it can be created again.                     *)
(***************************************************************************)
RemovedMeansEmpty ==
  \A c \in Client : outcome[c] = "removed" => table[AggregateOf[c]] = EmptyPartition

(***************************************************************************)
(* The store implements the event log: every aggregate is a log to which   *)
(* whole change sets are appended, each after the revision its publisher   *)
(* expected.                                                               *)
(***************************************************************************)
Removable == \E c \in Client : "remove" \in UsesOf[c]

Contract == INSTANCE EventLog

ImplementsEventLog == Contract!Spec

(* Every call returns: pages, removals and the retries of a blind publisher come to an end. *)
CallsReturn == \A c \in Client : ~At(c, "idle") ~> At(c, "idle")
=============================================================================
