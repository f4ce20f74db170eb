-------------------------- MODULE DynamoRemovalProofs --------------------------
(***************************************************************************)
(* Theorems about goroutines that each work on an aggregate of their own   *)
(* in the DynamoDB store: what a removal leaves, and when a publisher      *)
(* that loaded the aggregate meets a conflict.                             *)
(***************************************************************************)
EXTENDS DynamoOrderProofs

USE TimeAssumption, StoreAssumption

-----------------------------------------------------------------------------
(***************************************************************************)
(* Removal, when every goroutine works on an aggregate of its own, keys    *)
(* are listed by consistent reads, and no late transaction comes from a    *)
(* context that ended.  The invariant: what is left to delete lies above   *)
(* the cursor, and a page is a beginning of what is left.                  *)
(***************************************************************************)
Own == \A c, d \in Client : c # d => AggregateOf[c] # AggregateOf[d]

Consistent == ~StaleReads /\ Impatient = {}

(* local: a call; left: the keys of its aggregate. *)
Removing(local, left) ==
  /\ local.step = "list" => \A k \in left : k > local.cursor
  /\ local.step = "delete" =>
       /\ ~local.more => left \subseteq local.keys
       /\ local.more => \A k \in left : k \in local.keys \/ k > local.cursor
       /\ \A k \in left \cap local.keys : \A j \in left : j < k => j \in local.keys

RemovalsInOrder == \A c \in Client : Removing(call[c], KeysOf(table[AggregateOf[c]]))

OutcomesAreLast == \A c \in Client : outcome[c] # "none" => At(c, "idle")

NothingLate == inflight = {}

RemovalInv == TypeInv /\ NothingLate /\ RemovalsInOrder /\ OutcomesAreLast /\ RemovedMeansEmpty

(* The keys of a partition, and what deleting some of them leaves. *)
LEMMA KeyFacts ==
  ASSUME NEW partition \in Partition
  PROVE  /\ KeysOf(partition) \subseteq Revision \cup {LatestKey}
         /\ \A k \in KeysOf(partition) : k \in Nat /\ k > 0 /\ k <= LatestKey
         /\ KeysOf(partition) = {} => partition = EmptyPartition
         /\ \A keys : KeysOf(DeleteKeys(partition, keys)) = KeysOf(partition) \ keys
  <1>1. /\ partition.latest \in Revision \cup {NoRevision}
        /\ \A s \in partition.sets : s.revision \in Revision
        /\ partition = [latest |-> partition.latest, sets |-> partition.sets]
    BY DEF Partition, ChangeSet
  <1>2. KeysOf(partition) \subseteq Revision \cup {LatestKey}
    BY <1>1 DEF KeysOf
  <1>3. \A k \in KeysOf(partition) : k \in Nat /\ k > 0 /\ k <= LatestKey
    <2>1. LatestKey \in Nat /\ LatestKey > 0
      BY DEF LatestKey
    <2>. QED
      BY <1>2, <2>1, RevisionFacts
  <1>4. ASSUME KeysOf(partition) = {} PROVE partition = EmptyPartition
    <2>1. partition.latest = NoRevision /\ partition.sets = {}
      BY <1>4 DEF KeysOf
    <2>. QED
      BY <1>1, <2>1 DEF EmptyPartition
  <1>5. ASSUME NEW keys PROVE KeysOf(DeleteKeys(partition, keys)) = KeysOf(partition) \ keys
    <2>. DEFINE rest == DeleteKeys(partition, keys)
    <2>1. /\ rest.sets = { s \in partition.sets : s.revision \notin keys }
          /\ rest.latest = IF LatestKey \in keys THEN NoRevision ELSE partition.latest
      BY DEF DeleteKeys
    <2>2. \A s \in partition.sets : s.revision # LatestKey
      BY <1>1, RevisionFacts
    <2>3. { s.revision : s \in rest.sets } = { s.revision : s \in partition.sets } \ keys
      BY <2>1
    <2>4. (IF rest.latest = NoRevision THEN {} ELSE {LatestKey})
            = (IF partition.latest = NoRevision THEN {} ELSE {LatestKey}) \ keys
      BY <2>1
    <2>. HIDE DEF rest
    <2>5. KeysOf(rest) = KeysOf(partition) \ keys
      BY <2>3, <2>4 DEF KeysOf
    <2>. QED
      BY <2>5 DEF rest
  <1>. QED
    BY <1>2, <1>3, <1>4, <1>5

(* Nobody touches the aggregate of another client. *)
LEMMA OthersAggregates ==
  ASSUME Own, TypeInv, NEW c \in Client, ClientStep(c), NEW d \in Client \ {c}
  PROVE  table'[AggregateOf[d]] = table[AggregateOf[d]]
  <1>1. AggregateOf[d] # AggregateOf[c] /\ AggregateOf[d] \in Aggregate
    BY CallFacts DEF Own
  <1>2. table \in [Aggregate -> Partition]
    BY DEF TypeInv, TypeOK
  <1>3. CASE Commit(c)
    BY <1>1, <1>2, <1>3 DEF Commit, Write, TransactionOf
  <1>4. CASE DeletePage(c)
    BY <1>1, <1>2, <1>4 DEF DeletePage
  <1>. QED
    BY <1>3, <1>4, ClientLeaves

(* An outcome stands until the next call begins. *)
LEMMA OutcomeOfStep ==
  ASSUME TypeInv, OutcomesAreLast, NEW c \in Client, ClientStep(c)
  PROVE  /\ outcome'[c] # "none" => call'[c].step = "idle"
         /\ outcome'[c] = "removed" =>
              \/ ListPage(c) /\ Return(c, "removed")
              \/ DeletePage(c) /\ ~call[c].more /\ Return(c, "removed")
  <1>0. /\ call \in [Client -> Call] /\ outcome \in [Client -> Outcomes]
        /\ outcome[c] # "none" => call[c].step = "idle"
    BY DEF TypeInv, TypeOK, OutcomesAreLast, At
  <1>. USE DEF At
  <1>1. CASE Start(c)
    BY <1>0, <1>1 DEF Start, StartPublish, PublishNothing, StartLoad, StartRemove, Begin
  <1>2. ASSUME NEW result, Return(c, result)
        PROVE  outcome'[c] = result /\ call'[c].step = "idle"
    BY <1>0, <1>2, IdleType DEF Return
  <1>3. CASE Retry(c) \/ RecordEvent(c)
    BY <1>0, <1>3 DEF Retry, RecordEvent
  <1>4. CASE GeneratorPanics(c) \/ Commit(c) \/ RequestFails(c) \/ GiveUp(c)
    BY <1>2, <1>4 DEF GeneratorPanics, Commit, RequestFails, GiveUp
  <1>5. CASE ConditionFails(c)
    BY <1>0, <1>2, <1>5 DEF ConditionFails
  <1>6. CASE QueryPage(c)
    BY <1>0, <1>2, <1>6 DEF QueryPage, ReturnLoaded
  <1>7. CASE ListPage(c)
    BY <1>0, <1>2, <1>7 DEF ListPage
  <1>8. CASE DeletePage(c)
    BY <1>0, <1>2, <1>8 DEF DeletePage
  <1>. QED
    BY <1>1, <1>3, <1>4, <1>5, <1>6, <1>7, <1>8 DEF ClientStep, Step

(* What is left of the aggregate of c. *)
LEMMA OwnLeft ==
  ASSUME TypeInv, NEW c \in Client
  PROVE  /\ table[AggregateOf[c]] \in Partition
         /\ \A k \in KeysOf(table[AggregateOf[c]]) : k \in Nat /\ k > 0
  BY KeyFacts DEF TypeInv, TypeOK

(* A page is deleted: what is left lies above the cursor. *)
LEMMA DeletePageRemoval ==
  ASSUME RemovalInv, NEW c \in Client, DeletePage(c)
  PROVE  /\ KeysOf(table'[AggregateOf[c]]) = KeysOf(table[AggregateOf[c]]) \ call[c].keys
         /\ Removing(call'[c], KeysOf(table'[AggregateOf[c]]))
  <1>. DEFINE a == AggregateOf[c]
              left == KeysOf(table[a])
  <1>1. /\ TypeInv /\ a \in Aggregate /\ table \in [Aggregate -> Partition]
        /\ table[a] \in Partition /\ call[c] \in Call /\ Removing(call[c], left)
    BY CallFacts DEF RemovalInv, RemovalsInOrder, TypeInv, TypeOK
  <1>2. table'[a] = DeleteKeys(table[a], call[c].keys)
    BY <1>1 DEF DeletePage
  <1>3. KeysOf(table'[a]) = left \ call[c].keys
    BY <1>1, <1>2, KeyFacts
  <1>4. ASSUME Ends(c) PROVE Removing(call'[c], left \ call[c].keys)
    BY <1>4, IdleType DEF Ends, Removing
  <1>5. ASSUME ListsOn(c) PROVE Removing(call'[c], left \ call[c].keys)
    <2>1. call[c].step = "delete" /\ call[c].more
      BY <1>5 DEF ListsOn, At
    <2>2. call'[c].step = "list" /\ call'[c].cursor = call[c].cursor
      BY <1>1, <1>5 DEF ListsOn, Call
    <2>. HIDE DEF left
    <2>. QED
      BY <1>1, <2>1, <2>2 DEF Removing
  <1>. QED
    BY <1>1, <1>3, <1>4, <1>5, ClientEnds

(* A client's own steps keep its removal in order. *)
LEMMA OwnRemoval ==
  ASSUME RemovalInv, Consistent, NEW c \in Client, ClientStep(c)
  PROVE  Removing(call'[c], KeysOf(table'[AggregateOf[c]]))
  <1>. DEFINE a == AggregateOf[c]
              left == KeysOf(table[a])
  <1>1. /\ TypeInv /\ Moves(c) /\ call[c] \in Call /\ Removing(call[c], left)
        /\ \A k \in left : k \in Nat /\ k > 0
    BY ClientMoves, CallFacts, OwnLeft DEF RemovalInv, RemovalsInOrder
  <1>2. CASE DeletePage(c)
    BY <1>2, DeletePageRemoval
  <1>3. CASE Ends(c)
    BY <1>3, IdleType DEF Ends, Removing
  <1>4. CASE ~DeletePage(c) /\ ~Ends(c)
    <2>1. table' = table
      BY <1>1, <1>4, ClientLeaves, ClientEnds
    <2>2. CASE UNCHANGED call
      BY <1>1, <2>1, <2>2
    <2>3. CASE Tries(c) \/ Draws(c) \/ Waits(c)
      <3>1. call'[c].step \notin {"list", "delete"}
        BY <1>1, <2>3 DEF Tries, Draws, Waits, Call
      <3>. QED
        BY <3>1 DEF Removing
    <2>4. CASE Asks(c)
      <3>1. PICK step \in {"query", "list"} : call'[c] = [Idle EXCEPT !.step = step]
        BY <2>4 DEF Asks
      <3>2. call'[c].cursor = 0 /\ call'[c].step # "delete"
        BY <3>1, RevisionFacts DEF Idle
      <3>. HIDE DEF left
      <3>3. Removing(call'[c], left)
        BY <1>1, <3>2 DEF Removing
      <3>. QED
        BY <2>1, <3>3 DEF left
    <2>5. CASE ReadsOn(c)
      <3>1. call'[c].step = "query"
        BY <1>1, <2>5 DEF ReadsOn, At, Call
      <3>. QED
        BY <3>1 DEF Removing
    <2>6. CASE Lists(c)
      <3>1. /\ call'[c].step = "delete"
            /\ LET rest == { k \in left : k > call[c].cursor } IN
               \/ call'[c].keys = rest /\ ~call'[c].more
               \/ \E end \in rest :
                    /\ call'[c].cursor = end /\ call'[c].more
                    /\ call'[c].keys = { k \in rest : k <= end }
        BY <1>1, <2>6, ListsFacts DEF Versions, Consistent
      <3>2. \A k \in left : k > call[c].cursor
        BY <1>1, <2>6 DEF Lists, At, Removing
      <3>. HIDE DEF left
      <3>3. { k \in left : k > call[c].cursor } = left
        BY <3>2
      <3>4. ASSUME call'[c].keys = left, ~call'[c].more PROVE Removing(call'[c], left)
        BY <3>1, <3>4 DEF Removing
      <3>5. ASSUME NEW end \in left, call'[c].cursor = end, call'[c].more,
                   call'[c].keys = { k \in left : k <= end }
            PROVE  Removing(call'[c], left)
        BY <1>1, <3>1, <3>5 DEF Removing
      <3>6. Removing(call'[c], left)
        BY <3>1, <3>3, <3>4, <3>5
      <3>. QED
        BY <2>1, <3>6 DEF left
    <2>7. CASE ListsOn(c)
      <3>1. At(c, "delete") /\ RequestFails(c)
        BY <1>4, <2>7
           DEF ListsOn, ClientStep, Start, StartPublish, PublishNothing, StartLoad, StartRemove, Begin,
               Step, Retry, RecordEvent, GeneratorPanics, Commit, ConditionFails, QueryPage, ListPage,
               GiveUp, At
      <3>. QED
        BY <1>1, <1>4, <3>1, CallFacts DEF RequestFails, Return, Ends
    <2>. QED
      BY <1>1, <1>4, <2>2, <2>3, <2>4, <2>5, <2>6, <2>7 DEF Moves
  <1>. QED
    BY <1>2, <1>3, <1>4

(* When a removal returns, its aggregate is empty. *)
LEMMA OwnRemoved ==
  ASSUME RemovalInv, Consistent, NEW c \in Client, ClientStep(c), outcome'[c] = "removed"
  PROVE  table'[AggregateOf[c]] = EmptyPartition
  <1>. DEFINE a == AggregateOf[c]
              left == KeysOf(table[a])
  <1>1. /\ TypeInv /\ OutcomesAreLast /\ a \in Aggregate /\ table[a] \in Partition
        /\ Removing(call[c], left) /\ TypeInv'
    BY CallFacts, OwnLeft, NextType DEF RemovalInv, RemovalsInOrder, ClientStep, Next
  <1>2. CASE ListPage(c) /\ Return(c, "removed")
    <2>1. call[c].step = "list" /\ table' = table /\ outcome[c] = "none"
      BY <1>1, <1>2 DEF ListPage, remoteVars, OutcomesAreLast, At
    <2>2. { k \in left : k > call[c].cursor } = {}
      BY <1>2, <2>1 DEF ListPage, Versions, Consistent
    <2>3. left = {}
      BY <1>1, <2>1, <2>2 DEF Removing
    <2>. QED
      BY <1>1, <2>1, <2>3, KeyFacts
  <1>3. CASE DeletePage(c) /\ ~call[c].more
    <2>1. KeysOf(table'[a]) = left \ call[c].keys /\ call[c].step = "delete"
      BY <1>3, DeletePageRemoval DEF DeletePage, At
    <2>2. KeysOf(table'[a]) = {}
      BY <1>1, <1>3, <2>1 DEF Removing
    <2>3. table'[a] \in Partition
      BY <1>1 DEF TypeInv, TypeOK
    <2>. QED
      BY <2>2, <2>3, KeyFacts
  <1>. QED
    BY <1>1, <1>2, <1>3, OutcomeOfStep

(* RemovalInv holds initially. *)
LEMMA InitRemoval == Init => RemovalInv
  <1>. SUFFICES ASSUME Init PROVE RemovalInv
    OBVIOUS
  <1>1. RemovalsInOrder
    BY IdleType DEF Init, RemovalsInOrder, Removing
  <1>2. NothingLate /\ OutcomesAreLast /\ RemovedMeansEmpty
    BY DEF Init, NothingLate, OutcomesAreLast, RemovedMeansEmpty
  <1>. QED
    BY <1>1, <1>2, InitType DEF RemovalInv

(* RemovalInv is inductive. *)
LEMMA NextRemoval ==
  ASSUME Own, Consistent PROVE RemovalInv /\ [Next]_vars => RemovalInv'
  <1>. SUFFICES ASSUME RemovalInv, [Next]_vars
                PROVE  NothingLate' /\ RemovalsInOrder' /\ OutcomesAreLast' /\ RemovedMeansEmpty'
    BY NextType DEF RemovalInv
  <1>0. TypeInv /\ OutcomesAreLast /\ NothingLate
    BY DEF RemovalInv
  <1>1. ASSUME NEW c \in Client, ClientStep(c)
        PROVE  NothingLate' /\ RemovalsInOrder' /\ OutcomesAreLast' /\ RemovedMeansEmpty'
    <2>1. \A d \in Client \ {c} : /\ call'[d] = call[d] /\ outcome'[d] = outcome[d]
                                  /\ table'[AggregateOf[d]] = table[AggregateOf[d]]
      BY <1>0, <1>1, ClientMoves, ClientLeaves, OthersAggregates DEF OthersKept
    <2>2. NothingLate'
      BY <1>0, <1>1, ClientLeaves DEF NothingLate, GiveUp, Consistent
    <2>3. RemovalsInOrder'
      BY <1>1, <2>1, OwnRemoval DEF RemovalInv, RemovalsInOrder
    <2>4. OutcomesAreLast'
      BY <1>0, <1>1, <2>1, OutcomeOfStep DEF OutcomesAreLast, At
    <2>5. RemovedMeansEmpty'
      BY <1>1, <2>1, OwnRemoved DEF RemovalInv, RemovedMeansEmpty
    <2>. QED
      BY <2>2, <2>3, <2>4, <2>5
  <1>2. ASSUME NEW p \in Restarting, Restart(p)
        PROVE  NothingLate' /\ RemovalsInOrder' /\ OutcomesAreLast' /\ RemovedMeansEmpty'
    <2>1. UNCHANGED <<table, inflight>>
      BY <1>2 DEF Restart, remoteVars
    <2>2. \A d \in Client : \/ call'[d] = Idle /\ outcome'[d] = "none"
                            \/ call'[d] = call[d] /\ outcome'[d] = outcome[d]
      BY <1>2 DEF Restart
    <2>3. RemovalsInOrder'
      BY <2>1, <2>2, IdleType DEF RemovalInv, RemovalsInOrder, Removing
    <2>. QED
      BY <2>1, <2>2, <2>3 DEF RemovalInv, NothingLate, OutcomesAreLast, RemovedMeansEmpty, At
  <1>3. CASE UNCHANGED <<call, outcome, table, inflight>>
    BY <1>3 DEF RemovalInv, NothingLate, RemovalsInOrder, OutcomesAreLast, RemovedMeansEmpty, At
  <1>. QED
    BY <1>0, <1>1, <1>2, <1>3
       DEF Next, ClientStep, NothingLate, Replicate, ClockTicks, vars, remoteVars, clientVars

(* When Remove returns without an error, nothing is left of the aggregate,  *)
(* after any number of pages, lost replies, restarts and earlier removals   *)
(* that failed half way, as long as nobody else works on it.                *)
THEOREM RemovedIsEmpty ==
  ASSUME Own, Consistent PROVE Spec => []RemovedMeansEmpty
  <1>1. RemovalInv /\ [Next]_vars => RemovalInv'
    BY NextRemoval
  <1>2. RemovalInv => RemovedMeansEmpty
    BY DEF RemovalInv
  <1>. QED
    BY <1>1, <1>2, InitRemoval, PTL DEF Spec

-----------------------------------------------------------------------------
(***************************************************************************)
(* Conflicts, when in addition every goroutine has a generator of its own. *)
(* The invariant: what a goroutine writes next sorts after all it wrote,   *)
(* since its generator goes on, or its process started again in a later    *)
(* millisecond; so that latest-revision is the greatest, unless a removal  *)
(* left nothing else.                                                      *)
(***************************************************************************)
Greatest(partition) ==
  partition.sets # {} =>
    /\ \E s \in partition.sets : s.revision = partition.latest
    /\ \A s \in partition.sets : s.revision = LastEvent(s) /\ s.revision <= partition.latest

(* r is issued before every revision a generator issues from time now on. *)
Before(r, latest, now) == r <= latest \/ Millis(r) < now

(* A call, its aggregate's change sets, and the clock and the last revision of its generator. *)
Ascending(local, sets, now, latest) ==
  /\ Millis(latest) <= now
  /\ \A s \in sets : Before(s.revision, latest, now)
  /\ local.step = "make" =>
       /\ local.now <= now /\ Millis(latest) <= local.now
       /\ \A s \in sets : Before(s.revision, latest, local.now)
       /\ local.drafts # <<>> => latest = local.drafts[Len(local.drafts)]
  /\ local.step = "write" =>
       /\ latest = local.drafts[Len(local.drafts)]
       /\ \A s \in sets : s.revision < latest

WritersAscend ==
  \A c \in Client :
    Ascending(call[c], table[AggregateOf[c]].sets, clock[HostOf[c]], last[HostOf[c]])

LatestIsGreatest == \A a \in Aggregate : Greatest(table[a])

LoadsAreRevisions ==
  \A c \in Client : loaded[c] # NotLoaded => loaded[c].revision \in RevisionsFrom(loaded[c].sets)

ConflictInv == RemovalInv /\ WritersAscend /\ LatestIsGreatest /\ LoadsAreRevisions

(* Revisions compare as their milliseconds do. *)
LEMMA MillisFacts ==
  ASSUME NEW r \in Nat, NEW s \in Nat
  PROVE  /\ Millis(r) \in Nat /\ Millis(0) = 0
         /\ r <= s => Millis(r) <= Millis(s)
  BY DEF Millis

(* A revision that is issued is greater than those that were issued before it. *)
LEMMA BeforeIssued ==
  ASSUME NEW s \in Nat, NEW r \in Nat, NEW latest \in Nat,
         Before(s, latest, Millis(r)), Millis(latest) <= Millis(r),
         Millis(latest) = Millis(r) => r > latest
  PROVE  s < r
  <1>1. Millis(s) \in Nat /\ Millis(r) \in Nat /\ Millis(latest) \in Nat
    BY MillisFacts
  <1>2. Millis(latest) < Millis(r) => latest < r
    BY <1>1, MillisFacts
  <1>3. Millis(s) < Millis(r) => s < r
    BY <1>1, MillisFacts
  <1>. QED
    BY <1>1, <1>2, <1>3 DEF Before

(* The numbers a client, its aggregate and its generator are about. *)
LEMMA AscendFacts ==
  ASSUME TypeInv, NEW c \in Client
  PROVE  /\ last[HostOf[c]] \in Nat /\ clock[HostOf[c]] \in Nat /\ call[c].now \in Nat
         /\ \A s \in table[AggregateOf[c]].sets : s.revision \in Nat
  <1>1. table[AggregateOf[c]] \in Partition
    BY OwnLeft
  <1>. QED
    BY <1>1, CallFacts, RevisionFacts DEF Partition, ChangeSet

(* Fewer change sets, or another call that does not write, keep the order. *)
LEMMA AscendingKept ==
  ASSUME NEW local, NEW next, NEW sets, NEW fewer \in SUBSET sets, NEW now, NEW latest,
         Ascending(local, sets, now, latest),
         next = local \/ next.step \notin {"make", "write"}
  PROVE  Ascending(next, fewer, now, latest)
  BY DEF Ascending

(* A client draws a revision: it is the greatest of its aggregate. *)
LEMMA DrawAscends ==
  ASSUME ConflictInv, NEW c \in Client, Draws(c)
  PROVE  Ascending(call'[c], table[AggregateOf[c]].sets, clock[HostOf[c]], last'[HostOf[c]])
  <1>. DEFINE p == HostOf[c]
              sets == table[AggregateOf[c]].sets
  <1>1. /\ TypeInv /\ p \in Process /\ Ascending(call[c], sets, clock[p], last[p])
        /\ call[c].drafts \in Seq(Revision) /\ last \in [Process -> Revision \cup {InitialRevision}]
        /\ last[p] \in Nat /\ clock[p] \in Nat /\ call[c].now \in Nat
        /\ \A s \in sets : s.revision \in Nat
    BY CallFacts, AscendFacts DEF ConflictInv, RemovalInv, WritersAscend, TypeInv, TypeOK
  <1>2. PICK r \in NewRevisions(p, call[c].now) :
          /\ NewRevision(p, r) /\ At(c, "make") /\ call'[c].now = call[c].now
          /\ call'[c].step \in {"make", "write"}
          /\ call'[c].drafts = Append(call[c].drafts, r)
    BY DEF Draws
  <1>3. /\ r \in Revision /\ r \in Nat /\ Millis(r) = call[c].now
        /\ Millis(last[p]) = call[c].now => r > last[p]
    BY <1>2, RevisionFacts DEF NewRevisions
  <1>4. /\ call[c].now <= clock[p] /\ Millis(last[p]) <= call[c].now
        /\ \A s \in sets : Before(s.revision, last[p], call[c].now)
    BY <1>1, <1>2 DEF Ascending, At
  <1>5. last'[p] = r
    BY <1>1, <1>2 DEF NewRevision
  <1>. HIDE DEF sets, p
  <1>6. \A s \in sets : s.revision < r
    <2>. SUFFICES ASSUME NEW s \in sets PROVE s.revision < r
      OBVIOUS
    <2>. DEFINE old == s.revision
                latest == last[p]
    <2>1. old \in Nat /\ latest \in Nat /\ Before(old, latest, Millis(r))
          /\ Millis(latest) <= Millis(r) /\ (Millis(latest) = Millis(r) => r > latest)
      BY <1>1, <1>3, <1>4
    <2>. HIDE DEF old, latest
    <2>2. old < r
      BY <1>3, <2>1, BeforeIssued
    <2>. QED
      BY <2>2 DEF old
  <1>7. Append(call[c].drafts, r)[Len(Append(call[c].drafts, r))] = r
    <2>. DEFINE drafts == call[c].drafts
    <2>1. drafts \in Seq(Revision)
      BY <1>1
    <2>. HIDE DEF drafts
    <2>2. Append(drafts, r)[Len(Append(drafts, r))] = r
      BY <1>3, <2>1, AppendFacts
    <2>. QED
      BY <2>2 DEF drafts
  <1>8. \A s \in sets : Before(s.revision, r, clock[p]) /\ Before(s.revision, r, call'[c].now)
    BY <1>1, <1>3, <1>6 DEF Before
  <1>9. r = call'[c].drafts[Len(call'[c].drafts)]
    BY <1>2, <1>7
  <1>10. Ascending(call'[c], sets, clock[p], r)
    BY <1>1, <1>2, <1>3, <1>4, <1>6, <1>8, <1>9 DEF Ascending
  <1>. QED
    BY <1>5, <1>10 DEF sets, p

(* A client sends its transaction: the change set has the greatest revision. *)
LEMMA SentIsGreatest ==
  ASSUME ConflictInv, NEW c \in Client, At(c, "write")
  PROVE  LET changes == TransactionOf(c).changes IN
         /\ changes.revision = last[HostOf[c]] /\ changes.revision = LastEvent(changes)
         /\ \A s \in table[AggregateOf[c]].sets : s.revision < changes.revision
  BY DEF ConflictInv, WritersAscend, Ascending, At, TransactionOf, Changes, LastEvent

(* A client's own steps keep its writes ascending. *)
LEMMA OwnAscends ==
  ASSUME ConflictInv, NEW c \in Client, ClientStep(c)
  PROVE  Ascending(call'[c], table'[AggregateOf[c]].sets, clock[HostOf[c]], last'[HostOf[c]])
  <1>. DEFINE a == AggregateOf[c]
              p == HostOf[c]
  <1>1. /\ TypeInv /\ Moves(c) /\ call[c] \in Call /\ a \in Aggregate
        /\ Ascending(call[c], table[a].sets, clock[p], last[p])
        /\ last[p] \in Nat /\ clock[p] \in Nat /\ \A s \in table[a].sets : s.revision \in Nat
        /\ table \in [Aggregate -> Partition]
    BY ClientMoves, CallFacts, AscendFacts
       DEF ConflictInv, RemovalInv, WritersAscend, TypeInv, TypeOK
  <1>2. CASE Commit(c)
    <2>1. call'[c].step = "idle" /\ last' = last
      <3>1. Ends(c) /\ UNCHANGED generatorVars
        BY <1>1, <1>2, ClientEnds DEF Commit
      <3>. QED
        BY <3>1, IdleType DEF Ends, generatorVars
    <2>2. table'[a].sets \subseteq table[a].sets \cup {TransactionOf(c).changes}
      BY <1>1, <1>2 DEF Commit, Write, PutChangeSet, TransactionOf
    <2>3. TransactionOf(c).changes.revision = last[p]
      BY <1>2, SentIsGreatest DEF Commit
    <2>4. \A s \in table'[a].sets : Before(s.revision, last[p], clock[p])
      BY <1>1, <2>2, <2>3 DEF Before, Ascending
    <2>. QED
      BY <1>1, <2>1, <2>4 DEF Ascending
  <1>3. CASE DeletePage(c)
    <2>1. call'[c].step \notin {"make", "write"} /\ last' = last
      BY <1>1, <1>3, ClientEnds, IdleType DEF DeletePage, generatorVars, Ends, ListsOn, Call
    <2>2. table'[a].sets \subseteq table[a].sets
      BY <1>1, <1>3 DEF DeletePage, DeleteKeys
    <2>. QED
      BY <1>1, <2>1, <2>2, AscendingKept
  <1>4. CASE Draws(c) /\ ~Commit(c) /\ ~DeletePage(c)
    BY <1>1, <1>4, DrawAscends, ClientLeaves
  <1>5. CASE ~Draws(c) /\ ~Commit(c) /\ ~DeletePage(c)
    <2>1. UNCHANGED <<table, last>>
      BY <1>1, <1>5, ClientLeaves
    <2>2. CASE call'[c] = call[c] \/ call'[c].step \notin {"make", "write"}
      BY <1>1, <2>1, <2>2, AscendingKept
    <2>3. CASE Tries(c)
      BY <1>1, <2>1, <2>3 DEF Tries, Ascending
    <2>4. ~Tries(c) => call'[c] = call[c] \/ call'[c].step \notin {"make", "write"}
      <3>1. CASE Ends(c) \/ Asks(c)
        BY <3>1, IdleType DEF Ends, Asks, Idle
      <3>2. CASE Waits(c) \/ ListsOn(c) \/ ReadsOn(c)
        BY <1>1, <3>2 DEF Waits, ListsOn, ReadsOn, At, Call
      <3>3. CASE Lists(c)
        BY <1>1, <3>3, ListsFacts
      <3>. QED
        BY <1>1, <1>5, <3>1, <3>2, <3>3 DEF Moves
    <2>. QED
      BY <2>2, <2>3, <2>4
  <1>. QED
    BY <1>2, <1>3, <1>4, <1>5

(* Writing the greatest revision makes it the latest. *)
LEMMA PutGreatest ==
  ASSUME NEW partition \in Partition, NEW changes \in ChangeSet,
         changes.revision = LastEvent(changes),
         \A s \in partition.sets : s.revision < changes.revision, Greatest(partition)
  PROVE  Greatest(PutChangeSet(partition, changes))
  <1>. DEFINE next == PutChangeSet(partition, changes)
  <1>1. changes.revision \in Nat /\ \A s \in partition.sets : s.revision \in Nat
    BY RevisionFacts DEF Partition, ChangeSet
  <1>2. next.latest = changes.revision /\ next.sets \subseteq partition.sets \cup {changes}
        /\ changes \in next.sets
    BY DEF PutChangeSet
  <1>3. \A s \in partition.sets : s.revision = LastEvent(s)
    BY DEF Greatest
  <1>. HIDE DEF next
  <1>4. Greatest(next)
    BY <1>1, <1>2, <1>3 DEF Greatest
  <1>. QED
    BY <1>4 DEF next

(* Deleting a beginning of the keys leaves the greatest, or nothing. *)
LEMMA DeleteGreatest ==
  ASSUME NEW partition \in Partition, NEW keys, Greatest(partition),
         \A k \in KeysOf(partition) \cap keys : \A j \in KeysOf(partition) : j < k => j \in keys
  PROVE  Greatest(DeleteKeys(partition, keys))
  <1>. DEFINE next == DeleteKeys(partition, keys)
  <1>1. /\ next.sets = { s \in partition.sets : s.revision \notin keys }
        /\ next.latest = IF LatestKey \in keys THEN NoRevision ELSE partition.latest
    BY DEF DeleteKeys
  <1>2. SUFFICES ASSUME NEW s \in next.sets
                 PROVE  /\ next.latest = partition.latest
                        /\ \E m \in next.sets : m.revision = partition.latest
    <2>1. next.sets # {} => /\ next.latest = partition.latest
                            /\ \E m \in next.sets : m.revision = partition.latest
      BY <1>2
    <2>2. next.sets # {} => \A s \in partition.sets : s.revision = LastEvent(s)
                                                      /\ s.revision <= partition.latest
      BY <1>1 DEF Greatest
    <2>3. Greatest(next)
      <3>. HIDE DEF next
      <3>. QED
        BY <1>1, <2>1, <2>2 DEF Greatest
    <2>. QED
      BY <2>3
  <1>3. /\ \A t \in partition.sets : /\ t.revision \in Revision /\ t.revision \in Nat
                                     /\ t.revision < LatestKey /\ t.revision \in KeysOf(partition)
        /\ s \in partition.sets /\ s.revision \notin keys
    BY <1>1, RevisionFacts DEF Partition, ChangeSet, KeysOf
  <1>4. PICK m \in partition.sets :
          /\ m.revision = partition.latest
          /\ \A t \in partition.sets : t.revision <= partition.latest
    BY <1>3 DEF Greatest
  <1>5. LatestKey \in KeysOf(partition)
    BY <1>3, <1>4, RevisionFacts DEF KeysOf
  <1>6. LatestKey \notin keys
    BY <1>3, <1>5
  <1>7. m.revision \notin keys
    BY <1>3, <1>4
  <1>. QED
    BY <1>1, <1>4, <1>6, <1>7

(* A client's own steps keep its aggregate's latest revision the greatest. *)
LEMMA OwnGreatest ==
  ASSUME ConflictInv, NEW c \in Client, ClientStep(c)
  PROVE  LatestIsGreatest'
  <1>. DEFINE a == AggregateOf[c]
  <1>1. /\ TypeInv /\ a \in Aggregate /\ table \in [Aggregate -> Partition] /\ LatestIsGreatest
        /\ table[a] \in Partition
    BY CallFacts DEF ConflictInv, RemovalInv, TypeInv, TypeOK
  <1>2. ASSUME Greatest(table'[a]), \A b \in Aggregate \ {a} : table'[b] = table[b]
        PROVE  LatestIsGreatest'
    <2>1. \A b \in Aggregate : Greatest(table'[b])
      BY <1>1, <1>2 DEF LatestIsGreatest
    <2>. QED
      BY <2>1 DEF LatestIsGreatest, Greatest
  <1>3. CASE Commit(c)
    <2>. DEFINE changes == TransactionOf(c).changes
    <2>1. table' = [table EXCEPT ![a] = PutChangeSet(@, changes)] /\ At(c, "write")
      BY <1>3 DEF Commit, Write, TransactionOf
    <2>2. /\ changes \in ChangeSet /\ changes.revision = LastEvent(changes)
          /\ \A s \in table[a].sets : s.revision < changes.revision
      BY <1>1, <2>1, SentIsGreatest, TransactionType DEF Transaction
    <2>. HIDE DEF changes
    <2>3. Greatest(PutChangeSet(table[a], changes))
      BY <1>1, <2>2, PutGreatest DEF LatestIsGreatest
    <2>. QED
      BY <1>1, <1>2, <2>1, <2>3
  <1>4. CASE DeletePage(c)
    <2>1. table' = [table EXCEPT ![a] = DeleteKeys(@, call[c].keys)] /\ call[c].step = "delete"
      BY <1>4 DEF DeletePage, At
    <2>2. \A k \in KeysOf(table[a]) \cap call[c].keys :
            \A j \in KeysOf(table[a]) : j < k => j \in call[c].keys
      BY <2>1 DEF ConflictInv, RemovalInv, RemovalsInOrder, Removing
    <2>. DEFINE keys == call[c].keys
    <2>3. \A k \in KeysOf(table[a]) \cap keys : \A j \in KeysOf(table[a]) : j < k => j \in keys
      BY <2>2
    <2>. HIDE DEF keys
    <2>4. Greatest(DeleteKeys(table[a], keys))
      BY <1>1, <2>3, DeleteGreatest DEF LatestIsGreatest
    <2>5. Greatest(table'[a])
      BY <1>1, <2>1, <2>4 DEF keys
    <2>. QED
      BY <1>1, <1>2, <2>1, <2>5
  <1>5. CASE UNCHANGED table
    BY <1>1, <1>5 DEF LatestIsGreatest
  <1>. QED
    BY <1>1, <1>3, <1>4, <1>5, ClientLeaves

(* ConflictInv holds initially. *)
LEMMA InitConflict == Init => ConflictInv
  <1>. SUFFICES ASSUME Init PROVE ConflictInv
    OBVIOUS
  <1>1. WritersAscend
    <2>. SUFFICES ASSUME NEW c \in Client
                  PROVE  Ascending(call[c], table[AggregateOf[c]].sets, clock[HostOf[c]], last[HostOf[c]])
      BY DEF WritersAscend
    <2>1. /\ call[c].step = "idle" /\ table[AggregateOf[c]].sets = {}
          /\ clock[HostOf[c]] = 1 /\ last[HostOf[c]] = 0
      BY IdleType, RevisionFacts DEF Init, InitGenerator, EmptyPartition
    <2>. QED
      BY <2>1, MillisFacts DEF Ascending
  <1>2. LatestIsGreatest /\ LoadsAreRevisions
    BY DEF Init, EmptyPartition, LatestIsGreatest, Greatest, LoadsAreRevisions
  <1>. QED
    BY <1>1, <1>2, InitRemoval DEF ConflictInv

(* A generator starts again in a millisecond later than all it issued. *)
LEMMA RestartAscends ==
  ASSUME ConflictInv, NEW p \in Restarting, Restart(p) PROVE WritersAscend'
  <1>. SUFFICES ASSUME NEW d \in Client
                PROVE  Ascending(call'[d], table'[AggregateOf[d]].sets,
                                 clock'[HostOf[d]], last'[HostOf[d]])
    BY DEF WritersAscend
  <1>1. /\ TypeInv /\ UNCHANGED <<table, clock>> /\ Millis(last[p]) < clock[p]
        /\ last' = [last EXCEPT ![p] = InitialRevision]
        /\ Ascending(call[d], table[AggregateOf[d]].sets, clock[HostOf[d]], last[HostOf[d]])
        /\ last \in [Process -> Revision \cup {InitialRevision}] /\ HostOf[d] \in Process
    BY CallFacts DEF ConflictInv, RemovalInv, WritersAscend, Restart, ResetGenerator, remoteVars,
                     TypeInv, TypeOK
  <1>2. CASE HostOf[d] = p
    <2>1. call'[d].step = "idle" /\ last'[p] = 0
      BY <1>1, <1>2, IdleType, RevisionFacts DEF Restart
    <2>2. last[p] \in Nat /\ clock[p] \in Nat /\ \A s \in table[AggregateOf[d]].sets : s.revision \in Nat
      BY <1>1, <1>2, AscendFacts
    <2>3. ASSUME NEW s \in table[AggregateOf[d]].sets PROVE Before(s.revision, 0, clock[p])
      <3>. DEFINE r == s.revision
                  latest == last[p]
      <3>1. r \in Nat /\ latest \in Nat /\ Before(r, latest, clock[p]) /\ Millis(latest) < clock[p]
        BY <1>1, <1>2, <2>2 DEF Ascending
      <3>. HIDE DEF r, latest
      <3>2. Millis(r) \in Nat /\ Millis(latest) \in Nat /\ (r <= latest => Millis(r) <= Millis(latest))
        BY <3>1, MillisFacts
      <3>3. Before(r, 0, clock[p])
        BY <2>2, <3>1, <3>2 DEF Before
      <3>. QED
        BY <3>3 DEF r
    <2>4. Millis(0) = 0
      BY MillisFacts
    <2>. QED
      BY <1>1, <1>2, <2>1, <2>2, <2>3, <2>4 DEF Ascending
  <1>3. CASE HostOf[d] # p
    <2>1. call'[d] = call[d] /\ last'[HostOf[d]] = last[HostOf[d]]
      BY <1>1, <1>3 DEF Restart
    <2>. QED
      BY <1>1, <2>1
  <1>. QED
    BY <1>2, <1>3

(* A clock that moves on changes no order. *)
LEMMA TickAscends ==
  ASSUME ConflictInv, ClockTicks PROVE WritersAscend'
  <1>. SUFFICES ASSUME NEW d \in Client
                PROVE  Ascending(call'[d], table'[AggregateOf[d]].sets,
                                 clock'[HostOf[d]], last'[HostOf[d]])
    BY DEF WritersAscend
  <1>1. TypeInv /\ UNCHANGED <<call, table, last>>
    BY DEF ConflictInv, RemovalInv, ClockTicks, Tick, remoteVars, clientVars
  <1>2. clock'[HostOf[d]] \in {clock[HostOf[d]], clock[HostOf[d]] + 1}
    BY <1>1, CallFacts DEF ClockTicks, Tick
  <1>. DEFINE now == clock[HostOf[d]]
              next == clock'[HostOf[d]]
              latest == last[HostOf[d]]
              local == call[d]
              sets == table[AggregateOf[d]].sets
  <1>3. /\ now \in Nat /\ next \in {now, now + 1} /\ latest \in Nat /\ local.now \in Nat
        /\ \A s \in sets : s.revision \in Nat
        /\ Ascending(local, sets, now, latest)
    BY <1>1, <1>2, AscendFacts DEF ConflictInv, WritersAscend
  <1>. HIDE DEF now, next, latest, local, sets
  <1>4. Millis(latest) \in Nat /\ \A s \in sets : Millis(s.revision) \in Nat
    BY <1>3, MillisFacts
  <1>5. \A s \in sets : Before(s.revision, latest, now) => Before(s.revision, latest, next)
    BY <1>3, <1>4 DEF Before
  <1>6. Ascending(local, sets, next, latest)
    BY <1>3, <1>4, <1>5 DEF Ascending
  <1>. QED
    BY <1>1, <1>6 DEF local, sets, next, latest

(* ConflictInv is inductive. *)
LEMMA NextConflict ==
  ASSUME Own, OwnGenerator, Consistent PROVE ConflictInv /\ [Next]_vars => ConflictInv'
  <1>. SUFFICES ASSUME ConflictInv, [Next]_vars
                PROVE  WritersAscend' /\ LatestIsGreatest' /\ LoadsAreRevisions'
    BY NextRemoval DEF ConflictInv
  <1>0. TypeInv /\ NothingLate
    BY DEF ConflictInv, RemovalInv
  <1>1. ASSUME NEW c \in Client, ClientStep(c)
        PROVE  WritersAscend' /\ LatestIsGreatest' /\ LoadsAreRevisions'
    <2>1. clock' = clock
      BY <1>0, <1>1, ClientLeaves
    <2>2. ASSUME NEW d \in Client
          PROVE  Ascending(call'[d], table'[AggregateOf[d]].sets, clock[HostOf[d]], last'[HostOf[d]])
      <3>1. CASE d = c
        BY <1>1, <3>1, OwnAscends
      <3>2. CASE d # c
        <4>1. call'[d] = call[d] /\ table'[AggregateOf[d]] = table[AggregateOf[d]]
          BY <1>0, <1>1, <3>2, ClientMoves, OthersAggregates DEF OthersKept
        <4>2. HostOf[d] # HostOf[c]
          BY <3>2 DEF OwnGenerator
        <4>3. last'[HostOf[d]] = last[HostOf[d]]
          BY <1>0, <1>1, <4>2, ClientLeaves, CallFacts DEF Draws, NewRevision, TypeInv, TypeOK
        <4>. QED
          BY <4>1, <4>3 DEF ConflictInv, WritersAscend
      <3>. QED
        BY <3>1, <3>2
    <2>3. WritersAscend'
      BY <2>1, <2>2 DEF WritersAscend
    <2>4. LoadsAreRevisions'
      <3>1. CASE QueryPage(c)
        <4>1. \/ loaded' = loaded
              \/ \E sets : \E revision \in RevisionsFrom(sets) :
                   loaded' = [loaded EXCEPT ![c] = [revision |-> revision, sets |-> sets]]
          BY <3>1 DEF QueryPage, ReturnLoaded
        <4>. QED
          BY <1>0, <4>1 DEF ConflictInv, LoadsAreRevisions, TypeInv, TypeOK
      <3>2. CASE UNCHANGED loaded
        BY <3>2 DEF ConflictInv, LoadsAreRevisions
      <3>. QED
        BY <1>0, <1>1, <3>1, <3>2, ClientLeaves
    <2>. QED
      BY <1>1, <2>3, <2>4, OwnGreatest
  <1>2. ASSUME NEW p \in Restarting, Restart(p)
        PROVE  WritersAscend' /\ LatestIsGreatest' /\ LoadsAreRevisions'
    <2>1. LatestIsGreatest'
      BY <1>2 DEF Restart, remoteVars, ConflictInv, LatestIsGreatest
    <2>2. LoadsAreRevisions'
      BY <1>2 DEF Restart, ConflictInv, LoadsAreRevisions
    <2>. QED
      BY <1>2, <2>1, <2>2, RestartAscends
  <1>3. CASE ClockTicks
    <2>1. LatestIsGreatest' /\ LoadsAreRevisions'
      BY <1>3 DEF ClockTicks, remoteVars, clientVars, ConflictInv, LatestIsGreatest, LoadsAreRevisions
    <2>. QED
      BY <1>3, <2>1, TickAscends
  <1>4. CASE UNCHANGED <<generatorVars, table, clientVars>>
    BY <1>4 DEF generatorVars, clientVars, ConflictInv, WritersAscend, LatestIsGreatest,
                LoadsAreRevisions
  <1>. QED
    BY <1>0, <1>1, <1>2, <1>3, <1>4
       DEF Next, ClientStep, NothingLate, Replicate, vars, remoteVars

(* ConflictInv says that only what a removal left half done refuses a load. *)
LEMMA ConflictInvSuffices == ConflictInv => OnlyHalfRemovalsConflict
  <1>. SUFFICES ASSUME ConflictInv, NEW w \in Sent, PassesOnRevision(w), LoadIsCurrent(w),
                       ~HalfRemoved(w.aggregate)
                PROVE  CanWrite(w)
    BY DEF OnlyHalfRemovalsConflict
  <1>1. PICK c \in Client : At(c, "write") /\ w = TransactionOf(c)
    BY DEF Sent, ConflictInv, RemovalInv, NothingLate
  <1>. DEFINE a == AggregateOf[c]
              load == loaded[c]
  <1>2. /\ TypeInv /\ a \in Aggregate /\ table[a] \in Partition /\ Greatest(table[a])
        /\ load # NotLoaded => load.revision \in RevisionsFrom(load.sets)
    BY CallFacts, OwnLeft DEF ConflictInv, RemovalInv, LatestIsGreatest, LoadsAreRevisions
  <1>3. /\ w.aggregate = a /\ w.expected = load.revision /\ w.expected # NoRevision
        /\ load.sets = table[a].sets
    BY <1>1 DEF TransactionOf, PassesOnRevision, LoadIsCurrent
  <1>4. w.expected \in RevisionsFrom(table[a].sets)
    BY <1>2, <1>3 DEF NotLoaded
  <1>5. CASE table[a].sets = {}
    <2>1. w.expected = InitialRevision
      BY <1>4, <1>5 DEF RevisionsFrom
    <2>2. table[a].latest = NoRevision
      BY <1>3, <1>5 DEF HalfRemoved
    <2>. QED
      BY <1>3, <2>1, <2>2 DEF CanWrite, LatestCondition
  <1>6. CASE table[a].sets # {}
    <2>1. PICK s \in table[a].sets :
            w.expected = LastEvent(s) /\ \A t \in table[a].sets : t.revision <= s.revision
      BY <1>4, <1>6 DEF RevisionsFrom
    <2>2. /\ \A t \in table[a].sets : t.revision \in Revision /\ t.revision \in Nat
          /\ \A t \in table[a].sets : t.revision = LastEvent(t) /\ t.revision <= table[a].latest
          /\ \E t \in table[a].sets : t.revision = table[a].latest
      BY <1>2, <1>6, RevisionFacts DEF Greatest, Partition, ChangeSet
    <2>3. w.expected = table[a].latest /\ w.expected \in Revision
      BY <2>1, <2>2
    <2>4. w.expected \notin {NoRevision, InitialRevision}
      BY <2>3, RevisionFacts
    <2>. QED
      BY <1>3, <2>3, <2>4 DEF CanWrite, LatestCondition
  <1>. QED
    BY <1>5, <1>6

(* A goroutine with an aggregate and a generator of its own, that publishes *)
(* with the revision it loaded, meets a conflict on an unchanged aggregate  *)
(* only after a removal of its own failed before the latest-revision item:  *)
(* with pages, lost replies, restarts and clocks that move at any pace.     *)
THEOREM OnlyHalfRemovalsAreRefused ==
  ASSUME Own, OwnGenerator, Consistent PROVE Spec => []OnlyHalfRemovalsConflict
  <1>1. ConflictInv /\ [Next]_vars => ConflictInv'
    BY NextConflict
  <1>. QED
    BY <1>1, InitConflict, ConflictInvSuffices, PTL DEF Spec
=============================================================================
