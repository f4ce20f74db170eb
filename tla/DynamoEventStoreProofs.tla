------------------------ MODULE DynamoEventStoreProofs ------------------------
(***************************************************************************)
(* Theorems about the DynamoDB store, for every number of clients,         *)
(* processes and aggregates, every skew of the clocks, with stale reads,   *)
(* pages, retries, lost replies and restarts.                              *)
(***************************************************************************)
EXTENDS DynamoEventStore, TLAPS

USE TimeAssumption, StoreAssumption

(* ULIDs are above the initial revision and below the latest-revision key. *)
LEMMA RevisionFacts ==
  /\ LatestKey \in Nat
  /\ \A r \in Revision : r \in Nat /\ r > 0 /\ r < LatestKey
  /\ NoRevision = -1 /\ InitialRevision = 0
  <1>1. (MaxTime + 1) * EntropyWidth \in Nat
    OBVIOUS
  <1>. QED
    BY <1>1 DEF Revision, LatestKey, NoRevision, InitialRevision

(* What Append adds, and leaves as it was. *)
LEMMA AppendFacts ==
  ASSUME NEW S, NEW s \in Seq(S), NEW e \in S
  PROVE  /\ Append(s, e) \in Seq(S) /\ Append(s, e) # <<>>
         /\ Len(Append(s, e)) = Len(s) + 1
         /\ Append(s, e)[Len(s) + 1] = e
         /\ \A i \in 1 .. Len(s) : Append(s, e)[i] = s[i]
  <1>1. Append(s, e) \in Seq(S) /\ Len(Append(s, e)) = Len(s) + 1
    OBVIOUS
  <1>2. Len(Append(s, e)) # 0 /\ Len(<<>>) = 0
    BY <1>1
  <1>. QED
    BY <1>1, <1>2

(* retry.Do counts its tries before it waits for the next one; the events *)
(* of a transaction have their revisions before it is sent; only clients  *)
(* that use Remove list and delete.                                       *)
CallInv ==
  \A c \in Client :
    /\ At(c, "retry") => call[c].tries < Attempts
    /\ At(c, "write") => call[c].drafts # <<>>
    /\ call[c].step \in {"list", "delete"} => "remove" \in UsesOf[c]

TypeInv == TypeOK /\ CallInv

(* An idle call is well typed. *)
LEMMA IdleType == Idle \in Call /\ Idle.step = "idle" /\ Idle.drafts = <<>>
  <1>1. <<>> \in Seq(Revision)
    OBVIOUS
  <1>. QED
    BY <1>1 DEF Idle, Call, Steps

(* The initial state is well typed. *)
LEMMA InitType == Init => TypeInv
  <1>1. SUFFICES ASSUME Init PROVE TypeInv
    OBVIOUS
  <1>2. EmptyPartition \in Partition
    BY DEF EmptyPartition, Partition
  <1>3. \A a \in Aggregate : log[a] = <<>> /\ <<>> \in Seq(LogEntry)
    BY <1>1 DEF Init
  <1>4. NotLoaded \in Loaded
    BY DEF NotLoaded, Loaded
  <1>. QED
    BY <1>1, <1>2, <1>3, <1>4, IdleType
       DEF Init, InitGenerator, TypeInv, TypeOK, CallInv, At, Outcomes

(* One more attempt of a call that has tries left is well typed. *)
LEMMA AttemptType ==
  ASSUME TypeInv, NEW c \in Client, NEW locals \in Call, locals.tries < Attempts
  PROVE  Attempting(c, locals) \in Call /\ Attempting(c, locals).step = "make"
  <1>1. <<>> \in Seq(Revision)
    OBVIOUS
  <1>2. clock[HostOf[c]] \in 0 .. MaxTime
    BY DEF TypeInv, TypeOK
  <1>3. locals.tries + 1 \in 0 .. Attempts
    BY DEF Call
  <1>. QED
    BY <1>1, <1>2, <1>3 DEF Attempting, Call, Steps

(* Beginning a call keeps the types. *)
LEMMA BeginType ==
  ASSUME TypeInv, NEW c \in Client, NEW locals \in Call, locals.step \notin {"retry", "write"},
         locals.step \in {"list", "delete"} => "remove" \in UsesOf[c], Begin(c, locals)
  PROVE  TypeInv'
  BY DEF Begin, TypeInv, TypeOK, CallInv, At, Outcomes, generatorVars, remoteVars

(* So does returning from one. *)
LEMMA ReturnType ==
  ASSUME TypeInv, NEW c \in Client, NEW result \in Outcomes, Return(c, result)
  PROVE  /\ call' \in [Client -> Call] /\ outcome' \in [Client -> Outcomes]
         /\ CallInv'
  BY IdleType DEF Return, TypeInv, TypeOK, CallInv, At

(* Every call a caller can make starts well typed. *)
LEMMA StartType ==
  ASSUME TypeInv, NEW c \in Client, Start(c) PROVE TypeInv'
  <1>1. CASE StartPublish(c)
    <2>1. PICK policy \in UsesOf[c] \cap Policies, n \in Batches \ {0} :
            Begin(c, Attempting(c, [Idle EXCEPT !.expected = ExpectedBy(c)[policy], !.count = n]))
      BY <1>1 DEF StartPublish
    <2>2. ExpectedBy(c)[policy] \in Revision \cup {NoRevision, InitialRevision}
      BY DEF TypeInv, TypeOK, Loaded, ExpectedBy, Policies
    <2>. DEFINE fresh == [Idle EXCEPT !.expected = ExpectedBy(c)[policy], !.count = n]
    <2>3. fresh \in Call
      BY <2>2, IdleType DEF Call
    <2>4. fresh.tries < Attempts
      BY DEF Idle
    <2>5. Begin(c, Attempting(c, fresh))
      BY <2>1
    <2>. HIDE DEF fresh
    <2>6. Attempting(c, fresh) \in Call /\ Attempting(c, fresh).step = "make"
      BY <2>3, <2>4, AttemptType
    <2>. QED
      BY <2>5, <2>6, BeginType
  <1>2. CASE PublishNothing(c)
    BY <1>2 DEF PublishNothing, TypeInv, TypeOK, CallInv, At, Outcomes, generatorVars, remoteVars
  <1>3. CASE StartLoad(c)
    <2>1. [Idle EXCEPT !.step = "query"] \in Call /\ [Idle EXCEPT !.step = "query"].step = "query"
      BY IdleType DEF Call, Steps
    <2>. QED
      BY <1>3, <2>1, BeginType DEF StartLoad
  <1>4. CASE StartRemove(c)
    <2>1. [Idle EXCEPT !.step = "list"] \in Call /\ [Idle EXCEPT !.step = "list"].step = "list"
      BY IdleType DEF Call, Steps
    <2>. QED
      BY <1>4, <2>1, BeginType DEF StartRemove
  <1>. QED
    BY <1>1, <1>2, <1>3, <1>4 DEF Start

(* A query sees a partition, stale or not. *)
LEMMA VersionType ==
  ASSUME TypeInv, NEW a \in Aggregate, NEW version \in Versions(a)
  PROVE  version \in Partition
  BY DEF Versions, TypeInv, TypeOK

(* A retry keeps the types, and the number of tries in its bound. *)
LEMMA RetryType ==
  ASSUME TypeInv, NEW c \in Client, Retry(c) PROVE TypeInv'
  <1>1. call[c] \in Call /\ call[c].tries < Attempts
    BY DEF Retry, TypeInv, TypeOK, CallInv
  <1>2. Attempting(c, call[c]) \in Call /\ Attempting(c, call[c]).step = "make"
    BY <1>1, AttemptType
  <1>. QED
    BY <1>2 DEF Retry, TypeInv, TypeOK, CallInv, At, generatorVars, remoteVars

(* A new revision keeps the types; after the last one there are drafts to write. *)
LEMMA RecordEventType ==
  ASSUME TypeInv, NEW c \in Client, RecordEvent(c) PROVE TypeInv'
  <1>1. PICK r \in NewRevisions(HostOf[c], call[c].now) :
          /\ NewRevision(HostOf[c], r)
          /\ call' = [call EXCEPT ![c].drafts = Append(@, r),
                                  ![c].step = IF Len(call[c].drafts) + 1 = call[c].count
                                              THEN "write" ELSE "make"]
    BY DEF RecordEvent
  <1>2. r \in Revision
    BY DEF NewRevisions
  <1>3. call[c] \in Call /\ Append(call[c].drafts, r) \in Seq(Revision) \ {<<>>}
    <2>1. call[c] \in Call /\ call[c].drafts \in Seq(Revision)
      BY DEF TypeInv, TypeOK, Call
    <2>. QED
      BY <2>1, <1>2, AppendFacts
  <1>4. call'[c] \in Call /\ call'[c].step \in {"write", "make"} /\ call'[c].drafts # <<>>
    <2>. DEFINE step == IF Len(call[c].drafts) + 1 = call[c].count THEN "write" ELSE "make"
    <2>1. call'[c] = [call[c] EXCEPT !.drafts = Append(@, r), !.step = step]
      BY <1>1 DEF TypeInv, TypeOK
    <2>2. step \in {"write", "make"}
      OBVIOUS
    <2>. HIDE DEF step
    <2>. QED
      BY <2>1, <2>2, <1>3 DEF Call, Steps
  <1>5. \A d \in Client \ {c} : call'[d] = call[d]
    BY <1>1 DEF TypeInv, TypeOK
  <1>6. call' \in [Client -> Call] /\ CallInv'
    BY <1>1, <1>4, <1>5 DEF TypeInv, TypeOK, CallInv, At
  <1>7. last' \in [Process -> Revision \cup {InitialRevision}] /\ issued' \subseteq Revision
    BY <1>1, <1>2 DEF NewRevision, TypeInv, TypeOK
  <1>. QED
    BY <1>1, <1>6, <1>7 DEF RecordEvent, NewRevision, TypeInv, TypeOK, remoteVars

(* What a client in "write" sends is a change set. *)
LEMMA ChangesType ==
  ASSUME TypeInv, NEW c \in Client, call[c].drafts # <<>>
  PROVE  Changes(c) \in ChangeSet
  <1>1. call[c].drafts \in Seq(Revision)
    BY DEF TypeInv, TypeOK, Call
  <1>2. call[c].drafts[Len(call[c].drafts)] \in Revision
    BY <1>1
  <1>. QED
    BY <1>1, <1>2 DEF Changes, ChangeSet

(* A partition with another change set is a partition. *)
LEMMA PutType ==
  ASSUME NEW partition \in Partition, NEW changes \in ChangeSet
  PROVE  PutChangeSet(partition, changes) \in Partition
  BY DEF PutChangeSet, Partition, ChangeSet

(* A partition without some of its items is a partition. *)
LEMMA DeleteType ==
  ASSUME NEW partition \in Partition, NEW keys
  PROVE  DeleteKeys(partition, keys) \in Partition
  BY DEF DeleteKeys, Partition

(* A transaction that is sent has a change set, and its publisher's last load. *)
LEMMA TransactionType ==
  ASSUME TypeInv, NEW c \in Client, At(c, "write")
  PROVE  TransactionOf(c) \in Transaction
  <1>1. Changes(c) \in ChangeSet
    BY ChangesType DEF TypeInv, CallInv
  <1>2. call[c].expected \in Revision \cup {NoRevision, InitialRevision}
    BY DEF TypeInv, TypeOK, Call
  <1>. QED
    BY <1>1, <1>2 DEF TransactionOf, Transaction, TypeInv, TypeOK

(* Writing a transaction keeps the types of the table and its history. *)
LEMMA WriteType ==
  ASSUME TypeInv, NEW w \in Transaction, Write(w)
  PROVE  table' \in [Aggregate -> Partition] /\ log' \in [Aggregate -> Seq(LogEntry)]
  <1>. DEFINE a == w.aggregate
              entry == [revision |-> w.changes.revision, expected |-> w.expected]
  <1>1. a \in Aggregate /\ w.changes \in ChangeSet
    BY DEF Transaction
  <1>2. PutChangeSet(table[a], w.changes) \in Partition
    BY <1>1, PutType DEF TypeInv, TypeOK
  <1>3. entry \in LogEntry /\ log[a] \in Seq(LogEntry)
    BY <1>1 DEF LogEntry, ChangeSet, Transaction, TypeInv, TypeOK
  <1>4. Append(log[a], entry) \in Seq(LogEntry)
    BY <1>3
  <1>. QED
    BY <1>2, <1>4 DEF Write, TypeInv, TypeOK

(* A committed transaction keeps the types. *)
LEMMA CommitType ==
  ASSUME TypeInv, NEW c \in Client, Commit(c) PROVE TypeInv'
  <1>1. table' \in [Aggregate -> Partition] /\ log' \in [Aggregate -> Seq(LogEntry)]
    BY TransactionType, WriteType DEF Commit
  <1>2. PICK result \in {"published", "error"} : Return(c, result)
    BY DEF Commit
  <1>3. call' \in [Client -> Call] /\ outcome' \in [Client -> Outcomes] /\ CallInv'
    BY <1>2, ReturnType DEF Outcomes
  <1>4. recorded' \in [Client -> Nat]
    BY DEF Commit, TypeInv, TypeOK
  <1>. QED
    BY <1>1, <1>3, <1>4 DEF Commit, Write, TypeInv, TypeOK, generatorVars

(* So does giving up on a transaction. *)
LEMMA GiveUpType ==
  ASSUME TypeInv, NEW c \in Client, GiveUp(c) PROVE TypeInv'
  <1>1. inflight' \subseteq Transaction
    BY TransactionType DEF GiveUp, TypeInv, TypeOK
  <1>2. call' \in [Client -> Call] /\ outcome' \in [Client -> Outcomes] /\ CallInv'
    BY ReturnType DEF GiveUp, Outcomes
  <1>. QED
    BY <1>1, <1>2 DEF GiveUp, TypeInv, TypeOK, generatorVars

(* And its late execution. *)
LEMMA LateCommitType ==
  ASSUME TypeInv, NEW w \in inflight, LateCommit(w) PROVE TypeInv'
  <1>1. table' \in [Aggregate -> Partition] /\ log' \in [Aggregate -> Seq(LogEntry)]
    BY WriteType DEF LateCommit, TypeInv, TypeOK
  <1>. QED
    BY <1>1 DEF LateCommit, Write, TypeInv, TypeOK, CallInv, At, generatorVars, clientVars

(* A conflict keeps the types: it is retried only while there are tries left. *)
LEMMA ConditionFailsType ==
  ASSUME TypeInv, NEW c \in Client, ConditionFails(c) PROVE TypeInv'
  <1>1. CASE Retriable(c) /\ call' = [call EXCEPT ![c].step = "retry"] /\ UNCHANGED outcome
    <2>1. [call[c] EXCEPT !.step = "retry"] \in Call
      <3>1. call[c] \in Call
        BY DEF TypeInv, TypeOK
      <3>. QED
        BY <3>1 DEF Call, Steps
    <2>. QED
      BY <1>1, <2>1
         DEF ConditionFails, Retriable, TypeInv, TypeOK, CallInv, At, generatorVars, remoteVars
  <1>2. CASE Return(c, "conflict")
    <2>1. call' \in [Client -> Call] /\ outcome' \in [Client -> Outcomes] /\ CallInv'
      BY <1>2, ReturnType DEF Outcomes
    <2>. QED
      BY <2>1 DEF ConditionFails, TypeInv, TypeOK, generatorVars, remoteVars
  <1>. QED
    BY <1>1, <1>2 DEF ConditionFails

(* What Load returns is well typed. *)
LEMMA LoadedType ==
  ASSUME TypeInv, NEW sets \in SUBSET ChangeSet,
         NEW revision \in RevisionsFrom(sets)
  PROVE  revision \in Revision \cup {InitialRevision}
  <1>1. CASE sets = {}
    BY <1>1 DEF RevisionsFrom
  <1>2. CASE sets # {}
    <2>1. PICK s \in sets : revision = LastEvent(s)
      BY <1>2 DEF RevisionsFrom
    <2>2. s.events \in Seq(Revision) /\ s.events # <<>>
      BY DEF ChangeSet
    <2>. QED
      BY <2>1, <2>2 DEF LastEvent
  <1>. QED
    BY <1>1, <1>2

(* A page of Load keeps the types. *)
LEMMA QueryPageType ==
  ASSUME TypeInv, NEW c \in Client, QueryPage(c) PROVE TypeInv'
  <1>1. AggregateOf[c] \in Aggregate /\ call[c] \in Call
    BY DEF TypeInv, TypeOK
  <1>2. PICK version \in Versions(AggregateOf[c]) :
          LET rest == { s \in version.sets : s.revision > call[c].cursor } IN
          \/ ReturnLoaded(c, call[c].view \cup rest)
          \/ /\ Paged
             /\ \E end \in rest :
                  call' = [call EXCEPT ![c].cursor = end.revision,
                                       ![c].view = @ \cup { s \in rest : s.revision <= end.revision }]
             /\ UNCHANGED <<loaded, outcome>>
    BY DEF QueryPage
  <1>. DEFINE rest == { s \in version.sets : s.revision > call[c].cursor }
  <1>3. rest \subseteq ChangeSet /\ call[c].view \subseteq ChangeSet
    BY <1>1, VersionType DEF Partition, Call
  <1>4. CASE ReturnLoaded(c, call[c].view \cup rest)
    <2>1. PICK revision \in RevisionsFrom(call[c].view \cup rest) :
            loaded' = [loaded EXCEPT ![c] = [revision |-> revision, sets |-> call[c].view \cup rest]]
      BY <1>4 DEF ReturnLoaded
    <2>2. revision \in Revision \cup {InitialRevision}
      BY <1>3, LoadedType
    <2>3. [revision |-> revision, sets |-> call[c].view \cup rest] \in Loaded
      BY <1>3, <2>2 DEF Loaded
    <2>4. loaded' \in [Client -> Loaded]
      BY <2>1, <2>3 DEF TypeInv, TypeOK
    <2>5. call' \in [Client -> Call] /\ outcome' \in [Client -> Outcomes] /\ CallInv'
      BY <1>4, ReturnType DEF ReturnLoaded, Outcomes
    <2>. QED
      BY <2>4, <2>5 DEF QueryPage, TypeInv, TypeOK, generatorVars, remoteVars
  <1>5. CASE /\ \E end \in rest :
                  call' = [call EXCEPT ![c].cursor = end.revision,
                                       ![c].view = @ \cup { s \in rest : s.revision <= end.revision }]
             /\ UNCHANGED <<loaded, outcome>>
    <2>1. PICK end \in rest :
            call' = [call EXCEPT ![c].cursor = end.revision,
                                 ![c].view = @ \cup { s \in rest : s.revision <= end.revision }]
      BY <1>5
    <2>. DEFINE view == call[c].view \cup { s \in rest : s.revision <= end.revision }
    <2>2. end.revision \in Revision /\ view \subseteq ChangeSet
      BY <1>3 DEF ChangeSet
    <2>3. call' = [call EXCEPT ![c] = [call[c] EXCEPT !.cursor = end.revision, !.view = view]]
      BY <1>1, <2>1 DEF TypeInv, TypeOK
    <2>. HIDE DEF view, rest
    <2>4. [call[c] EXCEPT !.cursor = end.revision, !.view = view] \in Call
      BY <1>1, <2>2 DEF Call
    <2>5. [call[c] EXCEPT !.cursor = end.revision, !.view = view].step = "query"
      BY <1>1 DEF Call, QueryPage, At
    <2>. QED
      BY <1>5, <2>3, <2>4, <2>5
         DEF QueryPage, TypeInv, TypeOK, CallInv, At, generatorVars, remoteVars
  <1>. QED
    BY <1>2, <1>4, <1>5

(* A page of the query of Remove keeps the types. *)
LEMMA ListPageType ==
  ASSUME TypeInv, NEW c \in Client, ListPage(c) PROVE TypeInv'
  <1>1. AggregateOf[c] \in Aggregate /\ call[c] \in Call /\ LatestKey \in Nat
    BY RevisionFacts DEF TypeInv, TypeOK
  <1>2. PICK version \in Versions(AggregateOf[c]) :
          LET rest == { k \in KeysOf(version) : k > call[c].cursor } IN
          \/ Return(c, "removed")
          \/ /\ call' = [call EXCEPT ![c].step = "delete", ![c].keys = rest, ![c].more = FALSE]
             /\ UNCHANGED outcome
          \/ /\ \E end \in rest :
                  call' = [call EXCEPT ![c].step = "delete", ![c].cursor = end, ![c].more = TRUE,
                                       ![c].keys = { k \in rest : k <= end }]
             /\ UNCHANGED outcome
    BY DEF ListPage
  <1>. DEFINE rest == { k \in KeysOf(version) : k > call[c].cursor }
  <1>3. rest \subseteq Revision \cup {LatestKey}
    BY <1>1, VersionType DEF KeysOf, Partition, ChangeSet
  <1>4. CASE Return(c, "removed")
    <2>1. call' \in [Client -> Call] /\ outcome' \in [Client -> Outcomes] /\ CallInv'
      BY <1>4, ReturnType DEF Outcomes
    <2>. QED
      BY <2>1 DEF ListPage, TypeInv, TypeOK, generatorVars, remoteVars
  <1>5. ASSUME NEW page \in Call, page.step = "delete", call' = [call EXCEPT ![c] = page],
               UNCHANGED outcome
        PROVE  TypeInv'
    BY <1>5 DEF ListPage, TypeInv, TypeOK, CallInv, At, generatorVars, remoteVars
  <1>6. CASE /\ call' = [call EXCEPT ![c].step = "delete", ![c].keys = rest, ![c].more = FALSE]
             /\ UNCHANGED outcome
    <2>. DEFINE page == [call[c] EXCEPT !.step = "delete", !.keys = rest, !.more = FALSE]
    <2>1. call' = [call EXCEPT ![c] = page]
      BY <1>6 DEF TypeInv, TypeOK
    <2>. HIDE DEF rest
    <2>2. page \in Call /\ page.step = "delete"
      BY <1>1, <1>3 DEF Call, Steps
    <2>. QED
      BY <1>5, <1>6, <2>1, <2>2
  <1>7. CASE /\ \E end \in rest :
                  call' = [call EXCEPT ![c].step = "delete", ![c].cursor = end, ![c].more = TRUE,
                                       ![c].keys = { k \in rest : k <= end }]
             /\ UNCHANGED outcome
    <2>1. PICK end \in rest :
            call' = [call EXCEPT ![c].step = "delete", ![c].cursor = end, ![c].more = TRUE,
                                 ![c].keys = { k \in rest : k <= end }]
      BY <1>7
    <2>. DEFINE keys == { k \in rest : k <= end }
                page == [call[c] EXCEPT !.step = "delete", !.cursor = end, !.more = TRUE, !.keys = keys]
    <2>2. call' = [call EXCEPT ![c] = page]
      BY <2>1 DEF TypeInv, TypeOK
    <2>3. keys \subseteq Revision \cup {LatestKey} /\ end \in Revision \cup {LatestKey}
      BY <1>3
    <2>. HIDE DEF rest, keys
    <2>4. page \in Call /\ page.step = "delete"
      BY <1>1, <2>3 DEF Call, Steps
    <2>. QED
      BY <1>5, <1>7, <2>2, <2>4
  <1>. QED
    BY <1>2, <1>4, <1>6, <1>7

(* Deleting a page keeps the types. *)
LEMMA DeletePageType ==
  ASSUME TypeInv, NEW c \in Client, DeletePage(c) PROVE TypeInv'
  <1>1. AggregateOf[c] \in Aggregate /\ call[c] \in Call /\ <<>> \in Seq(LogEntry)
    BY DEF TypeInv, TypeOK
  <1>2. table' \in [Aggregate -> Partition]
    BY <1>1, DeleteType DEF DeletePage, TypeInv, TypeOK
  <1>3. log' \in [Aggregate -> Seq(LogEntry)]
    BY <1>1 DEF DeletePage, TypeInv, TypeOK
  <1>4. call' \in [Client -> Call] /\ outcome' \in [Client -> Outcomes] /\ CallInv'
    <2>1. CASE \E result \in {"removed", "error"} : Return(c, result)
      BY <2>1, ReturnType DEF Outcomes
    <2>2. CASE call' = [call EXCEPT ![c].step = "list"] /\ UNCHANGED outcome
      <3>1. [call[c] EXCEPT !.step = "list"] \in Call /\ [call[c] EXCEPT !.step = "list"].step = "list"
        BY <1>1 DEF Call, Steps
      <3>. QED
        BY <2>2, <3>1 DEF DeletePage, TypeInv, TypeOK, CallInv, At
    <2>. QED
      BY <2>1, <2>2 DEF DeletePage
  <1>. QED
    BY <1>2, <1>3, <1>4 DEF DeletePage, TypeInv, TypeOK, generatorVars

(* A panic or a failed request ends the call and keeps the types. *)
LEMMA CallFailsType ==
  ASSUME TypeInv, NEW c \in Client, GeneratorPanics(c) \/ RequestFails(c) PROVE TypeInv'
  <1>1. Return(c, "error") /\ UNCHANGED <<generatorVars, remoteVars, loaded, recorded>>
    BY DEF GeneratorPanics, RequestFails
  <1>2. call' \in [Client -> Call] /\ outcome' \in [Client -> Outcomes] /\ CallInv'
    BY <1>1, ReturnType DEF Outcomes
  <1>. QED
    BY <1>1, <1>2 DEF TypeInv, TypeOK, generatorVars, remoteVars

(* Restarts, replication and clocks keep the types. *)
LEMMA EnvironmentType ==
  ASSUME TypeInv,
         \/ \E p \in Restarting : Restart(p)
         \/ \E a \in Aggregate : Replicate(a)
         \/ ClockTicks
  PROVE  TypeInv'
  <1>1. ASSUME NEW p \in Restarting, Restart(p) PROVE TypeInv'
    <2>1. last' \in [Process -> Revision \cup {InitialRevision}]
      BY <1>1 DEF Restart, ResetGenerator, TypeInv, TypeOK
    <2>2. call' \in [Client -> Call] /\ CallInv'
      BY <1>1, IdleType DEF Restart, TypeInv, TypeOK, CallInv, At
    <2>3. loaded' \in [Client -> Loaded]
      BY <1>1 DEF Restart, NotLoaded, Loaded, TypeInv, TypeOK
    <2>4. outcome' \in [Client -> Outcomes] /\ recorded' \in [Client -> Nat]
      BY <1>1 DEF Restart, TypeInv, TypeOK, Outcomes
    <2>. QED
      BY <1>1, <2>1, <2>2, <2>3, <2>4 DEF Restart, ResetGenerator, TypeInv, TypeOK, remoteVars
  <1>2. ASSUME NEW a \in Aggregate, Replicate(a) PROVE TypeInv'
    BY <1>2 DEF Replicate, TypeInv, TypeOK, CallInv, At, generatorVars, clientVars
  <1>3. CASE ClockTicks
    <2>1. clock' \in [Process -> 1 .. MaxTime]
      <3>1. PICK running \in SUBSET Process :
              /\ clock' = [p \in Process |-> IF p \in running THEN clock[p] + 1 ELSE clock[p]]
              /\ \A p \in Process : clock'[p] <= MaxTime
        BY <1>3 DEF ClockTicks, Tick
      <3>. QED
        BY <3>1 DEF TypeInv, TypeOK
    <2>. QED
      BY <1>3, <2>1 DEF ClockTicks, Tick, TypeInv, TypeOK, CallInv, At, remoteVars, clientVars
  <1>. QED
    BY <1>1, <1>2, <1>3

(* TypeInv is inductive. *)
LEMMA NextType == TypeInv /\ [Next]_vars => TypeInv'
  <1>. SUFFICES ASSUME TypeInv, [Next]_vars PROVE TypeInv'
    OBVIOUS
  <1>1. ASSUME NEW c \in Client, Start(c) PROVE TypeInv'
    BY <1>1, StartType
  <1>2. ASSUME NEW c \in Client, Step(c) PROVE TypeInv'
    BY <1>2, RetryType, RecordEventType, CallFailsType, CommitType, ConditionFailsType,
       QueryPageType, ListPageType, DeletePageType DEF Step
  <1>3. ASSUME NEW c \in Client, RequestFails(c) \/ GiveUp(c) PROVE TypeInv'
    BY <1>3, CallFailsType, GiveUpType
  <1>4. CASE UNCHANGED vars
    BY <1>4 DEF vars, generatorVars, remoteVars, clientVars, TypeInv, TypeOK, CallInv, At
  <1>. QED
    BY <1>1, <1>2, <1>3, <1>4, LateCommitType, EnvironmentType DEF Next

(* Every variable keeps its type, and no call tries more often than        *)
(* retry.Do allows.                                                        *)
THEOREM TypeCorrect == Spec => []TypeOK
  <1>1. Spec => []TypeInv
    BY InitType, NextType, PTL DEF Spec
  <1>. QED
    BY <1>1, PTL DEF TypeInv

-----------------------------------------------------------------------------
(***************************************************************************)
(* What Publish returns is what happened.  The invariant: the events of a  *)
(* call that will still write have not been recorded.                      *)
(***************************************************************************)
Writing(c) == call[c].step \in {"retry", "make", "write"}

NothingRecorded == \A c \in Client : Writing(c) => recorded[c] = 0

OutcomeInv == TypeInv /\ PublishOutcome /\ NothingRecorded

(* Nothing is recorded and nobody has published initially. *)
LEMMA InitOutcome == Init => OutcomeInv
  BY InitType, IdleType DEF Init, OutcomeInv, PublishOutcome, NothingRecorded, Writing

(* A call starts with nothing recorded. *)
LEMMA StartOutcome ==
  ASSUME OutcomeInv, NEW c \in Client, Start(c) PROVE PublishOutcome' /\ NothingRecorded'
  <1>. USE DEF OutcomeInv, PublishOutcome, NothingRecorded, Writing, TypeInv, TypeOK
  <1>1. CASE \E locals : Begin(c, locals)
    BY <1>1 DEF Begin
  <1>2. CASE PublishNothing(c)
    BY <1>2 DEF PublishNothing, At
  <1>. QED
    BY <1>1, <1>2 DEF Start, StartPublish, StartLoad, StartRemove

(* A committed transaction is the last of its call: it is the one record. *)
LEMMA CommitOutcome ==
  ASSUME OutcomeInv, NEW c \in Client, Commit(c) PROVE PublishOutcome' /\ NothingRecorded'
  <1>. USE DEF OutcomeInv, PublishOutcome, NothingRecorded, Writing, TypeInv, TypeOK
  <1>1. recorded[c] = 0 /\ recorded' = [recorded EXCEPT ![c] = @ + 1]
    BY DEF Commit, At
  <1>2. PICK result \in {"published", "error"} : Return(c, result)
    BY DEF Commit
  <1>3. call' = [call EXCEPT ![c] = Idle] /\ outcome' = [outcome EXCEPT ![c] = result]
    BY <1>2 DEF Return
  <1>. QED
    BY <1>1, <1>3, IdleType

(* The other steps of a call, failed requests and abandoned transactions    *)
(* record nothing; a conflict is returned by a call that recorded nothing.  *)
LEMMA OtherOutcome ==
  ASSUME OutcomeInv, NEW c \in Client, Step(c) \/ RequestFails(c) \/ GiveUp(c), ~Commit(c)
  PROVE  PublishOutcome' /\ NothingRecorded'
  <1>. USE DEF OutcomeInv, PublishOutcome, NothingRecorded, Writing, TypeInv, TypeOK
  <1>1. ASSUME recorded' = recorded, NEW result \in {"none", "removed", "error"}, Return(c, result)
        PROVE  PublishOutcome' /\ NothingRecorded'
    BY <1>1, IdleType DEF Return
  <1>2. ASSUME recorded' = recorded, outcome' = outcome,
               \A d \in Client \ {c} : call'[d] = call[d],
               Writing(c) \/ call'[c].step \in {"query", "list", "delete"}
        PROVE  PublishOutcome' /\ NothingRecorded'
    BY <1>2
  <1>3. CASE Retry(c) \/ RecordEvent(c)
    BY <1>3, <1>2 DEF Retry, RecordEvent, At
  <1>4. CASE GeneratorPanics(c) \/ RequestFails(c) \/ GiveUp(c)
    BY <1>4, <1>1 DEF GeneratorPanics, RequestFails, GiveUp
  <1>5. CASE ConditionFails(c)
    <2>1. recorded' = recorded /\ recorded[c] = 0 /\ Writing(c)
      BY <1>5 DEF ConditionFails, At
    <2>2. CASE Return(c, "conflict")
      BY <2>1, <2>2, IdleType DEF Return
    <2>3. CASE call' = [call EXCEPT ![c].step = "retry"] /\ outcome' = outcome
      BY <2>1, <2>3, <1>2
    <2>. QED
      BY <1>5, <2>2, <2>3 DEF ConditionFails
  <1>6. CASE QueryPage(c)
    <2>1. recorded' = recorded
      BY <1>6 DEF QueryPage
    <2>2. CASE Return(c, "none")
      BY <2>1, <2>2, <1>1
    <2>3. CASE ~Return(c, "none")
      <3>1. At(c, "query") /\ outcome' = outcome
        BY <1>6, <2>3 DEF QueryPage, ReturnLoaded
      <3>2. \E x, y : call' = [call EXCEPT ![c].cursor = x, ![c].view = y]
        BY <1>6, <2>3 DEF QueryPage, ReturnLoaded
      <3>3. call'[c].step = "query" /\ \A d \in Client \ {c} : call'[d] = call[d]
        BY <3>1, <3>2 DEF At, Call
      <3>. QED
        BY <2>1, <3>1, <3>3, <1>2
    <2>. QED
      BY <2>2, <2>3
  <1>7. CASE ListPage(c)
    <2>1. recorded' = recorded
      BY <1>7 DEF ListPage
    <2>2. CASE Return(c, "removed")
      BY <2>1, <2>2, <1>1
    <2>3. CASE ~Return(c, "removed")
      <3>1. PICK version \in Versions(AggregateOf[c]) :
              LET rest == { k \in KeysOf(version) : k > call[c].cursor } IN
              \/ call' = [call EXCEPT ![c].step = "delete", ![c].keys = rest, ![c].more = FALSE]
              \/ \E end \in rest :
                   call' = [call EXCEPT ![c].step = "delete", ![c].cursor = end, ![c].more = TRUE,
                                        ![c].keys = { k \in rest : k <= end }]
        BY <1>7, <2>3 DEF ListPage
      <3>. DEFINE rest == { k \in KeysOf(version) : k > call[c].cursor }
      <3>2. ASSUME NEW end \in rest,
                   call' = [call EXCEPT ![c].step = "delete", ![c].cursor = end, ![c].more = TRUE,
                                        ![c].keys = { k \in rest : k <= end }]
            PROVE  call'[c].step = "delete" /\ \A d \in Client \ {c} : call'[d] = call[d]
        <4>. DEFINE page == { k \in rest : k <= end }
        <4>1. call' = [call EXCEPT ![c].step = "delete", ![c].cursor = end, ![c].more = TRUE, ![c].keys = page]
          BY <3>2
        <4>. HIDE DEF page, rest
        <4>. QED
          BY <4>1 DEF Call
      <3>3. outcome' = outcome
        BY <1>7, <2>3 DEF ListPage
      <3>4. call'[c].step = "delete" /\ \A d \in Client \ {c} : call'[d] = call[d]
        <4>1. CASE call' = [call EXCEPT ![c].step = "delete", ![c].keys = rest, ![c].more = FALSE]
          <5>. HIDE DEF rest
          <5>. QED
            BY <4>1 DEF Call
        <4>2. CASE \E end \in rest :
                     call' = [call EXCEPT ![c].step = "delete", ![c].cursor = end, ![c].more = TRUE,
                                          ![c].keys = { k \in rest : k <= end }]
          BY <4>2, <3>2
        <4>. QED
          BY <3>1, <4>1, <4>2
      <3>. QED
        BY <2>1, <3>3, <3>4, <1>2
    <2>. QED
      BY <2>2, <2>3
  <1>8. CASE DeletePage(c)
    <2>1. recorded' = recorded
      BY <1>8 DEF DeletePage
    <2>2. CASE Return(c, "removed") \/ Return(c, "error")
      BY <2>1, <2>2, <1>1
    <2>3. CASE call' = [call EXCEPT ![c].step = "list"] /\ outcome' = outcome
      <3>1. call'[c].step = "list" /\ \A d \in Client \ {c} : call'[d] = call[d]
        BY <2>3 DEF Call
      <3>. QED
        BY <2>1, <2>3, <3>1, <1>2
    <2>. QED
      BY <1>8, <2>2, <2>3 DEF DeletePage
  <1>. QED
    BY <1>3, <1>4, <1>5, <1>6, <1>7, <1>8 DEF Step

(* OutcomeInv is inductive. *)
LEMMA NextOutcome == OutcomeInv /\ [Next]_vars => OutcomeInv'
  <1>. SUFFICES ASSUME OutcomeInv, [Next]_vars
                PROVE  PublishOutcome' /\ NothingRecorded'
    BY NextType DEF OutcomeInv
  <1>1. ASSUME NEW c \in Client, Start(c) \/ Step(c) \/ RequestFails(c) \/ GiveUp(c)
        PROVE  PublishOutcome' /\ NothingRecorded'
    BY <1>1, StartOutcome, CommitOutcome, OtherOutcome
  <1>2. ASSUME NEW p \in Restarting, Restart(p)
        PROVE  PublishOutcome' /\ NothingRecorded'
    BY <1>2, IdleType DEF Restart, OutcomeInv, PublishOutcome, NothingRecorded, Writing, TypeInv, TypeOK
  <1>3. CASE UNCHANGED clientVars
    BY <1>3 DEF clientVars, OutcomeInv, PublishOutcome, NothingRecorded, Writing
  <1>. QED
    BY <1>1, <1>2, <1>3 DEF Next, LateCommit, Replicate, ClockTicks, vars

(* What Publish returns is what happened: success means recorded exactly   *)
(* once, a conflict not at all, and retries never record events twice,     *)
(* whatever other clients, failures and restarts do.                       *)
THEOREM PublishTellsTheTruth == Spec => []PublishOutcome
  <1>1. OutcomeInv => PublishOutcome
    BY DEF OutcomeInv
  <1>. QED
    BY <1>1, InitOutcome, NextOutcome, PTL DEF Spec

-----------------------------------------------------------------------------
(***************************************************************************)
(* The store implements the event log.  The invariant: the latest-revision *)
(* item has the revision of the last change set that was committed, and    *)
(* the revisions of events about to be written, by a client or a late      *)
(* transaction, are nobody else's.                                         *)
(***************************************************************************)
RevisionsOf(entries) == Contract!RevisionsOf(entries)

Drafts(c) == { call[c].drafts[i] : i \in 1 .. Len(call[c].drafts) }

LatestIsCommitted ==
  \A a \in Aggregate :
    table[a].latest = IF log[a] = <<>> THEN NoRevision ELSE log[a][Len(log[a])].revision

DraftsAreFresh ==
  /\ \A c \in Client : Drafts(c) \subseteq issued
  /\ \A c, d \in Client : c # d => Drafts(c) \cap Drafts(d) = {}
  /\ \A a \in Aggregate : RevisionsOf(log[a]) \subseteq issued
  /\ \A a \in Aggregate, c \in Client : Drafts(c) \cap RevisionsOf(log[a]) = {}

(* The revisions of the transactions under way, as far as no client waits. *)
LateAreFresh ==
  \A w \in inflight :
    /\ w.changes.revision \in issued
    /\ \A c \in Client : w.changes.revision \notin Drafts(c)
    /\ \A a \in Aggregate : w.changes.revision \notin RevisionsOf(log[a])
    /\ \A v \in inflight : v # w => v.changes.revision # w.changes.revision

StoreInv == TypeInv /\ LatestIsCommitted /\ DraftsAreFresh /\ LateAreFresh

DraftsKept(c) == call'[c].drafts = call[c].drafts \/ call'[c].drafts = <<>>

(* StoreInv holds initially. *)
LEMMA InitStore == Init => StoreInv
  <1>. SUFFICES ASSUME Init PROVE StoreInv
    OBVIOUS
  <1>1. \A c \in Client : Drafts(c) = {}
    BY IdleType DEF Init, Drafts
  <1>2. \A a \in Aggregate : log[a] = <<>> /\ RevisionsOf(log[a]) = {}
    BY DEF Init, RevisionsOf, Contract!RevisionsOf
  <1>. QED
    BY <1>1, <1>2, InitType DEF StoreInv, LatestIsCommitted, DraftsAreFresh, LateAreFresh, Init, EmptyPartition

(* Drafts stay fresh when nobody draws a revision and nothing is written. *)
LEMMA FreshKept ==
  ASSUME DraftsAreFresh, LateAreFresh, \A c \in Client : DraftsKept(c),
         issued' = issued, inflight' \subseteq inflight,
         \A a \in Aggregate : log'[a] = log[a] \/ log'[a] = <<>>
  PROVE  DraftsAreFresh' /\ LateAreFresh'
  <1>1. \A c \in Client : Drafts(c)' \subseteq Drafts(c)
    BY DEF Drafts, DraftsKept
  <1>2. \A a \in Aggregate : RevisionsOf(log[a])' \subseteq RevisionsOf(log[a])
    BY DEF RevisionsOf, Contract!RevisionsOf
  <1>3. DraftsAreFresh'
    BY <1>1, <1>2 DEF DraftsAreFresh
  <1>4. LateAreFresh'
    BY <1>1, <1>2 DEF LateAreFresh
  <1>. QED
    BY <1>3, <1>4

(* A call that returns gives up its drafts; the other calls keep theirs. *)
LEMMA ReturnDrops ==
  ASSUME TypeInv, NEW c \in Client, NEW result, Return(c, result)
  PROVE  \A d \in Client : DraftsKept(d)
  BY IdleType DEF Return, TypeInv, TypeOK, DraftsKept

(* The steps that neither draw a revision nor write. *)
LEMMA OtherSteps ==
  ASSUME TypeInv, [Next]_vars,
         \A c \in Client : ~RecordEvent(c) /\ ~Commit(c) /\ ~GiveUp(c) /\ ~DeletePage(c),
         \A w \in inflight : ~LateCommit(w)
  PROVE  /\ \A c \in Client : DraftsKept(c)
         /\ UNCHANGED <<issued, inflight, table, log>>
  <1>1. ASSUME NEW c \in Client, Start(c)
        PROVE  (\A d \in Client : DraftsKept(d)) /\ UNCHANGED <<issued, inflight, table, log>>
    <2>1. ASSUME NEW locals, Begin(c, locals), locals.drafts = <<>>
          PROVE  \A d \in Client : DraftsKept(d)
      BY <2>1 DEF Begin, TypeInv, TypeOK, DraftsKept
    <2>2. ASSUME StartPublish(c) PROVE \A d \in Client : DraftsKept(d)
      BY <2>1, <2>2 DEF StartPublish, Attempting, Idle
    <2>3. ASSUME StartLoad(c) \/ StartRemove(c) PROVE \A d \in Client : DraftsKept(d)
      BY <2>1, <2>3 DEF StartLoad, StartRemove, Idle
    <2>4. ASSUME PublishNothing(c) PROVE \A d \in Client : DraftsKept(d)
      BY <2>4 DEF PublishNothing, DraftsKept
    <2>5. UNCHANGED <<issued, inflight, table, log>>
      BY <1>1 DEF Start, StartPublish, PublishNothing, StartLoad, StartRemove, Begin,
                  generatorVars, remoteVars
    <2>. QED
      BY <1>1, <2>2, <2>3, <2>4, <2>5 DEF Start
  <1>2. ASSUME NEW c \in Client, Step(c) \/ RequestFails(c)
        PROVE  (\A d \in Client : DraftsKept(d)) /\ UNCHANGED <<issued, inflight, table, log>>
    <2>1. CASE Retry(c)
      BY <2>1 DEF Retry, Attempting, TypeInv, TypeOK, DraftsKept, generatorVars, remoteVars
    <2>2. CASE GeneratorPanics(c) \/ RequestFails(c)
      BY <2>2, ReturnDrops DEF GeneratorPanics, RequestFails, generatorVars, remoteVars
    <2>3. CASE ConditionFails(c)
      <3>1. ASSUME call' = [call EXCEPT ![c].step = "retry"] PROVE \A d \in Client : DraftsKept(d)
        BY <3>1 DEF TypeInv, TypeOK, Call, DraftsKept
      <3>. QED
        BY <2>3, <3>1, ReturnDrops DEF ConditionFails, generatorVars, remoteVars
    <2>4. CASE QueryPage(c)
      <3>1. ASSUME NEW cursor, NEW view,
                   call' = [call EXCEPT ![c].cursor = cursor, ![c].view = view]
            PROVE  \A d \in Client : DraftsKept(d)
        BY <3>1 DEF TypeInv, TypeOK, Call, DraftsKept
      <3>2. ASSUME NEW sets, ReturnLoaded(c, sets) PROVE \A d \in Client : DraftsKept(d)
        BY <3>2, ReturnDrops DEF ReturnLoaded
      <3>. QED
        BY <2>4, <3>1, <3>2 DEF QueryPage, generatorVars, remoteVars
    <2>5. CASE ListPage(c)
      <3>1. ASSUME NEW keys,
                   call' = [call EXCEPT ![c].step = "delete", ![c].keys = keys, ![c].more = FALSE]
            PROVE  \A d \in Client : DraftsKept(d)
        BY <3>1 DEF TypeInv, TypeOK, Call, DraftsKept
      <3>2. ASSUME NEW keys, NEW end,
                   call' = [call EXCEPT ![c].step = "delete", ![c].cursor = end, ![c].more = TRUE,
                                        ![c].keys = keys]
            PROVE  \A d \in Client : DraftsKept(d)
        BY <3>2 DEF TypeInv, TypeOK, Call, DraftsKept
      <3>. QED
        BY <2>5, <3>1, <3>2, ReturnDrops DEF ListPage, generatorVars, remoteVars
    <2>. QED
      BY <1>2, <2>1, <2>2, <2>3, <2>4, <2>5 DEF Step
  <1>3. ASSUME NEW p \in Restarting, Restart(p)
        PROVE  (\A d \in Client : DraftsKept(d)) /\ UNCHANGED <<issued, inflight, table, log>>
    BY <1>3, IdleType DEF Restart, ResetGenerator, DraftsKept, remoteVars
  <1>4. CASE (\E a \in Aggregate : Replicate(a)) \/ ClockTicks \/ UNCHANGED vars
    BY <1>4 DEF Replicate, ClockTicks, Tick, vars, generatorVars, remoteVars, clientVars, DraftsKept
  <1>. QED
    BY <1>1, <1>2, <1>3, <1>4 DEF Next

(* The steps that neither draw a revision nor write preserve StoreInv. *)
LEMMA OtherStepsStore ==
  ASSUME StoreInv, [Next]_vars,
         \A c \in Client : ~RecordEvent(c) /\ ~Commit(c) /\ ~GiveUp(c) /\ ~DeletePage(c),
         \A w \in inflight : ~LateCommit(w)
  PROVE  StoreInv'
  <1>1. TypeInv' /\ DraftsAreFresh' /\ LateAreFresh'
    BY NextType, OtherSteps, FreshKept DEF StoreInv
  <1>2. LatestIsCommitted'
    BY OtherSteps DEF StoreInv, LatestIsCommitted
  <1>. QED
    BY <1>1, <1>2 DEF StoreInv

(* A revision just drawn is fresh: no draft and no change set has it. *)
LEMMA RecordEventStore ==
  ASSUME StoreInv, NEW c \in Client, RecordEvent(c) PROVE StoreInv'
  <1>1. PICK r \in NewRevisions(HostOf[c], call[c].now) :
          /\ NewRevision(HostOf[c], r)
          /\ call' = [call EXCEPT ![c].drafts = Append(@, r),
                                  ![c].step = IF Len(call[c].drafts) + 1 = call[c].count
                                              THEN "write" ELSE "make"]
    BY DEF RecordEvent
  <1>2. r \in Revision \ issued /\ issued' = issued \cup {r}
    BY <1>1 DEF NewRevisions, NewRevision
  <1>3. call[c] \in Call /\ call[c].drafts \in Seq(Revision)
    BY DEF StoreInv, TypeInv, TypeOK, Call
  <1>4. call'[c].drafts = Append(call[c].drafts, r)
    BY <1>1, <1>3 DEF StoreInv, TypeInv, TypeOK, Call
  <1>5. \A d \in Client \ {c} : call'[d] = call[d]
    BY <1>1 DEF StoreInv, TypeInv, TypeOK
  <1>6. Drafts(c)' = Drafts(c) \cup {r}
    BY <1>2, <1>3, <1>4, AppendFacts DEF Drafts
  <1>7. \A d \in Client \ {c} : Drafts(d)' = Drafts(d)
    BY <1>5 DEF Drafts
  <1>8. UNCHANGED <<table, log, inflight>>
    BY DEF RecordEvent, remoteVars
  <1>9. DraftsAreFresh' /\ LateAreFresh'
    BY <1>2, <1>6, <1>7, <1>8
       DEF StoreInv, DraftsAreFresh, LateAreFresh, RevisionsOf, Contract!RevisionsOf
  <1>10. LatestIsCommitted'
    BY <1>8 DEF StoreInv, LatestIsCommitted
  <1>. QED
    BY <1>9, <1>10, RecordEventType DEF StoreInv

(* A fresh change set is appended to the log under the contract's conditions. *)
LEMMA WriteStore ==
  ASSUME TypeInv, LatestIsCommitted, NEW w \in Transaction, Write(w),
         w.changes.revision \notin RevisionsOf(log[w.aggregate])
  PROVE  /\ LatestIsCommitted'
         /\ \E a \in Aggregate, entry \in Contract!Entry : Contract!Publish(a, entry)
         /\ RevisionsOf(log[w.aggregate])' = RevisionsOf(log[w.aggregate]) \cup {w.changes.revision}
         /\ \A b \in Aggregate \ {w.aggregate} : RevisionsOf(log[b])' = RevisionsOf(log[b])
  <1>. DEFINE a == w.aggregate
              entry == [revision |-> w.changes.revision, expected |-> w.expected]
  <1>1. a \in Aggregate /\ w.changes \in ChangeSet
    BY DEF Transaction
  <1>2. entry \in LogEntry /\ log[a] \in Seq(LogEntry)
    BY <1>1 DEF LogEntry, ChangeSet, Transaction, TypeInv, TypeOK
  <1>3. entry \in Contract!Entry
    BY <1>2 DEF LogEntry, Contract!Entry, Contract!NoRevision, Contract!InitialRevision,
                NoRevision, InitialRevision
  <1>4. log' = [log EXCEPT ![a] = Append(@, entry)]
    BY DEF Write
  <1>5. log'[a] = Append(log[a], entry) /\ \A b \in Aggregate \ {a} : log'[b] = log[b]
    BY <1>1, <1>4 DEF TypeInv, TypeOK
  <1>6. /\ Len(log'[a]) = Len(log[a]) + 1 /\ log'[a] # <<>> /\ log'[a][Len(log'[a])] = entry
        /\ \A i \in 1 .. Len(log[a]) : log'[a][i] = log[a][i]
        /\ Len(log[a]) \in Nat
    <2>. HIDE DEF entry, a
    <2>. QED
      BY <1>2, <1>5, AppendFacts
  <1>7. entry.expected \in {Contract!NoRevision, Contract!RevisionOf(log[a])}
    <2>1. LatestCondition(table[a].latest, w.changes.revision, w.expected)
      BY DEF Write, CanWrite
    <2>2. table[a].latest = IF log[a] = <<>> THEN NoRevision ELSE log[a][Len(log[a])].revision
      BY <1>1 DEF LatestIsCommitted
    <2>3. log[a] # <<>> => log[a][Len(log[a])].revision \in Revision
      <3>. HIDE DEF a
      <3>1. log[a] # <<>> => log[a][Len(log[a])] \in LogEntry
        BY <1>2
      <3>. QED
        BY <3>1 DEF LogEntry
    <2>4. CASE w.expected = InitialRevision
      BY <2>1, <2>2, <2>3, <2>4, RevisionFacts
         DEF LatestCondition, Contract!RevisionOf, Contract!InitialRevision
    <2>5. CASE w.expected \notin {NoRevision, InitialRevision}
      <3>1. table[a].latest = w.expected /\ log[a] # <<>>
        BY <2>1, <2>2, <2>5, RevisionFacts DEF LatestCondition
      <3>. QED
        BY <3>1, <2>2 DEF Contract!RevisionOf
    <2>. QED
      BY <2>4, <2>5 DEF Contract!NoRevision, NoRevision
  <1>8. Contract!Publish(a, entry)
    BY <1>4, <1>7 DEF Contract!Publish, RevisionsOf
  <1>9. LatestIsCommitted'
    <2>1. table'[a].latest = entry.revision
      BY <1>1 DEF Write, PutChangeSet, TypeInv, TypeOK
    <2>2. \A b \in Aggregate \ {a} : table'[b] = table[b] /\ log'[b] = log[b]
      BY <1>5 DEF Write, TypeInv, TypeOK
    <2>. QED
      BY <1>6, <2>1, <2>2 DEF LatestIsCommitted
  <1>10. RevisionsOf(log[a])' = RevisionsOf(log[a]) \cup {entry.revision}
    <2>. HIDE DEF entry, a
    <2>. QED
      BY <1>6 DEF RevisionsOf, Contract!RevisionsOf
  <1>. QED
    BY <1>1, <1>3, <1>5, <1>8, <1>9, <1>10

(* A change set carries the last of its client's drafts, which are fresh.   *)
LEMMA SentIsFresh ==
  ASSUME StoreInv, NEW c \in Client, At(c, "write")
  PROVE  /\ TransactionOf(c) \in Transaction
         /\ Changes(c).revision \in Drafts(c) \cap issued
         /\ Changes(c).revision = LastEvent(Changes(c))
         /\ \A a \in Aggregate : Changes(c).revision \notin RevisionsOf(log[a])
  <1>1. call[c].drafts \in Seq(Revision) /\ Len(call[c].drafts) \in 1 .. Len(call[c].drafts)
    BY DEF StoreInv, TypeInv, TypeOK, CallInv, Call
  <1>2. Changes(c).revision \in Drafts(c) /\ Changes(c).revision = LastEvent(Changes(c))
    BY <1>1 DEF Changes, Drafts, LastEvent
  <1>. QED
    BY <1>2, TransactionType DEF StoreInv, DraftsAreFresh

(* A client that returns has no drafts left. *)
LEMMA ReturnLeavesNothing ==
  ASSUME TypeInv, NEW c \in Client, NEW result, Return(c, result)
  PROVE  Drafts(c)' = {} /\ \A d \in Client : Drafts(d)' \subseteq Drafts(d)
  <1>1. call'[c].drafts = <<>>
    BY IdleType DEF Return, TypeInv, TypeOK
  <1>. QED
    BY <1>1, ReturnDrops DEF Drafts, DraftsKept

(* A committed transaction is a step of the contract. *)
LEMMA CommitStore ==
  ASSUME StoreInv, NEW c \in Client, Commit(c)
  PROVE  /\ StoreInv'
         /\ \E a \in Aggregate, entry \in Contract!Entry : Contract!Publish(a, entry)
  <1>0. PICK w \in Transaction : w = TransactionOf(c)
    BY SentIsFresh DEF Commit
  <1>1. w.changes = Changes(c) /\ w.aggregate \in Aggregate /\ Write(w) /\ At(c, "write")
    BY <1>0 DEF Commit, TransactionOf
  <1>2. /\ w.changes.revision \in Drafts(c) /\ w.changes.revision \in issued
        /\ w.changes.revision \notin RevisionsOf(log[w.aggregate])
    BY <1>1, SentIsFresh
  <1>3. /\ LatestIsCommitted'
        /\ \E a \in Aggregate, entry \in Contract!Entry : Contract!Publish(a, entry)
        /\ RevisionsOf(log[w.aggregate])' = RevisionsOf(log[w.aggregate]) \cup {w.changes.revision}
        /\ \A b \in Aggregate \ {w.aggregate} : RevisionsOf(log[b])' = RevisionsOf(log[b])
    BY <1>1, <1>2, WriteStore DEF StoreInv
  <1>4. Drafts(c)' = {} /\ \A d \in Client : Drafts(d)' \subseteq Drafts(d)
    BY ReturnLeavesNothing DEF Commit, StoreInv
  <1>5. UNCHANGED <<issued, inflight>>
    BY DEF Commit, generatorVars
  <1>6. DraftsAreFresh'
    BY <1>1, <1>2, <1>3, <1>4, <1>5 DEF StoreInv, DraftsAreFresh
  <1>7. LateAreFresh'
    BY <1>1, <1>2, <1>3, <1>4, <1>5 DEF StoreInv, LateAreFresh
  <1>. QED
    BY <1>3, <1>6, <1>7, CommitType DEF StoreInv

(* A client that gives up passes the freshness on to its transaction. *)
LEMMA GiveUpStore ==
  ASSUME StoreInv, NEW c \in Client, GiveUp(c) PROVE StoreInv'
  <1>. DEFINE w == TransactionOf(c)
  <1>1. At(c, "write") /\ w.changes = Changes(c) /\ inflight' = inflight \cup {w}
    BY DEF GiveUp, TransactionOf
  <1>2. /\ w.changes.revision \in Drafts(c) /\ w.changes.revision \in issued
        /\ \A a \in Aggregate : w.changes.revision \notin RevisionsOf(log[a])
    BY <1>1, SentIsFresh
  <1>. HIDE DEF w
  <1>3. Drafts(c)' = {} /\ \A d \in Client : Drafts(d)' \subseteq Drafts(d)
    BY ReturnLeavesNothing DEF GiveUp, StoreInv
  <1>4. UNCHANGED <<issued, table, log>> /\ \A a \in Aggregate : RevisionsOf(log[a])' = RevisionsOf(log[a])
    BY DEF GiveUp, generatorVars
  <1>5. DraftsAreFresh'
    BY <1>3, <1>4 DEF StoreInv, DraftsAreFresh
  <1>6. \A d \in Client : w.changes.revision \notin Drafts(d)'
    BY <1>2, <1>3 DEF StoreInv, DraftsAreFresh
  <1>7. LateAreFresh'
    BY <1>1, <1>2, <1>3, <1>4, <1>6 DEF StoreInv, LateAreFresh
  <1>8. LatestIsCommitted'
    BY <1>4 DEF StoreInv, LatestIsCommitted
  <1>. QED
    BY <1>5, <1>7, <1>8, GiveUpType DEF StoreInv

(* A late transaction is a step of the contract, too. *)
LEMMA LateCommitStore ==
  ASSUME StoreInv, NEW w \in inflight, LateCommit(w)
  PROVE  /\ StoreInv'
         /\ \E a \in Aggregate, entry \in Contract!Entry : Contract!Publish(a, entry)
  <1>1. w \in Transaction /\ w.aggregate \in Aggregate /\ Write(w)
    BY DEF LateCommit, StoreInv, TypeInv, TypeOK, Transaction
  <1>2. w.changes.revision \notin RevisionsOf(log[w.aggregate])
    BY <1>1 DEF StoreInv, LateAreFresh
  <1>3. /\ LatestIsCommitted'
        /\ \E a \in Aggregate, entry \in Contract!Entry : Contract!Publish(a, entry)
        /\ RevisionsOf(log[w.aggregate])' = RevisionsOf(log[w.aggregate]) \cup {w.changes.revision}
        /\ \A b \in Aggregate \ {w.aggregate} : RevisionsOf(log[b])' = RevisionsOf(log[b])
    BY <1>1, <1>2, WriteStore DEF StoreInv
  <1>4. UNCHANGED <<issued, call>> /\ inflight' = inflight \ {w}
    BY DEF LateCommit, generatorVars, clientVars
  <1>5. \A c \in Client : Drafts(c)' = Drafts(c)
    BY <1>4 DEF Drafts
  <1>6. DraftsAreFresh'
    BY <1>1, <1>3, <1>4, <1>5 DEF StoreInv, DraftsAreFresh, LateAreFresh
  <1>7. LateAreFresh'
    BY <1>1, <1>3, <1>4, <1>5 DEF StoreInv, LateAreFresh
  <1>. QED
    BY <1>3, <1>6, <1>7, LateCommitType DEF StoreInv

(* Deleting the latest-revision item is the removal, whatever is left.      *)
LEMMA DeletePageStore ==
  ASSUME StoreInv, NEW c \in Client, DeletePage(c)
  PROVE  /\ StoreInv'
         /\ UNCHANGED log \/ \E a \in Aggregate : log' = [log EXCEPT ![a] = <<>>]
  <1>. DEFINE a == AggregateOf[c]
  <1>1. a \in Aggregate /\ call[c] \in Call
    BY DEF StoreInv, TypeInv, TypeOK
  <1>2. UNCHANGED log \/ log' = [log EXCEPT ![a] = <<>>]
    BY DEF DeletePage
  <1>3. \A d \in Client : DraftsKept(d)
    <2>1. ASSUME call' = [call EXCEPT ![c].step = "list"] PROVE \A d \in Client : DraftsKept(d)
      BY <2>1 DEF StoreInv, TypeInv, TypeOK, Call, DraftsKept
    <2>. QED
      BY <2>1, ReturnDrops DEF DeletePage, StoreInv
  <1>4. DraftsAreFresh' /\ LateAreFresh'
    BY <1>2, <1>3, FreshKept DEF DeletePage, generatorVars, StoreInv, TypeInv, TypeOK
  <1>5. LatestIsCommitted'
    <2>1. table'[a].latest = IF LatestKey \in call[c].keys THEN NoRevision ELSE table[a].latest
      BY <1>1 DEF DeletePage, DeleteKeys, StoreInv, TypeInv, TypeOK
    <2>2. log'[a] = IF LatestKey \in call[c].keys THEN <<>> ELSE log[a]
      BY <1>1 DEF DeletePage, StoreInv, TypeInv, TypeOK
    <2>3. \A b \in Aggregate \ {a} : table'[b] = table[b] /\ log'[b] = log[b]
      BY <1>2 DEF DeletePage, StoreInv, TypeInv, TypeOK
    <2>. QED
      BY <1>1, <2>1, <2>2, <2>3 DEF StoreInv, LatestIsCommitted
  <1>6. TypeInv'
    BY DeletePageType DEF StoreInv
  <1>. QED
    BY <1>1, <1>2, <1>4, <1>5, <1>6 DEF StoreInv

(* StoreInv is inductive. *)
LEMMA NextStore == StoreInv /\ [Next]_vars => StoreInv'
  BY OtherStepsStore, RecordEventStore, CommitStore, GiveUpStore, LateCommitStore, DeletePageStore

(* StoreInv holds in every reachable state. *)
LEMMA StoreInvariant == Spec => []StoreInv
  BY InitStore, NextStore, PTL DEF Spec

(* The initial states of the store are initial states of the event log. *)
LEMMA InitContract == Init => Contract!Init
  BY DEF Init, Contract!Init

(* A step of the store is a step of the event log or leaves it alone. *)
LEMMA StepContract == StoreInv /\ [Next]_vars => [Contract!Next]_log
  <1>. SUFFICES ASSUME StoreInv, [Next]_vars PROVE [Contract!Next]_log
    OBVIOUS
  <1>1. CASE (\E c \in Client : Commit(c)) \/ (\E w \in inflight : LateCommit(w))
    BY <1>1, CommitStore, LateCommitStore DEF Contract!Next
  <1>2. CASE \E c \in Client : RecordEvent(c) \/ GiveUp(c)
    BY <1>2 DEF RecordEvent, GiveUp, remoteVars
  <1>3. CASE \E c \in Client : DeletePage(c)
    <2>1. PICK c \in Client : DeletePage(c)
      BY <1>3
    <2>2. Removable
      BY <2>1 DEF DeletePage, Removable, StoreInv, TypeInv, CallInv, At
    <2>. QED
      BY <2>1, <2>2, DeletePageStore DEF Contract!Next, Contract!Remove
  <1>4. CASE /\ \A c \in Client : ~RecordEvent(c) /\ ~Commit(c) /\ ~GiveUp(c) /\ ~DeletePage(c)
             /\ \A w \in inflight : ~LateCommit(w)
    BY <1>4, OtherSteps DEF StoreInv
  <1>. QED
    BY <1>1, <1>2, <1>3, <1>4

(* The store implements the event log: an aggregate is a log to which      *)
(* whole change sets are appended, each with a new revision and after the  *)
(* revision its publisher expected; other clients, retries, lost replies,  *)
(* removals, restarts and clocks cannot break that.                        *)
THEOREM ImplementsTheEventLog == Spec => ImplementsEventLog
  <1>1. Spec => Contract!Init /\ [][Contract!Next]_log
    BY StoreInvariant, InitContract, StepContract, PTL DEF Spec
  <1>. QED
    BY <1>1 DEF ImplementsEventLog, Contract!Spec

-----------------------------------------------------------------------------
(***************************************************************************)
(* No update is lost when an aggregate fits in one page and nobody removes *)
(* it.  The invariant: what a query was or may be answered from contains   *)
(* the latest change set only if it contains all of them.                  *)
(***************************************************************************)
AllOrOld(sets, a) ==
  /\ sets \subseteq table[a].sets
  /\ (\E s \in sets : s.revision = table[a].latest) => sets = table[a].sets

SetsInv ==
  \A a \in Aggregate : \A s \in table[a].sets :
    s.revision = LastEvent(s) /\ s.revision \in RevisionsOf(log[a])

VersionInv == \A a \in Aggregate : AllOrOld(replica[a].sets, a)

(* What a load, now or when a transaction was sent, returned about a. *)
Faithful(load, a) ==
  load # NotLoaded => AllOrOld(load.sets, a) /\ load.revision \in RevisionsFrom(load.sets)

LoadedInv == \A c \in Client : Faithful(loaded[c], AggregateOf[c])

LateInv ==
  \A w \in inflight : w.changes.revision = LastEvent(w.changes) /\ Faithful(w.basis, w.aggregate)

QueryInv == \A c \in Client : At(c, "query") => call[c].view = {} /\ call[c].cursor = InitialRevision

SeenInv == SetsInv /\ VersionInv /\ LoadedInv /\ LateInv

UpdateInv == StoreInv /\ SeenInv /\ QueryInv

(* UpdateInv says that no update is lost. *)
LEMMA UpdateInvSuffices == UpdateInv => NoLostUpdate
  <1>. SUFFICES ASSUME UpdateInv, NEW w \in Sent, PassesOnRevision(w), CanWrite(w)
                PROVE  LoadIsCurrent(w)
    BY DEF NoLostUpdate
  <1>. DEFINE a == w.aggregate
  <1>. USE DEF UpdateInv, SeenInv
  <1>1. w \in Transaction /\ Faithful(w.basis, a)
    <2>1. CASE w \in inflight
      BY <2>1 DEF LateInv, StoreInv, TypeInv, TypeOK
    <2>2. ASSUME NEW c \in Client, At(c, "write"), w = TransactionOf(c)
          PROVE  w \in Transaction /\ Faithful(w.basis, a)
      BY <2>2, TransactionType DEF LoadedInv, TransactionOf, StoreInv
    <2>. QED
      BY <2>1, <2>2 DEF Sent
  <1>2. /\ a \in Aggregate /\ AllOrOld(w.basis.sets, a)
        /\ w.expected \in RevisionsFrom(w.basis.sets) /\ w.expected # NoRevision
    BY <1>1 DEF Faithful, PassesOnRevision, NotLoaded, Transaction
  <1>3. CASE w.basis.sets = {}
    <2>1. w.expected = InitialRevision
      BY <1>2, <1>3 DEF RevisionsFrom
    <2>2. table[a].latest = NoRevision
      BY <2>1, RevisionFacts DEF CanWrite, LatestCondition
    <2>3. log[a] = <<>>
      <3>1. log[a] \in Seq(LogEntry)
        BY <1>2 DEF StoreInv, TypeInv, TypeOK
      <3>. HIDE DEF a
      <3>2. log[a] # <<>> => log[a][Len(log[a])] \in LogEntry
        BY <3>1
      <3>. QED
        BY <1>2, <2>2, <3>2, RevisionFacts DEF StoreInv, LatestIsCommitted, LogEntry
    <2>4. table[a].sets = {}
      BY <1>2, <2>3 DEF SetsInv, RevisionsOf, Contract!RevisionsOf
    <2>. QED
      BY <1>3, <2>4 DEF LoadIsCurrent
  <1>4. CASE w.basis.sets # {}
    <2>1. PICK s \in w.basis.sets : w.expected = LastEvent(s)
      BY <1>2, <1>4 DEF RevisionsFrom
    <2>2. s \in table[a].sets /\ s.revision = LastEvent(s) /\ s \in ChangeSet
      BY <1>2, <2>1 DEF AllOrOld, SetsInv, StoreInv, TypeInv, TypeOK, Partition
    <2>3. s.revision = table[a].latest
      BY <1>2, <2>1, <2>2, RevisionFacts DEF CanWrite, LatestCondition, ChangeSet
    <2>. QED
      BY <1>2, <2>3 DEF AllOrOld, LoadIsCurrent
  <1>. QED
    BY <1>3, <1>4

(* UpdateInv holds initially. *)
LEMMA InitUpdate == Init => UpdateInv
  <1>. SUFFICES ASSUME Init PROVE UpdateInv
    OBVIOUS
  <1>1. SetsInv /\ VersionInv
    BY DEF Init, SetsInv, VersionInv, AllOrOld, EmptyPartition
  <1>2. LoadedInv /\ LateInv /\ QueryInv
    BY IdleType DEF Init, LoadedInv, Faithful, LateInv, QueryInv, At
  <1>. QED
    BY <1>1, <1>2, InitStore DEF UpdateInv, SeenInv

(* A step that writes nothing keeps what the queries see. *)
LEMMA SeenKept ==
  ASSUME UpdateInv, UNCHANGED <<table, log>>, inflight' \subseteq inflight,
         \A a \in Aggregate : replica'[a].sets \in {replica[a].sets, table[a].sets},
         \A c \in Client : loaded'[c] = loaded[c] \/ loaded'[c] = NotLoaded
  PROVE  SeenInv'
  <1>. USE DEF UpdateInv, SeenInv, Faithful
  <1>1. SetsInv'
    BY DEF SetsInv
  <1>2. VersionInv'
    BY DEF VersionInv, AllOrOld
  <1>3. LoadedInv'
    BY DEF LoadedInv, AllOrOld
  <1>4. LateInv'
    BY DEF LateInv, AllOrOld
  <1>. QED
    BY <1>1, <1>2, <1>3, <1>4

(* With one page, a query starts from nothing and returns at once. *)
LEMMA QueryKept ==
  ASSUME UpdateInv, [Next]_vars, ~Paged PROVE QueryInv'
  <1>1. ASSUME NEW c \in Client, NEW locals, call' = [call EXCEPT ![c] = locals],
               locals.step = "query" => locals.view = {} /\ locals.cursor = InitialRevision
        PROVE  QueryInv'
    BY <1>1 DEF UpdateInv, StoreInv, TypeInv, TypeOK, QueryInv, At
  <1>2. ASSUME NEW c \in Client, NEW result, Return(c, result) PROVE QueryInv'
    BY <1>1, <1>2, IdleType DEF Return
  <1>3. ASSUME NEW c \in Client, Start(c) PROVE QueryInv'
    <2>1. CASE StartPublish(c)
      <3>1. ASSUME NEW locals, Begin(c, locals), locals.step = "make" PROVE QueryInv'
        BY <1>1, <3>1 DEF Begin
      <3>. QED
        BY <2>1, <3>1 DEF StartPublish, Attempting, Idle
    <2>2. CASE PublishNothing(c)
      BY <2>2 DEF PublishNothing, UpdateInv, QueryInv, At
    <2>3. CASE StartLoad(c) \/ StartRemove(c)
      <3>1. ASSUME NEW locals, Begin(c, locals), locals.view = {}, locals.cursor = InitialRevision
            PROVE  QueryInv'
        BY <1>1, <3>1 DEF Begin
      <3>. QED
        BY <2>3, <3>1 DEF StartLoad, StartRemove, Idle
    <2>. QED
      BY <1>3, <2>1, <2>2, <2>3 DEF Start
  <1>4. ASSUME NEW c \in Client, Step(c) \/ RequestFails(c) \/ GiveUp(c) PROVE QueryInv'
    <2>0. call[c] \in Call /\ call \in [Client -> Call]
      BY DEF UpdateInv, StoreInv, TypeInv, TypeOK
    <2>1. CASE Retry(c)
      <3>1. Attempting(c, call[c]).step = "make"
        BY <2>0 DEF Attempting, Call
      <3>. QED
        BY <1>1, <2>0, <2>1, <3>1 DEF Retry
    <2>2. CASE RecordEvent(c)
      <3>1. call'[c].step # "query" /\ \A d \in Client \ {c} : call'[d] = call[d]
        BY <2>0, <2>2 DEF RecordEvent, Call
      <3>. QED
        BY <3>1 DEF UpdateInv, QueryInv, At
    <2>3. CASE GeneratorPanics(c) \/ Commit(c) \/ RequestFails(c) \/ GiveUp(c)
      BY <1>2, <2>3 DEF GeneratorPanics, Commit, RequestFails, GiveUp
    <2>4. CASE ConditionFails(c)
      <3>1. CASE call' = [call EXCEPT ![c].step = "retry"]
        BY <2>0, <3>1 DEF Call, UpdateInv, QueryInv, At
      <3>. QED
        BY <1>2, <2>4, <3>1 DEF ConditionFails
    <2>5. CASE QueryPage(c)
      BY <1>2, <2>5 DEF QueryPage, ReturnLoaded
    <2>6. CASE ListPage(c)
      <3>1. ASSUME NEW keys,
                   call' = [call EXCEPT ![c].step = "delete", ![c].keys = keys, ![c].more = FALSE]
            PROVE  QueryInv'
        BY <2>0, <3>1 DEF Call, UpdateInv, QueryInv, At
      <3>. QED
        BY <1>2, <2>6, <3>1 DEF ListPage
    <2>7. CASE DeletePage(c)
      <3>1. CASE call' = [call EXCEPT ![c].step = "list"]
        BY <2>0, <3>1 DEF Call, UpdateInv, QueryInv, At
      <3>. QED
        BY <1>2, <2>7, <3>1 DEF DeletePage
    <2>. QED
      BY <1>4, <2>1, <2>2, <2>3, <2>4, <2>5, <2>6, <2>7 DEF Step
  <1>5. ASSUME NEW p \in Restarting, Restart(p) PROVE QueryInv'
    BY <1>5, IdleType DEF Restart, UpdateInv, QueryInv, At
  <1>6. CASE \/ \E w \in inflight : LateCommit(w)
             \/ \E a \in Aggregate : Replicate(a)
             \/ ClockTicks \/ UNCHANGED vars
    BY <1>6 DEF LateCommit, Replicate, ClockTicks, vars, clientVars, UpdateInv, QueryInv, At
  <1>. QED
    BY <1>3, <1>4, <1>5, <1>6 DEF Next

(* What Load returns comes from a version of the partition. *)
LEMMA QueryPageUpdate ==
  ASSUME UpdateInv, ~Paged, NEW c \in Client, QueryPage(c)
  PROVE  SeenInv'
  <1>. DEFINE a == AggregateOf[c]
  <1>. USE DEF UpdateInv, SeenInv
  <1>1. a \in Aggregate /\ call[c] \in Call
    BY DEF StoreInv, TypeInv, TypeOK
  <1>2. PICK version \in Versions(a) :
          ReturnLoaded(c, call[c].view \cup { s \in version.sets : s.revision > call[c].cursor })
    BY DEF QueryPage
  <1>3. version \in Partition /\ AllOrOld(version.sets, a)
    BY <1>1, VersionType DEF Versions, StoreInv, VersionInv, AllOrOld
  <1>4. call[c].view \cup { s \in version.sets : s.revision > call[c].cursor } = version.sets
    <2>1. call[c].view = {} /\ call[c].cursor = 0
      BY RevisionFacts DEF QueryInv, QueryPage
    <2>2. \A s \in version.sets : s.revision > 0
      BY <1>3, RevisionFacts DEF Partition, ChangeSet
    <2>. QED
      BY <2>1, <2>2
  <1>5. PICK revision \in RevisionsFrom(version.sets) :
          loaded' = [loaded EXCEPT ![c] = [revision |-> revision, sets |-> version.sets]]
    BY <1>2, <1>4 DEF ReturnLoaded
  <1>6. UNCHANGED <<table, log, replica, inflight>>
    BY DEF QueryPage, remoteVars
  <1>7. SetsInv' /\ VersionInv' /\ LateInv'
    BY <1>6 DEF SetsInv, VersionInv, AllOrOld, LateInv, Faithful
  <1>8. LoadedInv'
    <2>1. loaded'[c] = [revision |-> revision, sets |-> version.sets]
      BY <1>5 DEF StoreInv, TypeInv, TypeOK
    <2>2. \A d \in Client \ {c} : loaded'[d] = loaded[d]
      BY <1>5 DEF StoreInv, TypeInv, TypeOK
    <2>3. AllOrOld(version.sets, a)'  <=> AllOrOld(version.sets, a)
      BY <1>6 DEF AllOrOld
    <2>. QED
      BY <1>3, <1>5, <1>6, <2>1, <2>2 DEF LoadedInv, Faithful, AllOrOld
  <1>. QED
    BY <1>7, <1>8

(* A new latest change set is in no version seen so far.                    *)
LEMMA WriteUpdate ==
  ASSUME UpdateInv, NEW w \in Transaction, Write(w),
         w.changes.revision = LastEvent(w.changes),
         w.changes.revision \notin RevisionsOf(log[w.aggregate]),
         inflight' \subseteq inflight, UNCHANGED loaded
  PROVE  SeenInv'
  <1>. DEFINE a == w.aggregate
  <1>. USE DEF UpdateInv, SeenInv
  <1>1. a \in Aggregate
    BY DEF Transaction
  <1>2. \A s \in table[a].sets : s.revision # w.changes.revision
    BY <1>1 DEF SetsInv
  <1>3. /\ table'[a].sets = table[a].sets \cup {w.changes}
        /\ table'[a].latest = w.changes.revision
        /\ \A b \in Aggregate \ {a} : table'[b] = table[b]
    BY <1>1, <1>2 DEF Write, PutChangeSet, StoreInv, TypeInv, TypeOK
  <1>4. /\ RevisionsOf(log[a])' = RevisionsOf(log[a]) \cup {w.changes.revision}
        /\ \A b \in Aggregate \ {a} : RevisionsOf(log[b])' = RevisionsOf(log[b])
    BY WriteStore DEF StoreInv
  <1>5. SetsInv'
    BY <1>1, <1>3, <1>4 DEF SetsInv
  <1>6. ASSUME NEW b \in Aggregate, NEW sets, AllOrOld(sets, b)
        PROVE  AllOrOld(sets, b)'
    <2>1. CASE b = a
      BY <1>2, <1>3, <1>6, <2>1 DEF AllOrOld
    <2>2. CASE b # a
      BY <1>3, <1>6, <2>2 DEF AllOrOld
    <2>. QED
      BY <2>1, <2>2
  <1>7. ASSUME NEW b \in Aggregate, NEW load, Faithful(load, b)
        PROVE  Faithful(load, b)'
    BY <1>6, <1>7 DEF Faithful
  <1>8. VersionInv' /\ LoadedInv'
    BY <1>6, <1>7 DEF Write, VersionInv, LoadedInv
  <1>9. LateInv'
    BY <1>7 DEF LateInv, StoreInv, TypeInv, TypeOK, Transaction
  <1>. QED
    BY <1>5, <1>8, <1>9

(* So nothing seen is taken for the whole after a transaction is executed.  *)
LEMMA CommitUpdate ==
  ASSUME UpdateInv, NEW c \in Client, Commit(c) PROVE SeenInv'
  <1>. DEFINE w == TransactionOf(c)
  <1>1. /\ w \in Transaction /\ w.changes = Changes(c) /\ w.aggregate \in Aggregate
        /\ Write(w) /\ At(c, "write") /\ UNCHANGED <<inflight, loaded>>
    BY SentIsFresh DEF Commit, TransactionOf, UpdateInv
  <1>2. /\ w.changes.revision = LastEvent(w.changes)
        /\ w.changes.revision \notin RevisionsOf(log[w.aggregate])
    BY <1>1, SentIsFresh DEF UpdateInv
  <1>. HIDE DEF w
  <1>. QED
    BY <1>1, <1>2, WriteUpdate

(* Late or not. *)
LEMMA LateCommitUpdate ==
  ASSUME UpdateInv, NEW w \in inflight, LateCommit(w) PROVE SeenInv'
  <1>1. w \in Transaction /\ w.aggregate \in Aggregate
    BY DEF UpdateInv, StoreInv, TypeInv, TypeOK, Transaction
  <1>2. /\ Write(w) /\ inflight' \subseteq inflight /\ UNCHANGED loaded
        /\ w.changes.revision = LastEvent(w.changes)
        /\ w.changes.revision \notin RevisionsOf(log[w.aggregate])
    BY <1>1 DEF LateCommit, clientVars, UpdateInv, SeenInv, LateInv, StoreInv, LateAreFresh
  <1>. QED
    BY <1>1, <1>2, WriteUpdate

(* A transaction its client gave up on keeps what the client had loaded. *)
LEMMA GiveUpUpdate ==
  ASSUME UpdateInv, NEW c \in Client, GiveUp(c) PROVE SeenInv'
  <1>. USE DEF UpdateInv, SeenInv
  <1>1. UNCHANGED <<table, log, replica, loaded>>
    BY DEF GiveUp
  <1>2. SetsInv' /\ VersionInv' /\ LoadedInv'
    BY <1>1 DEF SetsInv, VersionInv, LoadedInv, Faithful, AllOrOld
  <1>. DEFINE w == TransactionOf(c)
  <1>3. w.changes.revision = LastEvent(w.changes) /\ Faithful(w.basis, w.aggregate)
    BY SentIsFresh DEF GiveUp, TransactionOf, LoadedInv
  <1>. HIDE DEF w
  <1>4. inflight' = inflight \cup {w}
    BY DEF GiveUp, w
  <1>5. LateInv'
    BY <1>1, <1>3, <1>4 DEF LateInv, Faithful, AllOrOld
  <1>. QED
    BY <1>2, <1>5

(* UpdateInv is inductive while aggregates fit a page and are not removed. *)
LEMMA NextUpdate ==
  ASSUME UpdateInv, [Next]_vars, ~Paged, ~Removable PROVE UpdateInv'
  <1>1. \A c \in Client : ~DeletePage(c)
    BY DEF DeletePage, Removable, UpdateInv, StoreInv, TypeInv, CallInv, At
  <1>2. ASSUME \A c \in Client : ~Commit(c) /\ ~GiveUp(c) /\ ~QueryPage(c),
               \A w \in inflight : ~LateCommit(w)
        PROVE  SeenInv'
    <2>1. UNCHANGED <<table, log, inflight>>
      <3>1. CASE \E c \in Client : RecordEvent(c)
        BY <3>1 DEF RecordEvent, remoteVars
      <3>. QED
        BY <1>1, <1>2, <3>1, OtherSteps DEF UpdateInv, StoreInv
    <2>2. \A a \in Aggregate : replica'[a].sets \in {replica[a].sets, table[a].sets}
      BY <1>1, <1>2 DEF Next, Start, Step, StartPublish, PublishNothing, StartLoad, StartRemove, Begin,
           Retry, RecordEvent, GeneratorPanics, ConditionFails, ListPage, RequestFails, Restart,
           Replicate, ClockTicks, vars, generatorVars, remoteVars, UpdateInv, StoreInv, TypeInv, TypeOK
    <2>3. \A c \in Client : loaded'[c] = loaded[c] \/ loaded'[c] = NotLoaded
      BY <1>1, <1>2 DEF Next, Start, Step, StartPublish, PublishNothing, StartLoad, StartRemove, Begin,
           Retry, RecordEvent, GeneratorPanics, ConditionFails, ListPage, RequestFails, Restart,
           Replicate, ClockTicks, vars, clientVars
    <2>. QED
      BY <2>1, <2>2, <2>3, SeenKept
  <1>3. SeenInv'
    BY <1>2, CommitUpdate, LateCommitUpdate, GiveUpUpdate, QueryPageUpdate
  <1>. QED
    BY <1>3, QueryKept, NextStore DEF UpdateInv

(* Optimistic concurrency works on aggregates of one page that nobody      *)
(* removes: who publishes with the revision it loaded, however stale, and  *)
(* is not refused, changes the aggregate it saw, however late the          *)
(* transaction is executed.                                                *)
THEOREM NoUpdateIsLost ==
  ASSUME ~Paged, ~Removable
  PROVE  Spec => []NoLostUpdate
  <1>1. UpdateInv /\ [Next]_vars => UpdateInv'
    BY NextUpdate
  <1>. QED
    BY <1>1, InitUpdate, UpdateInvSuffices, PTL DEF Spec
=============================================================================
