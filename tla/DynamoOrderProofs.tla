-------------------------- MODULE DynamoOrderProofs --------------------------
(***************************************************************************)
(* Theorems about the DynamoDB store that rest on an order: of the events  *)
(* in a change set, and of the change sets in the log.  Each names what it *)
(* assumes about the clients: that they share no generator, or publish     *)
(* without the revision they loaded.                                       *)
(***************************************************************************)
EXTENDS DynamoEventStoreProofs

USE TimeAssumption, StoreAssumption

-----------------------------------------------------------------------------
(***************************************************************************)
(* What a step of a client does to the local variables of the calls.       *)
(***************************************************************************)
OthersKept(c) == call \in [Client -> Call] /\ \A d \in Client \ {c} : call'[d] = call[d]

(* The call ends. *)
Ends(c) == call'[c] = Idle

(* An attempt to publish begins, the first one or another. *)
Tries(c) ==
  /\ call'[c].step = "make" /\ call'[c].drafts = <<>> /\ call'[c].now = clock[HostOf[c]]
  /\ \/ call'[c].expected = call[c].expected
     \/ \E policy \in UsesOf[c] \cap Policies : call'[c].expected = ExpectedBy(c)[policy]

(* A query, or a list of keys, begins. *)
Asks(c) ==
  \E step \in {"query", "list"} : call'[c] = [Idle EXCEPT !.step = step]

(* The events have one more revision. *)
Draws(c) ==
  \E r \in NewRevisions(HostOf[c], call[c].now) :
    /\ NewRevision(HostOf[c], r) /\ At(c, "make")
    /\ call'[c].step \in {"make", "write"} /\ call'[c].now = call[c].now
    /\ call'[c].expected = call[c].expected
    /\ call'[c].drafts = Append(call[c].drafts, r)

(* The condition failed, retry.Do waits. *)
Waits(c) == call'[c] = [call[c] EXCEPT !.step = "retry"]

(* A page of a query that is not the last. *)
ReadsOn(c) ==
  \E version \in Versions(AggregateOf[c]) : \E end \in version.sets :
    /\ At(c, "query") /\ end.revision > call[c].cursor
    /\ call'[c] = [call[c] EXCEPT
                     !.cursor = end.revision,
                     !.view = @ \cup { s \in version.sets : /\ s.revision > call[c].cursor
                                                            /\ s.revision <= end.revision }]

(* A page of keys is about to be deleted. *)
Lists(c) ==
  /\ At(c, "list")
  /\ \E version \in Versions(AggregateOf[c]) :
       LET rest == { k \in KeysOf(version) : k > call[c].cursor } IN
       \/ call'[c] = [call[c] EXCEPT !.step = "delete", !.keys = rest, !.more = FALSE]
       \/ \E end \in rest :
            call'[c] = [call[c] EXCEPT !.step = "delete", !.cursor = end, !.more = TRUE,
                                       !.keys = { k \in rest : k <= end }]

(* A page was deleted and another may be left. *)
ListsOn(c) ==
  At(c, "delete") /\ call[c].more /\ call'[c] = [call[c] EXCEPT !.step = "list"]

Moves(c) ==
  \/ UNCHANGED call \/ Ends(c) \/ Tries(c) \/ Asks(c) \/ Draws(c) \/ Waits(c)
  \/ ReadsOn(c) \/ Lists(c) \/ ListsOn(c)

(* A call is one of these. *)
LEMMA CallFacts ==
  ASSUME TypeInv, NEW c \in Client
  PROVE  /\ call[c] \in Call /\ call \in [Client -> Call] /\ call[c].drafts \in Seq(Revision)
         /\ call[c].cursor \in Revision \cup {InitialRevision, LatestKey}
         /\ HostOf[c] \in Process /\ AggregateOf[c] \in Aggregate
         /\ clock[HostOf[c]] \in 1 .. MaxTime /\ call[c].now \in 0 .. MaxTime
         /\ last[HostOf[c]] \in Revision \cup {InitialRevision}
  BY DEF TypeInv, TypeOK, Call

(* Beginning a call changes the local variables of the caller only. *)
LEMMA BeginMoves ==
  ASSUME TypeInv, NEW c \in Client, NEW locals, Begin(c, locals)
  PROVE  OthersKept(c) /\ call'[c] = locals
  BY CallFacts DEF Begin, OthersKept

(* So does returning. *)
LEMMA ReturnMoves ==
  ASSUME TypeInv, NEW c \in Client, NEW result, Return(c, result)
  PROVE  OthersKept(c) /\ Moves(c)
  BY CallFacts DEF Return, OthersKept, Moves, Ends

(* The calls a caller can make. *)
LEMMA StartMoves ==
  ASSUME TypeInv, NEW c \in Client, Start(c) PROVE OthersKept(c) /\ Moves(c)
  <1>1. CASE StartPublish(c)
    <2>1. PICK policy \in UsesOf[c] \cap Policies, n \in Batches \ {0} :
            Begin(c, Attempting(c, [Idle EXCEPT !.expected = ExpectedBy(c)[policy], !.count = n]))
      BY <1>1 DEF StartPublish
    <2>2. /\ OthersKept(c)
          /\ call'[c] = Attempting(c, [Idle EXCEPT !.expected = ExpectedBy(c)[policy], !.count = n])
      BY <2>1, BeginMoves
    <2>3. Tries(c)
      BY <2>2 DEF Attempting, Idle, Tries
    <2>. QED
      BY <2>2, <2>3 DEF Moves
  <1>2. CASE PublishNothing(c)
    BY <1>2, CallFacts DEF PublishNothing, OthersKept, Moves
  <1>3. CASE StartLoad(c) \/ StartRemove(c)
    <2>1. PICK step \in {"query", "list"} : Begin(c, [Idle EXCEPT !.step = step])
      BY <1>3 DEF StartLoad, StartRemove
    <2>. QED
      BY <2>1, BeginMoves DEF Asks, Moves
  <1>. QED
    BY <1>1, <1>2, <1>3 DEF Start

(* The next event is given its revision. *)
LEMMA RecordEventDraws ==
  ASSUME TypeInv, NEW c \in Client, RecordEvent(c) PROVE OthersKept(c) /\ Draws(c)
  <1>0. call[c] \in Call /\ call \in [Client -> Call]
    BY CallFacts
  <1>1. PICK r \in NewRevisions(HostOf[c], call[c].now) :
          /\ NewRevision(HostOf[c], r)
          /\ call' = [call EXCEPT ![c].drafts = Append(@, r),
                                  ![c].step = IF Len(call[c].drafts) + 1 = call[c].count
                                              THEN "write" ELSE "make"]
    BY DEF RecordEvent
  <1>. DEFINE step == IF Len(call[c].drafts) + 1 = call[c].count THEN "write" ELSE "make"
              drafts == Append(call[c].drafts, r)
  <1>2. call' = [call EXCEPT ![c] = [call[c] EXCEPT !.drafts = drafts, !.step = step]]
    BY <1>0, <1>1
  <1>3. step \in {"make", "write"}
    OBVIOUS
  <1>. HIDE DEF step, drafts
  <1>4. OthersKept(c)
    BY <1>0, <1>2 DEF OthersKept
  <1>5. /\ call'[c].step = step /\ call'[c].now = call[c].now
        /\ call'[c].expected = call[c].expected /\ call'[c].drafts = drafts
    BY <1>0, <1>2 DEF Call
  <1>6. Draws(c)
    BY <1>1, <1>3, <1>5 DEF Draws, RecordEvent, drafts
  <1>. QED
    BY <1>4, <1>6

(* The steps of a call under way. *)
LEMMA StepMoves ==
  ASSUME TypeInv, NEW c \in Client, Step(c) \/ RequestFails(c) \/ GiveUp(c)
  PROVE  OthersKept(c) /\ Moves(c)
  <1>0. call[c] \in Call /\ call \in [Client -> Call]
    BY CallFacts
  <1>1. CASE Retry(c)
    <2>1. OthersKept(c) /\ call'[c] = Attempting(c, call[c])
      BY <1>0, <1>1 DEF Retry, OthersKept
    <2>2. Tries(c)
      BY <1>0, <2>1 DEF Attempting, Tries, Call
    <2>. QED
      BY <2>1, <2>2 DEF Moves
  <1>2. CASE RecordEvent(c)
    BY <1>2, RecordEventDraws DEF Moves
  <1>3. CASE GeneratorPanics(c) \/ Commit(c) \/ RequestFails(c) \/ GiveUp(c)
    BY <1>3, ReturnMoves DEF GeneratorPanics, Commit, RequestFails, GiveUp
  <1>4. CASE ConditionFails(c)
    <2>1. CASE call' = [call EXCEPT ![c].step = "retry"]
      BY <1>0, <2>1 DEF OthersKept, Moves, Waits
    <2>. QED
      BY <1>4, <2>1, ReturnMoves DEF ConditionFails
  <1>5. CASE QueryPage(c)
    <2>1. PICK version \in Versions(AggregateOf[c]) :
            LET rest == { s \in version.sets : s.revision > call[c].cursor } IN
            \/ ReturnLoaded(c, call[c].view \cup rest)
            \/ \E end \in rest :
                 call' = [call EXCEPT ![c].cursor = end.revision,
                                      ![c].view = @ \cup { s \in rest : s.revision <= end.revision }]
      BY <1>5 DEF QueryPage
    <2>. DEFINE rest == { s \in version.sets : s.revision > call[c].cursor }
    <2>2. CASE ReturnLoaded(c, call[c].view \cup rest)
      BY <2>2, ReturnMoves DEF ReturnLoaded
    <2>3. ASSUME NEW end \in rest,
                 call' = [call EXCEPT ![c].cursor = end.revision,
                                      ![c].view = @ \cup { s \in rest : s.revision <= end.revision }]
          PROVE  OthersKept(c) /\ Moves(c)
      <3>. DEFINE seen == call[c].view \cup { s \in rest : s.revision <= end.revision }
                  page == [call[c] EXCEPT !.cursor = end.revision, !.view = seen]
      <3>1. call' = [call EXCEPT ![c] = page]
        BY <1>0, <2>3
      <3>2. seen = call[c].view \cup { s \in version.sets : /\ s.revision > call[c].cursor
                                                            /\ s.revision <= end.revision }
        OBVIOUS
      <3>3. end \in version.sets /\ end.revision > call[c].cursor
        OBVIOUS
      <3>4. OthersKept(c) /\ call'[c] = page
        BY <1>0, <3>1 DEF OthersKept
      <3>5. call'[c] = [call[c] EXCEPT
                          !.cursor = end.revision,
                          !.view = @ \cup { s \in version.sets : /\ s.revision > call[c].cursor
                                                                 /\ s.revision <= end.revision }]
        BY <3>2, <3>4
      <3>6. ReadsOn(c)
        BY <1>5, <3>3, <3>5 DEF ReadsOn, QueryPage
      <3>. QED
        BY <3>4, <3>6 DEF Moves
    <2>. QED
      BY <2>1, <2>2, <2>3
  <1>6. CASE ListPage(c)
    <2>1. PICK version \in Versions(AggregateOf[c]) :
            LET rest == { k \in KeysOf(version) : k > call[c].cursor } IN
            \/ Return(c, "removed")
            \/ call' = [call EXCEPT ![c].step = "delete", ![c].keys = rest, ![c].more = FALSE]
            \/ \E end \in rest :
                 call' = [call EXCEPT ![c].step = "delete", ![c].cursor = end, ![c].more = TRUE,
                                      ![c].keys = { k \in rest : k <= end }]
      BY <1>6 DEF ListPage
    <2>. DEFINE rest == { k \in KeysOf(version) : k > call[c].cursor }
    <2>2. CASE Return(c, "removed")
      BY <2>2, ReturnMoves
    <2>3. CASE call' = [call EXCEPT ![c].step = "delete", ![c].keys = rest, ![c].more = FALSE]
      <3>. HIDE DEF rest
      <3>1. /\ OthersKept(c)
            /\ call'[c] = [call[c] EXCEPT !.step = "delete", !.keys = rest, !.more = FALSE]
        BY <1>0, <2>3 DEF OthersKept
      <3>2. Lists(c)
        BY <1>6, <3>1 DEF Lists, ListPage, rest
      <3>. QED
        BY <3>1, <3>2 DEF Moves
    <2>4. ASSUME NEW end \in rest,
                 call' = [call EXCEPT ![c].step = "delete", ![c].cursor = end, ![c].more = TRUE,
                                      ![c].keys = { k \in rest : k <= end }]
          PROVE  OthersKept(c) /\ Moves(c)
      <3>. DEFINE keys == { k \in rest : k <= end }
      <3>0. call' = [call EXCEPT ![c].step = "delete", ![c].cursor = end, ![c].more = TRUE,
                                 ![c].keys = keys]
        BY <2>4
      <3>. HIDE DEF rest, keys
      <3>1. /\ OthersKept(c)
            /\ call'[c] = [call[c] EXCEPT !.step = "delete", !.cursor = end, !.more = TRUE,
                                          !.keys = keys]
        BY <1>0, <3>0 DEF OthersKept
      <3>2. Lists(c)
        BY <1>6, <2>4, <3>1 DEF Lists, ListPage, rest, keys
      <3>. QED
        BY <3>1, <3>2 DEF Moves
    <2>. QED
      BY <2>1, <2>2, <2>3, <2>4
  <1>7. CASE DeletePage(c)
    <2>1. CASE call[c].more /\ call' = [call EXCEPT ![c].step = "list"]
      BY <1>0, <1>7, <2>1 DEF OthersKept, Moves, ListsOn, DeletePage
    <2>. QED
      BY <1>7, <2>1, ReturnMoves DEF DeletePage
  <1>. QED
    BY <1>1, <1>2, <1>3, <1>4, <1>5, <1>6, <1>7 DEF Step

(* Any step of a client. *)
ClientStep(c) == Start(c) \/ Step(c) \/ RequestFails(c) \/ GiveUp(c)

(* A step of a client is a move of its own call. *)
LEMMA ClientMoves ==
  ASSUME TypeInv, NEW c \in Client, ClientStep(c) PROVE OthersKept(c) /\ Moves(c)
  BY StartMoves, StepMoves DEF ClientStep

(* What a step of a client leaves alone. *)
LEMMA ClientLeaves ==
  ASSUME TypeInv, NEW c \in Client, ClientStep(c)
  PROVE  /\ UNCHANGED <<clock, replica>>
         /\ Draws(c) \/ UNCHANGED <<last, issued>>
         /\ Commit(c) \/ DeletePage(c) \/ UNCHANGED <<table, log>>
         /\ GiveUp(c) \/ UNCHANGED inflight
         /\ QueryPage(c) \/ UNCHANGED loaded
         /\ \A d \in Client \ {c} : loaded'[d] = loaded[d] /\ outcome'[d] = outcome[d]
  <1>. USE DEF generatorVars, remoteVars
  <1>0. loaded \in [Client -> Loaded] /\ outcome \in [Client -> Outcomes]
    BY DEF TypeInv, TypeOK
  <1>1. CASE Start(c)
    BY <1>0, <1>1 DEF Start, StartPublish, PublishNothing, StartLoad, StartRemove, Begin
  <1>2. CASE Retry(c) \/ GeneratorPanics(c) \/ RequestFails(c)
    BY <1>0, <1>2 DEF Retry, GeneratorPanics, RequestFails, Return
  <1>3. CASE RecordEvent(c)
    BY <1>3, RecordEventDraws DEF RecordEvent, NewRevision
  <1>4. CASE Commit(c) \/ GiveUp(c)
    BY <1>0, <1>4 DEF Commit, GiveUp, Write, Return
  <1>5. CASE ConditionFails(c)
    BY <1>0, <1>5 DEF ConditionFails, Return
  <1>6. CASE QueryPage(c)
    BY <1>0, <1>6 DEF QueryPage, ReturnLoaded, Return
  <1>7. CASE ListPage(c)
    BY <1>0, <1>7 DEF ListPage, Return
  <1>8. CASE DeletePage(c)
    BY <1>0, <1>8 DEF DeletePage, Return
  <1>. QED
    BY <1>1, <1>2, <1>3, <1>4, <1>5, <1>6, <1>7, <1>8 DEF ClientStep, Step

(* A transaction that is sent ends the call, whether the client waits or not; *)
(* a deleted page ends it or leads to the next.                                *)
LEMMA ClientEnds ==
  ASSUME TypeInv, NEW c \in Client
  PROVE  /\ Commit(c) \/ GiveUp(c) => Ends(c)
         /\ DeletePage(c) => Ends(c) \/ ListsOn(c)
  BY CallFacts DEF Commit, GiveUp, DeletePage, Return, Ends, ListsOn

(* A page of keys changes the keys and the cursor only. *)
LEMMA ListsFacts ==
  ASSUME TypeInv, NEW c \in Client, Lists(c)
  PROVE  /\ call'[c].step = "delete" /\ call'[c].drafts = call[c].drafts
         /\ call'[c].expected = call[c].expected
         /\ \E version \in Versions(AggregateOf[c]) :
              LET rest == { k \in KeysOf(version) : k > call[c].cursor } IN
              \/ call'[c].keys = rest /\ ~call'[c].more
              \/ \E end \in rest :
                   /\ call'[c].cursor = end /\ call'[c].more
                   /\ call'[c].keys = { k \in rest : k <= end }
  <1>0. call[c] \in Call
    BY CallFacts
  <1>1. PICK version \in Versions(AggregateOf[c]) :
          LET rest == { k \in KeysOf(version) : k > call[c].cursor } IN
          \/ call'[c] = [call[c] EXCEPT !.step = "delete", !.keys = rest, !.more = FALSE]
          \/ \E end \in rest :
               call'[c] = [call[c] EXCEPT !.step = "delete", !.cursor = end, !.more = TRUE,
                                          !.keys = { k \in rest : k <= end }]
    BY DEF Lists
  <1>. DEFINE rest == { k \in KeysOf(version) : k > call[c].cursor }
  <1>2. CASE call'[c] = [call[c] EXCEPT !.step = "delete", !.keys = rest, !.more = FALSE]
    <2>1. /\ call'[c].step = "delete" /\ call'[c].drafts = call[c].drafts
          /\ call'[c].expected = call[c].expected /\ call'[c].keys = rest /\ call'[c].more = FALSE
      <3>. HIDE DEF rest
      <3>. QED
        BY <1>0, <1>2 DEF Call
    <2>. QED
      BY <2>1
  <1>3. ASSUME NEW end \in rest,
               call'[c] = [call[c] EXCEPT !.step = "delete", !.cursor = end, !.more = TRUE,
                                          !.keys = { k \in rest : k <= end }]
        PROVE  /\ call'[c].step = "delete" /\ call'[c].drafts = call[c].drafts
               /\ call'[c].expected = call[c].expected /\ call'[c].cursor = end
               /\ call'[c].more /\ call'[c].keys = { k \in rest : k <= end }
    <2>. DEFINE keys == { k \in rest : k <= end }
    <2>1. call'[c] = [call[c] EXCEPT !.step = "delete", !.cursor = end, !.more = TRUE, !.keys = keys]
      BY <1>3
    <2>. HIDE DEF rest, keys
    <2>2. /\ call'[c].step = "delete" /\ call'[c].drafts = call[c].drafts
          /\ call'[c].expected = call[c].expected /\ call'[c].cursor = end
          /\ call'[c].more = TRUE /\ call'[c].keys = keys
      BY <1>0, <2>1 DEF Call
    <2>. QED
      BY <2>2 DEF keys
  <1>4. CASE \E end \in rest :
               call'[c] = [call[c] EXCEPT !.step = "delete", !.cursor = end, !.more = TRUE,
                                          !.keys = { k \in rest : k <= end }]
    BY <1>3, <1>4
  <1>. QED
    BY <1>1, <1>2, <1>4

-----------------------------------------------------------------------------
(***************************************************************************)
(* The events of a change set are in order when no two goroutines share a  *)
(* generator.  The invariant: while an attempt is under way the generator  *)
(* issued the last of its revisions last, in the millisecond the attempt   *)
(* began, so that the next one is greater.                                 *)
(***************************************************************************)
Increasing(revisions) == \A i \in 1 .. Len(revisions) - 1 : revisions[i] < revisions[i + 1]

Ordered(changes) == changes.revision = LastEvent(changes) /\ Increasing(changes.events)

(* local: the variables of a call; latest: what its generator issued last. *)
InOrder(local, latest) ==
  /\ Increasing(local.drafts)
  /\ local.step = "make" /\ local.drafts # <<>> =>
       /\ latest = local.drafts[Len(local.drafts)]
       /\ Millis(latest) = local.now

DraftsInOrder == \A c \in Client : InOrder(call[c], last[HostOf[c]])

LateInOrder == \A w \in inflight : Ordered(w.changes)

OrderInv == TypeInv /\ DraftsInOrder /\ LateInOrder /\ EventsOrdered

OwnGenerator == \A c, d \in Client : c # d => HostOf[c] # HostOf[d]

(* EventsOrdered says that every change set is ordered. *)
LEMMA OrderedSets == EventsOrdered <=> \A a \in Aggregate : \A s \in table[a].sets : Ordered(s)
  BY DEF EventsOrdered, Ordered, Increasing

(* A greater revision at the end leaves a sequence increasing. *)
LEMMA IncreasingAppend ==
  ASSUME NEW s \in Seq(Revision), NEW r \in Revision, Increasing(s),
         s # <<>> => s[Len(s)] < r
  PROVE  Increasing(Append(s, r))
  <1>. DEFINE t == Append(s, r)
  <1>1. /\ Len(t) = Len(s) + 1 /\ t[Len(s) + 1] = r
        /\ \A i \in 1 .. Len(s) : t[i] = s[i]
        /\ Len(s) \in Nat
    BY AppendFacts
  <1>2. Len(s) # 0 => s # <<>>
    OBVIOUS
  <1>. HIDE DEF t
  <1>3. Increasing(t)
    <2>. SUFFICES ASSUME NEW i \in 1 .. Len(t) - 1 PROVE t[i] < t[i + 1]
      BY DEF Increasing
    <2>1. CASE i = Len(s)
      BY <1>1, <1>2, <2>1
    <2>2. CASE i < Len(s)
      BY <1>1, <2>2 DEF Increasing
    <2>. QED
      BY <1>1, <2>1, <2>2
  <1>. QED
    BY <1>3 DEF t

(* No event, or no longer an attempt, and the drafts are in order. *)
LEMMA InOrderFacts ==
  /\ \A latest : InOrder(Idle, latest)
  /\ \A local, latest : local.drafts = <<>> => InOrder(local, latest)
  /\ \A step : [Idle EXCEPT !.step = step].drafts = <<>>
  BY DEF InOrder, Increasing, Idle

(* The drafts of a client stay in order while it makes its own steps. *)
LEMMA OwnDraftsInOrder ==
  ASSUME OrderInv, NEW c \in Client, ClientStep(c)
  PROVE  InOrder(call'[c], last'[HostOf[c]])
  <1>. DEFINE p == HostOf[c]
  <1>0. call[c] \in Call /\ TypeInv /\ InOrder(call[c], last[p])
    BY CallFacts DEF OrderInv, DraftsInOrder
  <1>1. CASE Draws(c)
    <2>1. PICK r \in NewRevisions(p, call[c].now) :
            /\ NewRevision(p, r) /\ At(c, "make") /\ call'[c].now = call[c].now
            /\ call'[c].drafts = Append(call[c].drafts, r)
      BY <1>1 DEF Draws
    <2>2. /\ r \in Revision /\ Millis(r) = call[c].now
          /\ Millis(last[p]) = call[c].now => r > last[p]
      BY <2>1 DEF NewRevisions
    <2>3. last'[p] = r
      BY <1>0, <2>1, CallFacts DEF NewRevision, TypeInv, TypeOK
    <2>. DEFINE s == call[c].drafts
    <2>4. s \in Seq(Revision)
      BY <1>0, CallFacts
    <2>5. Increasing(s) /\ (s # <<>> => s[Len(s)] = last[p] /\ Millis(last[p]) = call[c].now)
      BY <1>0, <2>1 DEF InOrder, At
    <2>. HIDE DEF s, p
    <2>6. s # <<>> => s[Len(s)] < r
      <3>1. s # <<>> => s[Len(s)] \in Revision
        BY <2>4
      <3>. QED
        BY <2>2, <2>5, <3>1, RevisionFacts
    <2>7. Increasing(Append(s, r))
      BY <2>2, <2>4, <2>5, <2>6, IncreasingAppend
    <2>8. Append(s, r)[Len(Append(s, r))] = r
      BY <2>2, <2>4, AppendFacts
    <2>9. call'[c].drafts = Append(s, r)
      BY <2>1 DEF s
    <2>. QED
      BY <2>1, <2>2, <2>3, <2>7, <2>8, <2>9 DEF InOrder, p
  <1>2. CASE ~Draws(c)
    <2>1. last' = last
      BY <1>0, <1>2, ClientLeaves
    <2>2. Moves(c)
      BY <1>0, ClientMoves
    <2>3. CASE UNCHANGED call
      BY <1>0, <2>1, <2>3
    <2>4. CASE Ends(c) \/ Tries(c) \/ Asks(c)
      BY <2>4, InOrderFacts DEF Ends, Tries, Asks
    <2>5. CASE Waits(c) \/ ListsOn(c)
      BY <1>0, <2>5 DEF Waits, ListsOn, InOrder, Call
    <2>6. CASE ReadsOn(c)
      BY <1>0, <2>1, <2>6 DEF ReadsOn, InOrder, Call
    <2>7. CASE Lists(c)
      <3>1. call'[c].step = "delete" /\ call'[c].drafts = call[c].drafts
        BY <1>0, <2>7, ListsFacts
      <3>. QED
        BY <1>0, <3>1 DEF InOrder
    <2>. QED
      BY <1>2, <2>2, <2>3, <2>4, <2>5, <2>6, <2>7 DEF Moves
  <1>. QED
    BY <1>1, <1>2

(* OrderInv holds initially. *)
LEMMA InitOrder == Init => OrderInv
  <1>. SUFFICES ASSUME Init PROVE OrderInv
    OBVIOUS
  <1>1. DraftsInOrder
    BY InOrderFacts DEF Init, DraftsInOrder
  <1>2. LateInOrder /\ EventsOrdered
    BY DEF Init, LateInOrder, EventsOrdered, EmptyPartition
  <1>. QED
    BY <1>1, <1>2, InitType DEF OrderInv

(* The drafts of all clients stay in order when no two share a generator. *)
LEMMA DraftsStayInOrder ==
  ASSUME OrderInv, OwnGenerator, [Next]_vars PROVE DraftsInOrder'
  <1>0. TypeInv
    BY DEF OrderInv
  <1>1. ASSUME NEW c \in Client, ClientStep(c) PROVE DraftsInOrder'
    <2>. SUFFICES ASSUME NEW d \in Client PROVE InOrder(call'[d], last'[HostOf[d]])
      BY DEF DraftsInOrder
    <2>1. CASE d = c
      BY <1>1, <2>1, OwnDraftsInOrder
    <2>2. CASE d # c
      <3>1. call'[d] = call[d] /\ HostOf[d] # HostOf[c]
        BY <1>0, <1>1, <2>2, ClientMoves DEF OthersKept, OwnGenerator
      <3>2. last'[HostOf[d]] = last[HostOf[d]]
        BY <1>0, <1>1, <3>1, ClientLeaves, CallFacts DEF Draws, NewRevision, TypeInv, TypeOK
      <3>. QED
        BY <3>1, <3>2 DEF OrderInv, DraftsInOrder
    <2>. QED
      BY <2>1, <2>2
  <1>2. ASSUME NEW p \in Restarting, Restart(p) PROVE DraftsInOrder'
    <2>. SUFFICES ASSUME NEW d \in Client PROVE InOrder(call'[d], last'[HostOf[d]])
      BY DEF DraftsInOrder
    <2>1. CASE HostOf[d] = p
      BY <1>2, <2>1, InOrderFacts DEF Restart
    <2>2. CASE HostOf[d] # p
      <3>1. call'[d] = call[d] /\ last'[HostOf[d]] = last[HostOf[d]]
        BY <1>0, <1>2, <2>2, CallFacts DEF Restart, ResetGenerator, TypeInv, TypeOK
      <3>. QED
        BY <3>1 DEF OrderInv, DraftsInOrder
    <2>. QED
      BY <2>1, <2>2
  <1>3. CASE UNCHANGED <<call, last>>
    BY <1>3 DEF OrderInv, DraftsInOrder
  <1>. QED
    BY <1>1, <1>2, <1>3
       DEF Next, ClientStep, LateCommit, Replicate, ClockTicks, Tick, vars, generatorVars, clientVars

(* A transaction that is sent has an ordered change set. *)
LEMMA SentInOrder ==
  ASSUME OrderInv, NEW c \in Client PROVE Ordered(TransactionOf(c).changes)
  BY DEF OrderInv, DraftsInOrder, InOrder, Ordered, TransactionOf, Changes, LastEvent

(* Writing an ordered change set leaves all change sets ordered. *)
LEMMA WriteOrder ==
  ASSUME OrderInv, NEW w \in Transaction, Write(w), Ordered(w.changes) PROVE EventsOrdered'
  <1>1. w.aggregate \in Aggregate /\ table \in [Aggregate -> Partition]
    BY DEF Transaction, OrderInv, TypeInv, TypeOK
  <1>2. table'[w.aggregate].sets \subseteq table[w.aggregate].sets \cup {w.changes}
    BY <1>1 DEF Write, PutChangeSet
  <1>3. \A a \in Aggregate \ {w.aggregate} : table'[a] = table[a]
    BY <1>1 DEF Write
  <1>4. \A a \in Aggregate : \A s \in table'[a].sets : Ordered(s)
    BY <1>2, <1>3, OrderedSets DEF OrderInv
  <1>. QED
    BY <1>4 DEF EventsOrdered, Ordered, Increasing

(* OrderInv is inductive. *)
LEMMA NextOrder ==
  ASSUME OwnGenerator PROVE OrderInv /\ [Next]_vars => OrderInv'
  <1>. SUFFICES ASSUME OrderInv, [Next]_vars PROVE LateInOrder' /\ EventsOrdered'
    BY NextType, DraftsStayInOrder DEF OrderInv
  <1>0. TypeInv /\ LateInOrder /\ EventsOrdered
    BY DEF OrderInv
  <1>1. ASSUME NEW c \in Client, ClientStep(c) PROVE LateInOrder' /\ EventsOrdered'
    <2>1. CASE Commit(c)
      BY <1>0, <2>1, SentInOrder, TransactionType, WriteOrder DEF Commit, LateInOrder
    <2>2. CASE GiveUp(c)
      BY <1>0, <2>2, SentInOrder DEF GiveUp, LateInOrder, EventsOrdered
    <2>3. CASE DeletePage(c)
      <3>1. \A a \in Aggregate : table'[a].sets \subseteq table[a].sets
        BY <1>0, <2>3, CallFacts DEF DeletePage, DeleteKeys, TypeInv, TypeOK
      <3>. QED
        BY <1>0, <2>3, <3>1 DEF DeletePage, LateInOrder, EventsOrdered
    <2>4. CASE UNCHANGED <<table, inflight>>
      BY <1>0, <2>4 DEF LateInOrder, EventsOrdered
    <2>. QED
      BY <1>0, <1>1, <2>1, <2>2, <2>3, <2>4, ClientLeaves
  <1>2. ASSUME NEW w \in inflight, LateCommit(w) PROVE LateInOrder' /\ EventsOrdered'
    BY <1>0, <1>2, WriteOrder DEF LateCommit, LateInOrder, TypeInv, TypeOK
  <1>3. CASE UNCHANGED <<table, inflight>>
    BY <1>0, <1>3 DEF LateInOrder, EventsOrdered
  <1>. QED
    BY <1>1, <1>2, <1>3
       DEF Next, ClientStep, Restart, Replicate, ClockTicks, vars, remoteVars

(* The events of every change set have increasing revisions, and the change *)
(* set has the last of them, when every goroutine has a generator of its    *)
(* own: whatever the clocks do, with removals, restarts and late commits.   *)
THEOREM EventsAreOrdered ==
  ASSUME OwnGenerator PROVE Spec => []EventsOrdered
  <1>1. OrderInv /\ [Next]_vars => OrderInv'
    BY NextOrder
  <1>2. OrderInv => EventsOrdered
    BY DEF OrderInv
  <1>. QED
    BY <1>1, <1>2, InitOrder, PTL DEF Spec

-----------------------------------------------------------------------------
(***************************************************************************)
(* Loads when every publisher is blind, or creates, and nobody removes:    *)
(* pages, stale replicas, late transactions and skewed clocks included.    *)
(* The invariant: the condition on latest-revision keeps the log in the    *)
(* order of the sort keys, so that whatever a query sees or has seen are   *)
(* the change sets up to some revision.                                    *)
(***************************************************************************)
Blind == \A c \in Client : UsesOf[c] \cap {"loaded", "remove"} = {}

BlindCalls == \A c \in Client : call[c].expected \in {NoRevision, InitialRevision}

LateBlind ==
  \A w \in inflight :
    /\ w.expected \in {NoRevision, InitialRevision}
    /\ w.changes.revision = LastEvent(w.changes)

InLogOrder(entries) ==
  \A i, j \in 1 .. Len(entries) : i < j => entries[i].revision < entries[j].revision

(* The items of a partition are the change sets of its log. *)
LogIsStored(entries, sets) ==
  /\ { s.revision : s \in sets } = RevisionsOf(entries)
  /\ \A s \in sets : s.revision = LastEvent(s)

UpTo(sets, bound) == { s \in sets : s.revision <= bound }

(* The revisions an aggregate had at some moment. *)
Bounds(entries) == {InitialRevision} \cup RevisionsOf(entries)

Snapshot(some, sets, entries) == \E b \in Bounds(entries) : some = UpTo(sets, b)

(* What a query has read of the aggregate. *)
ReadUpTo(local, sets, entries) ==
  local.step = "query" =>
    local.cursor \in Bounds(entries) /\ local.view = UpTo(sets, local.cursor)

LoadedSnapshot(load, sets, entries) ==
  load # NotLoaded =>
    load.revision \in RevisionsFrom(load.sets) /\ Snapshot(load.sets, sets, entries)

LogsInOrder ==
  \A a \in Aggregate : InLogOrder(log[a]) /\ LogIsStored(log[a], table[a].sets)

ReplicasInOrder ==
  \A a \in Aggregate : Snapshot(replica[a].sets, table[a].sets, log[a])

QueriesInOrder ==
  \A c \in Client :
    LET a == AggregateOf[c] IN
    /\ ReadUpTo(call[c], table[a].sets, log[a])
    /\ LoadedSnapshot(loaded[c], table[a].sets, log[a])

BlindInv ==
  StoreInv /\ BlindCalls /\ LateBlind /\ LogsInOrder /\ ReplicasInOrder /\ QueriesInOrder

(* The revisions of a log are those of change sets. *)
LEMMA LogRevisions ==
  ASSUME NEW entries \in Seq(LogEntry)
  PROVE  /\ Len(entries) \in Nat
         /\ \A i \in 1 .. Len(entries) : entries[i].revision \in Revision
         /\ \A r : r \in RevisionsOf(entries) <=> \E i \in 1 .. Len(entries) : r = entries[i].revision
         /\ RevisionsOf(entries) \subseteq Revision
         /\ Bounds(entries) \subseteq Nat
  <1>1. Len(entries) \in Nat /\ \A i \in 1 .. Len(entries) : entries[i] \in LogEntry
    OBVIOUS
  <1>2. \A i \in 1 .. Len(entries) : entries[i].revision \in Revision
    BY <1>1 DEF LogEntry
  <1>3. \A r : r \in RevisionsOf(entries) <=> \E i \in 1 .. Len(entries) : r = entries[i].revision
    BY DEF RevisionsOf, Contract!RevisionsOf
  <1>. QED
    BY <1>1, <1>2, <1>3, RevisionFacts DEF Bounds

(* The last entry of a log in order has the greatest revision. *)
LEMMA LastIsGreatest ==
  ASSUME NEW entries \in Seq(LogEntry), InLogOrder(entries), entries # <<>>
  PROVE  /\ entries[Len(entries)].revision \in RevisionsOf(entries)
         /\ \A r \in RevisionsOf(entries) : r <= entries[Len(entries)].revision
  <1>1. Len(entries) \in Nat /\ Len(entries) # 0
    OBVIOUS
  <1>2. \A i \in 1 .. Len(entries) : entries[i].revision <= entries[Len(entries)].revision
    <2>. SUFFICES ASSUME NEW i \in 1 .. Len(entries)
                  PROVE  entries[i].revision <= entries[Len(entries)].revision
      OBVIOUS
    <2>1. entries[i].revision \in Nat /\ entries[Len(entries)].revision \in Nat
      BY <1>1, LogRevisions, RevisionFacts
    <2>2. CASE i = Len(entries)
      BY <2>1, <2>2
    <2>3. CASE i < Len(entries)
      BY <1>1, <2>1, <2>3 DEF InLogOrder
    <2>. QED
      BY <1>1, <2>2, <2>3
  <1>. QED
    BY <1>1, <1>2, LogRevisions

(* The whole partition is a snapshot. *)
LEMMA WholeIsSnapshot ==
  ASSUME NEW entries \in Seq(LogEntry), NEW sets, InLogOrder(entries), LogIsStored(entries, sets)
  PROVE  Snapshot(sets, sets, entries)
  <1>1. CASE entries = <<>>
    <2>1. RevisionsOf(entries) = {}
      BY <1>1 DEF RevisionsOf, Contract!RevisionsOf
    <2>2. sets = {}
      BY <2>1 DEF LogIsStored
    <2>. QED
      BY <2>2 DEF Snapshot, UpTo, Bounds
  <1>2. CASE entries # <<>>
    <2>. DEFINE b == entries[Len(entries)].revision
    <2>1. b \in Bounds(entries) /\ \A s \in sets : s.revision <= b
      BY <1>2, LastIsGreatest DEF Bounds, LogIsStored
    <2>2. sets = UpTo(sets, b)
      BY <2>1 DEF UpTo
    <2>. QED
      BY <2>1, <2>2 DEF Snapshot
  <1>. QED
    BY <1>1, <1>2

(* An item with the greatest revision of all changes no snapshot. *)
LEMMA SnapshotKept ==
  ASSUME NEW entries \in Seq(LogEntry), NEW entry \in LogEntry,
         NEW sets \in SUBSET ChangeSet, NEW changes \in ChangeSet,
         changes.revision = entry.revision,
         \A r \in RevisionsOf(entries) : r < entry.revision
  PROVE  LET new == sets \cup {changes}
             longer == Append(entries, entry)
         IN  /\ Bounds(entries) \subseteq Bounds(longer)
             /\ \A b \in Bounds(entries) : UpTo(new, b) = UpTo(sets, b)
  <1>. DEFINE new == sets \cup {changes}
              longer == Append(entries, entry)
  <1>1. /\ longer \in Seq(LogEntry) /\ Len(longer) = Len(entries) + 1
        /\ Len(entries) \in Nat /\ \A i \in 1 .. Len(entries) : longer[i] = entries[i]
    BY AppendFacts
  <1>2. Bounds(entries) \subseteq Bounds(longer)
    <2>. SUFFICES ASSUME NEW r \in RevisionsOf(entries) PROVE r \in RevisionsOf(longer)
      BY DEF Bounds
    <2>. HIDE DEF longer
    <2>1. PICK i \in 1 .. Len(entries) : r = entries[i].revision
      BY LogRevisions
    <2>2. i \in 1 .. Len(longer) /\ r = longer[i].revision
      BY <1>1, <2>1
    <2>. QED
      BY <1>1, <2>2, LogRevisions
  <1>3. \A b \in Bounds(entries) : b \in Nat /\ b < changes.revision
    BY LogRevisions, RevisionFacts DEF Bounds, LogEntry
  <1>4. \A b \in Bounds(entries) : UpTo(new, b) = UpTo(sets, b)
    <2>1. changes.revision \in Nat
      BY RevisionFacts DEF ChangeSet
    <2>. QED
      BY <1>3, <2>1 DEF UpTo
  <1>. QED
    BY <1>2, <1>4

(* A log with a greater revision at the end stays in order. *)
LEMMA InLogOrderAppend ==
  ASSUME NEW entries \in Seq(LogEntry), NEW entry \in LogEntry, InLogOrder(entries),
         \A r \in RevisionsOf(entries) : r < entry.revision
  PROVE  InLogOrder(Append(entries, entry))
  <1>. DEFINE longer == Append(entries, entry)
  <1>1. /\ Len(longer) = Len(entries) + 1 /\ longer[Len(entries) + 1] = entry
        /\ Len(entries) \in Nat /\ \A i \in 1 .. Len(entries) : longer[i] = entries[i]
    BY AppendFacts
  <1>2. \A i \in 1 .. Len(entries) : entries[i].revision < entry.revision
    BY LogRevisions
  <1>. HIDE DEF longer
  <1>3. InLogOrder(longer)
    <2>. SUFFICES ASSUME NEW i \in 1 .. Len(longer), NEW j \in 1 .. Len(longer), i < j
                  PROVE  longer[i].revision < longer[j].revision
      BY DEF InLogOrder
    <2>1. i \in 1 .. Len(entries)
      BY <1>1
    <2>2. CASE j \in 1 .. Len(entries)
      BY <1>1, <2>1, <2>2 DEF InLogOrder
    <2>3. CASE j = Len(entries) + 1
      BY <1>1, <1>2, <2>1, <2>3
    <2>. QED
      BY <1>1, <2>2, <2>3
  <1>. QED
    BY <1>3 DEF longer

(* A page goes from one snapshot to a later one. *)
LEMMA PageIsSnapshot ==
  ASSUME NEW sets \in SUBSET ChangeSet, NEW cursor \in Nat, NEW bound \in Nat
  PROVE  LET rest == { s \in UpTo(sets, bound) : s.revision > cursor } IN
         /\ UpTo(sets, cursor) \cup rest = UpTo(sets, IF cursor < bound THEN bound ELSE cursor)
         /\ \A end \in rest :
              UpTo(sets, cursor) \cup { s \in rest : s.revision <= end.revision }
                = UpTo(sets, end.revision)
  <1>. DEFINE rest == { s \in UpTo(sets, bound) : s.revision > cursor }
  <1>1. \A s \in sets : s.revision \in Nat
    BY RevisionFacts DEF ChangeSet
  <1>2. CASE cursor < bound
    BY <1>1, <1>2 DEF UpTo
  <1>3. CASE ~(cursor < bound)
    BY <1>1, <1>3 DEF UpTo
  <1>. QED
    BY <1>1, <1>2, <1>3 DEF UpTo

(* The snapshots of a are snapshots of its next state, too. *)
Grown(a) ==
  /\ Bounds(log[a]) \subseteq Bounds(log'[a])
  /\ \A b \in Bounds(log[a]) : UpTo(table'[a].sets, b) = UpTo(table[a].sets, b)

(* The types BlindInv is about. *)
LEMMA BlindFacts ==
  ASSUME BlindInv
  PROVE  /\ TypeInv /\ LatestIsCommitted
         /\ table \in [Aggregate -> Partition] /\ replica \in [Aggregate -> Partition]
         /\ log \in [Aggregate -> Seq(LogEntry)] /\ inflight \subseteq Transaction
         /\ loaded \in [Client -> Loaded]
         /\ \A a \in Aggregate : table[a].sets \in SUBSET ChangeSet /\ log[a] \in Seq(LogEntry)
         /\ \A a \in Aggregate : InLogOrder(log[a]) /\ LogIsStored(log[a], table[a].sets)
  BY DEF BlindInv, StoreInv, TypeInv, TypeOK, Partition, LogsInOrder

(* A blind change set that is accepted has a greater revision than all before. *)
LEMMA BlindIsGreatest ==
  ASSUME BlindInv, NEW w \in Transaction, CanWrite(w),
         w.expected \in {NoRevision, InitialRevision}
  PROVE  \A r \in RevisionsOf(log[w.aggregate]) : r < w.changes.revision
  <1>. DEFINE a == w.aggregate
              entries == log[a]
  <1>1. a \in Aggregate /\ entries \in Seq(LogEntry) /\ InLogOrder(entries)
    BY BlindFacts DEF Transaction
  <1>2. LatestCondition(table[a].latest, w.changes.revision, w.expected)
    BY DEF CanWrite
  <1>3. table[a].latest = IF entries = <<>> THEN NoRevision ELSE entries[Len(entries)].revision
    BY <1>1, BlindFacts DEF LatestIsCommitted
  <1>4. w.changes.revision \in Nat
    BY RevisionFacts DEF Transaction, ChangeSet
  <1>. HIDE DEF entries, a
  <1>5. CASE entries = <<>>
    <2>1. RevisionsOf(entries) = {}
      BY <1>5 DEF RevisionsOf, Contract!RevisionsOf
    <2>. QED
      BY <2>1 DEF entries, a
  <1>6. CASE entries # <<>>
    <2>. DEFINE b == entries[Len(entries)].revision
    <2>1. b \in RevisionsOf(entries) /\ \A r \in RevisionsOf(entries) : r <= b
      BY <1>1, <1>6, LastIsGreatest
    <2>2. b \in Revision /\ \A r \in RevisionsOf(entries) : r \in Revision
      BY <1>1, <2>1, LogRevisions
    <2>3. b \in Nat /\ b > 0 /\ \A r \in RevisionsOf(entries) : r \in Nat
      BY <2>2, RevisionFacts
    <2>4. table[a].latest = b
      BY <1>3, <1>6
    <2>. HIDE DEF b
    <2>5. b < w.changes.revision
      BY <1>2, <2>3, <2>4, RevisionFacts DEF LatestCondition
    <2>6. \A r \in RevisionsOf(entries) : r < w.changes.revision
      BY <1>4, <2>1, <2>3, <2>5
    <2>. QED
      BY <2>6 DEF entries, a
  <1>. QED
    BY <1>5, <1>6

(* A blind change set goes to the end of the log, in both orders. *)
LEMMA WriteBlind ==
  ASSUME BlindInv, NEW w \in Transaction, Write(w),
         w.expected \in {NoRevision, InitialRevision}, w.changes.revision = LastEvent(w.changes)
  PROVE  /\ \A a \in Aggregate : InLogOrder(log'[a]) /\ LogIsStored(log'[a], table'[a].sets)
         /\ \A a \in Aggregate : Grown(a)
  <1>. DEFINE a == w.aggregate
              entry == [revision |-> w.changes.revision, expected |-> w.expected]
              entries == log[a]
              sets == table[a].sets
  <1>1. /\ a \in Aggregate /\ w.changes \in ChangeSet /\ entry \in LogEntry
        /\ entry.revision = w.changes.revision
    BY DEF Transaction, ChangeSet, LogEntry
  <1>2. /\ entries \in Seq(LogEntry) /\ sets \in SUBSET ChangeSet
        /\ InLogOrder(entries) /\ LogIsStored(entries, sets)
    BY <1>1, BlindFacts
  <1>3. \A r \in RevisionsOf(entries) : r < entry.revision
    BY <1>1, BlindIsGreatest DEF Write
  <1>4. log'[a] = Append(entries, entry)
    BY <1>1, BlindFacts DEF Write
  <1>5. table'[a].sets = sets \cup {w.changes}
    <2>1. table'[a].sets = { s \in sets : s.revision # w.changes.revision } \cup {w.changes}
      BY <1>1, BlindFacts DEF Write, PutChangeSet
    <2>2. \A s \in sets : s.revision \in RevisionsOf(entries) /\ s.revision \in Nat
      BY <1>2, RevisionFacts DEF LogIsStored, ChangeSet
    <2>3. \A s \in sets : s.revision # w.changes.revision
      BY <1>1, <1>3, <2>2
    <2>. QED
      BY <2>1, <2>3
  <1>6. \A b \in Aggregate \ {a} : table'[b] = table[b] /\ log'[b] = log[b]
    BY <1>1, BlindFacts DEF Write
  <1>7. InLogOrder(log'[a])
    <2>. HIDE DEF entries, entry, a
    <2>. QED
      BY <1>1, <1>2, <1>3, <1>4, InLogOrderAppend
  <1>8. LogIsStored(log'[a], table'[a].sets)
    <2>. DEFINE longer == Append(entries, entry)
    <2>1. /\ longer \in Seq(LogEntry) /\ Len(longer) = Len(entries) + 1
          /\ longer[Len(entries) + 1] = entry
          /\ Len(entries) \in Nat /\ \A i \in 1 .. Len(entries) : longer[i] = entries[i]
      <3>. HIDE DEF entries, entry
      <3>. QED
        BY <1>1, <1>2, AppendFacts
    <2>. HIDE DEF longer, entries, entry
    <2>2. ASSUME NEW r PROVE r \in RevisionsOf(longer) <=> r \in RevisionsOf(entries) \/ r = entry.revision
      <3>1. r \in RevisionsOf(longer) <=> \E i \in 1 .. Len(entries) + 1 : r = longer[i].revision
        BY <2>1, LogRevisions
      <3>2. r \in RevisionsOf(entries) <=> \E i \in 1 .. Len(entries) : r = entries[i].revision
        BY <1>2, LogRevisions
      <3>. QED
        BY <2>1, <3>1, <3>2
    <2>3. LogIsStored(longer, sets \cup {w.changes})
      <3>1. { s.revision : s \in sets \cup {w.changes} } = RevisionsOf(longer)
        BY <1>1, <1>2, <2>2 DEF LogIsStored
      <3>. QED
        BY <1>2, <3>1 DEF LogIsStored
    <2>. QED
      BY <1>4, <1>5, <2>3 DEF longer
  <1>9. Grown(a)
    <2>1. /\ Bounds(entries) \subseteq Bounds(log'[a])
          /\ \A b \in Bounds(entries) : UpTo(table'[a].sets, b) = UpTo(sets, b)
      <3>. DEFINE changes == w.changes
      <3>1. changes \in ChangeSet /\ changes.revision = entry.revision
        BY <1>1
      <3>. HIDE DEF entries, entry, sets, changes
      <3>2. /\ Bounds(entries) \subseteq Bounds(Append(entries, entry))
            /\ \A b \in Bounds(entries) : UpTo(sets \cup {changes}, b) = UpTo(sets, b)
        BY <1>1, <1>2, <1>3, <3>1, SnapshotKept
      <3>. QED
        BY <1>4, <1>5, <3>2 DEF changes
    <2>. QED
      BY <2>1 DEF Grown
  <1>10. \A b \in Aggregate \ {a} : Grown(b)
    BY <1>6 DEF Grown
  <1>11. \A b \in Aggregate \ {a} : InLogOrder(log'[b]) /\ LogIsStored(log'[b], table'[b].sets)
    BY <1>6, BlindFacts
  <1>. QED
    BY <1>7, <1>8, <1>9, <1>10, <1>11

(* What was read stays what it was when the aggregate grows. *)
LEMMA GrownKeeps ==
  ASSUME NEW a \in Aggregate, Grown(a)
  PROVE  /\ \A some : Snapshot(some, table[a].sets, log[a]) => Snapshot(some, table'[a].sets, log'[a])
         /\ \A local : ReadUpTo(local, table[a].sets, log[a]) => ReadUpTo(local, table'[a].sets, log'[a])
         /\ \A load : LoadedSnapshot(load, table[a].sets, log[a])
                        => LoadedSnapshot(load, table'[a].sets, log'[a])
  <1>1. \A some : Snapshot(some, table[a].sets, log[a]) => Snapshot(some, table'[a].sets, log'[a])
    BY DEF Grown, Snapshot
  <1>2. \A local : ReadUpTo(local, table[a].sets, log[a]) => ReadUpTo(local, table'[a].sets, log'[a])
    BY DEF Grown, ReadUpTo
  <1>. QED
    BY <1>1, <1>2 DEF LoadedSnapshot

(* BlindInv holds initially. *)
LEMMA InitBlind == Init => BlindInv
  <1>. SUFFICES ASSUME Init PROVE BlindInv
    OBVIOUS
  <1>1. RevisionsOf(<<>>) = {}
    BY DEF RevisionsOf, Contract!RevisionsOf
  <1>2. LogsInOrder
    BY <1>1 DEF Init, EmptyPartition, LogsInOrder, InLogOrder, LogIsStored
  <1>3. ReplicasInOrder
    BY <1>1 DEF Init, EmptyPartition, ReplicasInOrder, Snapshot, Bounds, UpTo
  <1>4. BlindCalls /\ LateBlind /\ QueriesInOrder
    BY IdleType DEF Init, BlindCalls, LateBlind, QueriesInOrder, ReadUpTo, LoadedSnapshot, Idle
  <1>. QED
    BY <1>2, <1>3, <1>4, InitStore DEF BlindInv

(* Nobody lists or deletes, and transactions are blind. *)
LEMMA BlindSteps ==
  ASSUME Blind, BlindInv, NEW c \in Client
  PROVE  /\ ~DeletePage(c)
         /\ At(c, "write") => /\ TransactionOf(c) \in Transaction
                              /\ TransactionOf(c).expected \in {NoRevision, InitialRevision}
                              /\ TransactionOf(c).changes.revision = LastEvent(TransactionOf(c).changes)
  <1>1. ~DeletePage(c)
    BY BlindFacts DEF Blind, DeletePage, TypeInv, CallInv, At
  <1>2. TransactionOf(c).changes.revision = LastEvent(TransactionOf(c).changes)
    BY DEF TransactionOf, Changes, LastEvent
  <1>3. TransactionOf(c).expected \in {NoRevision, InitialRevision}
    BY DEF TransactionOf, BlindInv, BlindCalls
  <1>. QED
    BY <1>1, <1>2, <1>3, BlindFacts, TransactionType

(* The table and the log grow together, at their ends. *)
LEMMA BlindGrows ==
  ASSUME Blind, BlindInv, [Next]_vars
  PROVE  LogsInOrder' /\ \A a \in Aggregate : Grown(a)
  <1>1. ASSUME NEW w \in Transaction, Write(w), w.expected \in {NoRevision, InitialRevision},
               w.changes.revision = LastEvent(w.changes)
        PROVE  LogsInOrder' /\ \A a \in Aggregate : Grown(a)
    <2>1. /\ \A a \in Aggregate : InLogOrder(log'[a]) /\ LogIsStored(log'[a], table'[a].sets)
          /\ \A a \in Aggregate : Grown(a)
      BY <1>1, WriteBlind
    <2>. QED
      BY <2>1 DEF LogsInOrder
  <1>2. CASE UNCHANGED <<table, log>>
    BY <1>2 DEF BlindInv, LogsInOrder, Grown
  <1>3. ASSUME NEW c \in Client, ClientStep(c)
        PROVE  LogsInOrder' /\ \A a \in Aggregate : Grown(a)
    <2>1. CASE Commit(c)
      BY <1>1, <2>1, BlindSteps DEF Commit
    <2>. QED
      BY <1>2, <1>3, <2>1, BlindSteps, BlindFacts, ClientLeaves
  <1>4. ASSUME NEW w \in inflight, LateCommit(w)
        PROVE  LogsInOrder' /\ \A a \in Aggregate : Grown(a)
    BY <1>1, <1>4, BlindFacts DEF LateCommit, BlindInv, LateBlind
  <1>. QED
    BY <1>2, <1>3, <1>4
       DEF Next, ClientStep, Restart, Replicate, ClockTicks, vars, remoteVars

(* Replicas are snapshots: they copy the table and then stay behind. *)
LEMMA BlindReplicas ==
  ASSUME Blind, BlindInv, [Next]_vars PROVE ReplicasInOrder'
  <1>1. SUFFICES ASSUME NEW a \in Aggregate
                 PROVE  Snapshot(replica'[a].sets, table'[a].sets, log'[a])
    BY DEF ReplicasInOrder
  <1>2. Grown(a)
    BY BlindGrows
  <1>3. replica'[a] = replica[a] \/ replica'[a] = table[a]
    <2>1. ASSUME NEW c \in Client, ClientStep(c) PROVE replica' = replica
      BY <2>1, BlindFacts, ClientLeaves
    <2>2. ASSUME NEW b \in Aggregate, Replicate(b) PROVE replica'[a] \in {replica[a], table[a]}
      BY <2>2, BlindFacts DEF Replicate
    <2>3. CASE UNCHANGED replica
      BY <2>3
    <2>. QED
      BY <2>1, <2>2, <2>3
         DEF Next, ClientStep, LateCommit, Write, Restart, ClockTicks, vars, remoteVars
  <1>4. Snapshot(table[a].sets, table[a].sets, log[a])
    BY BlindFacts, WholeIsSnapshot
  <1>5. Snapshot(replica[a].sets, table[a].sets, log[a])
    BY DEF BlindInv, ReplicasInOrder
  <1>. QED
    BY <1>2, <1>3, <1>4, <1>5, GrownKeeps

(* A page of a query takes a client from one snapshot to a later one. *)
LEMMA QueryPageBlind ==
  ASSUME BlindInv, NEW c \in Client, QueryPage(c)
  PROVE  LET a == AggregateOf[c] IN
         /\ ReadUpTo(call'[c], table[a].sets, log[a])
         /\ LoadedSnapshot(loaded'[c], table[a].sets, log[a])
  <1>. DEFINE a == AggregateOf[c]
              sets == table[a].sets
              entries == log[a]
  <1>1. /\ a \in Aggregate /\ call[c] \in Call /\ sets \in SUBSET ChangeSet
        /\ entries \in Seq(LogEntry) /\ call \in [Client -> Call]
    BY BlindFacts, CallFacts
  <1>2. PICK version \in Versions(a) :
          LET rest == { s \in version.sets : s.revision > call[c].cursor } IN
          \/ ReturnLoaded(c, call[c].view \cup rest)
          \/ /\ \E end \in rest :
                  call' = [call EXCEPT ![c].cursor = end.revision,
                                       ![c].view = @ \cup { s \in rest : s.revision <= end.revision }]
             /\ UNCHANGED loaded
    BY DEF QueryPage
  <1>3. PICK b \in Bounds(entries) : version.sets = UpTo(sets, b)
    <2>1. Snapshot(sets, sets, entries)
      BY <1>1, BlindFacts, WholeIsSnapshot
    <2>2. Snapshot(replica[a].sets, sets, entries)
      BY <1>1 DEF BlindInv, ReplicasInOrder
    <2>. QED
      BY <1>1, <2>1, <2>2 DEF Versions, Snapshot
  <1>. DEFINE cursor == call[c].cursor
              rest == { s \in version.sets : s.revision > cursor }
  <1>4. cursor \in Bounds(entries) /\ call[c].view = UpTo(sets, cursor)
    BY <1>1 DEF BlindInv, QueriesInOrder, ReadUpTo, QueryPage, At
  <1>5. cursor \in Nat /\ b \in Nat
    <2>. HIDE DEF entries, cursor
    <2>. QED
      BY <1>1, <1>4, LogRevisions
  <1>6. rest = { s \in UpTo(sets, b) : s.revision > cursor }
    BY <1>3
  <1>7. /\ call[c].view \cup rest = UpTo(sets, IF cursor < b THEN b ELSE cursor)
        /\ \A end \in rest :
             call[c].view \cup { s \in rest : s.revision <= end.revision } = UpTo(sets, end.revision)
    <2>. HIDE DEF cursor, sets, rest
    <2>1. LET page == { s \in UpTo(sets, b) : s.revision > cursor } IN
          /\ UpTo(sets, cursor) \cup page = UpTo(sets, IF cursor < b THEN b ELSE cursor)
          /\ \A end \in page :
               UpTo(sets, cursor) \cup { s \in page : s.revision <= end.revision }
                 = UpTo(sets, end.revision)
      BY <1>1, <1>5, PageIsSnapshot
    <2>. QED
      BY <1>4, <1>6, <2>1
  <1>8. CASE ReturnLoaded(c, call[c].view \cup rest)
    <2>. DEFINE got == call[c].view \cup rest
    <2>1. PICK revision \in RevisionsFrom(got) :
            loaded' = [loaded EXCEPT ![c] = [revision |-> revision, sets |-> got]]
      BY <1>8 DEF ReturnLoaded
    <2>2. Snapshot(got, sets, entries)
      BY <1>3, <1>4, <1>7 DEF Snapshot
    <2>3. call'[c] = Idle
      BY <1>1, <1>8 DEF ReturnLoaded, Return
    <2>. HIDE DEF got, sets, entries
    <2>4. loaded'[c] = [revision |-> revision, sets |-> got]
      BY <2>1, BlindFacts
    <2>5. LoadedSnapshot(loaded'[c], sets, entries)
      BY <2>2, <2>4 DEF LoadedSnapshot
    <2>6. ReadUpTo(call'[c], sets, entries)
      BY <2>3, IdleType DEF ReadUpTo
    <2>. QED
      BY <2>5, <2>6 DEF sets, entries
  <1>9. ASSUME NEW end \in rest,
               call' = [call EXCEPT ![c].cursor = end.revision,
                                    ![c].view = @ \cup { s \in rest : s.revision <= end.revision }],
               UNCHANGED loaded
        PROVE  /\ ReadUpTo(call'[c], sets, entries)
               /\ LoadedSnapshot(loaded'[c], sets, entries)
    <2>. DEFINE got == call[c].view \cup { s \in rest : s.revision <= end.revision }
    <2>1. call' = [call EXCEPT ![c] = [call[c] EXCEPT !.cursor = end.revision, !.view = got]]
      BY <1>1, <1>9
    <2>2. got = UpTo(sets, end.revision)
      BY <1>7
    <2>3. end.revision \in Bounds(entries)
      <3>1. end \in sets
        BY <1>3 DEF UpTo
      <3>. QED
        BY <1>1, <3>1, BlindFacts DEF LogIsStored, Bounds
    <2>. HIDE DEF got, rest, entries, sets
    <2>4. call'[c].cursor = end.revision /\ call'[c].view = got
      BY <1>1, <2>1 DEF Call
    <2>5. ReadUpTo(call'[c], sets, entries)
      BY <2>2, <2>3, <2>4 DEF ReadUpTo
    <2>6. LoadedSnapshot(loaded[c], sets, entries)
      BY <1>1 DEF BlindInv, QueriesInOrder, sets, entries
    <2>. QED
      BY <1>9, <2>5, <2>6
  <1>. QED
    BY <1>2, <1>8, <1>9

(* The other moves of a call neither read nor publish anything new. *)
LEMMA MovesBlind ==
  ASSUME Blind, BlindInv, NEW c \in Client, ClientStep(c), ~QueryPage(c)
  PROVE  LET a == AggregateOf[c] IN
         /\ ReadUpTo(call'[c], table[a].sets, log[a])
         /\ LoadedSnapshot(loaded'[c], table[a].sets, log[a])
  <1>. DEFINE sets == table[AggregateOf[c]].sets
              entries == log[AggregateOf[c]]
  <1>1. /\ TypeInv /\ Moves(c) /\ loaded' = loaded /\ call[c] \in Call
        /\ ReadUpTo(call[c], sets, entries) /\ LoadedSnapshot(loaded[c], sets, entries)
    BY BlindFacts, ClientMoves, ClientLeaves, CallFacts DEF BlindInv, QueriesInOrder
  <1>2. At(c, "query") => Ends(c)
    <2>1. At(c, "query") => RequestFails(c)
      BY DEF ClientStep, Start, StartPublish, PublishNothing, StartLoad, StartRemove, Begin, Step,
             Retry, RecordEvent, GeneratorPanics, Commit, ConditionFails, ListPage, DeletePage,
             GiveUp, At
    <2>. QED
      BY <1>1, <2>1, CallFacts DEF RequestFails, Return, Ends
  <1>3. ReadsOn(c) => Ends(c)
    BY <1>2 DEF ReadsOn
  <1>4. CASE UNCHANGED call
    BY <1>1, <1>4
  <1>5. CASE call'[c].step # "query"
    BY <1>1, <1>5 DEF ReadUpTo
  <1>6. CASE Asks(c)
    <2>1. PICK step : call'[c] = [Idle EXCEPT !.step = step]
      BY <1>6 DEF Asks
    <2>2. call'[c].cursor = 0 /\ call'[c].view = {}
      BY <2>1, RevisionFacts DEF Idle
    <2>3. UpTo(sets, 0) = {}
      <3>1. \A s \in sets : s.revision \in Nat /\ s.revision > 0
        BY <1>1, BlindFacts, CallFacts, RevisionFacts DEF ChangeSet
      <3>. QED
        BY <3>1 DEF UpTo
    <2>4. 0 \in Bounds(entries)
      BY RevisionFacts DEF Bounds
    <2>. QED
      BY <1>1, <2>2, <2>3, <2>4 DEF ReadUpTo
  <1>7. CASE Ends(c) \/ Tries(c) \/ Draws(c) \/ Waits(c) \/ Lists(c) \/ ListsOn(c)
    <2>1. call'[c].step # "query"
      BY <1>1, <1>7, IdleType, ListsFacts DEF Ends, Tries, Draws, Waits, ListsOn, Call
    <2>. QED
      BY <1>5, <2>1
  <1>. QED
    BY <1>1, <1>3, <1>4, <1>6, <1>7 DEF Moves

(* Queries under way and loads are snapshots. *)
LEMMA BlindQueries ==
  ASSUME Blind, BlindInv, [Next]_vars PROVE QueriesInOrder'
  <1>. DEFINE Good(local, load, a) ==
         ReadUpTo(local, table[a].sets, log[a]) /\ LoadedSnapshot(load, table[a].sets, log[a])
  <1>1. SUFFICES ASSUME \A c \in Client : Good(call'[c], loaded'[c], AggregateOf[c])
                 PROVE  QueriesInOrder'
    <2>1. SUFFICES ASSUME NEW c \in Client
                   PROVE  Good(call'[c], loaded'[c], AggregateOf[c])
      OBVIOUS
    <2>2. Good(call[c], loaded[c], AggregateOf[c])
      BY DEF BlindInv, QueriesInOrder
    <2>3. ASSUME NEW d \in Client, ClientStep(d) PROVE Good(call'[c], loaded'[c], AggregateOf[c])
      <3>1. CASE c = d
        BY <2>3, <3>1, QueryPageBlind, MovesBlind
      <3>2. CASE c # d
        <4>1. call'[c] = call[c] /\ loaded'[c] = loaded[c]
          BY <2>3, <3>2, BlindFacts, ClientMoves, ClientLeaves DEF OthersKept
        <4>. QED
          BY <2>2, <4>1
      <3>. QED
        BY <3>1, <3>2
    <2>4. ASSUME NEW p \in Restarting, Restart(p)
          PROVE  Good(call'[c], loaded'[c], AggregateOf[c])
      <3>1. \/ call'[c] = Idle /\ loaded'[c] = NotLoaded
            \/ call'[c] = call[c] /\ loaded'[c] = loaded[c]
        BY <2>4 DEF Restart
      <3>. QED
        BY <2>2, <3>1, IdleType DEF ReadUpTo, LoadedSnapshot
    <2>5. CASE UNCHANGED <<call, loaded>>
      BY <2>2, <2>5
    <2>. QED
      BY <2>3, <2>4, <2>5
         DEF Next, ClientStep, LateCommit, Replicate, ClockTicks, vars, clientVars
  <1>2. ASSUME NEW c \in Client
        PROVE  LET a == AggregateOf[c] IN
               /\ ReadUpTo(call'[c], table'[a].sets, log'[a])
               /\ LoadedSnapshot(loaded'[c], table'[a].sets, log'[a])
    <2>. DEFINE a == AggregateOf[c]
    <2>1. a \in Aggregate /\ Grown(a)
      BY BlindFacts, CallFacts, BlindGrows
    <2>. QED
      BY <1>1, <2>1, GrownKeeps
  <1>. QED
    BY <1>2 DEF QueriesInOrder

(* Calls stay blind, and so do the transactions nobody waits for. *)
LEMMA BlindStays ==
  ASSUME Blind, BlindInv, [Next]_vars PROVE BlindCalls' /\ LateBlind'
  <1>0. TypeInv
    BY BlindFacts
  <1>1. ASSUME NEW c \in Client, ClientStep(c) PROVE BlindCalls' /\ LateBlind'
    <2>1. call'[c].expected \in {NoRevision, InitialRevision}
      <3>1. Moves(c) /\ call[c] \in Call /\ call[c].expected \in {NoRevision, InitialRevision}
        BY <1>0, <1>1, ClientMoves, CallFacts DEF BlindInv, BlindCalls
      <3>2. CASE Tries(c)
        BY <3>1, <3>2 DEF Tries, Blind, Policies, ExpectedBy
      <3>3. CASE Ends(c) \/ Asks(c)
        BY <3>3 DEF Ends, Asks, Idle
      <3>4. CASE UNCHANGED call \/ Draws(c) \/ Waits(c) \/ ListsOn(c)
        BY <3>1, <3>4 DEF Draws, Waits, ListsOn, Call
      <3>5. CASE ReadsOn(c)
        BY <3>1, <3>5 DEF ReadsOn, Call
      <3>6. CASE Lists(c)
        BY <1>0, <3>1, <3>6, ListsFacts
      <3>. QED
        BY <3>1, <3>2, <3>3, <3>4, <3>5, <3>6 DEF Moves
    <2>2. BlindCalls'
      BY <1>0, <1>1, <2>1, ClientMoves DEF OthersKept, BlindInv, BlindCalls
    <2>3. LateBlind'
      BY <1>0, <1>1, BlindSteps, ClientLeaves DEF GiveUp, BlindInv, LateBlind
    <2>. QED
      BY <2>2, <2>3
  <1>2. ASSUME NEW w \in inflight, LateCommit(w) PROVE BlindCalls' /\ LateBlind'
    BY <1>2 DEF LateCommit, clientVars, BlindInv, BlindCalls, LateBlind
  <1>3. ASSUME NEW p \in Restarting, Restart(p) PROVE BlindCalls' /\ LateBlind'
    BY <1>3 DEF Restart, Idle, remoteVars, BlindInv, BlindCalls, LateBlind
  <1>4. CASE UNCHANGED <<call, inflight>>
    BY <1>4 DEF BlindInv, BlindCalls, LateBlind
  <1>. QED
    BY <1>1, <1>2, <1>3, <1>4
       DEF Next, ClientStep, Replicate, ClockTicks, vars, remoteVars, clientVars

(* BlindInv is inductive. *)
LEMMA NextBlind ==
  ASSUME Blind PROVE BlindInv /\ [Next]_vars => BlindInv'
  BY NextStore, BlindGrows, BlindReplicas, BlindQueries, BlindStays DEF BlindInv

(* BlindInv says that a load is a beginning of the log. *)
LEMMA BlindLoads == BlindInv => LoadsArePrefixes
  <1>. SUFFICES ASSUME BlindInv, NEW c \in Client, loaded[c] # NotLoaded
                PROVE  LET entries == log[AggregateOf[c]] IN
                       \E k \in 0 .. Len(entries) :
                         /\ { s.revision : s \in loaded[c].sets } = Prefix(entries, k)
                         /\ loaded[c].revision = IF k = 0 THEN InitialRevision ELSE entries[k].revision
    BY DEF LoadsArePrefixes
  <1>. DEFINE a == AggregateOf[c]
              entries == log[a]
              sets == table[a].sets
              got == loaded[c].sets
              revision == loaded[c].revision
  <1>1. /\ a \in Aggregate /\ entries \in Seq(LogEntry) /\ sets \in SUBSET ChangeSet
        /\ InLogOrder(entries) /\ LogIsStored(entries, sets)
    BY BlindFacts, CallFacts
  <1>2. revision \in RevisionsFrom(got) /\ Snapshot(got, sets, entries)
    BY DEF BlindInv, QueriesInOrder, LoadedSnapshot
  <1>. HIDE DEF a, entries, sets, got, revision
  <1>3. PICK b \in Bounds(entries) : got = UpTo(sets, b)
    BY <1>2 DEF Snapshot
  <1>4. /\ \A s \in sets : s.revision \in Nat /\ s.revision > 0
        /\ \A i \in 1 .. Len(entries) : entries[i].revision \in Nat /\ entries[i].revision > 0
        /\ Len(entries) \in Nat
    BY <1>1, RevisionFacts, LogRevisions DEF ChangeSet
  <1>5. CASE b = InitialRevision
    <2>1. got = {}
      BY <1>3, <1>4, <1>5, RevisionFacts DEF UpTo
    <2>2. revision = InitialRevision
      BY <1>2, <2>1 DEF RevisionsFrom
    <2>3. { s.revision : s \in got } = Prefix(entries, 0) /\ 0 \in 0 .. Len(entries)
      BY <1>4, <2>1 DEF Prefix
    <2>. QED
      BY <2>2, <2>3 DEF got, entries, a, revision
  <1>6. CASE b \in RevisionsOf(entries)
    <2>1. PICK k \in 1 .. Len(entries) : b = entries[k].revision
      BY <1>1, <1>6, LogRevisions
    <2>2. ASSUME NEW r PROVE r \in { s.revision : s \in got } <=> r \in Prefix(entries, k)
      <3>1. r \in { s.revision : s \in got } <=> r \in RevisionsOf(entries) /\ r <= b
        BY <1>1, <1>3 DEF UpTo, LogIsStored
      <3>2. r \in RevisionsOf(entries) /\ r <= b <=>
              \E i \in 1 .. Len(entries) : r = entries[i].revision /\ entries[i].revision <= b
        BY <1>1, LogRevisions
      <3>3. \A i \in 1 .. Len(entries) : entries[i].revision <= b <=> i <= k
        <4>. SUFFICES ASSUME NEW i \in 1 .. Len(entries) PROVE entries[i].revision <= b <=> i <= k
          OBVIOUS
        <4>1. i < k => entries[i].revision < entries[k].revision
          BY <1>1 DEF InLogOrder
        <4>2. k < i => entries[k].revision < entries[i].revision
          BY <1>1 DEF InLogOrder
        <4>. QED
          BY <1>4, <2>1, <4>1, <4>2
      <3>4. r \in Prefix(entries, k) <=> \E i \in 1 .. Len(entries) : r = entries[i].revision /\ i <= k
        BY <1>4 DEF Prefix
      <3>. QED
        BY <3>1, <3>2, <3>3, <3>4
    <2>3. revision = b
      <3>1. \E s \in got : s.revision = b
        <4>1. \E s \in sets : s.revision = b
          BY <1>1, <1>6 DEF LogIsStored
        <4>. QED
          BY <1>3, <1>4, <4>1 DEF UpTo
      <3>2. \A s \in got : s \in sets /\ s.revision <= b
        BY <1>3 DEF UpTo
      <3>3. PICK s \in got : revision = LastEvent(s) /\ \A t \in got : t.revision <= s.revision
        BY <1>2, <3>1 DEF RevisionsFrom
      <3>4. s.revision = b
        BY <1>4, <3>1, <3>2, <3>3
      <3>. QED
        BY <1>1, <3>2, <3>3, <3>4 DEF LogIsStored
    <2>4. { s.revision : s \in got } = Prefix(entries, k) /\ k \in 0 .. Len(entries) /\ k # 0
      <3>1. { s.revision : s \in got } = Prefix(entries, k)
        BY <2>2
      <3>. QED
        BY <1>4, <3>1
    <2>. QED
      BY <2>1, <2>3, <2>4 DEF got, entries, a, revision
  <1>. QED
    BY <1>3, <1>5, <1>6 DEF Bounds

(* And that the greatest sort key is the latest revision. *)
LEMMA BlindLatest == BlindInv => LoadedRevisionIsLatest
  <1>. SUFFICES ASSUME BlindInv, NEW a \in Aggregate
                PROVE  IF table[a].sets = {}
                       THEN table[a].latest = NoRevision
                       ELSE \E s \in table[a].sets :
                              /\ s.revision = table[a].latest
                              /\ \A t \in table[a].sets : t.revision <= s.revision
    BY DEF LoadedRevisionIsLatest
  <1>. DEFINE entries == log[a]
              sets == table[a].sets
  <1>1. /\ entries \in Seq(LogEntry) /\ InLogOrder(entries) /\ LogIsStored(entries, sets)
        /\ table[a].latest = IF entries = <<>> THEN NoRevision ELSE entries[Len(entries)].revision
    BY BlindFacts DEF LatestIsCommitted
  <1>. HIDE DEF entries, sets
  <1>2. CASE entries = <<>>
    <2>1. sets = {}
      BY <1>1, <1>2 DEF LogIsStored, RevisionsOf, Contract!RevisionsOf
    <2>. QED
      BY <1>1, <1>2, <2>1 DEF sets
  <1>3. CASE entries # <<>>
    <2>1. /\ table[a].latest \in RevisionsOf(entries)
          /\ \A r \in RevisionsOf(entries) : r <= table[a].latest
      BY <1>1, <1>3, LastIsGreatest
    <2>2. PICK s \in sets : s.revision = table[a].latest
      BY <1>1, <2>1 DEF LogIsStored
    <2>3. \A t \in sets : t.revision <= s.revision
      BY <1>1, <2>1, <2>2 DEF LogIsStored
    <2>. QED
      BY <2>2, <2>3 DEF sets
  <1>. QED
    BY <1>2, <1>3

(* When every publisher is blind or creates, and nobody removes, a load     *)
(* returns a beginning of the log, with the revision of its last change     *)
(* set; whatever the clocks, pages, stale replicas and late transactions do.*)
THEOREM LoadsAreLogPrefixes ==
  ASSUME Blind PROVE Spec => []LoadsArePrefixes
  <1>1. BlindInv /\ [Next]_vars => BlindInv'
    BY NextBlind
  <1>. QED
    BY <1>1, InitBlind, BlindLoads, PTL DEF Spec

(* Then the revision of a load of all change sets is the one that Publish   *)
(* compares an ExpectedRevision with.                                       *)
THEOREM GreatestRevisionIsLatest ==
  ASSUME Blind PROVE Spec => []LoadedRevisionIsLatest
  <1>1. BlindInv /\ [Next]_vars => BlindInv'
    BY NextBlind
  <1>. QED
    BY <1>1, InitBlind, BlindLatest, PTL DEF Spec
=============================================================================
