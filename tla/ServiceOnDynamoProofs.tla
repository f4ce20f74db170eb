------------------------ MODULE ServiceOnDynamoProofs ------------------------
(***************************************************************************)
(* Theorems about the service on the DynamoDB store.  What was proved of   *)
(* the store holds of it in the service, since every step of the two is a  *)
(* step of the store or none; the two together implement the service on a  *)
(* log; commands take effect in order whatever the clocks do; and replies  *)
(* are current if no read is stale.                                        *)
(***************************************************************************)
EXTENDS ServiceOnDynamo, DynamoOrderProofs, InductionLemmas, FiniteSetTheorems

USE TimeAssumption, StoreAssumption

-----------------------------------------------------------------------------
(***************************************************************************)
(* The store in the service.                                               *)
(***************************************************************************)
(* A step of the service is a step of the store, or none. *)
LEMMA StoreSteps == [NextSystem]_allVars => [Next]_vars
  <1>1. ASSUME NEW c \in Client, Get(c) \/ Post(c) PROVE UNCHANGED vars
    BY <1>1 DEF Get, Post
  <1>2. ASSUME NEW c \in Client, CallLoad(c) \/ CallPublish(c) \/ CallPublishNothing(c) PROVE Start(c)
    BY <1>2 DEF CallLoad, CallPublish, CallPublishNothing, Start
  <1>3. ASSUME NEW c \in Client, StoreStep(c) \/ StoreFails(c) PROVE Step(c) \/ RequestFails(c)
    BY <1>3 DEF StoreStep, StoreFails
  <1>4. ASSUME NEW p \in Restarting, ProcessRestarts(p) PROVE Restart(p)
    BY <1>4 DEF ProcessRestarts
  <1>5. ASSUME EnvironmentStep PROVE (\E a \in Aggregate : Replicate(a)) \/ ClockTicks
    BY <1>5 DEF EnvironmentStep
  <1>6. CASE UNCHANGED allVars
    BY <1>6 DEF allVars
  <1>. QED
    BY <1>1, <1>2, <1>3, <1>4, <1>5, <1>6 DEF NextSystem, Next

(* So the service uses the store as its specification allows, whatever its *)
(* handlers do: what the store guarantees all its users it guarantees the   *)
(* service, whole change sets, true answers and types for a start.          *)
THEOREM SystemIsStore == System => Spec
  <1>1. InitSystem => Init
    BY DEF InitSystem
  <1>. QED
    BY <1>1, StoreSteps, PTL DEF System, Spec

(* Loads of the service return beginnings of the log, as those of the store *)
(* alone do, when no handler publishes under a revision the service loaded: *)
(* the reply is rendered from what was recorded up to some moment.          *)
THEOREM ServiceLoadsPrefixes ==
  ASSUME Blind PROVE System => []LoadsArePrefixes
  BY SystemIsStore, LoadsAreLogPrefixes, PTL

(* Then the revision the service has loaded, if nothing was recorded since, *)
(* is the one DynamoDB compares an ExpectedRevision with.                   *)
THEOREM ServiceLoadsLatest ==
  ASSUME Blind PROVE System => []LoadedRevisionIsLatest
  BY SystemIsStore, GreatestRevisionIsLatest, PTL

(* A handler that publishes under the revision of its entity is refused if  *)
(* the entity has changed since it was loaded, for entities of one page.    *)
THEOREM ServiceLosesNoUpdate ==
  ASSUME ~Paged, ~Removable PROVE System => []NoLostUpdate
  BY SystemIsStore, NoUpdateIsLost, PTL

-----------------------------------------------------------------------------
(***************************************************************************)
(* Sort keys.                                                              *)
(***************************************************************************)
(* A set of keys has one increasing enumeration, and SortedKeys finds it. *)
LEMMA SortedKeysAre ==
  ASSUME NEW n \in Nat, NEW g \in [1 .. n -> Nat],
         \A i, j \in 1 .. n : i < j => g[i] < g[j]
  PROVE  SortedKeys({ g[i] : i \in 1 .. n }) = g
  <1>. DEFINE K == { g[i] : i \in 1 .. n }
              Increases(s) == \A i, j \in DOMAIN s : i < j => s[i] < s[j]
              sorted == CHOOSE s \in [1 .. n -> K] : Increases(s)
  <1>1. IsFiniteSet(1 .. n) /\ Cardinality(1 .. n) = n
    BY FS_Interval
  <1>2. g \in [1 .. n -> K] /\ K \subseteq Nat
    OBVIOUS
  <1>3. g \in Surjection(1 .. n, K)
    BY <1>2 DEF Surjection
  <1>4. g \in Injection(1 .. n, K)
    <2>1. \A i, j \in 1 .. n : g[i] = g[j] => i = j
      <3>. SUFFICES ASSUME NEW i \in 1 .. n, NEW j \in 1 .. n, i # j PROVE g[i] # g[j]
        OBVIOUS
      <3>1. i < j \/ j < i
        OBVIOUS
      <3>2. g[i] \in Nat /\ g[j] \in Nat
        OBVIOUS
      <3>3. i < j => g[i] < g[j]
        OBVIOUS
      <3>4. j < i => g[j] < g[i]
        OBVIOUS
      <3>. QED
        BY <3>1, <3>2, <3>3, <3>4
    <2>. QED
      BY <1>2, <2>1 DEF Injection, IsInjective
  <1>5. IsFiniteSet(K) /\ Cardinality(K) = n
    <2>. HIDE DEF K
    <2>. QED
      BY <1>1, <1>3, <1>4, FS_Surjection
  <1>6. SortedKeys(K) = sorted
    <2>. HIDE DEF K
    <2>. QED
      BY <1>5 DEF SortedKeys
  <1>7. Increases(g)
    OBVIOUS
  <1>8. sorted \in [1 .. n -> K] /\ Increases(sorted)
    <2>. HIDE DEF K, Increases
    <2>. QED
      BY <1>2, <1>7
  <1>. HIDE DEF sorted, K
  <1>9. ASSUME NEW s \in [1 .. n -> K], NEW t \in [1 .. n -> K], Increases(s), Increases(t),
               NEW i \in 1 .. n, \A m \in 1 .. n : m < i => s[m] = t[m]
        PROVE  t[i] <= s[i]
    <2>1. \A k, l \in 1 .. n : t[k] = t[l] => k = l
      <3>. SUFFICES ASSUME NEW k \in 1 .. n, NEW l \in 1 .. n, k < l PROVE t[k] # t[l]
        <4>1. \A k, l \in 1 .. n : k = l \/ k < l \/ l < k
          OBVIOUS
        <4>. QED
          BY <4>1
      <3>1. t[k] < t[l] /\ t[k] \in Nat /\ t[l] \in Nat
        BY <1>2, <1>9
      <3>. QED
        BY <3>1
    <2>2. t \in Injection(1 .. n, K)
      BY <2>1 DEF Injection, IsInjective
    <2>3. t \in Surjection(1 .. n, K)
      BY <1>1, <1>5, <2>2, FS_Injection
    <2>4. PICK m \in 1 .. n : t[m] = s[i]
      BY <2>3 DEF Surjection
    <2>5. ~(m < i)
      <3>. SUFFICES ASSUME m < i PROVE FALSE
        OBVIOUS
      <3>1. s[m] = s[i] /\ s[m] < s[i] /\ s[i] \in Nat
        BY <1>2, <1>9, <2>4
      <3>. QED
        BY <3>1
    <2>6. CASE m = i
      <3>1. t[i] = s[i] /\ t[i] \in Nat
        BY <1>2, <1>9, <2>4, <2>6
      <3>. QED
        BY <3>1
    <2>7. CASE i < m
      <3>1. t[i] < t[m] /\ t[i] \in Nat /\ t[m] \in Nat
        BY <1>2, <1>9, <2>7
      <3>. QED
        BY <2>4, <3>1
    <2>. QED
      BY <2>5, <2>6, <2>7
  <1>10. ASSUME NEW i \in 1 .. n, sorted[i] # g[i] PROVE FALSE
    <2>. DEFINE T == { j \in 1 .. n : sorted[j] # g[j] }
    <2>1. PICK j \in T : \A m \in T : j <= m
      <3>1. T \subseteq Nat /\ T # {}
        BY <1>10
      <3>. HIDE DEF T
      <3>. QED
        BY <3>1, LeastElement
    <2>2. j \in 1 .. n /\ \A m \in 1 .. n : m < j => sorted[m] = g[m]
      BY <2>1
    <2>3. g[j] <= sorted[j] /\ sorted[j] <= g[j]
      BY <1>2, <1>7, <1>8, <1>9, <2>2
    <2>4. g[j] \in Nat /\ sorted[j] \in Nat
      BY <1>2, <1>8, <2>2
    <2>. QED
      BY <2>1, <2>3, <2>4
  <1>11. sorted = g
    BY <1>2, <1>8, <1>10
  <1>. QED
    BY <1>6, <1>11 DEF K

-----------------------------------------------------------------------------
(***************************************************************************)
(* Positions.  ServiceOnLog numbers the revisions of an aggregate.         *)
(***************************************************************************)
(* Position, of any log. *)
PositionIn(entries, revision) ==
  LET shown == { k \in DOMAIN entries : entries[k].revision = revision }
  IN  IF shown = {} THEN 0 ELSE CHOOSE k \in shown : TRUE

(* The revision of the k-th change set has position k. *)
LEMMA PositionOf ==
  ASSUME NEW entries \in Seq(LogEntry), InLogOrder(entries)
  PROVE  /\ \A k \in 1 .. Len(entries) : PositionIn(entries, entries[k].revision) = k
         /\ PositionIn(entries, InitialRevision) = 0
  <1>1. /\ Len(entries) \in Nat /\ DOMAIN entries = 1 .. Len(entries)
        /\ \A i \in 1 .. Len(entries) : entries[i].revision \in Nat /\ entries[i].revision > 0
    BY LogRevisions, RevisionFacts
  <1>2. ASSUME NEW k \in 1 .. Len(entries) PROVE PositionIn(entries, entries[k].revision) = k
    <2>1. \A i \in 1 .. Len(entries) : entries[i].revision = entries[k].revision => i = k
      <3>. SUFFICES ASSUME NEW i \in 1 .. Len(entries), i # k
                    PROVE  entries[i].revision # entries[k].revision
        OBVIOUS
      <3>1. i < k \/ k < i
        BY <1>1
      <3>2. i < k => entries[i].revision < entries[k].revision
        BY DEF InLogOrder
      <3>3. k < i => entries[k].revision < entries[i].revision
        BY DEF InLogOrder
      <3>. QED
        BY <1>1, <3>1, <3>2, <3>3
    <2>2. { i \in DOMAIN entries : entries[i].revision = entries[k].revision } = {k}
      BY <1>1, <2>1
    <2>. QED
      BY <2>2 DEF PositionIn
  <1>3. PositionIn(entries, InitialRevision) = 0
    <2>1. { i \in DOMAIN entries : entries[i].revision = InitialRevision } = {}
      BY <1>1, RevisionFacts
    <2>. QED
      BY <2>1 DEF PositionIn
  <1>. QED
    BY <1>2, <1>3

(* Only the initial revision has position 0. *)
LEMMA PositionFacts ==
  ASSUME NEW entries \in Seq(LogEntry), InLogOrder(entries), NEW b \in Bounds(entries)
  PROVE  /\ PositionIn(entries, b) \in 0 .. Len(entries)
         /\ PositionIn(entries, b) = 0 <=> b = InitialRevision
  <1>1. Len(entries) \in Nat
    BY LogRevisions
  <1>2. CASE b = InitialRevision
    BY <1>1, <1>2, PositionOf
  <1>3. CASE b \in RevisionsOf(entries)
    <2>1. PICK k \in 1 .. Len(entries) : b = entries[k].revision
      BY <1>3, LogRevisions
    <2>2. b # InitialRevision
      BY <2>1, LogRevisions, RevisionFacts
    <2>3. PositionIn(entries, b) = k
      BY <2>1, PositionOf
    <2>. QED
      BY <1>1, <2>2, <2>3
  <1>. QED
    BY <1>2, <1>3 DEF Bounds

(* Revisions keep their positions in a longer log. *)
LEMMA PositionsKept ==
  ASSUME NEW entries \in Seq(LogEntry), NEW longer \in Seq(LogEntry),
         InLogOrder(entries), InLogOrder(longer), Len(entries) <= Len(longer),
         \A i \in 1 .. Len(entries) : longer[i] = entries[i], NEW b \in Bounds(entries)
  PROVE  b \in Bounds(longer) /\ PositionIn(longer, b) = PositionIn(entries, b)
  <1>1. CASE b = InitialRevision
    BY <1>1, PositionOf DEF Bounds
  <1>2. CASE b \in RevisionsOf(entries)
    <2>1. PICK k \in 1 .. Len(entries) : b = entries[k].revision
      BY <1>2, LogRevisions
    <2>2. k \in 1 .. Len(longer) /\ b = longer[k].revision
      BY <2>1, LogRevisions
    <2>3. b \in RevisionsOf(longer)
      BY <2>2, LogRevisions
    <2>. QED
      BY <2>1, <2>2, <2>3, PositionOf DEF Bounds
  <1>. QED
    BY <1>1, <1>2 DEF Bounds

-----------------------------------------------------------------------------
(***************************************************************************)
(* Requests and replies, field by field.                                   *)
(***************************************************************************)
IsEntity(entity) == entity = [revision |-> entity.revision, state |-> entity.state]

RequestOf(step, command, entity, program, fails, done, published, since) ==
  [step |-> step, command |-> command, entity |-> entity, program |-> program,
   fails |-> fails, done |-> done, published |-> published, since |-> since]

ReplyOf(status, command, entity, program, since) ==
  [status |-> status, command |-> command, entity |-> entity, program |-> program,
   since |-> since]

(* One whose entity was loaded from a log with these revisions. *)
IsRequest(r, bounds) ==
  /\ r = RequestOf(r.step, r.command, r.entity, r.program, r.fails, r.done, r.published, r.since)
  /\ IsEntity(r.entity) /\ r.entity.revision \in bounds

IsReply(p, bounds) ==
  /\ p = ReplyOf(p.status, p.command, p.entity, p.program, p.since)
  /\ IsEntity(p.entity) /\ p.entity.revision \in bounds

(* The same with the revision counted. *)
EntityAt(entries, entity) ==
  [revision |-> PositionIn(entries, entity.revision), state |-> entity.state]

RequestAt(entries, r) ==
  RequestOf(r.step, r.command, EntityAt(entries, r.entity), r.program, r.fails, r.done,
            r.published, r.since)

ReplyAt(entries, p) ==
  ReplyOf(p.status, p.command, EntityAt(entries, p.entity), p.program, p.since)

CountedAt(entries, local) ==
  [local EXCEPT !.entity.revision = PositionIn(entries, local.entity.revision)]

RequestFields == {"step", "command", "entity", "program", "fails", "done", "published", "since"}
ReplyFields == {"status", "command", "entity", "program", "since"}

(* Counting changes the revision only. *)
LEMMA CountedRequest ==
  ASSUME NEW entries, NEW bounds, NEW r, IsRequest(r, bounds)
  PROVE  CountedAt(entries, r) = RequestAt(entries, r)
  <1>. DEFINE n == PositionIn(entries, r.entity.revision)
              entity == [r.entity EXCEPT !.revision = n]
              t == [r EXCEPT !.entity = entity]
              u == RequestAt(entries, r)
  <1>1. CountedAt(entries, r) = t
    BY DEF CountedAt
  <1>2. entity = EntityAt(entries, r.entity)
    <2>. DEFINE e == r.entity
    <2>1. e = [revision |-> e.revision, state |-> e.state]
      BY DEF IsRequest, IsEntity
    <2>. HIDE DEF e, n
    <2>2. [e EXCEPT !.revision = n] = [revision |-> n, state |-> e.state]
      BY <2>1
    <2>. QED
      BY <2>2 DEF e, n, EntityAt
  <1>. HIDE DEF entity, n
  <1>3. DOMAIN r = RequestFields /\ DOMAIN u = RequestFields
    BY DEF IsRequest, RequestAt, RequestOf, RequestFields
  <1>4. DOMAIN t = RequestFields /\ t = [x \in RequestFields |-> t[x]]
    BY <1>3
  <1>5. t.entity = entity /\ \A x \in RequestFields : x # "entity" => t[x] = r[x]
    BY <1>3 DEF RequestFields
  <1>6. u.entity = EntityAt(entries, r.entity) /\ \A x \in RequestFields : x # "entity" => u[x] = r[x]
    <2>1. /\ u.step = r.step /\ u.command = r.command /\ u.program = r.program
          /\ u.fails = r.fails /\ u.done = r.done /\ u.published = r.published
          /\ u.since = r.since /\ u.entity = EntityAt(entries, r.entity)
      BY DEF RequestAt, RequestOf
    <2>. HIDE DEF u
    <2>. QED
      BY <2>1 DEF RequestFields
  <1>7. u = [x \in RequestFields |-> u[x]]
    BY DEF RequestAt, RequestOf, RequestFields
  <1>8. \A x \in RequestFields : t[x] = u[x]
    <2>. HIDE DEF t, u
    <2>. QED
      BY <1>2, <1>5, <1>6
  <1>. QED
    BY <1>1, <1>4, <1>7, <1>8

(* So it does in replies. *)
LEMMA CountedReply ==
  ASSUME NEW entries, NEW bounds, NEW r, IsReply(r, bounds)
  PROVE  CountedAt(entries, r) = ReplyAt(entries, r)
  <1>. DEFINE n == PositionIn(entries, r.entity.revision)
              entity == [r.entity EXCEPT !.revision = n]
              t == [r EXCEPT !.entity = entity]
              u == ReplyAt(entries, r)
  <1>1. CountedAt(entries, r) = t
    BY DEF CountedAt
  <1>2. entity = EntityAt(entries, r.entity)
    <2>. DEFINE e == r.entity
    <2>1. e = [revision |-> e.revision, state |-> e.state]
      BY DEF IsReply, IsEntity
    <2>. HIDE DEF e, n
    <2>2. [e EXCEPT !.revision = n] = [revision |-> n, state |-> e.state]
      BY <2>1
    <2>. QED
      BY <2>2 DEF e, n, EntityAt
  <1>. HIDE DEF entity, n
  <1>3. DOMAIN r = ReplyFields /\ DOMAIN u = ReplyFields
    BY DEF IsReply, ReplyAt, ReplyOf, ReplyFields
  <1>4. DOMAIN t = ReplyFields /\ t = [x \in ReplyFields |-> t[x]]
    BY <1>3
  <1>5. t.entity = entity /\ \A x \in ReplyFields : x # "entity" => t[x] = r[x]
    BY <1>3 DEF ReplyFields
  <1>6. u.entity = EntityAt(entries, r.entity) /\ \A x \in ReplyFields : x # "entity" => u[x] = r[x]
    <2>1. /\ u.status = r.status /\ u.command = r.command /\ u.program = r.program
          /\ u.since = r.since /\ u.entity = EntityAt(entries, r.entity)
      BY DEF ReplyAt, ReplyOf
    <2>. HIDE DEF u
    <2>. QED
      BY <2>1 DEF ReplyFields
  <1>7. u = [x \in ReplyFields |-> u[x]]
    BY DEF ReplyAt, ReplyOf, ReplyFields
  <1>8. \A x \in ReplyFields : t[x] = u[x]
    <2>. HIDE DEF t, u
    <2>. QED
      BY <1>2, <1>5, <1>6
  <1>. QED
    BY <1>1, <1>4, <1>7, <1>8

-----------------------------------------------------------------------------
(***************************************************************************)
(* The state of ServiceOnLog that a state of ServiceOnDynamo stands for.   *)
(***************************************************************************)
Requests == [c \in Client |-> Counted(c, request[c])]
Replies == [c \in Client |-> Counted(c, reply[c])]
Histories == [a \in Aggregate |-> History(a)]

(* Requests and replies show entities that were loaded from the log. *)
EntitiesLoaded ==
  /\ request = [c \in Client |-> request[c]]
  /\ reply = [c \in Client |-> reply[c]]
  /\ \A c \in Client : LET bounds == Bounds(log[AggregateOf[c]]) IN
       IsRequest(request[c], bounds) /\ IsReply(reply[c], bounds)

(* The requests and replies of ServiceOnLog, field by field. *)
LEMMA RequestsAre ==
  EntitiesLoaded => /\ Requests = [c \in Client |-> RequestAt(log[AggregateOf[c]], request[c])]
                    /\ Replies = [c \in Client |-> ReplyAt(log[AggregateOf[c]], reply[c])]
  <1>. SUFFICES ASSUME EntitiesLoaded
                PROVE  \A c \in Client :
                         /\ Counted(c, request[c]) = RequestAt(log[AggregateOf[c]], request[c])
                         /\ Counted(c, reply[c]) = ReplyAt(log[AggregateOf[c]], reply[c])
    BY DEF Requests, Replies
  <1>1. \A c \in Client : /\ Counted(c, request[c]) = CountedAt(log[AggregateOf[c]], request[c])
                          /\ Counted(c, reply[c]) = CountedAt(log[AggregateOf[c]], reply[c])
    BY DEF Counted, CountedAt, Position, PositionIn
  <1>. QED
    BY <1>1, CountedRequest, CountedReply DEF EntitiesLoaded

(* The same after a step. *)
LEMMA NextRequestsAre ==
  EntitiesLoaded' =>
    /\ Requests' = [c \in Client |-> RequestAt(log'[AggregateOf[c]], request'[c])]
    /\ Replies' = [c \in Client |-> ReplyAt(log'[AggregateOf[c]], reply'[c])]
  <1>1. (EntitiesLoaded =>
           /\ Requests = [c \in Client |-> RequestAt(log[AggregateOf[c]], request[c])]
           /\ Replies = [c \in Client |-> ReplyAt(log[AggregateOf[c]], reply[c])])'
    BY RequestsAre, PTL
  <1>. QED
    BY <1>1

-----------------------------------------------------------------------------
(***************************************************************************)
(* What the service does is the same on both stores.  Each lemma takes one *)
(* operator of EntityService; entries is the log of the request's entity.  *)
(***************************************************************************)
LogOf(c) == log[AggregateOf[c]]

(* Revisions keep their positions. *)
Keeps ==
  \A c \in Client : \A b \in Bounds(LogOf(c)) :
    b \in Bounds(log'[AggregateOf[c]]) /\ PositionIn(log'[AggregateOf[c]], b) = PositionIn(LogOf(c), b)

Mappable == BlindInv /\ EntitiesLoaded /\ Keeps

(* The service works on the request of c. *)
Serves(c) == EntitiesLoaded' /\ \A d \in Client \ {c} : request'[d] = request[d]

(* The log of an entity. *)
LEMMA LogFacts ==
  ASSUME BlindInv, NEW c \in Client
  PROVE  /\ AggregateOf[c] \in Aggregate
         /\ LogOf(c) \in Seq(LogEntry) /\ InLogOrder(LogOf(c))
         /\ InitialRevision \in Bounds(LogOf(c)) /\ PositionIn(LogOf(c), InitialRevision) = 0
  <1>1. AggregateOf[c] \in Aggregate /\ LogOf(c) \in Seq(LogEntry) /\ InLogOrder(LogOf(c))
    BY BlindFacts, CallFacts DEF LogOf
  <1>. QED
    BY <1>1, PositionOf DEF Bounds

(* A request as ServiceOnLog sees it. *)
LEMMA RequestFacts ==
  ASSUME EntitiesLoaded, NEW c \in Client
  PROVE  /\ IsRequest(request[c], Bounds(LogOf(c))) /\ IsReply(reply[c], Bounds(LogOf(c)))
         /\ Requests[c] = RequestAt(LogOf(c), request[c])
         /\ Requests[c].step = request[c].step /\ Requests[c].command = request[c].command
         /\ Requests[c].entity = EntityAt(LogOf(c), request[c].entity)
         /\ Requests[c].program = request[c].program /\ Requests[c].fails = request[c].fails
         /\ Requests[c].done = request[c].done /\ Requests[c].published = request[c].published
         /\ Requests[c].since = request[c].since
  <1>1. Requests[c] = RequestAt(LogOf(c), request[c])
    BY RequestsAre DEF LogOf
  <1>. QED
    BY <1>1 DEF EntitiesLoaded, LogOf, RequestAt, RequestOf

(* Requests and replies that show what could be loaded before the step keep *)
(* their positions in the log after it.                                     *)
LEMMA NextMaps ==
  ASSUME Mappable, request' = [d \in Client |-> request'[d]], reply' = [d \in Client |-> reply'[d]],
         \A d \in Client : /\ IsRequest(request'[d], Bounds(LogOf(d)))
                           /\ IsReply(reply'[d], Bounds(LogOf(d)))
  PROVE  /\ EntitiesLoaded'
         /\ Requests' = [d \in Client |-> RequestAt(LogOf(d), request'[d])]
         /\ Replies' = [d \in Client |-> ReplyAt(LogOf(d), reply'[d])]
  <1>1. ASSUME NEW d \in Client
        PROVE  /\ IsRequest(request'[d], Bounds(log'[AggregateOf[d]]))
               /\ IsReply(reply'[d], Bounds(log'[AggregateOf[d]]))
               /\ RequestAt(log'[AggregateOf[d]], request'[d]) = RequestAt(LogOf(d), request'[d])
               /\ ReplyAt(log'[AggregateOf[d]], reply'[d]) = ReplyAt(LogOf(d), reply'[d])
    <2>1. /\ request'[d].entity.revision \in Bounds(LogOf(d))
          /\ reply'[d].entity.revision \in Bounds(LogOf(d))
      BY DEF IsRequest, IsReply
    <2>2. /\ EntityAt(log'[AggregateOf[d]], request'[d].entity) = EntityAt(LogOf(d), request'[d].entity)
          /\ EntityAt(log'[AggregateOf[d]], reply'[d].entity) = EntityAt(LogOf(d), reply'[d].entity)
      BY <2>1 DEF Mappable, Keeps, EntityAt
    <2>3. /\ request'[d].entity.revision \in Bounds(log'[AggregateOf[d]])
          /\ reply'[d].entity.revision \in Bounds(log'[AggregateOf[d]])
      BY <2>1 DEF Mappable, Keeps
    <2>. QED
      BY <2>2, <2>3 DEF IsRequest, IsReply, RequestAt, ReplyAt
  <1>2. EntitiesLoaded'
    BY <1>1 DEF EntitiesLoaded
  <1>. QED
    BY <1>1, <1>2, NextRequestsAre

(* A change of one request and its reply. *)
LEMMA MoveMaps ==
  ASSUME Mappable, NEW c \in Client,
         NEW r, IsRequest(r, Bounds(LogOf(c))), request' = [request EXCEPT ![c] = r],
         NEW p, IsReply(p, Bounds(LogOf(c))), reply' = [reply EXCEPT ![c] = p]
  PROVE  /\ Serves(c)
         /\ Requests' = [Requests EXCEPT ![c] = RequestAt(LogOf(c), r)]
         /\ Replies' = [Replies EXCEPT ![c] = ReplyAt(LogOf(c), p)]
  <1>1. /\ request' = [d \in Client |-> IF d = c THEN r ELSE request[d]]
        /\ reply' = [d \in Client |-> IF d = c THEN p ELSE reply[d]]
    BY DEF Mappable, EntitiesLoaded
  <1>2. /\ request' = [d \in Client |-> request'[d]] /\ reply' = [d \in Client |-> reply'[d]]
        /\ \A d \in Client : /\ IsRequest(request'[d], Bounds(LogOf(d)))
                             /\ IsReply(reply'[d], Bounds(LogOf(d)))
    BY <1>1 DEF Mappable, EntitiesLoaded, LogOf
  <1>3. /\ EntitiesLoaded'
        /\ Requests' = [d \in Client |-> RequestAt(LogOf(d), request'[d])]
        /\ Replies' = [d \in Client |-> ReplyAt(LogOf(d), reply'[d])]
    BY <1>2, NextMaps
  <1>4. /\ Requests = [d \in Client |-> RequestAt(LogOf(d), request[d])]
        /\ Replies = [d \in Client |-> ReplyAt(LogOf(d), reply[d])]
    BY RequestsAre DEF Mappable, LogOf
  <1>. QED
    BY <1>1, <1>3, <1>4 DEF Serves

(* The log grows, and requests and replies stay as they are. *)
LEMMA NoMoveMaps ==
  ASSUME Mappable, UNCHANGED <<request, reply>>
  PROVE  EntitiesLoaded' /\ Requests' = Requests /\ Replies' = Replies
  <1>1. /\ request' = [d \in Client |-> request'[d]] /\ reply' = [d \in Client |-> reply'[d]]
        /\ \A d \in Client : /\ IsRequest(request'[d], Bounds(LogOf(d)))
                             /\ IsReply(reply'[d], Bounds(LogOf(d)))
    BY DEF Mappable, EntitiesLoaded, LogOf
  <1>2. /\ EntitiesLoaded'
        /\ Requests' = [d \in Client |-> RequestAt(LogOf(d), request'[d])]
        /\ Replies' = [d \in Client |-> ReplyAt(LogOf(d), reply'[d])]
    BY <1>1, NextMaps
  <1>3. /\ Requests = [d \in Client |-> RequestAt(LogOf(d), request[d])]
        /\ Replies = [d \in Client |-> ReplyAt(LogOf(d), reply[d])]
    BY RequestsAre DEF Mappable, LogOf
  <1>. QED
    BY <1>2, <1>3

(* The constants of the service. *)
LEMMA Nothing ==
  ASSUME BlindInv, NEW c \in Client
  PROVE  /\ IsRequest(Service!Idle, Bounds(LogOf(c))) /\ RequestAt(LogOf(c), Service!Idle) = OnLog!Idle
         /\ IsReply(Service!NoReply, Bounds(LogOf(c))) /\ ReplyAt(LogOf(c), Service!NoReply) = OnLog!NoReply
         /\ IsEntity(Service!NoEntity) /\ Service!NoEntity.revision \in Bounds(LogOf(c))
         /\ EntityAt(LogOf(c), Service!NoEntity) = OnLog!NoEntity
         /\ Service!Query = OnLog!Query
  <1>1. /\ InitialRevision \in Bounds(LogOf(c)) /\ PositionIn(LogOf(c), InitialRevision) = 0
    BY LogFacts
  <1>2. Service!Query = OnLog!Query
    BY DEF Service!Query, OnLog!Query
  <1>3. /\ IsEntity(Service!NoEntity) /\ Service!NoEntity.revision = InitialRevision
        /\ EntityAt(LogOf(c), Service!NoEntity) = OnLog!NoEntity
    BY <1>1 DEF Service!NoEntity, OnLog!NoEntity, Service!InitialRevision, OnLog!InitialRevision,
            InitialRevision, IsEntity, EntityAt
  <1>4. /\ IsRequest(Service!Idle, Bounds(LogOf(c)))
        /\ RequestAt(LogOf(c), Service!Idle) = OnLog!Idle
    BY <1>1, <1>2, <1>3 DEF Service!Idle, OnLog!Idle, IsRequest, RequestAt, RequestOf
  <1>5. /\ IsReply(Service!NoReply, Bounds(LogOf(c)))
        /\ ReplyAt(LogOf(c), Service!NoReply) = OnLog!NoReply
    BY <1>1, <1>2, <1>3 DEF Service!NoReply, OnLog!NoReply, IsReply, ReplyAt, ReplyOf
  <1>. QED
    BY <1>1, <1>2, <1>3, <1>4, <1>5

(* A user gets the same answer from the service on both stores. *)
LEMMA AnswerMaps ==
  ASSUME Mappable, NEW c \in Client, NEW status,
         NEW entity, IsEntity(entity), entity.revision \in Bounds(LogOf(c)),
         Service!Answer(c, status, entity)
  PROVE  OnLog!Answer(c, status, EntityAt(LogOf(c), entity)) /\ Serves(c)
  <1>. DEFINE r == request[c]
              p == ReplyOf(status, r.command, entity, r.program, r.since)
              e == EntityAt(LogOf(c), entity)
  <1>1. reply' = [reply EXCEPT ![c] = p] /\ request' = [request EXCEPT ![c] = Service!Idle]
    BY DEF Service!Answer, ReplyOf
  <1>2. IsReply(p, Bounds(LogOf(c)))
    BY DEF IsReply, ReplyOf
  <1>3. ReplyAt(LogOf(c), p) = [status |-> status, command |-> r.command, entity |-> e,
                                program |-> r.program, since |-> r.since]
    BY DEF ReplyAt, ReplyOf
  <1>4. /\ IsRequest(Service!Idle, Bounds(LogOf(c)))
        /\ RequestAt(LogOf(c), Service!Idle) = OnLog!Idle
    BY Nothing DEF Mappable
  <1>5. /\ Serves(c)
        /\ Requests' = [Requests EXCEPT ![c] = OnLog!Idle]
        /\ Replies' = [Replies EXCEPT ![c] = ReplyAt(LogOf(c), p)]
    <2>. HIDE DEF p
    <2>. QED
      BY <1>1, <1>2, <1>4, MoveMaps
  <1>6. /\ Requests[c].command = r.command /\ Requests[c].program = r.program
        /\ Requests[c].since = r.since
    BY RequestFacts DEF Mappable
  <1>7. Replies' = [Replies EXCEPT ![c] =
                      [status |-> status, command |-> Requests[c].command, entity |-> e,
                       program |-> Requests[c].program, since |-> Requests[c].since]]
    BY <1>3, <1>5, <1>6
  <1>. HIDE DEF e
  <1>8. OnLog!Answer(c, status, e)
    BY <1>5, <1>7 DEF OnLog!Answer, Requests, Replies
  <1>. QED
    BY <1>5, <1>8 DEF e

(* And the same error. *)
LEMMA FailMaps ==
  ASSUME Mappable, NEW c \in Client, Service!Fail(c)
  PROVE  OnLog!Fail(c) /\ Serves(c)
  <1>1. Service!Answer(c, "error", Service!NoEntity)
    BY DEF Service!Fail
  <1>2. OnLog!Answer(c, "error", OnLog!NoEntity) /\ Serves(c)
    BY <1>1, Nothing, AnswerMaps DEF Mappable
  <1>. QED
    BY <1>2 DEF OnLog!Fail

(* An entity is encoded, not found or not serialized on both: it has the   *)
(* initial revision on both or on none.                                    *)
LEMMA EncodeMaps ==
  ASSUME Mappable, NEW c \in Client,
         NEW entity, IsEntity(entity), entity.revision \in Bounds(LogOf(c)),
         Service!Encode(c, entity)
  PROVE  OnLog!Encode(c, EntityAt(LogOf(c), entity)) /\ Serves(c)
  <1>. DEFINE e == EntityAt(LogOf(c), entity)
  <1>1. e.state = entity.state
    BY DEF EntityAt
  <1>2. e.revision = 0 <=> entity.revision = 0
    <2>1. PositionIn(LogOf(c), entity.revision) = 0 <=> entity.revision = InitialRevision
      BY LogFacts, PositionFacts DEF Mappable
    <2>. QED
      BY <2>1 DEF EntityAt, InitialRevision
  <1>3. \A status : Service!Answer(c, status, entity) => OnLog!Answer(c, status, e) /\ Serves(c)
    BY AnswerMaps
  <1>4. Service!Fail(c) => OnLog!Fail(c) /\ Serves(c)
    BY FailMaps
  <1>. HIDE DEF e
  <1>5. OnLog!Encode(c, e) /\ Serves(c)
    BY <1>1, <1>2, <1>3, <1>4
       DEF Service!Encode, OnLog!Encode, Service!EncodeResource, OnLog!EncodeResource,
           Service!Initialized, OnLog!Initialized, Service!InitialRevision, OnLog!InitialRevision
  <1>. QED
    BY <1>5 DEF e

(* A request with another step. *)
LEMMA Reloading ==
  ASSUME NEW r, NEW bounds, IsRequest(r, bounds)
  PROVE  [r EXCEPT !.step = "reload"] =
           RequestOf("reload", r.command, r.entity, r.program, r.fails, r.done, r.published, r.since)
  <1>. DEFINE t == [r EXCEPT !.step = "reload"]
              u == RequestOf("reload", r.command, r.entity, r.program, r.fails, r.done,
                             r.published, r.since)
  <1>1. DOMAIN r = RequestFields /\ u = [x \in RequestFields |-> u[x]]
    BY DEF IsRequest, RequestOf, RequestFields
  <1>2. t = [x \in RequestFields |-> t[x]]
    BY <1>1
  <1>3. t.step = "reload" /\ \A x \in RequestFields : x # "step" => t[x] = r[x]
    BY <1>1 DEF RequestFields
  <1>4. u.step = "reload" /\ \A x \in RequestFields : x # "step" => u[x] = r[x]
    <2>1. /\ u.command = r.command /\ u.entity = r.entity /\ u.program = r.program
          /\ u.fails = r.fails /\ u.done = r.done /\ u.published = r.published
          /\ u.since = r.since /\ u.step = "reload"
      BY DEF RequestOf
    <2>. HIDE DEF u
    <2>. QED
      BY <2>1 DEF RequestFields
  <1>5. \A x \in RequestFields : t[x] = u[x]
    <2>. HIDE DEF t, u
    <2>. QED
      BY <1>3, <1>4
  <1>. QED
    BY <1>1, <1>2, <1>5

(* A request whose handler was chosen. *)
LEMMA Handling ==
  ASSUME NEW r, NEW bounds, IsRequest(r, bounds), NEW entity, NEW program, NEW fails
  PROVE  [r EXCEPT !.step = "handle", !.entity = entity, !.program = program, !.fails = fails] =
           RequestOf("handle", r.command, entity, program, fails, r.done, r.published, r.since)
  <1>. DEFINE t == [r EXCEPT !.step = "handle", !.entity = entity, !.program = program,
                             !.fails = fails]
              u == RequestOf("handle", r.command, entity, program, fails, r.done,
                             r.published, r.since)
  <1>1. DOMAIN r = RequestFields /\ u = [x \in RequestFields |-> u[x]]
    BY DEF IsRequest, RequestOf, RequestFields
  <1>2. t = [x \in RequestFields |-> t[x]]
    BY <1>1
  <1>3. /\ t.step = "handle" /\ t.command = r.command /\ t.since = r.since
        /\ t.entity = entity /\ t.program = program /\ t.fails = fails
        /\ t.done = r.done /\ t.published = r.published
    BY <1>1 DEF RequestFields
  <1>4. \A x \in RequestFields : t[x] = u[x]
    <2>. HIDE DEF t
    <2>. QED
      BY <1>3 DEF RequestOf, RequestFields
  <1>. QED
    BY <1>1, <1>2, <1>4

(* A request after one of its publications. *)
LEMMA OneDone ==
  ASSUME NEW r, NEW bounds, IsRequest(r, bounds), NEW done, NEW published
  PROVE  [r EXCEPT !.done = done, !.published = published] =
           RequestOf(r.step, r.command, r.entity, r.program, r.fails, done, published, r.since)
  <1>. DEFINE t == [r EXCEPT !.done = done, !.published = published]
              u == RequestOf(r.step, r.command, r.entity, r.program, r.fails, done, published,
                             r.since)
  <1>1. DOMAIN r = RequestFields /\ u = [x \in RequestFields |-> u[x]]
    BY DEF IsRequest, RequestOf, RequestFields
  <1>2. t = [x \in RequestFields |-> t[x]]
    BY <1>1
  <1>3. /\ t.step = r.step /\ t.command = r.command /\ t.since = r.since
        /\ t.entity = r.entity /\ t.program = r.program /\ t.fails = r.fails
        /\ t.done = done /\ t.published = published
    BY <1>1 DEF RequestFields
  <1>4. \A x \in RequestFields : t[x] = u[x]
    <2>. HIDE DEF t
    <2>. QED
      BY <1>3 DEF RequestOf, RequestFields
  <1>. QED
    BY <1>1, <1>2, <1>4

(* A request as it is sent. *)
LEMMA Sending ==
  ASSUME NEW r, NEW bounds, IsRequest(r, bounds), NEW step, NEW command, NEW since
  PROVE  [r EXCEPT !.step = step, !.command = command, !.since = since] =
           RequestOf(step, command, r.entity, r.program, r.fails, r.done, r.published, since)
  <1>. DEFINE t == [r EXCEPT !.step = step, !.command = command, !.since = since]
              u == RequestOf(step, command, r.entity, r.program, r.fails, r.done, r.published,
                             since)
  <1>1. DOMAIN r = RequestFields /\ u = [x \in RequestFields |-> u[x]]
    BY DEF IsRequest, RequestOf, RequestFields
  <1>2. t = [x \in RequestFields |-> t[x]]
    BY <1>1
  <1>3. /\ t.step = step /\ t.command = command /\ t.since = since
        /\ t.entity = r.entity /\ t.program = r.program /\ t.fails = r.fails
        /\ t.done = r.done /\ t.published = r.published
    BY <1>1 DEF RequestFields
  <1>4. \A x \in RequestFields : t[x] = u[x]
    <2>. HIDE DEF t
    <2>. QED
      BY <1>3 DEF RequestOf, RequestFields
  <1>. QED
    BY <1>1, <1>2, <1>4

(* What is answered to a user whose process stops. *)
LEMMA Losing ==
  ASSUME NEW p, DOMAIN p = ReplyFields, NEW command, NEW program, NEW since
  PROVE  [p EXCEPT !.status = "error", !.command = command, !.program = program, !.since = since] =
           ReplyOf("error", command, p.entity, program, since)
  <1>. DEFINE t == [p EXCEPT !.status = "error", !.command = command, !.program = program,
                             !.since = since]
              u == ReplyOf("error", command, p.entity, program, since)
  <1>1. u = [x \in ReplyFields |-> u[x]]
    BY DEF ReplyOf, ReplyFields
  <1>2. t = [x \in ReplyFields |-> t[x]]
    OBVIOUS
  <1>3. /\ t.status = "error" /\ t.command = command /\ t.since = since
        /\ t.entity = p.entity /\ t.program = program
    BY DEF ReplyFields
  <1>4. \A x \in ReplyFields : t[x] = u[x]
    <2>. HIDE DEF t
    <2>. QED
      BY <1>3 DEF ReplyOf, ReplyFields
  <1>. QED
    BY <1>1, <1>2, <1>4

(* A counted entity is an entity; its state is the same. *)
LEMMA EntityAtFacts ==
  ASSUME NEW entries, NEW entity
  PROVE  /\ IsEntity(EntityAt(entries, entity))
         /\ EntityAt(entries, entity).revision = PositionIn(entries, entity.revision)
         /\ EntityAt(entries, entity).state = entity.state
  BY DEF EntityAt, IsEntity

(* A handler goes on, returns or is followed by another load on both. *)
LEMMA ProceedMaps ==
  ASSUME Mappable, NEW c \in Client,
         NEW locals, IsRequest(locals, Bounds(LogOf(c))), Service!Proceed(c, locals)
  PROVE  OnLog!Proceed(c, RequestAt(LogOf(c), locals)) /\ Serves(c)
  <1>. DEFINE l == RequestAt(LogOf(c), locals)
  <1>1. /\ l.done = locals.done /\ l.program = locals.program /\ l.fails = locals.fails
        /\ l.published = locals.published /\ l.entity = EntityAt(LogOf(c), locals.entity)
    BY DEF RequestAt, RequestOf
  <1>2. ASSUME NEW r, IsRequest(r, Bounds(LogOf(c))),
               request' = [request EXCEPT ![c] = r], reply' = reply
        PROVE  /\ Requests' = [Requests EXCEPT ![c] = RequestAt(LogOf(c), r)]
               /\ Replies' = Replies /\ Serves(c)
    <2>1. IsReply(reply[c], Bounds(LogOf(c))) /\ reply' = [reply EXCEPT ![c] = reply[c]]
      BY <1>2, RequestFacts DEF Mappable, EntitiesLoaded
    <2>2. /\ Serves(c)
          /\ Requests' = [Requests EXCEPT ![c] = RequestAt(LogOf(c), r)]
          /\ Replies' = [Replies EXCEPT ![c] = ReplyAt(LogOf(c), reply[c])]
      BY <1>2, <2>1, MoveMaps
    <2>3. /\ Replies = [d \in Client |-> ReplyAt(LogOf(d), reply[d])]
      BY RequestsAre DEF Mappable, LogOf
    <2>4. Replies' = Replies
      BY <2>2, <2>3
    <2>. QED
      BY <2>2, <2>4
  <1>3. CASE locals.done < Len(locals.program)
    <2>1. request' = [request EXCEPT ![c] = locals] /\ reply' = reply
      BY <1>3 DEF Service!Proceed
    <2>2. Requests' = [Requests EXCEPT ![c] = l] /\ Replies' = Replies /\ Serves(c)
      BY <1>2, <2>1
    <2>. HIDE DEF l
    <2>3. OnLog!Proceed(c, l)
      BY <1>1, <1>3, <2>2 DEF OnLog!Proceed, Requests, Replies
    <2>. QED
      BY <2>2, <2>3 DEF l
  <1>4. CASE ~(locals.done < Len(locals.program)) /\ locals.fails
    <2>1. OnLog!Fail(c) /\ Serves(c)
      BY <1>4, FailMaps DEF Service!Proceed
    <2>. HIDE DEF l
    <2>2. OnLog!Proceed(c, l)
      BY <1>1, <1>4, <2>1 DEF OnLog!Proceed
    <2>. QED
      BY <2>1, <2>2 DEF l
  <1>5. CASE ~(locals.done < Len(locals.program)) /\ ~locals.fails /\ locals.published
    <2>. DEFINE r == RequestOf("reload", locals.command, locals.entity, locals.program,
                               locals.fails, locals.done, locals.published, locals.since)
                reloading == [locals EXCEPT !.step = "reload"]
    <2>0. reloading = r
      BY Reloading
    <2>1. request' = [request EXCEPT ![c] = reloading] /\ reply' = reply
      BY <1>5 DEF Service!Proceed
    <2>2. IsRequest(r, Bounds(LogOf(c)))
      BY DEF IsRequest, RequestOf
    <2>3. RequestAt(LogOf(c), r) = [l EXCEPT !.step = "reload"]
      <3>1. IsRequest(l, {l.entity.revision})
        BY <1>1, EntityAtFacts DEF IsRequest, RequestAt, RequestOf
      <3>2. [l EXCEPT !.step = "reload"] =
              RequestOf("reload", l.command, l.entity, l.program, l.fails, l.done, l.published,
                        l.since)
        <4>. HIDE DEF l
        <4>. QED
          BY <3>1, Reloading
      <3>3. l.command = locals.command /\ l.since = locals.since
        BY DEF RequestAt, RequestOf
      <3>4. RequestAt(LogOf(c), r) =
              RequestOf("reload", locals.command, EntityAt(LogOf(c), locals.entity),
                        locals.program, locals.fails, locals.done, locals.published, locals.since)
        BY DEF RequestAt, RequestOf
      <3>. HIDE DEF l, r
      <3>. QED
        BY <1>1, <3>2, <3>3, <3>4
    <2>4. Requests' = [Requests EXCEPT ![c] = [l EXCEPT !.step = "reload"]] /\ Replies' = Replies /\ Serves(c)
      <3>. HIDE DEF r, l, reloading
      <3>. QED
        BY <1>2, <2>0, <2>1, <2>2, <2>3
    <2>. HIDE DEF l
    <2>5. OnLog!Proceed(c, l)
      BY <1>1, <1>5, <2>4 DEF OnLog!Proceed, Requests, Replies
    <2>. QED
      BY <2>4, <2>5 DEF l
  <1>6. CASE ~(locals.done < Len(locals.program)) /\ ~locals.fails /\ ~locals.published
    <2>1. Service!Encode(c, locals.entity)
      BY <1>6 DEF Service!Proceed
    <2>2. OnLog!Encode(c, EntityAt(LogOf(c), locals.entity)) /\ Serves(c)
      BY <2>1, EncodeMaps DEF IsRequest
    <2>. HIDE DEF l
    <2>3. OnLog!Proceed(c, l)
      BY <1>1, <1>6, <2>2 DEF OnLog!Proceed
    <2>. QED
      BY <2>2, <2>3 DEF l
  <1>. QED
    BY <1>3, <1>4, <1>5, <1>6

(***************************************************************************)
(* A handler may look at the state, at whether the entity exists, and ask  *)
(* for a publication under the revision (a guarded one); it computes       *)
(* nothing else from the ULID it is given.                                 *)
(***************************************************************************)
HandlersIgnoreRevisions ==
  \A a, command, state : \A r, s \in Nat :
    (r = InitialRevision <=> s = InitialRevision) =>
      Programs(a, command, [revision |-> r, state |-> state]) =
        Programs(a, command, [revision |-> s, state |-> state])

(* A command is dispatched to the same handler, which runs one of the same *)
(* programs for the ULID of the entity and for its position.               *)
LEMMA DispatchMaps ==
  ASSUME HandlersIgnoreRevisions, Mappable, NEW c \in Client,
         NEW entity, IsEntity(entity), entity.revision \in Bounds(LogOf(c)),
         Service!Dispatch(c, entity)
  PROVE  OnLog!Dispatch(c, EntityAt(LogOf(c), entity)) /\ Serves(c)
  <1>. DEFINE e == EntityAt(LogOf(c), entity)
              command == request[c].command
              a == AggregateOf[c]
              bounds == Bounds(LogOf(c))
  <1>1. /\ IsRequest(request[c], bounds) /\ Requests[c] = RequestAt(LogOf(c), request[c])
        /\ Requests[c].command = command
    BY RequestFacts DEF Mappable
  <1>2. Programs(a, command, entity) = Programs(a, command, e)
    <2>. DEFINE r == entity.revision
                s == PositionIn(LogOf(c), entity.revision)
                state == entity.state
    <2>1. LogOf(c) \in Seq(LogEntry) /\ InLogOrder(LogOf(c))
      BY LogFacts DEF Mappable
    <2>2. r \in Nat /\ s \in Nat /\ (r = InitialRevision <=> s = InitialRevision)
      <3>1. s \in 0 .. Len(LogOf(c)) /\ (s = 0 <=> r = InitialRevision)
        BY <2>1, PositionFacts
      <3>2. r \in Nat /\ Len(LogOf(c)) \in Nat
        BY <2>1, LogRevisions
      <3>. HIDE DEF s, r
      <3>. QED
        BY <3>1, <3>2 DEF InitialRevision
    <2>3. entity = [revision |-> r, state |-> state]
      BY DEF IsEntity
    <2>4. e = [revision |-> s, state |-> state]
      BY DEF EntityAt
    <2>. HIDE DEF r, s, state, e, a, command
    <2>. QED
      BY <2>2, <2>3, <2>4 DEF HandlersIgnoreRevisions
  <1>3. CASE Service!IsHandled(command)
    <2>1. PICK program \in Programs(a, command, entity) :
            Service!Proceed(c, [request[c] EXCEPT !.step = "handle", !.entity = entity,
                                                  !.program = program.publications,
                                                  !.fails = program.fails])
      BY <1>3 DEF Service!Dispatch
    <2>. DEFINE r == request[c]
                publications == program.publications
                fails == program.fails
                locals == RequestOf("handle", r.command, entity, publications, fails,
                                    r.done, r.published, r.since)
    <2>2. Service!Proceed(c, locals)
      <3>1. [r EXCEPT !.step = "handle", !.entity = entity, !.program = publications,
                      !.fails = fails] = locals
        <4>. HIDE DEF publications, fails
        <4>. QED
          BY <1>1, Handling
      <3>. HIDE DEF locals
      <3>. QED
        BY <2>1, <3>1
    <2>3. IsRequest(locals, bounds)
      BY DEF IsRequest, RequestOf
    <2>4. OnLog!Proceed(c, RequestAt(LogOf(c), locals)) /\ Serves(c)
      <3>. HIDE DEF locals
      <3>. QED
        BY <2>2, <2>3, ProceedMaps
    <2>5. RequestAt(LogOf(c), locals) =
            RequestOf("handle", r.command, e, publications, fails, r.done, r.published, r.since)
      BY DEF RequestAt, RequestOf
    <2>6. [Requests[c] EXCEPT !.step = "handle", !.entity = e, !.program = publications,
                              !.fails = fails]
            = RequestOf("handle", r.command, e, publications, fails, r.done, r.published, r.since)
      <3>. DEFINE m == Requests[c]
      <3>1. IsRequest(m, {m.entity.revision})
        BY <1>1, EntityAtFacts DEF IsRequest, RequestAt, RequestOf
      <3>2. /\ m.command = r.command /\ m.done = r.done /\ m.published = r.published
            /\ m.since = r.since
        BY <1>1 DEF RequestAt, RequestOf
      <3>. HIDE DEF m, e, publications, fails, r
      <3>3. [m EXCEPT !.step = "handle", !.entity = e, !.program = publications, !.fails = fails]
              = RequestOf("handle", m.command, e, publications, fails, m.done, m.published, m.since)
        BY <3>1, Handling
      <3>. QED
        BY <3>2, <3>3 DEF m
    <2>7. OnLog!Proceed(c, [Requests[c] EXCEPT !.step = "handle", !.entity = e,
                                               !.program = program.publications,
                                               !.fails = program.fails])
      <3>. HIDE DEF locals, e
      <3>. QED
        BY <2>4, <2>5, <2>6
    <2>8. OnLog!IsHandled(Requests[c].command) /\ program \in Programs(AggregateOf[c], Requests[c].command, e)
      <3>. HIDE DEF e
      <3>. QED
        BY <1>1, <1>2, <1>3 DEF Service!IsHandled, OnLog!IsHandled
    <2>. HIDE DEF e
    <2>9. OnLog!Dispatch(c, e)
      BY <2>7, <2>8 DEF OnLog!Dispatch, Requests
    <2>. QED
      BY <2>4, <2>9 DEF e
  <1>4. CASE ~Service!IsHandled(command)
    <2>1. OnLog!Fail(c) /\ Serves(c)
      BY <1>4, FailMaps DEF Service!Dispatch
    <2>2. ~OnLog!IsHandled(Requests[c].command)
      BY <1>1, <1>4 DEF Service!IsHandled, OnLog!IsHandled
    <2>. HIDE DEF e
    <2>3. OnLog!Dispatch(c, e)
      BY <2>1, <2>2 DEF OnLog!Dispatch, Requests
    <2>. QED
      BY <2>1, <2>3 DEF e
  <1>. QED
    BY <1>3, <1>4

(* A publication that succeeded takes the handler to its next one. *)
LEMMA PublishReturnsMaps ==
  ASSUME Mappable, NEW c \in Client, Service!PublishReturns(c)
  PROVE  OnLog!PublishReturns(c) /\ Serves(c)
  <1>. DEFINE r == request[c]
              m == Requests[c]
              done == r.done + 1
              published == r.published \/ Service!Publication(c).events # <<>>
              locals == RequestOf(r.step, r.command, r.entity, r.program, r.fails, done,
                                  published, r.since)
  <1>1. /\ IsRequest(r, Bounds(LogOf(c))) /\ m = RequestAt(LogOf(c), r)
        /\ m.done = r.done /\ m.published = r.published /\ m.program = r.program
    BY RequestFacts DEF Mappable
  <1>2. Service!Proceed(c, locals)
    <2>1. Service!Proceed(c, [r EXCEPT !.done = r.done + 1,
                                       !.published = r.published \/ Service!Publication(c).events # <<>>])
      BY DEF Service!PublishReturns
    <2>2. [r EXCEPT !.done = done, !.published = published] = locals
      <3>. HIDE DEF done, published, r
      <3>. QED
        BY <1>1, OneDone
    <2>. HIDE DEF locals
    <2>. QED
      BY <2>1, <2>2
  <1>3. IsRequest(locals, Bounds(LogOf(c)))
    BY <1>1 DEF IsRequest, RequestOf
  <1>4. OnLog!Proceed(c, RequestAt(LogOf(c), locals)) /\ Serves(c)
    <2>. HIDE DEF locals
    <2>. QED
      BY <1>2, <1>3, ProceedMaps
  <1>5. RequestAt(LogOf(c), locals) = [m EXCEPT !.done = done, !.published = published]
    <2>1. IsRequest(m, {m.entity.revision})
      BY <1>1, EntityAtFacts DEF IsRequest, RequestAt, RequestOf
    <2>2. [m EXCEPT !.done = done, !.published = published] =
             RequestOf(m.step, m.command, m.entity, m.program, m.fails, done, published, m.since)
      <3>. HIDE DEF m, done, published
      <3>. QED
        BY <2>1, OneDone
    <2>3. RequestAt(LogOf(c), locals) =
             RequestOf(r.step, r.command, EntityAt(LogOf(c), r.entity), r.program, r.fails, done,
                       published, r.since)
      BY DEF RequestAt, RequestOf
    <2>4. /\ m.step = r.step /\ m.command = r.command /\ m.entity = EntityAt(LogOf(c), r.entity)
          /\ m.program = r.program /\ m.fails = r.fails /\ m.since = r.since
      BY RequestFacts DEF Mappable
    <2>. HIDE DEF m, r, done, published, locals
    <2>. QED
      BY <2>2, <2>3, <2>4
  <1>6. /\ done = m.done + 1
        /\ published = (m.published \/ OnLog!Publication(c).events # <<>>)
    <2>1. OnLog!Publication(c) = m.program[m.done + 1]
      BY DEF OnLog!Publication, Requests
    <2>2. Service!Publication(c) = r.program[r.done + 1]
      BY DEF Service!Publication
    <2>. HIDE DEF m, r
    <2>. QED
      BY <1>1, <2>1, <2>2
  <1>7. OnLog!Proceed(c, [m EXCEPT !.done = m.done + 1,
                                   !.published = m.published \/ OnLog!Publication(c).events # <<>>])
    <2>. HIDE DEF m, r, locals, done, published
    <2>. QED
      BY <1>4, <1>5, <1>6
  <1>8. OnLog!PublishReturns(c)
    BY <1>7 DEF OnLog!PublishReturns, Requests
  <1>. QED
    BY <1>4, <1>8

(* Loads of the same events render the same entity, at the position of its *)
(* revision.                                                               *)
LEMMA LoadReturnsMaps ==
  ASSUME HandlersIgnoreRevisions, Mappable, NEW c \in Client,
         NEW revision \in Bounds(LogOf(c)), NEW events, Service!LoadReturns(c, revision, events)
  PROVE  OnLog!LoadReturns(c, PositionIn(LogOf(c), revision), events) /\ Serves(c)
  <1>. DEFINE position == PositionIn(LogOf(c), revision)
              state == Service!FoldLeft(Reduce, InitialState, events)
              entity == [revision |-> revision, state |-> state]
  <1>1. OnLog!FoldLeft(Reduce, InitialState, events) = state
    BY DEF Service!FoldLeft, OnLog!FoldLeft, Service!MapThenFoldSet, OnLog!MapThenFoldSet,
           Service!Max, OnLog!Max
  <1>. HIDE DEF state
  <1>2. CASE \A i \in DOMAIN events : Reducible(events[i])
    <2>1. Service!EntityReturns(c, entity)
      BY <1>2 DEF Service!LoadReturns, state
    <2>2. IsEntity(entity) /\ entity.revision \in Bounds(LogOf(c))
      BY DEF IsEntity
    <2>3. EntityAt(LogOf(c), entity) = [revision |-> position, state |-> state]
      BY DEF EntityAt
    <2>4. Service!At(c, "load") <=> OnLog!At(c, "load")
      <3>1. Requests[c].step = request[c].step
        BY RequestFacts DEF Mappable
      <3>. QED
        BY <3>1 DEF Service!At, OnLog!At, Requests
    <2>. HIDE DEF entity, position
    <2>5. CASE Service!At(c, "load")
      <3>1. OnLog!Dispatch(c, EntityAt(LogOf(c), entity)) /\ Serves(c)
        BY <2>1, <2>2, <2>5, DispatchMaps DEF Service!EntityReturns
      <3>2. OnLog!EntityReturns(c, EntityAt(LogOf(c), entity))
        BY <2>4, <2>5, <3>1 DEF OnLog!EntityReturns
      <3>3. OnLog!EntityReturns(c, [revision |-> position, state |-> state])
        BY <2>3, <3>2
      <3>4. OnLog!LoadReturns(c, position, events)
        BY <1>1, <1>2, <3>3 DEF OnLog!LoadReturns
      <3>. QED
        BY <3>1, <3>4 DEF position
    <2>6. CASE ~Service!At(c, "load")
      <3>1. OnLog!Encode(c, EntityAt(LogOf(c), entity)) /\ Serves(c)
        BY <2>1, <2>2, <2>6, EncodeMaps DEF Service!EntityReturns
      <3>2. OnLog!EntityReturns(c, EntityAt(LogOf(c), entity))
        BY <2>4, <2>6, <3>1 DEF OnLog!EntityReturns
      <3>3. OnLog!EntityReturns(c, [revision |-> position, state |-> state])
        BY <2>3, <3>2
      <3>4. OnLog!LoadReturns(c, position, events)
        BY <1>1, <1>2, <3>3 DEF OnLog!LoadReturns
      <3>. QED
        BY <3>1, <3>4 DEF position
    <2>. QED
      BY <2>5, <2>6
  <1>3. CASE ~(\A i \in DOMAIN events : Reducible(events[i]))
    <2>1. OnLog!Fail(c) /\ Serves(c)
      BY <1>3, FailMaps DEF Service!LoadReturns
    <2>. QED
      BY <1>3, <2>1 DEF OnLog!LoadReturns
  <1>. QED
    BY <1>2, <1>3

(* Requests are the same. *)
LEMMA SendMaps ==
  ASSUME Mappable, NEW c \in Client, NEW step, NEW command, NEW since,
         Service!Send(c, step, command, since)
  PROVE  OnLog!Send(c, step, command, since) /\ Serves(c)
  <1>. DEFINE idle == Service!Idle
              r == RequestOf(step, command, idle.entity, idle.program, idle.fails, idle.done,
                             idle.published, since)
              nothing == OnLog!Idle
  <1>1. /\ IsRequest(idle, Bounds(LogOf(c))) /\ RequestAt(LogOf(c), idle) = nothing
        /\ IsReply(Service!NoReply, Bounds(LogOf(c)))
        /\ ReplyAt(LogOf(c), Service!NoReply) = OnLog!NoReply
    BY Nothing DEF Mappable
  <1>. HIDE DEF idle, nothing
  <1>2. [idle EXCEPT !.step = step, !.command = command, !.since = since] = r
    BY <1>1, Sending
  <1>3. /\ request' = [request EXCEPT ![c] = r] /\ reply' = [reply EXCEPT ![c] = Service!NoReply]
    <2>. HIDE DEF r
    <2>. QED
      BY <1>2 DEF Service!Send, idle
  <1>4. IsRequest(r, Bounds(LogOf(c)))
    BY <1>1 DEF IsRequest, RequestOf
  <1>5. /\ Serves(c) /\ Requests' = [Requests EXCEPT ![c] = RequestAt(LogOf(c), r)]
        /\ Replies' = [Replies EXCEPT ![c] = OnLog!NoReply]
    <2>. HIDE DEF r
    <2>. QED
      BY <1>1, <1>3, <1>4, MoveMaps
  <1>6. RequestAt(LogOf(c), r) =
          [nothing EXCEPT !.step = step, !.command = command, !.since = since]
    <2>1. IsRequest(nothing, {nothing.entity.revision})
      <3>1. nothing = RequestOf(idle.step, idle.command, EntityAt(LogOf(c), idle.entity),
                                idle.program, idle.fails, idle.done, idle.published, idle.since)
        BY <1>1 DEF RequestAt
      <3>. QED
        BY <3>1, EntityAtFacts DEF IsRequest, RequestOf
    <2>2. [nothing EXCEPT !.step = step, !.command = command, !.since = since] =
            RequestOf(step, command, nothing.entity, nothing.program, nothing.fails, nothing.done,
                      nothing.published, since)
      BY <2>1, Sending
    <2>3. /\ nothing.entity = EntityAt(LogOf(c), idle.entity) /\ nothing.program = idle.program
          /\ nothing.fails = idle.fails /\ nothing.done = idle.done
          /\ nothing.published = idle.published
      BY <1>1 DEF RequestAt, RequestOf
    <2>4. RequestAt(LogOf(c), r) =
            RequestOf(step, command, EntityAt(LogOf(c), idle.entity), idle.program, idle.fails,
                      idle.done, idle.published, since)
      BY DEF RequestAt, RequestOf
    <2>. HIDE DEF r
    <2>. QED
      BY <2>2, <2>3, <2>4
  <1>7. Requests[c].step = request[c].step
    BY RequestFacts DEF Mappable
  <1>8. OnLog!Send(c, step, command, since)
    <2>. HIDE DEF r
    <2>. QED
      BY <1>5, <1>6, <1>7 DEF OnLog!Send, OnLog!At, Service!Send, Service!At, Requests, Replies, nothing
  <1>. QED
    BY <1>5, <1>8

(* A process that stops loses the same requests. *)
LEMMA StopMaps ==
  ASSUME Mappable, NEW users \in SUBSET Client, Service!Stop(users)
  PROVE  /\ OnLog!Stop(users) /\ EntitiesLoaded'
         /\ \A d \in Client : IF d \in users /\ request[d].step # "idle"
                              THEN request'[d] = Service!Idle ELSE request'[d] = request[d]
  <1>. DEFINE lost == { d \in users : request[d].step # "idle" }
              Lost(d) == ReplyOf("error", request[d].command, Service!NoEntity, request[d].program,
                                 request[d].since)
              LostOnLog(d) == ReplyOf("error", request[d].command, OnLog!NoEntity,
                                      request[d].program, request[d].since)
  <1>1. \A d \in Client :
          [Service!NoReply EXCEPT !.status = "error", !.command = request[d].command,
             !.program = request[d].program, !.since = request[d].since] = Lost(d)
    <2>. SUFFICES ASSUME NEW d \in Client
                  PROVE  [Service!NoReply EXCEPT !.status = "error", !.command = request[d].command,
                            !.program = request[d].program, !.since = request[d].since] = Lost(d)
      OBVIOUS
    <2>2. Service!NoReply.entity = Service!NoEntity
      BY DEF Service!NoReply
    <2>. DEFINE command == request[d].command
                program == request[d].program
                since == request[d].since
                none == Service!NoReply
    <2>. HIDE DEF command, program, since, none
    <2>3. [none EXCEPT !.status = "error", !.command = command, !.program = program, !.since = since]
            = ReplyOf("error", command, none.entity, program, since)
      <3>1. DOMAIN none = ReplyFields
        BY DEF none, Service!NoReply, ReplyFields
      <3>. QED
        BY <3>1, Losing
    <2>. QED
      BY <2>2, <2>3 DEF command, program, since, none
  <1>2. /\ request' = [d \in Client |-> IF d \in lost THEN Service!Idle ELSE request[d]]
        /\ reply' = [d \in Client |-> IF d \in lost THEN Lost(d) ELSE reply[d]]
    <2>1. /\ request' = [d \in Client |-> IF d \in lost THEN Service!Idle ELSE request[d]]
          /\ reply' = [d \in Client |->
               IF d \in lost
               THEN [Service!NoReply EXCEPT !.status = "error", !.command = request[d].command,
                       !.program = request[d].program, !.since = request[d].since]
               ELSE reply[d]]
      BY DEF Service!Stop, Service!At
    <2>. HIDE DEF Lost, lost
    <2>. QED
      BY <1>1, <2>1
  <1>3. ASSUME NEW d \in Client
        PROVE  /\ IsRequest(request[d], Bounds(LogOf(d))) /\ IsReply(reply[d], Bounds(LogOf(d)))
               /\ IsRequest(Service!Idle, Bounds(LogOf(d)))
               /\ RequestAt(LogOf(d), Service!Idle) = OnLog!Idle
               /\ IsReply(Lost(d), Bounds(LogOf(d))) /\ ReplyAt(LogOf(d), Lost(d)) = LostOnLog(d)
    <2>1. /\ IsRequest(request[d], Bounds(LogOf(d))) /\ IsReply(reply[d], Bounds(LogOf(d)))
      BY RequestFacts DEF Mappable
    <2>2. /\ IsRequest(Service!Idle, Bounds(LogOf(d)))
          /\ RequestAt(LogOf(d), Service!Idle) = OnLog!Idle
          /\ IsEntity(Service!NoEntity) /\ Service!NoEntity.revision \in Bounds(LogOf(d))
          /\ EntityAt(LogOf(d), Service!NoEntity) = OnLog!NoEntity
      BY Nothing DEF Mappable
    <2>. QED
      BY <2>1, <2>2 DEF IsReply, ReplyAt, ReplyOf
  <1>4. /\ request' = [d \in Client |-> request'[d]] /\ reply' = [d \in Client |-> reply'[d]]
        /\ \A d \in Client : /\ IsRequest(request'[d], Bounds(LogOf(d)))
                             /\ IsReply(reply'[d], Bounds(LogOf(d)))
    <2>. HIDE DEF Lost, LostOnLog, lost
    <2>. QED
      BY <1>2, <1>3
  <1>5. /\ EntitiesLoaded'
        /\ Requests' = [d \in Client |-> RequestAt(LogOf(d), request'[d])]
        /\ Replies' = [d \in Client |-> ReplyAt(LogOf(d), reply'[d])]
    BY <1>4, NextMaps
  <1>6. /\ Requests = [d \in Client |-> RequestAt(LogOf(d), request[d])]
        /\ Replies = [d \in Client |-> ReplyAt(LogOf(d), reply[d])]
    BY RequestsAre DEF Mappable, LogOf
  <1>7. /\ Requests' = [d \in Client |-> IF d \in lost THEN OnLog!Idle ELSE Requests[d]]
        /\ Replies' = [d \in Client |-> IF d \in lost THEN LostOnLog(d) ELSE Replies[d]]
    <2>. HIDE DEF Lost, LostOnLog, lost
    <2>. QED
      BY <1>2, <1>3, <1>5, <1>6
  <1>8. ASSUME NEW d \in Client
        PROVE  /\ Requests[d].step = request[d].step
               /\ [OnLog!NoReply EXCEPT !.status = "error", !.command = Requests[d].command,
                     !.program = Requests[d].program, !.since = Requests[d].since] = LostOnLog(d)
    <2>1. /\ Requests[d].step = request[d].step /\ Requests[d].command = request[d].command
          /\ Requests[d].program = request[d].program /\ Requests[d].since = request[d].since
      BY RequestFacts DEF Mappable
    <2>2. OnLog!NoReply.entity = OnLog!NoEntity
      BY DEF OnLog!NoReply
    <2>. DEFINE command == Requests[d].command
                program == Requests[d].program
                since == Requests[d].since
                none == OnLog!NoReply
    <2>. HIDE DEF command, program, since, none
    <2>3. [none EXCEPT !.status = "error", !.command = command, !.program = program, !.since = since]
            = ReplyOf("error", command, none.entity, program, since)
      <3>1. DOMAIN none = ReplyFields
        BY DEF none, OnLog!NoReply, ReplyFields
      <3>. QED
        BY <3>1, Losing
    <2>4. command = request[d].command /\ program = request[d].program /\ since = request[d].since
      BY <2>1 DEF command, program, since
    <2>5. [OnLog!NoReply EXCEPT !.status = "error", !.command = Requests[d].command,
             !.program = Requests[d].program, !.since = Requests[d].since]
            = ReplyOf("error", command, none.entity, program, since)
      BY <2>3 DEF command, program, since, none
    <2>. QED
      BY <2>1, <2>2, <2>4, <2>5 DEF none
  <1>9. OnLog!Stop(users)
    <2>1. lost = { d \in users : Requests[d].step # "idle" }
      BY <1>8
    <2>2. Replies' = [d \in Client |->
            IF d \in { x \in users : Requests[x].step # "idle" }
            THEN [OnLog!NoReply EXCEPT !.status = "error", !.command = Requests[d].command,
                    !.program = Requests[d].program, !.since = Requests[d].since]
            ELSE Replies[d]]
      <3>. HIDE DEF lost, LostOnLog
      <3>. QED
        BY <1>7, <1>8, <2>1
    <2>3. Requests' = [d \in Client |-> IF d \in { x \in users : Requests[x].step # "idle" }
                                        THEN OnLog!Idle ELSE Requests[d]]
      <3>. HIDE DEF lost
      <3>. QED
        BY <1>7, <2>1
    <2>. QED
      BY <2>2, <2>3 DEF OnLog!Stop, OnLog!At, Requests, Replies
  <1>10. \A d \in Client : IF d \in users /\ request[d].step # "idle"
                           THEN request'[d] = Service!Idle ELSE request'[d] = request[d]
    BY <1>2
  <1>. QED
    BY <1>5, <1>9, <1>10

-----------------------------------------------------------------------------
(***************************************************************************)
(* The inductive invariant.  A call of the store belongs to the step the   *)
(* request is at, and a guarded publication expects the revision of the    *)
(* entity its handler was given.                                           *)
(***************************************************************************)
Linked(local, r, a) ==
  \/ local.step = "idle"
  \/ local.step = "query" /\ r.step \in {"get", "load", "reload"}
  \/ /\ local.step \in {"retry", "make", "write"} /\ r.step = "handle"
     /\ LET publication == r.program[r.done + 1] IN
        /\ publication.aggregate = a /\ publication.events # <<>>
        /\ publication.guarded => local.expected = r.entity.revision

CallsLinked == \A c \in Client : Linked(call[c], request[c], AggregateOf[c])

ContentTyped == content = [a \in Aggregate |-> [r \in Revision |-> content[a][r]]]

SystemInv == BlindInv /\ EntitiesLoaded /\ CallsLinked /\ ContentTyped

(* What a step does to ServiceOnLog, and keeps of the invariant. *)
Simulated ==
  [OnLog!Next]_(OnLog!vars) /\ EntitiesLoaded' /\ CallsLinked' /\ ContentTyped'

(* In the beginning both logs are empty and nothing is requested. *)
LEMMA InitSimulated == InitSystem => OnLog!Init /\ SystemInv
  <1>. SUFFICES ASSUME InitSystem PROVE OnLog!Init /\ SystemInv
    OBVIOUS
  <1>1. BlindInv
    BY InitBlind DEF InitSystem
  <1>2. /\ request = [c \in Client |-> Service!Idle] /\ reply = [c \in Client |-> Service!NoReply]
        /\ sent = [c \in Client |-> 0] /\ log = [a \in Aggregate |-> <<>>]
    BY DEF InitSystem, Service!InitService, Init
  <1>3. EntitiesLoaded
    <2>1. \A c \in Client : /\ IsRequest(Service!Idle, Bounds(log[AggregateOf[c]]))
                            /\ IsReply(Service!NoReply, Bounds(log[AggregateOf[c]]))
      BY <1>1, Nothing DEF LogOf
    <2>. QED
      BY <1>2, <2>1 DEF EntitiesLoaded
  <1>4. CallsLinked
    BY IdleType DEF CallsLinked, Linked, InitSystem, Init
  <1>5. ContentTyped
    BY DEF ContentTyped, InitSystem
  <1>6. Requests = [c \in Client |-> OnLog!Idle] /\ Replies = [c \in Client |-> OnLog!NoReply]
    <2>1. \A c \in Client : /\ RequestAt(log[AggregateOf[c]], request[c]) = OnLog!Idle
                            /\ ReplyAt(log[AggregateOf[c]], reply[c]) = OnLog!NoReply
      BY <1>1, <1>2, Nothing DEF LogOf
    <2>. QED
      BY <1>3, <2>1, RequestsAre
  <1>7. Histories = [a \in Aggregate |-> <<>>]
    <2>1. \A a \in Aggregate : History(a) = <<>>
      BY <1>2 DEF History
    <2>. QED
      BY <2>1 DEF Histories
  <1>8. OnLog!Init
    BY <1>2, <1>6, <1>7 DEF OnLog!Init, OnLog!InitService, Requests, Replies, Histories
  <1>. QED
    BY <1>1, <1>3, <1>4, <1>5, <1>8 DEF SystemInv

(* Logs grow at their ends. *)
LEMMA LogsGrow ==
  ASSUME Blind, BlindInv, [Next]_vars, NEW a \in Aggregate
  PROVE  log'[a] = log[a] \/ \E entry \in LogEntry : log'[a] = Append(log[a], entry)
  <1>1. ASSUME NEW w \in Transaction, Write(w)
        PROVE  log'[a] = log[a] \/ \E entry \in LogEntry : log'[a] = Append(log[a], entry)
    <2>1. [revision |-> w.changes.revision, expected |-> w.expected] \in LogEntry
      BY DEF Transaction, ChangeSet, LogEntry
    <2>. QED
      BY <1>1, <2>1, BlindFacts DEF Write
  <1>2. ASSUME NEW c \in Client, ClientStep(c)
        PROVE  log'[a] = log[a] \/ \E entry \in LogEntry : log'[a] = Append(log[a], entry)
    <2>1. CASE Commit(c)
      BY <1>1, <2>1, BlindSteps DEF Commit
    <2>. QED
      BY <1>2, <2>1, BlindSteps, BlindFacts, ClientLeaves
  <1>3. ASSUME NEW w \in inflight, LateCommit(w)
        PROVE  log'[a] = log[a] \/ \E entry \in LogEntry : log'[a] = Append(log[a], entry)
    BY <1>1, <1>3, BlindFacts DEF LateCommit
  <1>4. CASE UNCHANGED log
    BY <1>4
  <1>. QED
    BY <1>2, <1>3, <1>4 DEF Next, ClientStep, Restart, Replicate, ClockTicks, vars, remoteVars

(* They are logs in order, before and after a step. *)
LEMMA BlindLogs ==
  BlindInv => log \in [Aggregate -> Seq(LogEntry)] /\ \A a \in Aggregate : InLogOrder(log[a])
  BY BlindFacts

(* The logs after a step. *)
LEMMA NextLogs ==
  BlindInv' => log' \in [Aggregate -> Seq(LogEntry)] /\ \A a \in Aggregate : InLogOrder(log'[a])
  <1>1. (BlindInv => /\ log \in [Aggregate -> Seq(LogEntry)]
                     /\ \A a \in Aggregate : InLogOrder(log[a]))'
    BY BlindLogs, PTL
  <1>. QED
    BY <1>1

(* So revisions keep their positions. *)
LEMMA StepKeeps ==
  ASSUME Blind, SystemInv, [NextSystem]_allVars
  PROVE  Mappable /\ BlindInv'
  <1>1. [Next]_vars /\ BlindInv
    BY StoreSteps DEF SystemInv
  <1>2. BlindInv'
    BY <1>1, NextBlind
  <1>3. /\ log' \in [Aggregate -> Seq(LogEntry)]
        /\ \A a \in Aggregate : InLogOrder(log'[a])
    BY <1>2, NextLogs
  <1>4. ASSUME NEW c \in Client, NEW b \in Bounds(LogOf(c))
        PROVE  /\ b \in Bounds(log'[AggregateOf[c]])
               /\ PositionIn(log'[AggregateOf[c]], b) = PositionIn(LogOf(c), b)
    <2>. DEFINE a == AggregateOf[c]
                entries == log[a]
                longer == log'[a]
    <2>1. /\ a \in Aggregate /\ entries \in Seq(LogEntry) /\ longer \in Seq(LogEntry)
          /\ InLogOrder(entries) /\ InLogOrder(longer)
      BY <1>1, <1>2, <1>3, LogFacts DEF LogOf
    <2>2. longer = entries \/ \E entry \in LogEntry : longer = Append(entries, entry)
      BY <1>1, <2>1, LogsGrow
    <2>3. b \in Bounds(entries)
      BY DEF LogOf
    <2>. HIDE DEF entries, longer
    <2>4. Len(entries) <= Len(longer) /\ \A i \in 1 .. Len(entries) : longer[i] = entries[i]
      <3>1. Len(entries) \in Nat
        BY <2>1, LogRevisions
      <3>. QED
        BY <2>1, <2>2, <3>1, AppendFacts
    <2>5. b \in Bounds(longer) /\ PositionIn(longer, b) = PositionIn(entries, b)
      BY <2>1, <2>3, <2>4, PositionsKept
    <2>. QED
      BY <2>5 DEF entries, longer, LogOf
  <1>. QED
    BY <1>1, <1>2, <1>4 DEF Mappable, Keeps, SystemInv

-----------------------------------------------------------------------------
(***************************************************************************)
(* The steps.  Those of the store that return nothing to the service are   *)
(* no steps of ServiceOnLog.                                               *)
(***************************************************************************)
LEMMA HistoriesKept ==
  ASSUME UNCHANGED <<log, content>> PROVE Histories' = Histories
  BY DEF Histories, History

(* A history is as long as its log and has the contents of its change sets. *)
LEMMA HistoryFacts ==
  ASSUME TypeInv, NEW a \in Aggregate
  PROVE  /\ Len(Histories[a]) = Len(log[a]) /\ Len(log[a]) \in Nat
         /\ \A i \in 1 .. Len(log[a]) : Histories[a][i] = content[a][log[a][i].revision]
  <1>1. log[a] \in Seq(LogEntry)
    BY DEF TypeInv, TypeOK
  <1>. DEFINE n == Len(log[a])
              h == [i \in 1 .. n |-> content[a][log[a][i].revision]]
  <1>2. n \in Nat /\ DOMAIN log[a] = 1 .. n
    BY <1>1
  <1>3. Histories[a] = h
    BY <1>2 DEF Histories, History
  <1>. HIDE DEF n
  <1>4. Len(h) = n
    BY <1>2
  <1>. QED
    BY <1>2, <1>3, <1>4 DEF n

(* Whoever else calls the store stays where they are. *)
LEMMA LinkedStays ==
  ASSUME CallsLinked, NEW c \in Client, Linked(call'[c], request'[c], AggregateOf[c]),
         \A d \in Client \ {c} : call'[d] = call[d] /\ request'[d] = request[d]
  PROVE  CallsLinked'
  BY DEF CallsLinked

(* Nobody's request changes, nor the log. *)
LEMMA QuietSteps ==
  ASSUME Mappable, ContentTyped, UNCHANGED <<serviceVars, content, log>>
  PROVE  UNCHANGED OnLog!vars /\ EntitiesLoaded' /\ ContentTyped'
  <1>1. EntitiesLoaded' /\ Requests' = Requests /\ Replies' = Replies /\ Histories' = Histories
    BY NoMoveMaps, HistoriesKept DEF serviceVars
  <1>2. UNCHANGED OnLog!vars
    BY <1>1 DEF OnLog!vars, Requests, Replies, Histories, serviceVars
  <1>3. ContentTyped'
    BY DEF ContentTyped
  <1>. QED
    BY <1>1, <1>2, <1>3

(* A call fails, or is refused. *)
LEMMA FailSteps ==
  ASSUME Mappable, ContentTyped, NEW c \in Client, Service!Fail(c),
         Service!Loading(c) \/ Service!Publishing(c), UNCHANGED <<sent, content, log>>
  PROVE  OnLog!Next /\ Serves(c) /\ ContentTyped'
  <1>1. OnLog!Fail(c) /\ Serves(c)
    BY FailMaps
  <1>2. OnLog!Loading(c) \/ OnLog!Publishing(c)
    <2>1. Requests[c].step = request[c].step
      BY RequestFacts DEF Mappable
    <2>. QED
      BY <2>1 DEF Service!Loading, Service!Publishing, OnLog!Loading, OnLog!Publishing, Service!At,
                  OnLog!At, Requests
  <1>3. OnLog!StoreFails(c)
    BY <1>1, <1>2, HistoriesKept
       DEF OnLog!StoreFails, OnLog!LoadFails, OnLog!PublishFails, Histories
  <1>4. ContentTyped'
    BY DEF ContentTyped
  <1>. QED
    BY <1>1, <1>3, <1>4 DEF OnLog!Next

(* Requests are sent. *)
LEMMA SendSteps ==
  ASSUME Mappable, CallsLinked, ContentTyped, NEW c \in Client, Get(c) \/ Post(c)
  PROVE  Simulated
  <1>1. UNCHANGED <<vars, content>>
    BY DEF Get, Post
  <1>2. UNCHANGED <<log, call, content>>
    BY <1>1 DEF vars, remoteVars, clientVars
  <1>3. Len(Histories[AggregateOf[c]]) = Len(log[AggregateOf[c]])
    BY HistoryFacts, BlindFacts, LogFacts DEF Mappable
  <1>4. Service!Query = OnLog!Query
    BY Nothing DEF Mappable
  <1>5. PICK step, command, since :
          /\ Service!Send(c, step, command, since) /\ since = Len(log[AggregateOf[c]])
          /\ \/ step = "get" /\ command = Service!Query /\ Service!Query \in RequestsOf[c]
             \/ step = "load" /\ command \in RequestsOf[c] \ {Service!Query}
    BY DEF Get, Post, Service!SendGet, Service!SendPost
  <1>6. OnLog!Send(c, step, command, since) /\ Serves(c)
    BY <1>5, SendMaps
  <1>7. Histories' = Histories
    BY <1>2, HistoriesKept
  <1>8. OnLog!Get(c) \/ OnLog!Post(c)
    BY <1>3, <1>4, <1>5, <1>6, <1>7
       DEF OnLog!Get, OnLog!Post, OnLog!SendGet, OnLog!SendPost, Histories
  <1>9. CallsLinked'
    <2>1. request[c].step = "idle"
      BY <1>5 DEF Service!Send, Service!At
    <2>2. call[c].step = "idle"
      BY <2>1 DEF CallsLinked, Linked
    <2>3. Linked(call'[c], request'[c], AggregateOf[c])
      BY <1>2, <2>2 DEF Linked
    <2>. QED
      BY <1>2, <1>6, <2>3, LinkedStays DEF Serves
  <1>10. ContentTyped'
    BY <1>2 DEF ContentTyped
  <1>. QED
    BY <1>6, <1>8, <1>9, <1>10 DEF Simulated, OnLog!Next, Serves

(* The service calls its store, for the step its request is at. *)
LEMMA CallsLink ==
  ASSUME TypeInv, CallsLinked, NEW c \in Client, CallLoad(c) \/ CallPublish(c)
  PROVE  UNCHANGED <<serviceVars, content, log>> /\ CallsLinked'
  <1>0. call \in [Client -> Call]
    BY CallFacts
  <1>1. UNCHANGED log
    BY DEF CallLoad, CallPublish, StartLoad, StartPublish, Begin, remoteVars
  <1>2. CASE CallLoad(c)
    <2>1. UNCHANGED <<serviceVars, content>> /\ Begin(c, [Idle EXCEPT !.step = "query"])
          /\ Service!Loading(c)
      BY <1>2 DEF CallLoad, StartLoad
    <2>2. OthersKept(c) /\ call'[c] = [Idle EXCEPT !.step = "query"]
      BY <1>0, <2>1, BeginMoves
    <2>3. call'[c].step = "query"
      BY <2>2 DEF Idle
    <2>4. Linked(call'[c], request'[c], AggregateOf[c])
      BY <2>1, <2>3 DEF Linked, Service!Loading, serviceVars
    <2>5. CallsLinked'
      BY <2>1, <2>2, <2>4, LinkedStays DEF OthersKept, serviceVars
    <2>. QED
      BY <1>1, <2>1, <2>5
  <1>3. CASE CallPublish(c)
    <2>1. /\ UNCHANGED <<serviceVars, content>> /\ Service!Publishing(c)
          /\ Service!Publication(c).aggregate = AggregateOf[c]
          /\ call'[c].count = Len(Service!Publication(c).events)
          /\ call'[c].expected = IF Service!Publication(c).guarded
                                 THEN request[c].entity.revision ELSE NoRevision
      BY <1>3 DEF CallPublish
    <2>2. PICK policy \in UsesOf[c] \cap Policies, n \in Batches \ {0} :
            Begin(c, Attempting(c, [Idle EXCEPT !.expected = ExpectedBy(c)[policy], !.count = n]))
      BY <1>3 DEF CallPublish, StartPublish
    <2>3. /\ OthersKept(c)
          /\ call'[c] = Attempting(c, [Idle EXCEPT !.expected = ExpectedBy(c)[policy], !.count = n])
      BY <1>0, <2>2, BeginMoves
    <2>4. call'[c].step = "make" /\ call'[c].count = n
      BY <2>3 DEF Attempting, Idle
    <2>5. Service!Publication(c).events # <<>>
      BY <2>1, <2>4
    <2>6. Linked(call'[c], request'[c], AggregateOf[c])
      BY <2>1, <2>4, <2>5 DEF Linked, Service!Publication, Service!Publishing, Service!At, serviceVars
    <2>7. CallsLinked'
      BY <2>1, <2>3, <2>6, LinkedStays DEF OthersKept, serviceVars
    <2>. QED
      BY <1>1, <2>1, <2>7
  <1>. QED
    BY <1>2, <1>3

LEMMA CallSteps ==
  ASSUME Mappable, CallsLinked, ContentTyped, NEW c \in Client,
         CallLoad(c) \/ CallPublish(c) \/ CallPublishNothing(c)
  PROVE  Simulated
  <1>1. CASE CallLoad(c) \/ CallPublish(c)
    <2>1. UNCHANGED <<serviceVars, content, log>> /\ CallsLinked'
      BY <1>1, CallsLink, BlindFacts DEF Mappable
    <2>. QED
      BY <2>1, QuietSteps DEF Simulated
  <1>2. CASE CallPublishNothing(c)
    <2>1. /\ Service!Publishing(c) /\ Service!Fail(c) /\ UNCHANGED <<sent, content, call, log>>
          /\ call[c].step = "idle"
      BY <1>2 DEF CallPublishNothing, PublishNothing, Service!PublishFails, At, remoteVars
    <2>2. OnLog!Next /\ Serves(c) /\ ContentTyped'
      BY <2>1, FailSteps
    <2>3. CallsLinked'
      BY <2>1, <2>2, LinkedStays DEF Serves, Linked
    <2>. QED
      BY <2>2, <2>3 DEF Simulated, Serves
  <1>. QED
    BY <1>1, <1>2

(* A call that ends with an error is answered with an error. *)
LEMMA ErrorReturns ==
  ASSUME TypeInv, NEW c \in Client, NEW result \in {"error", "conflict"}, Return(c, result),
         CallReturns(c)
  PROVE  OthersKept(c) /\ call'[c].step = "idle" /\ Service!Fail(c)
  <1>1. call \in [Client -> Call] /\ outcome \in [Client -> Outcomes]
    BY DEF TypeInv, TypeOK
  <1>2. call'[c] = Idle /\ outcome'[c] = result /\ OthersKept(c)
    BY <1>1 DEF Return, OthersKept
  <1>3. call'[c].step = "idle"
    BY <1>2, IdleType
  <1>. QED
    BY <1>2, <1>3 DEF CallReturns, Service!PublishFails, Service!LoadFails

(* A call under way belongs to the step of its request. *)
LEMMA LinkedFacts ==
  ASSUME CallsLinked, NEW c \in Client
  PROVE  /\ call[c].step \notin {"list", "delete"}
         /\ call[c].step = "query" => Service!Loading(c)
         /\ call[c].step \in {"retry", "make", "write"} =>
              /\ Service!Publishing(c)
              /\ Service!Publication(c).aggregate = AggregateOf[c]
              /\ Service!Publication(c).events # <<>>
              /\ Service!Publication(c).guarded => call[c].expected = request[c].entity.revision
  <1>1. Linked(call[c], request[c], AggregateOf[c])
    BY DEF CallsLinked
  <1>. QED
    BY <1>1 DEF Linked, Service!Loading, Service!Publishing, Service!At, Service!Publication

(* A call that goes on. *)
LEMMA GoesOn ==
  ASSUME Mappable, CallsLinked, ContentTyped, NEW c \in Client, OthersKept(c), CallReturns(c),
         call'[c].step # "idle", Linked(call'[c], request[c], AggregateOf[c]),
         UNCHANGED <<sent, content, log>>
  PROVE  Simulated
  <1>1. UNCHANGED <<request, reply>>
    BY DEF CallReturns
  <1>2. CallsLinked'
    BY <1>1, LinkedStays DEF OthersKept
  <1>3. UNCHANGED <<serviceVars, content, log>>
    BY <1>1 DEF serviceVars
  <1>. QED
    BY <1>2, <1>3, QuietSteps DEF Simulated

(* A call that ends with an error. *)
LEMMA EndsInError ==
  ASSUME Mappable, CallsLinked, ContentTyped, NEW c \in Client,
         NEW result \in {"error", "conflict"}, Return(c, result), CallReturns(c),
         call[c].step # "idle", UNCHANGED <<sent, content, log>>
  PROVE  Simulated
  <1>1. TypeInv
    BY BlindFacts DEF Mappable
  <1>2. OthersKept(c) /\ call'[c].step = "idle" /\ Service!Fail(c)
    BY <1>1, ErrorReturns
  <1>3. Service!Loading(c) \/ Service!Publishing(c)
    <2>1. call[c].step \in Steps
      BY <1>1, CallFacts DEF Call
    <2>. QED
      BY <2>1, LinkedFacts DEF Steps
  <1>4. OnLog!Next /\ Serves(c) /\ ContentTyped'
    BY <1>2, <1>3, FailSteps
  <1>5. CallsLinked'
    BY <1>2, <1>4, LinkedStays DEF Serves, Linked, OthersKept
  <1>. QED
    BY <1>4, <1>5 DEF Simulated, Serves

(* A request of the store fails. *)
LEMMA FailureSteps ==
  ASSUME Mappable, CallsLinked, ContentTyped, NEW c \in Client, StoreFails(c)
  PROVE  Simulated
  <1>1. Return(c, "error") /\ CallReturns(c) /\ call[c].step # "idle"
    BY DEF StoreFails, RequestFails
  <1>2. UNCHANGED <<sent, content, log>>
    BY DEF StoreFails, RequestFails, remoteVars
  <1>. QED
    BY <1>1, <1>2, EndsInError

(* A process stops: its calls and its requests end. *)
LEMMA RestartLinks ==
  ASSUME CallsLinked, NEW p \in Restarting, ProcessRestarts(p)
  PROVE  CallsLinked'
  <1>. DEFINE users == { c \in Client : HostOf[c] = p }
  <1>1. ASSUME NEW d \in Client PROVE Linked(call'[d], request'[d], AggregateOf[d])
    <2>1. CASE d \in users
      <3>1. call'[d] = Idle
        BY <2>1 DEF ProcessRestarts, Restart
      <3>. QED
        BY <3>1, IdleType DEF Linked
    <2>2. CASE d \notin users
      <3>1. call'[d] = call[d] /\ request'[d] = request[d]
        BY <2>2 DEF ProcessRestarts, Restart, Service!Stop
      <3>. QED
        BY <3>1 DEF CallsLinked
    <2>. QED
      BY <2>1, <2>2
  <1>. QED
    BY <1>1 DEF CallsLinked

LEMMA RestartSteps ==
  ASSUME Mappable, CallsLinked, ContentTyped, NEW p \in Restarting, ProcessRestarts(p)
  PROVE  Simulated
  <1>. DEFINE users == { c \in Client : HostOf[c] = p }
  <1>1. Service!Stop(users) /\ UNCHANGED <<sent, content, log>>
    BY DEF ProcessRestarts, Restart, remoteVars
  <1>2. users \in SUBSET Client
    OBVIOUS
  <1>. HIDE DEF users
  <1>3. OnLog!Stop(users) /\ EntitiesLoaded'
    BY <1>1, <1>2, StopMaps
  <1>4. OnLog!Next
    BY <1>1, <1>2, <1>3, HistoriesKept DEF OnLog!Next, OnLog!ProcessStops, Histories
  <1>5. CallsLinked' /\ ContentTyped'
    BY <1>1, RestartLinks DEF ContentTyped
  <1>. QED
    BY <1>3, <1>4, <1>5 DEF Simulated

(* Replicas catch up, clocks tick, or nothing happens. *)
LEMMA OtherSystemSteps ==
  ASSUME Mappable, CallsLinked, ContentTyped, EnvironmentStep \/ UNCHANGED allVars
  PROVE  Simulated
  <1>1. UNCHANGED <<serviceVars, content, log, call>>
    BY DEF EnvironmentStep, Replicate, ClockTicks, allVars, vars, remoteVars, clientVars
  <1>2. CallsLinked'
    BY <1>1 DEF CallsLinked, serviceVars
  <1>. QED
    BY <1>1, <1>2, QuietSteps DEF Simulated

(* The publication is the one ServiceOnLog makes, with the same effect. *)
LEMMA SamePublication ==
  ASSUME EntitiesLoaded, NEW c \in Client
  PROVE  /\ OnLog!Publication(c) = Service!Publication(c)
         /\ OnLog!Recorded(c, Service!Publication(c)) = Recorded(c)
         /\ OnLog!Publishing(c) <=> Service!Publishing(c)
         /\ OnLog!Loading(c) <=> Service!Loading(c)
  <1>1. /\ Requests[c].step = request[c].step /\ Requests[c].program = request[c].program
        /\ Requests[c].done = request[c].done
    BY RequestFacts
  <1>2. OnLog!Publication(c) = Requests[c].program[Requests[c].done + 1]
    BY DEF OnLog!Publication, Requests
  <1>3. Service!Publication(c) = request[c].program[request[c].done + 1]
    BY DEF Service!Publication
  <1>4. OnLog!Recorded(c, Service!Publication(c)) = Recorded(c)
    BY DEF OnLog!Recorded, Recorded
  <1>5. OnLog!Publishing(c) <=> Service!Publishing(c)
    BY <1>1 DEF OnLog!Publishing, Service!Publishing, OnLog!At, Service!At, Requests
  <1>6. OnLog!Loading(c) <=> Service!Loading(c)
    BY <1>1 DEF OnLog!Loading, Service!Loading, Requests
  <1>. QED
    BY <1>1, <1>2, <1>3, <1>4, <1>5, <1>6

(* What a commit appends to the log, appended to the history. *)
LEMMA HistoryGrows ==
  ASSUME TypeInv, ContentTyped, NEW a \in Aggregate, NEW entry \in LogEntry, NEW changes,
         entry.revision \notin RevisionsOf(log[a]), log' = [log EXCEPT ![a] = Append(@, entry)],
         content' = [content EXCEPT ![a][entry.revision] = changes]
  PROVE  ContentTyped' /\ Histories' = [Histories EXCEPT ![a] = Append(@, changes)]
  <1>. DEFINE r == entry.revision
              entries == log[a]
              longer == Append(entries, entry)
              n == Len(entries)
              f == [i \in 1 .. n |-> content[a][entries[i].revision]]
              g == [i \in 1 .. n + 1 |-> content'[a][longer[i].revision]]
              V == { f[i] : i \in 1 .. n } \cup { g[i] : i \in 1 .. n + 1 }
  <1>1. /\ log \in [Aggregate -> Seq(LogEntry)] /\ entries \in Seq(LogEntry)
        /\ n \in Nat /\ DOMAIN entries = 1 .. n /\ r \in Revision
    <2>1. log \in [Aggregate -> Seq(LogEntry)] /\ entries \in Seq(LogEntry)
      BY DEF TypeInv, TypeOK
    <2>2. r \in Revision
      BY DEF LogEntry
    <2>. HIDE DEF entries, r
    <2>. QED
      BY <2>1, <2>2
  <1>2. /\ longer \in Seq(LogEntry) /\ DOMAIN longer = 1 .. n + 1 /\ longer[n + 1] = entry
        /\ \A i \in 1 .. n : longer[i] = entries[i]
    BY <1>1, AppendFacts
  <1>3. content' = [b \in Aggregate |->
                      [s \in Revision |-> IF b = a /\ s = r THEN changes ELSE content[b][s]]]
    BY <1>1 DEF ContentTyped
  <1>4. ContentTyped'
    BY <1>3 DEF ContentTyped
  <1>. HIDE DEF entries, longer, n, r
  <1>5. ASSUME NEW i \in 1 .. n PROVE g[i] = f[i]
    <2>1. entries[i].revision \in RevisionsOf(entries) /\ entries[i].revision \in Revision
      BY <1>1, LogRevisions DEF n
    <2>2. entries[i].revision # r
      BY <2>1 DEF r, entries
    <2>3. i \in 1 .. n + 1 /\ longer[i] = entries[i]
      BY <1>1, <1>2
    <2>. QED
      BY <1>3, <2>1, <2>2, <2>3
  <1>6. g[n + 1] = changes
    BY <1>1, <1>2, <1>3 DEF r
  <1>7. g = Append(f, changes)
    <2>1. f \in [1 .. n -> V] /\ g \in [1 .. n + 1 -> V]
      <3>1. \A i \in 1 .. n : f[i] \in V
        OBVIOUS
      <3>2. \A i \in 1 .. n + 1 : g[i] \in V
        OBVIOUS
      <3>3. f = [i \in 1 .. n |-> f[i]] /\ g = [i \in 1 .. n + 1 |-> g[i]]
        OBVIOUS
      <3>. HIDE DEF f, g, V
      <3>. QED
        BY <3>1, <3>2, <3>3
    <2>. HIDE DEF f, g, V
    <2>. QED
      BY <1>1, <1>5, <1>6, <2>1, MappedAppend
  <1>8. Histories[a] = f
    BY <1>1 DEF Histories, History, entries
  <1>9. Histories' = [b \in Aggregate |-> IF b = a THEN g ELSE Histories[b]]
    <2>1. ASSUME NEW b \in Aggregate PROVE History(b)' = IF b = a THEN g ELSE Histories[b]
      <3>1. CASE b = a
        <4>1. log'[a] = longer
          BY <1>1 DEF longer, entries
        <4>2. History(a)' = [i \in DOMAIN longer |-> content'[a][longer[i].revision]]
          BY <4>1 DEF History
        <4>. QED
          BY <1>2, <3>1, <4>2
      <3>2. CASE b # a
        <4>1. log'[b] = log[b] /\ log[b] \in Seq(LogEntry)
          BY <1>1, <3>2
        <4>2. \A i \in DOMAIN log[b] : log[b][i].revision \in Revision
          <5>1. DOMAIN log[b] = 1 .. Len(log[b])
            BY <4>1
          <5>. QED
            BY <4>1, <5>1, LogRevisions
        <4>3. \A i \in DOMAIN log[b] : content'[b][log[b][i].revision] = content[b][log[b][i].revision]
          BY <1>3, <3>2, <4>2
        <4>4. History(b)' = History(b)
          BY <4>1, <4>3 DEF History
        <4>. QED
          BY <3>2, <4>4 DEF Histories
      <3>. QED
        BY <3>1, <3>2
    <2>. QED
      BY <2>1 DEF Histories
  <1>. HIDE DEF f, g, V
  <1>10. Histories' = [Histories EXCEPT ![a] = Append(@, changes)]
    <2>1. Histories = [b \in Aggregate |-> Histories[b]]
      BY DEF Histories
    <2>2. Histories' = [b \in Aggregate |-> IF b = a THEN Append(Histories[a], changes) ELSE Histories[b]]
      BY <1>7, <1>8, <1>9
    <2>. QED
      BY <2>1, <2>2
  <1>. QED
    BY <1>4, <1>10

(* A guarded publication that commits found its entity as it was loaded. *)
LEMMA GuardHolds ==
  ASSUME Mappable, CallsLinked, NEW c \in Client, At(c, "write"), CanWrite(TransactionOf(c)),
         call[c].expected \in {NoRevision, InitialRevision}
  PROVE  OnLog!IsExpected(c, Service!Publication(c))
  <1>. DEFINE a == AggregateOf[c]
              publication == Service!Publication(c)
              position == Requests[c].entity.revision
  <1>1. /\ publication.aggregate = a
        /\ publication.guarded => call[c].expected = request[c].entity.revision
    BY LinkedFacts DEF At
  <1>2. /\ a \in Aggregate /\ LogOf(c) = log[a] /\ log[a] \in Seq(LogEntry)
        /\ PositionIn(LogOf(c), InitialRevision) = 0 /\ LatestIsCommitted
    BY LogFacts, BlindFacts DEF Mappable, LogOf
  <1>3. /\ request[c].entity.revision \in Bounds(log[a])
        /\ position = PositionIn(log[a], request[c].entity.revision)
    BY <1>2, RequestFacts, EntityAtFacts DEF Mappable, IsRequest
  <1>4. request[c].entity.revision \in Nat
    BY <1>2, <1>3, LogRevisions
  <1>. HIDE DEF publication, position
  <1>5. ASSUME publication.guarded PROVE position = Len(Histories[a])
    <2>1. call[c].expected = InitialRevision /\ request[c].entity.revision = InitialRevision
      BY <1>1, <1>4, <1>5, RevisionFacts
    <2>2. table[a].latest = NoRevision
      BY <2>1, RevisionFacts DEF CanWrite, TransactionOf, LatestCondition
    <2>3. log[a] = <<>>
      <3>1. Len(log[a]) \in Nat /\ (log[a] # <<>> => Len(log[a]) \in 1 .. Len(log[a]))
        BY <1>2
      <3>2. log[a] # <<>> => log[a][Len(log[a])].revision \in Revision
        BY <1>2, <3>1, LogRevisions
      <3>3. log[a] # <<>> => table[a].latest = log[a][Len(log[a])].revision
        BY <1>2 DEF LatestIsCommitted
      <3>. QED
        BY <2>2, <3>2, <3>3, RevisionFacts
    <2>4. Len(Histories[a]) = 0
      <3>1. Len(Histories[a]) = Len(log[a])
        BY <1>2, HistoryFacts, BlindFacts DEF Mappable
      <3>. QED
        BY <2>3, <3>1
    <2>. QED
      BY <1>2, <1>3, <2>1, <2>4
  <1>6. publication.guarded => position = Len(Histories[publication.aggregate])
    BY <1>1, <1>5
  <1>. QED
    BY <1>6 DEF OnLog!IsExpected, publication, position, Requests, Histories

(* What a transaction that commits records, and how its call ends. *)
LEMMA CommitAppends ==
  ASSUME StoreInv, ContentTyped, NEW c \in Client, Commit(c), PutContent(c)
  PROVE  /\ ContentTyped'
         /\ Histories' = [Histories EXCEPT ![AggregateOf[c]] = Append(@, Recorded(c))]
         /\ OthersKept(c) /\ call'[c].step = "idle" /\ outcome'[c] \in {"published", "error"}
  <1>. DEFINE a == AggregateOf[c]
              w == TransactionOf(c)
              entry == [revision |-> Changes(c).revision, expected |-> call[c].expected]
  <1>1. /\ At(c, "write") /\ Write(w) /\ TypeInv
        /\ a \in Aggregate /\ log \in [Aggregate -> Seq(LogEntry)]
    BY CallFacts DEF Commit, StoreInv, TypeInv, TypeOK
  <1>2. /\ w.aggregate = a /\ w.expected = call[c].expected /\ w.changes = Changes(c)
    BY DEF TransactionOf
  <1>3. w \in Transaction /\ Changes(c).revision \notin RevisionsOf(log[a])
    BY <1>1, SentIsFresh
  <1>4. entry \in LogEntry /\ entry.revision = Changes(c).revision
    <2>1. w.changes \in ChangeSet /\ w.expected \in Revision \cup {NoRevision, InitialRevision}
      BY <1>3 DEF Transaction
    <2>2. Changes(c).revision \in Revision
      BY <1>2, <2>1 DEF ChangeSet
    <2>. QED
      BY <1>2, <2>1, <2>2 DEF LogEntry
  <1>5. log' = [log EXCEPT ![a] = Append(@, entry)]
    BY <1>1, <1>2 DEF Write
  <1>. HIDE DEF entry
  <1>6. content' = [content EXCEPT ![a][entry.revision] = Recorded(c)]
    <2>1. log'[a] # log[a]
      <3>1. log[a] \in Seq(LogEntry) /\ Len(log[a]) \in Nat
        BY <1>1
      <3>2. log'[a] = Append(log[a], entry)
        BY <1>1, <1>5
      <3>3. Len(log'[a]) = Len(log[a]) + 1
        BY <1>4, <3>1, <3>2, AppendFacts
      <3>. QED
        BY <3>1, <3>3
    <2>2. log' # log
      BY <2>1
    <2>. QED
      BY <1>4, <2>2 DEF PutContent
  <1>7. ContentTyped' /\ Histories' = [Histories EXCEPT ![a] = Append(@, Recorded(c))]
    BY <1>1, <1>3, <1>4, <1>5, <1>6, HistoryGrows
  <1>8. PICK result \in {"published", "error"} : Return(c, result)
    BY DEF Commit
  <1>9. OthersKept(c) /\ call'[c].step = "idle" /\ outcome'[c] = result
    <2>1. call \in [Client -> Call] /\ outcome \in [Client -> Outcomes]
      BY <1>1 DEF TypeInv, TypeOK
    <2>2. call'[c] = Idle /\ outcome'[c] = result /\ OthersKept(c)
      BY <1>8, <2>1 DEF Return, OthersKept
    <2>. QED
      BY <2>2, IdleType
  <1>. QED
    BY <1>7, <1>9

(* A transaction commits: ServiceOnLog publishes, and its reply may be lost. *)
LEMMA CommitSteps ==
  ASSUME Blind, Mappable, CallsLinked, ContentTyped, NEW c \in Client,
         Commit(c), PutContent(c), CallReturns(c), UNCHANGED sent
  PROVE  Simulated
  <1>. DEFINE a == AggregateOf[c]
              w == TransactionOf(c)
              publication == Service!Publication(c)
  <1>1. /\ At(c, "write") /\ Write(w) /\ BlindInv /\ EntitiesLoaded /\ StoreInv
    BY BlindFacts DEF Commit, Mappable, BlindInv
  <1>2. call[c].expected \in {NoRevision, InitialRevision}
    <2>1. w.expected \in {NoRevision, InitialRevision}
      BY <1>1, BlindSteps
    <2>. QED
      BY <2>1 DEF TransactionOf
  <1>3. /\ ContentTyped' /\ Histories' = [Histories EXCEPT ![a] = Append(@, Recorded(c))]
        /\ OthersKept(c) /\ call'[c].step = "idle" /\ outcome'[c] \in {"published", "error"}
    BY <1>1, CommitAppends
  <1>4. /\ Service!Publishing(c) /\ publication.aggregate = a /\ publication.events # <<>>
    BY <1>1, LinkedFacts DEF At
  <1>5. OnLog!IsExpected(c, publication)
    <2>1. CanWrite(w)
      BY <1>1 DEF Write
    <2>. QED
      BY <1>1, <1>2, <2>1, GuardHolds
  <1>. DEFINE result == outcome'[c]
  <1>6. OnLog!PublishReturns(c) \/ OnLog!PublishFails(c)
    <2>1. CASE result = "published"
      <3>1. Service!PublishReturns(c)
        BY <1>3, <2>1 DEF CallReturns
      <3>. QED
        BY <3>1, PublishReturnsMaps
    <2>2. CASE result = "error"
      <3>1. Service!Fail(c)
        BY <1>3, <2>2 DEF CallReturns, Service!PublishFails, Service!LoadFails
      <3>2. OnLog!Fail(c)
        BY <3>1, FailMaps
      <3>. QED
        BY <3>2 DEF OnLog!PublishFails
    <2>. QED
      BY <1>3, <2>1, <2>2
  <1>7. Serves(c)
    <2>1. CASE result = "published"
      <3>1. Service!PublishReturns(c)
        BY <1>3, <2>1 DEF CallReturns
      <3>. QED
        BY <3>1, PublishReturnsMaps
    <2>2. CASE result = "error"
      <3>1. Service!Fail(c)
        BY <1>3, <2>2 DEF CallReturns, Service!PublishFails, Service!LoadFails
      <3>. QED
        BY <3>1, FailMaps
    <2>. QED
      BY <1>3, <2>1, <2>2
  <1>8. OnLog!Publish(c)
    <2>1. /\ OnLog!Publication(c) = publication /\ OnLog!Recorded(c, publication) = Recorded(c)
          /\ OnLog!Publishing(c)
      BY <1>1, <1>4, SamePublication
    <2>2. Histories' = IF publication.events = <<>> THEN Histories
                       ELSE [Histories EXCEPT ![publication.aggregate] =
                               Append(@, OnLog!Recorded(c, publication))]
      BY <1>3, <1>4, <2>1
    <2>. HIDE DEF publication
    <2>. QED
      BY <1>5, <1>6, <2>1, <2>2 DEF OnLog!Publish, Histories
  <1>9. CallsLinked'
    BY <1>3, <1>7, LinkedStays DEF Serves, Linked, OthersKept
  <1>. QED
    BY <1>3, <1>7, <1>8, <1>9 DEF Simulated, OnLog!Next, Serves

(* What the last page returns, after the step. *)
LEMMA NextLoads ==
  BlindInv' =>
    \A c \in Client : loaded'[c] # NotLoaded =>
      \E k \in 0 .. Len(log'[AggregateOf[c]]) :
        /\ { s.revision : s \in loaded'[c].sets } = Prefix(log'[AggregateOf[c]], k)
        /\ loaded'[c].revision = IF k = 0 THEN InitialRevision ELSE log'[AggregateOf[c]][k].revision
  <1>1. (BlindInv => LoadsArePrefixes)'
    BY BlindLoads, PTL
  <1>. QED
    BY <1>1 DEF LoadsArePrefixes

(* The events a load shows are those of as many change sets of the history. *)
LEMMA SameEvents ==
  ASSUME BlindInv, NEW a \in Aggregate, NEW sets, NEW k \in 0 .. Len(log[a]),
         { s.revision : s \in sets } = Prefix(log[a], k)
  PROVE  EventsIn(a, sets) = OnLog!EventsUpTo(a, k)
  <1>. DEFINE entries == log[a]
              g == [i \in 1 .. k |-> entries[i].revision]
              keys == SortedKeys({ s.revision : s \in sets })
  <1>1. /\ entries \in Seq(LogEntry) /\ InLogOrder(entries) /\ k \in Nat /\ Len(entries) \in Nat
        /\ \A i \in 1 .. k : i \in 1 .. Len(entries)
    BY BlindFacts, HistoryFacts
  <1>. HIDE DEF entries
  <1>2. g \in [1 .. k -> Nat] /\ \A i, j \in 1 .. k : i < j => g[i] < g[j]
    <2>1. \A i \in 1 .. k : entries[i].revision \in Nat
      BY <1>1, LogRevisions, RevisionFacts
    <2>. QED
      BY <1>1, <2>1 DEF InLogOrder
  <1>3. { s.revision : s \in sets } = { g[i] : i \in 1 .. k }
    BY DEF Prefix, entries
  <1>4. keys = g
    <2>. HIDE DEF g
    <2>1. SortedKeys({ g[i] : i \in 1 .. k }) = g
      BY <1>1, <1>2, SortedKeysAre
    <2>. QED
      BY <1>3, <2>1
  <1>5. [i \in DOMAIN keys |-> content[a][keys[i]].events]
          = [i \in 1 .. k |-> Histories[a][i].events]
    <2>1. \A i \in 1 .. k : Histories[a][i] = content[a][g[i]]
      BY <1>1, HistoryFacts, BlindFacts DEF entries
    <2>2. DOMAIN keys = 1 .. k
      BY <1>4
    <2>3. \A i \in 1 .. k : keys[i] = g[i]
      BY <1>4
    <2>. HIDE DEF keys, g
    <2>. QED
      BY <2>1, <2>2, <2>3
  <1>. DEFINE events == [i \in 1 .. k |-> Histories[a][i].events]
  <1>6. EventsIn(a, sets) = Service!FlattenSeq(events)
    BY <1>5 DEF EventsIn
  <1>7. OnLog!EventsUpTo(a, k) = OnLog!FlattenSeq(events)
    BY DEF OnLog!EventsUpTo, Histories
  <1>. HIDE DEF events
  <1>8. Service!FlattenSeq(events) = OnLog!FlattenSeq(events)
    BY DEF Service!FlattenSeq, OnLog!FlattenSeq
  <1>. QED
    BY <1>6, <1>7, <1>8

(* A query of the table itself shows the whole log. *)
LEMMA WholeLog ==
  ASSUME BlindInv, NEW c \in Client, At(c, "query"), NEW k \in 0 .. Len(LogOf(c)),
         LET sets == table[AggregateOf[c]].sets
             rest == { s \in sets : s.revision > call[c].cursor }
         IN  { s.revision : s \in call[c].view \cup rest } = Prefix(LogOf(c), k)
  PROVE  k = Len(LogOf(c))
  <1>. DEFINE a == AggregateOf[c]
              sets == table[a].sets
              entries == LogOf(c)
              cursor == call[c].cursor
              rest == { s \in sets : s.revision > cursor }
  <1>1. /\ a \in Aggregate /\ entries \in Seq(LogEntry) /\ InLogOrder(entries)
        /\ LogIsStored(entries, sets) /\ sets \in SUBSET ChangeSet
    BY LogFacts, BlindFacts DEF LogOf
  <1>2. cursor \in Bounds(entries) /\ call[c].view = UpTo(sets, cursor)
    BY DEF BlindInv, QueriesInOrder, ReadUpTo, At, LogOf
  <1>3. { s.revision : s \in call[c].view \cup rest } = Prefix(entries, k)
    OBVIOUS
  <1>4. k \in Nat /\ k <= Len(entries) /\ Len(entries) \in Nat
    <2>1. Len(entries) \in Nat
      BY <1>1, LogRevisions
    <2>. HIDE DEF entries
    <2>. QED
      BY <2>1 DEF entries
  <1>. HIDE DEF sets, entries, cursor
  <1>5. call[c].view \cup rest = sets
    <2>1. cursor \in Nat
      BY <1>1, <1>2, LogRevisions
    <2>2. \A s \in sets : s.revision \in Nat
      BY <1>1, RevisionFacts DEF ChangeSet
    <2>. QED
      BY <1>2, <2>1, <2>2 DEF UpTo
  <1>6. ASSUME k < Len(entries) PROVE FALSE
    <2>1. k + 1 \in 1 .. Len(entries)
      BY <1>4, <1>6
    <2>2. entries[k + 1].revision \in RevisionsOf(entries)
      BY <1>1, <2>1, LogRevisions
    <2>3. entries[k + 1].revision \in Prefix(entries, k)
      BY <1>1, <1>3, <1>5, <2>2 DEF LogIsStored
    <2>4. PICK i \in 1 .. k : entries[k + 1].revision = entries[i].revision
      BY <2>3 DEF Prefix
    <2>5. i \in 1 .. Len(entries) /\ i < k + 1
      BY <1>4
    <2>6. entries[i].revision < entries[k + 1].revision /\ entries[i].revision \in Nat
      BY <1>1, <2>1, <2>5, LogRevisions, RevisionFacts DEF InLogOrder
    <2>. QED
      BY <2>4, <2>6
  <1>. QED
    BY <1>4, <1>6 DEF entries

(* The last page of a load: ServiceOnLog loads as many change sets. *)
LEMMA LastPage ==
  ASSUME HandlersIgnoreRevisions, Mappable, BlindInv', CallsLinked, ContentTyped, NEW c \in Client,
         At(c, "query"), NEW version \in Versions(AggregateOf[c]),
         ReturnLoaded(c, call[c].view \cup { s \in version.sets : s.revision > call[c].cursor }),
         CallReturns(c), UNCHANGED <<sent, content, log>>
  PROVE  Simulated
  <1>. DEFINE a == AggregateOf[c]
              entries == LogOf(c)
              rest == { s \in version.sets : s.revision > call[c].cursor }
              sets == call[c].view \cup rest
  <1>1. /\ BlindInv /\ EntitiesLoaded /\ TypeInv /\ a \in Aggregate /\ entries = log[a]
        /\ entries \in Seq(LogEntry) /\ InLogOrder(entries) /\ Len(entries) \in Nat
        /\ loaded \in [Client -> Loaded] /\ version \in Partition
        /\ Len(Histories[a]) = Len(entries)
    BY BlindFacts, LogFacts, HistoryFacts, VersionType, CallFacts DEF Mappable, LogOf
  <1>2. PICK revision \in RevisionsFrom(sets) :
          loaded' = [loaded EXCEPT ![c] = [revision |-> revision, sets |-> sets]]
    BY DEF ReturnLoaded
  <1>3. sets \in SUBSET ChangeSet
    <2>1. call[c].view \in SUBSET ChangeSet /\ version.sets \in SUBSET ChangeSet
      BY <1>1, CallFacts DEF Call, Partition
    <2>. QED
      BY <2>1
  <1>. HIDE DEF sets, entries
  <1>4. /\ loaded'[c].revision = revision /\ loaded'[c].sets = sets /\ loaded'[c] # NotLoaded
    <2>1. revision \in Revision \cup {InitialRevision}
      BY <1>1, <1>3, LoadedType
    <2>2. revision # NoRevision
      BY <2>1, RevisionFacts
    <2>3. loaded'[c] = [revision |-> revision, sets |-> sets]
      BY <1>1, <1>2
    <2>. QED
      BY <2>2, <2>3 DEF NotLoaded
  <1>5. PICK k \in 0 .. Len(entries) :
          /\ { s.revision : s \in sets } = Prefix(entries, k)
          /\ revision = IF k = 0 THEN InitialRevision ELSE entries[k].revision
    BY <1>1, <1>4, NextLoads
  <1>6. revision \in Bounds(entries) /\ PositionIn(entries, revision) = k
    <2>1. CASE k = 0
      BY <1>1, <1>5, <2>1, PositionOf DEF Bounds
    <2>2. CASE k # 0
      <3>1. k \in 1 .. Len(entries) /\ revision = entries[k].revision
        BY <1>1, <1>5, <2>2
      <3>. QED
        BY <1>1, <3>1, PositionOf, LogRevisions DEF Bounds
    <2>. QED
      BY <2>1, <2>2
  <1>7. OthersKept(c) /\ call'[c].step = "idle" /\ outcome'[c] = "none"
    <2>1. call \in [Client -> Call] /\ outcome \in [Client -> Outcomes] /\ Return(c, "none")
      BY <1>1 DEF TypeInv, TypeOK, ReturnLoaded
    <2>2. call'[c] = Idle /\ outcome'[c] = "none" /\ OthersKept(c)
      BY <2>1 DEF Return, OthersKept
    <2>. QED
      BY <2>2, IdleType
  <1>8. Service!LoadReturns(c, revision, EventsIn(a, sets))
    BY <1>4, <1>7 DEF CallReturns
  <1>9. OnLog!LoadReturns(c, k, EventsIn(a, sets)) /\ Serves(c)
    <2>1. \A events : Service!LoadReturns(c, revision, events) =>
            OnLog!LoadReturns(c, PositionIn(entries, revision), events) /\ Serves(c)
      BY <1>6, LoadReturnsMaps DEF entries
    <2>. QED
      BY <1>6, <1>8, <2>1
  <1>10. EventsIn(a, sets) = OnLog!EventsUpTo(a, k)
    BY <1>1, <1>5, SameEvents
  <1>11. k \in OnLog!Versions(a)
    <2>1. ASSUME ~StaleReads PROVE k = Len(entries)
      <3>1. version = table[a]
        BY <2>1 DEF Versions
      <3>2. sets = call[c].view \cup { s \in table[a].sets : s.revision > call[c].cursor }
        BY <3>1 DEF sets
      <3>. QED
        BY <1>1, <1>5, <3>2, WholeLog DEF entries
    <2>2. k \in (IF StaleReads THEN 0 ELSE Len(Histories[a])) .. Len(Histories[a])
      BY <1>1, <1>5, <2>1
    <2>. QED
      BY <2>2 DEF OnLog!Versions, Histories
  <1>12. OnLog!Loading(c)
    BY <1>1, SamePublication, LinkedFacts DEF At
  <1>13. UNCHANGED <<sent, Histories>>
    BY HistoriesKept
  <1>14. OnLog!Load(c)
    <2>1. OnLog!LoadReturns(c, k, OnLog!EventsUpTo(a, k))
      BY <1>9, <1>10
    <2>. QED
      BY <1>11, <1>12, <1>13, <2>1 DEF OnLog!Load, Histories
  <1>15. CallsLinked'
    BY <1>7, <1>9, LinkedStays DEF Serves, Linked, OthersKept
  <1>16. ContentTyped'
    BY DEF ContentTyped
  <1>. QED
    BY <1>9, <1>14, <1>15, <1>16 DEF Simulated, OnLog!Next, Serves

(* The store goes on with the call of c: the call goes on, fails, commits,  *)
(* or has read its last page.                                              *)
GoesOnOrEnds(c) ==
  /\ OthersKept(c) /\ CallReturns(c) /\ UNCHANGED sent
  /\ \/ /\ UNCHANGED <<content, log>> /\ call'[c].step # "idle"
        /\ Linked(call'[c], request[c], AggregateOf[c])
     \/ /\ UNCHANGED <<content, log>> /\ call[c].step # "idle"
        /\ \E result \in {"error", "conflict"} : Return(c, result)
     \/ Commit(c) /\ PutContent(c)
     \/ /\ UNCHANGED <<content, log>> /\ At(c, "query")
        /\ \E version \in Versions(AggregateOf[c]) :
             ReturnLoaded(c, call[c].view \cup { s \in version.sets : s.revision > call[c].cursor })

LEMMA StoreStepEnds ==
  ASSUME TypeInv, CallsLinked, NEW c \in Client, StoreStep(c)
  PROVE  GoesOnOrEnds(c)
  <1>1. /\ call[c] \in Call /\ call \in [Client -> Call]
        /\ PutContent(c) /\ CallReturns(c) /\ UNCHANGED sent /\ OthersKept(c)
    BY CallFacts, StepMoves DEF StoreStep
  <1>2. log' = log => content' = content
    BY <1>1 DEF PutContent
  <1>3. Linked(call[c], request[c], AggregateOf[c])
    BY DEF CallsLinked
  <1>4. CASE Retry(c)
    <2>1. UNCHANGED log /\ call[c].step = "retry"
      BY <1>4 DEF Retry, remoteVars, At
    <2>2. call'[c].step = "make" /\ call'[c].expected = call[c].expected
      BY <1>1, <1>4 DEF Retry, Attempting, Call
    <2>3. Linked(call'[c], request[c], AggregateOf[c])
      BY <1>3, <2>1, <2>2 DEF Linked
    <2>. QED
      BY <1>1, <1>2, <2>1, <2>2, <2>3 DEF GoesOnOrEnds
  <1>5. CASE RecordEvent(c)
    <2>1. UNCHANGED log /\ call[c].step = "make"
      BY <1>5 DEF RecordEvent, remoteVars, At
    <2>2. Draws(c)
      BY <1>5, RecordEventDraws
    <2>3. call'[c].step \in {"make", "write"} /\ call'[c].expected = call[c].expected
      BY <2>2 DEF Draws
    <2>4. Linked(call'[c], request[c], AggregateOf[c])
      BY <1>3, <2>1, <2>3 DEF Linked
    <2>. QED
      BY <1>1, <1>2, <2>1, <2>3, <2>4 DEF GoesOnOrEnds
  <1>6. CASE GeneratorPanics(c)
    BY <1>1, <1>2, <1>6 DEF GeneratorPanics, remoteVars, At, GoesOnOrEnds
  <1>7. CASE Commit(c)
    BY <1>1, <1>7 DEF GoesOnOrEnds
  <1>8. CASE ConditionFails(c)
    <2>1. UNCHANGED log /\ call[c].step = "write"
      BY <1>8 DEF ConditionFails, remoteVars, At
    <2>2. CASE call' = [call EXCEPT ![c].step = "retry"]
      <3>1. call'[c].step = "retry" /\ call'[c].expected = call[c].expected
        BY <1>1, <2>2 DEF Call
      <3>2. Linked(call'[c], request[c], AggregateOf[c])
        BY <1>3, <2>1, <3>1 DEF Linked
      <3>. QED
        BY <1>1, <1>2, <2>1, <3>1, <3>2 DEF GoesOnOrEnds
    <2>3. CASE Return(c, "conflict")
      BY <1>1, <1>2, <2>1, <2>3 DEF GoesOnOrEnds
    <2>. QED
      BY <1>8, <2>2, <2>3 DEF ConditionFails
  <1>9. CASE QueryPage(c)
    <2>1. UNCHANGED log /\ call[c].step = "query" /\ At(c, "query")
      BY <1>9 DEF QueryPage, remoteVars, At
    <2>2. PICK version \in Versions(AggregateOf[c]) :
            LET rest == { s \in version.sets : s.revision > call[c].cursor } IN
            \/ ReturnLoaded(c, call[c].view \cup rest)
            \/ \E end \in rest :
                 call' = [call EXCEPT ![c].cursor = end.revision,
                                      ![c].view = @ \cup { s \in rest : s.revision <= end.revision }]
      BY <1>9 DEF QueryPage
    <2>. DEFINE rest == { s \in version.sets : s.revision > call[c].cursor }
    <2>3. CASE ReturnLoaded(c, call[c].view \cup rest)
      BY <1>1, <1>2, <2>1, <2>3 DEF GoesOnOrEnds
    <2>4. ASSUME NEW end \in rest,
                 call' = [call EXCEPT ![c].cursor = end.revision,
                                      ![c].view = @ \cup { s \in rest : s.revision <= end.revision }]
          PROVE  GoesOnOrEnds(c)
      <3>1. call'[c].step = "query"
        BY <1>1, <2>1, <2>4 DEF Call
      <3>2. Linked(call'[c], request[c], AggregateOf[c])
        BY <1>3, <2>1, <3>1 DEF Linked
      <3>. QED
        BY <1>1, <1>2, <2>1, <3>1, <3>2 DEF GoesOnOrEnds
    <2>. QED
      BY <2>2, <2>3, <2>4
  <1>10. CASE ListPage(c) \/ DeletePage(c)
    BY <1>3, <1>10, LinkedFacts DEF ListPage, DeletePage, At
  <1>. QED
    BY <1>4, <1>5, <1>6, <1>7, <1>8, <1>9, <1>10 DEF StoreStep, Step

LEMMA StoreStepSteps ==
  ASSUME Blind, HandlersIgnoreRevisions, Mappable, BlindInv', CallsLinked, ContentTyped,
         NEW c \in Client, StoreStep(c)
  PROVE  Simulated
  <1>1. GoesOnOrEnds(c)
    BY StoreStepEnds, BlindFacts DEF Mappable
  <1>. QED
    BY <1>1, GoesOn, EndsInError, CommitSteps, LastPage DEF GoesOnOrEnds

(* Every step of the service on DynamoDB is a step of the service on a log. *)
LEMMA NextSimulated ==
  ASSUME Blind, HandlersIgnoreRevisions, SystemInv, [NextSystem]_allVars
  PROVE  [OnLog!Next]_(OnLog!vars) /\ SystemInv'
  <1>1. Mappable /\ BlindInv' /\ CallsLinked /\ ContentTyped
    BY StepKeeps DEF SystemInv
  <1>2. ASSUME NEW c \in Client, Get(c) \/ Post(c) PROVE Simulated
    BY <1>1, <1>2, SendSteps
  <1>3. ASSUME NEW c \in Client, CallLoad(c) \/ CallPublish(c) \/ CallPublishNothing(c)
        PROVE  Simulated
    BY <1>1, <1>3, CallSteps
  <1>4. ASSUME NEW c \in Client, StoreStep(c) PROVE Simulated
    BY <1>1, <1>4, StoreStepSteps
  <1>5. ASSUME NEW c \in Client, StoreFails(c) PROVE Simulated
    BY <1>1, <1>5, FailureSteps
  <1>6. ASSUME NEW p \in Restarting, ProcessRestarts(p) PROVE Simulated
    BY <1>1, <1>6, RestartSteps
  <1>7. ASSUME EnvironmentStep \/ UNCHANGED allVars PROVE Simulated
    BY <1>1, <1>7, OtherSystemSteps
  <1>8. Simulated
    BY <1>2, <1>3, <1>4, <1>5, <1>6, <1>7 DEF NextSystem
  <1>. QED
    BY <1>1, <1>8 DEF Simulated, SystemInv

(* The service on DynamoDB, with its clocks, pages, stale replicas,         *)
(* retries, lost replies and restarts, does nothing the service on a log    *)
(* does not do, for any number of processes, users and aggregates and any   *)
(* application whose handlers do not compute with ULIDs, when no publisher  *)
(* uses a revision it loaded and nobody removes: the clocks may differ by   *)
(* any amount.                                                              *)
THEOREM ServiceImplementsLog ==
  ASSUME Blind, HandlersIgnoreRevisions
  PROVE  System => ImplementsServiceOnLog
  <1>1. InitSystem => OnLog!Init /\ SystemInv
    BY InitSimulated
  <1>2. SystemInv /\ [NextSystem]_allVars => [OnLog!Next]_(OnLog!vars) /\ SystemInv'
    BY NextSimulated
  <1>. QED
    BY <1>1, <1>2, PTL DEF System, ImplementsServiceOnLog, OnLog!Spec

-----------------------------------------------------------------------------
(***************************************************************************)
(* Replies are consistent: the entity a handler works on, and the one in a *)
(* reply, is the state after a beginning of the history, which stays one.  *)
(* The steps are those of ServiceOnLog, which the system now takes.        *)
(***************************************************************************)
Successes == {"ok", "not found"}

(* The state after the first change sets of a history. *)
Rendered(h, version) ==
  OnLog!FoldLeft(Reduce, InitialState,
                 OnLog!FlattenSeq([i \in 1 .. version |-> h[i].events]))

Shows(h, entity) ==
  /\ entity.revision \in 0 .. Len(h)
  /\ entity.state = Rendered(h, entity.revision)

ShownOf(r, p, h) ==
  /\ r.step = "handle" => Shows(h, r.entity)
  /\ r.step = "idle" /\ p.status \in Successes => Shows(h, p.entity)

ShownInv == \A c \in Client : ShownOf(Requests[c], Replies[c], Histories[AggregateOf[c]])

(* Only the request of c changes, to show a beginning of h. *)
Renders(c, h) ==
  /\ ShownOf(Requests'[c], Replies'[c], h)
  /\ \A d \in Client \ {c} : Requests'[d] = Requests[d] /\ Replies'[d] = Replies[d]

(* A request of ServiceOnLog has all its fields. *)
LEMMA MappedRequest ==
  ASSUME EntitiesLoaded, NEW c \in Client
  PROVE  IsRequest(Requests[c], {Requests[c].entity.revision})
  <1>1. Requests[c] = RequestAt(LogOf(c), request[c])
    BY RequestFacts
  <1>. QED
    BY <1>1, EntityAtFacts DEF IsRequest, RequestAt, RequestOf

(* An answer shows the entity it is given, unless it is an error. *)
LEMMA AnswerRenders ==
  ASSUME NEW c \in Client, NEW status, NEW entity, NEW h, OnLog!Answer(c, status, entity),
         status \in Successes => Shows(h, entity)
  PROVE  Renders(c, h)
  <1>1. PICK p : /\ Replies' = [Replies EXCEPT ![c] = p] /\ p.status = status /\ p.entity = entity
                 /\ Requests' = [Requests EXCEPT ![c] = OnLog!Idle]
    <2>. DEFINE p == [status |-> status, command |-> Requests[c].command, entity |-> entity,
                      program |-> Requests[c].program, since |-> Requests[c].since]
    <2>1. p.status = status /\ p.entity = entity
      OBVIOUS
    <2>2. Replies' = [Replies EXCEPT ![c] = p] /\ Requests' = [Requests EXCEPT ![c] = OnLog!Idle]
      BY DEF OnLog!Answer, Requests, Replies
    <2>. HIDE DEF p
    <2>. QED
      BY <2>1, <2>2
  <1>2. Requests = [d \in Client |-> Requests[d]] /\ Replies = [d \in Client |-> Replies[d]]
    BY DEF Requests, Replies
  <1>3. Replies'[c] = p /\ Requests'[c] = OnLog!Idle
    BY <1>1, <1>2
  <1>4. OnLog!Idle.step = "idle"
    BY DEF OnLog!Idle
  <1>5. ShownOf(Requests'[c], Replies'[c], h)
    BY <1>1, <1>3, <1>4 DEF ShownOf
  <1>6. \A d \in Client \ {c} : Requests'[d] = Requests[d] /\ Replies'[d] = Replies[d]
    BY <1>1, <1>2
  <1>. QED
    BY <1>5, <1>6 DEF Renders

(* An error shows nothing. *)
LEMMA FailRenders ==
  ASSUME NEW c \in Client, NEW h, OnLog!Fail(c) PROVE Renders(c, h)
  BY AnswerRenders DEF OnLog!Fail, Successes

(* An entity is answered as it is. *)
LEMMA EncodeRenders ==
  ASSUME NEW c \in Client, NEW entity, NEW h, Shows(h, entity), OnLog!Encode(c, entity)
  PROVE  Renders(c, h)
  BY AnswerRenders, FailRenders DEF OnLog!Encode, OnLog!EncodeResource

(* A handler goes on with the entity it has. *)
LEMMA ProceedRenders ==
  ASSUME NEW c \in Client, NEW locals, NEW bounds, NEW h, IsRequest(locals, bounds),
         locals.step = "handle", Shows(h, locals.entity), OnLog!Proceed(c, locals)
  PROVE  Renders(c, h)
  <1>1. ASSUME NEW r, r.step # "idle", r.step = "handle" => Shows(h, r.entity),
               Requests' = [Requests EXCEPT ![c] = r], Replies' = Replies
        PROVE  Renders(c, h)
    <2>1. Requests = [d \in Client |-> Requests[d]]
      BY DEF Requests
    <2>2. Requests'[c] = r /\ \A d \in Client \ {c} : Requests'[d] = Requests[d]
      BY <1>1, <2>1
    <2>. QED
      BY <1>1, <2>2 DEF Renders, ShownOf
  <1>2. CASE locals.done < Len(locals.program)
    <2>1. Requests' = [Requests EXCEPT ![c] = locals] /\ Replies' = Replies
      BY <1>2 DEF OnLog!Proceed, Requests, Replies
    <2>. QED
      BY <1>1, <2>1
  <1>3. CASE ~(locals.done < Len(locals.program)) /\ locals.fails
    BY <1>3, FailRenders DEF OnLog!Proceed
  <1>4. CASE ~(locals.done < Len(locals.program)) /\ ~locals.fails /\ locals.published
    <2>. DEFINE reloading == [locals EXCEPT !.step = "reload"]
    <2>1. Requests' = [Requests EXCEPT ![c] = reloading] /\ Replies' = Replies
      BY <1>4 DEF OnLog!Proceed, Requests, Replies
    <2>2. reloading.step = "reload"
      BY Reloading DEF RequestOf
    <2>. HIDE DEF reloading
    <2>. QED
      BY <1>1, <2>1, <2>2
  <1>5. CASE ~(locals.done < Len(locals.program)) /\ ~locals.fails /\ ~locals.published
    BY <1>5, EncodeRenders DEF OnLog!Proceed
  <1>. QED
    BY <1>2, <1>3, <1>4, <1>5

(* A handler is given the entity that was loaded. *)
LEMMA DispatchRenders ==
  ASSUME EntitiesLoaded, NEW c \in Client, NEW entity, IsEntity(entity), NEW h, Shows(h, entity),
         OnLog!Dispatch(c, entity)
  PROVE  Renders(c, h)
  <1>. DEFINE m == Requests[c]
  <1>1. IsRequest(m, {m.entity.revision})
    BY MappedRequest
  <1>2. CASE OnLog!IsHandled(m.command)
    <2>1. PICK program : OnLog!Proceed(c, [m EXCEPT !.step = "handle", !.entity = entity,
                                                    !.program = program.publications,
                                                    !.fails = program.fails])
      BY <1>2 DEF OnLog!Dispatch, Requests
    <2>. DEFINE publications == program.publications
                fails == program.fails
                locals == RequestOf("handle", m.command, entity, publications, fails, m.done,
                                    m.published, m.since)
    <2>. HIDE DEF m, publications, fails
    <2>2. [m EXCEPT !.step = "handle", !.entity = entity, !.program = publications, !.fails = fails]
            = locals
      BY <1>1, Handling
    <2>3. OnLog!Proceed(c, locals)
      <3>. HIDE DEF locals
      <3>. QED
        BY <2>1, <2>2 DEF publications, fails
    <2>4. IsRequest(locals, {entity.revision}) /\ locals.step = "handle" /\ locals.entity = entity
      BY DEF IsRequest, RequestOf
    <2>. HIDE DEF locals
    <2>. QED
      BY <2>3, <2>4, ProceedRenders
  <1>3. CASE ~OnLog!IsHandled(m.command)
    BY <1>3, FailRenders DEF OnLog!Dispatch, Requests
  <1>. QED
    BY <1>2, <1>3

(* It keeps the entity when a publication returns. *)
LEMMA PublicationRenders ==
  ASSUME EntitiesLoaded, NEW c \in Client, NEW h, OnLog!Publishing(c), Shows(h, Requests[c].entity),
         OnLog!PublishReturns(c) \/ OnLog!PublishFails(c)
  PROVE  Renders(c, h)
  <1>. DEFINE m == Requests[c]
              done == m.done + 1
              published == m.published \/ OnLog!Publication(c).events # <<>>
              locals == RequestOf(m.step, m.command, m.entity, m.program, m.fails, done, published,
                                  m.since)
  <1>1. IsRequest(m, {m.entity.revision}) /\ m.step = "handle"
    BY MappedRequest DEF OnLog!Publishing, OnLog!At, Requests
  <1>2. CASE OnLog!PublishReturns(c)
    <2>1. OnLog!Proceed(c, [m EXCEPT !.done = done, !.published = published])
      BY <1>2 DEF OnLog!PublishReturns, Requests
    <2>2. [m EXCEPT !.done = done, !.published = published] = locals
      <3>. HIDE DEF m, done, published
      <3>. QED
        BY <1>1, OneDone
    <2>3. /\ IsRequest(locals, {m.entity.revision}) /\ locals.step = "handle"
          /\ locals.entity = m.entity
      <3>. HIDE DEF m, done, published
      <3>. QED
        BY <1>1 DEF IsRequest, RequestOf
    <2>. HIDE DEF locals
    <2>. QED
      BY <2>1, <2>2, <2>3, ProceedRenders
  <1>3. CASE OnLog!PublishFails(c)
    BY <1>3, FailRenders DEF OnLog!PublishFails
  <1>. QED
    BY <1>2, <1>3

(* A load renders the first change sets. *)
LEMMA LoadRenders ==
  ASSUME EntitiesLoaded, NEW c \in Client, NEW h, NEW version \in 0 .. Len(h), NEW events,
         events = OnLog!FlattenSeq([i \in 1 .. version |-> h[i].events]),
         OnLog!LoadReturns(c, version, events)
  PROVE  Renders(c, h)
  <1>. DEFINE entity == [revision |-> version,
                         state |-> OnLog!FoldLeft(Reduce, InitialState, events)]
  <1>1. IsEntity(entity) /\ Shows(h, entity)
    <2>1. entity.revision = version /\ entity.state = OnLog!FoldLeft(Reduce, InitialState, events)
      OBVIOUS
    <2>2. entity.state = Rendered(h, version)
      BY <2>1 DEF Rendered
    <2>3. IsEntity(entity)
      BY DEF IsEntity
    <2>. HIDE DEF entity
    <2>. QED
      BY <2>1, <2>2, <2>3 DEF Shows
  <1>2. OnLog!EntityReturns(c, entity) \/ OnLog!Fail(c)
    BY DEF OnLog!LoadReturns
  <1>. HIDE DEF entity
  <1>. QED
    BY <1>1, <1>2, DispatchRenders, EncodeRenders, FailRenders DEF OnLog!EntityReturns

(* Histories grow at their ends. *)
LEMMA HistoriesGrow ==
  ASSUME BlindInv, [OnLog!Next]_(OnLog!vars), NEW a \in Aggregate
  PROVE  /\ Len(Histories'[a]) \in Nat /\ Len(Histories[a]) \in Nat
         /\ Len(Histories[a]) <= Len(Histories'[a])
         /\ \A i \in 1 .. Len(Histories[a]) : Histories'[a][i] = Histories[a][i]
  <1>. DEFINE h == Histories[a]
  <1>1. Len(h) \in Nat /\ h = [i \in 1 .. Len(h) |-> h[i]]
    <2>1. Len(h) = Len(log[a]) /\ Len(log[a]) \in Nat /\ log[a] \in Seq(LogEntry)
      BY HistoryFacts, BlindFacts
    <2>2. h = [i \in DOMAIN log[a] |-> content[a][log[a][i].revision]] /\ DOMAIN log[a] = 1 .. Len(log[a])
      BY <2>1 DEF Histories, History
    <2>. HIDE DEF h
    <2>. QED
      BY <2>1, <2>2
  <1>2. Histories = [b \in Aggregate |-> Histories[b]]
    BY DEF Histories
  <1>3. \/ Histories' = Histories
        \/ \E b, changes : Histories' = [Histories EXCEPT ![b] = Append(@, changes)]
    <2>1. OnLog!Next \/ UNCHANGED Histories
      BY DEF OnLog!vars, Histories
    <2>2. ASSUME NEW c \in Client, OnLog!Publish(c)
          PROVE  \/ Histories' = Histories
                 \/ \E b, changes : Histories' = [Histories EXCEPT ![b] = Append(@, changes)]
      BY <2>2 DEF OnLog!Publish, Histories
    <2>3. ASSUME NEW c \in Client,
                 \/ OnLog!Get(c) \/ OnLog!Post(c) \/ OnLog!BadRequest(c) \/ OnLog!Load(c)
                 \/ OnLog!StoreFails(c)
          PROVE  Histories' = Histories
      BY <2>3 DEF OnLog!Get, OnLog!Post, OnLog!BadRequest, OnLog!Load, OnLog!StoreFails, Histories
    <2>4. OnLog!ProcessStops => Histories' = Histories
      BY DEF OnLog!ProcessStops, Histories
    <2>. QED
      BY <2>1, <2>2, <2>3, <2>4 DEF OnLog!Next
  <1>4. Histories'[a] = h \/ \E changes : Histories'[a] = Append(h, changes)
    BY <1>2, <1>3
  <1>. HIDE DEF h
  <1>5. CASE Histories'[a] = h
    BY <1>1, <1>5 DEF h
  <1>6. ASSUME NEW changes, Histories'[a] = Append(h, changes)
        PROVE  /\ Len(Histories'[a]) = Len(h) + 1
               /\ \A i \in 1 .. Len(h) : Histories'[a][i] = h[i]
    <2>. DEFINE V == { h[i] : i \in 1 .. Len(h) } \cup {changes}
    <2>1. h \in Seq(V)
      <3>1. \A i \in 1 .. Len(h) : h[i] \in V
        OBVIOUS
      <3>2. h \in [1 .. Len(h) -> V]
        <4>. HIDE DEF V
        <4>. QED
          BY <1>1, <3>1
      <3>. HIDE DEF V
      <3>. QED
        BY <1>1, <3>2
    <2>2. changes \in V
      OBVIOUS
    <2>. HIDE DEF V
    <2>. QED
      BY <1>6, <2>1, <2>2, AppendFacts
  <1>. QED
    BY <1>1, <1>4, <1>5, <1>6 DEF h

(* An entity goes on showing what it shows. *)
LEMMA StillShows ==
  ASSUME NEW h, NEW longer, NEW entity, Shows(h, entity),
         Len(h) \in Nat, Len(longer) \in Nat, Len(h) <= Len(longer),
         \A i \in 1 .. Len(h) : longer[i] = h[i]
  PROVE  Shows(longer, entity)
  <1>. DEFINE v == entity.revision
  <1>1. v \in 0 .. Len(h) /\ v \in 0 .. Len(longer) /\ entity.state = Rendered(h, v)
    BY DEF Shows
  <1>. HIDE DEF v
  <1>2. \A i \in 1 .. v : longer[i] = h[i]
    BY <1>1
  <1>3. [i \in 1 .. v |-> longer[i].events] = [i \in 1 .. v |-> h[i].events]
    BY <1>2
  <1>4. Rendered(longer, v) = Rendered(h, v)
    BY <1>3 DEF Rendered
  <1>. QED
    BY <1>1, <1>4 DEF Shows, v

(* Each step of the service on a log keeps what is shown. *)
LEMMA StepRenders ==
  ASSUME BlindInv, EntitiesLoaded, ShownInv, [OnLog!Next]_(OnLog!vars) PROVE ShownInv'
  <1>. DEFINE H(c) == Histories'[AggregateOf[c]]
  <1>1. ASSUME NEW c \in Client, NEW entity, Shows(Histories[AggregateOf[c]], entity)
        PROVE  Shows(H(c), entity)
    <2>1. AggregateOf[c] \in Aggregate
      BY LogFacts
    <2>. QED
      BY <1>1, <2>1, HistoriesGrow, StillShows
  <1>2. ASSUME NEW c \in Client, Requests'[c] = Requests[c], Replies'[c] = Replies[c]
        PROVE  ShownOf(Requests'[c], Replies'[c], H(c))
    BY <1>1, <1>2 DEF ShownInv, ShownOf
  <1>3. ASSUME NEW c \in Client, Renders(c, H(c))
        PROVE  \A d \in Client : ShownOf(Requests'[d], Replies'[d], H(d))
    BY <1>2, <1>3 DEF Renders
  <1>4. ASSUME NEW c \in Client, NEW step, NEW command, NEW since, step # "handle", step # "idle",
               OnLog!Send(c, step, command, since)
        PROVE  Renders(c, H(c))
    <2>. DEFINE r == [OnLog!Idle EXCEPT !.step = step, !.command = command, !.since = since]
    <2>1. r.step = step
      BY DEF OnLog!Idle
    <2>2. Requests' = [Requests EXCEPT ![c] = r] /\ Replies' = [Replies EXCEPT ![c] = OnLog!NoReply]
      BY <1>4 DEF OnLog!Send, Requests, Replies
    <2>3. Requests = [d \in Client |-> Requests[d]] /\ Replies = [d \in Client |-> Replies[d]]
      BY DEF Requests, Replies
    <2>. HIDE DEF r
    <2>4. Requests'[c] = r /\ \A d \in Client \ {c} : Requests'[d] = Requests[d] /\ Replies'[d] = Replies[d]
      BY <2>2, <2>3
    <2>. QED
      BY <1>4, <2>1, <2>4 DEF Renders, ShownOf
  <1>5. ASSUME NEW c \in Client, OnLog!Get(c) \/ OnLog!Post(c) \/ OnLog!BadRequest(c)
        PROVE  Renders(c, H(c))
    <2>1. ASSUME OnLog!BadRequest(c) PROVE Renders(c, H(c))
      <3>1. OnLog!Answer(c, "rejected", OnLog!NoEntity)
        BY <2>1 DEF OnLog!BadRequest, OnLog!SendGarbage
      <3>. QED
        BY <3>1, AnswerRenders DEF Successes
    <2>2. ASSUME OnLog!Get(c) \/ OnLog!Post(c) PROVE Renders(c, H(c))
      <3>1. \E step \in {"get", "load"} : \E command, since : OnLog!Send(c, step, command, since)
        BY <2>2 DEF OnLog!Get, OnLog!Post, OnLog!SendGet, OnLog!SendPost
      <3>. QED
        BY <1>4, <3>1
    <2>. QED
      BY <1>5, <2>1, <2>2
  <1>6. ASSUME NEW c \in Client, OnLog!Load(c) PROVE Renders(c, H(c))
    <2>. DEFINE a == AggregateOf[c]
                h == Histories[a]
    <2>1. a \in Aggregate /\ Len(h) \in Nat
      BY LogFacts, HistoriesGrow
    <2>2. PICK version \in OnLog!Versions(a) :
            OnLog!LoadReturns(c, version, OnLog!EventsUpTo(a, version))
      BY <1>6 DEF OnLog!Load
    <2>3. version \in 0 .. Len(h)
      <3>1. OnLog!Versions(a) = (IF StaleReads THEN 0 ELSE Len(h)) .. Len(h)
        BY DEF OnLog!Versions, Histories
      <3>. HIDE DEF h
      <3>. QED
        BY <2>1, <2>2, <3>1
    <2>4. OnLog!EventsUpTo(a, version) = OnLog!FlattenSeq([i \in 1 .. version |-> h[i].events])
      BY DEF OnLog!EventsUpTo, Histories
    <2>5. H(c) = h
      BY <1>6 DEF OnLog!Load, Histories
    <2>6. Renders(c, h)
      BY <2>2, <2>3, <2>4, LoadRenders
    <2>. QED
      BY <2>5, <2>6
  <1>7. ASSUME NEW c \in Client, OnLog!Publish(c) PROVE Renders(c, H(c))
    <2>1. /\ OnLog!Publishing(c) /\ (OnLog!PublishReturns(c) \/ OnLog!PublishFails(c))
      BY <1>7 DEF OnLog!Publish
    <2>2. Requests[c].step = "handle"
      BY <2>1 DEF OnLog!Publishing, OnLog!At, Requests
    <2>3. Shows(H(c), Requests[c].entity)
      BY <1>1, <2>2 DEF ShownInv, ShownOf
    <2>. QED
      BY <2>1, <2>3, PublicationRenders
  <1>8. ASSUME NEW c \in Client, OnLog!StoreFails(c) PROVE Renders(c, H(c))
    BY <1>8, FailRenders DEF OnLog!StoreFails, OnLog!LoadFails, OnLog!PublishFails
  <1>9. ASSUME OnLog!ProcessStops
        PROVE  \A d \in Client : ShownOf(Requests'[d], Replies'[d], H(d))
    <2>1. PICK users \in SUBSET Client : OnLog!Stop(users)
      BY <1>9 DEF OnLog!ProcessStops
    <2>. DEFINE lost == { d \in users : Requests[d].step # "idle" }
                Lost(d) == [OnLog!NoReply EXCEPT !.status = "error", !.command = Requests[d].command,
                              !.program = Requests[d].program, !.since = Requests[d].since]
    <2>2. /\ Requests' = [d \in Client |-> IF d \in lost THEN OnLog!Idle ELSE Requests[d]]
          /\ Replies' = [d \in Client |-> IF d \in lost THEN Lost(d) ELSE Replies[d]]
      BY <2>1 DEF OnLog!Stop, OnLog!At, Requests, Replies
    <2>3. \A d \in Client : Lost(d).status = "error"
      BY DEF OnLog!NoReply
    <2>4. OnLog!Idle.step = "idle" /\ "error" \notin Successes
      BY DEF OnLog!Idle, Successes
    <2>. HIDE DEF lost, Lost
    <2>. SUFFICES ASSUME NEW d \in Client PROVE ShownOf(Requests'[d], Replies'[d], H(d))
      OBVIOUS
    <2>5. CASE d \in lost
      <3>1. Requests'[d] = OnLog!Idle /\ Replies'[d] = Lost(d)
        BY <2>2, <2>5
      <3>. QED
        BY <2>3, <2>4, <3>1 DEF ShownOf
    <2>6. CASE d \notin lost
      BY <1>2, <2>2, <2>6
    <2>. QED
      BY <2>5, <2>6
  <1>10. CASE UNCHANGED OnLog!vars
    <2>1. Requests' = Requests /\ Replies' = Replies
      BY <1>10 DEF OnLog!vars, Requests, Replies
    <2>2. \A d \in Client : ShownOf(Requests'[d], Replies'[d], H(d))
      BY <1>2, <2>1
    <2>. QED
      BY <2>2 DEF ShownInv
  <1>11. CASE OnLog!Next
    <2>1. \A d \in Client : ShownOf(Requests'[d], Replies'[d], H(d))
      BY <1>3, <1>5, <1>6, <1>7, <1>8, <1>9, <1>11 DEF OnLog!Next
    <2>. QED
      BY <2>1 DEF ShownInv
  <1>. QED
    BY <1>10, <1>11

(* Nothing is shown in the beginning. *)
LEMMA InitRenders == OnLog!Init => ShownInv
  <1>. SUFFICES ASSUME OnLog!Init, NEW c \in Client
                PROVE  ShownOf(Requests[c], Replies[c], Histories[AggregateOf[c]])
    BY DEF ShownInv
  <1>1. Requests = [d \in Client |-> OnLog!Idle] /\ Replies = [d \in Client |-> OnLog!NoReply]
    BY DEF OnLog!Init, OnLog!InitService, Requests, Replies
  <1>2. Requests[c].step = "idle" /\ Replies[c].status = "none"
    BY <1>1 DEF OnLog!Idle, OnLog!NoReply
  <1>. QED
    BY <1>2 DEF ShownOf, Successes

(* What is shown is consistent; what Reduce does is never used. *)
LEMMA ShownImplies == ShownInv => RepliesAreConsistent
  <1>. SUFFICES ASSUME ShownInv, NEW c \in Client, Requests[c].step = "idle",
                       Replies[c].status \in Successes
                PROVE  Replies[c].entity.state =
                         OnLog!FoldLeft(Reduce, InitialState,
                           OnLog!EventsUpTo(AggregateOf[c], Replies[c].entity.revision))
    BY DEF RepliesAreConsistent, OnLog!RepliesAreConsistent, OnLog!Succeeded, OnLog!Answered, OnLog!At,
           Successes, Requests, Replies
  <1>. DEFINE h == Histories[AggregateOf[c]]
              v == Replies[c].entity.revision
  <1>1. Shows(h, Replies[c].entity)
    BY DEF ShownInv, ShownOf
  <1>2. OnLog!EventsUpTo(AggregateOf[c], v) = OnLog!FlattenSeq([i \in 1 .. v |-> h[i].events])
    BY DEF OnLog!EventsUpTo, Histories
  <1>. QED
    BY <1>1, <1>2 DEF Shows, Rendered

(* Under the same conditions a reply of the service on DynamoDB shows the   *)
(* state after the first change sets of the log, as many as its revision    *)
(* says, also when they were read in pages and are stale: no command is     *)
(* shown twice, and none is left out before one that is shown.              *)
THEOREM ServiceRepliesConsistently ==
  ASSUME Blind, HandlersIgnoreRevisions
  PROVE  System => []RepliesAreConsistent
  <1>1. InitSystem => SystemInv /\ ShownInv
    BY InitSimulated, InitRenders
  <1>2. SystemInv /\ ShownInv /\ [NextSystem]_allVars => SystemInv' /\ ShownInv'
    <2>. SUFFICES ASSUME SystemInv, ShownInv, [NextSystem]_allVars PROVE SystemInv' /\ ShownInv'
      OBVIOUS
    <2>1. [OnLog!Next]_(OnLog!vars) /\ SystemInv'
      BY NextSimulated
    <2>. QED
      BY <2>1, StepRenders DEF SystemInv
  <1>3. ShownInv => RepliesAreConsistent
    BY ShownImplies
  <1>. QED
    BY <1>1, <1>2, <1>3, PTL DEF System

-----------------------------------------------------------------------------
(***************************************************************************)
(* Commands take effect in order.  Nothing is assumed of the clocks or of  *)
(* what is published under which revision: a load may return what is no    *)
(* beginning of the log, but what the commands record does not depend on   *)
(* what was loaded.  So the steps of the service are those ServiceOnLog's  *)
(* proofs call recording steps, on its requests as they are.               *)
(***************************************************************************)
Commands == INSTANCE ServiceOnLogProofs WITH history <- Histories

(* Its assumptions are among those made here. *)
LEMMA CommandsAssumptions ==
  /\ AggregateOf \in [Client -> Aggregate] /\ MaxRequests \in [Client -> Nat]
  /\ StaleReads \in BOOLEAN
  BY RequestAssumption

(* The application is the same. *)
HandlersArePrograms == Commands!HandlersArePrograms

LEMMA SameConstants ==
  /\ Service!Idle = Commands!Idle /\ Service!NoReply = Commands!NoReply
  /\ Service!NoEntity = Commands!NoEntity /\ Service!Query = Commands!Query
  BY DEF Service!Idle, Commands!Idle, Service!NoReply, Commands!NoReply, Service!NoEntity,
         Commands!NoEntity, Service!Query, Commands!Query, Service!InitialRevision,
         Commands!InitialRevision

(* What the service does is the same in both. *)
LEMMA SameAnswers ==
  ASSUME NEW c, NEW status, NEW entity, NEW locals
  PROVE  /\ Service!Answer(c, status, entity) <=> Commands!Answer(c, status, entity)
         /\ Service!Fail(c) <=> Commands!Fail(c)
         /\ Service!Encode(c, entity) <=> Commands!Encode(c, entity)
         /\ Service!Proceed(c, locals) <=> Commands!Proceed(c, locals)
  <1>1. \A e, s : Service!Answer(c, s, e) <=> Commands!Answer(c, s, e)
    BY SameConstants DEF Service!Answer, Commands!Answer
  <1>2. Service!Fail(c) <=> Commands!Fail(c)
    BY <1>1, SameConstants DEF Service!Fail, Commands!Fail
  <1>3. \A e : Service!Encode(c, e) <=> Commands!Encode(c, e)
    BY <1>1, <1>2 DEF Service!Encode, Commands!Encode, Service!EncodeResource, Commands!EncodeResource,
                   Service!Initialized, Commands!Initialized, Service!InitialRevision,
                   Commands!InitialRevision
  <1>4. Service!Proceed(c, locals) <=> Commands!Proceed(c, locals)
    BY <1>2, <1>3 DEF Service!Proceed, Commands!Proceed
  <1>. QED
    BY <1>1, <1>2, <1>3, <1>4

LEMMA SameCalls ==
  ASSUME NEW c, NEW entity, NEW step, NEW command, NEW since
  PROVE  /\ Service!EntityReturns(c, entity) <=> Commands!EntityReturns(c, entity)
         /\ Service!PublishReturns(c) <=> Commands!PublishReturns(c)
         /\ Service!Send(c, step, command, since) <=> Commands!Send(c, step, command, since)
         /\ Service!Loading(c) <=> Commands!Loading(c)
         /\ Service!Publishing(c) <=> Commands!Publishing(c)
         /\ Service!Publication(c) = Commands!Publication(c)
  <1>1. Service!EntityReturns(c, entity) <=> Commands!EntityReturns(c, entity)
    BY SameAnswers
       DEF Service!EntityReturns, Commands!EntityReturns, Service!Dispatch, Commands!Dispatch,
           Service!IsHandled, Commands!IsHandled, Service!At, Commands!At
  <1>2. Service!Publication(c) = Commands!Publication(c)
    BY DEF Service!Publication, Commands!Publication
  <1>3. Service!PublishReturns(c) <=> Commands!PublishReturns(c)
    BY <1>2, SameAnswers DEF Service!PublishReturns, Commands!PublishReturns
  <1>4. Service!Send(c, step, command, since) <=> Commands!Send(c, step, command, since)
    BY SameConstants DEF Service!Send, Commands!Send, Service!At, Commands!At
  <1>. QED
    BY <1>1, <1>2, <1>3, <1>4
       DEF Service!Loading, Commands!Loading, Service!Publishing, Commands!Publishing, Service!At,
           Commands!At

(***************************************************************************)
(* The inductive invariant: ServiceOnLog's, on the requests as they are,   *)
(* and that the histories are what the store has recorded for them.        *)
(***************************************************************************)
HasReplyFields(p) == p = ReplyOf(p.status, p.command, p.entity, p.program, p.since)

CommandsInv ==
  /\ StoreInv /\ CallsLinked /\ ContentTyped /\ Commands!TypeInv /\ Commands!OrderInv
  /\ \A c \in Client : HasReplyFields(reply[c])

(* What a step does to the requests and the histories, and keeps. *)
Follows == Commands!Recording /\ CallsLinked' /\ ContentTyped'

(* Answers and calls of the service are about one request. *)
LEMMA OneRequestMoves ==
  ASSUME request = [d \in Client |-> request[d]], NEW c \in Client, NEW entity,
         Service!Fail(c) \/ Service!EntityReturns(c, entity) \/ Service!PublishReturns(c)
  PROVE  \A d \in Client \ {c} : request'[d] = request[d]
  <1>1. \A r : request' = [request EXCEPT ![c] = r] => \A d \in Client \ {c} : request'[d] = request[d]
    OBVIOUS
  <1>2. \A e, status : Service!Answer(c, status, e) => \A d \in Client \ {c} : request'[d] = request[d]
    BY <1>1 DEF Service!Answer
  <1>3. \A e : Service!Encode(c, e) => \A d \in Client \ {c} : request'[d] = request[d]
    BY <1>2 DEF Service!Encode, Service!EncodeResource, Service!Fail
  <1>4. \A l : Service!Proceed(c, l) => \A d \in Client \ {c} : request'[d] = request[d]
    BY <1>1, <1>2, <1>3 DEF Service!Proceed, Service!Fail
  <1>. QED
    BY <1>2, <1>3, <1>4 DEF Service!Fail, Service!EntityReturns, Service!Dispatch, Service!PublishReturns

(* A call of c has ended, and the others go on. *)
LEMMA EndLinks ==
  ASSUME CallsLinked, Commands!TypeInv, NEW c \in Client, OthersKept(c), call'[c].step = "idle",
         NEW entity,
         Service!Fail(c) \/ Service!EntityReturns(c, entity) \/ Service!PublishReturns(c)
  PROVE  CallsLinked'
  <1>1. request = [d \in Client |-> request[d]]
    BY DEF Commands!TypeInv
  <1>2. \A d \in Client \ {c} : request'[d] = request[d]
    BY <1>1, OneRequestMoves
  <1>. QED
    BY <1>2, LinkedStays DEF Linked, OthersKept

(* Nobody's request changes, nor the log. *)
LEMMA QuietRecords ==
  ASSUME Commands!TypeInv, ContentTyped, UNCHANGED <<serviceVars, content, log>>
  PROVE  Commands!Recording /\ ContentTyped'
  <1>1. UNCHANGED Commands!vars
    BY HistoriesKept DEF Commands!vars, serviceVars, Histories
  <1>2. Commands!Recording
    BY <1>1, Commands!EnvironmentRecords, CommandsAssumptions
  <1>. QED
    BY <1>2 DEF ContentTyped

(* A call fails, or is refused. *)
LEMMA FailRecords ==
  ASSUME HandlersArePrograms, Commands!TypeInv, ContentTyped, NEW c \in Client, Service!Fail(c),
         Service!Loading(c) \/ Service!Publishing(c), UNCHANGED <<sent, content, log>>
  PROVE  Commands!Recording /\ ContentTyped'
  <1>1. Commands!Fail(c) /\ (Commands!Loading(c) \/ Commands!Publishing(c))
    BY SameAnswers, SameCalls
  <1>2. Commands!StoreFails(c)
    BY <1>1, HistoriesKept DEF Commands!StoreFails, Commands!LoadFails, Commands!PublishFails
  <1>3. Commands!Recording
    BY <1>2, Commands!ServiceRecords, CommandsAssumptions DEF HandlersArePrograms
  <1>. QED
    BY <1>3 DEF ContentTyped

(* Requests are sent. *)
LEMMA SendFollows ==
  ASSUME HandlersArePrograms, CommandsInv, NEW c \in Client, Get(c) \/ Post(c)
  PROVE  Follows
  <1>1. UNCHANGED <<log, call, content>>
    BY DEF Get, Post, vars, remoteVars, clientVars
  <1>2. Len(Histories[AggregateOf[c]]) = Len(log[AggregateOf[c]])
    BY HistoryFacts DEF CommandsInv, StoreInv
  <1>3. PICK step, command, since :
          /\ Service!Send(c, step, command, since) /\ since = Len(log[AggregateOf[c]])
          /\ \/ step = "get" /\ command = Service!Query /\ Service!Query \in RequestsOf[c]
             \/ step = "load" /\ command \in RequestsOf[c] \ {Service!Query}
    BY DEF Get, Post, Service!SendGet, Service!SendPost
  <1>4. Commands!Send(c, step, command, since)
    BY <1>3, SameCalls
  <1>5. Commands!Get(c) \/ Commands!Post(c)
    BY <1>1, <1>2, <1>3, <1>4, HistoriesKept, SameConstants
       DEF Commands!Get, Commands!Post, Commands!SendGet, Commands!SendPost
  <1>6. Commands!Recording
    BY <1>5, Commands!ServiceRecords, CommandsAssumptions DEF HandlersArePrograms, CommandsInv
  <1>7. CallsLinked'
    <2>1. /\ request[c].step = "idle" /\ \A d \in Client \ {c} : request'[d] = request[d]
      BY <1>3 DEF Service!Send, Service!At, CommandsInv, Commands!TypeInv
    <2>2. Linked(call'[c], request'[c], AggregateOf[c])
      BY <1>1, <2>1 DEF CommandsInv, CallsLinked, Linked
    <2>. QED
      BY <1>1, <2>1, <2>2, LinkedStays DEF CommandsInv
  <1>. QED
    BY <1>1, <1>6, <1>7 DEF Follows, CommandsInv, ContentTyped

(* The service calls its store. *)
LEMMA CallFollows ==
  ASSUME HandlersArePrograms, CommandsInv, NEW c \in Client,
         CallLoad(c) \/ CallPublish(c) \/ CallPublishNothing(c)
  PROVE  Follows
  <1>1. CASE CallLoad(c) \/ CallPublish(c)
    BY <1>1, CallsLink, QuietRecords DEF Follows, CommandsInv, StoreInv
  <1>2. CASE CallPublishNothing(c)
    <2>1. /\ Service!Publishing(c) /\ Service!Fail(c) /\ UNCHANGED <<sent, content, call, log>>
          /\ call[c].step = "idle"
      BY <1>2 DEF CallPublishNothing, PublishNothing, Service!PublishFails, At, remoteVars
    <2>2. OthersKept(c) /\ call'[c].step = "idle"
      BY <2>1, CallFacts DEF OthersKept, CommandsInv, StoreInv
    <2>3. CallsLinked'
      BY <2>1, <2>2, EndLinks DEF CommandsInv
    <2>. QED
      BY <2>1, <2>3, FailRecords DEF Follows, CommandsInv
  <1>. QED
    BY <1>1, <1>2

(* The call goes on. *)
LEMMA GoesOnFollows ==
  ASSUME CommandsInv, NEW c \in Client, OthersKept(c), CallReturns(c), call'[c].step # "idle",
         Linked(call'[c], request[c], AggregateOf[c]), UNCHANGED <<sent, content, log>>
  PROVE  Follows
  <1>1. UNCHANGED <<request, reply>>
    BY DEF CallReturns
  <1>2. CallsLinked'
    BY <1>1, LinkedStays DEF OthersKept, CommandsInv
  <1>. QED
    BY <1>1, <1>2, QuietRecords DEF Follows, CommandsInv, serviceVars

(* The call ends with an error. *)
LEMMA ErrorFollows ==
  ASSUME HandlersArePrograms, CommandsInv, NEW c \in Client,
         NEW result \in {"error", "conflict"}, Return(c, result), CallReturns(c),
         call[c].step # "idle", UNCHANGED <<sent, content, log>>
  PROVE  Follows
  <1>1. OthersKept(c) /\ call'[c].step = "idle" /\ Service!Fail(c)
    BY ErrorReturns DEF CommandsInv, StoreInv
  <1>2. Service!Loading(c) \/ Service!Publishing(c)
    <2>1. call[c].step \in Steps
      BY CallFacts DEF Call, CommandsInv, StoreInv
    <2>. QED
      BY <2>1, LinkedFacts DEF Steps, CommandsInv
  <1>3. CallsLinked'
    BY <1>1, EndLinks DEF CommandsInv
  <1>. QED
    BY <1>1, <1>2, <1>3, FailRecords DEF Follows, CommandsInv

(* A transaction commits: a publication is recorded, and its reply may be lost. *)
LEMMA CommitFollows ==
  ASSUME HandlersArePrograms, CommandsInv, NEW c \in Client,
         Commit(c), PutContent(c), CallReturns(c), UNCHANGED sent
  PROVE  Follows
  <1>. DEFINE publication == Service!Publication(c)
  <1>1. /\ ContentTyped'
        /\ Histories' = [Histories EXCEPT ![AggregateOf[c]] = Append(@, Recorded(c))]
        /\ OthersKept(c) /\ call'[c].step = "idle" /\ outcome'[c] \in {"published", "error"}
    BY CommitAppends DEF CommandsInv
  <1>2. /\ Service!Publishing(c) /\ publication.aggregate = AggregateOf[c]
        /\ publication.events # <<>>
    BY LinkedFacts DEF CommandsInv, Commit, At
  <1>3. Service!PublishReturns(c) \/ Service!Fail(c)
    BY <1>1 DEF CallReturns, Service!PublishFails, Service!LoadFails
  <1>4. CallsLinked'
    BY <1>1, <1>3, EndLinks DEF CommandsInv
  <1>5. Commands!Records(c)
    <2>1. Commands!Publishing(c) /\ Commands!Publication(c) = publication
      BY <1>2, SameCalls
    <2>2. Commands!Recorded(c, publication) = Recorded(c)
      BY DEF Commands!Recorded, Recorded
    <2>3. Histories' = IF publication.events = <<>> THEN Histories
                       ELSE Commands!Added(Histories, publication.aggregate,
                                           Commands!Recorded(c, publication))
      BY <1>1, <1>2, <2>2 DEF Commands!Added
    <2>4. Commands!PublishReturns(c) \/ Commands!PublishFails(c)
      BY <1>3, SameAnswers, SameCalls DEF Commands!PublishFails
    <2>. HIDE DEF publication
    <2>. QED
      BY <2>1, <2>3, <2>4 DEF Commands!Records
  <1>6. Commands!Recording
    BY <1>5, Commands!ServiceRecords, CommandsAssumptions DEF HandlersArePrograms, CommandsInv
  <1>. QED
    BY <1>1, <1>4, <1>6 DEF Follows

(* The last page: the service goes on with an entity, whichever it is. *)
LEMMA LoadFollows ==
  ASSUME HandlersArePrograms, CommandsInv, NEW c \in Client, NEW sets, At(c, "query"),
         ReturnLoaded(c, sets), CallReturns(c), UNCHANGED <<sent, content, log>>
  PROVE  Follows
  <1>1. OthersKept(c) /\ call'[c].step = "idle" /\ outcome'[c] = "none"
    <2>1. call \in [Client -> Call] /\ outcome \in [Client -> Outcomes] /\ Return(c, "none")
      BY DEF CommandsInv, StoreInv, TypeInv, TypeOK, ReturnLoaded
    <2>2. call'[c] = Idle /\ outcome'[c] = "none" /\ OthersKept(c)
      BY <2>1 DEF Return, OthersKept
    <2>. QED
      BY <2>2, IdleType
  <1>2. Service!LoadReturns(c, loaded'[c].revision, EventsIn(AggregateOf[c], loaded'[c].sets))
    BY <1>1 DEF CallReturns
  <1>3. Service!Fail(c) \/ \E entity : Service!EntityReturns(c, entity)
    <2>1. \A revision, events :
            Service!LoadReturns(c, revision, events) =>
              Service!Fail(c) \/ \E entity : Service!EntityReturns(c, entity)
      BY DEF Service!LoadReturns
    <2>. QED
      BY <1>2, <2>1
  <1>4. Service!Loading(c)
    BY LinkedFacts DEF CommandsInv, At
  <1>5. CASE Service!Fail(c)
    <2>1. CallsLinked'
      BY <1>1, <1>5, EndLinks DEF CommandsInv
    <2>. QED
      BY <1>4, <1>5, <2>1, FailRecords DEF Follows, CommandsInv
  <1>6. ASSUME NEW entity, Service!EntityReturns(c, entity) PROVE Follows
    <2>1. CallsLinked'
      BY <1>1, <1>6, EndLinks DEF CommandsInv
    <2>2. Commands!Loading(c) /\ Commands!EntityReturns(c, entity)
      BY <1>4, <1>6, SameCalls
    <2>3. UNCHANGED <<sent, Histories>>
      BY HistoriesKept
    <2>4. Commands!Recording
      BY <2>2, <2>3, Commands!ServiceRecords, CommandsAssumptions
         DEF HandlersArePrograms, CommandsInv
    <2>. QED
      BY <2>1, <2>4 DEF Follows, CommandsInv, ContentTyped
  <1>. QED
    BY <1>3, <1>5, <1>6

(* The store goes on with a call. *)
LEMMA StoreFollows ==
  ASSUME HandlersArePrograms, CommandsInv, NEW c \in Client, StoreStep(c) \/ StoreFails(c)
  PROVE  Follows
  <1>1. CASE StoreStep(c)
    <2>1. GoesOnOrEnds(c)
      BY <1>1, StoreStepEnds DEF CommandsInv, StoreInv
    <2>. QED
      BY <2>1, GoesOnFollows, ErrorFollows, CommitFollows, LoadFollows DEF GoesOnOrEnds
  <1>2. CASE StoreFails(c)
    <2>1. /\ Return(c, "error") /\ CallReturns(c) /\ call[c].step # "idle"
          /\ UNCHANGED <<sent, content, log>>
      BY <1>2 DEF StoreFails, RequestFails, remoteVars
    <2>. QED
      BY <2>1, ErrorFollows
  <1>. QED
    BY <1>1, <1>2

(* Processes stop, replicas catch up, clocks tick, or nothing happens. *)
LEMMA OthersFollow ==
  ASSUME CommandsInv,
         \/ \E p \in Restarting : ProcessRestarts(p)
         \/ EnvironmentStep \/ UNCHANGED allVars
  PROVE  Follows
  <1>1. ASSUME NEW p \in Restarting, ProcessRestarts(p) PROVE Follows
    <2>. DEFINE users == { c \in Client : HostOf[c] = p }
    <2>1. Service!Stop(users) /\ UNCHANGED <<sent, content, log>> /\ users \in SUBSET Client
      BY <1>1 DEF ProcessRestarts, Restart, remoteVars
    <2>. HIDE DEF users
    <2>2. Commands!Stop(users)
      BY <2>1, SameConstants DEF Service!Stop, Commands!Stop, Service!At, Commands!At
    <2>3. Commands!ProcessStops
      BY <2>1, <2>2, HistoriesKept DEF Commands!ProcessStops
    <2>4. Commands!Recording
      BY <2>3, Commands!EnvironmentRecords, CommandsAssumptions DEF CommandsInv
    <2>. QED
      BY <1>1, <2>1, <2>4, RestartLinks DEF Follows, CommandsInv, ContentTyped
  <1>2. CASE EnvironmentStep \/ UNCHANGED allVars
    <2>1. UNCHANGED <<serviceVars, content, log, call>>
      BY <1>2 DEF EnvironmentStep, Replicate, ClockTicks, allVars, vars, remoteVars, clientVars
    <2>2. CallsLinked'
      BY <2>1 DEF CallsLinked, serviceVars, CommandsInv
    <2>. QED
      BY <2>1, <2>2, QuietRecords DEF Follows, CommandsInv
  <1>. QED
    BY <1>1, <1>2

(* CommandsInv is inductive. *)
LEMMA NextCommands ==
  ASSUME HandlersArePrograms, CommandsInv, [NextSystem]_allVars
  PROVE  CommandsInv'
  <1>1. Follows
    BY SendFollows, CallFollows, StoreFollows, OthersFollow DEF NextSystem
  <1>2. StoreInv'
    BY StoreSteps, NextStore DEF CommandsInv
  <1>3. Commands!TypeInv' /\ Commands!OrderInv'
    BY <1>1, Commands!RecordingKeepsTypes, Commands!RecordingKeepsOrder, CommandsAssumptions
       DEF Follows, CommandsInv
  <1>4. ASSUME NEW c \in Client PROVE HasReplyFields(reply'[c])
    <2>1. Commands!RecordingStepOf(c)
      BY <1>1 DEF Follows, Commands!Recording
    <2>2. \/ reply'[c] \in {reply[c], Commands!NoReply}
          \/ \E r, status, entity : reply'[c] = Commands!AnswerTo(r, status, entity)
      BY <2>1 DEF Commands!RecordingStepOf, Commands!RecordingStep, Commands!Stays, Commands!Asks,
                  Commands!Fails, Commands!LoadsAny, Commands!Receives, Commands!Publishes
    <2>3. HasReplyFields(Commands!NoReply)
      BY DEF HasReplyFields, ReplyOf, Commands!NoReply
    <2>4. \A r, status, entity : HasReplyFields(Commands!AnswerTo(r, status, entity))
      BY DEF HasReplyFields, ReplyOf, Commands!AnswerTo
    <2>. QED
      BY <2>2, <2>3, <2>4 DEF CommandsInv
  <1>. QED
    BY <1>1, <1>2, <1>3, <1>4 DEF CommandsInv, Follows

(* In the beginning nothing is requested, and nothing recorded. *)
LEMMA InitCommands == InitSystem => CommandsInv
  <1>. SUFFICES ASSUME InitSystem PROVE CommandsInv
    OBVIOUS
  <1>1. StoreInv
    BY InitStore DEF InitSystem
  <1>2. CallsLinked
    BY IdleType DEF CallsLinked, Linked, InitSystem, Init
  <1>3. ContentTyped
    BY DEF ContentTyped, InitSystem
  <1>4. Histories = [a \in Aggregate |-> <<>>]
    <2>1. \A a \in Aggregate : History(a) = <<>>
      BY DEF History, InitSystem, Init
    <2>. QED
      BY <2>1 DEF Histories
  <1>5. Commands!Init
    BY <1>4, SameConstants DEF InitSystem, Service!InitService, Commands!Init, Commands!InitService
  <1>6. Commands!TypeInv /\ Commands!OrderInv
    BY <1>5, Commands!TypeInit, Commands!InitFacts, CommandsAssumptions
  <1>7. \A c \in Client : HasReplyFields(reply[c])
    BY DEF InitSystem, Service!InitService, Service!NoReply, HasReplyFields, ReplyOf
  <1>. QED
    BY <1>1, <1>2, <1>3, <1>6, <1>7 DEF CommandsInv

(* Counting the change sets an entity shows leaves the other fields alone. *)
LEMMA CountedFields ==
  ASSUME NEW c, NEW local, NEW field \in DOMAIN local \ {"entity"}
  PROVE  Counted(c, local)[field] = local[field]
  <1>. DEFINE n == Position(AggregateOf[c], local.entity.revision)
              entity == [local.entity EXCEPT !.revision = n]
  <1>1. Counted(c, local) = [local EXCEPT !.entity = entity]
    BY DEF Counted
  <1>. HIDE DEF entity
  <1>. QED
    BY <1>1

(* What has been answered, and recorded, is what ServiceOnLog says. *)
LEMMA CommandsImply ==
  ASSUME CommandsInv PROVE CommandsTakeEffectInOrder
  <1>1. Commands!CommandsTakeEffectInOrder
    BY Commands!OrderImplies, CommandsAssumptions DEF CommandsInv
  <1>2. ASSUME NEW c \in Client
        PROVE  /\ Requests[c].step = request[c].step
               /\ Replies[c].status = reply[c].status /\ Replies[c].program = reply[c].program
    <2>1. Requests[c] = Counted(c, request[c]) /\ Replies[c] = Counted(c, reply[c])
      BY DEF Requests, Replies
    <2>2. "step" \in DOMAIN request[c]
      <3>1. Commands!IsRequest(request[c])
        BY DEF CommandsInv, Commands!TypeInv, Commands!RequestOK
      <3>. QED
        BY <3>1 DEF Commands!IsRequest
    <2>3. {"status", "program"} \subseteq DOMAIN reply[c]
      <3>1. \A status, command, entity, program, since :
              DOMAIN ReplyOf(status, command, entity, program, since) = ReplyFields
        BY DEF ReplyOf, ReplyFields
      <3>2. HasReplyFields(reply[c])
        BY DEF CommandsInv
      <3>3. DOMAIN reply[c] = ReplyFields
        BY <3>1, <3>2 DEF HasReplyFields
      <3>. QED
        BY <3>3 DEF ReplyFields
    <2>. QED
      BY <2>1, <2>2, <2>3, CountedFields
  <1>3. ASSUME NEW c, NEW n, NEW a
        PROVE  /\ OnLog!RecordedIn(c, n, a) = Commands!RecordedIn(c, n, a)
               /\ \A p : OnLog!EventsIn(p, a) = Commands!EventsIn(p, a)
    BY DEF OnLog!RecordedIn, Commands!RecordedIn, OnLog!RecordedFor, Commands!RecordedFor,
           OnLog!EventsIn, Commands!EventsIn, OnLog!FlattenSeq, Commands!FlattenSeq, Histories
  <1>4. ASSUME NEW c \in Client
        PROVE  /\ OnLog!Answered(c) <=> Commands!Answered(c)
               /\ OnLog!Succeeded(c) <=> Commands!Succeeded(c)
    BY <1>2 DEF OnLog!Answered, Commands!Answered, OnLog!Succeeded, Commands!Succeeded,
                OnLog!At, Commands!At, Requests, Replies
  <1>. QED
    BY <1>1, <1>2, <1>3, <1>4
       DEF CommandsTakeEffectInOrder, OnLog!CommandsTakeEffectInOrder,
           Commands!CommandsTakeEffectInOrder, Replies

(***************************************************************************)
(* What a handler published takes effect in order and at most once, all of *)
(* it when the command succeeds, for all handlers that are programs: also  *)
(* when the clocks disagree, entities are read in pages that miss change   *)
(* sets, conflicts are retried, replies are lost and processes restart.    *)
(***************************************************************************)
THEOREM ServiceTakesEffectInOrder ==
  ASSUME HandlersArePrograms PROVE System => []CommandsTakeEffectInOrder
  <1>1. InitSystem => CommandsInv
    BY InitCommands
  <1>2. CommandsInv /\ [NextSystem]_allVars => CommandsInv'
    BY NextCommands
  <1>3. CommandsInv => CommandsTakeEffectInOrder
    BY CommandsImply
  <1>. QED
    BY <1>1, <1>2, <1>3, PTL DEF System

-----------------------------------------------------------------------------
(***************************************************************************)
(* Replies are current when no read is stale: the theorem about the        *)
(* service on a log, of the service on a log that the system implements.   *)
(***************************************************************************)
Replied == INSTANCE ServiceOnLogProofs WITH
  request <- Requests, reply <- Replies, history <- Histories

LEMMA RepliedAssumptions ==
  /\ AggregateOf \in [Client -> Aggregate] /\ MaxRequests \in [Client -> Nat]
  /\ StaleReads \in BOOLEAN
  BY RequestAssumption

(* The two are the same specification, operator by operator. *)
LEMMA RepliedConstants ==
  /\ OnLog!Idle = Replied!Idle /\ OnLog!NoReply = Replied!NoReply
  /\ OnLog!NoEntity = Replied!NoEntity /\ OnLog!Query = Replied!Query
  BY DEF OnLog!Idle, Replied!Idle, OnLog!NoReply, Replied!NoReply, OnLog!NoEntity,
         Replied!NoEntity, OnLog!Query, Replied!Query, OnLog!InitialRevision,
         Replied!InitialRevision

LEMMA RepliedAnswers ==
  ASSUME NEW c, NEW status, NEW entity, NEW locals
  PROVE  /\ OnLog!Answer(c, status, entity) <=> Replied!Answer(c, status, entity)
         /\ OnLog!Fail(c) <=> Replied!Fail(c)
         /\ OnLog!Encode(c, entity) <=> Replied!Encode(c, entity)
         /\ OnLog!Proceed(c, locals) <=> Replied!Proceed(c, locals)
  <1>1. \A e, s : OnLog!Answer(c, s, e) <=> Replied!Answer(c, s, e)
    BY RepliedConstants DEF OnLog!Answer, Replied!Answer, Requests, Replies
  <1>2. OnLog!Fail(c) <=> Replied!Fail(c)
    BY <1>1, RepliedConstants DEF OnLog!Fail, Replied!Fail
  <1>3. \A e : OnLog!Encode(c, e) <=> Replied!Encode(c, e)
    BY <1>1, <1>2 DEF OnLog!Encode, Replied!Encode, OnLog!EncodeResource, Replied!EncodeResource,
                   OnLog!Initialized, Replied!Initialized, OnLog!InitialRevision,
                   Replied!InitialRevision
  <1>4. OnLog!Proceed(c, locals) <=> Replied!Proceed(c, locals)
    BY <1>2, <1>3 DEF OnLog!Proceed, Replied!Proceed, Requests, Replies
  <1>. QED
    BY <1>1, <1>2, <1>3, <1>4

LEMMA RepliedCalls ==
  ASSUME NEW c, NEW revision, NEW events, NEW step, NEW command, NEW since
  PROVE  /\ OnLog!LoadReturns(c, revision, events) <=> Replied!LoadReturns(c, revision, events)
         /\ OnLog!PublishReturns(c) <=> Replied!PublishReturns(c)
         /\ OnLog!Send(c, step, command, since) <=> Replied!Send(c, step, command, since)
         /\ OnLog!Loading(c) <=> Replied!Loading(c)
         /\ OnLog!Publishing(c) <=> Replied!Publishing(c)
         /\ OnLog!Publication(c) = Replied!Publication(c)
  <1>1. \A entity : OnLog!EntityReturns(c, entity) <=> Replied!EntityReturns(c, entity)
    BY RepliedAnswers
       DEF OnLog!EntityReturns, Replied!EntityReturns, OnLog!Dispatch, Replied!Dispatch,
           OnLog!IsHandled, Replied!IsHandled, OnLog!At, Replied!At, Requests
  <1>2. OnLog!FoldLeft(Reduce, InitialState, events) = Replied!FoldLeft(Reduce, InitialState, events)
    BY DEF OnLog!FoldLeft, Replied!FoldLeft, OnLog!MapThenFoldSet, Replied!MapThenFoldSet,
           OnLog!Max, Replied!Max
  <1>3. OnLog!LoadReturns(c, revision, events) <=> Replied!LoadReturns(c, revision, events)
    BY <1>1, <1>2, RepliedAnswers DEF OnLog!LoadReturns, Replied!LoadReturns
  <1>4. OnLog!Publication(c) = Replied!Publication(c)
    BY DEF OnLog!Publication, Replied!Publication, Requests
  <1>5. OnLog!PublishReturns(c) <=> Replied!PublishReturns(c)
    BY <1>4, RepliedAnswers DEF OnLog!PublishReturns, Replied!PublishReturns, Requests
  <1>6. OnLog!Send(c, step, command, since) <=> Replied!Send(c, step, command, since)
    BY RepliedConstants DEF OnLog!Send, Replied!Send, OnLog!At, Replied!At, Requests, Replies
  <1>. QED
    BY <1>3, <1>4, <1>5, <1>6
       DEF OnLog!Loading, Replied!Loading, OnLog!Publishing, Replied!Publishing, OnLog!At,
           Replied!At, Requests

LEMMA RepliedNext ==
  /\ OnLog!Init <=> Replied!Init
  /\ [OnLog!Next]_(OnLog!vars) <=> [Replied!Next]_(Replied!vars)
  <1>1. OnLog!Init <=> Replied!Init
    BY RepliedConstants
       DEF OnLog!Init, Replied!Init, OnLog!InitService, Replied!InitService, Requests, Replies,
           Histories
  <1>2. ASSUME NEW c \in Client
        PROVE  /\ OnLog!Get(c) <=> Replied!Get(c)
               /\ OnLog!Post(c) <=> Replied!Post(c)
               /\ OnLog!BadRequest(c) <=> Replied!BadRequest(c)
    BY RepliedConstants, RepliedAnswers, RepliedCalls
       DEF OnLog!Get, Replied!Get, OnLog!Post, Replied!Post, OnLog!BadRequest, Replied!BadRequest,
           OnLog!SendGet, Replied!SendGet, OnLog!SendPost, Replied!SendPost, OnLog!SendGarbage,
           Replied!SendGarbage, OnLog!At, Replied!At, Requests, Histories
  <1>3. ASSUME NEW c \in Client PROVE OnLog!Load(c) <=> Replied!Load(c)
    <2>1. \A version : OnLog!EventsUpTo(AggregateOf[c], version) = Replied!EventsUpTo(AggregateOf[c], version)
      BY DEF OnLog!EventsUpTo, Replied!EventsUpTo, OnLog!FlattenSeq, Replied!FlattenSeq, Histories
    <2>2. OnLog!Versions(AggregateOf[c]) = Replied!Versions(AggregateOf[c])
      BY DEF OnLog!Versions, Replied!Versions, Histories
    <2>. QED
      BY <2>1, <2>2, RepliedCalls DEF OnLog!Load, Replied!Load, Histories
  <1>4. ASSUME NEW c \in Client PROVE OnLog!Publish(c) <=> Replied!Publish(c)
    <2>1. \A publication : /\ OnLog!Recorded(c, publication) = Replied!Recorded(c, publication)
                           /\ OnLog!IsExpected(c, publication) <=> Replied!IsExpected(c, publication)
      BY DEF OnLog!Recorded, Replied!Recorded, OnLog!IsExpected, Replied!IsExpected, Requests,
             Histories
    <2>2. /\ OnLog!Publishing(c) <=> Replied!Publishing(c)
          /\ OnLog!Publication(c) = Replied!Publication(c)
          /\ OnLog!PublishReturns(c) <=> Replied!PublishReturns(c)
          /\ OnLog!PublishFails(c) <=> Replied!PublishFails(c)
      BY RepliedCalls, RepliedAnswers DEF OnLog!PublishFails, Replied!PublishFails
    <2>. DEFINE mapped == OnLog!Publication(c)
                replied == Replied!Publication(c)
    <2>3. /\ OnLog!Recorded(c, mapped) = Replied!Recorded(c, replied)
          /\ OnLog!IsExpected(c, mapped) <=> Replied!IsExpected(c, replied)
          /\ mapped = replied
      BY <2>1, <2>2
    <2>4. OnLog!Publish(c) <=>
            /\ OnLog!Publishing(c) /\ OnLog!IsExpected(c, mapped)
            /\ Histories' = IF mapped.events = <<>> THEN Histories
                            ELSE [Histories EXCEPT ![mapped.aggregate] =
                                    Append(@, OnLog!Recorded(c, mapped))]
            /\ OnLog!PublishReturns(c) \/ OnLog!PublishFails(c)
            /\ UNCHANGED sent
      BY DEF OnLog!Publish, Histories
    <2>5. Replied!Publish(c) <=>
            /\ Replied!Publishing(c) /\ Replied!IsExpected(c, replied)
            /\ Histories' = IF replied.events = <<>> THEN Histories
                            ELSE [Histories EXCEPT ![replied.aggregate] =
                                    Append(@, Replied!Recorded(c, replied))]
            /\ Replied!PublishReturns(c) \/ Replied!PublishFails(c)
            /\ UNCHANGED sent
      BY DEF Replied!Publish
    <2>. HIDE DEF mapped, replied
    <2>. QED
      BY <2>2, <2>3, <2>4, <2>5
  <1>5. ASSUME NEW c \in Client PROVE OnLog!StoreFails(c) <=> Replied!StoreFails(c)
    BY RepliedCalls, RepliedAnswers
       DEF OnLog!StoreFails, Replied!StoreFails, OnLog!PublishFails, Replied!PublishFails,
           OnLog!LoadFails, Replied!LoadFails, Histories
  <1>6. OnLog!ProcessStops <=> Replied!ProcessStops
    BY RepliedConstants
       DEF OnLog!ProcessStops, Replied!ProcessStops, OnLog!Stop, Replied!Stop, OnLog!At, Replied!At,
           Requests, Replies, Histories
  <1>7. OnLog!vars = Replied!vars /\ (UNCHANGED OnLog!vars <=> UNCHANGED Replied!vars)
    BY DEF OnLog!vars, Replied!vars, Requests, Replies, Histories
  <1>8. OnLog!Next <=> Replied!Next
    BY <1>2, <1>3, <1>4, <1>5, <1>6 DEF OnLog!Next, Replied!Next
  <1>. QED
    BY <1>1, <1>7, <1>8

(* And the property says the same of it. *)
LEMMA RepliedImplies ==
  ASSUME Replied!RepliesAreCurrent PROVE RepliesAreCurrent
  <1>1. ASSUME NEW c \in Client
        PROVE  /\ OnLog!Succeeded(c) <=> Replied!Succeeded(c)
               /\ \A n, a : OnLog!RecordedFor(c, n, a) = Replied!RecordedFor(c, n, a)
    BY DEF OnLog!Succeeded, Replied!Succeeded, OnLog!Answered, Replied!Answered, OnLog!At, Replied!At,
           OnLog!RecordedFor, Replied!RecordedFor, Requests, Replies, Histories
  <1>. QED
    BY <1>1 DEF RepliesAreCurrent, OnLog!RepliesAreCurrent, Replied!RepliesAreCurrent, Replies

(***************************************************************************)
(* The reply to a command would show what the command recorded, and what   *)
(* was recorded before it was sent, if the store asked for consistent      *)
(* reads: that the load after the command may be too old for it is due to  *)
(* eventually consistent reads alone.                                      *)
(***************************************************************************)
THEOREM ConsistentReadsAreCurrent ==
  ASSUME Blind, HandlersIgnoreRevisions, HandlersArePrograms, ~StaleReads
  PROVE  System => []RepliesAreCurrent
  <1>1. System => ImplementsServiceOnLog
    BY ServiceImplementsLog
  <1>2. ImplementsServiceOnLog => Replied!Spec
    BY RepliedNext, PTL DEF ImplementsServiceOnLog, OnLog!Spec, Replied!Spec
  <1>3. Replied!HandlersArePrograms
    BY DEF HandlersArePrograms, Commands!HandlersArePrograms, Replied!HandlersArePrograms,
           Commands!HandlersPublish, Replied!HandlersPublish, Commands!PublicationOf,
           Replied!PublicationOf, Commands!IsHandled, Replied!IsHandled, Commands!Query, Replied!Query
  <1>4. Replied!Spec => []Replied!RepliesAreCurrent
    BY <1>3, Replied!CurrentReplies, RepliedAssumptions
  <1>5. Replied!RepliesAreCurrent => RepliesAreCurrent
    BY RepliedImplies
  <1>. QED
    BY <1>1, <1>2, <1>4, <1>5, PTL

-----------------------------------------------------------------------------
(***************************************************************************)
(* The counter.  Its handlers are among those the theorems are about.      *)
(***************************************************************************)
Sample == INSTANCE Counter

(* The application is the counter, whose randomizer picks from picks. *)
ServesCounter(picks) ==
  \A a, command, entity : Programs(a, command, entity) = Sample!HandlerPrograms(a, command, picks)

(* They publish one event each, and do not look at their entity. *)
LEMMA CounterHandlers ==
  ASSUME NEW picks, ServesCounter(picks)
  PROVE  HandlersArePrograms /\ HandlersIgnoreRevisions
  <1>1. HandlersArePrograms
    <2>. DEFINE commands == UNION { RequestsOf[c] : c \in Client }
                E == UNION { Sample!EventsOf(command, picks) : command \in commands }
    <2>1. ASSUME NEW c \in Client, NEW command \in RequestsOf[c],
                 NEW event \in Sample!EventsOf(command, picks)
          PROVE  <<Sample!Publish(AggregateOf[c], event)>> \in Seq(Commands!PublicationOf(E))
      <3>1. event \in E /\ AggregateOf[c] \in Aggregate
        BY CommandsAssumptions
      <3>2. <<event>> \in Seq(E)
        <4>. HIDE DEF E
        <4>. QED
          BY <3>1
      <3>3. Sample!Publish(AggregateOf[c], event) \in Commands!PublicationOf(E)
        BY <3>1, <3>2 DEF Sample!Publish, Commands!PublicationOf
      <3>. QED
        BY <3>3
    <2>2. ASSUME NEW c \in Client, NEW command \in RequestsOf[c], NEW entity,
                 NEW program \in Programs(AggregateOf[c], command, entity)
          PROVE  program.publications \in Seq(Commands!PublicationOf(E))
      <3>1. PICK event \in Sample!EventsOf(command, picks) :
              program = [publications |-> <<Sample!Publish(AggregateOf[c], event)>>, fails |-> FALSE]
        BY DEF ServesCounter, Sample!HandlerPrograms
      <3>. QED
        BY <2>1, <3>1
    <2>3. Commands!HandlersPublish(E)
      BY <2>2 DEF Commands!HandlersPublish
    <2>. QED
      BY <2>3 DEF HandlersArePrograms, Commands!HandlersArePrograms
  <1>2. HandlersIgnoreRevisions
    BY DEF HandlersIgnoreRevisions, ServesCounter
  <1>. QED
    BY <1>1, <1>2

(***************************************************************************)
(* The counter sample on DynamoDB, for any users, processes and clocks: it *)
(* is a service on a log, its replies are states the counter had, and what *)
(* increment, decrement and randomize publish is counted once, or not at   *)
(* all if they are answered with an error.                                 *)
(***************************************************************************)
THEOREM CounterIsCorrect ==
  ASSUME Blind, NEW picks, ServesCounter(picks)
  PROVE  System => /\ ImplementsServiceOnLog
                   /\ []RepliesAreConsistent
                   /\ []CommandsTakeEffectInOrder
  BY CounterHandlers, ServiceImplementsLog, ServiceRepliesConsistently, ServiceTakesEffectInOrder
=============================================================================
