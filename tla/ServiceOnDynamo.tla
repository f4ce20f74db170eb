--------------------------- MODULE ServiceOnDynamo ---------------------------
(***************************************************************************)
(* The entity service on the DynamoDB store, as the injector Live of       *)
(* samples/counter/server puts them together: every process holds the      *)
(* service and a store of its own, and a client of the store is the        *)
(* goroutine that answers the requests of one user.                        *)
(*                                                                         *)
(* Each call the service makes of its store is a call of DynamoEventStore  *)
(* and takes the steps it takes there; when it returns, the service goes   *)
(* on as EntityService says.                                               *)
(***************************************************************************)
EXTENDS DynamoEventStore

CONSTANTS
  RequestsOf, Handled, Programs(_, _, _), InitialState, Reduce(_, _), Reducible(_),
  Serializes(_), MaxRequests

ASSUME RequestAssumption == MaxRequests \in [Client -> Nat]

VARIABLES
  request, reply, sent,
  content    \* content[a][r]: what the change set of a with revision r holds

serviceVars == <<request, reply, sent>>
allVars == <<vars, serviceVars, content>>

Service == INSTANCE EntityService

-----------------------------------------------------------------------------
(***************************************************************************)
(* Events.  DynamoEventStore keeps their revisions, content the rest.      *)
(***************************************************************************)
(* A query returns change sets in the order of their sort keys. *)
SortedKeys(keys) ==
  CHOOSE sorted \in [1 .. Cardinality(keys) -> keys] :
    \A i, j \in DOMAIN sorted : i < j => sorted[i] < sorted[j]

(* The events in the change sets. *)
EventsIn(a, sets) ==
  LET keys == SortedKeys({ s.revision : s \in sets })
  IN  Service!FlattenSeq([i \in DOMAIN keys |-> content[a][keys[i]].events])

NoContent == [by |-> "nobody", request |-> 0, events |-> <<>>]

(* The log of a with the content of its change sets. *)
History(a) == [i \in DOMAIN log[a] |-> content[a][log[a][i].revision]]

(* A change set as it is recorded; by and request are history. *)
Recorded(c) ==
  [by |-> c, request |-> sent[c], events |-> Service!Publication(c).events]

(* A transaction of c that commits now puts the events c publishes. *)
PutContent(c) ==
  content' = IF log' = log THEN content
             ELSE [content EXCEPT ![AggregateOf[c]][Changes(c).revision] = Recorded(c)]

-----------------------------------------------------------------------------
(***************************************************************************)
(* Requests.                                                               *)
(***************************************************************************)
Get(c) ==
  /\ Service!SendGet(c, Len(log[AggregateOf[c]]))
  /\ UNCHANGED <<vars, content>>

Post(c) ==
  /\ Service!SendPost(c, Len(log[AggregateOf[c]]))
  /\ UNCHANGED <<vars, content>>

(***************************************************************************)
(* Calls of the store, about the entity of the request.  Handlers that     *)
(* publish to other entities too are left to ServiceOnLog.                 *)
(***************************************************************************)
CallLoad(c) ==
  /\ Service!Loading(c)
  /\ StartLoad(c)
  /\ UNCHANGED <<serviceVars, content>>

CallPublish(c) ==
  /\ Service!Publishing(c)
  /\ Service!Publication(c).aggregate = AggregateOf[c]
  /\ StartPublish(c)
  /\ call'[c].count = Len(Service!Publication(c).events)
  /\ call'[c].expected = IF Service!Publication(c).guarded
                         THEN request[c].entity.revision ELSE NoRevision
  /\ UNCHANGED <<serviceVars, content>>

(* The store refuses a publication without events at once. *)
CallPublishNothing(c) ==
  /\ Service!Publishing(c)
  /\ Service!Publication(c).events = <<>>
  /\ PublishNothing(c)
  /\ Service!PublishFails(c)
  /\ UNCHANGED <<sent, content>>

(* The call is still under way, or it has returned to the service. *)
CallReturns(c) ==
  \/ /\ call'[c].step # "idle"
     /\ UNCHANGED <<request, reply>>
  \/ /\ call'[c].step = "idle" /\ outcome'[c] = "none"
     /\ Service!LoadReturns(c, loaded'[c].revision, EventsIn(AggregateOf[c], loaded'[c].sets))
  \/ /\ call'[c].step = "idle" /\ outcome'[c] = "published"
     /\ Service!PublishReturns(c)
  \/ /\ call'[c].step = "idle" /\ outcome'[c] \in {"error", "conflict"}
     /\ IF Service!Publishing(c) THEN Service!PublishFails(c) ELSE Service!LoadFails(c)

StoreStep(c) ==
  /\ Step(c)
  /\ PutContent(c)
  /\ CallReturns(c)
  /\ UNCHANGED sent

StoreFails(c) ==
  /\ RequestFails(c)
  /\ CallReturns(c)
  /\ UNCHANGED <<sent, content>>

(* The users whose requests a process works on lose their connection. *)
ProcessRestarts(p) ==
  /\ Restart(p)
  /\ Service!Stop({ c \in Client : HostOf[c] = p })
  /\ UNCHANGED <<sent, content>>

EnvironmentStep ==
  /\ (\E a \in Aggregate : Replicate(a)) \/ ClockTicks
  /\ UNCHANGED <<serviceVars, content>>

-----------------------------------------------------------------------------
InitSystem ==
  /\ Init
  /\ Service!InitService
  /\ content = [a \in Aggregate |-> [r \in Revision |-> NoContent]]

NextSystem ==
  \/ \E c \in Client :
       \/ Get(c) \/ Post(c)
       \/ CallLoad(c) \/ CallPublish(c) \/ CallPublishNothing(c)
       \/ StoreStep(c) \/ StoreFails(c)
  \/ \E p \in Restarting : ProcessRestarts(p)
  \/ EnvironmentStep

System == InitSystem /\ [][NextSystem]_allVars

(* The goroutine of a request is scheduled, and its calls of the store are *)
(* answered as in FairSpec.  Users send a request, or never another.       *)
FairSystem ==
  /\ System
  /\ \A c \in Client : WF_vars(Step(c) \/ CallLoad(c) \/ CallPublish(c) \/ CallPublishNothing(c))

-----------------------------------------------------------------------------
(***************************************************************************)
(* Properties.                                                             *)
(***************************************************************************)
(* The revision of an entity as the number of change sets it shows. *)
Position(a, revision) ==
  LET shown == { k \in DOMAIN log[a] : log[a][k].revision = revision }
  IN  IF shown = {} THEN 0 ELSE CHOOSE k \in shown : TRUE

Counted(c, local) ==
  [local EXCEPT !.entity.revision = Position(AggregateOf[c], local.entity.revision)]

OnLog == INSTANCE ServiceOnLog WITH
  request <- [c \in Client |-> Counted(c, request[c])],
  reply <- [c \in Client |-> Counted(c, reply[c])],
  history <- [a \in Aggregate |-> History(a)]

(***************************************************************************)
(* The service on DynamoDB, with its clocks, pages, stale replicas,        *)
(* retries, lost replies and restarts, does nothing the service on a log   *)
(* does not do: every command takes effect at one moment of the log, and   *)
(* every entity is what some beginning of the log says it is.              *)
(***************************************************************************)
ImplementsServiceOnLog == OnLog!Spec

(***************************************************************************)
(* A reply shows the state after the first change sets of the log, as many *)
(* as its revision says, also when they were read in pages and are stale.  *)
(***************************************************************************)
RepliesAreConsistent == OnLog!RepliesAreConsistent

(***************************************************************************)
(* A command took effect as far as its handler got, in order and at most   *)
(* once, although the store retries conflicts and replies are lost.        *)
(***************************************************************************)
CommandsTakeEffectInOrder == OnLog!CommandsTakeEffectInOrder

(***************************************************************************)
(* The reply to a command shows what the command recorded, as the test of  *)
(* the counter expects of Execute (samples/counter/server/service_test.go, *)
(* incrementsCounter).  The load after the command may be too old for it.  *)
(***************************************************************************)
RepliesAreCurrent == OnLog!RepliesAreCurrent

(* Every request is answered: no load, retry or command goes on for ever. *)
RequestsAnswered == \A c \in Client : ~Service!At(c, "idle") ~> Service!At(c, "idle")
=============================================================================
