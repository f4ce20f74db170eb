---------------------------- MODULE EntityService ----------------------------
(***************************************************************************)
(* we.EntityService behind connectors/wehttp: a request loads an entity by *)
(* replaying its events, a command is dispatched to its handler, which     *)
(* publishes events, and the entity is loaded again for the reply.         *)
(*                                                                         *)
(* This module is what the service does between the calls it makes of a    *)
(* store: each operator takes the result of one call and says what the     *)
(* service does with it, up to the next call or the reply.  ServiceOnLog   *)
(* and ServiceOnDynamo put a store under it.                               *)
(*                                                                         *)
(* The application gives the service reducers and command handlers.  What  *)
(* a handler may do is a program: the publications it makes one after the  *)
(* other, and whether it then returns an error.  It returns the error of a *)
(* publication that fails.                                                 *)
(***************************************************************************)
EXTENDS Naturals, SequencesExt

CONSTANTS
  Aggregate,         \* aggregate ids
  Client,            \* users of the service; each sends one request after the other
  AggregateOf,       \* AggregateOf[c]: the entity user c works on
  RequestsOf,        \* RequestsOf[c]: the commands user c sends, and Query
  Handled,           \* the command names that have a handler
  Programs(_, _, _), \* Programs(a, command, entity): what the handler may do
  InitialState,      \* the zero value of the state
  Reduce(_, _),      \* the state after an event; of a type without reducer, the same state
  Reducible(_),      \* does the event's reducer, if any, succeed?
  Serializes(_),     \* does the state serialize to a resource?
  MaxRequests        \* bound: MaxRequests[c], the requests of user c

ASSUME ServiceAssumption ==
  /\ AggregateOf \in [Client -> Aggregate]
  /\ MaxRequests \in [Client -> Nat]

VARIABLES
  request,   \* request[c]: the request of c the service works on
  reply,     \* reply[c]: the answer to c's last request
  sent       \* history: sent[c], how many requests c has sent

InitialRevision == 0

NoEntity == [revision |-> InitialRevision, state |-> InitialState]

(* What a GET has in place of a command. *)
Query == [name |-> "query", amount |-> 0, decodes |-> TRUE]

Idle == [step |-> "idle", command |-> Query, entity |-> NoEntity, program |-> <<>>,
         fails |-> FALSE, done |-> 0, published |-> FALSE, since |-> 0]

NoReply == [status |-> "none", command |-> Query, entity |-> NoEntity, program |-> <<>>, since |-> 0]

At(c, step) == request[c].step = step

-----------------------------------------------------------------------------
(***************************************************************************)
(* Replies.                                                                *)
(***************************************************************************)
Answer(c, status, entity) ==
  /\ reply' = [reply EXCEPT ![c] =
       [status |-> status, command |-> request[c].command, entity |-> entity,
        program |-> request[c].program, since |-> request[c].since]]
  /\ request' = [request EXCEPT ![c] = Idle]

(* 500, whatever failed. *)
Fail(c) == Answer(c, "error", NoEntity)

Initialized(entity) == entity.revision # InitialRevision

(* A state that does not serialize is answered with 500 too. *)
EncodeResource(c, entity) ==
  IF Serializes(entity.state) THEN Answer(c, "ok", entity) ELSE Fail(c)

(* Both handlers end so: the entity is encoded, if there is one. *)
Encode(c, entity) ==
  IF Initialized(entity) THEN EncodeResource(c, entity) ELSE Answer(c, "not found", entity)

-----------------------------------------------------------------------------
(***************************************************************************)
(* Requests.  since is history: the length of the log when one is sent.    *)
(***************************************************************************)
Send(c, step, command, since) ==
  /\ At(c, "idle")
  /\ sent[c] < MaxRequests[c]
  /\ sent' = [sent EXCEPT ![c] = @ + 1]
  /\ request' = [request EXCEPT ![c] =
                   [Idle EXCEPT !.step = step, !.command = command, !.since = since]]
  /\ reply' = [reply EXCEPT ![c] = NoReply]

SendGet(c, since) == Query \in RequestsOf[c] /\ Send(c, "get", Query, since)

SendPost(c, since) ==
  \E command \in RequestsOf[c] \ {Query} : Send(c, "load", command, since)

(* 400 and 415: the body is no command. *)
SendGarbage(c) ==
  /\ At(c, "idle")
  /\ sent[c] < MaxRequests[c]
  /\ sent' = [sent EXCEPT ![c] = @ + 1]
  /\ Answer(c, "rejected", NoEntity)

-----------------------------------------------------------------------------
(***************************************************************************)
(* Commands.                                                               *)
(***************************************************************************)
(* The publication the handler makes next. *)
Publishing(c) == At(c, "handle")

Publication(c) == request[c].program[request[c].done + 1]

(* Mutation of Proceed: the entity the command was dispatched to is        *)
(* returned whether something was published or not.                        *)
ProceedWithoutReload(c, locals) ==
  IF locals.done < Len(locals.program)
  THEN request' = [request EXCEPT ![c] = locals] /\ UNCHANGED reply
  ELSE IF locals.fails THEN Fail(c) ELSE Encode(c, locals.entity)

(* The handler goes on to its next publication, or returns to Execute,     *)
(* which loads the entity again if the handler has published something.    *)
Proceed(c, locals) ==
  IF locals.done < Len(locals.program)
  THEN request' = [request EXCEPT ![c] = locals] /\ UNCHANGED reply
  ELSE IF locals.fails THEN Fail(c)
  ELSE IF locals.published
  THEN request' = [request EXCEPT ![c] = [locals EXCEPT !.step = "reload"]] /\ UNCHANGED reply
  ELSE Encode(c, locals.entity)

IsHandled(command) == command.name \in Handled /\ command.decodes

(* The command is dispatched to the handler of its name, if there is one   *)
(* and it can decode the payload.                                          *)
Dispatch(c, entity) ==
  LET command == request[c].command IN
  IF IsHandled(command)
  THEN \E program \in Programs(AggregateOf[c], command, entity) :
         Proceed(c, [request[c] EXCEPT !.step = "handle", !.entity = entity,
                                       !.program = program.publications, !.fails = program.fails])
  ELSE Fail(c)

(* publish returned no error: trackingPublisher notes what was published. *)
PublishReturns(c) ==
  Proceed(c, [request[c] EXCEPT !.done = @ + 1,
                                !.published = @ \/ Publication(c).events # <<>>])

(* Mutation of PublishFails: the handler does not see the error. *)
PublishFailsSilently(c) == PublishReturns(c)

PublishFails(c) == Fail(c)

-----------------------------------------------------------------------------
(***************************************************************************)
(* Loads.                                                                  *)
(***************************************************************************)
Loading(c) == request[c].step \in {"get", "load", "reload"}

EntityReturns(c, entity) ==
  IF At(c, "load") THEN Dispatch(c, entity) ELSE Encode(c, entity)

(* Mutation of LoadReturns: the events are replayed on the state loaded before. *)
LoadReturnsContinued(c, revision, events) ==
  EntityReturns(c, [revision |-> revision,
                    state |-> FoldLeft(Reduce, request[c].entity.state, events)])

(* EntityLoader renders the events the store returned. *)
LoadReturns(c, revision, events) ==
  IF \A i \in DOMAIN events : Reducible(events[i])
  THEN EntityReturns(c, [revision |-> revision, state |-> FoldLeft(Reduce, InitialState, events)])
  ELSE Fail(c)

(* Mutation of LoadFails: the load is repeated until the store answers. *)
LoadFailsRepeatedly(c) == UNCHANGED <<request, reply>>

LoadFails(c) == Fail(c)

(* A process stops: the users whose requests it works on lose the connection. *)
Stop(users) ==
  LET lost == { c \in users : ~At(c, "idle") } IN
  /\ reply' = [c \in Client |->
       IF c \in lost
       THEN [NoReply EXCEPT !.status = "error", !.command = request[c].command,
                            !.program = request[c].program, !.since = request[c].since]
       ELSE reply[c]]
  /\ request' = [c \in Client |-> IF c \in lost THEN Idle ELSE request[c]]

-----------------------------------------------------------------------------
InitService ==
  /\ request = [c \in Client |-> Idle]
  /\ reply = [c \in Client |-> NoReply]
  /\ sent = [c \in Client |-> 0]
=============================================================================
