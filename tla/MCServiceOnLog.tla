---------------------------- MODULE MCServiceOnLog ----------------------------
(***************************************************************************)
(* Instances of ServiceOnLog for TLC: the counter, and handlers as another *)
(* application may write them, over two entities.                          *)
(***************************************************************************)
EXTENDS ServiceOnLog

Sample == INSTANCE Counter

CONSTANTS c1, c2, a1, a2

OwnEntities == c1 :> a1 @@ c2 :> a1

Command(name) == Sample!CommandOf(name, 1)

(* The commands of the other application: one that is refused when the     *)
(* entity changed, one that publishes to two entities, ones that publish   *)
(* nothing and fail, and one whose event no reducer can read.              *)
AppNames == {"withdraw", "transfer", "touch", "refuse", "corrupt"}

AllNames == Sample!Names \cup AppNames

Event(type) == [type |-> type, amount |-> 1]

To(a, guarded, events) == [aggregate |-> a, guarded |-> guarded, events |-> events]

AppPrograms(a, command, entity) ==
  CASE command.name \in Sample!Names -> Sample!HandlerPrograms(a, command, {3})
    [] command.name = "withdraw" ->
         { [publications |-> <<To(a, TRUE, <<Event("decremented")>>)>>, fails |-> entity.state < 1] }
    [] command.name = "transfer" ->
         { [publications |-> <<To(a, TRUE, <<Event("decremented")>>),
                               To(a2, FALSE, <<Event("incremented"), Event("noted")>>)>>,
            fails |-> FALSE] }
    [] command.name = "touch" -> { [publications |-> <<To(a, FALSE, <<>>)>>, fails |-> FALSE] }
    [] command.name = "refuse" -> { [publications |-> <<>>, fails |-> TRUE] }
    [] command.name = "corrupt" ->
         { [publications |-> <<To(a, FALSE, <<Event("corrupt")>>)>>, fails |-> FALSE] }

CounterUser == { Command(name) : name \in {"increment", "randomize", "unknown", "touch"} }
                 \cup { [Command("decrement") EXCEPT !.decodes = FALSE] }
AppUser == { Command(name) : name \in AppNames }
Users == c1 :> CounterUser \cup {Query} @@ c2 :> AppUser \cup {Query}

AppReduce(current, event) == Sample!CounterReduce(current, event)

TwoRequests == [c \in Client |-> 2]

IsReducible(event) == event.type # "corrupt"

DoesSerialize(state) == state # 4
=============================================================================
