-------------------------- MODULE MCServiceOnDynamo --------------------------
(***************************************************************************)
(* Instances of ServiceOnDynamo for TLC: two processes serve one counter.  *)
(***************************************************************************)
EXTENDS ServiceOnDynamo, TLC

Sample == INSTANCE Counter

CONSTANTS p1, p2, c1, c2, a1

TwoHosts == c1 :> p1 @@ c2 :> p2
SameEntity == [c \in Client |-> a1]
ServiceCalls == [c \in Client |-> {"any", "load"}]

(* The commands of the counter, and two whose handlers publish twice, and  *)
(* nothing.                                                                *)
Names == Sample!Names \cup {"increment twice", "touch"}

Command(name) == Sample!CommandOf(name, 1)

(* That is Service!Query, written so as not to refer to RequestsOf. *)
Query == Sample!CommandOf("query", 0)

Users == c1 :> {Command("increment twice")} @@ c2 :> {Query, Command("randomize"), Command("touch")}

Twice(a, event) == <<Sample!Publish(a, event), Sample!Publish(a, event)>>

CounterPrograms(a, command, entity) ==
  CASE command.name \in Sample!Names -> Sample!HandlerPrograms(a, command, {3})
    [] command.name = "increment twice" ->
         { [publications |-> Twice(a, event), fails |-> FALSE]
             : event \in Sample!EventsOf(Command("increment"), {}) }
    [] command.name = "touch" ->
         { [publications |-> <<[Sample!Publish(a, "none") EXCEPT !.events = <<>>]>>, fails |-> FALSE] }

CounterReduce(current, event) == Sample!CounterReduce(current, event)

OneRequest == [c \in Client |-> 1]

Always(any) == TRUE
=============================================================================
