-------------------------- MODULE MCDynamoEventStore --------------------------
(***************************************************************************)
(* Instances of DynamoEventStore for TLC: who runs where, who works on     *)
(* which aggregate, and the bounds the configurations share.               *)
(***************************************************************************)
EXTENDS DynamoEventStore, TLC

CONSTANTS p1, p2, c1, c2, a1, a2

(* Two processes with a goroutine each: clocks and generators of their own. *)
TwoHosts == c1 :> p1 @@ c2 :> p2
(* Two goroutines of one process share the generator. *)
OneHost == c1 :> p1 @@ c2 :> p1
(* One goroutine. *)
Alone == c1 :> p1

SameAggregate == c1 :> a1 @@ c2 :> a1
OneAggregate == c1 :> a1
TwoAggregates == c1 :> a2 @@ c2 :> a1

(* What the goroutines do. *)
WriterAndUpdater == c1 :> {"any"} @@ c2 :> {"initial", "load", "loaded"}
UpdaterAndRemover == c1 :> {"any", "load", "loaded"} @@ c2 :> {"remove"}
Updaters == [c \in Client |-> {"initial", "load", "loaded"}]
Lifecycle == [c \in Client |-> {"initial", "load", "loaded", "remove"}]
WriterAndUpdaters == c1 :> {"any"} @@ c2 :> {"any", "load", "loaded"}
=============================================================================
