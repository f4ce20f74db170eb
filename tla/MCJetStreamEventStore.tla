------------------------- MODULE MCJetStreamEventStore -------------------------
(***************************************************************************)
(* Instances of JetStreamEventStore for TLC.                               *)
(***************************************************************************)
EXTENDS JetStreamEventStore

CONSTANTS c1, c2, c3, a1, a2

(* Two goroutines work on an aggregate, a third fills the shared stream. *)
Subjects == c1 :> a1 @@ c2 :> a1 @@ c3 :> a2

WritersAndUpdater == c1 :> {"any"} @@ c2 :> {"initial", "load", "loaded"} @@ c3 :> {"any"}
Updaters == [c \in Client |-> {"initial", "load", "loaded"}]
=============================================================================
