--------------------------- MODULE MCEsdbEventStore ---------------------------
(***************************************************************************)
(* Instances of EsdbEventStore for TLC.                                    *)
(***************************************************************************)
EXTENDS EsdbEventStore, TLC

CONSTANTS c1, c2, a1

SameAggregate == [c \in Client |-> a1]

WriterAndUpdater == c1 :> {"any"} @@ c2 :> {"initial", "load", "loaded"}
Updaters == [c \in Client |-> {"any", "load", "loaded"}]
=============================================================================
