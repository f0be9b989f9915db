---------------------------- MODULE RunLifecycle ----------------------------
(***************************************************************************)
(* What a run record promises its readers: the status moves along the      *)
(* transitions of RunBuilder, each one once, and the record carries the    *)
(* timestamp of every transition that has one.                             *)
(***************************************************************************)
VARIABLE run

Init == run = [status |-> "queued", stamps |-> {}]

Moves(from, status, stamps) ==
  /\ run.status \in from
  /\ run' = [status |-> status, stamps |-> run.stamps \cup stamps]

start      == Moves({"queued"}, "in_progress", {"started"})
complete   == Moves({"in_progress"}, "completed", {"completed"})
fail       == Moves({"queued", "in_progress", "cancelling"}, "failed", {"failed"})
cancelling == Moves({"queued", "in_progress"}, "cancelling", {})
cancel     == Moves({"cancelling"}, "cancelled", {"cancelled"})

Next == start \/ complete \/ fail \/ cancelling \/ cancel

Spec == Init /\ [][Next]_run
=============================================================================
