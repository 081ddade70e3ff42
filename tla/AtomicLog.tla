----------------------------- MODULE AtomicLog -----------------------------
(***************************************************************************)
(* What the event store of a table promises to the commands that use it:   *)
(* commands take effect one at a time, a command at most once, and a       *)
(* command that was answered with success has taken effect.  A command is  *)
(* computed from the state all the earlier ones left; only one that came   *)
(* before the version it expects may be computed from an older state.      *)
(***************************************************************************)
EXTENDS Naturals, Sequences

CONSTANT Keys     \* the commands, by idempotency key

VARIABLES
    history,   \* the commands that took effect, with the version each was computed from
    told       \* the keys of the commands answered with success

Applied == {history[i].key : i \in DOMAIN history}

Init == history = <<>> /\ told = {}

Apply(k) ==
    /\ k \notin Applied
    /\ \E base \in 0..Len(history), early \in BOOLEAN :
          /\ early \/ base = Len(history)
          /\ history' = Append(history, [key |-> k, base |-> base, early |-> early])
    /\ UNCHANGED told

Tell(k) ==
    /\ k \in Applied
    /\ told' = told \cup {k}
    /\ UNCHANGED history

Next == \E k \in Keys : Apply(k) \/ Tell(k)

Spec == Init /\ [][Next]_<<history, told>>
============================================================================
