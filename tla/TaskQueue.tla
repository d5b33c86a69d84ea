------------------------------ MODULE TaskQueue ------------------------------
(***************************************************************************)
(* What the agent scripts promise of the task queue, whoever runs them and *)
(* in whatever order: tasks are finished one after the other, each of them *)
(* after the tasks it depends on, and finished tasks are marked merged.  A *)
(* mark stays, but for tasks whose issue, or that of a task they depend    *)
(* on, people have edited: such a task may be marked for attention again.  *)
(* That its work is finished never changes.                                *)
(***************************************************************************)

CONSTANTS Tasks,       \* the task issues
          DependsOn    \* the tasks each of them depends on

VARIABLES finished,    \* the tasks a pull request was merged for
          marked,      \* the tasks marked merged
          edited       \* the tasks whose issue people have edited

queueVars == <<finished, marked, edited>>

QueueInit == finished = {} /\ marked = {} /\ edited = {}

Finish(t) ==
  /\ DependsOn[t] \subseteq finished
  /\ finished' = finished \cup {t}
  /\ UNCHANGED <<marked, edited>>

Mark(t) ==
  /\ t \in finished
  /\ marked' = marked \cup {t}
  /\ UNCHANGED <<finished, edited>>

Edit(t) ==
  /\ edited' = edited \cup {t}
  /\ UNCHANGED <<finished, marked>>

\* The mark of a task is taken away because its issue no longer reads as it did.
Lapse(t) ==
  /\ ({t} \cup DependsOn[t]) \cap edited # {}
  /\ marked' = marked \ {t}
  /\ UNCHANGED <<finished, edited>>

QueueNext == \E t \in Tasks : Finish(t) \/ Mark(t) \/ Edit(t) \/ Lapse(t)

QueueSpec == QueueInit /\ [][QueueNext]_queueVars
=============================================================================
