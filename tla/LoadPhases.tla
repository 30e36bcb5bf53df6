----------------------------- MODULE LoadPhases -----------------------------
(***************************************************************************)
(* What a check is to the pool's workers, whatever the plugin does: a      *)
(* worker takes it, waits for _load_lock, loads the plugin alone, and then *)
(* runs it beside the others, unless it could not be loaded.  The check    *)
(* service implements this with one step for a whole load (CheckService),  *)
(* the plugin loader with every change to sys.path and sys.modules a step  *)
(* (PluginLoader): their two pictures of a load agree.                     *)
(***************************************************************************)
CONSTANT Worker

VARIABLE phase

AllIdle == [w \in Worker |-> "idle"]

Init == phase = AllIdle

Goes(w, from, to) ==
  /\ phase[w] = from
  /\ phase' = [phase EXCEPT ![w] = to]

Begin(w) == Goes(w, "idle", "waiting")

\* No scratch directory for it.
Drop(w) == Goes(w, "waiting", "idle")

Acquire(w) ==
  /\ \A u \in Worker : phase[u] # "loading"
  /\ Goes(w, "waiting", "loading")

Release(w) == \E next \in {"running", "idle"} : Goes(w, "loading", next)

End(w) == Goes(w, "running", "idle")

\* A new process.
Restart == phase' = AllIdle

Next ==
  \/ \E w \in Worker : Begin(w) \/ Drop(w) \/ Acquire(w) \/ Release(w) \/ End(w)
  \/ Restart

Spec == Init /\ [][Next]_phase
=============================================================================
