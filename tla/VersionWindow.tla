--------------------------- MODULE VersionWindow ---------------------------
(***************************************************************************)
(* What the docstring of SourceState promises a consumer that polls Pulse: *)
(* per source a window onto the upstream history, two versions wide.  A    *)
(* different version moves the current one to last; both keep the time     *)
(* they were recorded, and the times never run backwards.  Nothing else    *)
(* ever changes the window: no failed check, no restart, no other source.  *)
(***************************************************************************)
EXTENDS Naturals

CONSTANTS Source, Version, None,
          Time        \* the readings of the clock

VARIABLE window

\* A version of None has no time; 0 stands for that.
Empty == [current_version |-> None, current_version_at |-> 0,
          last_version |-> None, last_version_at |-> 0]

Init == window = [s \in Source |-> Empty]

\* Version v is detected at time t and is not the one already shown.
Sight(s, v, t) ==
  /\ v # window[s].current_version
  /\ t >= window[s].current_version_at
  /\ window' = [window EXCEPT ![s] =
                  [current_version |-> v,
                   current_version_at |-> t,
                   last_version |-> window[s].current_version,
                   last_version_at |-> window[s].current_version_at]]

Next == \E s \in Source, v \in Version, t \in Time : Sight(s, v, t)

Spec == Init /\ [][Next]_window
=============================================================================
