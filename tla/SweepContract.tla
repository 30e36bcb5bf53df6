--------------------------- MODULE SweepContract ---------------------------
(***************************************************************************)
(* What the callers of the check service are promised (service.py,         *)
(* "checks the given refs concurrently and persists each result"), with no *)
(* pool, no futures and no catalog in it.  A caller asks for a set of      *)
(* sources at once and for no more until it is done with them.  Each of    *)
(* them is answered in key order, and an answer is the only thing that     *)
(* makes a source not due: a caller that gives up, and a process that is   *)
(* restarted, forget what they asked for and leave it as due as it was.    *)
(***************************************************************************)
EXTENDS Naturals

CONSTANTS Source, Caller

VARIABLES
  asked,  \* caller -> the sources it has not been answered for
  due     \* the sources that want an answer

Nobody == [c \in Caller |-> {}]

Init == asked = Nobody /\ due \in SUBSET Source

Ask(c, S) ==
  /\ asked[c] = {}
  /\ asked' = [asked EXCEPT ![c] = S]
  /\ UNCHANGED due

Answer(c, s) ==
  /\ s \in asked[c]
  /\ \A t \in asked[c] : s <= t
  /\ asked' = [asked EXCEPT ![c] = @ \ {s}]
  /\ due' = due \ {s}

GiveUp(c) ==
  /\ asked' = [asked EXCEPT ![c] = {}]
  /\ UNCHANGED due

Elapse(s) ==
  /\ due' = due \cup {s}
  /\ UNCHANGED asked

Restart ==
  /\ asked' = Nobody
  /\ UNCHANGED due

Next ==
  \/ \E c \in Caller : \/ \E S \in SUBSET Source : Ask(c, S)
                       \/ \E s \in Source : Answer(c, s)
                       \/ GiveUp(c)
  \/ \E s \in Source : Elapse(s)
  \/ Restart

Spec == Init /\ [][Next]_<<asked, due>>
=============================================================================
