---------------------------- MODULE HandlerLease ----------------------------
(***************************************************************************)
(* What the handler pools promise about each object: it is absent until    *)
(* the loader creates it, then leased to one holder at a time, idle between*)
(* leases, and never leased again once it is lost.                         *)
(***************************************************************************)
CONSTANTS Objects, Holders

VARIABLE owner

Init == owner = [o \in Objects |-> "absent"]

\* A holder h gets an object that nobody has.
Lend(h, was, is) == was \in {"absent", "idle"} /\ is \in {h, "lost"}

\* A holder h gives up an object of its own.
GiveUp(h, was, is) == was = h /\ is \in {"idle", "lost"}

\* Every step is one holder's and touches only what is its own or nobody's.
Next ==
  LET old == owner
      new == owner'
  IN \E h \in Holders :
       \A o \in Objects : \/ new[o] = old[o]
                          \/ Lend(h, old[o], new[o])
                          \/ GiveUp(h, old[o], new[o])

Spec == Init /\ [][Next]_owner
=============================================================================
