------------------------------ MODULE ReplyOnce ------------------------------
(***************************************************************************)
(* What a request/reply multiplexer promises, with no channel, lock or     *)
(* goroutine in sight.  Every request has one slot, which is settled at    *)
(* most once: by the first answer that is accepted for it, or by the       *)
(* caller's revocation.  Whoever settles a slot decides it for good; an    *)
(* answer that comes later is refused.  The caller ends once: with the     *)
(* answer of its own slot, by giving up, or detached (it asked not to      *)
(* wait).  A caller may give up although an answer was accepted (its       *)
(* timer fired at the same moment); it may never take an answer from a     *)
(* slot that it has revoked.                                               *)
(***************************************************************************)
CONSTANTS Reqs, Bodies, None

VARIABLES slot,      \* "unused", "open", "answered", "revoked"
          answer,    \* the answer accepted for the slot, or None
          outcome,   \* "undecided", "taken", "gaveUp", "detached"
          got        \* the answer the caller returned, or None

vars == <<slot, answer, outcome, got>>

Init == /\ slot = [r \in Reqs |-> "unused"]
        /\ answer = [r \in Reqs |-> None]
        /\ outcome = [r \in Reqs |-> "undecided"]
        /\ got = [r \in Reqs |-> None]

\* The caller announces the request; from here on an answer can be accepted.
Announce(r) == /\ slot[r] = "unused"
               /\ slot' = [slot EXCEPT ![r] = "open"]
               /\ UNCHANGED <<answer, outcome, got>>

\* The first answer settles the slot.
Answer(r, b) == /\ slot[r] = "open"
                /\ slot' = [slot EXCEPT ![r] = "answered"]
                /\ answer' = [answer EXCEPT ![r] = b]
                /\ UNCHANGED <<outcome, got>>

\* The caller, about to give up, closes the slot to every later answer.
Revoke(r) == /\ slot[r] = "open"
             /\ outcome[r] = "undecided"
             /\ slot' = [slot EXCEPT ![r] = "revoked"]
             /\ UNCHANGED <<answer, outcome, got>>

\* The caller returns the accepted answer.
Take(r) == /\ slot[r] = "answered"
           /\ outcome[r] = "undecided"
           /\ outcome' = [outcome EXCEPT ![r] = "taken"]
           /\ got' = [got EXCEPT ![r] = answer[r]]
           /\ UNCHANGED <<slot, answer>>

\* The caller gives up; its slot is no longer open then.
GiveUp(r) == /\ slot[r] # "unused"
             /\ outcome[r] = "undecided"
             /\ slot' = [slot EXCEPT ![r] = IF @ = "open" THEN "revoked" ELSE @]
             /\ outcome' = [outcome EXCEPT ![r] = "gaveUp"]
             /\ UNCHANGED <<answer, got>>

\* The caller leaves without waiting; the slot stays as it is.
Detach(r) == /\ slot[r] \in {"open", "answered"}
             /\ outcome[r] = "undecided"
             /\ outcome' = [outcome EXCEPT ![r] = "detached"]
             /\ UNCHANGED <<slot, answer, got>>

Next == \E r \in Reqs : \/ Announce(r)
                        \/ \E b \in Bodies : Answer(r, b)
                        \/ Revoke(r)
                        \/ Take(r)
                        \/ GiveUp(r)
                        \/ Detach(r)

Spec == Init /\ [][Next]_vars
==============================================================================
