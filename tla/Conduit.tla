------------------------------- MODULE Conduit ------------------------------
(***************************************************************************)
(* What one direction of a channel promises: operations are carried in the *)
(* order in which they were called, none is skipped and none repeated; an  *)
(* answer is given once and never changed; an operation fails, and the     *)
(* process ends, only after the connection broke or somebody cancelled;    *)
(* and without that close() returns when everything was carried.           *)
(***************************************************************************)
EXTENDS Naturals, Sequences

VARIABLES
  first,    \* 0 if a connection string is carried first, otherwise 1
  answer,   \* by operation: "none" if it asks for no answer, "unset",
            \* "value", "badSize" or "exception"
  carried,  \* what was carried: operations, and 0 for the connection string
  healthy,  \* does the connection hold, and did nobody cancel?
  phase     \* "open", "closed" or "over"

vars == <<first, answer, carried, healthy, phase>>

Init == /\ first \in {0, 1}
        /\ answer = <<>> /\ carried = <<>>
        /\ healthy = TRUE /\ phase = "open"

(* An operation is called, with or without a promise.                      *)
Call ==
  /\ \E a \in {"none", "unset"} : answer' = Append(answer, a)
  /\ UNCHANGED <<carried, healthy, phase>>

(* What comes next, and may be carried unless its operation has failed.    *)
Due == first + Len(carried)
MayBeCarried ==
  \/ Due = 0
  \/ Due \in DOMAIN answer /\ (answer[Due] \in {"none", "unset", "badSize"})

Answered(n, a) ==
  [i \in DOMAIN answer |-> IF i = n /\ answer[i] = "unset" THEN a ELSE answer[i]]

Carry ==
  /\ MayBeCarried
  /\ carried' = Append(carried, Due)
  /\ answer' = Answered(Due, "value")
  /\ UNCHANGED <<healthy, phase>>

(* The next operation is told that its message has another size; it may    *)
(* still be carried, with another buffer.                                  *)
Misfit ==
  /\ MayBeCarried
  /\ answer' = Answered(Due, "badSize")
  /\ UNCHANGED <<carried, healthy, phase>>

Break ==
  /\ healthy' = FALSE
  /\ UNCHANGED <<answer, carried, phase>>

(* Operations that wait for an answer fail, and the process may end.       *)
Fail ==
  /\ ~healthy
  /\ \E failed \in SUBSET {i \in DOMAIN answer : answer[i] = "unset"} :
       answer' = [i \in DOMAIN answer |-> IF i \in failed THEN "exception" ELSE answer[i]]
  /\ phase' \in {"open", "over"}
  /\ UNCHANGED <<carried, healthy>>

Close ==
  /\ healthy => \A i \in DOMAIN answer : i < Due
  /\ phase' = "closed"
  /\ UNCHANGED <<answer, carried, healthy>>

Next == /\ phase = "open"
        /\ Call \/ Carry \/ Misfit \/ Break \/ Fail \/ Close
        /\ UNCHANGED first

Spec == Init /\ [][Next]_vars
=============================================================================
