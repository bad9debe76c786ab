---------------------------- MODULE SerialWriter ----------------------------
(***************************************************************************)
(* What a write queue in front of a database plugin promises, with no      *)
(* batches, groups or retries in it: writes are accepted in some order,    *)
(* and the accepted sequence is consumed strictly from the front, a run of *)
(* writes at a time, each write being answered in the step that consumes   *)
(* it and every one with the same outcome.  A teardown fails whatever      *)
(* waits at the back, and refuses everything that comes later.             *)
(*                                                                         *)
(* BatchingDbPlugin is shown to implement this module.                     *)
(***************************************************************************)
EXTENDS Naturals, Sequences

CONSTANTS Writes,   \* the calls to bulkPersist, each an event of its own
          Outcomes  \* what the backend may answer

VARIABLES pending,  \* accepted writes not consumed yet, oldest first
          answer,   \* [Writes -> Seq(outcome)]: the callbacks each write got
          closed    \* teardown has begun

vars == <<pending, answer, closed>>

InPending(w) == \E i \in DOMAIN pending : pending[i] = w

\* The answers after each write of the sequence ws is told outcome o.
Told(ws, o) ==
  [w \in Writes |-> IF \E i \in DOMAIN ws : ws[i] = w
                      THEN Append(answer[w], o) ELSE answer[w]]

Init ==
  /\ pending = <<>>
  /\ answer = [w \in Writes |-> <<>>]
  /\ closed = FALSE

Accept(w) ==
  /\ ~closed
  /\ answer[w] = <<>>
  /\ ~InPending(w)
  /\ pending' = Append(pending, w)
  /\ UNCHANGED <<answer, closed>>

Refuse(w) ==
  /\ closed
  /\ answer[w] = <<>>
  /\ ~InPending(w)
  /\ answer' = Told(<<w>>, "destroyed")
  /\ UNCHANGED <<pending, closed>>

\* The first n writes are consumed and told the same outcome.
Serve(n, o) ==
  /\ pending' = SubSeq(pending, n + 1, Len(pending))
  /\ answer' = Told(SubSeq(pending, 1, n), o)
  /\ UNCHANGED closed

\* Teardown keeps the first n writes, already on their way, and fails the rest.
Close(n) ==
  /\ closed' = TRUE
  /\ pending' = SubSeq(pending, 1, n)
  /\ answer' = Told(SubSeq(pending, n + 1, Len(pending)), "destroyed")

Next ==
  \/ \E w \in Writes : Accept(w) \/ Refuse(w)
  \/ \E n \in 1..Len(pending), o \in Outcomes : Serve(n, o)
  \/ \E n \in 0..Len(pending) : Close(n)

ServeSome == \E n \in 1..Len(pending), o \in Outcomes : Serve(n, o)

Spec == Init /\ [][Next]_vars /\ WF_vars(ServeSome)
=============================================================================
