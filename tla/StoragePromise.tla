---------------------------- MODULE StoragePromise ----------------------------
(***************************************************************************)
(* What a storage plugin promises of a save, whatever database it drives:  *)
(* bulkPersist applies every change and answers success, or answers an     *)
(* error; where the database has transactions the changes land together,   *)
(* and after an error none has, unless the answer of the commit was lost.  *)
(* A checked change lands only on the row its caller had seen.             *)
(*                                                                         *)
(* A table stands for one row of it: the number of the save that wrote it. *)
(***************************************************************************)
EXTENDS Naturals, Sequences

CONSTANTS Tables, NoRow

VARIABLES rows, saves, atomic
vars == <<rows, saves, atomic>>

Fresh(changes) ==
  [changes |-> changes, seen |-> rows, landed |-> {}, missed |-> {}, unsure |-> FALSE, answer |-> "none"]

\* What the row of t may become when save n changes it.
Outcomes(n, t) ==
  LET save   == saves[n]
      change == save.changes[t]
      missed == IF t \in save.missed \/ rows[t] = NoRow THEN {rows[t]} ELSE {}
  IN  IF change.checked /\ rows[t] # save.seen[t] THEN {}
      ELSE CASE change.do = "add"     -> IF rows[t] = NoRow THEN {n} ELSE {}
             [] change.do = "replace" -> {n}
             [] change.do = "remove"  -> {NoRow} \cup missed
             [] change.do = "update"  -> {n} \cup IF change.checked THEN {} ELSE missed

Init ==
  /\ rows \in [Tables -> Nat]
  /\ saves = <<>>
  /\ atomic \in BOOLEAN

Ask ==
  /\ Len(saves') = Len(saves) + 1
  /\ saves' = Append(saves, Fresh(saves'[Len(saves')].changes))
  /\ UNCHANGED <<rows, atomic>>

Pending(n) == n \in DOMAIN saves /\ saves[n].answer = "none"

\* The save came past T when no row was there.
Miss(n) ==
  /\ Pending(n)
  /\ \E T \in SUBSET DOMAIN saves[n].changes :
       /\ \A t \in T : rows[t] = NoRow
       /\ saves' = [saves EXCEPT ![n].missed = @ \cup T]
  /\ UNCHANGED <<rows, atomic>>

\* Where nothing is atomic, a replaced row may be seen between its two changes.
MayVacate(n, t) ==
  ~atomic /\ t \in DOMAIN saves[n].changes \ saves[n].landed /\ saves[n].changes[t].do = "replace"
KeptOrVacated(n, t) == rows'[t] = rows[t] \/ (MayVacate(n, t) /\ rows'[t] = NoRow)

Land(n) ==
  /\ Pending(n)
  /\ \E T \in (SUBSET (DOMAIN saves[n].changes \ saves[n].landed)) \ {{}} :
       /\ atomic => T = DOMAIN saves[n].changes
       /\ rows' \in [Tables -> Nat]
       /\ \A t \in Tables : IF t \in T THEN rows'[t] \in Outcomes(n, t) ELSE KeptOrVacated(n, t)
       /\ \E unsure \in BOOLEAN :
            saves' = [saves EXCEPT ![n].landed = @ \cup T, ![n].unsure = unsure]
  /\ UNCHANGED atomic

Vacate(n) ==
  /\ Pending(n)
  /\ rows' \in [Tables -> Nat]
  /\ \A t \in Tables : KeptOrVacated(n, t)
  /\ UNCHANGED <<saves, atomic>>

Answer(n) ==
  /\ Pending(n)
  /\ \/ /\ saves[n].landed = DOMAIN saves[n].changes
        /\ saves' = [saves EXCEPT ![n].answer = "ok"]
     \/ /\ atomic => saves[n].landed = {} \/ saves[n].unsure
        /\ saves' = [saves EXCEPT ![n].answer = "error"]
  /\ UNCHANGED <<rows, atomic>>

Next == Ask \/ \E n \in DOMAIN saves : Miss(n) \/ Land(n) \/ Vacate(n) \/ Answer(n)

Spec == Init /\ [][Next]_vars
===============================================================================
