-------------------------------- MODULE Slots --------------------------------
(* What an admission controller promises: work in progress holds a slot, at *)
(* most MaxGlobal slots are taken, at most MaxPerSubject of them by one     *)
(* subject. A process that ends gives back all of them.                     *)
EXTENDS Naturals, FiniteSets

CONSTANTS Work, Subject, MaxGlobal, MaxPerSubject

VARIABLE holders  \* records [work, subject]

HeldBy(s) == {h \in holders : h.subject = s}

Init == holders = {}

Take(w, s) ==
  /\ Cardinality(holders) < MaxGlobal
  /\ Cardinality(HeldBy(s)) < MaxPerSubject
  /\ \A h \in holders : h.work # w
  /\ holders' = holders \cup {[work |-> w, subject |-> s]}

Give == \E gone \in SUBSET holders : holders' = holders \ gone

Next == Give \/ \E w \in Work, s \in Subject : Take(w, s)

Spec == Init /\ [][Next]_holders

(* What that is for: never more work at once than the limits allow.         *)
WithinLimits ==
  /\ Cardinality(holders) <= MaxGlobal
  /\ \A s \in Subject : Cardinality(HeldBy(s)) <= MaxPerSubject
=============================================================================
