-------------------------- MODULE GovernedSubmission -------------------------
(***************************************************************************)
(* What the governed cycle promises about orders, whatever its components  *)
(* do: an order leaves at most once, only when its decision was granted by *)
(* the kernel, and only after its intention was written down.              *)
(***************************************************************************)
CONSTANT Orders

VARIABLES granted, intended, sent

svars == <<granted, intended, sent>>

Init == granted = {} /\ intended = {} /\ sent = {}

Grant(o) ==
  /\ granted' = granted \cup {o}
  /\ UNCHANGED <<intended, sent>>

Intend(o) ==
  /\ o \in granted
  /\ intended' = intended \cup {o}
  /\ UNCHANGED <<granted, sent>>

Send(o) ==
  /\ o \in intended \ sent
  /\ sent' = sent \cup {o}
  /\ UNCHANGED <<granted, intended>>

Next == \E o \in Orders : Grant(o) \/ Intend(o) \/ Send(o)

Spec == Init /\ [][Next]_svars
==============================================================================
