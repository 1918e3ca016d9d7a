---- MODULE MCAdapterNames ----
(* The constants of MCAdapterNames.cfg. *)
EXTENDS AdapterNames, TLC

Label(address, name) == [pciAddress |-> address, name |-> name]

(* Both, one and no groups labelled, and labels that are not valid. *)
SomeRequests ==
  {NoLabels,
   <<Label("a", "V100"), Unlabelled>>,
   <<Label("a", "V100"), Label("b", "P40")>>,
   <<Label("", "V100"), Unlabelled>>,
   <<Unlabelled, Label("b", "blank")>>}

(* The clients do not differ, nor do the identities. *)
SomeSymmetry == Permutations(Clients) \cup Permutations(Identities)
====
