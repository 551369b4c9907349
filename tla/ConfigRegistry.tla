--------------------------- MODULE ConfigRegistry ---------------------------
(***************************************************************************)
(* What the control plane promises about a page: its config versions form  *)
(* one history that only grows, the active one is a member of it, and each *)
(* prompt the page ever used has one label, given in order and kept.       *)
(***************************************************************************)
EXTENDS Naturals, Sequences

CONSTANTS Pages, Contents, Texts

VARIABLES history, \* page -> its versions, version n at position n
          active,  \* page -> the number of the active version, 0 before there is one
          labels   \* page -> its prompts, the one labelled n at position n

registryVars == <<history, active, labels>>

Init ==
  /\ history \in [Pages -> Seq(Contents)] /\ labels = [p \in Pages |-> <<>>]
  /\ active \in [Pages -> Nat] /\ \A p \in Pages : active[p] <= Len(history[p])

Save(p) ==
  /\ history' # history
  /\ \E v \in Contents : history' = [history EXCEPT ![p] = Append(@, v)]
  /\ UNCHANGED <<active, labels>>

Activate(p) ==
  /\ active' # active
  /\ \E n \in DOMAIN history[p] : active' = [active EXCEPT ![p] = n]
  /\ UNCHANGED <<history, labels>>

Label(p) ==
  /\ labels' # labels
  /\ \E t \in Texts : /\ \A n \in DOMAIN labels[p] : labels[p][n] # t
                      /\ labels' = [labels EXCEPT ![p] = Append(@, t)]
  /\ UNCHANGED <<history, active>>

Spec == Init /\ [][\E p \in Pages : Save(p) \/ Activate(p) \/ Label(p)]_registryVars
=============================================================================
