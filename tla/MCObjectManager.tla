-------------------------- MODULE MCObjectManager ---------------------------
(* ObjectManager for one object, two links and three goals of every kind.  *)
EXTENDS ObjectManager

CONSTANTS o1, l1, l2

Ask(k, l, f) == [kind |-> k, id |-> o1, link |-> l, form |-> f]

OneObject == {o1}
TwoLinks == {l1, l2}
Moving == {Ask(k, l1, "good") : k \in {"add", "remove", "attach", "detach"}}
Changing == Moving \cup {Ask("attach", l2, "good"), Ask("add", l1, "unloadable")}
Looking == {Ask("check", l1, "good"), Ask("pose", l1, "good"), Ask("attach", l1, "invalid")}

\* Requests that leave the scene alone come last: nothing hangs on them. The
\* first attaches to l1, as the links are alike, and adds what can be added.
ChangesFirst ==
  {p \in [1..3 -> Changing \cup Looking] : p[1] \in Moving /\ p[2] \in Changing}
=============================================================================
