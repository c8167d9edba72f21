--------------------------- MODULE PlanningScene ----------------------------
(***************************************************************************)
(* MoveIt's planning scene as the object manager uses it: the objects of   *)
(* the world and those attached to a link of the robot, and the requests   *)
(* clients make about them.  The scene itself is outside of this code.     *)
(***************************************************************************)
EXTENDS Sequences

CONSTANTS
  Objects,
  Links,
  Nowhere       \* the link of an object that is not attached

ASSUME NowhereAssumption == Nowhere \notin Links

EmptyScene == [world |-> {}, at |-> [o \in Objects |-> Nowhere]]
Scenes == [world : SUBSET Objects, at : [Objects -> Links \cup {Nowhere}]]

InWorld(s, o) == o \in s.world
Attached(s, o) == s.at[o] # Nowhere

\* A request names an object, a link if it attaches or detaches, and may be
\* one the manager refuses unseen ("invalid") or a mesh that cannot be loaded.
Kinds == {"add", "remove", "attach", "detach", "check", "pose"}
Forms == {"good", "invalid", "unloadable"}
AllRequests == [kind : Kinds, id : Objects, link : Links, form : Forms]

Operations == {"add", "remove", "attach", "detach", "nothing"}

\* The operations by which a request may change the scene: a detached object
\* that is missing from the world is added again.
OperationsOf(r) ==
  CASE r.kind = "detach" -> {"detach", "add"}
    [] r.kind = "add" -> {IF r.form = "unloadable" THEN "nothing" ELSE "add"}
    [] r.kind \in {"remove", "attach"} -> {r.kind}
    [] OTHER -> {}

\* What a message does to the scene: attaching moves an object out of the
\* world and detaching moves it back, if the link is the one it is on.
After(s, op, o, l) ==
  CASE op = "add" -> [s EXCEPT !.world = @ \cup {o}]
    [] op = "remove" -> [s EXCEPT !.world = @ \ {o}]
    [] op = "attach" /\ InWorld(s, o) -> [world |-> s.world \ {o}, at |-> [s.at EXCEPT ![o] = l]]
    [] op = "detach" /\ s.at[o] = l -> [world |-> s.world \cup {o}, at |-> [s.at EXCEPT ![o] = Nowhere]]
    [] OTHER -> s

\* What a client takes a success of its request to mean.
Done(s, r) ==
  CASE r.kind = "add" -> InWorld(s, r.id)
    [] r.kind = "remove" -> ~InWorld(s, r.id) /\ ~Attached(s, r.id)
    [] r.kind = "attach" -> s.at[r.id] = r.link
    [] r.kind = "detach" -> ~Attached(s, r.id)
    [] OTHER -> TRUE
=============================================================================
