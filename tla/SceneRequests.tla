--------------------------- MODULE SceneRequests ----------------------------
(***************************************************************************)
(* What the object manager promises its clients.  A request is refused, or *)
(* accepted and then answered once.  A refused one never touches the       *)
(* scene; an accepted one does so by its own operations only, and may do   *)
(* it long after it was reported to have failed.  An addition is reported  *)
(* done only while the object is in the world.                             *)
(***************************************************************************)
EXTENDS PlanningScene

CONSTANT Goals

VARIABLES
  request,  \* what each goal asks
  status,   \* how far each goal has come
  scene

vars == <<request, status, scene>>

Init ==
  /\ request \in [Goals -> AllRequests]
  /\ status = [g \in Goals |-> "sent"]
  /\ scene \in Scenes

Refuse(g) ==
  /\ status[g] = "sent"
  /\ status' = [status EXCEPT ![g] = "rejected"]
  /\ UNCHANGED <<request, scene>>

Accept(g) ==
  /\ status[g] = "sent"
  /\ status' = [status EXCEPT ![g] = "open"]
  /\ UNCHANGED <<request, scene>>

Effect(g) ==
  /\ status[g] \in {"open", "succeeded", "aborted"}
  /\ \E op \in OperationsOf(request[g]) :
       scene' = After(scene, op, request[g].id, request[g].link)
  /\ UNCHANGED <<request, status>>

Succeed(g) ==
  /\ status[g] = "open"
  /\ request[g].kind = "add" => InWorld(scene, request[g].id)
  /\ status' = [status EXCEPT ![g] = "succeeded"]
  /\ UNCHANGED <<request, scene>>

Fail(g) ==
  /\ status[g] = "open"
  /\ status' = [status EXCEPT ![g] = "aborted"]
  /\ UNCHANGED <<request, scene>>

\* The node that holds the scene goes down and the scene with it.
Lose ==
  /\ scene' = EmptyScene
  /\ UNCHANGED <<request, status>>

Next ==
  \/ \E g \in Goals : Refuse(g) \/ Accept(g) \/ Effect(g) \/ Succeed(g) \/ Fail(g)
  \/ Lose

Spec == Init /\ [][Next]_vars
=============================================================================
