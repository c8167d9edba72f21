--------------------------- MODULE ObjectManager ----------------------------
(***************************************************************************)
(* ObjectManagerNode: five action servers over MoveIt's planning scene.    *)
(* Their callbacks share one mutually exclusive group, so a goal is taken  *)
(* up, carried out and answered before the next; a cancel finds its goal   *)
(* over.  The scene is read through /get_planning_scene and changed by     *)
(* messages on two topics; a timer on another thread waits for the service *)
(* when it is gone.  A step runs from one question to the next.            *)
(***************************************************************************)
EXTENDS PlanningScene, Integers

CONSTANTS
  NumGoals,     \* bound: goals, numbered as they are taken up
  Plans,        \* what they may ask, one after the other
  MaxRetries,   \* max_retries of every verification
  MaxSlow,      \* bound: questions a running service does not answer in time
  MaxOutages    \* bound: times move_group goes down

ASSUME ManagerAssumption ==
  NumGoals \in Nat /\ Plans \subseteq [1..NumGoals -> AllRequests]
  /\ MaxRetries \in Nat \ {0} /\ MaxSlow \in Nat /\ MaxOutages \in Nat

VARIABLES
  request,      \* what each goal asks
  status,       \* how far each goal has come
  scene,        \* external: MoveIt's scene
  worldTopic, attachTopic,  \* /collision_object and /attached_collision_object
  service,      \* external: /get_planning_scene is there
  ready,        \* planning_scene_ready_
  timer,        \* service_wait_timer_ is set
  watching,     \* how far its callback is: "no", "missed" the service, "waits" for it
  alive,        \* the process runs
  cur, step, tries,  \* the goal being served, its next step, attempts begun
  seenAttached, \* attached_object_exists
  blind,        \* history: a question of this goal went unanswered
  doubt,        \* history: objects changed on a blind decision or by a late message
  overtaken,    \* history: it stored that the service is gone when a goal had found it
  slow, outages

Goals == 1..NumGoals
None == 0

handler == <<cur, step, tries, seenAttached>>
watch == <<ready, timer, watching, overtaken>>
external == <<service, slow, outages>>
topics == <<worldTopic, attachTopic>>
vars == <<request, status, scene, topics, external, watch, alive, handler, blind, doubt>>

Init ==
  /\ request \in Plans
  /\ status = [g \in Goals |-> "sent"]
  /\ scene \in [world : SUBSET Objects, at : {[o \in Objects |-> Nowhere]}]
  /\ worldTopic = <<>> /\ attachTopic = <<>>
  \* The constructor waits for the service, or leaves that to the timer.
  /\ service \in BOOLEAN
  /\ ready = service /\ timer = ~service /\ watching = "no" /\ overtaken = FALSE
  /\ alive = TRUE
  /\ cur = None /\ step = "idle" /\ tries = 0 /\ seenAttached = FALSE
  /\ blind = FALSE /\ doubt = {}
  /\ slow = 0 /\ outages = 0

req == request[cur]
kind == req.kind

-----------------------------------------------------------------------------
(* The service and its timer.                                              *)

\* ensurePlanningSceneService(0) finds it; the timer is no longer needed.
OnPlanningSceneServiceReady ==
  /\ service
  /\ ready' = TRUE
  /\ timer' = (timer /\ ready)
  /\ overtaken' = FALSE
  /\ UNCHANGED watching

SchedulePlanningSceneRetry ==
  ready' = FALSE /\ timer' = TRUE /\ overtaken' = FALSE /\ UNCHANGED watching

\* A question to the scene, where truth is what it holds: the answer is the
\* truth, or FALSE when none comes.
Unanswered ==
  /\ IF service THEN slow < MaxSlow /\ slow' = slow + 1 ELSE UNCHANGED slow
  /\ blind' = TRUE
  /\ UNCHANGED <<service, outages>>

\* Broken variant: a timeout leaves the timer alone.
AsksOnce(truth, seen) ==
  \/ OnPlanningSceneServiceReady /\ seen = truth /\ UNCHANGED <<external, blind>>
  \/ Unanswered /\ seen = FALSE /\ ready' = FALSE
     /\ UNCHANGED <<timer, watching, overtaken>>

Asks(truth, seen) ==
  \/ OnPlanningSceneServiceReady /\ seen = truth /\ UNCHANGED <<external, blind>>
  \/ Unanswered /\ seen = FALSE /\ SchedulePlanningSceneRetry

ObjectExists(seen) == Asks(InWorld(scene, req.id), seen)
AttachedObjectExists(seen) == Asks(Attached(scene, req.id), seen)
GetAttachedObjectLinkById(seen) == Asks(Attached(scene, req.id), seen)
GetObjectDataById(seen) == Asks(InWorld(scene, req.id) \/ Attached(scene, req.id), seen)

\* The timer's callback finds the service, or misses it. It runs with the node
\* in its executor, where the spin_some() of printPlanningScene() throws, and
\* nothing catches it.
Resume == ready' = TRUE /\ timer' = FALSE /\ alive' = FALSE

RetryFires ==
  /\ timer /\ watching = "no"
  /\ IF service
       THEN Resume /\ UNCHANGED watching
       ELSE watching' = "missed" /\ UNCHANGED <<ready, timer, alive>>
  /\ UNCHANGED <<overtaken, request, status, scene, topics, external, handler, blind, doubt>>

\* It stores that the service is gone, by which time a goal may have found it
\* and cancelled the timer.
RetryMisses ==
  /\ watching = "missed"
  /\ watching' = "waits" /\ ready' = FALSE /\ overtaken' = ~timer
  /\ UNCHANGED <<timer, alive, request, status, scene, topics, external, handler, blind, doubt>>

\* After one more second.
RetryEnds ==
  /\ watching = "waits"
  /\ IF service
       THEN Resume /\ UNCHANGED watching
       ELSE watching' = "no" /\ UNCHANGED <<ready, timer, alive>>
  /\ UNCHANGED <<overtaken, request, status, scene, topics, external, handler, blind, doubt>>

-----------------------------------------------------------------------------
(* Steps of a goal.                                                        *)

At(s) == step = s /\ UNCHANGED <<request, scene, alive>>
Go(s) == step' = s /\ UNCHANGED <<status, topics, doubt, cur, tries>>
Keep == UNCHANGED seenAttached

Ends(code) ==
  /\ status' = [status EXCEPT ![cur] = code]
  /\ cur' = None /\ step' = "idle" /\ tries' = 0
  /\ UNCHANGED <<topics, doubt>>

Succeed == Ends("succeeded")
Abort == Ends("aborted")

\* An empty optional is dereferenced for a message.
DereferenceNothing ==
  /\ alive' = FALSE
  /\ UNCHANGED <<request, status, scene, topics, handler, doubt>>

Message(op) == [op |-> op, id |-> req.id, link |-> req.link, goal |-> cur]

\* A message finds MoveIt subscribed, or is lost; then the effect is verified.
Publish(op, next) ==
  /\ IF ~service THEN UNCHANGED topics
     ELSE IF op \in {"attach", "detach"}
       THEN attachTopic' = Append(attachTopic, Message(op)) /\ UNCHANGED worldTopic
       ELSE worldTopic' = Append(worldTopic, Message(op)) /\ UNCHANGED attachTopic
  /\ doubt' = IF blind' THEN doubt \cup {req.id} ELSE doubt
  /\ step' = next
  /\ UNCHANGED <<status, cur>>

\* The goal callbacks.
Begin(g) ==
  /\ step = "idle" /\ status[g] = "sent"
  /\ \A h \in Goals : h < g => status[h] # "sent"
  /\ tries' = 0 /\ seenAttached' = FALSE /\ blind' = FALSE
  /\ IF request[g].form = "invalid" /\ request[g].kind \notin {"remove", "check"}
       THEN status' = [status EXCEPT ![g] = "rejected"] /\ UNCHANGED <<cur, step>>
     ELSE IF request[g].kind = "add"
       THEN cur' = g /\ step' = "addWorld" /\ UNCHANGED status
       ELSE cur' = g /\ step' = "execute" /\ status' = [status EXCEPT ![g] = "open"]
  /\ UNCHANGED <<request, scene, topics, external, watch, alive, doubt>>

Rejected == Ends("rejected")

\* Broken variant: attached objects are not looked for.
AddGoalForgetsAttached ==
  /\ At("addWorld") /\ Keep
  /\ \E seen \in BOOLEAN :
       /\ ObjectExists(seen)
       /\ IF seen THEN Rejected
          ELSE /\ step' = "execute" /\ status' = [status EXCEPT ![cur] = "open"]
               /\ UNCHANGED <<topics, doubt, cur, tries>>

AddGoal ==
  /\ At("addWorld") /\ Keep
  /\ \E seen \in BOOLEAN :
       ObjectExists(seen) /\ IF seen THEN Rejected ELSE Go("addAttached")

AddGoalAttached ==
  /\ At("addAttached") /\ Keep
  /\ \E seen \in BOOLEAN :
       /\ AttachedObjectExists(seen)
       /\ IF seen THEN Go("addLink")
          ELSE /\ step' = "execute" /\ status' = [status EXCEPT ![cur] = "open"]
               /\ UNCHANGED <<topics, doubt, cur, tries>>

AddGoalLink ==
  /\ step = "addLink"
  /\ \E seen \in BOOLEAN :
       /\ GetAttachedObjectLinkById(seen)
       /\ \/ Rejected /\ UNCHANGED <<request, scene, alive, seenAttached>>
          \/ ~seen /\ DereferenceNothing

\* Every execute callback first looks for the service.
NoService ==
  /\ At("execute") /\ Keep
  /\ ~service /\ SchedulePlanningSceneRetry
  /\ Abort
  /\ UNCHANGED <<external, blind>>

Execute ==
  /\ At("execute") /\ Keep
  /\ OnPlanningSceneServiceReady /\ UNCHANGED <<external, blind>>
  /\ CASE kind = "add" -> Publish(IF req.form = "unloadable" THEN "nothing" ELSE "add", "verify")
       [] kind = "check" -> Go("world")
       [] kind = "pose" -> Go("data")
       [] OTHER -> Go("attached")
  /\ tries' = 0

\* attachedObjectExists() of a removal, an attach, a detach, a check, a pose.
LookAttached ==
  /\ At("attached")
  /\ \E seen \in BOOLEAN :
       /\ AttachedObjectExists(seen)
       /\ seenAttached' = seen
       /\ CASE kind = "remove" -> IF seen THEN Abort ELSE Go("world")
            [] kind \in {"attach", "detach"} -> Go("world")
            [] kind = "check" -> IF seen THEN Go("message") ELSE Succeed
            [] kind = "pose" -> Go(IF seen THEN "link" ELSE "transform")

\* objectExists() of a check, a removal, an attach, a detach.
LookWorld ==
  /\ At("world") /\ Keep
  /\ \E seen \in BOOLEAN :
       /\ ObjectExists(seen)
       /\ CASE kind = "check" -> Go("attached")
            [] kind = "remove" -> IF seen THEN Publish("remove", "verify") /\ UNCHANGED tries
                                  ELSE Go("recheck")
            [] kind = "attach" -> IF seenAttached THEN Go("link")
                                  ELSE IF seen THEN Publish("attach", "verify") /\ UNCHANGED tries
                                  ELSE Abort
            [] kind = "detach" -> IF seenAttached THEN Go("data") ELSE Succeed

RecheckAttached ==
  /\ At("recheck") /\ Keep
  /\ \E seen \in BOOLEAN :
       /\ AttachedObjectExists(seen)
       /\ IF seen THEN Publish("remove", "verify") /\ UNCHANGED tries ELSE Succeed

\* getAttachedObjectLinkById(): an attached object keeps its link, or the
\* pose is read in that link's frame.
LookLink ==
  /\ At("link") /\ Keep
  /\ \E seen \in BOOLEAN :
       /\ GetAttachedObjectLinkById(seen)
       /\ CASE kind = "attach" -> Go(IF seen /\ scene.at[req.id] = req.link THEN "message" ELSE "refusal")
            [] kind = "pose" -> IF seen THEN Go("transform") ELSE Abort

\* The link once more, for the words of the answer.
AnswerWithLink ==
  /\ step \in {"message", "refusal"}
  /\ \E seen \in BOOLEAN :
       /\ GetAttachedObjectLinkById(seen)
       /\ \/ /\ IF step = "message" THEN Succeed ELSE Abort
             /\ UNCHANGED <<request, scene, alive, seenAttached>>
          \/ ~seen /\ DereferenceNothing

LookData ==
  /\ At("data") /\ Keep
  /\ \E seen \in BOOLEAN :
       /\ GetObjectDataById(seen)
       /\ IF ~seen THEN Abort
          ELSE IF kind = "detach" THEN Publish("detach", "verify") /\ UNCHANGED tries
          ELSE Go("attached")

\* The transform may be missing and the arrays of the wrong size.
Transform ==
  /\ At("transform") /\ Keep
  /\ Succeed \/ Abort
  /\ UNCHANGED <<external, watch, blind>>

-----------------------------------------------------------------------------
(* Verification: up to max_retries looks at the scene.                     *)

\* Broken variant: the attempts are not counted.
TryForEver == step' = "verify" /\ UNCHANGED <<status, topics, doubt, cur, tries>>

TryAgain ==
  IF tries + 1 = MaxRetries THEN Abort
  ELSE /\ tries' = tries + 1 /\ step' = "verify"
       /\ UNCHANGED <<status, topics, doubt, cur>>

\* Broken variant: the scene is asked, the answer is not looked at.
VerifyAddedUnseen ==
  /\ At("verify") /\ Keep /\ kind = "add"
  /\ \E seen \in BOOLEAN : ObjectExists(seen) /\ Succeed

VerifyAdded ==
  /\ At("verify") /\ Keep /\ kind = "add"
  /\ \E seen \in BOOLEAN : ObjectExists(seen) /\ IF seen THEN Succeed ELSE TryAgain

VerifyRemoved ==
  /\ At("verify") /\ Keep /\ kind = "remove"
  /\ \E seen \in BOOLEAN : ObjectExists(seen) /\ IF seen THEN TryAgain ELSE Succeed

\* An attach or detach first gets the scene, for 500 ms, and drops it.
GetScene ==
  /\ At("verify") /\ Keep /\ kind \in {"attach", "detach"}
  /\ \/ service /\ Go("confirm") /\ UNCHANGED slow
     \/ /\ IF service THEN slow < MaxSlow /\ slow' = slow + 1 ELSE UNCHANGED slow
        /\ TryAgain
  /\ UNCHANGED <<service, outages, watch, blind>>

Confirm ==
  /\ At("confirm") /\ Keep
  /\ \E seen \in BOOLEAN :
       /\ AttachedObjectExists(seen)
       /\ IF (kind = "attach") # seen THEN TryAgain
          ELSE IF kind = "attach" THEN Succeed ELSE Go("returned")

\* Broken variant: a detached object is not looked for in the world.
ConfirmReturnAtOnce == At("returned") /\ Keep /\ Succeed /\ UNCHANGED <<external, watch, blind>>

\* A detached object must be in the world, or is added there again.
ConfirmReturn ==
  /\ At("returned") /\ Keep
  /\ \E seen \in BOOLEAN :
       /\ ObjectExists(seen)
       /\ IF seen THEN Succeed ELSE Publish("add", "readded") /\ UNCHANGED tries

VerifyReadded ==
  /\ At("readded") /\ Keep
  /\ \E seen \in BOOLEAN : ObjectExists(seen) /\ IF seen THEN Succeed ELSE TryAgain

Step ==
  \/ AddGoal \/ AddGoalAttached \/ AddGoalLink \/ NoService \/ Execute
  \/ LookAttached \/ LookWorld \/ RecheckAttached \/ LookLink \/ AnswerWithLink
  \/ LookData \/ Transform
  \/ VerifyAdded \/ VerifyRemoved \/ GetScene \/ Confirm \/ ConfirmReturn \/ VerifyReadded

Retry == RetryFires \/ RetryMisses \/ RetryEnds
Manager == alive /\ (Step \/ Retry \/ \E g \in Goals : Begin(g))

-----------------------------------------------------------------------------
(* move_group: it takes the messages of a topic in order, of the two       *)
(* topics in any, and loses the scene and the messages when it goes down.  *)

Applies(m) ==
  /\ scene' = After(scene, m.op, m.id, m.link)
  /\ doubt' = IF m.goal = cur THEN doubt ELSE doubt \cup {m.id}
  /\ UNCHANGED <<request, status, external, watch, alive, handler, blind>>

TakeWorldMessage ==
  /\ worldTopic # <<>>
  /\ worldTopic' = Tail(worldTopic)
  /\ Applies(Head(worldTopic))
  /\ UNCHANGED attachTopic

TakeAttachMessage ==
  /\ attachTopic # <<>>
  /\ attachTopic' = Tail(attachTopic)
  /\ Applies(Head(attachTopic))
  /\ UNCHANGED worldTopic

GoesDown ==
  /\ service /\ outages < MaxOutages
  /\ service' = FALSE /\ outages' = outages + 1
  /\ scene' = EmptyScene
  /\ worldTopic' = <<>> /\ attachTopic' = <<>>
  /\ doubt' = {}
  /\ UNCHANGED <<request, status, slow, watch, alive, handler, blind>>

ComesUp ==
  /\ ~service
  /\ service' = TRUE
  /\ UNCHANGED <<request, status, scene, topics, slow, outages, watch, alive, handler, blind, doubt>>

MoveGroup == TakeWorldMessage \/ TakeAttachMessage \/ GoesDown \/ ComesUp

Next == Manager \/ MoveGroup
Spec == Init /\ [][Next]_vars

(* The executor runs the handlers and the timer's callback.                *)
Fairness == WF_vars(alive /\ (Step \/ \E g \in Goals : Begin(g))) /\ WF_vars(alive /\ Retry)
FairSpec == Spec /\ Fairness

-----------------------------------------------------------------------------
(* Properties.                                                             *)

TopicType(t) ==
  t \in Seq([op : Operations, id : Objects, link : Links, goal : Goals])

Steps ==
  {"idle", "addWorld", "addAttached", "addLink", "execute", "attached", "world", "recheck",
   "link", "message", "refusal", "data", "transform", "verify", "confirm", "returned", "readded"}

\* Every variable keeps its type.
TypeOK ==
  /\ request \in Plans
  /\ status \in [Goals -> {"sent", "open", "rejected", "succeeded", "aborted"}]
  /\ scene \in Scenes
  /\ TopicType(worldTopic) /\ TopicType(attachTopic)
  /\ service \in BOOLEAN /\ ready \in BOOLEAN /\ timer \in BOOLEAN
  /\ watching \in {"no", "missed", "waits"} /\ overtaken \in BOOLEAN /\ alive \in BOOLEAN
  /\ cur \in Goals \cup {None} /\ step \in Steps /\ tries \in 0..(MaxRetries - 1)
  /\ seenAttached \in BOOLEAN /\ blind \in BOOLEAN
  /\ doubt \subseteq Objects
  /\ slow \in 0..MaxSlow /\ outages \in 0..MaxOutages

\* A manager that takes the scene service for gone has the timer set that looks
\* for it, whichever of its questions went unanswered; unless the timer's own
\* callback took it for gone after a goal had found it and cancelled the timer.
RetriesWhileNotReady == alive /\ ~ready => timer \/ overtaken

\* An object is never in the world and on the robot at once, a collision of
\* the robot with what it holds, however goals, messages and outages
\* interleave; unless the manager acted on a question that went unanswered,
\* or a message took effect after its goal was given up.
NoDuplicate == \A o \in Objects \ doubt : ~(InWorld(scene, o) /\ Attached(scene, o))

\* A goal that is reported done is done, as its client takes it, at that very
\* moment, and what was detached is back in the world, also when move_group
\* went down in between; with the same exceptions, and but for an object that
\* was found attached already, as it may go while the answer is put together.
SuccessMeansDone ==
  [][\A g \in Goals :
       /\ status[g] = "open" /\ status'[g] = "succeeded"
       /\ ~blind' /\ request[g].id \notin doubt /\ step # "message"
       => /\ Done(scene, request[g])
          /\ request[g].kind = "detach" /\ step # "world" => InWorld(scene, request[g].id)]_vars

\* Every goal is answered, whether the service is there, slow or gone, as long
\* as the process runs. That it may end where it should resume is shown by
\* ResumesOperations.
Answered ==
  \A g \in Goals : (status[g] = "sent") ~> (status[g] \notin {"sent", "open"} \/ ~alive)

\* The manager retries the service and resumes operations once it is there: so
\* say its quality declaration and its log, and every goal would be answered.
\* In fact the callback of the retry ends the process (RetryFires).
ResumesOperations ==
  \A g \in Goals : (status[g] = "sent") ~> (status[g] \notin {"sent", "open"})

Promise == INSTANCE SceneRequests
  WITH Goals <- Goals, request <- request, status <- status, scene <- scene

\* The manager keeps the promise made to its clients.
KeepsPromise == Promise!Spec

-----------------------------------------------------------------------------
(* The inductive invariant behind the theorems.                            *)

\* The steps of each kind of goal.
StepsOf(k) ==
  CASE k = "add" -> {"addWorld", "addAttached", "addLink", "execute", "verify"}
    [] k = "remove" -> {"execute", "attached", "world", "recheck", "verify"}
    [] k = "attach" -> {"execute", "attached", "world", "link", "message", "refusal", "verify", "confirm"}
    [] k = "detach" -> {"execute", "attached", "world", "data", "verify", "confirm", "returned", "readded"}
    [] k = "check" -> {"execute", "world", "attached", "message"}
    [] k = "pose" -> {"execute", "data", "attached", "link", "transform"}

\* One goal at a time is open, or still in its goal callback.
OneServed ==
  /\ cur = None <=> step = "idle"
  /\ cur # None =>
       /\ step \in StepsOf(kind)
       /\ status[cur] = IF step \in {"addWorld", "addAttached", "addLink"} THEN "sent" ELSE "open"
  /\ \A g \in Goals : status[g] = "open" => g = cur

\* A message on its way belongs to a goal that was accepted and asked for it.
Asked(m) ==
  /\ status[m.goal] \in {"open", "succeeded", "aborted"}
  /\ m.op \in OperationsOf(request[m.goal])
  /\ m.id = request[m.goal].id /\ m.link = request[m.goal].link

MessagesAreAsked ==
  /\ \A i \in 1..Len(worldTopic) : Asked(worldTopic[i])
  /\ \A i \in 1..Len(attachTopic) :
       Asked(attachTopic[i]) /\ attachTopic[i].op \in {"attach", "detach"}

\* What is about to be added to the world, or has been sent to be, is not
\* on the robot.
AddedIsLoose ==
  /\ cur # None /\ req.id \notin doubt /\ ~blind
     /\ (step = "returned" \/ (step = "execute" /\ kind = "add"))
     => ~Attached(scene, req.id)
  /\ \A i \in 1..Len(worldTopic) :
       LET m == worldTopic[i] IN
       m.goal = cur /\ m.op = "add" /\ m.id \notin doubt => ~Attached(scene, m.id)

\* The messages, the goals and the scene, whatever a goal has seen.
SceneInv ==
  /\ TypeOK /\ OneServed /\ MessagesAreAsked
  /\ RetriesWhileNotReady
  /\ NoDuplicate /\ AddedIsLoose

\* What the goal has seen of its object still holds when it answers: nothing
\* but its own messages, and an outage, has moved the object since.
SeenStillHolds ==
  cur # None /\ ~blind /\ req.id \notin doubt =>
    /\ kind = "remove" /\ step \in {"world", "recheck", "verify"} => ~Attached(scene, req.id)
    /\ kind = "remove" /\ step = "recheck" => ~InWorld(scene, req.id)
    /\ kind = "attach" /\ (step \in {"verify", "confirm"} \/ (step = "world" /\ ~seenAttached))
         => scene.at[req.id] \in {Nowhere, req.link}
    /\ kind = "detach" /\ (step \in {"returned", "readded"} \/ (step = "world" /\ ~seenAttached))
         => ~Attached(scene, req.id)

\* What every step preserves.
ManagerInv == SceneInv /\ SeenStillHolds
=============================================================================
