------------------------ MODULE ObjectManagerProofs -------------------------
(***************************************************************************)
(* For any plans, objects, links and bounds: the manager's inductive       *)
(* invariant, that no object is ever in the world and on the robot at      *)
(* once, that what is reported done is done, and that the manager          *)
(* implements SceneRequests.                                               *)
(***************************************************************************)
EXTENDS ObjectManager, SequenceTheorems, TLAPS

Messages == [op : Operations, id : Objects, link : Links, goal : Goals]
BeforeAccept == {"addWorld", "addAttached", "addLink"}

-----------------------------------------------------------------------------
(* Lemmas about types.                                                     *)

\* The operations a request stands for are operations.
LEMMA OperationsAreTyped ==
  ASSUME NEW r \in AllRequests
  PROVE  OperationsOf(r) \subseteq Operations
BY DEF OperationsOf, Operations, AllRequests, Kinds, Forms

\* An attach or a removal never adds, and an addition never attaches.
LEMMA OperationsOfAKind ==
  ASSUME NEW r \in AllRequests
  PROVE  ~("add" \in OperationsOf(r) /\ "attach" \in OperationsOf(r))
BY DEF OperationsOf, AllRequests, Kinds, Forms

\* A message takes a scene to a scene.
LEMMA AfterIsTyped ==
  ASSUME NEW s \in Scenes, NEW op, NEW o \in Objects, NEW l \in Links
  PROVE  After(s, op, o, l) \in Scenes
BY DEF After, Scenes, InWorld, Attached

\* The goals of a typed state ask for what requests may be.
LEMMA RequestIsTyped ==
  ASSUME TypeOK, NEW g \in Goals
  PROVE  /\ request[g] \in AllRequests
         /\ request[g].kind \in Kinds /\ request[g].id \in Objects /\ request[g].link \in Links
<1>1. request \in [Goals -> AllRequests]
  BY ManagerAssumption DEF TypeOK, Goals
<1>. QED  BY <1>1 DEF AllRequests

\* What is on a topic is a message.
LEMMA MessagesAreTyped ==
  ASSUME TypeOK
  PROVE  /\ worldTopic \in Seq(Messages) /\ attachTopic \in Seq(Messages)
         /\ \A i \in 1..Len(worldTopic) : worldTopic[i] \in Messages
         /\ \A i \in 1..Len(attachTopic) : attachTopic[i] \in Messages
<1>1. worldTopic \in Seq(Messages) /\ attachTopic \in Seq(Messages)
  BY DEF TypeOK, TopicType, Messages
<1>. QED  BY <1>1, ElementOfSeq

\* No goal has the number of none, and every step of a kind is a step.
LEMMA NoneIsNoGoal == None \notin Goals
BY ManagerAssumption DEF None, Goals

LEMMA StepsAreTyped ==
  ASSUME NEW k \in Kinds
  PROVE  StepsOf(k) \subseteq Steps
BY DEF StepsOf, Steps, Kinds

-----------------------------------------------------------------------------
(* Lemmas about the shapes that steps of a goal have.                      *)

\* What a step does to the service, the timer and the process.
SurroundingsOK ==
  /\ service \in BOOLEAN /\ ready \in BOOLEAN /\ timer \in BOOLEAN
  /\ watching \in {"no", "missed", "waits"} /\ overtaken \in BOOLEAN
  /\ alive \in BOOLEAN /\ blind \in BOOLEAN
  /\ slow \in 0..MaxSlow /\ outages \in 0..MaxOutages
  /\ RetriesWhileNotReady

\* A question is answered truly, or the manager is blind from then on and the
\* timer set.
LEMMA Question ==
  ASSUME SceneInv, NEW truth, NEW seen, Asks(truth, seen), alive' \in BOOLEAN
  PROVE  SurroundingsOK' /\ (blind' \/ (seen = truth /\ blind' = blind))
<1>. USE DEF SceneInv, SurroundingsOK, RetriesWhileNotReady
<1>1. CASE OnPlanningSceneServiceReady /\ seen = truth /\ UNCHANGED <<external, blind>>
  BY <1>1 DEF OnPlanningSceneServiceReady, external, TypeOK
<1>2. CASE Unanswered /\ seen = FALSE /\ SchedulePlanningSceneRetry
  <2>1. slow' \in 0..MaxSlow /\ blind' /\ UNCHANGED <<service, outages>>
    BY <1>2, ManagerAssumption DEF Unanswered, TypeOK
  <2>2. ready' = FALSE /\ timer' = TRUE /\ overtaken' = FALSE /\ UNCHANGED watching
    BY <1>2 DEF SchedulePlanningSceneRetry
  <2>. QED  BY <2>1, <2>2, <1>2 DEF TypeOK, Unanswered
<1>. QED  BY <1>1, <1>2 DEF Asks

\* A step that only goes to another of the goal's steps.
LEMMA GoesOn ==
  ASSUME SceneInv, cur # None, NEW s \in StepsOf(kind), Go(s),
         s \in BeforeAccept <=> step \in BeforeAccept,
         UNCHANGED <<request, scene>>, SurroundingsOK', seenAttached' \in BOOLEAN,
         ~blind' => ~blind,
         s = "returned" /\ ~blind' => ~Attached(scene, req.id),
         s # "execute"
  PROVE  SceneInv'
<1>. USE DEF SceneInv, Go
<1>0. cur \in Goals /\ kind \in Kinds
  BY RequestIsTyped DEF TypeOK, kind, req
<1>1. TypeOK'
  BY <1>0, StepsAreTyped DEF TypeOK, SurroundingsOK, topics
<1>2. OneServed'
  BY <1>0 DEF OneServed, BeforeAccept, kind, req, StepsOf, Kinds
<1>3. MessagesAreAsked'
  BY DEF MessagesAreAsked, Asked, topics
<1>4. NoDuplicate' /\ AddedIsLoose'
  BY DEF NoDuplicate, AddedIsLoose, topics, req, kind
<1>. QED  BY <1>1, <1>2, <1>3, <1>4 DEF SurroundingsOK

\* A step that answers the goal.
LEMMA Answers ==
  ASSUME SceneInv, cur # None, NEW code \in {"rejected", "succeeded", "aborted"}, Ends(code),
         code = "rejected" <=> step \in BeforeAccept,
         UNCHANGED <<request, scene>>, SurroundingsOK', seenAttached' \in BOOLEAN
  PROVE  SceneInv'
<1>. USE DEF SceneInv, Ends
<1>0. cur \in Goals /\ None \notin Goals
  BY NoneIsNoGoal DEF TypeOK
<1>1. TypeOK'
  BY <1>0, ManagerAssumption DEF TypeOK, SurroundingsOK, topics, Steps
<1>2. OneServed'
  BY <1>0 DEF OneServed, TypeOK
<1>3. MessagesAreAsked'
  <2>1. ASSUME NEW m, Asked(m)  PROVE Asked(m)'
    BY <2>1, <1>0 DEF Asked, OneServed, BeforeAccept, TypeOK
  <2>. QED  BY <2>1 DEF MessagesAreAsked, topics
<1>4. NoDuplicate'
  BY DEF NoDuplicate
<1>5. AddedIsLoose'
  <2>1. \A i \in 1..Len(worldTopic) : worldTopic[i].goal # None
    BY <1>0, MessagesAreTyped DEF Messages
  <2>. QED  BY <2>1 DEF AddedIsLoose, topics
<1>. QED  BY <1>1, <1>2, <1>3, <1>4, <1>5 DEF SurroundingsOK

\* A step that accepts an addition.
LEMMA AcceptsAddition ==
  ASSUME SceneInv, step = "addAttached",
         step' = "execute", status' = [status EXCEPT ![cur] = "open"],
         UNCHANGED <<topics, doubt, cur, tries, request, scene>>,
         SurroundingsOK', seenAttached' \in BOOLEAN,
         ~blind' => ~Attached(scene, req.id)
  PROVE  SceneInv'
<1>. USE DEF SceneInv
<1>0. cur \in Goals /\ cur # None /\ kind \in Kinds
  BY RequestIsTyped DEF TypeOK, kind, req, OneServed
<1>1. TypeOK'
  BY <1>0 DEF TypeOK, SurroundingsOK, topics, Steps
<1>2. OneServed'
  BY <1>0 DEF OneServed, TypeOK, StepsOf, kind, req, Kinds
<1>3. MessagesAreAsked'
  <2>1. ASSUME NEW m, Asked(m)  PROVE Asked(m)'
    BY <2>1, <1>0 DEF Asked, OneServed, BeforeAccept, TypeOK
  <2>. QED  BY <2>1 DEF MessagesAreAsked, topics
<1>4. NoDuplicate'
  BY DEF NoDuplicate
<1>5. AddedIsLoose'
  BY <1>0 DEF AddedIsLoose, topics, req, kind
<1>. QED  BY <1>1, <1>2, <1>3, <1>4, <1>5 DEF SurroundingsOK

\* A message that is put on a topic leaves the others in their places.
LEMMA TopicGrows ==
  ASSUME NEW t \in Seq(Messages), NEW m \in Messages
  PROVE  /\ Append(t, m) \in Seq(Messages)
         /\ \A i \in 1..Len(Append(t, m)) :
              Append(t, m)[i] = m \/ (i \in 1..Len(t) /\ Append(t, m)[i] = t[i])
BY AppendProperties

\* A step that sends a message.
LEMMA Publishes ==
  ASSUME SceneInv, step \notin BeforeAccept, cur # None,
         NEW op \in OperationsOf(req), NEW next \in StepsOf(kind), Publish(op, next),
         next \notin BeforeAccept \cup {"execute", "returned"},
         tries' \in 0..(MaxRetries - 1),
         UNCHANGED <<request, scene>>, SurroundingsOK', seenAttached' \in BOOLEAN,
         op = "add" /\ ~blind' /\ req.id \notin doubt => ~Attached(scene, req.id)
  PROVE  SceneInv'
<1>. USE DEF SceneInv
<1>0. /\ cur \in Goals /\ req \in AllRequests /\ kind \in Kinds
      /\ req.id \in Objects /\ req.link \in Links
  BY RequestIsTyped DEF TypeOK, kind, req
<1>1. op \in Operations
  BY <1>0, OperationsAreTyped
<1>2. Message(op) \in Messages
  BY <1>0, <1>1 DEF Message, Messages
<1>3. status[cur] = "open"
  BY <1>0 DEF OneServed, BeforeAccept
<1>4. ASSUME NEW m, m = Message(op)  PROVE Asked(m)'
  BY <1>4, <1>0, <1>3 DEF Asked, Message, Publish, req
<1>5. worldTopic \in Seq(Messages) /\ attachTopic \in Seq(Messages)
  BY MessagesAreTyped
<1>6. /\ worldTopic' \in Seq(Messages) /\ attachTopic' \in Seq(Messages)
      /\ \A i \in 1..Len(worldTopic') :
           \/ worldTopic'[i] = Message(op)
           \/ i \in 1..Len(worldTopic) /\ worldTopic'[i] = worldTopic[i]
      /\ \A i \in 1..Len(attachTopic') :
           \/ attachTopic'[i] = Message(op)
           \/ i \in 1..Len(attachTopic) /\ attachTopic'[i] = attachTopic[i]
  <2>1. CASE UNCHANGED topics
    BY <2>1, <1>5 DEF topics
  <2>2. CASE attachTopic' = Append(attachTopic, Message(op)) /\ UNCHANGED worldTopic
    BY <2>2, <1>2, <1>5, TopicGrows
  <2>3. CASE worldTopic' = Append(worldTopic, Message(op)) /\ UNCHANGED attachTopic
    BY <2>3, <1>2, <1>5, TopicGrows
  <2>. QED  BY <2>1, <2>2, <2>3 DEF Publish
<1>7. doubt \subseteq doubt' /\ doubt' \subseteq Objects /\ (blind' => req.id \in doubt')
  BY <1>0 DEF Publish, TypeOK
<1>8. TypeOK'
  BY <1>0, <1>6, <1>7, StepsAreTyped DEF TypeOK, SurroundingsOK, TopicType, Messages, Publish
<1>9. OneServed'
  BY <1>0, <1>3 DEF OneServed, Publish, kind, req, BeforeAccept, StepsOf, Kinds
<1>10. MessagesAreAsked'
  <2>1. ASSUME NEW m, Asked(m)  PROVE Asked(m)'
    BY <2>1 DEF Asked, Publish
  <2>2. \A i \in 1..Len(worldTopic') : Asked(worldTopic[i])'
    BY <2>1, <1>4, <1>6 DEF MessagesAreAsked
  <2>3. \A i \in 1..Len(attachTopic') : Asked(attachTopic[i])'
    BY <2>1, <1>4, <1>6 DEF MessagesAreAsked
  <2>4. \A i \in 1..Len(attachTopic') : attachTopic'[i].op \in {"attach", "detach"}
    <3>1. CASE UNCHANGED attachTopic
      BY <3>1 DEF MessagesAreAsked
    <3>2. CASE op \in {"attach", "detach"}
      BY <3>2, <1>6 DEF MessagesAreAsked, Message
    <3>. QED  BY <3>1, <3>2 DEF Publish, topics
  <2>. QED  BY <2>2, <2>3, <2>4 DEF MessagesAreAsked
<1>11. NoDuplicate'
  BY <1>7 DEF NoDuplicate
<1>12. AddedIsLoose'
  <2>1. ASSUME NEW i \in 1..Len(worldTopic'),
               worldTopic'[i].goal = cur', worldTopic'[i].op = "add", worldTopic'[i].id \notin doubt'
        PROVE  ~Attached(scene', worldTopic'[i].id)
    BY <2>1, <1>6, <1>7 DEF AddedIsLoose, Message, Publish, req
  <2>2. step' \notin {"returned", "execute"}
    BY DEF Publish
  <2>. QED  BY <2>1, <2>2 DEF AddedIsLoose
<1>. QED  BY <1>8, <1>9, <1>10, <1>11, <1>12 DEF SurroundingsOK

\* A step after which the process is gone.
LEMMA Crashes ==
  ASSUME SceneInv, UNCHANGED <<request, status, scene, topics, handler, doubt>>,
         SurroundingsOK', ~blind' => ~blind
  PROVE  SceneInv'
<1>. USE DEF SceneInv, handler, topics
<1>1. TypeOK'
  BY DEF TypeOK, SurroundingsOK, TopicType
<1>2. OneServed' /\ MessagesAreAsked'
  BY DEF OneServed, MessagesAreAsked, Asked, kind, req
<1>3. NoDuplicate' /\ AddedIsLoose'
  BY DEF NoDuplicate, AddedIsLoose, kind, req
<1>. QED  BY <1>1, <1>2, <1>3 DEF SurroundingsOK

\* A step of the verification that did not find what it looked for.
LEMMA LooksAgain ==
  ASSUME SceneInv, step \in {"verify", "confirm", "readded"}, TryAgain,
         kind \in {"add", "remove", "attach", "detach"},
         UNCHANGED <<request, scene>>, SurroundingsOK', seenAttached' \in BOOLEAN
  PROVE  SceneInv'
<1>. USE DEF SceneInv
<1>0. cur # None /\ cur \in Goals /\ step \notin BeforeAccept
  BY DEF OneServed, BeforeAccept, TypeOK
<1>1. CASE Abort
  BY <1>1, <1>0, Answers DEF Abort
<1>2. CASE tries + 1 # MaxRetries
  <2>1. /\ tries' = tries + 1 /\ step' = "verify"
        /\ UNCHANGED <<status, topics, doubt, cur>>
    BY <1>2 DEF TryAgain
  <2>2. tries' \in 0..(MaxRetries - 1)
    BY <2>1, <1>2, ManagerAssumption DEF TypeOK
  <2>3. TypeOK'
    BY <2>1, <2>2 DEF TypeOK, SurroundingsOK, topics, Steps
  <2>4. OneServed' /\ MessagesAreAsked'
    BY <2>1, <1>0 DEF OneServed, MessagesAreAsked, Asked, topics, kind, req, StepsOf, BeforeAccept
  <2>5. NoDuplicate' /\ AddedIsLoose'
    BY <2>1 DEF NoDuplicate, AddedIsLoose, topics, kind, req
  <2>. QED  BY <2>3, <2>4, <2>5 DEF SurroundingsOK
<1>. QED  BY <1>1, <1>2 DEF TryAgain

-----------------------------------------------------------------------------
(* Every step of a goal preserves the invariant.                           *)

\* Which goals may be at a step.
LEMMA KindAtStep ==
  ASSUME SceneInv, step # "idle"
  PROVE  /\ cur # None /\ cur \in Goals /\ req.id \in Objects
         /\ kind \in {"add", "remove", "attach", "detach", "check", "pose"}
         /\ step \in StepsOf(kind)
         /\ step \in {"addWorld", "addAttached", "addLink"} => kind = "add"
         /\ step = "recheck" => kind = "remove"
         /\ step = "refusal" => kind = "attach"
         /\ step = "message" => kind \in {"attach", "check"}
         /\ step = "link" => kind \in {"attach", "pose"}
         /\ step = "attached" => kind \in {"remove", "attach", "detach", "check", "pose"}
         /\ step = "world" => kind \in {"check", "remove", "attach", "detach"}
         /\ step = "data" => kind \in {"detach", "pose"}
         /\ step \in {"returned", "readded"} => kind = "detach"
<1>1. cur # None /\ cur \in Goals /\ step \in StepsOf(kind)
  BY DEF SceneInv, OneServed, TypeOK
<1>2. kind \in Kinds /\ req.id \in Objects
  BY <1>1, RequestIsTyped DEF SceneInv, kind, req
<1>. QED  BY <1>1, <1>2 DEF StepsOf, Kinds

\* The common part of the steps that ask the scene.
LEMMA Looking ==
  ASSUME SceneInv, NEW truth, NEW seen, Asks(truth, seen), UNCHANGED alive
  PROVE  SurroundingsOK' /\ (~blind' => ~blind /\ seen = truth)
<1>1. alive' \in BOOLEAN /\ blind \in BOOLEAN
  BY DEF SceneInv, TypeOK
<1>. QED  BY <1>1, Question

LEMMA AddGoalKeeps ==
  ASSUME SceneInv, AddGoal
  PROVE  SceneInv'
<1>. USE DEF At, Keep
<1>1. PICK seen \in BOOLEAN : ObjectExists(seen) /\ IF seen THEN Rejected ELSE Go("addAttached")
  BY DEF AddGoal
<1>2. SurroundingsOK' /\ (~blind' => ~blind)
  BY <1>1, Looking DEF AddGoal, ObjectExists
<1>3. step = "addWorld" /\ seenAttached' \in BOOLEAN /\ UNCHANGED <<request, scene>>
  BY DEF AddGoal, SceneInv, TypeOK
<1>4. cur # None /\ "addAttached" \in StepsOf(kind)
  BY <1>3, KindAtStep DEF StepsOf
<1>. QED  BY <1>1, <1>2, <1>3, <1>4, Answers, GoesOn DEF Rejected, BeforeAccept

LEMMA AddGoalAttachedKeeps ==
  ASSUME SceneInv, AddGoalAttached
  PROVE  SceneInv'
<1>. USE DEF At, Keep
<1>1. PICK seen \in BOOLEAN :
        /\ AttachedObjectExists(seen)
        /\ IF seen THEN Go("addLink")
           ELSE /\ step' = "execute" /\ status' = [status EXCEPT ![cur] = "open"]
                /\ UNCHANGED <<topics, doubt, cur, tries>>
  BY DEF AddGoalAttached
<1>2. SurroundingsOK' /\ (~blind' => ~blind /\ seen = Attached(scene, req.id))
  BY <1>1, Looking DEF AddGoalAttached, AttachedObjectExists
<1>3. step = "addAttached" /\ seenAttached' \in BOOLEAN /\ UNCHANGED <<request, scene>>
  BY DEF AddGoalAttached, SceneInv, TypeOK
<1>4. cur # None /\ "addLink" \in StepsOf(kind)
  BY <1>3, KindAtStep DEF StepsOf
<1>5. CASE seen
  BY <1>5, <1>1, <1>2, <1>3, <1>4, GoesOn DEF BeforeAccept
<1>6. CASE ~seen
  BY <1>6, <1>1, <1>2, <1>3, AcceptsAddition
<1>. QED  BY <1>5, <1>6

LEMMA AddGoalLinkKeeps ==
  ASSUME SceneInv, AddGoalLink
  PROVE  SceneInv'
<1>1. PICK seen \in BOOLEAN :
        /\ GetAttachedObjectLinkById(seen)
        /\ \/ Rejected /\ UNCHANGED <<request, scene, alive, seenAttached>>
           \/ ~seen /\ DereferenceNothing
  BY DEF AddGoalLink
<1>2. alive' \in BOOLEAN /\ seenAttached' \in BOOLEAN /\ blind \in BOOLEAN
  BY <1>1 DEF DereferenceNothing, SceneInv, TypeOK, handler
<1>3. SurroundingsOK' /\ (~blind' => ~blind)
  BY <1>1, <1>2, Question DEF GetAttachedObjectLinkById
<1>4. step = "addLink" /\ cur # None
  BY KindAtStep DEF AddGoalLink
<1>. QED  BY <1>1, <1>2, <1>3, <1>4, Answers, Crashes DEF Rejected, DereferenceNothing, BeforeAccept

LEMMA NoServiceKeeps ==
  ASSUME SceneInv, NoService
  PROVE  SceneInv'
<1>1. step = "execute" /\ cur # None /\ step \notin BeforeAccept
  BY KindAtStep DEF NoService, At, BeforeAccept
<1>2. SurroundingsOK'
  BY DEF NoService, At, SchedulePlanningSceneRetry, SurroundingsOK, RetriesWhileNotReady, SceneInv, TypeOK, external
<1>3. seenAttached' \in BOOLEAN /\ UNCHANGED <<request, scene>> /\ Ends("aborted")
  BY DEF NoService, At, Keep, Abort, SceneInv, TypeOK
<1>. QED  BY <1>1, <1>2, <1>3, Answers

LEMMA ExecuteKeeps ==
  ASSUME SceneInv, Execute
  PROVE  SceneInv'
<1>1. /\ step = "execute" /\ cur # None /\ step \notin BeforeAccept
      /\ kind \in {"add", "remove", "attach", "detach", "check", "pose"}
  BY KindAtStep DEF Execute, At, BeforeAccept
<1>2. SurroundingsOK' /\ blind' = blind
  BY DEF Execute, At, OnPlanningSceneServiceReady, SurroundingsOK, RetriesWhileNotReady, SceneInv, TypeOK, external
<1>3. /\ seenAttached' \in BOOLEAN /\ UNCHANGED <<request, scene>>
      /\ tries' = 0 /\ tries' \in 0..(MaxRetries - 1)
  BY ManagerAssumption DEF Execute, At, Keep, SceneInv, TypeOK
<1>4. CASE kind = "add"
  <2>. DEFINE op == IF req.form = "unloadable" THEN "nothing" ELSE "add"
  <2>1. Publish(op, "verify")
    BY <1>4 DEF Execute
  <2>2. op \in OperationsOf(req) /\ "verify" \in StepsOf(kind)
    BY <1>4 DEF OperationsOf, StepsOf, kind
  <2>3. ~blind' /\ req.id \notin doubt => ~Attached(scene, req.id)
    BY <1>1, <1>2, <1>4 DEF SceneInv, AddedIsLoose
  <2>. HIDE DEF op
  <2>. QED  BY <2>1, <2>2, <2>3, <1>1, <1>2, <1>3, Publishes DEF BeforeAccept
<1>5. CASE kind # "add"
  <2>1. PICK s \in {"world", "data", "attached"} : Go(s) /\ s \in StepsOf(kind)
    BY <1>1, <1>5 DEF Execute, StepsOf
  <2>. QED  BY <2>1, <1>1, <1>2, <1>3, GoesOn DEF BeforeAccept
<1>. QED  BY <1>4, <1>5

LEMMA LookAttachedKeeps ==
  ASSUME SceneInv, LookAttached
  PROVE  SceneInv'
<1>1. PICK seen \in BOOLEAN :
        /\ AttachedObjectExists(seen)
        /\ seenAttached' = seen
        /\ CASE kind = "remove" -> IF seen THEN Abort ELSE Go("world")
             [] kind \in {"attach", "detach"} -> Go("world")
             [] kind = "check" -> IF seen THEN Go("message") ELSE Succeed
             [] kind = "pose" -> Go(IF seen THEN "link" ELSE "transform")
  BY DEF LookAttached
<1>2. SurroundingsOK' /\ (~blind' => ~blind)
  BY <1>1, Looking DEF LookAttached, At, AttachedObjectExists
<1>3. /\ step = "attached" /\ seenAttached' \in BOOLEAN /\ UNCHANGED <<request, scene>>
      /\ cur # None /\ step \notin BeforeAccept
      /\ kind \in {"remove", "attach", "detach", "check", "pose"}
  BY <1>1, KindAtStep DEF LookAttached, At, BeforeAccept
<1>4. \/ Ends("aborted") \/ Ends("succeeded")
      \/ \E s \in {"world", "message", "link", "transform"} : Go(s) /\ s \in StepsOf(kind)
  BY <1>1, <1>3 DEF Abort, Succeed, StepsOf
<1>. QED  BY <1>2, <1>3, <1>4, Answers, GoesOn DEF BeforeAccept

LEMMA LookWorldKeeps ==
  ASSUME SceneInv, LookWorld
  PROVE  SceneInv'
<1>1. PICK seen \in BOOLEAN :
        /\ ObjectExists(seen)
        /\ CASE kind = "check" -> Go("attached")
             [] kind = "remove" -> IF seen THEN Publish("remove", "verify") /\ UNCHANGED tries
                                   ELSE Go("recheck")
             [] kind = "attach" -> IF seenAttached THEN Go("link")
                                   ELSE IF seen THEN Publish("attach", "verify") /\ UNCHANGED tries
                                   ELSE Abort
             [] kind = "detach" -> IF seenAttached THEN Go("data") ELSE Succeed
  BY DEF LookWorld
<1>2. SurroundingsOK' /\ (~blind' => ~blind)
  BY <1>1, Looking DEF LookWorld, At, ObjectExists
<1>3. /\ step = "world" /\ seenAttached' \in BOOLEAN /\ UNCHANGED <<request, scene>>
      /\ cur # None /\ step \notin BeforeAccept
      /\ kind \in {"check", "remove", "attach", "detach"}
  BY KindAtStep DEF LookWorld, At, Keep, BeforeAccept, SceneInv, TypeOK
<1>4. \/ Ends("aborted") \/ Ends("succeeded")
      \/ \E s \in {"attached", "recheck", "link", "data"} : Go(s) /\ s \in StepsOf(kind)
      \/ \E op \in {"remove", "attach"} :
           Publish(op, "verify") /\ op = kind /\ UNCHANGED tries
  BY <1>1, <1>3 DEF Abort, Succeed, StepsOf
<1>5. ASSUME NEW op \in {"remove", "attach"}, Publish(op, "verify"), op = kind, UNCHANGED tries
      PROVE  SceneInv'
  <2>1. op \in OperationsOf(req) /\ "verify" \in StepsOf(kind) /\ op # "add"
    BY <1>5 DEF OperationsOf, StepsOf, kind
  <2>2. tries' \in 0..(MaxRetries - 1)
    BY <1>5 DEF SceneInv, TypeOK
  <2>. QED  BY <2>1, <2>2, <1>5, <1>2, <1>3, Publishes DEF BeforeAccept
<1>. QED  BY <1>2, <1>3, <1>4, <1>5, Answers, GoesOn DEF BeforeAccept

LEMMA RecheckAttachedKeeps ==
  ASSUME SceneInv, RecheckAttached
  PROVE  SceneInv'
<1>1. PICK seen \in BOOLEAN :
        /\ AttachedObjectExists(seen)
        /\ IF seen THEN Publish("remove", "verify") /\ UNCHANGED tries ELSE Succeed
  BY DEF RecheckAttached
<1>2. SurroundingsOK'
  BY <1>1, Looking DEF RecheckAttached, At, AttachedObjectExists
<1>3. /\ step = "recheck" /\ seenAttached' \in BOOLEAN /\ UNCHANGED <<request, scene>>
      /\ cur # None /\ step \notin BeforeAccept /\ kind = "remove"
  BY KindAtStep DEF RecheckAttached, At, Keep, BeforeAccept, SceneInv, TypeOK
<1>4. "remove" \in OperationsOf(req) /\ "verify" \in StepsOf(kind)
  BY <1>3 DEF OperationsOf, StepsOf, kind
<1>5. tries \in 0..(MaxRetries - 1)
  BY DEF SceneInv, TypeOK
<1>. QED  BY <1>1, <1>2, <1>3, <1>4, <1>5, Answers, Publishes DEF Succeed, BeforeAccept

LEMMA LookLinkKeeps ==
  ASSUME SceneInv, LookLink
  PROVE  SceneInv'
<1>1. PICK seen \in BOOLEAN :
        /\ GetAttachedObjectLinkById(seen)
        /\ CASE kind = "attach" -> Go(IF seen /\ scene.at[req.id] = req.link THEN "message" ELSE "refusal")
             [] kind = "pose" -> IF seen THEN Go("transform") ELSE Abort
  BY DEF LookLink
<1>2. SurroundingsOK' /\ (~blind' => ~blind)
  BY <1>1, Looking DEF LookLink, At, GetAttachedObjectLinkById
<1>3. /\ step = "link" /\ seenAttached' \in BOOLEAN /\ UNCHANGED <<request, scene>>
      /\ cur # None /\ step \notin BeforeAccept /\ kind \in {"attach", "pose"}
  BY KindAtStep DEF LookLink, At, Keep, BeforeAccept, SceneInv, TypeOK
<1>4. \/ Ends("aborted")
      \/ \E s \in {"message", "refusal", "transform"} : Go(s) /\ s \in StepsOf(kind)
  BY <1>1, <1>3 DEF Abort, StepsOf
<1>. QED  BY <1>2, <1>3, <1>4, Answers, GoesOn DEF BeforeAccept

LEMMA AnswerWithLinkKeeps ==
  ASSUME SceneInv, AnswerWithLink
  PROVE  SceneInv'
<1>1. PICK seen \in BOOLEAN :
        /\ GetAttachedObjectLinkById(seen)
        /\ \/ /\ Ends("succeeded") \/ Ends("aborted")
              /\ UNCHANGED <<request, scene, alive, seenAttached>>
           \/ ~seen /\ DereferenceNothing
  BY DEF AnswerWithLink, Succeed, Abort
<1>2. alive' \in BOOLEAN /\ seenAttached' \in BOOLEAN /\ blind \in BOOLEAN
  BY <1>1 DEF DereferenceNothing, SceneInv, TypeOK, handler
<1>3. SurroundingsOK' /\ (~blind' => ~blind)
  BY <1>1, <1>2, Question DEF GetAttachedObjectLinkById
<1>4. cur # None /\ step \notin BeforeAccept
  BY KindAtStep DEF AnswerWithLink, BeforeAccept
<1>. QED  BY <1>1, <1>2, <1>3, <1>4, Answers, Crashes DEF DereferenceNothing

LEMMA LookDataKeeps ==
  ASSUME SceneInv, LookData
  PROVE  SceneInv'
<1>1. PICK seen \in BOOLEAN :
        /\ GetObjectDataById(seen)
        /\ IF ~seen THEN Abort
           ELSE IF kind = "detach" THEN Publish("detach", "verify") /\ UNCHANGED tries
           ELSE Go("attached")
  BY DEF LookData
<1>2. SurroundingsOK' /\ (~blind' => ~blind)
  BY <1>1, Looking DEF LookData, At, GetObjectDataById
<1>3. /\ step = "data" /\ seenAttached' \in BOOLEAN /\ UNCHANGED <<request, scene>>
      /\ cur # None /\ step \notin BeforeAccept /\ kind \in {"detach", "pose"}
  BY KindAtStep DEF LookData, At, Keep, BeforeAccept, SceneInv, TypeOK
<1>4. /\ kind = "detach" => "detach" \in OperationsOf(req) /\ "verify" \in StepsOf(kind)
      /\ kind # "detach" => "attached" \in StepsOf(kind)
  BY <1>3 DEF OperationsOf, StepsOf, kind
<1>5. tries \in 0..(MaxRetries - 1)
  BY DEF SceneInv, TypeOK
<1>6. CASE Abort
  BY <1>6, <1>2, <1>3, Answers DEF Abort
<1>7. CASE kind = "detach" /\ Publish("detach", "verify") /\ UNCHANGED tries
  BY <1>7, <1>2, <1>3, <1>4, <1>5, Publishes DEF BeforeAccept
<1>8. CASE kind # "detach" /\ Go("attached")
  BY <1>8, <1>2, <1>3, <1>4, GoesOn DEF BeforeAccept
<1>. QED  BY <1>1, <1>6, <1>7, <1>8

LEMMA TransformKeeps ==
  ASSUME SceneInv, Transform
  PROVE  SceneInv'
<1>1. /\ Ends("succeeded") \/ Ends("aborted")
      /\ UNCHANGED <<request, scene, alive, seenAttached>>
      /\ UNCHANGED <<external, watch, blind>>
  BY DEF Transform, At, Keep, Succeed, Abort
<1>2. SurroundingsOK' /\ seenAttached' \in BOOLEAN
  BY <1>1 DEF SurroundingsOK, RetriesWhileNotReady, external, watch, SceneInv, TypeOK
<1>3. cur # None /\ step \notin BeforeAccept
  BY KindAtStep DEF Transform, At, BeforeAccept
<1>. QED  BY <1>1, <1>2, <1>3, Answers

LEMMA VerifyAddedKeeps ==
  ASSUME SceneInv, VerifyAdded
  PROVE  SceneInv'
<1>1. PICK seen \in BOOLEAN : ObjectExists(seen) /\ (Succeed \/ TryAgain)
  BY DEF VerifyAdded
<1>2. SurroundingsOK'
  BY <1>1, Looking DEF VerifyAdded, At, ObjectExists
<1>3. /\ step \in {"verify", "readded"} /\ seenAttached' \in BOOLEAN /\ UNCHANGED <<request, scene>>
      /\ cur # None /\ step \notin BeforeAccept /\ kind \in {"add", "remove", "detach"}
  BY KindAtStep DEF VerifyAdded, At, Keep, BeforeAccept, SceneInv, TypeOK
<1>. QED  BY <1>1, <1>2, <1>3, Answers, LooksAgain DEF Succeed

LEMMA VerifyRemovedKeeps ==
  ASSUME SceneInv, VerifyRemoved
  PROVE  SceneInv'
<1>1. PICK seen \in BOOLEAN : ObjectExists(seen) /\ (Succeed \/ TryAgain)
  BY DEF VerifyRemoved
<1>2. SurroundingsOK'
  BY <1>1, Looking DEF VerifyRemoved, At, ObjectExists
<1>3. /\ step \in {"verify", "readded"} /\ seenAttached' \in BOOLEAN /\ UNCHANGED <<request, scene>>
      /\ cur # None /\ step \notin BeforeAccept /\ kind \in {"add", "remove", "detach"}
  BY KindAtStep DEF VerifyRemoved, At, Keep, BeforeAccept, SceneInv, TypeOK
<1>. QED  BY <1>1, <1>2, <1>3, Answers, LooksAgain DEF Succeed

LEMMA VerifyReaddedKeeps ==
  ASSUME SceneInv, VerifyReadded
  PROVE  SceneInv'
<1>1. PICK seen \in BOOLEAN : ObjectExists(seen) /\ (Succeed \/ TryAgain)
  BY DEF VerifyReadded
<1>2. SurroundingsOK'
  BY <1>1, Looking DEF VerifyReadded, At, ObjectExists
<1>3. /\ step \in {"verify", "readded"} /\ seenAttached' \in BOOLEAN /\ UNCHANGED <<request, scene>>
      /\ cur # None /\ step \notin BeforeAccept /\ kind \in {"add", "remove", "detach"}
  BY KindAtStep DEF VerifyReadded, At, Keep, BeforeAccept, SceneInv, TypeOK
<1>. QED  BY <1>1, <1>2, <1>3, Answers, LooksAgain DEF Succeed

LEMMA GetSceneKeeps ==
  ASSUME SceneInv, GetScene
  PROVE  SceneInv'
<1>1. /\ step = "verify" /\ seenAttached' \in BOOLEAN /\ UNCHANGED <<request, scene, alive>>
      /\ cur # None /\ step \notin BeforeAccept /\ kind \in {"attach", "detach"}
      /\ UNCHANGED <<service, outages, watch, blind>>
  BY KindAtStep DEF GetScene, At, Keep, BeforeAccept, SceneInv, TypeOK
<1>2. slow' \in 0..MaxSlow
  BY ManagerAssumption DEF GetScene, SceneInv, TypeOK
<1>3. SurroundingsOK'
  BY <1>1, <1>2 DEF SurroundingsOK, RetriesWhileNotReady, watch, SceneInv, TypeOK
<1>4. Go("confirm") \/ TryAgain
  BY DEF GetScene
<1>5. "confirm" \in StepsOf(kind)
  BY <1>1 DEF StepsOf
<1>. QED  BY <1>1, <1>3, <1>4, <1>5, GoesOn, LooksAgain DEF BeforeAccept

LEMMA ConfirmKeeps ==
  ASSUME SceneInv, Confirm
  PROVE  SceneInv'
<1>1. PICK seen \in BOOLEAN :
        /\ AttachedObjectExists(seen)
        /\ IF (kind = "attach") # seen THEN TryAgain
           ELSE IF kind = "attach" THEN Succeed ELSE Go("returned")
  BY DEF Confirm
<1>2. SurroundingsOK' /\ (~blind' => ~blind /\ seen = Attached(scene, req.id))
  BY <1>1, Looking DEF Confirm, At, AttachedObjectExists
<1>3. /\ step = "confirm" /\ seenAttached' \in BOOLEAN /\ UNCHANGED <<request, scene>>
      /\ cur # None /\ step \notin BeforeAccept
  BY KindAtStep DEF Confirm, At, Keep, BeforeAccept, SceneInv, TypeOK
<1>4. kind \in {"attach", "detach"}
  BY <1>3, KindAtStep DEF StepsOf
<1>5. CASE (kind = "attach") # seen
  BY <1>5, <1>1, <1>2, <1>3, <1>4, LooksAgain
<1>6. CASE kind = "attach" /\ seen
  BY <1>6, <1>1, <1>2, <1>3, Answers DEF Succeed
<1>7. CASE kind = "detach" /\ ~seen
  <2>1. Go("returned") /\ "returned" \in StepsOf(kind)
    BY <1>7, <1>1 DEF StepsOf
  <2>. QED  BY <2>1, <1>7, <1>2, <1>3, GoesOn DEF BeforeAccept
<1>. QED  BY <1>4, <1>5, <1>6, <1>7

LEMMA ConfirmReturnKeeps ==
  ASSUME SceneInv, ConfirmReturn
  PROVE  SceneInv'
<1>1. PICK seen \in BOOLEAN :
        /\ ObjectExists(seen)
        /\ IF seen THEN Succeed ELSE Publish("add", "readded") /\ UNCHANGED tries
  BY DEF ConfirmReturn
<1>2. SurroundingsOK' /\ (~blind' => ~blind)
  BY <1>1, Looking DEF ConfirmReturn, At, ObjectExists
<1>3. /\ step = "returned" /\ seenAttached' \in BOOLEAN /\ UNCHANGED <<request, scene>>
      /\ cur # None /\ step \notin BeforeAccept /\ kind = "detach"
  BY KindAtStep DEF ConfirmReturn, At, Keep, BeforeAccept, SceneInv, TypeOK
<1>4. "add" \in OperationsOf(req) /\ "readded" \in StepsOf(kind)
  BY <1>3 DEF OperationsOf, StepsOf, kind
<1>5. ~blind' /\ req.id \notin doubt => ~Attached(scene, req.id)
  BY <1>2, <1>3 DEF SceneInv, AddedIsLoose
<1>6. tries \in 0..(MaxRetries - 1)
  BY DEF SceneInv, TypeOK
<1>. QED  BY <1>1, <1>2, <1>3, <1>4, <1>5, <1>6, Answers, Publishes DEF Succeed, BeforeAccept

-----------------------------------------------------------------------------
(* So do a new goal, the timer and move_group.                             *)

LEMMA BeginKeeps ==
  ASSUME SceneInv, NEW g \in Goals, Begin(g)
  PROVE  SceneInv'
<1>. USE DEF SceneInv
<1>1. /\ cur = None /\ step = "idle" /\ status[g] = "sent" /\ g # None
      /\ \A h \in Goals : status[h] # "open"
  BY NoneIsNoGoal DEF Begin, OneServed, TypeOK
<1>2. /\ UNCHANGED <<request, scene, worldTopic, attachTopic, doubt>>
      /\ UNCHANGED <<service, slow, outages, ready, timer, watching, overtaken, alive>>
      /\ tries' = 0 /\ seenAttached' = FALSE /\ blind' = FALSE
  BY DEF Begin, topics, external, watch
<1>3. request[g].kind \in Kinds
  BY RequestIsTyped
<1>4. \/ /\ status' = [status EXCEPT ![g] = "rejected"] /\ UNCHANGED <<cur, step>>
      \/ /\ request[g].kind = "add" /\ cur' = g /\ step' = "addWorld" /\ UNCHANGED status
      \/ /\ request[g].kind # "add" /\ cur' = g /\ step' = "execute"
         /\ status' = [status EXCEPT ![g] = "open"]
  BY DEF Begin
<1>5. TypeOK'
  <2>1. status' \in [Goals -> {"sent", "open", "rejected", "succeeded", "aborted"}]
    BY <1>4 DEF TypeOK
  <2>2. cur' \in Goals \cup {None} /\ step' \in Steps
    BY <1>4 DEF TypeOK, Steps
  <2>3. tries' \in 0..(MaxRetries - 1)
    BY <1>2, ManagerAssumption
  <2>. QED  BY <2>1, <2>2, <2>3, <1>2 DEF TypeOK, TopicType
<1>6. OneServed'
  BY <1>1, <1>2, <1>3, <1>4 DEF OneServed, TypeOK, kind, req, StepsOf, Kinds
<1>7. MessagesAreAsked'
  <2>1. ASSUME NEW m \in Messages, Asked(m)  PROVE Asked(m)'
    <3>1. m.goal \in Goals /\ m.goal # g
      BY <2>1, <1>1 DEF Asked, Messages
    <3>2. status'[m.goal] = status[m.goal]
      BY <3>1, <1>4 DEF TypeOK
    <3>. QED  BY <2>1, <3>2, <1>2 DEF Asked
  <2>. QED  BY <2>1, <1>2, MessagesAreTyped DEF MessagesAreAsked
<1>8. NoDuplicate'
  BY <1>2 DEF NoDuplicate
<1>9. AddedIsLoose'
  <2>1. \A i \in 1..Len(worldTopic) : worldTopic[i].goal # g /\ worldTopic[i].goal # None
    BY <1>1, MessagesAreTyped, NoneIsNoGoal DEF MessagesAreAsked, Asked, Messages
  <2>2. ~(step' = "returned" \/ (step' = "execute" /\ kind' = "add"))
    BY <1>1, <1>2, <1>4 DEF kind, req
  <2>. QED  BY <2>1, <2>2, <1>1, <1>2, <1>4 DEF AddedIsLoose
<1>10. RetriesWhileNotReady'
  BY <1>2 DEF RetriesWhileNotReady
<1>. QED  BY <1>5, <1>6, <1>7, <1>8, <1>9, <1>10

LEMMA RetryKeeps ==
  ASSUME SceneInv, Retry
  PROVE  SceneInv'
<1>. USE DEF SceneInv, Retry, RetryFires, RetryMisses, RetryEnds, Resume
<1>1. UNCHANGED <<request, status, scene, topics, external, handler, blind, doubt>>
  OBVIOUS
<1>2. SurroundingsOK'
  BY <1>1 DEF SurroundingsOK, RetriesWhileNotReady, TypeOK, external
<1>. QED  BY <1>1, <1>2, Crashes

\* A message concerns its own object, and only an attach puts one on the robot.
LEMMA AfterConcernsOne ==
  ASSUME NEW s \in Scenes, NEW op, NEW o \in Objects, NEW l \in Links,
         NEW p \in Objects
  PROVE  /\ p # o => (InWorld(After(s, op, o, l), p) <=> InWorld(s, p))
                      /\ (Attached(After(s, op, o, l), p) <=> Attached(s, p))
         /\ op # "attach" /\ ~Attached(s, p) => ~Attached(After(s, op, o, l), p)
BY DEF After, Scenes, InWorld, Attached

\* It puts the object in one place, unless it adds one that is on the robot.
LEMMA AfterIsSingle ==
  ASSUME NEW s \in Scenes, NEW op, NEW o \in Objects, NEW l \in Links,
         ~(InWorld(s, o) /\ Attached(s, o)), op = "add" => ~Attached(s, o)
  PROVE  ~(InWorld(After(s, op, o, l), o) /\ Attached(After(s, op, o, l), o))
BY DEF After, Scenes, InWorld, Attached

\* A message that arrives: an addition by the goal being served finds the
\* object loose, and any other goal's message puts its object in doubt.
LEMMA AppliesKeeps ==
  ASSUME SceneInv, NEW m \in Messages, Applies(m), Asked(m),
         m.op = "add" /\ m.goal = cur /\ m.id \notin doubt => ~Attached(scene, m.id),
         worldTopic' \in Seq(Messages), attachTopic' \in Seq(Messages),
         \A i \in 1..Len(worldTopic') :
           \E j \in 1..Len(worldTopic) : worldTopic'[i] = worldTopic[j],
         \A i \in 1..Len(attachTopic') :
           \E j \in 1..Len(attachTopic) : attachTopic'[i] = attachTopic[j]
  PROVE  SceneInv'
<1>. USE DEF SceneInv
<1>1. /\ scene' = After(scene, m.op, m.id, m.link)
      /\ UNCHANGED <<request, status, service, slow, outages, ready, timer, watching, overtaken, alive>>
      /\ UNCHANGED <<cur, step, tries, seenAttached, blind>>
      /\ doubt' = IF m.goal = cur THEN doubt ELSE doubt \cup {m.id}
  BY DEF Applies, external, watch, handler
<1>2. m.id \in Objects /\ m.link \in Links /\ m.goal \in Goals /\ scene \in Scenes
  BY DEF Messages, TypeOK
<1>3. TypeOK'
  <2>1. scene' \in Scenes /\ doubt' \subseteq Objects
    BY <1>1, <1>2, AfterIsTyped DEF TypeOK
  <2>. QED  BY <2>1, <1>1 DEF TypeOK, TopicType, Messages
<1>4. OneServed' /\ RetriesWhileNotReady'
  BY <1>1 DEF OneServed, RetriesWhileNotReady, kind, req
<1>5. MessagesAreAsked'
  <2>1. ASSUME NEW n  PROVE Asked(n)' <=> Asked(n)
    BY <1>1 DEF Asked
  <2>2. \A i \in 1..Len(worldTopic') : Asked(worldTopic'[i])
    BY DEF MessagesAreAsked
  <2>3. \A i \in 1..Len(attachTopic') :
          Asked(attachTopic'[i]) /\ attachTopic'[i].op \in {"attach", "detach"}
    BY DEF MessagesAreAsked
  <2>. QED  BY <2>1, <2>2, <2>3 DEF MessagesAreAsked
<1>6. NoDuplicate'
  <2>. SUFFICES ASSUME NEW o \in Objects, o \notin doubt'
               PROVE  ~(InWorld(scene', o) /\ Attached(scene', o))
    BY DEF NoDuplicate
  <2>1. o \notin doubt /\ ~(InWorld(scene, o) /\ Attached(scene, o))
    BY <1>1 DEF NoDuplicate
  <2>2. CASE o # m.id
    BY <2>1, <2>2, <1>1, <1>2, AfterConcernsOne
  <2>3. CASE o = m.id
    BY <2>1, <2>3, <1>1, <1>2, AfterIsSingle
  <2>. QED  BY <2>2, <2>3
<1>7. AddedIsLoose'
  <2>1. ASSUME cur # None, req.id \notin doubt', ~blind,
               step = "returned" \/ (step = "execute" /\ kind = "add")
        PROVE  ~Attached(scene', req.id)
    <3>1. ~Attached(scene, req.id)
      BY <2>1, <1>1 DEF AddedIsLoose
    <3>2. req.id \in Objects /\ kind \in {"add", "detach"}
      BY <2>1, KindAtStep
    <3>3. CASE m.id # req.id
      BY <3>1, <3>2, <3>3, <1>1, <1>2, AfterConcernsOne
    <3>4. CASE m.id = req.id
      <4>1. m.goal = cur
        BY <2>1, <3>4, <1>1
      <4>2. m.op # "attach"
        BY <4>1, <3>2 DEF Asked, OperationsOf, kind, req
      <4>. QED  BY <4>2, <3>1, <3>2, <1>1, <1>2, AfterConcernsOne
    <3>. QED  BY <3>3, <3>4
  <2>2. ASSUME NEW i \in 1..Len(worldTopic'), worldTopic'[i].goal = cur,
               worldTopic'[i].op = "add", worldTopic'[i].id \notin doubt'
        PROVE  ~Attached(scene', worldTopic'[i].id)
    <3>1. PICK n \in Messages :
            /\ n = worldTopic'[i] /\ Asked(n) /\ n.goal = cur /\ n.op = "add"
            /\ n.id \notin doubt' /\ ~Attached(scene, n.id)
      <4>1. PICK j \in 1..Len(worldTopic) : worldTopic'[i] = worldTopic[j]
        OBVIOUS
      <4>2. worldTopic[j] \in Messages /\ Asked(worldTopic[j])
        BY MessagesAreTyped DEF MessagesAreAsked
      <4>3. ~Attached(scene, worldTopic[j].id)
        BY <2>2, <4>1, <1>1 DEF AddedIsLoose
      <4>. QED  BY <2>2, <4>1, <4>2, <4>3
    <3>2. n.id \in Objects
      BY DEF Messages
    <3>3. CASE m.id # n.id
      BY <3>1, <3>2, <3>3, <1>1, <1>2, AfterConcernsOne
    <3>4. CASE m.id = n.id
      <4>1. m.goal = cur
        BY <3>1, <3>4, <1>1
      <4>2. request[cur] \in AllRequests
        BY <4>1, <1>2, RequestIsTyped
      <4>3. m.op # "attach"
        BY <4>1, <4>2, <3>1, OperationsOfAKind DEF Asked
      <4>. QED  BY <4>3, <3>1, <3>2, <1>1, <1>2, AfterConcernsOne
    <3>. QED  BY <3>3, <3>4
  <2>. QED  BY <2>1, <2>2, <1>1 DEF AddedIsLoose, kind, req
<1>. QED  BY <1>3, <1>4, <1>5, <1>6, <1>7

\* The messages that are left when the first is taken were there before.
LEMMA TopicShrinks ==
  ASSUME NEW t \in Seq(Messages), t # <<>>
  PROVE  /\ Head(t) \in Messages /\ Tail(t) \in Seq(Messages)
         /\ Head(t) = t[1] /\ 1 \in 1..Len(t)
         /\ \A i \in 1..Len(Tail(t)) : \E j \in 1..Len(t) : Tail(t)[i] = t[j]
<1>1. /\ Head(t) \in Messages /\ Tail(t) \in Seq(Messages)
      /\ Len(Tail(t)) = Len(t) - 1
      /\ \A i \in 1..Len(Tail(t)) : Tail(t)[i] = t[i + 1]
  BY HeadTailProperties
<1>2. Len(t) \in Nat /\ Len(t) > 0
  BY EmptySeq, LenProperties
<1>3. ASSUME NEW i \in 1..Len(Tail(t))  PROVE \E j \in 1..Len(t) : Tail(t)[i] = t[j]
  <2>1. i + 1 \in 1..Len(t)
    BY <1>1, <1>2
  <2>. QED  BY <2>1, <1>1
<1>. QED  BY <1>1, <1>2, <1>3

LEMMA TakeWorldMessageKeeps ==
  ASSUME SceneInv, TakeWorldMessage
  PROVE  SceneInv'
<1>1. worldTopic \in Seq(Messages) /\ attachTopic \in Seq(Messages) /\ worldTopic # <<>>
  BY MessagesAreTyped DEF SceneInv, TakeWorldMessage
<1>2. /\ worldTopic' = Tail(worldTopic) /\ attachTopic' = attachTopic
      /\ Applies(Head(worldTopic))
  BY DEF TakeWorldMessage
<1>3. /\ Asked(worldTopic[1])
      /\ worldTopic[1].op = "add" /\ worldTopic[1].goal = cur /\ worldTopic[1].id \notin doubt
         => ~Attached(scene, worldTopic[1].id)
  BY <1>1, TopicShrinks DEF SceneInv, MessagesAreAsked, AddedIsLoose
<1>. QED  BY <1>1, <1>2, <1>3, TopicShrinks, AppliesKeeps

LEMMA TakeAttachMessageKeeps ==
  ASSUME SceneInv, TakeAttachMessage
  PROVE  SceneInv'
<1>1. worldTopic \in Seq(Messages) /\ attachTopic \in Seq(Messages) /\ attachTopic # <<>>
  BY MessagesAreTyped DEF SceneInv, TakeAttachMessage
<1>2. /\ attachTopic' = Tail(attachTopic) /\ worldTopic' = worldTopic
      /\ Applies(Head(attachTopic))
  BY DEF TakeAttachMessage
<1>3. Asked(attachTopic[1]) /\ attachTopic[1].op # "add"
  BY <1>1, TopicShrinks DEF SceneInv, MessagesAreAsked
<1>. QED  BY <1>1, <1>2, <1>3, TopicShrinks, AppliesKeeps

LEMMA GoesDownKeeps ==
  ASSUME SceneInv, GoesDown
  PROVE  SceneInv'
<1>. USE DEF SceneInv
<1>1. /\ service' = FALSE /\ outages' = outages + 1 /\ outages < MaxOutages
      /\ scene' = EmptyScene /\ worldTopic' = <<>> /\ attachTopic' = <<>> /\ doubt' = {}
      /\ UNCHANGED <<request, status, slow, ready, timer, watching, overtaken, alive>>
      /\ UNCHANGED <<cur, step, tries, seenAttached, blind>>
  BY DEF GoesDown, watch, handler
<1>2. \A o \in Objects : ~Attached(scene', o)
  BY <1>1 DEF EmptyScene, Attached
<1>3. TypeOK'
  <2>1. outages' \in 0..MaxOutages
    BY <1>1, ManagerAssumption DEF TypeOK
  <2>2. scene' \in Scenes
    BY <1>1 DEF EmptyScene, Scenes
  <2>3. TopicType(worldTopic') /\ TopicType(attachTopic')
    BY <1>1, EmptySeq DEF TopicType
  <2>. QED  BY <2>1, <2>2, <2>3, <1>1 DEF TypeOK, TopicType
<1>4. OneServed' /\ MessagesAreAsked' /\ RetriesWhileNotReady'
  BY <1>1 DEF OneServed, MessagesAreAsked, RetriesWhileNotReady, kind, req
<1>5. NoDuplicate'
  BY <1>2 DEF NoDuplicate
<1>6. AddedIsLoose'
  <2>1. cur # None => req.id \in Objects
    BY KindAtStep DEF OneServed
  <2>. QED  BY <2>1, <1>1, <1>2 DEF AddedIsLoose, kind, req
<1>. QED  BY <1>3, <1>4, <1>5, <1>6

LEMMA ComesUpKeeps ==
  ASSUME SceneInv, ComesUp
  PROVE  SceneInv'
<1>1. UNCHANGED <<request, status, scene, topics, handler, doubt>> /\ SurroundingsOK' /\ blind' = blind
  BY DEF ComesUp, SurroundingsOK, RetriesWhileNotReady, watch, SceneInv, TypeOK
<1>. QED  BY <1>1, Crashes

-----------------------------------------------------------------------------
(* The theorems about the manager's own state.                             *)

\* Every step of a goal preserves the invariant, whichever question it asks and
\* whether or not it is answered.
LEMMA StepKeeps ==
  ASSUME SceneInv, Step
  PROVE  SceneInv'
BY AddGoalKeeps, AddGoalAttachedKeeps, AddGoalLinkKeeps, NoServiceKeeps, ExecuteKeeps, LookAttachedKeeps, LookWorldKeeps, RecheckAttachedKeeps, LookLinkKeeps, AnswerWithLinkKeeps, LookDataKeeps, TransformKeeps, VerifyAddedKeeps, VerifyRemovedKeeps, GetSceneKeeps, ConfirmKeeps, ConfirmReturnKeeps, VerifyReaddedKeeps
   DEF Step

LEMMA InitEstablishes ==
  ASSUME Init
  PROVE  SceneInv
<1>. USE DEF Init
<1>1. TypeOK
  <2>1. scene \in Scenes
    BY DEF Scenes
  <2>2. /\ TopicType(worldTopic) /\ TopicType(attachTopic)
        /\ 0 \in 0..(MaxRetries - 1) /\ 0 \in 0..MaxSlow /\ 0 \in 0..MaxOutages
    BY ManagerAssumption, EmptySeq DEF TopicType
  <2>. QED  BY <2>1, <2>2 DEF TypeOK, Steps
<1>2. OneServed /\ RetriesWhileNotReady
  BY DEF OneServed, RetriesWhileNotReady
<1>3. MessagesAreAsked /\ AddedIsLoose
  <2>1. 1..Len(worldTopic) = {} /\ 1..Len(attachTopic) = {}
    BY EmptySeq
  <2>. QED  BY <2>1 DEF MessagesAreAsked, AddedIsLoose
<1>4. NoDuplicate
  BY DEF NoDuplicate, Attached
<1>. QED  BY <1>1, <1>2, <1>3, <1>4 DEF SceneInv

\* A step of the goal that goes on leaves the scene, the request and the doubts
\* there were, and knows no more than it has seen.
LEMMA GoesOnSeeing ==
  ASSUME SeenStillHolds, cur # None, cur' = cur, UNCHANGED <<request, scene, seenAttached>>,
         ~blind' => ~blind, doubt \subseteq doubt',
         ~blind' /\ req.id \notin doubt' /\ step' # step =>
           /\ kind = "remove" /\ step' \in {"world", "recheck", "verify"} => ~Attached(scene, req.id)
           /\ kind = "remove" /\ step' = "recheck" => ~InWorld(scene, req.id)
           /\ kind = "attach" /\ (step' \in {"verify", "confirm"} \/ (step' = "world" /\ ~seenAttached))
                => scene.at[req.id] \in {Nowhere, req.link}
           /\ kind = "detach" /\ (step' \in {"returned", "readded"} \/ (step' = "world" /\ ~seenAttached))
                => ~Attached(scene, req.id)
  PROVE  SeenStillHolds'
BY DEF SeenStillHolds, kind, req

\* What a goal that is reported done has come to.
IsDone ==
  status'[cur] = "succeeded" /\ ~blind' /\ req.id \notin doubt /\ step # "message" =>
    /\ Done(scene, req)
    /\ kind = "detach" /\ step # "world" => InWorld(scene, req.id)

\* A step of a goal keeps what it has seen, and succeeds when it has seen enough.
LEMMA StepSees ==
  ASSUME SceneInv, SeenStillHolds, Step
  PROVE  SeenStillHolds' /\ IsDone
<1>. USE DEF At, Keep, Go, Ends, Rejected, Succeed, Abort
<1>0. /\ cur # None /\ cur \in Goals /\ req.id \in Objects
      /\ status[cur] \in {"sent", "open"} /\ status \in [Goals -> {"sent", "open", "rejected", "succeeded", "aborted"}]
  <2>1. step # "idle"
    BY DEF Step, AddGoal, AddGoalAttached, AddGoalLink, NoService, Execute, LookAttached, LookWorld,
       RecheckAttached, LookLink, AnswerWithLink, LookData, Transform, VerifyAdded, VerifyRemoved, GetScene,
       Confirm, ConfirmReturn, VerifyReadded
  <2>. QED  BY <2>1, KindAtStep DEF SceneInv, OneServed, TypeOK
<1>1. ASSUME NEW truth, NEW seen, Asks(truth, seen), UNCHANGED alive
      PROVE  ~blind' => ~blind /\ seen = truth
  BY <1>1, Looking
<1>2. ASSUME cur' = None  PROVE SeenStillHolds'
  BY <1>2 DEF SeenStillHolds
<1>3. CASE AddGoal \/ AddGoalAttached \/ AddGoalLink
  <2>1. kind = "add" /\ UNCHANGED request /\ (cur' = cur \/ cur' = None)
    BY <1>3, KindAtStep DEF AddGoal, AddGoalAttached, AddGoalLink, DereferenceNothing, handler
  <2>2. status'[cur] # "succeeded"
    BY <1>0, <1>3 DEF AddGoal, AddGoalAttached, AddGoalLink, DereferenceNothing
  <2>. QED  BY <2>1, <2>2 DEF SeenStillHolds, IsDone, kind, req
<1>4. CASE NoService
  BY <1>0, <1>2, <1>4 DEF NoService, IsDone
<1>5. CASE Execute
  <2>1. kind \in {"add", "remove", "attach", "detach", "check", "pose"}
    BY <1>5, KindAtStep DEF Execute
  <2>2. /\ cur' = cur /\ doubt \subseteq doubt' /\ status' = status
        /\ step' = CASE kind = "add" -> "verify" [] kind = "check" -> "world"
                     [] kind = "pose" -> "data" [] OTHER -> "attached"
        /\ UNCHANGED <<request, scene, seenAttached, blind>>
    BY <1>5, <2>1 DEF Execute, Publish
  <2>. QED  BY <1>0, <2>1, <2>2, GoesOnSeeing DEF IsDone
<1>6. CASE LookAttached
  <2>1. PICK seen \in BOOLEAN :
          /\ AttachedObjectExists(seen) /\ seenAttached' = seen
          /\ CASE kind = "remove" -> IF seen THEN Abort ELSE Go("world")
               [] kind \in {"attach", "detach"} -> Go("world")
               [] kind = "check" -> IF seen THEN Go("message") ELSE Succeed
               [] kind = "pose" -> Go(IF seen THEN "link" ELSE "transform")
    BY <1>6 DEF LookAttached
  <2>2. ~blind' => ~blind /\ seen = Attached(scene, req.id)
    BY <1>1, <1>6, <2>1 DEF LookAttached, AttachedObjectExists
  <2>3. kind \in {"remove", "attach", "detach", "check", "pose"}
    BY <1>6, KindAtStep DEF LookAttached
  <2>4. UNCHANGED <<request, scene, doubt>>
    BY <1>6, <2>1, <2>3 DEF LookAttached
  <2>5. SeenStillHolds'
    BY <1>2, <2>1, <2>2, <2>3, <2>4 DEF SeenStillHolds, kind, req, Attached
  <2>. QED  BY <1>0, <2>1, <2>3, <2>5 DEF IsDone, Done, kind
<1>7. CASE LookWorld
  <2>1. PICK seen \in BOOLEAN :
          /\ ObjectExists(seen)
          /\ CASE kind = "check" -> Go("attached")
               [] kind = "remove" -> IF seen THEN Publish("remove", "verify") /\ UNCHANGED tries
                                     ELSE Go("recheck")
               [] kind = "attach" -> IF seenAttached THEN Go("link")
                                     ELSE IF seen THEN Publish("attach", "verify") /\ UNCHANGED tries
                                     ELSE Abort
               [] kind = "detach" -> IF seenAttached THEN Go("data") ELSE Succeed
    BY <1>7 DEF LookWorld
  <2>2. ~blind' => ~blind /\ seen = InWorld(scene, req.id)
    BY <1>1, <1>7, <2>1 DEF LookWorld, ObjectExists
  <2>3. step = "world" /\ kind \in {"check", "remove", "attach", "detach"}
        /\ UNCHANGED <<request, scene, seenAttached>>
    BY <1>7, KindAtStep DEF LookWorld
  <2>4. /\ cur' \in {cur, None} /\ doubt \subseteq doubt'
        /\ step' \in {"attached", "verify", "recheck", "link", "data", "idle"}
        /\ step' = "recheck" => ~seen
        /\ step' = "verify" /\ kind = "attach" => ~seenAttached
        /\ status' # status /\ kind = "detach" => ~seenAttached
        /\ status' # status => kind = "detach" \/ status' = [status EXCEPT ![cur] = "aborted"]
        /\ kind = "detach" => step' \in {"data", "idle"}
    BY <2>1, <2>3 DEF Publish
  <2>5. SeenStillHolds'
    BY <1>0, <1>2, <2>2, <2>3, <2>4, GoesOnSeeing DEF SeenStillHolds
  <2>. QED  BY <1>0, <2>2, <2>3, <2>4, <2>5 DEF IsDone, Done, SeenStillHolds, kind
<1>8. CASE RecheckAttached
  <2>1. PICK seen \in BOOLEAN :
          /\ AttachedObjectExists(seen)
          /\ IF seen THEN Publish("remove", "verify") /\ UNCHANGED tries ELSE Succeed
    BY <1>8 DEF RecheckAttached
  <2>2. ~blind' => ~blind /\ seen = Attached(scene, req.id)
    BY <1>1, <1>8, <2>1 DEF RecheckAttached, AttachedObjectExists
  <2>3. step = "recheck" /\ kind = "remove" /\ UNCHANGED <<request, scene, seenAttached>>
    BY <1>8, KindAtStep DEF RecheckAttached
  <2>4. CASE seen
    <3>1. cur' = cur /\ doubt \subseteq doubt' /\ step' = "verify" /\ status' = status
      BY <2>1, <2>4 DEF Publish
    <3>. QED  BY <1>0, <2>2, <2>3, <3>1, GoesOnSeeing DEF SeenStillHolds, IsDone
  <2>5. CASE ~seen
    BY <1>0, <1>2, <2>1, <2>2, <2>3, <2>5 DEF SeenStillHolds, IsDone, Done, kind
  <2>. QED  BY <2>4, <2>5
<1>9. CASE LookLink
  <2>1. /\ kind \in {"attach", "pose"} /\ step = "link"
        /\ ~blind' => ~blind
        /\ UNCHANGED <<request, scene, seenAttached, doubt>>
    BY <1>1, <1>9, KindAtStep DEF LookLink, GetAttachedObjectLinkById
  <2>2. \/ cur' = cur /\ step' \in {"message", "refusal", "transform"} /\ status' = status
        \/ cur' = None /\ status' = [status EXCEPT ![cur] = "aborted"]
    BY <1>9, <2>1 DEF LookLink
  <2>. QED  BY <1>0, <1>2, <2>1, <2>2, GoesOnSeeing DEF IsDone
<1>10. CASE AnswerWithLink
  <2>1. CASE cur' = None
    BY <1>0, <1>2, <1>10, <2>1 DEF AnswerWithLink, DereferenceNothing, IsDone
  <2>2. CASE cur' # None
    <3>1. UNCHANGED <<request, status, scene, handler, doubt>> /\ (~blind' => ~blind)
      BY <1>10, <2>2, <1>1, Question DEF AnswerWithLink, DereferenceNothing, GetAttachedObjectLinkById, SceneInv, TypeOK
    <3>. QED  BY <1>0, <3>1 DEF SeenStillHolds, IsDone, handler, kind, req
  <2>. QED  BY <2>1, <2>2
<1>11. CASE LookData
  <2>1. /\ kind \in {"detach", "pose"} /\ step = "data"
        /\ ~blind' => ~blind
        /\ UNCHANGED <<request, scene, seenAttached>>
    BY <1>1, <1>11, KindAtStep DEF LookData, GetObjectDataById
  <2>2. \/ cur' = cur /\ step' = "verify" /\ doubt \subseteq doubt' /\ status' = status
        \/ cur' = cur /\ step' = "attached" /\ doubt' = doubt /\ status' = status
        \/ cur' = None /\ status' = [status EXCEPT ![cur] = "aborted"]
    BY <1>11, <2>1 DEF LookData, Publish
  <2>. QED  BY <1>0, <1>2, <2>1, <2>2, GoesOnSeeing DEF IsDone
<1>12. CASE Transform
  <2>1. kind = "pose"
    BY <1>12, KindAtStep DEF Transform, StepsOf
  <2>. QED  BY <1>0, <1>2, <1>12, <2>1 DEF Transform, IsDone, Done, kind
<1>13. ASSUME TryAgain, UNCHANGED <<request, scene, seenAttached>>, step \in {"verify", "confirm", "readded"},
              ~blind' => ~blind,
              kind = "remove" => step = "verify",
              kind = "attach" => step \in {"verify", "confirm"}
       PROVE  SeenStillHolds' /\ IsDone
  <2>1. \/ cur' = None /\ status' = [status EXCEPT ![cur] = "aborted"]
        \/ cur' = cur /\ step' = "verify" /\ doubt' = doubt /\ status' = status
    BY <1>13 DEF TryAgain
  <2>. QED  BY <1>0, <1>2, <1>13, <2>1, GoesOnSeeing DEF IsDone, SeenStillHolds
<1>14. CASE VerifyAdded
  <2>1. PICK seen \in BOOLEAN : ObjectExists(seen) /\ IF seen THEN Succeed ELSE TryAgain
    BY <1>14 DEF VerifyAdded
  <2>2. ~blind' => ~blind /\ seen = InWorld(scene, req.id)
    BY <1>1, <1>14, <2>1 DEF VerifyAdded, ObjectExists
  <2>3. CASE seen
    BY <1>0, <1>2, <1>14, <2>1, <2>2, <2>3 DEF VerifyAdded, IsDone, Done, kind
  <2>4. CASE ~seen
    BY <1>13, <1>14, <2>1, <2>2, <2>4 DEF VerifyAdded
  <2>. QED  BY <2>3, <2>4
<1>15. CASE VerifyRemoved
  <2>1. PICK seen \in BOOLEAN : ObjectExists(seen) /\ IF seen THEN TryAgain ELSE Succeed
    BY <1>15 DEF VerifyRemoved
  <2>2. ~blind' => ~blind /\ seen = InWorld(scene, req.id)
    BY <1>1, <1>15, <2>1 DEF VerifyRemoved, ObjectExists
  <2>3. CASE seen
    BY <1>13, <1>15, <2>1, <2>2, <2>3 DEF VerifyRemoved
  <2>4. CASE ~seen
    BY <1>0, <1>2, <1>15, <2>1, <2>2, <2>4 DEF VerifyRemoved, IsDone, Done, SeenStillHolds, kind
  <2>. QED  BY <2>3, <2>4
<1>16. CASE GetScene
  <2>1. kind \in {"attach", "detach"} /\ step = "verify" /\ UNCHANGED <<request, scene, seenAttached, blind>>
    BY <1>16 DEF GetScene
  <2>2. CASE Go("confirm")
    BY <1>0, <2>1, <2>2, GoesOnSeeing DEF SeenStillHolds, IsDone
  <2>3. CASE TryAgain
    BY <1>13, <2>1, <2>3
  <2>. QED  BY <1>16, <2>2, <2>3 DEF GetScene
<1>17. CASE Confirm
  <2>1. PICK seen \in BOOLEAN :
          /\ AttachedObjectExists(seen)
          /\ IF (kind = "attach") # seen THEN TryAgain
             ELSE IF kind = "attach" THEN Succeed ELSE Go("returned")
    BY <1>17 DEF Confirm
  <2>2. ~blind' => ~blind /\ seen = Attached(scene, req.id)
    BY <1>1, <1>17, <2>1 DEF Confirm, AttachedObjectExists
  <2>3. /\ step = "confirm" /\ kind \in {"attach", "detach"}
        /\ UNCHANGED <<request, scene, seenAttached>>
    BY <1>17, KindAtStep DEF Confirm, StepsOf
  <2>4. CASE TryAgain
    BY <1>13, <2>2, <2>3, <2>4
  <2>5. CASE kind = "attach" /\ seen /\ Succeed
    BY <1>0, <1>2, <2>2, <2>3, <2>5 DEF IsDone, Done, SeenStillHolds, Attached, kind
  <2>6. CASE kind = "detach" /\ ~seen /\ Go("returned")
    BY <1>0, <2>2, <2>3, <2>6, GoesOnSeeing DEF IsDone
  <2>. QED  BY <2>1, <2>3, <2>4, <2>5, <2>6
<1>18. CASE ConfirmReturn
  <2>1. PICK seen \in BOOLEAN :
          ObjectExists(seen) /\ IF seen THEN Succeed ELSE Publish("add", "readded") /\ UNCHANGED tries
    BY <1>18 DEF ConfirmReturn
  <2>2. ~blind' => ~blind /\ seen = InWorld(scene, req.id)
    BY <1>1, <1>18, <2>1 DEF ConfirmReturn, ObjectExists
  <2>3. step = "returned" /\ kind = "detach" /\ UNCHANGED <<request, scene, seenAttached>>
    BY <1>18, KindAtStep DEF ConfirmReturn
  <2>4. CASE seen
    BY <1>0, <1>2, <2>1, <2>2, <2>3, <2>4 DEF IsDone, Done, SeenStillHolds, kind
  <2>5. CASE ~seen
    <3>1. cur' = cur /\ doubt \subseteq doubt' /\ step' = "readded" /\ status' = status
      BY <2>1, <2>5 DEF Publish
    <3>. QED  BY <1>0, <2>2, <2>3, <3>1, GoesOnSeeing DEF SeenStillHolds, IsDone
  <2>. QED  BY <2>4, <2>5
<1>19. CASE VerifyReadded
  <2>1. PICK seen \in BOOLEAN : ObjectExists(seen) /\ IF seen THEN Succeed ELSE TryAgain
    BY <1>19 DEF VerifyReadded
  <2>2. ~blind' => ~blind /\ seen = InWorld(scene, req.id)
    BY <1>1, <1>19, <2>1 DEF VerifyReadded, ObjectExists
  <2>3. step = "readded" /\ kind = "detach" /\ UNCHANGED <<request, scene, seenAttached>>
    BY <1>19, KindAtStep DEF VerifyReadded
  <2>4. CASE seen
    BY <1>0, <1>2, <2>1, <2>2, <2>3, <2>4 DEF IsDone, Done, SeenStillHolds, kind
  <2>5. CASE ~seen
    BY <1>13, <2>1, <2>2, <2>3, <2>5
  <2>. QED  BY <2>4, <2>5
<1>. QED  BY <1>3, <1>4, <1>5, <1>6, <1>7, <1>8, <1>9, <1>10, <1>11, <1>12, <1>14, <1>15, <1>16, <1>17, <1>18,
     <1>19 DEF Step

\* A message moves the object of the goal being served only as the goal asked,
\* or casts doubt on it.
LEMMA AppliesSees ==
  ASSUME SceneInv, SeenStillHolds, NEW m \in Messages, Asked(m), Applies(m)
  PROVE  SeenStillHolds'
<1>1. /\ scene' = After(scene, m.op, m.id, m.link)
      /\ doubt' = IF m.goal = cur THEN doubt ELSE doubt \cup {m.id}
      /\ UNCHANGED <<request, cur, step, seenAttached, blind>>
  BY DEF Applies, handler
<1>2. scene \in Scenes /\ m.id \in Objects /\ m.link \in Links
  BY DEF SceneInv, TypeOK, Messages
<1>3. SUFFICES ASSUME cur # None, ~blind, req.id \notin doubt'  PROVE SeenStillHolds'
  BY <1>1 DEF SeenStillHolds, req
<1>4. req.id \in Objects /\ req.id \notin doubt /\ req' = req /\ kind' = kind
  BY <1>1, <1>3, KindAtStep DEF req, kind, SceneInv, OneServed
<1>5. CASE m.id # req.id
  <2>1. scene'.at[req.id] = scene.at[req.id] /\ (InWorld(scene', req.id) <=> InWorld(scene, req.id))
    BY <1>1, <1>2, <1>4, <1>5 DEF After, Scenes, InWorld
  <2>. QED  BY <1>1, <1>3, <1>4, <2>1 DEF SeenStillHolds, Attached
<1>6. CASE m.id = req.id
  <2>1. m.goal = cur /\ m.op \in OperationsOf(req) /\ m.link = req.link
    BY <1>1, <1>3, <1>6 DEF Asked, req
  <2>2. CASE kind = "remove"
    <3>1. m.op = "remove"
      BY <2>1, <2>2 DEF OperationsOf, kind
    <3>2. scene' = [scene EXCEPT !.world = @ \ {m.id}]
      BY <1>1, <3>1 DEF After
    <3>3. scene'.at = scene.at /\ ~InWorld(scene', req.id)
      BY <1>2, <1>6, <3>2 DEF Scenes, InWorld
    <3>. QED  BY <1>1, <1>3, <1>4, <2>2, <3>3 DEF SeenStillHolds, Attached
  <2>3. CASE kind = "attach"
    <3>1. m.op = "attach"
      BY <2>1, <2>3 DEF OperationsOf, kind
    <3>2. scene'.at[req.id] \in {scene.at[req.id], req.link}
      BY <1>1, <1>2, <1>6, <2>1, <3>1 DEF After, Scenes
    <3>. QED  BY <1>1, <1>3, <1>4, <2>3, <3>2 DEF SeenStillHolds
  <2>4. CASE kind = "detach"
    <3>1. m.op # "attach"
      BY <2>1, <2>4 DEF OperationsOf, kind
    <3>2. ~Attached(scene, req.id) => ~Attached(scene', req.id)
      BY <1>1, <1>2, <1>4, <3>1, AfterConcernsOne
    <3>. QED  BY <1>1, <1>3, <1>4, <2>4, <3>2 DEF SeenStillHolds
  <2>5. CASE kind \notin {"remove", "attach", "detach"}
    BY <1>4, <2>5 DEF SeenStillHolds
  <2>. QED  BY <2>2, <2>3, <2>4, <2>5
<1>. QED  BY <1>5, <1>6

\* A message that is taken was asked for.
LEMMA TakenIsAsked ==
  ASSUME SceneInv, TakeWorldMessage \/ TakeAttachMessage
  PROVE  \E m \in Messages : Asked(m) /\ Applies(m)
BY MessagesAreTyped, TopicShrinks DEF TakeWorldMessage, TakeAttachMessage, SceneInv, MessagesAreAsked

\* What a goal has seen survives whatever move_group and the other goals do.
LEMMA SurroundingsSee ==
  ASSUME SceneInv, SeenStillHolds, (Retry \/ (\E g \in Goals : Begin(g)) \/ MoveGroup \/ UNCHANGED vars)
  PROVE  SeenStillHolds'
<1>1. CASE Retry \/ ComesUp \/ UNCHANGED vars
  <2>1. UNCHANGED <<request, scene, handler, doubt, blind>>
    BY <1>1 DEF Retry, RetryFires, RetryMisses, RetryEnds, Resume, ComesUp, vars
  <2>. QED  BY <2>1 DEF SeenStillHolds, handler, kind, req
<1>2. ASSUME NEW g \in Goals, Begin(g)  PROVE SeenStillHolds'
  <2>1. step' \in {"idle", "addWorld", "execute"}
    BY <1>2 DEF Begin
  <2>. QED  BY <2>1 DEF SeenStillHolds
<1>3. CASE TakeWorldMessage \/ TakeAttachMessage
  BY <1>3, TakenIsAsked, AppliesSees
<1>4. CASE GoesDown
  <2>1. scene' = EmptyScene /\ UNCHANGED <<request, cur, step>>
    BY <1>4 DEF GoesDown, handler
  <2>2. cur # None => req.id \in Objects /\ req' = req
    BY <2>1, KindAtStep DEF SceneInv, OneServed, req
  <2>3. cur # None => scene'.at[req.id] = Nowhere /\ ~InWorld(scene', req.id) /\ ~Attached(scene', req.id)
    BY <2>1, <2>2 DEF EmptyScene, InWorld, Attached
  <2>. QED  BY <2>1, <2>2, <2>3 DEF SeenStillHolds
<1>. QED  BY <1>1, <1>2, <1>3, <1>4 DEF MoveGroup

\* One goal is served at a time, the timer is set while the scene service is
\* taken for gone (unless its own callback did so late), every message is one
\* its goal asked for, and what a goal has seen still holds; whatever the goals,
\* the order of the messages and the outages.
THEOREM ManagerInvariance == Spec => []ManagerInv
<1>1. Init => ManagerInv
  BY InitEstablishes DEF ManagerInv, Init, SeenStillHolds
<1>2. ManagerInv /\ [Next]_vars => ManagerInv'
  <2>. SUFFICES ASSUME SceneInv, SeenStillHolds, [Next]_vars  PROVE SceneInv' /\ SeenStillHolds'
    BY DEF ManagerInv
  <2>1. CASE Step
    BY <2>1, StepKeeps, StepSees
  <2>2. CASE Retry
    BY <2>2, RetryKeeps, SurroundingsSee
  <2>3. ASSUME NEW g \in Goals, Begin(g)  PROVE SceneInv' /\ SeenStillHolds'
    BY <2>3, BeginKeeps, SurroundingsSee
  <2>4. CASE MoveGroup
    BY <2>4, TakeWorldMessageKeeps, TakeAttachMessageKeeps, GoesDownKeeps, ComesUpKeeps, SurroundingsSee DEF MoveGroup
  <2>5. CASE UNCHANGED vars
    <3>1. UNCHANGED <<request, status, scene, topics, handler, doubt>> /\ blind' = blind
      BY <2>5 DEF vars
    <3>2. SurroundingsOK'
      BY <2>5 DEF vars, external, watch, SurroundingsOK, RetriesWhileNotReady, SceneInv, TypeOK
    <3>. QED  BY <2>5, <3>1, <3>2, Crashes, SurroundingsSee
  <2>. QED  BY <2>1, <2>2, <2>3, <2>4, <2>5 DEF Next, Manager
<1>. QED  BY <1>1, <1>2, PTL DEF Spec

\* However goals, messages and outages interleave, no object that is not in
\* doubt is in the world and on the robot at once.
THEOREM NeverInTwoPlaces == Spec => []NoDuplicate
<1>1. ManagerInv => NoDuplicate
  BY DEF ManagerInv, SceneInv
<1>. QED  BY <1>1, ManagerInvariance, PTL

\* A goal that is reported done is done at that moment, unless a question of it
\* went unanswered or its object is in doubt.
THEOREM ReportedIsDone == Spec => SuccessMeansDone
<1>1. ManagerInv /\ [Next]_vars =>
        [\A g \in Goals :
           /\ status[g] = "open" /\ status'[g] = "succeeded"
           /\ ~blind' /\ request[g].id \notin doubt /\ step # "message"
           => /\ Done(scene, request[g])
              /\ request[g].kind = "detach" /\ step # "world" => InWorld(scene, request[g].id)]_vars
  <2>. SUFFICES ASSUME SceneInv, SeenStillHolds, [Next]_vars,
                       NEW g \in Goals, status[g] = "open", status'[g] = "succeeded",
                       ~blind', request[g].id \notin doubt, step # "message"
                PROVE  /\ Done(scene, request[g])
                       /\ request[g].kind = "detach" /\ step # "world" => InWorld(scene, request[g].id)
    BY DEF ManagerInv
  <2>1. g = cur
    BY DEF SceneInv, OneServed
  <2>2. CASE Step
    BY <2>1, <2>2, StepSees DEF IsDone, req, kind
  <2>3. status \in [Goals -> {"sent", "open", "rejected", "succeeded", "aborted"}]
    BY DEF SceneInv, TypeOK
  <2>4. CASE ~Step
    BY <2>3, <2>4 DEF Next, Manager, Retry, RetryFires, RetryMisses, RetryEnds, Resume, Begin, MoveGroup, TakeWorldMessage,
       TakeAttachMessage, Applies, GoesDown, ComesUp, vars
  <2>. QED  BY <2>2, <2>4
<1>. QED  BY <1>1, ManagerInvariance, PTL DEF Spec, SuccessMeansDone

-----------------------------------------------------------------------------
(* The manager implements SceneRequests.                                   *)

\* A goal's step changes the scene never, and the goal's status only as it
\* refuses, accepts or answers it: an addition as done only when the object is
\* seen in the world.
ServesItsGoal ==
  /\ UNCHANGED <<request, scene>>
  /\ \/ UNCHANGED status
     \/ /\ step \in BeforeAccept /\ status' = [status EXCEPT ![cur] = "rejected"]
     \/ /\ step \in BeforeAccept /\ status' = [status EXCEPT ![cur] = "open"]
     \/ /\ step \notin BeforeAccept /\ status' = [status EXCEPT ![cur] = "aborted"]
     \/ /\ step \notin BeforeAccept /\ status' = [status EXCEPT ![cur] = "succeeded"]
        /\ kind = "add" => InWorld(scene, req.id)

LEMMA StepServes ==
  ASSUME SceneInv, Step
  PROVE  ServesItsGoal
<1>. USE DEF ServesItsGoal, BeforeAccept, At, Go, Ends, Rejected, Succeed, Abort
<1>1. CASE AddGoal \/ AddGoalAttached
  BY <1>1 DEF AddGoal, AddGoalAttached
<1>2. CASE AddGoalLink
  BY <1>2 DEF AddGoalLink, DereferenceNothing
<1>3. CASE NoService
  BY <1>3 DEF NoService
<1>4. CASE Execute
  <2>1. kind \in {"add", "remove", "attach", "detach", "check", "pose"}
    BY <1>4, KindAtStep DEF Execute
  <2>. QED  BY <2>1, <1>4 DEF Execute, Publish
<1>5. CASE LookAttached
  BY <1>5, KindAtStep DEF LookAttached
<1>6. CASE LookWorld
  BY <1>6, KindAtStep DEF LookWorld, Publish
<1>7. CASE RecheckAttached
  BY <1>7, KindAtStep DEF RecheckAttached, Publish
<1>8. CASE LookLink
  BY <1>8, KindAtStep DEF LookLink
<1>9. CASE AnswerWithLink
  BY <1>9, KindAtStep DEF AnswerWithLink, DereferenceNothing
<1>10. CASE LookData
  BY <1>10, KindAtStep DEF LookData, Publish
<1>11. CASE Transform
  <2>1. kind = "pose"
    BY <1>11, KindAtStep DEF Transform, StepsOf
  <2>. QED  BY <2>1, <1>11 DEF Transform
<1>12. CASE VerifyAdded
  BY <1>12 DEF VerifyAdded, TryAgain, ObjectExists, Asks
<1>13. CASE VerifyRemoved
  BY <1>13 DEF VerifyRemoved, TryAgain
<1>14. CASE GetScene
  BY <1>14 DEF GetScene, TryAgain
<1>15. CASE Confirm
  <2>1. kind \in {"attach", "detach"}
    BY <1>15, KindAtStep DEF Confirm, StepsOf
  <2>. QED  BY <2>1, <1>15 DEF Confirm, TryAgain
<1>16. CASE ConfirmReturn
  BY <1>16, KindAtStep DEF ConfirmReturn, Publish
<1>17. CASE VerifyReadded
  BY <1>17, KindAtStep DEF VerifyReadded, TryAgain
<1>. QED  BY <1>1, <1>2, <1>3, <1>4, <1>5, <1>6, <1>7, <1>8, <1>9, <1>10, <1>11, <1>12, <1>13, <1>14,
     <1>15, <1>16, <1>17 DEF Step

\* The manager keeps the promise made to its clients: it refuses, accepts and
\* answers each request as SceneRequests says, and changes the scene only by
\* what an accepted request asked for.
THEOREM KeepsItsPromise == Spec => KeepsPromise
<1>1. Init => Promise!Init
  BY ManagerAssumption DEF Init, Promise!Init, Goals, AllRequests, Promise!AllRequests, Kinds, Promise!Kinds,
     Forms, Promise!Forms, Promise!Scenes
<1>2. ManagerInv /\ [Next]_vars => [Promise!Next]_Promise!vars
  <2>. SUFFICES ASSUME SceneInv, [Next]_vars  PROVE [Promise!Next]_Promise!vars
    BY DEF ManagerInv
  <2>. USE DEF Promise!vars
  <2>1. CASE Step
    <3>1. cur \in Goals /\ (step \in BeforeAccept => status[cur] = "sent")
          /\ (step \notin BeforeAccept => status[cur] = "open")
      <4>1. step # "idle"
        BY <2>1 DEF Step, At, AddGoal, AddGoalAttached, AddGoalLink, NoService, Execute, LookAttached, LookWorld,
           RecheckAttached, LookLink, AnswerWithLink, LookData, Transform, VerifyAdded, VerifyRemoved, GetScene,
           Confirm, ConfirmReturn, VerifyReadded
      <4>. QED  BY <4>1, KindAtStep DEF SceneInv, OneServed, BeforeAccept
    <3>2. ServesItsGoal
      BY <2>1, StepServes
    <3>3. Promise!Refuse(cur) \/ Promise!Accept(cur) \/ Promise!Fail(cur) \/ Promise!Succeed(cur)
          \/ UNCHANGED Promise!vars
      BY <3>1, <3>2 DEF ServesItsGoal, Promise!Refuse, Promise!Accept, Promise!Fail, Promise!Succeed,
         Promise!InWorld, InWorld, kind, req
    <3>. QED  BY <3>1, <3>3 DEF Promise!Next
  <2>2. CASE Retry
    BY <2>2 DEF Retry, RetryFires, RetryMisses, RetryEnds, Resume
  <2>3. ASSUME NEW g \in Goals, Begin(g)  PROVE [Promise!Next]_Promise!vars
    <3>1. Promise!Refuse(g) \/ Promise!Accept(g) \/ UNCHANGED Promise!vars
      BY <2>3 DEF Begin, Promise!Refuse, Promise!Accept
    <3>. QED  BY <3>1 DEF Promise!Next
  <2>4. CASE TakeWorldMessage \/ TakeAttachMessage
    <3>1. PICK m \in Messages : Asked(m) /\ Applies(m)
      BY <2>4, MessagesAreTyped, TopicShrinks
         DEF TakeWorldMessage, TakeAttachMessage, SceneInv, MessagesAreAsked
    <3>2. m.goal \in Goals /\ m.op \in OperationsOf(request[m.goal])
      BY <3>1 DEF Asked, Messages
    <3>3. Promise!OperationsOf(request[m.goal]) = OperationsOf(request[m.goal])
      BY DEF Promise!OperationsOf, OperationsOf
    <3>4. scene' = Promise!After(scene, m.op, request[m.goal].id, request[m.goal].link)
      BY <3>1 DEF Applies, Asked, After, Promise!After, InWorld, Promise!InWorld
    <3>5. Promise!Effect(m.goal)
      BY <3>1, <3>2, <3>3, <3>4 DEF Applies, Asked, Promise!Effect
    <3>. QED  BY <3>2, <3>5 DEF Promise!Next
  <2>5. CASE GoesDown
    BY <2>5 DEF GoesDown, Promise!Next, Promise!Lose, EmptyScene, Promise!EmptyScene
  <2>6. CASE ComesUp \/ UNCHANGED vars
    BY <2>6 DEF ComesUp, vars
  <2>. QED  BY <2>1, <2>2, <2>3, <2>4, <2>5, <2>6 DEF Next, Manager, MoveGroup
<1>. QED  BY <1>1, <1>2, ManagerInvariance, PTL DEF Spec, KeepsPromise, Promise!Spec
=============================================================================
