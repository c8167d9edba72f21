--------------------------- MODULE LeafNodesProofs ---------------------------
(***************************************************************************)
(* For every number of requests under way: a node started with no answer   *)
(* outstanding has one request under way at most, and succeeds only on an  *)
(* answer of its own run that allows it.                                   *)
(***************************************************************************)
EXTENDS LeafNodes, TLAPS

\* What the proofs need to know of the kinds: the flags are flags, and only a
\* node that polls may wait for a "no".
LEMMA KindFacts ==
  ASSUME NEW k \in Kinds
  PROVE  /\ k.polls \in BOOLEAN /\ k.good \in BOOLEAN
         /\ ~k.polls => k.good
         /\ k.rejected = "keeps" => ~k.polls
<1> DEFINE Fine(j) ==
             /\ j.polls \in BOOLEAN /\ j.good \in BOOLEAN
             /\ ~j.polls => j.good
             /\ j.rejected = "keeps" => ~j.polls
<1>1. Fine(OneShot)
  BY DEF OneShot
<1>2. Fine(AttachDetachObjectAction) /\ Fine(GripperTrajAction)
  BY DEF AttachDetachObjectAction, GripperTrajAction, OneShot
<1>3. Fine(GripperCommandAction)
  BY DEF GripperCommandAction, OneShot
<1>4. Fine(GetEntityPoseNode) /\ Fine(SetEntityPoseNode)
  BY DEF GetEntityPoseNode, SetEntityPoseNode, OneShot
<1>5. ASSUME NEW t \in BOOLEAN
      PROVE  Fine(WaitForInputAction(t)) /\ Fine(WaitForKeyBool(t)) /\ Fine(FoundationPoseAlignmentNode(t))
  BY DEF WaitForInputAction, WaitForKeyBool, FoundationPoseAlignmentNode, OneShot
<1>6. ASSUME NEW t \in BOOLEAN, NEW e \in BOOLEAN
      PROVE  Fine(WaitForObjectAction(e, t))
  BY DEF WaitForObjectAction, OneShot
<1>7. \/ k \in {OneShot, AttachDetachObjectAction, GripperTrajAction, GripperCommandAction,
               GetEntityPoseNode, SetEntityPoseNode}
      \/ \E t \in BOOLEAN :
           k \in {WaitForInputAction(t), WaitForKeyBool(t), FoundationPoseAlignmentNode(t),
                  WaitForObjectAction(TRUE, t), WaitForObjectAction(FALSE, t)}
  BY DEF Kinds, SetOutputAction, GetInputAction, CheckRobotStateAction, AddCollisionObjectAction,
     RemoveCollisionObjectAction, CheckObjectExistsAction, GetObjectPoseAction
<1> HIDE DEF Fine
<1>8. Fine(k)
  BY <1>1, <1>2, <1>3, <1>4, <1>5, <1>6, <1>7
<1> QED BY <1>8 DEF Fine

\* The initial states satisfy the invariant.
LEMMA InitInv == Init => LeafInv
<1> SUFFICES ASSUME Init PROVE LeafInv
  OBVIOUS
<1>1. TypeOK
  <2>1. req \in [Requests -> [at : {"free", "sent", "rejected", "open", "canceling"} \cup Codes, ok : BOOLEAN]]
    BY DEF Init, Free
  <2>2. cancels \in 0..MaxCancels
    BY LeafAssumption DEF Init
  <2>3. {verdict, up, ready, due, late, early} \subseteq BOOLEAN
    BY DEF Init
  <2> QED BY <2>1, <2>2, <2>3 DEF Init, TypeOK
<1>2. Busy = {}
  BY DEF Init, Busy, Free
<1>3. OneAtATime /\ AnswerHasGrounds /\ SuccessHasGrounds
  BY <1>2 DEF Init, OneAtATime, OneRequest, AnswerHasGrounds, SuccessHasGrounds
<1> QED BY <1>1, <1>3 DEF LeafInv

\* A new run begins the history again.
LEMMA StartInv ==
  ASSUME LeafInv, Start \/ StartFails
  PROVE  LeafInv'
<1> USE LeafAssumption DEF LeafInv, TypeOK, Busy, Free, Codes
<1>1. CASE StartFails
  <2>1. TypeOK'
    BY <1>1 DEF StartFails, history
  <2>2. ~early /\ Asks => OneAtATime' /\ AnswerHasGrounds' /\ SuccessHasGrounds'
    BY <1>1 DEF StartFails, history, OneAtATime, OneRequest, AnswerHasGrounds, SuccessHasGrounds, Asks
  <2> QED BY <1>1, <2>1, <2>2 DEF StartFails, history, Asks
<1>2. CASE Start
  <2>1. CASE sent' = None /\ UNCHANGED req
    BY <1>2, <2>1 DEF Start, NewRun, OneAtATime, OneRequest, AnswerHasGrounds, SuccessHasGrounds, Asks
  <2>2. ASSUME NEW r \in Requests, Send(r) PROVE LeafInv'
    <3>1. TypeOK'
      BY <1>2, <2>2 DEF Start, NewRun, Send
    <3>2. ~early' => Busy' = {r} /\ sent' = r /\ answer' = None /\ node' = "RUNNING"
      BY <1>2, <2>2 DEF Start, NewRun, Send
    <3>3. ~early' => OneAtATime' /\ AnswerHasGrounds' /\ SuccessHasGrounds'
      BY <3>1, <3>2 DEF OneAtATime, OneRequest, AnswerHasGrounds, SuccessHasGrounds
    <3> QED BY <3>1, <3>3
  <2>3. CASE \E r \in Requests : Send(r)
    BY <2>2, <2>3
  <2> QED BY <1>2, <2>1, <2>3 DEF Start
<1> QED BY <1>1, <1>2

\* The ticks of a running node.
LEMMA TickInv ==
  ASSUME LeafInv, Tick
  PROVE  LeafInv'
<1> USE LeafAssumption DEF LeafInv, TypeOK, Busy, Free, Codes, Running
<1>0. kind.polls \in BOOLEAN /\ kind.good \in BOOLEAN /\ (~kind.polls => kind.good)
  BY KindFacts
<1>1. CASE Conclude
  BY <1>0, <1>1 DEF Conclude, Flags, OneAtATime, OneRequest, AnswerHasGrounds, SuccessHasGrounds, Asks, Grounds
<1>2. CASE NothingSent \/ ServerMissing
  BY <1>2 DEF NothingSent, ServerMissing, Flags, OneAtATime, OneRequest, AnswerHasGrounds, SuccessHasGrounds, Asks, Grounds
<1>3. CASE SendLate
  BY <1>3 DEF SendLate, Send, OneAtATime, OneRequest, AnswerHasGrounds, SuccessHasGrounds, Asks, Grounds
<1>4. CASE PollEnds
  BY <1>0, <1>4 DEF PollEnds, Flags, OneAtATime, OneRequest, AnswerHasGrounds, SuccessHasGrounds, Asks, Grounds
<1>5. CASE PollGoesOn
  BY <1>5 DEF PollGoesOn, OneAtATime, OneRequest, AnswerHasGrounds, SuccessHasGrounds, Asks, Grounds
<1>6. CASE Ask
  BY <1>6 DEF Ask, Send, OneAtATime, OneRequest, AnswerHasGrounds, SuccessHasGrounds, Asks, Grounds
<1>7. CASE ReadKey \/ ReadDetection \/ DetectionWithoutFrame
  BY <1>7 DEF ReadKey, ReadDetection, DetectionWithoutFrame, Asks
<1> QED BY <1>1, <1>2, <1>3, <1>4, <1>5, <1>6, <1>7 DEF Tick

\* What servers, clocks and callbacks do.
LEMMA EnvironmentInv ==
  ASSUME LeafInv, Environment \/ Halt
  PROVE  LeafInv'
<1> USE LeafAssumption DEF LeafInv, TypeOK, Busy, Free, Codes, members, history
<1>0. kind.polls \in BOOLEAN /\ kind.good \in BOOLEAN /\ (~kind.polls => kind.good)
  BY KindFacts
<1>1. CASE Halt
  BY <1>1 DEF Halt, OneAtATime, OneRequest, AnswerHasGrounds, SuccessHasGrounds, Asks, Grounds
<1>2. ASSUME NEW r \in Requests, Receive(r) \/ EndRequest(r)
      PROVE  LeafInv'
  BY <1>2 DEF Receive, EndRequest, NodeLocal, OneAtATime, OneRequest, AnswerHasGrounds, SuccessHasGrounds, Asks, Grounds
<1>3. ASSUME NEW r \in Requests, GoalResponse(r)
      PROVE  LeafInv'
  BY <1>0, <1>3 DEF GoalResponse, Heard, OneAtATime, OneRequest, AnswerHasGrounds, SuccessHasGrounds, Asks, Grounds
<1>4. ASSUME NEW r \in Requests, Result(r)
      PROVE  LeafInv'
  <2>1. TypeOK'
    BY <1>4 DEF Result, Heard
  <2>2. Busy' = Busy \ {r} /\ r \in Busy
    BY <1>4 DEF Result, Heard
  <2>3. ASSUME ~early, Asks
        PROVE  OneAtATime' /\ AnswerHasGrounds' /\ SuccessHasGrounds'
    <3>1. Busy = {r} /\ Busy' = {} /\ node # "SUCCESS" /\ node' = node /\ sent' = sent
      BY <1>4, <2>2, <2>3 DEF Result, Heard, OneAtATime, OneRequest
    <3>2. OneAtATime'
      BY <1>4, <2>3, <3>1 DEF Result, Heard, OneAtATime, OneRequest
    <3>3. AnswerHasGrounds'
      BY <1>0, <1>4, <2>3, <3>1 DEF Result, Heard, OneAtATime, AnswerHasGrounds, Grounds
    <3> QED BY <3>1, <3>2, <3>3 DEF SuccessHasGrounds
  <2> QED BY <1>4, <2>1, <2>3 DEF Result, Heard, Asks
<1>5. CASE Detection
  BY <1>5 DEF Detection, Asks
<1>6. CASE ReceiveCancelAll
  BY <1>6 DEF ReceiveCancelAll, NodeLocal, OneAtATime, OneRequest, AnswerHasGrounds, SuccessHasGrounds, Asks, Grounds
<1>7. CASE ServerComesOrGoes \/ CheckDue \/ TimeoutPasses
  <2>1. TypeOK'
    BY <1>7 DEF ServerComesOrGoes, CheckDue, TimeoutPasses, NodeLocal
  <2>2. UNCHANGED <<kind, node, sent, answer, verdict, req, early, grounds>>
    BY <1>7 DEF ServerComesOrGoes, CheckDue, TimeoutPasses, NodeLocal
  <2> QED BY <2>1, <2>2 DEF OneAtATime, OneRequest, AnswerHasGrounds, SuccessHasGrounds, Asks, Grounds
<1> QED BY <1>1, <1>2, <1>3, <1>4, <1>5, <1>6, <1>7 DEF Environment

\* The inductive invariant holds in every reachable state.
THEOREM LeafInvariance == Spec => []LeafInv
<1>1. LeafInv /\ [Next]_vars => LeafInv'
  <2> SUFFICES ASSUME LeafInv, [Next]_vars PROVE LeafInv'
    OBVIOUS
  <2>1. CASE Next
    BY <2>1, StartInv, TickInv, EnvironmentInv DEF Next
  <2>2. CASE UNCHANGED vars
    BY <2>2 DEF vars, members, history, LeafInv, TypeOK, Busy, OneAtATime, OneRequest,
       AnswerHasGrounds, SuccessHasGrounds, Asks, Grounds
  <2> QED BY <2>1, <2>2
<1> QED BY InitInv, <1>1, PTL DEF Spec

\* A run begun with no answer outstanding has at most one request under way,
\* if the node makes requests.
THEOREM OneRequestOfAClient == Spec => [](Asks => OneRequest)
<1>1. LeafInv => (Asks => OneRequest)
  BY DEF LeafInv, OneAtATime, OneRequest
<1> QED BY LeafInvariance, <1>1, PTL

\* Such a run succeeds only on an answer to its own request that allows it.
THEOREM SuccessIsGrounded == Spec => []SuccessHasGrounds
<1>1. LeafInv => SuccessHasGrounds
  BY DEF LeafInv, SuccessHasGrounds
<1> QED BY LeafInvariance, <1>1, PTL
=============================================================================
