------------------------------ MODULE LeafNodes ------------------------------
(***************************************************************************)
(* The asynchronous leaves of the behaviour trees other than the moves:    *)
(* the clients of the I/O, robot state, object and gripper action servers, *)
(* the clients of Isaac Sim's services, and the leaves that wait for a     *)
(* blackboard key or for a detection.  They are one state machine that     *)
(* differs in a few decisions, which a "kind" names; a behaviour of the    *)
(* module is the life of one node of one kind.                             *)
(*                                                                         *)
(* Ticks and callbacks run in the one thread of the client, so each is a   *)
(* step; requests, cancels and answers travel at any time.  A request slot *)
(* is used again once its answer has been heard.                           *)
(***************************************************************************)
EXTENDS Naturals, FiniteSets

CONSTANTS Requests,    \* slots for requests under way: a bound
          None,        \* no request: goal_sent_ or result_received_ is false
          MaxCancels   \* cancel requests under way: a bound

ASSUME LeafAssumption == None \notin Requests /\ MaxCancels \in Nat

VARIABLES
  kind,      \* what the node is
  node,      \* its status
  sent,      \* goal_sent_ (request_sent_), as the request that was sent
  answer,    \* result_received_, as the request it came from
  verdict,   \* the flag of the stored result: success, ready, exists, ...
  up, ready, \* the server is there; the node has seen it
  due, late, \* next_check_time_ is reached; the timeout has passed
  req,       \* the requests: how far, and what the result says
  cancels,   \* cancel-all requests on their way
  early,     \* history: the run began before the last answer had come
  grounds    \* history: what the run's latest answer was

members == <<sent, answer, verdict, ready, due, late>>
history == <<early, grounds>>
vars == <<kind, node, members, up, req, cancels, history>>

-----------------------------------------------------------------------------
(* The kinds.                                                              *)

\* A client that sends in onStart(), to a server its constructor has waited
\* for; only a result with code SUCCEEDED is believed.
OneShot == [source |-> "action", polls |-> FALSE, server |-> "construction",
            rejected |-> "fails", believes |-> {"SUCCEEDED"},
            good |-> TRUE, timeout |-> FALSE]

SetOutputAction == OneShot
GetInputAction == OneShot
CheckRobotStateAction == OneShot

\* These leave the fresh result, which says "no", when the goal is rejected.
AddCollisionObjectAction == OneShot
RemoveCollisionObjectAction == OneShot
CheckObjectExistsAction == OneShot
GetObjectPoseAction == OneShot

\* The result of an aborted goal is copied as it is.
AttachDetachObjectAction ==
  [OneShot EXCEPT !.believes = {"SUCCEEDED", "ABORTED"}]

GripperTrajAction == [OneShot EXCEPT !.server = "start"]

\* action_result_ is never cleared, and copied whatever the code is.
GripperCommandAction ==
  [OneShot EXCEPT !.server = "running", !.rejected = "keeps",
                  !.believes = {"SUCCEEDED", "ABORTED", "CANCELED"}]

WaitForInputAction(timeout) ==
  [OneShot EXCEPT !.polls = TRUE, !.server = "startOnce", !.timeout = timeout]

WaitForObjectAction(exists, timeout) ==
  [OneShot EXCEPT !.polls = TRUE, !.good = exists, !.timeout = timeout]

GetEntityPoseNode == [OneShot EXCEPT !.source = "service", !.server = "skipped"]
SetEntityPoseNode == [OneShot EXCEPT !.source = "service", !.server = "skipped"]

WaitForKeyBool(timeout) ==
  [OneShot EXCEPT !.source = "key", !.polls = TRUE, !.timeout = timeout]

FoundationPoseAlignmentNode(timeout) ==
  [OneShot EXCEPT !.source = "topic", !.timeout = timeout]

Kinds ==
  {SetOutputAction, GetInputAction, CheckRobotStateAction, AddCollisionObjectAction,
   RemoveCollisionObjectAction, CheckObjectExistsAction, GetObjectPoseAction,
   AttachDetachObjectAction, GripperTrajAction, GripperCommandAction,
   GetEntityPoseNode, SetEntityPoseNode}
  \cup UNION {{WaitForInputAction(t), WaitForKeyBool(t), FoundationPoseAlignmentNode(t),
               WaitForObjectAction(TRUE, t), WaitForObjectAction(FALSE, t)} : t \in BOOLEAN}

Asks == kind.source \in {"action", "service"}
SendsAtStart == Asks /\ ~kind.polls /\ kind.server # "running"

-----------------------------------------------------------------------------
Codes == {"SUCCEEDED", "ABORTED", "CANCELED"}
Free == [at |-> "free", ok |-> FALSE]
Busy == {r \in Requests : req[r].at # "free"}
CanSend == Busy # Requests

Init ==
  /\ kind \in Kinds
  /\ node = "IDLE"
  /\ sent = None /\ answer = None /\ verdict = FALSE
  /\ up \in BOOLEAN /\ (kind.server = "construction" => up)
  /\ ready = FALSE /\ due = FALSE /\ late = FALSE
  /\ req = [r \in Requests |-> Free]
  /\ cancels = 0
  /\ early = FALSE /\ grounds = "none"

-----------------------------------------------------------------------------
(* Ticks.                                                                  *)

Send(r) ==
  /\ r \notin Busy
  /\ req' = [req EXCEPT ![r].at = "sent"]
  /\ sent' = r

\* onStart() finds no server and fails.
StartFails ==
  /\ node # "RUNNING" /\ ~up
  /\ kind.server = "start" \/ (kind.server = "startOnce" /\ ~ready)
  /\ node' = "FAILURE"
  \* WaitForInput makes its client, which it then takes for connected.
  /\ ready' = (ready \/ kind.server = "startOnce")
  /\ IF kind.server = "startOnce"
       THEN sent' = None /\ answer' = None /\ verdict' = FALSE
       ELSE UNCHANGED <<sent, answer, verdict>>
  /\ UNCHANGED <<kind, due, late, up, req, cancels, history>>

\* Broken variant: result_received_ is not cleared.
NewRunKeepsAnswer ==
  /\ answer' = answer
  /\ verdict' = (kind.rejected = "keeps" /\ verdict)
  /\ due' = TRUE /\ late' = FALSE
  /\ early' = (Busy # {}) /\ grounds' = "none"
  /\ node' = "RUNNING"

\* A new run: flags and result are cleared, the clocks start.
NewRun ==
  /\ answer' = None
  /\ verdict' = (kind.rejected = "keeps" /\ verdict)
  /\ due' = TRUE /\ late' = FALSE
  /\ early' = (Busy # {}) /\ grounds' = "none"
  /\ node' = "RUNNING"

Start ==
  /\ node # "RUNNING"
  /\ up \/ kind.server \in {"construction", "running", "skipped"} \/ (kind.server = "startOnce" /\ ready)
  /\ NewRun
  /\ ready' = (ready \/ kind.server = "startOnce")
  /\ IF SendsAtStart /\ (up \/ kind.server = "construction")
       THEN \E r \in Requests : Send(r)
       ELSE sent' = None /\ UNCHANGED req
  /\ UNCHANGED <<kind, up, cancels>>

Running == node = "RUNNING" /\ UNCHANGED <<kind, up, cancels, early, grounds>>
Flags == UNCHANGED <<sent, answer, verdict, ready, due, late>>

\* onRunning() of a node that has its answer and does not poll.
Conclude ==
  /\ Running /\ Asks /\ ~kind.polls
  /\ answer # None /\ sent # None
  /\ node' = IF verdict THEN "SUCCESS" ELSE "FAILURE"
  /\ Flags /\ UNCHANGED req

\* The service was not there in onStart(), which says that it keeps trying: the
\* next tick gives up.
NothingSent ==
  /\ Running /\ kind.server = "skipped" /\ sent = None
  /\ node' = "FAILURE"
  /\ Flags /\ UNCHANGED req

\* GripperCommandAction waits for its server up to a deadline, then sends.
ServerMissing ==
  /\ Running /\ kind.server = "running" /\ ~ready /\ ~up /\ late
  /\ node' = "FAILURE"
  /\ Flags /\ UNCHANGED req

SendLate ==
  /\ Running /\ kind.server = "running" /\ sent = None
  /\ ready \/ up
  /\ ready' = TRUE
  /\ answer' = None
  /\ \E r \in Requests : Send(r)
  /\ UNCHANGED <<node, verdict, due, late>>

\* onRunning() of a node that polls and has an answer: done, timed out, or
\* ready to ask again.
PollEnds ==
  /\ Running /\ Asks /\ kind.polls /\ answer # None
  /\ verdict = kind.good \/ late
  /\ node' = IF verdict = kind.good THEN "SUCCESS" ELSE "FAILURE"
  /\ Flags /\ UNCHANGED req

\* Broken variant: goal_sent_ stays set.
PollForgetsToSend ==
  /\ Running /\ Asks /\ kind.polls /\ answer # None
  /\ verdict # kind.good /\ ~late
  /\ answer' = None
  /\ due' = FALSE
  /\ UNCHANGED <<node, sent, verdict, ready, late, req>>

PollGoesOn ==
  /\ Running /\ Asks /\ kind.polls /\ answer # None
  /\ verdict # kind.good /\ ~late
  /\ sent' = None /\ answer' = None
  /\ due' = FALSE
  /\ UNCHANGED <<node, verdict, ready, late, req>>

\* Broken variant: goal_sent_ is not looked at.
AskAlways ==
  /\ Running /\ Asks /\ kind.polls /\ answer = None /\ due
  /\ \E r \in Requests : Send(r)
  /\ UNCHANGED <<node, answer, verdict, ready, due, late>>

Ask ==
  /\ Running /\ Asks /\ kind.polls /\ answer = None /\ due
  /\ sent = None
  /\ \E r \in Requests : Send(r)
  /\ UNCHANGED <<node, answer, verdict, ready, due, late>>

\* WaitForKeyBool reads the key, which holds any value.
ReadKey ==
  /\ Running /\ kind.source = "key" /\ due
  /\ \E v \in BOOLEAN : node' = IF v THEN "SUCCESS" ELSE IF late THEN "FAILURE" ELSE "RUNNING"
  /\ due' = FALSE
  /\ UNCHANGED <<sent, answer, verdict, ready, late, req>>

\* FoundationPoseAlignmentNode looks at the latest detections if they are new;
\* they may hold no target, a target that cannot be transformed, or no frame.
ReadDetection ==
  /\ Running /\ kind.source = "topic"
  /\ answer # None \/ late
  /\ answer' = None
  /\ node' = IF answer # None /\ verdict THEN "SUCCESS" ELSE IF late THEN "FAILURE" ELSE "RUNNING"
  /\ UNCHANGED <<sent, verdict, ready, due, late, req>>

DetectionWithoutFrame ==
  /\ Running /\ kind.source = "topic" /\ answer # None /\ ~verdict
  /\ node' = "FAILURE"
  /\ answer' = None
  /\ UNCHANGED <<sent, verdict, ready, due, late, req>>

\* onHalted(): a goal in progress is cancelled, with all others there.
Halt ==
  /\ node = "RUNNING"
  /\ node' = "IDLE"
  /\ IF kind.source = "action" /\ sent # None /\ answer = None
       THEN cancels < MaxCancels /\ cancels' = cancels + 1
       ELSE UNCHANGED cancels
  /\ sent' = None /\ answer' = None
  /\ UNCHANGED <<kind, verdict, ready, due, late, up, req, history>>

Tick ==
  \/ Conclude \/ NothingSent \/ ServerMissing \/ SendLate
  \/ PollEnds \/ PollGoesOn \/ Ask \/ ReadKey \/ ReadDetection \/ DetectionWithoutFrame

-----------------------------------------------------------------------------
(* Callbacks.  Those of action clients do not ask whose answer it is; a    *)
(* service's answer goes to the future of its own request.                 *)

Heard(r) ==
  /\ req' = [req EXCEPT ![r] = Free]
  /\ UNCHANGED <<kind, node, sent, ready, due, late, up, cancels, early>>

GoalResponse(r) ==
  /\ req[r].at = "rejected"
  /\ answer' = r
  /\ verdict' = (kind.rejected = "keeps" /\ verdict)
  /\ grounds' = "rejected"
  /\ Heard(r)

Result(r) ==
  /\ req[r].at \in Codes
  /\ IF kind.source = "action" \/ r = sent
       THEN /\ answer' = r
            /\ verdict' = (req[r].at \in kind.believes /\ req[r].ok)
            /\ grounds' = IF req[r].at \notin kind.believes THEN "failed"
                          ELSE IF req[r].ok = kind.good THEN "good" ELSE "bad"
       ELSE UNCHANGED <<answer, verdict, grounds>>
  /\ Heard(r)

\* detectionCallback: latest_detection_ is replaced, read or not.
Detection ==
  /\ kind.source = "topic"
  /\ node = "RUNNING"
  /\ \E r \in Requests, v \in BOOLEAN :
       answer' = r /\ verdict' = v /\ grounds' = IF v THEN "good" ELSE "bad"
  /\ UNCHANGED <<kind, node, sent, ready, due, late, up, req, cancels, early>>

-----------------------------------------------------------------------------
(* The servers, the network and the clock.                                 *)

NodeLocal == UNCHANGED <<kind, node, members, history>>

\* Action servers accept or reject; a service just answers.
Receive(r) ==
  /\ req[r].at = "sent"
  /\ \E at \in IF kind.source = "action" THEN {"open", "rejected"} ELSE {"open"} :
       req' = [req EXCEPT ![r].at = at]
  /\ UNCHANGED <<up, cancels>> /\ NodeLocal

EndRequest(r) ==
  /\ req[r].at \in {"open", "canceling"}
  /\ \E code \in Codes, v \in BOOLEAN :
       /\ code = "CANCELED" => req[r].at = "canceling"
       /\ kind.source = "service" => code = "SUCCEEDED"
       /\ req' = [req EXCEPT ![r] = [at |-> code, ok |-> v]]
  /\ UNCHANGED <<up, cancels>> /\ NodeLocal

ReceiveCancelAll ==
  /\ cancels > 0
  /\ cancels' = cancels - 1
  /\ req' = [r \in Requests |-> IF req[r].at = "open" THEN [req[r] EXCEPT !.at = "canceling"] ELSE req[r]]
  /\ UNCHANGED up /\ NodeLocal

ServerComesOrGoes ==
  /\ kind.server # "construction"
  /\ up' = ~up
  /\ UNCHANGED <<req, cancels>> /\ NodeLocal

CheckDue ==
  /\ ~due
  /\ due' = TRUE
  /\ UNCHANGED <<kind, node, sent, answer, verdict, ready, late, up, req, cancels, history>>

TimeoutPasses ==
  /\ ~late /\ (kind.timeout \/ kind.server = "running")
  /\ late' = TRUE
  /\ UNCHANGED <<kind, node, sent, answer, verdict, ready, due, up, req, cancels, history>>

Environment ==
  \/ \E r \in Requests : Receive(r) \/ EndRequest(r) \/ GoalResponse(r) \/ Result(r)
  \/ Detection \/ ReceiveCancelAll \/ ServerComesOrGoes \/ CheckDue \/ TimeoutPasses

-----------------------------------------------------------------------------
Next == StartFails \/ Start \/ Halt \/ Tick \/ Environment
Spec == Init /\ [][Next]_vars

(* The loop ticks, clocks run, and a request that was sent is received,    *)
(* ended and answered.                                                     *)
Fairness ==
  /\ WF_vars(Tick) /\ WF_vars(CheckDue) /\ WF_vars(TimeoutPasses)
  /\ \A r \in Requests : WF_vars(Receive(r) \/ EndRequest(r) \/ GoalResponse(r) \/ Result(r))

FairSpec == Spec /\ Fairness

-----------------------------------------------------------------------------
(* Properties.                                                             *)

\* Every member, request and history variable keeps its type.
TypeOK ==
  /\ kind \in Kinds
  /\ node \in {"IDLE", "RUNNING", "SUCCESS", "FAILURE"}
  /\ {sent, answer} \subseteq Requests \cup {None}
  /\ {verdict, up, ready, due, late, early} \subseteq BOOLEAN
  /\ req \in [Requests -> [at : {"free", "sent", "rejected", "open", "canceling"} \cup Codes,
                           ok : BOOLEAN]]
  /\ cancels \in 0..MaxCancels
  /\ grounds \in {"none", "good", "bad", "failed", "rejected"}

\* A node that was started when every earlier answer was in succeeds only on
\* an answer to a request of that run which said so.  Two kinds succeed on
\* less: GripperCommandAction on a rejection, after an earlier success, and
\* WaitForObjectAction, which takes a check that failed for an absent object.
Grounds ==
  \/ grounds = "good"
  \/ grounds = "rejected" /\ kind.rejected = "keeps"
  \/ grounds \in {"rejected", "failed"} /\ kind.polls /\ ~kind.good

SuccessHasGrounds == node = "SUCCESS" /\ ~early /\ Asks => Grounds

\* Such a run never has two requests under way, however long it polls.
OneRequest == ~early => \A r, s \in Busy : r = s

\* An Isaac node without its service is meant to go on RUNNING.
KeepsTrying == kind.server = "skipped" /\ sent = None

\* A run ends, provided requests are answered, unless it may wait for ever: a
\* node that polls with no timeout, or the detections (an answer that never
\* comes keeps any client running, its timeout notwithstanding). Nothing is said
\* of an Isaac node that found no service: it is documented to keep trying
\* (action_nodes_isaac.hpp:79), and ends with a failure (NothingSent).
NodeConcludes ==
  (node = "RUNNING" /\ (kind.timeout \/ (Asks /\ ~kind.polls /\ ~KeepsTrying)))
    ~> (node # "RUNNING" \/ ~CanSend)

-----------------------------------------------------------------------------
(* The inductive invariant behind the theorems.                            *)

\* A running node either waits for the one request it has sent, or has that
\* request's answer, or has nothing under way.
OneAtATime ==
  /\ OneRequest
  /\ node = "RUNNING" => Busy \subseteq {sent} /\ (Busy # {} \/ sent = None => answer = None)
  /\ node = "SUCCESS" => Busy = {}

\* An answer in hand that ends the run well is one that may.
AnswerHasGrounds == node = "RUNNING" /\ answer # None /\ verdict = kind.good => Grounds

\* What every step preserves.
LeafInv ==
  /\ TypeOK
  /\ ~early /\ Asks => OneAtATime /\ AnswerHasGrounds /\ SuccessHasGrounds
=============================================================================
