---------------------------- MODULE Application -----------------------------
(***************************************************************************)
(* A client application at run time: the leaves of its tree conclude one   *)
(* by one, those of two branches in any order, and change the planning     *)
(* scene, the grippers and the keys of the blackboard.  A leaf that fails, *)
(* or a RESET of the operator, halts every branch and starts the tree      *)
(* again from its start-up; so the cycle must be able to start from        *)
(* whatever a failure at any leaf leaves behind.                           *)
(***************************************************************************)
EXTENDS ApplicationTrees, Integers

CONSTANT MaxFaults   \* bound: failures that are not the tree's own doing

ASSUME MaxFaultsAssumption == MaxFaults \in Nat

VARIABLES
  client,   \* the application
  stage,    \* its current stage
  pc,       \* the next leaf of each branch
  world,    \* objects, grippers, robots and the blackboard's flags
  faults,
  fresh,    \* history: no detach or removal has been given up since the last start-up began
  misled    \* history: robot 2 has acted on an old key since then

vars == <<client, stage, pc, world, faults, fresh, misled>>

Robots == {1, 2}
Objects ==
  {"ground", "wall", "part", "cylinder", "tube", "renamed", "slider", "endplate", "machine"}
Keys == {"valid", "created", "robot1In", "robot2In"}
Places == {"rest", "scan", "pick", "drop", "home", "exit", "ready", "wait", "insert", "load"}

\* at: an object is "gone", in the "world" or on a robot (-1, 0, 1, 2);
\* place: where each robot was last sent.
Gone == -1
InWorld == 0
Worlds ==
  [at : [Objects -> {Gone, InWorld} \cup Robots], closed : SUBSET Robots,
   place : [Robots -> Places], keys : [Keys -> BOOLEAN]]

at(o) == world.at[o]
There(o) == at(o) # Gone

Init ==
  /\ client \in DOMAIN TreeOf
  /\ stage = 1 /\ pc = <<1, 1>>
  /\ \E shut \in SUBSET Robots :
       world = [at |-> [o \in Objects |-> Gone], closed |-> shut,
                place |-> <<"rest", "rest">>, keys |-> [k \in Keys |-> FALSE]]
  /\ faults = 0 /\ fresh = TRUE /\ misled = FALSE

tree == TreeOf[client]
Branches == 1..Len(tree[stage])
Leaves(b) == tree[stage][b]
Cycling == stage = Len(tree)
Running(b) == b \in Branches /\ pc[b] <= Len(Leaves(b))
LeafOf(b) == Leaves(b)[pc[b]]

-----------------------------------------------------------------------------
(* What a leaf does.                                                       *)

\* A leaf that waits, waits as long as it takes.
Waits(l) ==
  \/ l.do = "waitKey" /\ world.keys[l.of] # l.arg
  \/ l.do = "waitObject" /\ There(l.of) # l.arg

\* A leaf that fails because of what it finds, not by any fault.
FailsByItself(l) ==
  \/ l.do = "add" /\ There(l.of)
  \/ l.do \in {"pose", "exists"} /\ ~There(l.of)
  \/ l.do = "attach" /\ at(l.of) \notin {InWorld, l.robot}

\* The world after a leaf has had its effect, if it has one.
After(w, l) ==
  CASE l.do = "attach" /\ w.at[l.of] = InWorld -> [w EXCEPT !.at[l.of] = l.robot]
    [] l.do \in {"add", "ensure"} /\ w.at[l.of] = Gone -> [w EXCEPT !.at[l.of] = InWorld]
    [] l.do = "detach" /\ w.at[l.of] = l.robot -> [w EXCEPT !.at[l.of] = InWorld]
    [] l.do = "remove" /\ w.at[l.of] = InWorld -> [w EXCEPT !.at[l.of] = Gone]
    [] l.do = "grip" -> [w EXCEPT !.closed = IF l.arg = "closed" THEN @ \cup {l.robot} ELSE @ \ {l.robot}]
    [] l.do = "move" -> [w EXCEPT !.place[l.robot] = l.arg]
    [] l.do = "set" -> [w EXCEPT !.keys[l.of] = l.arg]
    [] OTHER -> w

\* History: a key left over from before a restart says that robot 1 is in the
\* working position, which it is not.
Misled(l) == l = WaitKey("robot1In", TRUE) /\ world.place[1] # "drop"

-----------------------------------------------------------------------------
(* Steps.                                                                  *)

\* Broken variant: the cycle is not repeated.
AdvanceOnce(b) ==
  /\ pc' = [pc EXCEPT ![b] = @ + 1]
  /\ UNCHANGED <<client, stage>>

\* Repeat starts its Sequence again after the last leaf.
Advance(b) ==
  /\ pc' = [pc EXCEPT ![b] = IF Cycling /\ @ = Len(Leaves(b)) THEN 1 ELSE @ + 1]
  /\ UNCHANGED <<client, stage>>

\* A key is set in the very tick that reaches the leaf.
Due(b) ==
  Running(b) /\ \A h \in Branches \ {b} : Running(h) => LeafOf(h).do # "set"

Concludes(b) ==
  /\ Due(b)
  /\ ~Waits(LeafOf(b)) /\ ~FailsByItself(LeafOf(b))
  /\ world' = After(world, LeafOf(b))
  /\ misled' = (misled \/ Misled(LeafOf(b)))
  /\ Advance(b)
  /\ UNCHANGED <<faults, fresh>>

\* The Parallel of a stage ends with the last of its branches.
EndStage ==
  /\ \A b \in Branches : ~Running(b)
  /\ stage' = stage + 1 /\ pc' = <<1, 1>>
  /\ UNCHANGED <<client, world, faults, fresh, misled>>

\* Broken variant: the Retry is around the cycle only.
RestartCycle ==
  stage' = Len(tree) /\ pc' = <<1, 1>> /\ fresh' = TRUE /\ misled' = FALSE /\ UNCHANGED client

\* One failing branch fails the Parallel; Retry begins again.
Restart ==
  stage' = 1 /\ pc' = <<1, 1>> /\ fresh' = TRUE /\ misled' = FALSE /\ UNCHANGED client

FailsWithoutFault(b) ==
  /\ Due(b) /\ FailsByItself(LeafOf(b))
  /\ Restart
  /\ UNCHANGED <<world, faults>>

\* What the leaves halted by a failure, and the failing one, leave behind:
\* each may have had its effect.
LeftBehind ==
  LET Halted == {LeafOf(b) : b \in {c \in Branches : Running(c)}}
      One == {world} \cup {After(world, l) : l \in Halted}
  IN One \cup {After(w, l) : w \in One, l \in Halted}

\* A detach or removal that fails is taken for a success.
Swallowed(l) == l.do \in {"detach", "remove"}

\* A server or robot fails, or the operator resets.
Fault(b) ==
  /\ faults < MaxFaults /\ faults' = faults + 1
  /\ Due(b) /\ LeafOf(b).do \notin {"set", "operator", "waitKey", "detect"}
  /\ IF Swallowed(LeafOf(b))
       THEN Advance(b) /\ fresh' = FALSE /\ UNCHANGED <<world, misled>>
       ELSE Restart /\ world' \in LeftBehind

Next ==
  \/ \E b \in {1, 2} : Concludes(b) \/ FailsWithoutFault(b) \/ Fault(b)
  \/ EndStage

Spec == Init /\ [][Next]_vars

(* The executor ticks every branch; servers, robots and the operator answer. *)
Fairness ==
  /\ \A b \in {1, 2} : WF_vars(Concludes(b) \/ FailsWithoutFault(b))
  /\ WF_vars(EndStage)

FairSpec == Spec /\ Fairness

-----------------------------------------------------------------------------
(* Properties.                                                             *)

\* Every variable keeps its type.
TypeOK ==
  /\ client \in DOMAIN TreeOf /\ stage \in 1..Len(tree)
  /\ pc \in [Robots -> Nat \ {0}]
  /\ world \in Worlds
  /\ faults \in 0..MaxFaults /\ fresh \in BOOLEAN /\ misled \in BOOLEAN

Moving(r, from, to) ==
  \E b \in Branches :
    /\ Running(b) /\ LeafOf(b).do = "move" /\ LeafOf(b).robot = r
    /\ world.place[r] \in from \/ LeafOf(b).arg \in to

\* Robots with a gripper that the tree t commands.
HasGripper(t, r) ==
  \E s \in 1..Len(t) : \E b \in 1..Len(t[s]) : \E i \in 1..Len(t[s][b]) :
    t[s][b][i].do = "grip" /\ t[s][b][i].robot = r

\* A robot never moves an object with open jaws, whatever failed before and
\* wherever; unless a detach was given up since the last start-up.
MovesWhatItHolds ==
  fresh => \A r \in Robots, o \in Objects :
             Moving(r, Places, {}) /\ HasGripper(tree, r) /\ at(o) = r => r \in world.closed

\* After any failures, the start-up leaves a scene and keys with which the
\* cycle never fails of itself, with two exceptions.  The camera's client: its
\* robot may reach for an object that the camera has announced and not yet
\* added.  The two robots' client, once robot 2 has acted on an old key: it may
\* look for the tube or the endplate before robot 1 has added them, or take the
\* renamed tube away before robot 1 has seen it.
CycleSucceeds ==
  \A b \in Branches :
    fresh /\ Due(b) /\ FailsByItself(LeafOf(b)) =>
      \/ client = "foundationpose" /\ ~world.keys["created"]
      \/ /\ client = "app_dual" /\ misled
         /\ \/ b = 1 /\ LeafOf(b).do = "exists"
            \/ b = 2 /\ LeafOf(b).do = "pose"

BothInWorkingPosition ==
  Moving(1, {"drop"}, {"drop"}) /\ Moving(2, {"insert", "load", "exit"}, {"insert", "load", "exit"})

\* The waits for the robots' keys keep the two from being on the move in the
\* working position at once, in the cycle, even after a RESET.
OneInWorkingPosition ==
  fresh /\ Cycling /\ client = "app_dual" => ~BothInWorkingPosition

\* What does hold of the handover: in the cycle the two robots are not on the
\* move in the working position at once, unless robot 2 has acted on an old key
\* since the last start-up; and the first lets go of the tube only where the
\* other stands ready for it, even then.  Nothing is said of the start-up, which
\* sends both robots to rest in parallel, from wherever they are.
HandoverIsSafe ==
  fresh /\ Cycling /\ client = "app_dual" =>
    /\ misled \/ ~BothInWorkingPosition
    /\ LeafOf(1) = Grip(1, "open") => world.place[2] = "insert" /\ LeafOf(2).do # "move"

\* Every branch completes its cycle again and again once faults have stopped,
\* unless a leaf that fails of itself forces the start-up time and again, or a
\* detach or removal was given up (the other robot may wait for that object for
\* ever), or robot 2 has acted on an old key (the two may wait for each other
\* for ever): no RESET is heard in these waits.
KeepsWorking ==
  \/ \A b \in {1, 2} : []<>(Cycling /\ pc[b] = 1)
  \/ []<><<\E b \in {1, 2} : FailsWithoutFault(b)>>_vars
  \/ <>[]~fresh \/ <>[]misled

-----------------------------------------------------------------------------
(* The inductive invariant behind the theorems.  What is known before leaf i of a   *)
(* branch q is what the leaves before it have done since the start of its stage,    *)
(* provided that nothing has gone wrong.                                            *)

\* A leaf of A is among the first i - 1, and none of B is after it.
Since(q, i, A, B) ==
  \E j \in 1..(i - 1) : q[j] \in A /\ \A k \in (j + 1)..(i - 1) : q[k] \notin B

Adding(o) == {Ensure(o), Add(o)}

Freed(q, i, r, o) == Since(q, i, {Detach(r, o)}, {})
Held(q, i, r, o) == Since(q, i, {Attach(r, o)}, {Detach(r, o)})
Shut(q, i, r) == Since(q, i, {Grip(r, "closed")}, {Grip(r, "open")})
Present(q, i, o) == Since(q, i, Adding(o), {Remove(o)})
Absent(q, i, o) == Since(q, i, {Remove(o)}, Adding(o))

\* Robot r of a tree t takes object o, which it does in the cycle only.
Takes(t, r, o) ==
  \E b \in 1..Len(t[Len(t)]) : \E i \in 1..Len(t[Len(t)][b]) : t[Len(t)][b][i] = Attach(r, o)

\* The leaves that change the world are of the kinds above.
Fits(l) ==
  \/ l.do \notin {"attach", "detach", "add", "ensure", "remove", "grip", "move", "set"}
  \/ \E r \in Robots, o \in Objects : l \in {Attach(r, o), Detach(r, o)}
  \/ \E o \in Objects : l \in Adding(o) \cup {Remove(o)}
  \/ \E r \in Robots, jaws \in {"closed", "open"} : l = Grip(r, jaws)
  \/ \E r \in Robots, to \in Places : l = Move(r, to)
  \/ \E k \in Keys, v \in BOOLEAN : l = Set(k, v)

\* A start-up, maybe a stage between, and a cycle; in each stage the leaves of a
\* robot are in one branch.
WellFormed(t) ==
  /\ Len(t) \in {2, 3}
  /\ \A s \in 1..Len(t) :
       /\ Len(t[s]) \in {1, 2}
       /\ \A b \in 1..Len(t[s]) :
            Len(t[s][b]) \in Nat \ {0} /\ \A i \in 1..Len(t[s][b]) : Fits(t[s][b][i])
       /\ \A b, c \in 1..Len(t[s]) : \A i \in 1..Len(t[s][b]), j \in 1..Len(t[s][c]) :
            b # c => t[s][b][i].robot = 0 \/ t[s][b][i].robot # t[s][c][j].robot

\* Objects are taken in the cycle only, each by one robot, and given back before its
\* end; the start-up detaches what a robot may have taken before it moves it; and a
\* robot only moves with an object on which its jaws have closed.
GivesBack(t) ==
  /\ \A s \in 1..(Len(t) - 1) : \A b \in 1..Len(t[s]) : \A i \in 1..Len(t[s][b]) :
       t[s][b][i].do # "attach"
  /\ \A r, q \in Robots, o \in Objects : Takes(t, r, o) /\ Takes(t, q, o) => r = q
  /\ \A r \in Robots, o \in Objects : Takes(t, r, o) =>
       /\ \E b \in 1..Len(t[1]) : Freed(t[1][b], Len(t[1][b]) + 1, r, o)
       /\ \A b \in 1..Len(t[Len(t)]) : ~Held(t[Len(t)][b], Len(t[Len(t)][b]) + 1, r, o)
       /\ HasGripper(t, r) =>
            /\ \A b \in 1..Len(t[1]) : \A i \in 1..Len(t[1][b]) :
                 t[1][b][i].do = "move" /\ t[1][b][i].robot = r => Freed(t[1][b], i, r, o)
            /\ \A b \in 1..Len(t[Len(t)]) : \A i \in 1..Len(t[Len(t)][b]) :
                 /\ t[Len(t)][b][i].do = "move" /\ t[Len(t)][b][i].robot = r
                 /\ Held(t[Len(t)][b], i, r, o)
                 => Shut(t[Len(t)][b], i, r)

\* Only branch b of a stage adds or removes object o.
Sole(t, s, b, o) ==
  \A c \in 1..Len(t[s]) : \A i \in 1..Len(t[s][c]) :
    t[s][c][i] \in Adding(o) \cup {Remove(o)} => c = b

\* A leaf finds the object as the leaves before it in its own branch have left it.
Prepared(t, s, b, i) ==
  LET l == t[s][b][i] IN
  /\ l.do = "add" => /\ Sole(t, s, b, l.of) /\ Absent(t[s][b], i, l.of)
                     /\ \A r \in Robots : ~Takes(t, r, l.of)
  /\ l.do \in {"pose", "exists", "attach"} =>
       l.of \in Objects /\ Sole(t, s, b, l.of) /\ Present(t[s][b], i, l.of)

\* The leaves that need what the other branch has left: the camera adds the part that
\* the robot takes; the taker finds the tube and takes it where the giver has renamed it.
Handed(c, s, b, i) ==
  \/ c = "foundationpose" /\ s = 2 /\ i = 5
  \/ c = "app_dual" /\ s = 3 /\ (b = 1 => i \in {26, 27}) /\ (b = 2 => i \in {4, 5, 6, 7, 12})

\* What the trees are checked for; that the two robots' client is prepared is proved.
ASSUME TreesAssumption ==
  \A c \in DOMAIN TreeOf :
    /\ WellFormed(TreeOf[c]) /\ GivesBack(TreeOf[c])
    /\ c # "app_dual" =>
         \A s \in 1..Len(TreeOf[c]) : \A b \in 1..Len(TreeOf[c][s]) : \A i \in 1..Len(TreeOf[c][s][b]) :
           ~Handed(c, s, b, i) => Prepared(TreeOf[c], s, b, i)

\* A branch is at a leaf or past its last one, and never past it in the cycle.
InPlace ==
  \A b \in Branches : pc[b] <= Len(Leaves(b)) + 1 /\ (Cycling => pc[b] <= Len(Leaves(b)))

\* A robot only holds what it takes: nothing at the end of the start-up, and in
\* the cycle what it has attached and not detached since.
HeldIsTaken ==
  \A r \in Robots, o \in Objects : at(o) = r =>
    /\ Takes(tree, r, o)
    /\ fresh /\ stage = 1 => \A b \in Branches : ~Freed(Leaves(b), pc[b], r, o)
    /\ fresh /\ stage # 1 => Cycling /\ \E b \in Branches : Held(Leaves(b), pc[b], r, o)

\* Jaws that were closed since the stage began are closed.
ShutIsClosed ==
  fresh => \A r \in Robots, b \in Branches : Shut(Leaves(b), pc[b], r) => r \in world.closed

\* The objects that one branch adds and removes are as it has left them.
SceneIsPrepared ==
  fresh => \A b \in Branches, o \in Objects : Sole(tree, stage, b, o) =>
    /\ Present(Leaves(b), pc[b], o) => There(o)
    /\ Absent(Leaves(b), pc[b], o) /\ (\A r \in Robots : ~Takes(tree, r, o)) => at(o) = Gone

place(r) == world.place[r]
key(k) == world.keys[k]

\* The camera's client: what is announced as created is there until the robot
\* has removed it, which the robot makes known at once.
CameraInv ==
  client = "foundationpose" /\ fresh =>
    /\ stage = 1 /\ pc[1] \in 8..10 => ~key("created")
    /\ stage = 2 => /\ pc[1] = 5 => ~key("created")
                    /\ pc[1] = 6 => There("part")
                    /\ key("created") /\ pc[2] # 11 => There("part")

\* The handover: the giver goes to the drop position (18), says so (19), waits for
\* the taker (20), which has come (8) and said so (9), lets go of the tube (21) and
\* renames it (26), moves away (1) and says so (2), which the taker waits for (10).
\* GiverInv, TakerInv and InTurn hold even if the taker has acted on an old key,
\* InStep only if it has not.
GiverInv ==
  LET p == pc[1] IN
  /\ p = 1 => place(1) \in {"rest", "drop"}
  /\ p \in 2..11 => place(1) = "ready"
  /\ p \in 12..15 => place(1) = "pick"
  /\ p \in 16..18 => place(1) = "wait"
  /\ p \in 19..27 => place(1) = "drop"
  /\ p \in 3..19 => ~key("robot1In")
  /\ p \in 20..27 => key("robot1In")
  /\ p \in 17..26 => at("renamed") = Gone

TakerInv ==
  LET q == pc[2] IN
  /\ q = 1 => place(2) = "rest" \/ (place(2) = "exit" /\ key("robot2In"))
  /\ q \in 2..8 => place(2) = "ready"
  /\ q \in 9..13 => place(2) = "insert"
  /\ q = 14 => place(2) = "load"
  /\ q \in 15..16 => place(2) = "exit"
  /\ q \in 3..9 => ~key("robot2In")
  /\ q \in 10..16 => key("robot2In")
  /\ q = 12 => There("renamed")

InTurn ==
  LET p == pc[1]
      q == pc[2]
  IN /\ There("renamed") => q \in 10..16
     /\ p \in 17..20 => q \in 1..11 /\ (q \in 1..2 => ~key("robot2In"))
     /\ p \in 21..26 => q \in 10..11

InStep ==
  LET p == pc[1]
      q == pc[2]
  IN /\ p = 27 => There("renamed")
     /\ \/ q \in 1..3 /\ p \in 1..20 /\ (p = 1 => place(1) = "rest") /\ (p \in 17..20 => ~key("robot2In"))
        \/ q \in 4..9 /\ p = 20
        \/ q = 10 /\ \/ p \in 20..27
                     \/ p \in 1..2 /\ key("robot1In") /\ (p = 1 => place(1) = "drop")
                     \/ p \in 3..16
        \/ q \in 11..16 /\ p \in 3..16

HandoverInv ==
  client = "app_dual" /\ fresh =>
    /\ stage = 1 /\ pc[1] = 12 => at("renamed") = Gone
    /\ stage = 2 => at("renamed") = Gone /\ \A r \in Robots : pc[r] = 3 => place(r) = "rest"
    /\ stage = 3 => GiverInv /\ TakerInv /\ InTurn /\ (misled \/ InStep)

AppInv ==
  /\ TypeOK
  /\ InPlace
  /\ HeldIsTaken
  /\ ShutIsClosed
  /\ SceneIsPrepared
  /\ CameraInv
  /\ HandoverInv
=============================================================================
