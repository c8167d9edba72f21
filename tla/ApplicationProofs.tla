------------------------- MODULE ApplicationProofs -------------------------
(***************************************************************************)
(* Theorems about Application, for every client and any number of faults   *)
(* and RESETs.  TreesAssumption says of the trees what TLC evaluates; that *)
(* what it says is enough is proved here: the invariant AppInv is kept by  *)
(* a leaf that concludes, by one that fails, by the end of a stage and by  *)
(* starting over, and what robots carry, what a start-up prepares and how  *)
(* two robots hand over an object follow from it.                          *)
(***************************************************************************)
EXTENDS Application, TLAPS

-----------------------------------------------------------------------------
(* Leaves.                                                                 *)

\* Nothing is known before the first leaf.
LEMMA SinceStart == ASSUME NEW q, NEW A, NEW B PROVE ~Since(q, 1, A, B)
BY DEF Since

\* What is known behind a leaf is what it does, or what was known before it.
LEMMA SinceStep ==
  ASSUME NEW q, NEW A, NEW B, NEW i \in Nat \ {0}
  PROVE  Since(q, i + 1, A, B) <=> q[i] \in A \/ (Since(q, i, A, B) /\ q[i] \notin B)
<1>1. ASSUME q[i] \in A PROVE Since(q, i + 1, A, B)
  <2>1. i \in 1..(i + 1 - 1) /\ \A k \in (i + 1)..(i + 1 - 1) : q[k] \notin B OBVIOUS
  <2>2. QED BY <1>1, <2>1 DEF Since
<1>2. ASSUME Since(q, i, A, B), q[i] \notin B PROVE Since(q, i + 1, A, B)
  <2>1. PICK j \in 1..(i - 1) : q[j] \in A /\ \A k \in (j + 1)..(i - 1) : q[k] \notin B
    BY <1>2 DEF Since
  <2>2. j \in 1..(i + 1 - 1) /\ \A k \in (j + 1)..(i + 1 - 1) : q[k] \notin B BY <1>2, <2>1
  <2>3. QED BY <2>1, <2>2 DEF Since
<1>3. ASSUME Since(q, i + 1, A, B), q[i] \notin A PROVE Since(q, i, A, B) /\ q[i] \notin B
  <2>1. PICK j \in 1..(i + 1 - 1) : q[j] \in A /\ \A k \in (j + 1)..(i + 1 - 1) : q[k] \notin B
    BY <1>3 DEF Since
  <2>2. j \in 1..(i - 1) /\ \A k \in (j + 1)..(i - 1) : q[k] \notin B BY <1>3, <2>1
  <2>3. q[i] \notin B BY <2>1, <2>2
  <2>4. QED BY <2>1, <2>2, <2>3 DEF Since
<1>4. QED BY <1>1, <1>2, <1>3

\* Jaws were closed before a leaf that does neither close nor open them.
LEMMA ShutStep ==
  ASSUME NEW q, NEW r, NEW i \in Nat \ {0}, Shut(q, i + 1, r), q[i] # Grip(r, "closed")
  PROVE  Shut(q, i, r) /\ q[i] # Grip(r, "open")
<1> DEFINE A == {Grip(r, "closed")}
           B == {Grip(r, "open")}
<1>1. Since(q, i + 1, A, B) /\ q[i] \notin A BY DEF Shut
<1>2. Since(q, i, A, B) /\ q[i] \notin B
  <2> HIDE DEF A, B
  <2>1. QED BY <1>1, SinceStep
<1>3. QED BY <1>2 DEF Shut

\* An object was absent before a leaf that neither removes nor adds it.
LEMMA AbsentStep ==
  ASSUME NEW q, NEW o, NEW i \in Nat \ {0}, Absent(q, i + 1, o), q[i] # Remove(o)
  PROVE  Absent(q, i, o) /\ q[i] \notin Adding(o)
<1> DEFINE A == {Remove(o)}
           B == Adding(o)
<1>1. Since(q, i + 1, A, B) /\ q[i] \notin A BY DEF Absent
<1>2. Since(q, i, A, B) /\ q[i] \notin B
  <2> HIDE DEF A, B
  <2>1. QED BY <1>1, SinceStep
<1>3. QED BY <1>2 DEF Absent

USE DEF Gone, InWorld

\* The fields of the leaves that change the world.
LEMMA Fields ==
  ASSUME NEW l
  PROVE  /\ \A r, o : l = Attach(r, o) => l.do = "attach" /\ l.robot = r /\ l.of = o
         /\ \A r, o : l = Detach(r, o) => l.do = "detach" /\ l.robot = r /\ l.of = o
         /\ \A o : l = Add(o) => l.do = "add" /\ l.of = o
         /\ \A o : l = Ensure(o) => l.do = "ensure" /\ l.of = o
         /\ \A o : l = Remove(o) => l.do = "remove" /\ l.of = o
         /\ \A r : l = Grip(r, "closed") => l.do = "grip" /\ l.robot = r /\ l.of = "" /\ l.arg = "closed"
         /\ \A r : l = Grip(r, "open") => l.do = "grip" /\ l.robot = r /\ l.of = "" /\ l.arg = "open"
<1>1. ASSUME NEW r, NEW o, l = Attach(r, o) PROVE l.do = "attach" /\ l.robot = r /\ l.of = o
  BY <1>1 DEF Attach, Leaf
<1>2. ASSUME NEW r, NEW o, l = Detach(r, o) PROVE l.do = "detach" /\ l.robot = r /\ l.of = o
  BY <1>2 DEF Detach, Leaf
<1>3. ASSUME NEW o, l = Add(o) PROVE l.do = "add" /\ l.of = o
  BY <1>3 DEF Add, Leaf
<1>4. ASSUME NEW o, l = Ensure(o) PROVE l.do = "ensure" /\ l.of = o
  BY <1>4 DEF Ensure, Leaf
<1>5. ASSUME NEW o, l = Remove(o) PROVE l.do = "remove" /\ l.of = o
  BY <1>5 DEF Remove, Leaf
<1>6. ASSUME NEW r, l = Grip(r, "closed")
      PROVE  l.do = "grip" /\ l.robot = r /\ l.of = "" /\ l.arg = "closed"
  BY <1>6 DEF Grip, Leaf
<1>7. ASSUME NEW r, l = Grip(r, "open")
      PROVE  l.do = "grip" /\ l.robot = r /\ l.of = "" /\ l.arg = "open"
  BY <1>7 DEF Grip, Leaf
<1>8. QED BY <1>1, <1>2, <1>3, <1>4, <1>5, <1>6, <1>7

\* What a gripper command does, and to which object.
LEMMA GripDoes == ASSUME NEW l, NEW r, NEW a, l = Grip(r, a) PROVE l.do = "grip" /\ l.of = ""
BY DEF Grip, Leaf

\* The same of a move.
LEMMA MoveDoes == ASSUME NEW l, NEW r, NEW a, l = Move(r, a) PROVE l.do = "move" /\ l.of = ""
BY DEF Move, Leaf

\* The same of an attachment.
LEMMA AttachDoes == ASSUME NEW l, NEW r, NEW o, l = Attach(r, o) PROVE l.do = "attach" /\ l.robot = r /\ l.of = o
BY DEF Attach, Leaf

\* The same of a detachment.
LEMMA DetachDoes == ASSUME NEW l, NEW r, NEW o, l = Detach(r, o) PROVE l.do = "detach" /\ l.of = o
BY DEF Detach, Leaf

\* The same of an addition.
LEMMA AddDoes == ASSUME NEW l, NEW o, l = Add(o) PROVE l.do = "add" /\ l.of = o
BY DEF Add, Leaf

\* The same of an addition if the object is absent.
LEMMA EnsureDoes == ASSUME NEW l, NEW o, l = Ensure(o) PROVE l.do = "ensure" /\ l.of = o
BY DEF Ensure, Leaf

\* The same of a removal.
LEMMA RemoveDoes == ASSUME NEW l, NEW o, l = Remove(o) PROVE l.do = "remove" /\ l.of = o
BY DEF Remove, Leaf

\* The same of a look at a pose.
LEMMA PoseDoes == ASSUME NEW l, NEW o, l = Pose(o) PROVE l.do = "pose" /\ l.of = o
BY DEF Pose, Leaf

\* The same of a wait for an object.
LEMMA ExistsDoes == ASSUME NEW l, NEW o, l = Exists(o) PROVE l.do = "exists" /\ l.of = o
BY DEF Exists, Leaf

\* The same of the wait for the operator.
LEMMA OperatorDoes == ASSUME NEW l, l = Operator PROVE l.do = "operator" /\ l.of = ""
BY DEF Operator, Leaf

\* The same of the camera's look.
LEMMA DetectDoes == ASSUME NEW l, l = Detect PROVE l.do = "detect" /\ l.of = ""
BY DEF Detect, Leaf

\* The same of the wait for a gripper's sensor.
LEMMA SensorDoes == ASSUME NEW l, NEW r, l = Sensor(r) PROVE l.do = "sensor" /\ l.of = ""
BY DEF Sensor, Leaf

\* The same of the check of a robot.
LEMMA CheckDoes == ASSUME NEW l, NEW r, l = Check(r) PROVE l.do = "check" /\ l.of = ""
BY DEF Check, Leaf

\* A move names its robot.
LEMMA MoveFields ==
  ASSUME NEW l, NEW r \in Robots, NEW to \in Places, l = Move(r, to)
  PROVE  l.do = "move" /\ l.robot = r /\ l.of = ""
BY DEF Move, Leaf

\* A move names its target.
LEMMA MoveTarget ==
  ASSUME NEW l, NEW r \in Robots, NEW to \in Places, l = Move(r, to)
  PROVE  l.arg = to
BY DEF Move, Leaf

\* What a leaf does tells which one it is, whom and what it concerns.
LEMMA Kinds ==
  ASSUME NEW l, Fits(l)
  PROVE  /\ l.do = "attach" => l.robot \in Robots /\ l.of \in Objects /\ l = Attach(l.robot, l.of)
         /\ l.do = "detach" => l.robot \in Robots /\ l.of \in Objects /\ l = Detach(l.robot, l.of)
         /\ l.do = "ensure" => l.of \in Objects /\ l = Ensure(l.of)
         /\ l.do = "add" => l.of \in Objects /\ l = Add(l.of)
         /\ l.do = "remove" => l.of \in Objects /\ l = Remove(l.of)
         /\ l.do = "grip" => /\ l.robot \in Robots /\ l.arg \in {"closed", "open"}
                             /\ l = Grip(l.robot, l.arg)
         /\ l.do = "move" => l.robot \in Robots /\ l.arg \in Places
         /\ l.do = "set" => l.of \in Keys /\ l.arg \in BOOLEAN
<1>1. CASE l.do \notin {"attach", "detach", "add", "ensure", "remove", "grip", "move", "set"}
  BY <1>1
<1>2. ASSUME NEW r \in Robots, NEW o \in Objects, l = Attach(r, o)
      PROVE  l.do = "attach" /\ l.robot = r /\ l.of = o
  BY <1>2 DEF Attach, Leaf
<1>3. ASSUME NEW r \in Robots, NEW o \in Objects, l = Detach(r, o)
      PROVE  l.do = "detach" /\ l.robot = r /\ l.of = o
  BY <1>3 DEF Detach, Leaf
<1>4. ASSUME NEW o \in Objects, l = Ensure(o) PROVE l.do = "ensure" /\ l.of = o
  BY <1>4 DEF Ensure, Leaf
<1>5. ASSUME NEW o \in Objects, l = Add(o) PROVE l.do = "add" /\ l.of = o
  BY <1>5 DEF Add, Leaf
<1>6. ASSUME NEW o \in Objects, l = Remove(o) PROVE l.do = "remove" /\ l.of = o
  BY <1>6 DEF Remove, Leaf
<1>7. ASSUME NEW r \in Robots, NEW c \in {"closed", "open"}, l = Grip(r, c)
      PROVE  l.do = "grip" /\ l.robot = r /\ l.arg = c
  BY <1>7 DEF Grip, Leaf
<1>8. ASSUME NEW r \in Robots, NEW to \in Places, l = Move(r, to)
      PROVE  l.do = "move" /\ l.robot = r /\ l.arg = to
  BY <1>8 DEF Move, Leaf
<1>9. ASSUME NEW k \in Keys, NEW v \in BOOLEAN, l = Set(k, v)
      PROVE  l.do = "set" /\ l.of = k /\ l.arg = v
  BY <1>9 DEF Set, Leaf
<1>10. QED BY <1>1, <1>2, <1>3, <1>4, <1>5, <1>6, <1>7, <1>8, <1>9 DEF Fits, Adding

\* Where a leaf leaves an object.
AtAfter(w, l, o) ==
  CASE l.of = o /\ l.do = "attach" /\ w.at[o] = InWorld -> l.robot
    [] l.of = o /\ l.do \in {"add", "ensure"} /\ w.at[o] = Gone -> InWorld
    [] l.of = o /\ l.do = "detach" /\ w.at[o] = l.robot -> InWorld
    [] l.of = o /\ l.do = "remove" /\ w.at[o] = InWorld -> Gone
    [] OTHER -> w.at[o]

\* What a leaf does to the world.
LEMMA Effects ==
  ASSUME NEW w \in Worlds, NEW l, Fits(l)
  PROVE  /\ After(w, l) \in Worlds
         /\ \A o \in Objects : After(w, l).at[o] = AtAfter(w, l, o)
         /\ l.do # "grip" => After(w, l).closed = w.closed
         /\ l.do = "grip" /\ l.arg = "closed" => After(w, l).closed = w.closed \cup {l.robot}
         /\ l.do = "grip" /\ l.arg # "closed" => After(w, l).closed = w.closed \ {l.robot}
         /\ \A r \in Robots : After(w, l).place[r] =
              IF l.do = "move" /\ r = l.robot THEN l.arg ELSE w.place[r]
         /\ \A k \in Keys : After(w, l).keys[k] =
              IF l.do = "set" /\ k = l.of THEN l.arg ELSE w.keys[k]
<1> USE DEF Worlds, AtAfter
<1>1. CASE l.do = "attach" /\ w.at[l.of] = InWorld
  <2>1. After(w, l) = [w EXCEPT !.at[l.of] = l.robot] BY <1>1 DEF After
  <2>2. QED BY <1>1, <2>1, Kinds
<1>2. CASE l.do \in {"add", "ensure"} /\ w.at[l.of] = Gone
  <2>1. After(w, l) = [w EXCEPT !.at[l.of] = InWorld] BY <1>2 DEF After
  <2>2. QED BY <1>2, <2>1, Kinds
<1>3. CASE l.do = "detach" /\ w.at[l.of] = l.robot
  <2>1. After(w, l) = [w EXCEPT !.at[l.of] = InWorld] BY <1>3 DEF After
  <2>2. QED BY <1>3, <2>1, Kinds
<1>4. CASE l.do = "remove" /\ w.at[l.of] = InWorld
  <2>1. After(w, l) = [w EXCEPT !.at[l.of] = Gone] BY <1>4 DEF After
  <2>2. QED BY <1>4, <2>1, Kinds
<1>5. CASE l.do = "grip"
  <2>1. CASE l.arg = "closed"
    <3>1. After(w, l) = [w EXCEPT !.closed = @ \cup {l.robot}] BY <1>5, <2>1 DEF After
    <3>2. QED BY <1>5, <2>1, <3>1, Kinds
  <2>2. CASE l.arg # "closed"
    <3>1. After(w, l) = [w EXCEPT !.closed = @ \ {l.robot}] BY <1>5, <2>2 DEF After
    <3>2. QED BY <1>5, <2>2, <3>1, Kinds
  <2>3. QED BY <2>1, <2>2
<1>6. CASE l.do = "move"
  <2>1. After(w, l) = [w EXCEPT !.place[l.robot] = l.arg] BY <1>6 DEF After
  <2>2. QED BY <1>6, <2>1, Kinds
<1>7. CASE l.do = "set"
  <2>1. After(w, l) = [w EXCEPT !.keys[l.of] = l.arg] BY <1>7 DEF After
  <2>2. QED BY <1>7, <2>1, Kinds
<1>8. CASE /\ ~(l.do = "attach" /\ w.at[l.of] = InWorld)
           /\ ~(l.do \in {"add", "ensure"} /\ w.at[l.of] = Gone)
           /\ ~(l.do = "detach" /\ w.at[l.of] = l.robot)
           /\ ~(l.do = "remove" /\ w.at[l.of] = InWorld)
           /\ l.do \notin {"grip", "move", "set"}
  <2>1. After(w, l) = w BY <1>8 DEF After
  <2>2. QED BY <1>8, <2>1
<1>9. QED BY <1>1, <1>2, <1>3, <1>4, <1>5, <1>6, <1>7, <1>8

-----------------------------------------------------------------------------
(* Trees.                                                                  *)

\* The tree of the client is one of those the assumption speaks of.
LEMMA TreeKnown ==
  ASSUME TypeOK PROVE WellFormed(tree) /\ GivesBack(tree) /\ stage \in 1..Len(tree)
BY TreesAssumption DEF TypeOK, tree

\* A tree has at most two branches in a stage.
LEMMA UpToTwo == ASSUME NEW n \in {1, 2} PROVE 1..n \subseteq {1, 2}
OBVIOUS

\* Where a branch is.
LEMMA AtLeaf ==
  ASSUME TypeOK, NEW b, Running(b)
  PROVE  /\ b \in Branches /\ b \in Robots /\ Branches \subseteq Robots
         /\ Len(Leaves(b)) \in Nat \ {0} /\ pc[b] \in 1..Len(Leaves(b))
         /\ Fits(LeafOf(b))
<1>1. b \in Branches /\ pc[b] <= Len(Leaves(b)) BY DEF Running
<1>2. Len(tree[stage]) \in {1, 2} BY TreeKnown DEF WellFormed
<1>3. b \in Robots /\ Branches \subseteq Robots BY <1>1, <1>2, UpToTwo DEF Branches, Robots
<1>4. pc[b] \in Nat \ {0} BY <1>3 DEF TypeOK
<1>5. Len(Leaves(b)) \in Nat \ {0} /\ \A i \in 1..Len(Leaves(b)) : Fits(Leaves(b)[i])
  BY <1>1, TreeKnown DEF WellFormed, Branches, Leaves
<1>6. pc[b] \in 1..Len(Leaves(b)) BY <1>1, <1>4, <1>5
<1>7. QED BY <1>1, <1>3, <1>5, <1>6 DEF LeafOf

\* How long branches are, and that they are no further than that.
LEMMA BranchBound ==
  ASSUME TypeOK, InPlace, NEW c \in Branches
  PROVE  c \in Robots /\ Len(Leaves(c)) \in Nat \ {0} /\ pc[c] \in 1..(Len(Leaves(c)) + 1)
<1>1. c \in Robots BY TreeKnown, UpToTwo DEF WellFormed, Branches, Robots
<1>2. Len(Leaves(c)) \in Nat \ {0} BY TreeKnown DEF WellFormed, Branches, Leaves
<1>3. pc[c] \in Nat \ {0} BY <1>1 DEF TypeOK
<1>4. QED BY <1>1, <1>2, <1>3 DEF InPlace

\* Where it goes from there.
LEMMA Proceeds ==
  ASSUME TypeOK, InPlace, NEW b, Due(b), Advance(b)
  PROVE  /\ tree' = tree /\ stage' = stage /\ Branches' = Branches /\ (Cycling <=> Cycling')
         /\ \A c : Leaves(c)' = Leaves(c)
         /\ pc' \in [Robots -> Nat \ {0}] /\ InPlace'
         /\ \A c \in Branches \ {b} : pc'[c] = pc[c]
         /\ \/ pc'[b] = pc[b] + 1
            \/ Cycling /\ pc[b] = Len(Leaves(b)) /\ pc'[b] = 1
<1>1. Running(b) BY DEF Due
<1>2. /\ b \in Branches /\ b \in Robots /\ Branches \subseteq Robots
      /\ Len(Leaves(b)) \in Nat \ {0} /\ pc[b] \in 1..Len(Leaves(b))
  BY <1>1, AtLeaf
<1>3. /\ tree' = tree /\ stage' = stage /\ Branches' = Branches /\ (Cycling <=> Cycling')
      /\ \A c : Leaves(c)' = Leaves(c)
  BY DEF Advance, tree, Branches, Cycling, Leaves
<1>4. pc \in [Robots -> Nat \ {0}] BY DEF TypeOK
<1>5. /\ pc' \in [Robots -> Nat \ {0}]
      /\ \A c \in Branches \ {b} : pc'[c] = pc[c]
      /\ \/ pc'[b] = pc[b] + 1 /\ ~(Cycling /\ pc[b] = Len(Leaves(b)))
         \/ Cycling /\ pc[b] = Len(Leaves(b)) /\ pc'[b] = 1
  BY <1>2, <1>4 DEF Advance
<1>6. InPlace' BY <1>2, <1>3, <1>5 DEF InPlace
<1>7. QED BY <1>3, <1>5, <1>6

\* Who attaches an object is in the cycle, and takes it.
LEMMA AttachTakes ==
  ASSUME TypeOK, NEW b, Running(b), LeafOf(b).do = "attach"
  PROVE  Cycling /\ Takes(tree, LeafOf(b).robot, LeafOf(b).of)
<1>1. b \in Branches /\ pc[b] \in 1..Len(Leaves(b)) /\ Fits(LeafOf(b)) BY AtLeaf
<1>2. LeafOf(b) = Attach(LeafOf(b).robot, LeafOf(b).of) BY <1>1, Kinds
<1>3. ~(stage \in 1..(Len(tree) - 1))
  BY <1>1, TreeKnown DEF GivesBack, Branches, Leaves, LeafOf
<1>4. Len(tree) \in {2, 3} BY TreeKnown DEF WellFormed
<1>5. stage = Len(tree) BY <1>3, <1>4, TreeKnown
<1>6. QED BY <1>1, <1>2, <1>5 DEF Takes, Cycling, Branches, Leaves, LeafOf

\* The leaves of a robot are in one branch.
LEMMA OneBranch ==
  ASSUME TypeOK, NEW b \in Branches, NEW c \in Branches,
         NEW i \in 1..Len(Leaves(b)), NEW j \in 1..Len(Leaves(c)),
         Leaves(b)[i].robot \in Robots, Leaves(c)[j].robot = Leaves(b)[i].robot
  PROVE  b = c
<1>1. \A d, e \in 1..Len(tree[stage]) :
        \A k \in 1..Len(tree[stage][d]), m \in 1..Len(tree[stage][e]) :
          d # e => tree[stage][d][k].robot = 0 \/ tree[stage][d][k].robot # tree[stage][e][m].robot
  BY TreeKnown DEF WellFormed
<1>2. Leaves(b)[i].robot # 0 BY DEF Robots
<1>3. QED BY <1>1, <1>2 DEF Branches, Leaves

\* What a robot takes is given back at the end of the cycle.
LEMMA GivenBack ==
  ASSUME TypeOK, Cycling, NEW b \in Branches, NEW r \in Robots, NEW o \in Objects, Takes(tree, r, o)
  PROVE  ~Held(Leaves(b), Len(Leaves(b)) + 1, r, o)
BY TreeKnown DEF GivesBack, Cycling, Branches, Leaves

-----------------------------------------------------------------------------
(* A leaf that concludes.                                                  *)

\* What robots hold.
LEMMA ConcludesHeld ==
  ASSUME TypeOK, InPlace, HeldIsTaken, NEW b, Concludes(b)
  PROVE  HeldIsTaken'
<1> DEFINE l == LeafOf(b)
           i == pc[b]
<1>1. Running(b) /\ Due(b) /\ Advance(b) /\ world' = After(world, l) /\ (fresh' => fresh)
  BY DEF Concludes, Due
<1>2. /\ b \in Branches /\ i \in Nat \ {0} /\ l = Leaves(b)[i] /\ Fits(l)
  BY <1>1, AtLeaf DEF LeafOf
<1>3. /\ tree' = tree /\ stage' = stage /\ Branches' = Branches /\ (Cycling <=> Cycling')
      /\ \A c : Leaves(c)' = Leaves(c)
      /\ \A c \in Branches \ {b} : pc'[c] = pc[c]
      /\ \/ pc'[b] = i + 1
         \/ Cycling /\ i = Len(Leaves(b)) /\ pc'[b] = 1
  BY <1>1, Proceeds
<1>4. Len(tree) \in {2, 3} BY TreeKnown DEF WellFormed
<1>5. SUFFICES ASSUME NEW r \in Robots, NEW o \in Objects, at(o)' = r
               PROVE  /\ Takes(tree, r, o)
                      /\ fresh /\ stage = 1 =>
                           \A c \in Branches : ~Freed(Leaves(c), pc'[c], r, o)
                      /\ fresh /\ stage # 1 =>
                           Cycling /\ \E c \in Branches : Held(Leaves(c), pc'[c], r, o)
  BY <1>1, <1>3 DEF HeldIsTaken
<1>6. CASE l.do = "attach" /\ l.of = o /\ at(o) = InWorld
  <2>1. l.robot = r BY <1>1, <1>2, <1>5, <1>6, Effects DEF at, TypeOK, AtAfter
  <2>2. Cycling /\ Takes(tree, r, o) BY <1>1, <1>6, <2>1, AttachTakes
  <2>3. l = Attach(r, o) BY <1>2, <1>6, <2>1, Kinds
  <2>4. Held(Leaves(b), i + 1, r, o) BY <1>2, <2>3, SinceStep DEF Held
  <2>5. pc'[b] = i + 1 BY <1>2, <1>3, <2>2, <2>4, GivenBack
  <2>6. stage # 1 BY <1>4, <2>2 DEF Cycling
  <2>7. QED BY <1>2, <2>2, <2>4, <2>5, <2>6
<1>7. CASE ~(l.do = "attach" /\ l.of = o /\ at(o) = InWorld)
  <2>0. at(o)' = AtAfter(world, l, o)
    <3>1. world \in Worlds BY DEF TypeOK
    <3>2. After(world, l).at[o] = AtAfter(world, l, o) BY <1>2, <3>1, Effects
    <3>3. QED BY <1>1, <3>2 DEF at
  <2>1. at(o) = r BY <1>5, <1>7, <2>0 DEF Robots, at, AtAfter
  <2>2. l # Detach(r, o)
    <3>1. SUFFICES ASSUME l = Detach(r, o) PROVE FALSE OBVIOUS
    <3>2. l.do = "detach" /\ l.of = o /\ l.robot = r BY <3>1, Fields
    <3>3. QED BY <1>5, <2>0, <2>1, <3>2 DEF Robots, at, AtAfter
  <2>3. Takes(tree, r, o) BY <2>1 DEF HeldIsTaken
  <2>4. ASSUME fresh, stage = 1, NEW c \in Branches PROVE ~Freed(Leaves(c), pc'[c], r, o)
    <3>1. ~Freed(Leaves(c), pc[c], r, o) BY <2>1, <2>4 DEF HeldIsTaken
    <3>2. CASE c # b BY <1>3, <3>1, <3>2
    <3>3. CASE c = b
      <4>1. pc'[b] = i + 1 BY <1>3, <1>4, <2>4 DEF Cycling
      <4>2. QED BY <1>2, <2>2, <3>1, <3>3, <4>1, SinceStep DEF Freed
    <3>4. QED BY <3>2, <3>3
  <2>5. ASSUME fresh, stage # 1
        PROVE  Cycling /\ \E c \in Branches : Held(Leaves(c), pc'[c], r, o)
    <3>1. Cycling BY <2>1, <2>5 DEF HeldIsTaken
    <3>2. PICK c \in Branches : Held(Leaves(c), pc[c], r, o) BY <2>1, <2>5 DEF HeldIsTaken
    <3>3. CASE c # b BY <1>3, <3>1, <3>2, <3>3
    <3>4. CASE c = b
      <4>1. Held(Leaves(b), i + 1, r, o) BY <1>2, <2>2, <3>2, <3>4, SinceStep DEF Held
      <4>2. pc'[b] = i + 1 BY <1>2, <1>3, <2>3, <3>1, <4>1, GivenBack
      <4>3. QED BY <1>2, <3>1, <4>1, <4>2
    <3>5. QED BY <3>3, <3>4
  <2>6. QED BY <2>3, <2>4, <2>5
<1>8. QED BY <1>6, <1>7

\* What jaws are closed.
LEMMA ConcludesShut ==
  ASSUME TypeOK, InPlace, ShutIsClosed, NEW b, Concludes(b)
  PROVE  ShutIsClosed'
<1> DEFINE l == LeafOf(b)
           i == pc[b]
<1>1. Running(b) /\ Due(b) /\ Advance(b) /\ world' = After(world, l) /\ (fresh' => fresh)
  BY DEF Concludes, Due
<1>2. /\ b \in Branches /\ i \in Nat \ {0} /\ i \in 1..Len(Leaves(b)) /\ l = Leaves(b)[i] /\ Fits(l)
  BY <1>1, AtLeaf DEF LeafOf
<1>3. /\ tree' = tree /\ stage' = stage /\ Branches' = Branches /\ (Cycling <=> Cycling')
      /\ \A c : Leaves(c)' = Leaves(c)
      /\ \A c \in Branches \ {b} : pc'[c] = pc[c]
      /\ \/ pc'[b] = i + 1
         \/ Cycling /\ i = Len(Leaves(b)) /\ pc'[b] = 1
  BY <1>1, Proceeds
<1>4. SUFFICES ASSUME fresh, NEW r \in Robots, NEW c \in Branches, Shut(Leaves(c), pc'[c], r)
               PROVE  r \in world'.closed
  BY <1>1, <1>3 DEF ShutIsClosed
<1>5. /\ l.do # "grip" => world'.closed = world.closed
      /\ l.do = "grip" /\ l.arg = "closed" => world'.closed = world.closed \cup {l.robot}
      /\ l.do = "grip" /\ l.arg # "closed" => world'.closed = world.closed \ {l.robot}
  BY <1>1, <1>2, Effects DEF TypeOK
<1>6. CASE l = Grip(r, "closed")
  <2>1. l.do = "grip" /\ l.arg = "closed" /\ l.robot = r BY <1>6, Fields
  <2>2. QED BY <1>5, <2>1
<1>7. CASE l # Grip(r, "closed")
  <2>1. Shut(Leaves(c), pc[c], r) /\ (c = b => l # Grip(r, "open"))
    <3>1. CASE c # b BY <1>3, <1>4, <3>1
    <3>2. CASE c = b
      <4>1. pc'[b] = i + 1 BY <1>3, <1>4, <3>2, SinceStart DEF Shut
      <4>2. QED BY <1>2, <1>4, <1>7, <3>2, <4>1, ShutStep
    <3>3. QED BY <3>1, <3>2
  <2>2. r \in world.closed BY <1>4, <2>1 DEF ShutIsClosed
  <2>3. ~(l.do = "grip" /\ l.arg # "closed" /\ l.robot = r)
    <3>1. SUFFICES ASSUME l.do = "grip", l.arg # "closed", l.robot = r PROVE FALSE OBVIOUS
    <3>2. l = Grip(r, "open") BY <1>2, <3>1, Kinds
    <3>3. c # b BY <2>1, <3>2
    <3>4. PICK j \in 1..(pc[c] - 1) : Leaves(c)[j] = Grip(r, "closed") BY <2>1 DEF Shut, Since
    <3>5. Leaves(c)[j].robot = r BY <3>4, Fields
    <3>6. j \in 1..Len(Leaves(c)) BY <1>4, <3>4, BranchBound
    <3>7. QED BY <1>2, <3>1, <3>3, <3>5, <3>6, OneBranch
  <2>4. QED BY <1>5, <2>2, <2>3
<1>8. QED BY <1>6, <1>7

\* The objects of the scene.
LEMMA ConcludesScene ==
  ASSUME TypeOK, InPlace, HeldIsTaken, SceneIsPrepared, NEW b, Concludes(b)
  PROVE  SceneIsPrepared'
<1> DEFINE l == LeafOf(b)
           i == pc[b]
<1>1. Running(b) /\ Due(b) /\ Advance(b) /\ world' = After(world, l) /\ (fresh' => fresh)
  BY DEF Concludes, Due
<1>2. /\ b \in Branches /\ i \in Nat \ {0} /\ i \in 1..Len(Leaves(b)) /\ l = Leaves(b)[i] /\ Fits(l)
  BY <1>1, AtLeaf DEF LeafOf
<1>3. /\ tree' = tree /\ stage' = stage /\ Branches' = Branches
      /\ \A c : Leaves(c)' = Leaves(c)
      /\ \A c \in Branches \ {b} : pc'[c] = pc[c]
      /\ pc'[b] = i + 1 \/ pc'[b] = 1
  BY <1>1, Proceeds
<1>4. SUFFICES ASSUME fresh, NEW c \in Branches, NEW o \in Objects, Sole(tree, stage, c, o)
               PROVE  /\ Present(Leaves(c), pc'[c], o) => world'.at[o] # Gone
                      /\ Absent(Leaves(c), pc'[c], o) /\ (\A r \in Robots : ~Takes(tree, r, o))
                         => world'.at[o] = Gone
  BY <1>1, <1>3 DEF SceneIsPrepared, There, at
<1>5. world'.at[o] = AtAfter(world, l, o) BY <1>1, <1>2, Effects DEF TypeOK
<1>6. c # b => l \notin Adding(o) /\ l # Remove(o)
  BY <1>2, <1>4 DEF Sole, Branches, Leaves
<1>7. ASSUME Present(Leaves(c), pc'[c], o) PROVE world'.at[o] # Gone
  <2>1. CASE l \in Adding(o)
    <3>1. l.do \in {"add", "ensure"} /\ l.of = o BY <2>1, Fields DEF Adding
    <3>2. QED BY <1>5, <3>1 DEF AtAfter
  <2>2. CASE l \notin Adding(o)
    <3>1. Present(Leaves(c), pc[c], o) /\ l # Remove(o)
      <4>1. CASE c # b BY <1>3, <1>6, <1>7, <4>1
      <4>2. CASE c = b
        <5>1. pc'[b] = i + 1 BY <1>3, <1>7, <4>2, SinceStart DEF Present
        <5>2. QED BY <1>2, <1>7, <2>2, <4>2, <5>1, SinceStep DEF Present
      <4>3. QED BY <4>1, <4>2
    <3>2. world.at[o] # Gone BY <1>4, <3>1 DEF SceneIsPrepared, There, at
    <3>3. ~(l.do = "remove" /\ l.of = o) BY <1>2, <3>1, Kinds
    <3>4. l.do = "attach" => l.robot # Gone BY <1>2, Kinds DEF Robots
    <3>5. QED BY <1>5, <3>2, <3>3, <3>4 DEF AtAfter
  <2>3. QED BY <2>1, <2>2
<1>8. ASSUME Absent(Leaves(c), pc'[c], o), \A r \in Robots : ~Takes(tree, r, o)
      PROVE  world'.at[o] = Gone
  <2>1. world.at[o] \in {Gone, InWorld}
    <3>1. world.at[o] \notin Robots BY <1>8 DEF HeldIsTaken, at
    <3>2. QED BY <3>1 DEF TypeOK, Worlds
  <2>2. CASE l = Remove(o)
    <3>1. l.do = "remove" /\ l.of = o BY <2>2, Fields
    <3>2. QED BY <1>5, <2>1, <3>1 DEF AtAfter
  <2>3. CASE l # Remove(o)
    <3>1. Absent(Leaves(c), pc[c], o) /\ l \notin Adding(o)
      <4>1. CASE c # b BY <1>3, <1>6, <1>8, <4>1
      <4>2. CASE c = b
        <5>1. pc'[b] = i + 1 BY <1>3, <1>8, <4>2, SinceStart DEF Absent
        <5>2. QED BY <1>2, <1>8, <2>3, <4>2, <5>1, AbsentStep
      <4>3. QED BY <4>1, <4>2
    <3>2. world.at[o] = Gone BY <1>4, <1>8, <3>1 DEF SceneIsPrepared, at
    <3>3. ~(l.do \in {"add", "ensure"} /\ l.of = o) BY <1>2, <3>1, Kinds DEF Adding
    <3>4. l.do = "detach" => l.robot # Gone BY <1>2, Kinds DEF Robots
    <3>5. QED BY <1>5, <3>2, <3>3, <3>4 DEF AtAfter
  <2>4. QED BY <2>2, <2>3
<1>9. QED BY <1>7, <1>8

-----------------------------------------------------------------------------
(* The end of a stage, and starting over.                                  *)

\* Whatever the halted leaves have done, robots hold only what they take.
LEMMA LeftBehindHeld ==
  ASSUME TypeOK, HeldIsTaken, NEW w \in LeftBehind
  PROVE  w \in Worlds /\ \A r \in Robots, o \in Objects : w.at[o] = r => Takes(tree, r, o)
<1> DEFINE Fine(v) == v \in Worlds /\ \A r \in Robots, o \in Objects : v.at[o] = r => Takes(tree, r, o)
           Halted == {LeafOf(b) : b \in {c \in Branches : Running(c)}}
           One == {world} \cup {After(world, l) : l \in Halted}
<1>1. Fine(world) BY DEF HeldIsTaken, at, TypeOK
<1>2. ASSUME NEW v, Fine(v), NEW l \in Halted PROVE Fine(After(v, l))
  <2>1. PICK b : Running(b) /\ l = LeafOf(b) OBVIOUS
  <2>2. Fits(l) BY <2>1, AtLeaf
  <2>3. v \in Worlds BY <1>2
  <2>4. After(v, l) \in Worlds /\ \A o \in Objects : After(v, l).at[o] = AtAfter(v, l, o)
    BY <2>2, <2>3, Effects
  <2>5. ASSUME NEW r \in Robots, NEW o \in Objects, AtAfter(v, l, o) = r PROVE Takes(tree, r, o)
    <3>1. CASE l.do = "attach" /\ l.of = o /\ v.at[o] = InWorld
      BY <2>1, <2>5, <3>1, AttachTakes DEF AtAfter
    <3>2. CASE ~(l.do = "attach" /\ l.of = o /\ v.at[o] = InWorld)
      <4>1. v.at[o] = r BY <2>5, <3>2 DEF AtAfter, Robots
      <4>2. QED BY <1>2, <4>1
    <3>3. QED BY <3>1, <3>2
  <2>6. QED BY <2>4, <2>5
<1>3. \A v \in One : Fine(v) BY <1>1, <1>2
<1>4. w \in One \cup {After(v, l) : v \in One, l \in Halted} BY DEF LeftBehind
<1>5. Fine(w)
  <2> HIDE DEF Fine, Halted, One
  <2>1. QED BY <1>2, <1>3, <1>4
<1>6. QED BY <1>5

\* Starting over.
LEMMA RestartInv ==
  ASSUME TypeOK, HeldIsTaken, Restart, world' \in LeftBehind, faults' \in 0..MaxFaults
  PROVE  AppInv'
<1>1. /\ world' \in Worlds
      /\ \A r \in Robots, o \in Objects : world'.at[o] = r => Takes(tree, r, o)
  BY LeftBehindHeld
<1>2. /\ client' = client /\ stage' = 1 /\ tree' = tree /\ fresh' = TRUE /\ misled' = FALSE
      /\ pc' = <<1, 1>> /\ \A c \in Robots : pc'[c] = 1
  BY DEF Restart, tree, Robots
<1>3. Len(tree) \in {2, 3} /\ Len(tree[1]) \in {1, 2}
  BY TreeKnown DEF WellFormed
<1>4. Branches' \subseteq Robots /\ ~Cycling'
  <2>1. Branches' = 1..Len(tree[1]) BY <1>2 DEF Branches
  <2>2. Cycling' <=> 1 = Len(tree) BY <1>2 DEF Cycling
  <2>3. Branches' \subseteq Robots BY <1>3, <2>1, UpToTwo DEF Robots
  <2>4. ~Cycling' BY <1>3, <2>2
  <2>5. QED BY <2>3, <2>4
<1>5. TypeOK'
  <2>1. pc' \in [Robots -> Nat \ {0}] BY <1>2 DEF Robots
  <2>2. fresh' \in BOOLEAN /\ misled' \in BOOLEAN BY <1>2
  <2>3. client' \in DOMAIN TreeOf /\ stage' \in 1..Len(tree') BY <1>2, <1>3 DEF TypeOK
  <2>4. QED BY <1>1, <2>1, <2>2, <2>3 DEF TypeOK
<1>6. InPlace'
  <2>1. \A c \in Branches' : Len(Leaves(c)') \in Nat \ {0}
    <3>1. Branches' = 1..Len(tree[1]) /\ \A c : Leaves(c)' = tree[1][c]
      BY <1>2 DEF Branches, Leaves
    <3>2. 1 \in 1..Len(tree) BY <1>3
    <3>3. \A c \in 1..Len(tree[1]) : Len(tree[1][c]) \in Nat \ {0}
      BY <3>2, TreeKnown DEF WellFormed
    <3>4. QED BY <3>1, <3>3
  <2>2. QED BY <1>2, <1>4, <2>1 DEF InPlace
<1>7. HeldIsTaken'
  BY <1>1, <1>2, <1>4, SinceStart DEF HeldIsTaken, at, Freed
<1>8. ShutIsClosed' BY <1>2, <1>4, SinceStart DEF ShutIsClosed, Shut
<1>9. SceneIsPrepared' BY <1>2, <1>4, SinceStart DEF SceneIsPrepared, Present, Absent
<1>10. CameraInv' /\ HandoverInv' BY <1>2 DEF CameraInv, HandoverInv, Robots
<1>11. QED BY <1>5, <1>6, <1>7, <1>8, <1>9, <1>10 DEF AppInv

\* A stage ends before the cycle, behind the last leaf of each branch.
LEMMA Ended ==
  ASSUME TypeOK, InPlace, EndStage
  PROVE  /\ ~Cycling /\ stage + 1 \in 1..Len(tree)
         /\ tree' = tree /\ stage' = stage + 1 /\ \A c \in Robots : pc'[c] = 1
         /\ Branches' \subseteq Robots
         /\ \A c \in Branches : pc[c] = Len(Leaves(c)) + 1
<1>1. ASSUME NEW c \in Branches PROVE pc[c] = Len(Leaves(c)) + 1
  <2>1. pc[c] \in Nat \ {0} /\ Len(Leaves(c)) \in Nat /\ pc[c] <= Len(Leaves(c)) + 1
    BY BranchBound DEF InPlace, TypeOK
  <2>2. ~(pc[c] <= Len(Leaves(c))) BY DEF EndStage, Running
  <2>3. QED BY <2>1, <2>2
<1>2. Len(tree) \in {2, 3} /\ stage \in 1..Len(tree) BY TreeKnown DEF WellFormed
<1>3. 1 \in Branches
  <2>1. Len(tree[stage]) \in {1, 2} BY TreeKnown DEF WellFormed
  <2>2. QED BY <2>1 DEF Branches
<1>4. ~Cycling BY <1>3 DEF InPlace, EndStage, Running
<1>5. stage + 1 \in 1..Len(tree) BY <1>2, <1>4 DEF Cycling
<1>6. tree' = tree /\ stage' = stage + 1 /\ \A c \in Robots : pc'[c] = 1
  BY DEF EndStage, tree, Robots
<1>7. Branches' \subseteq Robots
  <2>1. Branches' = 1..Len(tree[stage + 1]) BY <1>6 DEF Branches
  <2>2. Len(tree[stage + 1]) \in {1, 2} BY <1>5, TreeKnown DEF WellFormed
  <2>3. QED BY <2>1, <2>2, UpToTwo DEF Robots
<1>8. QED BY <1>1, <1>4, <1>5, <1>6, <1>7

\* The end of a stage, but for the clients whose branches hand over.
LEMMA EndStageInv ==
  ASSUME TypeOK, InPlace, HeldIsTaken, EndStage
  PROVE  TypeOK' /\ InPlace' /\ HeldIsTaken' /\ ShutIsClosed' /\ SceneIsPrepared'
<1>1. /\ ~Cycling /\ stage + 1 \in 1..Len(tree)
      /\ tree' = tree /\ stage' = stage + 1 /\ \A c \in Robots : pc'[c] = 1
      /\ Branches' \subseteq Robots
      /\ \A c \in Branches : pc[c] = Len(Leaves(c)) + 1
  BY Ended
<1>2. /\ client' = client /\ pc' = <<1, 1>> /\ world' = world /\ faults' = faults
      /\ fresh' = fresh /\ misled' = misled
  BY DEF EndStage
<1>3. TypeOK'
  <2>1. pc' \in [Robots -> Nat \ {0}] BY <1>2 DEF Robots
  <2>2. QED BY <1>1, <1>2, <2>1 DEF TypeOK
<1>4. InPlace'
  <2>1. \A c \in Branches' : Len(Leaves(c)') \in Nat \ {0}
    BY <1>1, TreeKnown DEF WellFormed, Branches, Leaves
  <2>2. QED BY <1>1, <2>1 DEF InPlace
<1>5. HeldIsTaken'
  <2>1. SUFFICES ASSUME NEW r \in Robots, NEW o \in Objects, at(o) = r
                 PROVE  Takes(tree, r, o) /\ ~fresh
    BY <1>1, <1>2 DEF HeldIsTaken, at
  <2>2. Takes(tree, r, o) BY <2>1 DEF HeldIsTaken
  <2>3. ASSUME fresh PROVE FALSE
    <3>1. stage = 1 /\ \A b \in Branches : ~Freed(Leaves(b), Len(Leaves(b)) + 1, r, o)
      BY <1>1, <2>1, <2>3 DEF HeldIsTaken
    <3>2. \E b \in 1..Len(tree[1]) : Freed(tree[1][b], Len(tree[1][b]) + 1, r, o)
      BY <2>2, TreeKnown DEF GivesBack
    <3>3. QED BY <3>1, <3>2 DEF Branches, Leaves
  <2>4. QED BY <2>2, <2>3
<1>6. ShutIsClosed' BY <1>1, SinceStart DEF ShutIsClosed, Shut
<1>7. SceneIsPrepared' BY <1>1, SinceStart DEF SceneIsPrepared, Present, Absent
<1>8. QED BY <1>3, <1>4, <1>5, <1>6, <1>7

\* A failed detach or removal is passed over, and nothing is promised any more.
LEMMA PassedOver ==
  ASSUME AppInv, NEW b, Due(b), Advance(b), fresh' = FALSE, UNCHANGED <<world, misled>>,
         faults' \in 0..MaxFaults
  PROVE  AppInv'
<1>1. /\ client' = client /\ tree' = tree /\ stage' = stage
      /\ pc' \in [Robots -> Nat \ {0}] /\ InPlace'
  BY Proceeds DEF AppInv, Advance
<1>2. TypeOK' BY <1>1 DEF AppInv, TypeOK
<1>3. HeldIsTaken' BY <1>1 DEF AppInv, HeldIsTaken, at
<1>4. QED
  BY <1>1, <1>2, <1>3 DEF AppInv, ShutIsClosed, SceneIsPrepared, CameraInv, HandoverInv

\* A leaf that concludes keeps every variable in its type.
LEMMA ConcludesTypes ==
  ASSUME TypeOK, InPlace, NEW b, Concludes(b) PROVE TypeOK' /\ InPlace'
<1>1. Running(b) /\ Due(b) /\ Advance(b) /\ world' = After(world, LeafOf(b)) BY DEF Concludes, Due
<1>2. /\ client' = client /\ tree' = tree /\ stage' = stage
      /\ pc' \in [Robots -> Nat \ {0}] /\ InPlace'
  BY <1>1, Proceeds DEF Advance
<1>3. world' \in Worlds BY <1>1, AtLeaf, Effects DEF TypeOK
<1>4. faults' = faults /\ fresh' \in BOOLEAN /\ misled' \in BOOLEAN BY DEF Concludes, TypeOK
<1>5. QED BY <1>2, <1>3, <1>4 DEF TypeOK

-----------------------------------------------------------------------------
(* The leaves of the clients whose branches hand over.                     *)

\* The giver's leaves, but for its keys and waits.
LEMMA GiverLeaves ==
  /\ Len(Giver) = 27
  /\ Giver[1] = Move(1, "ready") /\ Giver[3] = Operator /\ Giver[4] = Ensure("tube")
  /\ Giver[5] = Remove("slider") /\ Giver[6] = Add("slider")
  /\ Giver[7] = Remove("endplate") /\ Giver[8] = Add("endplate")
  /\ Giver[9] = Pose("tube") /\ Giver[10] = Pose("tube") /\ Giver[11] = Move(1, "pick")
  /\ Giver[12] = Grip(1, "closed") /\ Giver[13] = Sensor(1) /\ Giver[14] = Attach(1, "tube")
  /\ Giver[15] = Move(1, "wait") /\ Giver[18] = Move(1, "drop")
  /\ Giver[21] = Grip(1, "open") /\ Giver[22] = Detach(1, "tube") /\ Giver[23] = Sensor(1)
  /\ Giver[24] = Pose("tube") /\ Giver[25] = Remove("tube")
  /\ Giver[26] = Add("renamed") /\ Giver[27] = Exists("renamed")
BY DEF Giver, ResetMovable, Poses, CloseBySignal, OpenAndWait, Rename

\* Its keys and waits.
LEMMA GiverFlags ==
  /\ Giver[2].do = "set" /\ Giver[2].of = "robot1In" /\ ~Giver[2].arg
  /\ Giver[16].do = "waitKey" /\ Giver[16].of = "robot2In" /\ ~Giver[16].arg
  /\ Giver[17].do = "waitObject" /\ Giver[17].of = "renamed" /\ ~Giver[17].arg
  /\ Giver[19].do = "set" /\ Giver[19].of = "robot1In" /\ Giver[19].arg
  /\ Giver[20].do = "waitKey" /\ Giver[20].of = "robot2In" /\ Giver[20].arg
<1> USE DEF Giver, ResetMovable, Poses, CloseBySignal, OpenAndWait, Rename
<1>1. /\ Giver[2].do = "set" /\ Giver[2].of = "robot1In" /\ ~Giver[2].arg
      /\ Giver[19].do = "set" /\ Giver[19].of = "robot1In" /\ Giver[19].arg
  BY DEF Set, Leaf
<1>2. /\ Giver[16].do = "waitKey" /\ Giver[16].of = "robot2In" /\ ~Giver[16].arg
      /\ Giver[20].do = "waitKey" /\ Giver[20].of = "robot2In" /\ Giver[20].arg
  BY DEF WaitKey, Leaf
<1>3. Giver[17].do = "waitObject" /\ Giver[17].of = "renamed" /\ ~Giver[17].arg
  BY DEF WaitObject, Leaf
<1>4. QED BY <1>1, <1>2, <1>3

\* The same of the taker.
LEMMA TakerLeaves ==
  /\ Len(Taker) = 16
  /\ Taker[1] = Move(2, "ready") /\ Taker[3] = WaitKey("robot1In", TRUE)
  /\ Taker[4] = Pose("tube") /\ Taker[5] = Pose("tube")
  /\ Taker[6] = Pose("endplate") /\ Taker[7] = Pose("endplate") /\ Taker[8] = Move(2, "insert")
  /\ Taker[12] = Attach(2, "renamed") /\ Taker[13] = Move(2, "load") /\ Taker[14] = Move(2, "exit")
  /\ Taker[15] = Detach(2, "renamed") /\ Taker[16] = Remove("renamed")
BY DEF Taker, Poses

\* Its keys and waits.
LEMMA TakerFlags ==
  /\ Taker[2].do = "set" /\ Taker[2].of = "robot2In" /\ ~Taker[2].arg
  /\ Taker[3].do = "waitKey" /\ Taker[3].of = "robot1In" /\ Taker[3].arg
  /\ Taker[9].do = "set" /\ Taker[9].of = "robot2In" /\ Taker[9].arg
  /\ Taker[10].do = "waitKey" /\ Taker[10].of = "robot1In" /\ ~Taker[10].arg
  /\ Taker[11].do = "waitObject" /\ Taker[11].of = "renamed" /\ Taker[11].arg
<1> USE DEF Taker, Poses
<1>1. /\ Taker[2].do = "set" /\ Taker[2].of = "robot2In" /\ ~Taker[2].arg
      /\ Taker[9].do = "set" /\ Taker[9].of = "robot2In" /\ Taker[9].arg
  BY DEF Set, Leaf
<1>2. /\ Taker[3].do = "waitKey" /\ Taker[3].of = "robot1In" /\ Taker[3].arg
      /\ Taker[10].do = "waitKey" /\ Taker[10].of = "robot1In" /\ ~Taker[10].arg
  BY DEF WaitKey, Leaf
<1>3. Taker[11].do = "waitObject" /\ Taker[11].of = "renamed" /\ Taker[11].arg
  BY DEF WaitObject, Leaf
<1>4. QED BY <1>1, <1>2, <1>3

\* The tree of the two.
LEMMA DualTree ==
  ASSUME client = "app_dual"
  PROVE  /\ Len(tree) = 3 /\ tree[3] = <<Giver, Taker>>
         /\ Len(tree[2]) = 2
         /\ Len(tree[2][1]) = 2 /\ tree[2][1][1] = Check(1) /\ tree[2][1][2] = Move(1, "rest")
         /\ Len(tree[2][2]) = 2 /\ tree[2][2][1] = Check(2) /\ tree[2][2][2] = Move(2, "rest")
         /\ Len(tree[1]) = 1 /\ Len(tree[1][1]) = 11
<1>1. tree = BtClientAppDual BY DEF tree, TreeOf
<1>2. tree[3] = <<Giver, Taker>> /\ Len(tree) = 3 BY <1>1 DEF BtClientAppDual
<1>3. QED BY <1>1, <1>2 DEF BtClientAppDual, ResetMovable, OpenAndWait

\* The start-up of the two, and the stage in which they go to rest.
LEMMA DualStartUp ==
  ASSUME client = "app_dual"
  PROVE  /\ tree[1][1][1] = Ensure("machine")
         /\ tree[1][1][2] = Remove("slider") /\ tree[1][1][3] = Add("slider")
         /\ tree[1][1][4] = Remove("endplate") /\ tree[1][1][5] = Add("endplate")
         /\ tree[1][1][6] = Grip(1, "open") /\ tree[1][1][7] = Detach(1, "tube")
         /\ tree[1][1][8] = Sensor(1) /\ tree[1][1][9] = Remove("tube")
         /\ tree[1][1][10] = Detach(2, "renamed") /\ tree[1][1][11] = Remove("renamed")
<1>1. tree = BtClientAppDual BY DEF tree, TreeOf
<1>2. QED BY <1>1 DEF BtClientAppDual, ResetMovable, OpenAndWait

\* The camera's client.
LEMMA CameraTree ==
  ASSUME client = "foundationpose"
  PROVE  /\ Len(tree) = 2 /\ tree[2] = <<CameraCycle, PickerCycle>>
         /\ Len(tree[1]) = 1 /\ Len(tree[1][1]) = 9
         /\ tree[1][1][1] = Ensure("ground") /\ tree[1][1][2] = Ensure("wall")
         /\ tree[1][1][3] = Operator /\ tree[1][1][4] = Grip(1, "open")
         /\ tree[1][1][5] = Detach(1, "part") /\ tree[1][1][6] = Remove("part")
         /\ tree[1][1][7].do = "set" /\ tree[1][1][7].of = "created" /\ ~tree[1][1][7].arg
         /\ tree[1][1][8].do = "set" /\ tree[1][1][8].of = "valid"
         /\ tree[1][1][9] = Move(1, "rest")
<1>1. tree = BtClientFoundationPose BY DEF tree, TreeOf
<1>2. tree[2] = <<CameraCycle, PickerCycle>> /\ Len(tree) = 2 BY <1>1 DEF BtClientFoundationPose
<1> USE DEF BtClientFoundationPose, Fixed, ResetGraspable, Open
<1>3. Len(tree[1]) = 1 /\ Len(tree[1][1]) = 9 BY <1>1
<1>4. /\ tree[1][1][1] = Ensure("ground") /\ tree[1][1][2] = Ensure("wall")
      /\ tree[1][1][3] = Operator /\ tree[1][1][4] = Grip(1, "open")
      /\ tree[1][1][5] = Detach(1, "part") /\ tree[1][1][6] = Remove("part")
      /\ tree[1][1][9] = Move(1, "rest")
  BY <1>1
<1>5. /\ tree[1][1][7].do = "set" /\ tree[1][1][7].of = "created" /\ ~tree[1][1][7].arg
      /\ tree[1][1][8].do = "set" /\ tree[1][1][8].of = "valid"
  BY <1>1 DEF Set, Leaf
<1>6. QED BY <1>2, <1>3, <1>4, <1>5

\* The camera's leaves.
LEMMA CameraLeaves ==
  /\ Len(CameraCycle) = 6
  /\ CameraCycle[1].do = "waitKey" /\ CameraCycle[2] = Detect
  /\ CameraCycle[3].do = "set" /\ CameraCycle[3].of = "valid"
  /\ CameraCycle[4].do = "waitKey" /\ CameraCycle[4].of = "created" /\ ~CameraCycle[4].arg
  /\ CameraCycle[5] = Add("part")
  /\ CameraCycle[6].do = "set" /\ CameraCycle[6].of = "created" /\ CameraCycle[6].arg
<1> USE DEF CameraCycle
<1>1. Len(CameraCycle) = 6 /\ CameraCycle[2] = Detect /\ CameraCycle[5] = Add("part") OBVIOUS
<1>2. /\ CameraCycle[1].do = "waitKey"
      /\ CameraCycle[4].do = "waitKey" /\ CameraCycle[4].of = "created" /\ ~CameraCycle[4].arg
  BY DEF WaitKey, Leaf
<1>3. /\ CameraCycle[3].do = "set" /\ CameraCycle[3].of = "valid"
      /\ CameraCycle[6].do = "set" /\ CameraCycle[6].of = "created" /\ CameraCycle[6].arg
  BY DEF Set, Leaf
<1>4. QED BY <1>1, <1>2, <1>3

\* The robot's leaves.
LEMMA PickerLeaves ==
  /\ Len(PickerCycle) = 11
  /\ PickerCycle[1] = Grip(1, "open") /\ PickerCycle[2].do = "waitKey"
  /\ PickerCycle[3] = Move(1, "pick") /\ PickerCycle[4] = Grip(1, "closed")
  /\ PickerCycle[5] = Attach(1, "part")
  /\ PickerCycle[6].do = "set" /\ PickerCycle[6].of = "valid"
  /\ PickerCycle[7] = Move(1, "drop") /\ PickerCycle[8] = Grip(1, "open")
  /\ PickerCycle[9] = Detach(1, "part") /\ PickerCycle[10] = Remove("part")
  /\ PickerCycle[11].do = "set" /\ PickerCycle[11].of = "created" /\ ~PickerCycle[11].arg
<1> USE DEF PickerCycle, CloseByAction, Open
<1>1. /\ Len(PickerCycle) = 11
      /\ PickerCycle[1] = Grip(1, "open")
      /\ PickerCycle[3] = Move(1, "pick") /\ PickerCycle[4] = Grip(1, "closed")
      /\ PickerCycle[5] = Attach(1, "part")
      /\ PickerCycle[7] = Move(1, "drop") /\ PickerCycle[8] = Grip(1, "open")
      /\ PickerCycle[9] = Detach(1, "part") /\ PickerCycle[10] = Remove("part")
  OBVIOUS
<1>2. PickerCycle[2].do = "waitKey" BY DEF WaitKey, Leaf
<1>3. /\ PickerCycle[6].do = "set" /\ PickerCycle[6].of = "valid"
      /\ PickerCycle[11].do = "set" /\ PickerCycle[11].of = "created" /\ ~PickerCycle[11].arg
  BY DEF Set, Leaf
<1>4. QED BY <1>1, <1>2, <1>3

-----------------------------------------------------------------------------
(* The handover.                                                           *)

\* A move.
LEMMA MoveStep ==
  ASSUME TypeOK, NEW b, Concludes(b), NEW q \in Robots, NEW to \in Places, LeafOf(b) = Move(q, to)
  PROVE  /\ world'.place[q] = to
         /\ \A r \in Robots : r # q => world'.place[r] = world.place[r]
         /\ \A k \in Keys : world'.keys[k] = world.keys[k]
         /\ \A o \in Objects : world'.at[o] = world.at[o]
<1>1. Running(b) /\ world' = After(world, LeafOf(b)) BY DEF Concludes, Due
<1>2. Fits(LeafOf(b)) /\ world \in Worlds BY <1>1, AtLeaf DEF TypeOK
<1>3. LeafOf(b).do = "move" /\ LeafOf(b).robot = q /\ LeafOf(b).of = "" BY MoveFields
<1>4. LeafOf(b).arg = to BY MoveTarget
<1>5. world'.place[q] = LeafOf(b).arg BY <1>1, <1>2, <1>3, Effects
<1>6. ASSUME NEW r \in Robots, r # q PROVE world'.place[r] = world.place[r]
  <2>1. r # LeafOf(b).robot BY <1>3, <1>6
  <2>2. QED BY <1>1, <1>2, <2>1, Effects
<1>7. LeafOf(b).do # "set" BY <1>3
<1>8. \A k \in Keys : world'.keys[k] = world.keys[k] BY <1>1, <1>2, <1>7, Effects
<1>9. \A o \in Objects : world'.at[o] = AtAfter(world, LeafOf(b), o) BY <1>1, <1>2, Effects
<1>10. QED BY <1>3, <1>4, <1>5, <1>6, <1>8, <1>9 DEF AtAfter

\* A key.
LEMMA SetStep ==
  ASSUME TypeOK, NEW b, Concludes(b), LeafOf(b).do = "set"
  PROVE  /\ \A r \in Robots : world'.place[r] = world.place[r]
         /\ LeafOf(b).of \in Keys => world'.keys[LeafOf(b).of] = LeafOf(b).arg
         /\ \A k \in Keys : k # LeafOf(b).of => world'.keys[k] = world.keys[k]
         /\ \A o \in Objects : world'.at[o] = world.at[o]
<1>1. Running(b) /\ world' = After(world, LeafOf(b)) BY DEF Concludes, Due
<1>2. Fits(LeafOf(b)) /\ world \in Worlds BY <1>1, AtLeaf DEF TypeOK
<1>3. \A o \in Objects : world'.at[o] = AtAfter(world, LeafOf(b), o) BY <1>1, <1>2, Effects
<1>4. \A r \in Robots : world'.place[r] = world.place[r] BY <1>1, <1>2, Effects
<1>5. \A k \in Keys :
        world'.keys[k] = IF k = LeafOf(b).of THEN LeafOf(b).arg ELSE world.keys[k]
  BY <1>1, <1>2, Effects
<1>6. QED BY <1>3, <1>4, <1>5 DEF AtAfter

-----------------------------------------------------------------------------
(* The camera's client.                                                    *)

\* Only the leaf that sets a key changes it.
LEMMA KeyStays ==
  ASSUME TypeOK, NEW b, Concludes(b), NEW k \in Keys, ~(LeafOf(b).do = "set" /\ LeafOf(b).of = k)
  PROVE  key(k)' = key(k)
<1>1. Running(b) /\ world' = After(world, LeafOf(b)) BY DEF Concludes, Due
<1>2. Fits(LeafOf(b)) /\ world \in Worlds BY <1>1, AtLeaf DEF TypeOK
<1>3. world'.keys[k] = IF LeafOf(b).do = "set" /\ k = LeafOf(b).of THEN LeafOf(b).arg ELSE world.keys[k]
  BY <1>1, <1>2, Effects
<1>4. QED BY <1>3 DEF key

\* Only its removal takes an object out of the scene.
LEMMA ThereStays ==
  ASSUME TypeOK, NEW b, Concludes(b), NEW o \in Objects, There(o),
         ~(LeafOf(b).do = "remove" /\ LeafOf(b).of = o)
  PROVE  There(o)'
<1>1. Running(b) /\ world' = After(world, LeafOf(b)) BY DEF Concludes, Due
<1>2. Fits(LeafOf(b)) /\ world \in Worlds BY <1>1, AtLeaf DEF TypeOK
<1>3. world'.at[o] = AtAfter(world, LeafOf(b), o) BY <1>1, <1>2, Effects
<1>4. LeafOf(b).do = "attach" => LeafOf(b).robot # Gone BY <1>2, Kinds DEF Robots
<1>5. QED BY <1>3, <1>4 DEF AtAfter, There, at

\* Its leaves concern the part and what is announced of it in a few places only.
LEMMA CameraQuiet ==
  /\ \A i \in 1..5 : ~(CameraCycle[i].do = "set" /\ CameraCycle[i].of = "created")
  /\ \A i \in 1..6 : CameraCycle[i].do # "remove"
<1>1. CameraCycle[2] = Detect /\ CameraCycle[5] = Add("part") BY CameraLeaves
<1>2. CameraCycle[2].do = "detect" /\ CameraCycle[5].do = "add" BY <1>1, DetectDoes, AddDoes
<1>3. /\ CameraCycle[1].do = "waitKey" /\ CameraCycle[4].do = "waitKey"
      /\ CameraCycle[3].do = "set" /\ CameraCycle[3].of = "valid" /\ CameraCycle[6].do = "set"
  BY CameraLeaves
<1>4. QED BY <1>2, <1>3

\* The same of the robot.
LEMMA PickerQuiet ==
  /\ \A i \in 1..10 : ~(PickerCycle[i].do = "set" /\ PickerCycle[i].of = "created")
  /\ \A i \in 1..11 : i # 10 => PickerCycle[i].do # "remove"
<1>1. /\ PickerCycle[1] = Grip(1, "open") /\ PickerCycle[3] = Move(1, "pick")
      /\ PickerCycle[4] = Grip(1, "closed") /\ PickerCycle[5] = Attach(1, "part")
      /\ PickerCycle[7] = Move(1, "drop") /\ PickerCycle[8] = Grip(1, "open")
      /\ PickerCycle[9] = Detach(1, "part") /\ PickerCycle[10] = Remove("part")
  BY PickerLeaves
<1>2. PickerCycle[1].do = "grip" /\ PickerCycle[4].do = "grip" /\ PickerCycle[8].do = "grip"
  BY <1>1, GripDoes
<1>3. PickerCycle[3].do = "move" /\ PickerCycle[7].do = "move" BY <1>1, MoveDoes
<1>4. PickerCycle[5].do = "attach" /\ PickerCycle[9].do = "detach" /\ PickerCycle[10].do = "remove"
  BY <1>1, AttachDoes, DetachDoes, RemoveDoes
<1>5. /\ PickerCycle[2].do = "waitKey" /\ PickerCycle[6].do = "set" /\ PickerCycle[6].of = "valid"
      /\ PickerCycle[11].do = "set"
  BY PickerLeaves
<1>6. QED BY <1>2, <1>3, <1>4, <1>5

\* What a leaf that concludes does to the part and its announcement, by name.
LEMMA CameraStep ==
  ASSUME TypeOK, InPlace, client = "foundationpose", stage = 2, NEW b, Concludes(b)
  PROVE  /\ Running(1) /\ Running(2)
         /\ b \in {1, 2} /\ Leaves(1) = CameraCycle /\ Leaves(2) = PickerCycle
         /\ pc[1] \in 1..6 /\ pc[2] \in 1..11
         /\ b = 1 => pc'[2] = pc[2] /\ (pc'[1] = pc[1] + 1 \/ (pc[1] = 6 /\ pc'[1] = 1))
         /\ b = 2 => pc'[1] = pc[1] /\ (pc'[2] = pc[2] + 1 \/ (pc[2] = 11 /\ pc'[2] = 1))
         /\ ~(b = 1 /\ pc[1] = 6) /\ ~(b = 2 /\ pc[2] = 11) => key("created")' = key("created")
         /\ ~(b = 2 /\ pc[2] = 10) /\ There("part") => There("part")'
<1>1. Running(b) /\ Due(b) /\ Advance(b) BY DEF Concludes, Due
<1>2. Len(tree) = 2 /\ tree[2] = <<CameraCycle, PickerCycle>> BY CameraTree
<1>3. /\ Leaves(1) = CameraCycle /\ Leaves(2) = PickerCycle /\ Branches = 1..2 /\ Cycling
  BY <1>2 DEF Leaves, Branches, Cycling
<1>4. Len(CameraCycle) = 6 /\ Len(PickerCycle) = 11 BY CameraLeaves, PickerLeaves
<1>5. b \in {1, 2} /\ {1, 2} \subseteq Branches BY <1>1, <1>3 DEF Running
<1>6. pc[1] \in 1..6 /\ pc[2] \in 1..11
  <2>1. /\ pc[1] \in 1..(Len(Leaves(1)) + 1) /\ pc[2] \in 1..(Len(Leaves(2)) + 1)
    BY <1>5, BranchBound
  <2>2. pc[1] <= 6 /\ pc[2] <= 11 BY <1>3, <1>4, <1>5 DEF InPlace
  <2>3. QED BY <1>3, <1>4, <2>1, <2>2
<1>7. /\ \A c \in Branches \ {b} : pc'[c] = pc[c]
      /\ pc'[b] = pc[b] + 1 \/ (pc[b] = Len(Leaves(b)) /\ pc'[b] = 1)
  BY <1>1, Proceeds
<1>8. /\ b = 1 => pc'[2] = pc[2] /\ (pc'[1] = pc[1] + 1 \/ (pc[1] = 6 /\ pc'[1] = 1))
      /\ b = 2 => pc'[1] = pc[1] /\ (pc'[2] = pc[2] + 1 \/ (pc[2] = 11 /\ pc'[2] = 1))
  <2>1. CASE b = 1
    <3>1. pc'[2] = pc[2] BY <1>5, <1>7, <2>1
    <3>2. pc'[1] = pc[1] + 1 \/ (pc[1] = Len(Leaves(1)) /\ pc'[1] = 1) BY <1>7, <2>1
    <3>3. QED BY <1>3, <1>4, <2>1, <3>1, <3>2
  <2>2. CASE b = 2
    <3>1. pc'[1] = pc[1] BY <1>5, <1>7, <2>2
    <3>2. pc'[2] = pc[2] + 1 \/ (pc[2] = Len(Leaves(2)) /\ pc'[2] = 1) BY <1>7, <2>2
    <3>3. QED BY <1>3, <1>4, <2>2, <3>1, <3>2
  <2>3. QED BY <1>5, <2>1, <2>2
<1>9. LeafOf(1) = CameraCycle[pc[1]] /\ LeafOf(2) = PickerCycle[pc[2]] BY <1>3 DEF LeafOf
<1>10. ASSUME ~(b = 1 /\ pc[1] = 6), ~(b = 2 /\ pc[2] = 11)
       PROVE  key("created")' = key("created")
  <2>1. ~(LeafOf(b).do = "set" /\ LeafOf(b).of = "created")
    BY <1>5, <1>6, <1>9, <1>10, CameraQuiet, PickerQuiet
  <2>2. QED BY <2>1, KeyStays DEF Keys
<1>11. ASSUME ~(b = 2 /\ pc[2] = 10), There("part") PROVE There("part")'
  <2>1. LeafOf(b).do # "remove" BY <1>5, <1>6, <1>9, <1>11, CameraQuiet, PickerQuiet
  <2>2. QED BY <1>11, <2>1, ThereStays DEF Objects
<1>12. Running(1) /\ Running(2) BY <1>3, <1>5 DEF InPlace, Running
<1>13. QED BY <1>3, <1>5, <1>6, <1>8, <1>10, <1>11, <1>12

\* In the cycle.
LEMMA ConcludesCameraCycle ==
  ASSUME TypeOK, InPlace, CameraInv, client = "foundationpose", fresh, stage = 2, NEW b, Concludes(b)
  PROVE  /\ pc'[1] = 5 => ~key("created")'
         /\ pc'[1] = 6 => There("part")'
         /\ key("created")' /\ pc'[2] # 11 => There("part")'
<1>1. /\ b \in {1, 2} /\ Leaves(1) = CameraCycle /\ Leaves(2) = PickerCycle
      /\ pc[1] \in 1..6 /\ pc[2] \in 1..11
      /\ b = 1 => pc'[2] = pc[2] /\ (pc'[1] = pc[1] + 1 \/ (pc[1] = 6 /\ pc'[1] = 1))
      /\ b = 2 => pc'[1] = pc[1] /\ (pc'[2] = pc[2] + 1 \/ (pc[2] = 11 /\ pc'[2] = 1))
      /\ ~(b = 1 /\ pc[1] = 6) /\ ~(b = 2 /\ pc[2] = 11) => key("created")' = key("created")
      /\ ~(b = 2 /\ pc[2] = 10) /\ There("part") => There("part")'
  BY CameraStep
<1>2. /\ pc[1] = 5 => ~key("created")
      /\ pc[1] = 6 => There("part")
      /\ key("created") /\ pc[2] # 11 => There("part")
  BY DEF CameraInv
<1>3. LeafOf(1) = CameraCycle[pc[1]] /\ LeafOf(2) = PickerCycle[pc[2]] BY <1>1 DEF LeafOf
<1>4. Running(b) /\ Due(b) /\ world' = After(world, LeafOf(b)) /\ ~Waits(LeafOf(b)) /\ ~FailsByItself(LeafOf(b))
  BY DEF Concludes, Due
<1>5. Fits(LeafOf(b)) /\ world \in Worlds BY <1>4, AtLeaf DEF TypeOK
<1>6. CASE b = 1 /\ pc[1] = 4
  <2>1. LeafOf(1).do = "waitKey" /\ LeafOf(1).of = "created" /\ ~LeafOf(1).arg
    BY <1>3, <1>6, CameraLeaves
  <2>2. world.keys["created"] = LeafOf(1).arg BY <1>4, <1>6, <2>1 DEF Waits
  <2>3. ~key("created") BY <2>1, <2>2 DEF key
  <2>4. QED BY <1>1, <1>2, <1>6, <2>3
<1>7. CASE b = 1 /\ pc[1] = 5
  <2>1. LeafOf(1) = Add("part") BY <1>3, <1>7, CameraLeaves
  <2>2. LeafOf(1).do = "add" /\ LeafOf(1).of = "part" BY <2>1, AddDoes
  <2>3. world'.at["part"] = AtAfter(world, LeafOf(1), "part") BY <1>4, <1>5, <1>7, Effects DEF Objects
  <2>4. There("part")' BY <2>2, <2>3 DEF AtAfter, There, at
  <2>5. QED BY <1>1, <1>2, <1>7, <2>4
<1>8. CASE b = 1 /\ pc[1] = 6 BY <1>1, <1>2, <1>8
<1>9. CASE b = 1 /\ pc[1] \in 1..3 BY <1>1, <1>2, <1>9
<1>10. CASE b = 2 /\ pc[2] \in {10, 11}
  <2>1. LeafOf(1).do # "set"
    <3>1. Running(1) BY CameraStep
    <3>2. 1 \in Branches \ {b} BY <1>10, <3>1 DEF Running
    <3>3. QED BY <1>4, <3>1, <3>2 DEF Due
  <2>2. pc[1] # 6 BY <1>3, <2>1, CameraLeaves
  <2>3. CASE pc[2] = 10 BY <1>1, <1>2, <1>10, <2>2, <2>3
  <2>4. CASE pc[2] = 11
    <3>1. LeafOf(2).do = "set" /\ LeafOf(2).of = "created" /\ ~LeafOf(2).arg
      BY <1>3, <2>4, PickerLeaves
    <3>2. LeafOf(2).of \in Keys BY <3>1 DEF Keys
    <3>3. world'.keys["created"] = LeafOf(2).arg BY <1>10, <3>1, <3>2, SetStep
    <3>4. ~key("created")' BY <3>1, <3>3 DEF key
    <3>5. QED BY <1>1, <1>2, <1>10, <2>2, <3>4
  <2>5. QED BY <1>10, <2>3, <2>4
<1>11. CASE b = 2 /\ pc[2] \in 1..9 BY <1>1, <1>2, <1>11
<1>12. QED BY <1>1, <1>6, <1>7, <1>8, <1>9, <1>10, <1>11

\* In the start-up, which withdraws the announcement.
LEMMA ConcludesCameraStartUp ==
  ASSUME TypeOK, InPlace, CameraInv, client = "foundationpose", fresh, stage = 1, NEW b, Concludes(b),
         pc'[1] \in 8..10
  PROVE  ~key("created")'
<1>1. Running(b) /\ Due(b) /\ Advance(b) BY DEF Concludes, Due
<1>2. Len(tree) = 2 /\ Len(tree[1]) = 1 /\ Len(tree[1][1]) = 9 BY CameraTree
<1>3. ~Cycling /\ Branches = 1..1 /\ Leaves(1) = tree[1][1] BY <1>2 DEF Cycling, Branches, Leaves
<1>4. b = 1 BY <1>1, <1>3 DEF Running
<1>5. pc'[1] = pc[1] + 1 /\ pc[1] \in Nat \ {0} BY <1>1, <1>3, <1>4, AtLeaf, Proceeds
<1>6. LeafOf(1) = tree[1][1][pc[1]] BY <1>3 DEF LeafOf
<1>7. CASE pc[1] = 7
  <2>1. LeafOf(1).do = "set" /\ LeafOf(1).of = "created" /\ ~LeafOf(1).arg
    BY <1>6, <1>7, CameraTree
  <2>2. LeafOf(1).of \in Keys BY <2>1 DEF Keys
  <2>3. world'.keys["created"] = LeafOf(1).arg BY <1>4, <2>1, <2>2, SetStep
  <2>4. QED BY <2>1, <2>3 DEF key
<1>8. CASE pc[1] \in {8, 9}
  <2>1. ~key("created") BY <1>8 DEF CameraInv
  <2>2. ~(LeafOf(1).do = "set" /\ LeafOf(1).of = "created")
    <3>1. tree[1][1][9] = Move(1, "rest") /\ tree[1][1][8].of = "valid" BY CameraTree
    <3>2. tree[1][1][9].do = "move" BY <3>1, MoveDoes
    <3>3. QED BY <1>6, <1>8, <3>1, <3>2
  <2>3. key("created")' = key("created") BY <1>4, <2>2, KeyStays DEF Keys
  <2>4. QED BY <2>1, <2>3
<1>9. QED BY <1>5, <1>7, <1>8

\* A leaf of the camera's client.
LEMMA ConcludesCamera ==
  ASSUME TypeOK, InPlace, CameraInv, NEW b, Concludes(b)
  PROVE  CameraInv'
<1>1. client' = client /\ stage' = stage /\ (fresh' => fresh) BY DEF Concludes, Advance
<1>2. SUFFICES ASSUME client = "foundationpose", fresh
               PROVE  /\ stage = 1 /\ pc'[1] \in 8..10 => ~key("created")'
                      /\ stage = 2 => /\ pc'[1] = 5 => ~key("created")'
                                      /\ pc'[1] = 6 => There("part")'
                                      /\ key("created")' /\ pc'[2] # 11 => There("part")'
  BY <1>1 DEF CameraInv
<1>3. QED BY <1>2, ConcludesCameraCycle, ConcludesCameraStartUp

\* The end of the start-up of the camera's client.
LEMMA EndStageCamera ==
  ASSUME TypeOK, InPlace, CameraInv, EndStage
  PROVE  CameraInv'
<1>1. client' = client /\ world' = world /\ (fresh' => fresh) /\ stage' = stage + 1 /\ pc' = <<1, 1>>
  BY DEF EndStage
<1>2. SUFFICES ASSUME client = "foundationpose", fresh, stage = 1 PROVE ~key("created")
  BY <1>1 DEF CameraInv, key, TypeOK
<1>3. Len(tree[1]) = 1 /\ Len(tree[1][1]) = 9 BY <1>2, CameraTree
<1>4. 1 \in Branches /\ Leaves(1) = tree[1][1] BY <1>2, <1>3 DEF Branches, Leaves
<1>5. pc[1] = 10
  <2>1. pc[1] = Len(Leaves(1)) + 1 BY <1>4, Ended
  <2> DEFINE n == Len(Leaves(1))
  <2>2. pc[1] = n + 1 /\ n = 9 BY <1>3, <1>4, <2>1
  <2> HIDE DEF n
  <2>3. QED BY <2>2
<1>6. QED BY <1>2, <1>5 DEF CameraInv

-----------------------------------------------------------------------------
(* The two robots' client.                                                 *)

\* Only moves change the places of the robots.
LEMMA PlaceStays ==
  ASSUME TypeOK, NEW b, Concludes(b), LeafOf(b).do # "move", NEW r \in Robots
  PROVE  place(r)' = place(r)
<1>1. Running(b) /\ world' = After(world, LeafOf(b)) BY DEF Concludes, Due
<1>2. Fits(LeafOf(b)) /\ world \in Worlds BY <1>1, AtLeaf DEF TypeOK
<1>3. world'.place[r] = IF LeafOf(b).do = "move" /\ r = LeafOf(b).robot THEN LeafOf(b).arg ELSE world.place[r]
  BY <1>1, <1>2, Effects
<1>4. QED BY <1>3 DEF place

\* An object stays where it is unless a leaf takes, gives, adds or removes it.
LEMMA AtStays ==
  ASSUME TypeOK, NEW b, Concludes(b), NEW o \in Objects,
         LeafOf(b).of = o => LeafOf(b).do \notin {"attach", "detach", "add", "ensure", "remove"}
  PROVE  at(o)' = at(o)
<1>1. Running(b) /\ world' = After(world, LeafOf(b)) BY DEF Concludes, Due
<1>2. Fits(LeafOf(b)) /\ world \in Worlds BY <1>1, AtLeaf DEF TypeOK
<1>3. world'.at[o] = AtAfter(world, LeafOf(b), o) BY <1>1, <1>2, Effects
<1>4. QED BY <1>3 DEF AtAfter, at

\* Where the giver's leaves move it, set a key or concern the renamed tube.
LEMMA GiverQuiet ==
  /\ \A i \in 1..27 : i \notin {1, 11, 15, 18} => Giver[i].do # "move"
  /\ \A i \in 1..27 : i \notin {2, 19} => Giver[i].do # "set"
  /\ \A i \in 1..27 : i # 26 /\ Giver[i].of = "renamed" => Giver[i].do \in {"waitObject", "exists"}
  /\ \A i \in 1..27 : i \notin {5, 7, 25} => Giver[i].do # "remove"
  /\ \A i \in 1..27 : i \notin {12, 21} => Giver[i].do # "grip"
  /\ \A i \in 1..27 : i \notin {6, 8, 26} => Giver[i].do # "add"
  /\ \A i \in 1..27 : i \notin {9, 10, 24} => Giver[i].do # "pose"
  /\ \A i \in 1..27 : i # 27 => Giver[i].do # "exists"
  /\ \A i \in 1..27 : i # 14 => Giver[i].do # "attach"
  /\ Giver[5].of = "slider" /\ Giver[7].of = "endplate"
<1>1. /\ Giver[1].do = "move" /\ Giver[1].of = ""
      /\ Giver[11].do = "move" /\ Giver[11].of = ""
      /\ Giver[15].do = "move" /\ Giver[15].of = ""
      /\ Giver[18].do = "move" /\ Giver[18].of = ""
  <2>1. Giver[1].do = "move" /\ Giver[1].of = ""
    <3>1. Giver[1] = Move(1, "ready") BY GiverLeaves
    <3>2. QED BY <3>1, MoveDoes
  <2>2. Giver[11].do = "move" /\ Giver[11].of = ""
    <3>1. Giver[11] = Move(1, "pick") BY GiverLeaves
    <3>2. QED BY <3>1, MoveDoes
  <2>3. Giver[15].do = "move" /\ Giver[15].of = ""
    <3>1. Giver[15] = Move(1, "wait") BY GiverLeaves
    <3>2. QED BY <3>1, MoveDoes
  <2>4. Giver[18].do = "move" /\ Giver[18].of = ""
    <3>1. Giver[18] = Move(1, "drop") BY GiverLeaves
    <3>2. QED BY <3>1, MoveDoes
  <2>5. QED BY <2>1, <2>2, <2>3, <2>4
<1>2. Giver[3].do = "operator" /\ Giver[3].of = ""
  <2>1. Giver[3] = Operator BY GiverLeaves
  <2>2. QED BY <2>1, OperatorDoes
<1>3. Giver[4].do = "ensure" /\ Giver[4].of = "tube"
  <2>1. Giver[4] = Ensure("tube") BY GiverLeaves
  <2>2. QED BY <2>1, EnsureDoes
<1>4. /\ Giver[5].do = "remove" /\ Giver[5].of = "slider"
      /\ Giver[7].do = "remove" /\ Giver[7].of = "endplate"
      /\ Giver[25].do = "remove" /\ Giver[25].of = "tube"
  <2>1. /\ Giver[5] = Remove("slider")
        /\ Giver[7] = Remove("endplate")
        /\ Giver[25] = Remove("tube")
    BY GiverLeaves
  <2>2. QED BY <2>1, RemoveDoes
<1>5. /\ Giver[6].do = "add" /\ Giver[6].of = "slider"
      /\ Giver[8].do = "add" /\ Giver[8].of = "endplate"
      /\ Giver[26].do = "add" /\ Giver[26].of = "renamed"
  <2>1. /\ Giver[6] = Add("slider")
        /\ Giver[8] = Add("endplate")
        /\ Giver[26] = Add("renamed")
    BY GiverLeaves
  <2>2. QED BY <2>1, AddDoes
<1>6. /\ Giver[9].do = "pose" /\ Giver[9].of = "tube"
      /\ Giver[10].do = "pose" /\ Giver[10].of = "tube"
      /\ Giver[24].do = "pose" /\ Giver[24].of = "tube"
  <2>1. /\ Giver[9] = Pose("tube")
        /\ Giver[10] = Pose("tube")
        /\ Giver[24] = Pose("tube")
    BY GiverLeaves
  <2>2. QED BY <2>1, PoseDoes
<1>7. /\ Giver[12].do = "grip" /\ Giver[12].of = ""
      /\ Giver[21].do = "grip" /\ Giver[21].of = ""
  <2>1. /\ Giver[12] = Grip(1, "closed")
        /\ Giver[21] = Grip(1, "open")
    BY GiverLeaves
  <2>2. QED BY <2>1, GripDoes
<1>8. /\ Giver[13].do = "sensor" /\ Giver[13].of = ""
      /\ Giver[23].do = "sensor" /\ Giver[23].of = ""
  <2>1. /\ Giver[13] = Sensor(1)
        /\ Giver[23] = Sensor(1)
    BY GiverLeaves
  <2>2. QED BY <2>1, SensorDoes
<1>9. Giver[14].do = "attach" /\ Giver[14].of = "tube"
  <2>1. Giver[14] = Attach(1, "tube") BY GiverLeaves
  <2>2. QED BY <2>1, AttachDoes
<1>10. Giver[22].do = "detach" /\ Giver[22].of = "tube"
  <2>1. Giver[22] = Detach(1, "tube") BY GiverLeaves
  <2>2. QED BY <2>1, DetachDoes
<1>11. Giver[27].do = "exists" /\ Giver[27].of = "renamed"
  <2>1. Giver[27] = Exists("renamed") BY GiverLeaves
  <2>2. QED BY <2>1, ExistsDoes
<1>12. /\ Giver[2].do = "set" /\ Giver[2].of = "robot1In"
      /\ Giver[16].do = "waitKey" /\ Giver[16].of = "robot2In"
      /\ Giver[17].do = "waitObject" /\ Giver[17].of = "renamed"
      /\ Giver[19].do = "set" /\ Giver[19].of = "robot1In"
      /\ Giver[20].do = "waitKey" /\ Giver[20].of = "robot2In"
  BY GiverFlags
<1>13. SUFFICES ASSUME NEW i \in 1..27
      PROVE  /\ i \notin {1, 11, 15, 18} => Giver[i].do # "move"
             /\ i \notin {2, 19} => Giver[i].do # "set"
             /\ i # 26 /\ Giver[i].of = "renamed" => Giver[i].do \in {"waitObject", "exists"}
             /\ i \notin {5, 7, 25} => Giver[i].do # "remove"
             /\ i \notin {12, 21} => Giver[i].do # "grip"
             /\ i \notin {6, 8, 26} => Giver[i].do # "add"
             /\ i \notin {9, 10, 24} => Giver[i].do # "pose"
             /\ i # 27 => Giver[i].do # "exists"
             /\ i # 14 => Giver[i].do # "attach"
  BY <1>4
<1>14. CASE i \in {1, 11, 15, 18} BY <1>14, <1>1
<1>15. CASE i \in {2, 16, 17, 19, 20} BY <1>15, <1>12
<1>16. CASE i \in {5, 6, 7, 8, 25, 26} BY <1>16, <1>4, <1>5
<1>17. CASE i \in {3, 4, 9, 10, 24} BY <1>17, <1>2, <1>3, <1>6
<1>18. CASE i \in {12, 13, 21, 23} BY <1>18, <1>7, <1>8
<1>19. CASE i \in {14, 22, 27} BY <1>19, <1>9, <1>10, <1>11
<1>20. QED BY <1>14, <1>15, <1>16, <1>17, <1>18, <1>19

\* The same of the taker.
LEMMA TakerQuiet ==
  /\ \A i \in 1..16 : i \notin {1, 8, 13, 14} => Taker[i].do # "move"
  /\ \A i \in 1..16 : i \notin {2, 9} => Taker[i].do # "set"
  /\ \A i \in 1..16 : i \notin {12, 15, 16} /\ Taker[i].of = "renamed" => Taker[i].do = "waitObject"
  /\ \A i \in 1..16 : Taker[i].do \notin {"add", "ensure", "exists"}
  /\ \A i \in 1..16 : i \notin 4..7 => Taker[i].do # "pose"
  /\ \A i \in 1..16 : i # 12 => Taker[i].do # "attach"
  /\ \A i \in 1..16 : i # 16 => Taker[i].do # "remove"
<1>1. /\ Taker[1].do = "move" /\ Taker[1].of = ""
      /\ Taker[8].do = "move" /\ Taker[8].of = ""
      /\ Taker[13].do = "move" /\ Taker[13].of = ""
      /\ Taker[14].do = "move" /\ Taker[14].of = ""
  <2>1. Taker[1].do = "move" /\ Taker[1].of = ""
    <3>1. Taker[1] = Move(2, "ready") BY TakerLeaves
    <3>2. QED BY <3>1, MoveDoes
  <2>2. Taker[8].do = "move" /\ Taker[8].of = ""
    <3>1. Taker[8] = Move(2, "insert") BY TakerLeaves
    <3>2. QED BY <3>1, MoveDoes
  <2>3. Taker[13].do = "move" /\ Taker[13].of = ""
    <3>1. Taker[13] = Move(2, "load") BY TakerLeaves
    <3>2. QED BY <3>1, MoveDoes
  <2>4. Taker[14].do = "move" /\ Taker[14].of = ""
    <3>1. Taker[14] = Move(2, "exit") BY TakerLeaves
    <3>2. QED BY <3>1, MoveDoes
  <2>5. QED BY <2>1, <2>2, <2>3, <2>4
<1>2. /\ Taker[4].do = "pose" /\ Taker[4].of = "tube"
      /\ Taker[5].do = "pose" /\ Taker[5].of = "tube"
      /\ Taker[6].do = "pose" /\ Taker[6].of = "endplate"
      /\ Taker[7].do = "pose" /\ Taker[7].of = "endplate"
  <2>1. /\ Taker[4] = Pose("tube")
        /\ Taker[5] = Pose("tube")
        /\ Taker[6] = Pose("endplate")
        /\ Taker[7] = Pose("endplate")
    BY TakerLeaves
  <2>2. QED BY <2>1, PoseDoes
<1>3. Taker[12].do = "attach" /\ Taker[12].of = "renamed"
  <2>1. Taker[12] = Attach(2, "renamed") BY TakerLeaves
  <2>2. QED BY <2>1, AttachDoes
<1>4. Taker[15].do = "detach" /\ Taker[15].of = "renamed"
  <2>1. Taker[15] = Detach(2, "renamed") BY TakerLeaves
  <2>2. QED BY <2>1, DetachDoes
<1>5. Taker[16].do = "remove" /\ Taker[16].of = "renamed"
  <2>1. Taker[16] = Remove("renamed") BY TakerLeaves
  <2>2. QED BY <2>1, RemoveDoes
<1>6. /\ Taker[2].do = "set" /\ Taker[2].of = "robot2In"
      /\ Taker[3].do = "waitKey" /\ Taker[3].of = "robot1In"
      /\ Taker[9].do = "set" /\ Taker[9].of = "robot2In"
      /\ Taker[10].do = "waitKey" /\ Taker[10].of = "robot1In"
      /\ Taker[11].do = "waitObject" /\ Taker[11].of = "renamed"
  BY TakerFlags
<1>7. SUFFICES ASSUME NEW i \in 1..16
      PROVE  /\ i \notin {1, 8, 13, 14} => Taker[i].do # "move"
             /\ i \notin {2, 9} => Taker[i].do # "set"
             /\ i \notin {12, 15, 16} /\ Taker[i].of = "renamed" => Taker[i].do = "waitObject"
             /\ Taker[i].do \notin {"add", "ensure", "exists"}
             /\ i \notin 4..7 => Taker[i].do # "pose"
             /\ i # 12 => Taker[i].do # "attach"
             /\ i # 16 => Taker[i].do # "remove"
  OBVIOUS
<1>8. CASE i \in {1, 8, 13, 14} BY <1>8, <1>1
<1>9. CASE i \in {2, 3, 9, 10, 11} BY <1>9, <1>6
<1>10. CASE i \in {4, 5, 6, 7} BY <1>10, <1>2
<1>11. CASE i \in {12, 15, 16} BY <1>11, <1>3, <1>4, <1>5
<1>12. QED BY <1>8, <1>9, <1>10, <1>11

\* The branches of its cycle.
LEMMA DualBranches ==
  ASSUME TypeOK, InPlace, client = "app_dual", stage = 3
  PROVE  /\ Leaves(1) = Giver /\ Leaves(2) = Taker /\ Branches = {1, 2} /\ Cycling
         /\ Running(1) /\ Running(2) /\ pc[1] \in 1..27 /\ pc[2] \in 1..16
         /\ LeafOf(1) = Giver[pc[1]] /\ LeafOf(2) = Taker[pc[2]]
<1>1. Len(tree) = 3 /\ tree[3] = <<Giver, Taker>> BY DualTree
<1>2. /\ Leaves(1) = Giver /\ Leaves(2) = Taker /\ Branches = 1..2 /\ Cycling
  BY <1>1 DEF Leaves, Branches, Cycling
<1>3. Len(Giver) = 27 /\ Len(Taker) = 16 BY GiverLeaves, TakerLeaves
<1>4. 1 \in Branches /\ 2 \in Branches /\ Branches = {1, 2} BY <1>2
<1>5. pc[1] \in 1..27 /\ pc[2] \in 1..16
  <2>1. pc[1] \in Nat \ {0} /\ pc[2] \in Nat \ {0} BY DEF TypeOK, Robots
  <2>2. pc[1] <= 27 /\ pc[2] <= 16 BY <1>2, <1>3, <1>4 DEF InPlace
  <2>3. QED BY <2>1, <2>2
<1>6. Running(1) /\ Running(2) BY <1>2, <1>4 DEF InPlace, Running
<1>7. LeafOf(1) = Giver[pc[1]] /\ LeafOf(2) = Taker[pc[2]] BY <1>2 DEF LeafOf
<1>8. QED BY <1>2, <1>4, <1>5, <1>6, <1>7

\* A leaf of the giver.
LEMMA GiverStep ==
  ASSUME TypeOK, InPlace, client = "app_dual", stage = 3, Concludes(1)
  PROVE  /\ pc'[2] = pc[2] /\ IF pc[1] = 27 THEN pc'[1] = 1 ELSE pc'[1] = pc[1] + 1
         /\ place(2)' = place(2) /\ (pc[1] \notin {1, 11, 15, 18} => place(1)' = place(1))
         /\ pc[1] = 1 => place(1)' = "ready"
         /\ pc[1] = 11 => place(1)' = "pick"
         /\ pc[1] = 15 => place(1)' = "wait"
         /\ pc[1] = 18 => place(1)' = "drop"
         /\ pc[1] # 26 => at("renamed")' = at("renamed")
         /\ pc[1] = 26 => There("renamed")'
         /\ pc[1] = 17 => at("renamed") = Gone
<1>1. /\ Leaves(1) = Giver /\ Branches = {1, 2} /\ Cycling /\ Running(1)
      /\ pc[1] \in 1..27 /\ LeafOf(1) = Giver[pc[1]]
  BY DualBranches
<1>2. Due(1) /\ Advance(1) /\ world' = After(world, LeafOf(1)) /\ ~Waits(LeafOf(1))
  BY DEF Concludes
<1>3. pc'[2] = pc[2] /\ IF pc[1] = 27 THEN pc'[1] = 1 ELSE pc'[1] = pc[1] + 1
  <2> DEFINE n == Len(Leaves(1))
  <2>1. pc \in [Robots -> Nat \ {0}] BY DEF TypeOK
  <2>2. pc' = [pc EXCEPT ![1] = IF @ = n THEN 1 ELSE @ + 1] BY <1>1, <1>2 DEF Advance
  <2>3. n = 27 BY <1>1, GiverLeaves
  <2> HIDE DEF n
  <2>4. QED BY <2>1, <2>2, <2>3 DEF Robots
<1>4. ASSUME pc[1] \notin {1, 11, 15, 18} PROVE place(1)' = place(1) /\ place(2)' = place(2)
  <2>1. LeafOf(1).do # "move" BY <1>1, <1>4, GiverQuiet
  <2>2. QED BY <2>1, PlaceStays DEF Robots
<1>5. ASSUME NEW to \in Places, Giver[pc[1]] = Move(1, to)
      PROVE  place(1)' = to /\ place(2)' = place(2)
  <2>1. LeafOf(1) = Move(1, to) BY <1>1, <1>5
  <2>2. QED BY <2>1, MoveStep DEF Robots, place
<1>6. pc[1] = 1 => place(1)' = "ready" /\ place(2)' = place(2) BY <1>5, GiverLeaves DEF Places
<1>7. pc[1] = 11 => place(1)' = "pick" /\ place(2)' = place(2) BY <1>5, GiverLeaves DEF Places
<1>8. pc[1] = 15 => place(1)' = "wait" /\ place(2)' = place(2) BY <1>5, GiverLeaves DEF Places
<1>9. pc[1] = 18 => place(1)' = "drop" /\ place(2)' = place(2) BY <1>5, GiverLeaves DEF Places
<1>10. ASSUME pc[1] # 26 PROVE at("renamed")' = at("renamed")
  <2>1. LeafOf(1).of = "renamed" => LeafOf(1).do \in {"waitObject", "exists"}
    BY <1>1, <1>10, GiverQuiet
  <2>2. QED BY <2>1, AtStays DEF Objects
<1>11. ASSUME pc[1] = 26 PROVE There("renamed")'
  <2>1. LeafOf(1) = Add("renamed") BY <1>1, <1>11, GiverLeaves
  <2>2. LeafOf(1).do = "add" /\ LeafOf(1).of = "renamed" BY <2>1, AddDoes
  <2>3. Fits(LeafOf(1)) /\ world \in Worlds BY <1>1, AtLeaf DEF TypeOK
  <2>4. world'.at["renamed"] = AtAfter(world, LeafOf(1), "renamed") BY <1>2, <2>3, Effects DEF Objects
  <2>5. QED BY <2>2, <2>4 DEF AtAfter, There, at
<1>12. ASSUME pc[1] = 17 PROVE at("renamed") = Gone
  <2>1. LeafOf(1).do = "waitObject" /\ LeafOf(1).of = "renamed" /\ ~LeafOf(1).arg
    BY <1>1, <1>12, GiverFlags
  <2>2. There("renamed") = LeafOf(1).arg BY <1>2, <2>1 DEF Waits
  <2>3. QED BY <2>1, <2>2 DEF There
<1>13. QED BY <1>3, <1>4, <1>6, <1>7, <1>8, <1>9, <1>10, <1>11, <1>12

\* The keys behind a leaf of the giver.
LEMMA GiverKeys ==
  ASSUME TypeOK, InPlace, client = "app_dual", stage = 3, Concludes(1)
  PROVE  /\ key("robot2In")' = key("robot2In")
         /\ pc[1] \notin {2, 19} => key("robot1In")' = key("robot1In")
         /\ pc[1] = 2 => ~key("robot1In")'
         /\ pc[1] = 19 => key("robot1In")'
         /\ pc[1] = 16 => ~key("robot2In")
         /\ pc[1] = 20 => key("robot2In")
<1>1. Running(1) /\ pc[1] \in 1..27 /\ LeafOf(1) = Giver[pc[1]] BY DualBranches
<1>2. ~Waits(LeafOf(1)) BY DEF Concludes
<1>3. key("robot2In")' = key("robot2In")
  <2>1. ~(LeafOf(1).do = "set" /\ LeafOf(1).of = "robot2In") BY <1>1, GiverQuiet, GiverFlags
  <2>2. QED BY <2>1, KeyStays DEF Keys
<1>4. ASSUME pc[1] \notin {2, 19} PROVE key("robot1In")' = key("robot1In")
  <2>1. LeafOf(1).do # "set" BY <1>1, <1>4, GiverQuiet
  <2>2. QED BY <2>1, KeyStays DEF Keys
<1>5. ASSUME pc[1] \in {2, 19} PROVE key("robot1In")' = Giver[pc[1]].arg
  <2>1. LeafOf(1).do = "set" /\ LeafOf(1).of = "robot1In" BY <1>1, <1>5, GiverFlags
  <2>2. LeafOf(1).of \in Keys BY <2>1 DEF Keys
  <2>3. world'.keys["robot1In"] = LeafOf(1).arg BY <2>1, <2>2, SetStep
  <2>4. QED BY <1>1, <2>3 DEF key
<1>6. pc[1] = 2 => ~key("robot1In")' BY <1>5, GiverFlags
<1>7. pc[1] = 19 => key("robot1In")' BY <1>5, GiverFlags
<1>8. ASSUME pc[1] \in {16, 20} PROVE key("robot2In") = Giver[pc[1]].arg
  <2>1. LeafOf(1).do = "waitKey" /\ LeafOf(1).of = "robot2In" BY <1>1, <1>8, GiverFlags
  <2>2. world.keys["robot2In"] = LeafOf(1).arg BY <1>2, <2>1 DEF Waits
  <2>3. QED BY <1>1, <2>2 DEF key
<1>9. pc[1] = 16 => ~key("robot2In") BY <1>8, GiverFlags
<1>10. pc[1] = 20 => key("robot2In") BY <1>8, GiverFlags
<1>11. QED BY <1>3, <1>4, <1>6, <1>7, <1>9, <1>10

\* A leaf of the taker.
LEMMA TakerStep ==
  ASSUME TypeOK, InPlace, client = "app_dual", stage = 3, Concludes(2)
  PROVE  /\ pc'[1] = pc[1] /\ IF pc[2] = 16 THEN pc'[2] = 1 ELSE pc'[2] = pc[2] + 1
         /\ place(1)' = place(1) /\ (pc[2] \notin {1, 8, 13, 14} => place(2)' = place(2))
         /\ pc[2] = 1 => place(2)' = "ready"
         /\ pc[2] = 8 => place(2)' = "insert"
         /\ pc[2] = 13 => place(2)' = "load"
         /\ pc[2] = 14 => place(2)' = "exit"
         /\ pc[2] \notin {12, 15, 16} => at("renamed")' = at("renamed")
         /\ pc[2] = 11 => There("renamed")
         /\ pc[2] = 3 /\ ~misled' => place(1) = "drop"
<1>1. /\ Leaves(2) = Taker /\ Branches = {1, 2} /\ Cycling /\ Running(2)
      /\ pc[2] \in 1..16 /\ LeafOf(2) = Taker[pc[2]]
  BY DualBranches
<1>2. Due(2) /\ Advance(2) /\ world' = After(world, LeafOf(2)) /\ ~Waits(LeafOf(2))
  BY DEF Concludes
<1>3. pc'[1] = pc[1] /\ IF pc[2] = 16 THEN pc'[2] = 1 ELSE pc'[2] = pc[2] + 1
  <2> DEFINE n == Len(Leaves(2))
  <2>1. pc \in [Robots -> Nat \ {0}] BY DEF TypeOK
  <2>2. pc' = [pc EXCEPT ![2] = IF @ = n THEN 1 ELSE @ + 1] BY <1>1, <1>2 DEF Advance
  <2>3. n = 16 BY <1>1, TakerLeaves
  <2> HIDE DEF n
  <2>4. QED BY <2>1, <2>2, <2>3 DEF Robots
<1>4. ASSUME pc[2] \notin {1, 8, 13, 14} PROVE place(1)' = place(1) /\ place(2)' = place(2)
  <2>1. LeafOf(2).do # "move" BY <1>1, <1>4, TakerQuiet
  <2>2. QED BY <2>1, PlaceStays DEF Robots
<1>5. ASSUME NEW to \in Places, Taker[pc[2]] = Move(2, to)
      PROVE  place(2)' = to /\ place(1)' = place(1)
  <2>1. LeafOf(2) = Move(2, to) BY <1>1, <1>5
  <2>2. QED BY <2>1, MoveStep DEF Robots, place
<1>6. pc[2] = 1 => place(2)' = "ready" /\ place(1)' = place(1) BY <1>5, TakerLeaves DEF Places
<1>7. pc[2] = 8 => place(2)' = "insert" /\ place(1)' = place(1) BY <1>5, TakerLeaves DEF Places
<1>8. pc[2] = 13 => place(2)' = "load" /\ place(1)' = place(1) BY <1>5, TakerLeaves DEF Places
<1>9. pc[2] = 14 => place(2)' = "exit" /\ place(1)' = place(1) BY <1>5, TakerLeaves DEF Places
<1>10. ASSUME pc[2] \notin {12, 15, 16} PROVE at("renamed")' = at("renamed")
  <2>1. LeafOf(2).of = "renamed" => LeafOf(2).do = "waitObject" BY <1>1, <1>10, TakerQuiet
  <2>2. QED BY <2>1, AtStays DEF Objects
<1>11. ASSUME pc[2] = 11 PROVE There("renamed")
  <2>1. LeafOf(2).do = "waitObject" /\ LeafOf(2).of = "renamed" /\ LeafOf(2).arg
    BY <1>1, <1>11, TakerFlags
  <2>2. There("renamed") = LeafOf(2).arg BY <1>2, <2>1 DEF Waits
  <2>3. QED BY <2>1, <2>2
<1>12. ASSUME pc[2] = 3, ~misled' PROVE place(1) = "drop"
  <2>1. LeafOf(2) = WaitKey("robot1In", TRUE) BY <1>1, <1>12, TakerLeaves
  <2>2. ~Misled(LeafOf(2)) BY <1>12 DEF Concludes
  <2>3. QED BY <2>1, <2>2 DEF Misled, place
<1>13. QED BY <1>3, <1>4, <1>6, <1>7, <1>8, <1>9, <1>10, <1>11, <1>12

\* The keys behind a leaf of the taker.
LEMMA TakerKeys ==
  ASSUME TypeOK, InPlace, client = "app_dual", stage = 3, Concludes(2)
  PROVE  /\ key("robot1In")' = key("robot1In")
         /\ pc[2] \notin {2, 9} => key("robot2In")' = key("robot2In")
         /\ pc[2] = 2 => ~key("robot2In")'
         /\ pc[2] = 9 => key("robot2In")'
         /\ pc[2] = 3 => key("robot1In")
         /\ pc[2] = 10 => ~key("robot1In")
<1>1. Running(2) /\ pc[2] \in 1..16 /\ LeafOf(2) = Taker[pc[2]] BY DualBranches
<1>2. ~Waits(LeafOf(2)) BY DEF Concludes
<1>3. key("robot1In")' = key("robot1In")
  <2>1. ~(LeafOf(2).do = "set" /\ LeafOf(2).of = "robot1In") BY <1>1, TakerQuiet, TakerFlags
  <2>2. QED BY <2>1, KeyStays DEF Keys
<1>4. ASSUME pc[2] \notin {2, 9} PROVE key("robot2In")' = key("robot2In")
  <2>1. LeafOf(2).do # "set" BY <1>1, <1>4, TakerQuiet
  <2>2. QED BY <2>1, KeyStays DEF Keys
<1>5. ASSUME pc[2] \in {2, 9} PROVE key("robot2In")' = Taker[pc[2]].arg
  <2>1. LeafOf(2).do = "set" /\ LeafOf(2).of = "robot2In" BY <1>1, <1>5, TakerFlags
  <2>2. LeafOf(2).of \in Keys BY <2>1 DEF Keys
  <2>3. world'.keys["robot2In"] = LeafOf(2).arg BY <2>1, <2>2, SetStep
  <2>4. QED BY <1>1, <2>3 DEF key
<1>6. pc[2] = 2 => ~key("robot2In")' BY <1>5, TakerFlags
<1>7. pc[2] = 9 => key("robot2In")' BY <1>5, TakerFlags
<1>8. ASSUME pc[2] \in {3, 10} PROVE key("robot1In") = Taker[pc[2]].arg
  <2>1. LeafOf(2).do = "waitKey" /\ LeafOf(2).of = "robot1In" BY <1>1, <1>8, TakerFlags
  <2>2. world.keys["robot1In"] = LeafOf(2).arg BY <1>2, <2>1 DEF Waits
  <2>3. QED BY <1>1, <2>2 DEF key
<1>9. pc[2] = 3 => key("robot1In") BY <1>8, TakerFlags
<1>10. pc[2] = 10 => ~key("robot1In") BY <1>8, TakerFlags
<1>11. QED BY <1>3, <1>4, <1>6, <1>7, <1>9, <1>10

\* The handover goes on with a leaf of the giver, whether or not the taker was misled.
LEMMA GiverHandsOver ==
  ASSUME TypeOK, InPlace, client = "app_dual", stage = 3, GiverInv, TakerInv, InTurn, Concludes(1)
  PROVE  GiverInv' /\ TakerInv' /\ InTurn'
<1>1. pc[1] \in 1..27 /\ pc[2] \in 1..16 BY DualBranches
<1>2. /\ pc'[2] = pc[2] /\ IF pc[1] = 27 THEN pc'[1] = 1 ELSE pc'[1] = pc[1] + 1
      /\ place(2)' = place(2) /\ (pc[1] \notin {1, 11, 15, 18} => place(1)' = place(1))
      /\ pc[1] = 1 => place(1)' = "ready"
      /\ pc[1] = 11 => place(1)' = "pick"
      /\ pc[1] = 15 => place(1)' = "wait"
      /\ pc[1] = 18 => place(1)' = "drop"
      /\ pc[1] # 26 => at("renamed")' = at("renamed")
      /\ pc[1] = 26 => There("renamed")'
      /\ pc[1] = 17 => at("renamed") = Gone
  BY GiverStep
<1>3. /\ key("robot2In")' = key("robot2In")
      /\ pc[1] \notin {2, 19} => key("robot1In")' = key("robot1In")
      /\ pc[1] = 2 => ~key("robot1In")'
      /\ pc[1] = 19 => key("robot1In")'
      /\ pc[1] = 16 => ~key("robot2In")
      /\ pc[1] = 20 => key("robot2In")
  BY GiverKeys
<1>4. GiverInv'
  <2>1. ASSUME pc[1] = 16 PROVE at("renamed") = Gone
    <3>1. pc[2] \notin 10..16 BY <1>3, <2>1 DEF TakerInv
    <3>2. QED BY <3>1 DEF InTurn, There
  <2>2. QED BY <1>1, <1>2, <1>3, <2>1 DEF GiverInv
<1>5. TakerInv' BY <1>2, <1>3 DEF TakerInv, There
<1>6. There("renamed")' => pc'[2] \in 10..16
  <2>1. CASE pc[1] = 26
    <3>1. pc[2] \in 10..11 BY <2>1 DEF InTurn
    <3>2. QED BY <1>2, <3>1
  <2>2. CASE pc[1] # 26 BY <1>2, <2>2 DEF InTurn, There
  <2>3. QED BY <2>1, <2>2
<1>7. pc'[1] \in 17..20 => pc'[2] \in 1..11 /\ (pc'[2] \in 1..2 => ~key("robot2In")')
  <2>1. CASE pc[1] = 16
    <3>1. ~key("robot2In") /\ ~key("robot2In")' BY <1>3, <2>1
    <3>2. pc[2] \in 1..9 BY <1>1, <3>1 DEF TakerInv
    <3>3. QED BY <1>2, <3>1, <3>2
  <2>2. CASE pc[1] \in 17..19 BY <1>2, <1>3, <2>2 DEF InTurn
  <2>3. QED BY <1>1, <1>2, <2>1, <2>2
<1>8. pc'[1] \in 21..26 => pc'[2] \in 10..11
  <2>1. CASE pc[1] = 20
    <3>1. key("robot2In") BY <1>3, <2>1
    <3>2. pc[2] \in 1..11 /\ pc[2] \notin 1..2 BY <2>1, <3>1 DEF InTurn
    <3>3. pc[2] \notin 3..9 BY <3>1 DEF TakerInv
    <3>4. QED BY <1>2, <3>2, <3>3
  <2>2. CASE pc[1] \in 21..25 BY <1>2, <2>2 DEF InTurn
  <2>3. QED BY <1>1, <1>2, <2>1, <2>2
<1>9. InTurn' BY <1>6, <1>7, <1>8 DEF InTurn
<1>10. QED BY <1>4, <1>5, <1>9

\* The same of the steps in which the two follow each other, if it was not.
LEMMA GiverInStep ==
  ASSUME TypeOK, InPlace, client = "app_dual", stage = 3, GiverInv, TakerInv, InStep, Concludes(1)
  PROVE  InStep'
<1>1. pc[1] \in 1..27 /\ pc[2] \in 1..16 BY DualBranches
<1>2. /\ pc'[2] = pc[2] /\ IF pc[1] = 27 THEN pc'[1] = 1 ELSE pc'[1] = pc[1] + 1
      /\ place(2)' = place(2) /\ (pc[1] \notin {1, 11, 15, 18} => place(1)' = place(1))
      /\ pc[1] = 1 => place(1)' = "ready"
      /\ pc[1] = 11 => place(1)' = "pick"
      /\ pc[1] = 15 => place(1)' = "wait"
      /\ pc[1] = 18 => place(1)' = "drop"
      /\ pc[1] # 26 => at("renamed")' = at("renamed")
      /\ pc[1] = 26 => There("renamed")'
      /\ pc[1] = 17 => at("renamed") = Gone
  BY GiverStep
<1>3. /\ key("robot2In")' = key("robot2In")
      /\ pc[1] \notin {2, 19} => key("robot1In")' = key("robot1In")
      /\ pc[1] = 2 => ~key("robot1In")'
      /\ pc[1] = 19 => key("robot1In")'
      /\ pc[1] = 16 => ~key("robot2In")
      /\ pc[1] = 20 => key("robot2In")
  BY GiverKeys
<1>4. pc'[1] = 27 => There("renamed")' BY <1>1, <1>2
<1>11. CASE pc[2] \in 1..3 /\ pc[1] \in 1..20
  <2>1. /\ pc[1] = 1 => place(1) = "rest"
        /\ pc[1] \in 17..20 => ~key("robot2In")
    BY <1>11 DEF InStep
  <2>2. pc[1] # 20 BY <1>3, <2>1
  <2>3. pc'[1] \in 2..20 /\ (pc'[1] \in 17..20 => ~key("robot2In")')
    BY <1>2, <1>3, <1>11, <2>1, <2>2
  <2>4. QED BY <1>2, <1>11, <2>3 DEF InStep
<1>12. CASE pc[2] \in 4..9 /\ pc[1] = 20
  <2>1. ~key("robot2In") BY <1>12 DEF TakerInv, InStep
  <2>2. QED BY <1>3, <1>12, <2>1
<1>13. CASE pc[2] = 10
  <2>1. CASE pc[1] \in 20..26 BY <1>2, <1>13, <2>1 DEF InStep
  <2>2. CASE pc[1] = 27
    <3>1. key("robot1In") /\ place(1) = "drop" BY <2>2 DEF GiverInv
    <3>2. key("robot1In")' /\ place(1)' = "drop" /\ pc'[1] = 1 BY <1>2, <1>3, <2>2, <3>1
    <3>3. QED BY <1>2, <1>13, <3>2 DEF InStep
  <2>3. CASE pc[1] = 1
    <3>1. key("robot1In") BY <1>13, <2>3 DEF InStep
    <3>2. key("robot1In")' /\ pc'[1] = 2 BY <1>2, <1>3, <2>3, <3>1
    <3>3. QED BY <1>2, <1>13, <3>2 DEF InStep
  <2>4. CASE pc[1] \in 2..15 BY <1>2, <1>13, <2>4 DEF InStep
  <2>5. CASE pc[1] = 16
    <3>1. key("robot2In") BY <1>13 DEF TakerInv
    <3>2. QED BY <1>3, <2>5, <3>1
  <2>6. QED BY <1>1, <1>13, <2>1, <2>2, <2>3, <2>4, <2>5 DEF InStep
<1>14. CASE pc[2] \in 11..16 /\ pc[1] \in 3..16
  <2>1. key("robot2In") BY <1>14 DEF TakerInv
  <2>2. pc[1] # 16 BY <1>3, <2>1
  <2>3. QED BY <1>2, <1>14, <2>2 DEF InStep
<1>15. QED BY <1>11, <1>12, <1>13, <1>14 DEF InStep

\* The taker has let go of what it holds before it removes it, and before the start-up does.
LEMMA RenamedFree ==
  ASSUME TypeOK, InPlace, HeldIsTaken, fresh, client = "app_dual",
         \/ stage = 3 /\ pc[2] = 16
         \/ stage = 1 /\ pc[1] = 11
  PROVE  at("renamed") \in {Gone, InWorld}
<1>1. SUFFICES ASSUME NEW r \in Robots, at("renamed") = r PROVE FALSE
  BY DEF TypeOK, Worlds, at, Objects
<1>2. Len(tree) = 3 /\ tree[3] = <<Giver, Taker>> BY DualTree
<1>3. Takes(tree, 2, "renamed")
  <2>1. tree[Len(tree)][2] = Taker /\ Len(tree[Len(tree)]) = 2 BY <1>2
  <2>2. 12 \in 1..Len(Taker) /\ Taker[12] = Attach(2, "renamed") BY TakerLeaves
  <2>3. 2 \in 1..Len(tree[Len(tree)]) BY <2>1
  <2>4. QED BY <2>1, <2>2, <2>3 DEF Takes
<1>4. r = 2
  <2>1. Takes(tree, r, "renamed") BY <1>1 DEF HeldIsTaken, Objects
  <2>2. QED BY <1>3, <2>1, TreeKnown DEF GivesBack, Objects, Robots
<1>5. CASE stage = 1 /\ pc[1] = 11
  <2>1. 1 \in Branches /\ Leaves(1) = tree[1][1] BY <1>5, DualTree DEF Branches, Leaves
  <2>2. ~Freed(tree[1][1], 11, 2, "renamed") BY <1>1, <1>4, <1>5, <2>1 DEF HeldIsTaken, Objects
  <2>3. tree[1][1][10] = Detach(2, "renamed") BY DualStartUp
  <2>4. 10 \in 1..(11 - 1) /\ \A k \in (10 + 1)..(11 - 1) : tree[1][1][k] \notin {} OBVIOUS
  <2>5. QED BY <2>2, <2>3, <2>4 DEF Freed, Since
<1>6. CASE stage = 3 /\ pc[2] = 16
  <2>1. /\ Leaves(1) = Giver /\ Leaves(2) = Taker /\ Branches = {1, 2} /\ pc[1] \in 1..27
    BY <1>6, DualBranches
  <2>2. PICK c \in Branches : Held(Leaves(c), pc[c], 2, "renamed")
    BY <1>1, <1>4, <1>6 DEF HeldIsTaken, Objects
  <2>3. PICK j \in 1..(pc[c] - 1) :
          /\ Leaves(c)[j] = Attach(2, "renamed")
          /\ \A k \in (j + 1)..(pc[c] - 1) : Leaves(c)[k] # Detach(2, "renamed")
    BY <2>2 DEF Held, Since
  <2>4. Leaves(c)[j].do = "attach" /\ Leaves(c)[j].of = "renamed" BY <2>3, AttachDoes
  <2>5. CASE c = 1
    <3>1. j \in 1..27 /\ Giver[j].do = "attach" /\ Giver[j].of = "renamed" BY <2>1, <2>3, <2>4, <2>5
    <3>2. Giver[14].of = "renamed" BY <3>1, GiverQuiet
    <3>3. Giver[14] = Attach(1, "tube") BY GiverLeaves
    <3>4. QED BY <3>2, <3>3, AttachDoes
  <2>6. CASE c = 2
    <3>1. j \in 1..15 /\ Taker[j].do = "attach" BY <1>6, <2>1, <2>3, <2>4, <2>6
    <3>2. j = 12 BY <3>1, TakerQuiet
    <3>3. 15 \in (j + 1)..(pc[c] - 1) BY <1>6, <2>6, <3>2
    <3>4. Taker[15] = Detach(2, "renamed") BY TakerLeaves
    <3>5. QED BY <2>1, <2>3, <2>6, <3>3, <3>4
  <2>7. QED BY <2>1, <2>5, <2>6
<1>7. QED BY <1>5, <1>6

\* A leaf that removes an object which no robot holds takes it out of the scene.
LEMMA RemoveStep ==
  ASSUME TypeOK, NEW b, Concludes(b), NEW o \in Objects, LeafOf(b) = Remove(o),
         at(o) \in {Gone, InWorld}
  PROVE  at(o)' = Gone
<1>1. Running(b) /\ world' = After(world, LeafOf(b)) BY DEF Concludes, Due
<1>2. Fits(LeafOf(b)) /\ world \in Worlds BY <1>1, AtLeaf DEF TypeOK
<1>3. LeafOf(b).do = "remove" /\ LeafOf(b).of = o BY RemoveDoes
<1>4. world'.at[o] = AtAfter(world, LeafOf(b), o) BY <1>1, <1>2, Effects
<1>5. QED BY <1>3, <1>4 DEF AtAfter, at

\* The handover goes on with a leaf of the taker, whether or not it was misled.
LEMMA TakerHandsOver ==
  ASSUME TypeOK, InPlace, HeldIsTaken, fresh, client = "app_dual", stage = 3,
         GiverInv, TakerInv, InTurn, Concludes(2)
  PROVE  GiverInv' /\ TakerInv' /\ InTurn'
<1>1. pc[1] \in 1..27 /\ pc[2] \in 1..16 BY DualBranches
<1>2. /\ pc'[1] = pc[1] /\ IF pc[2] = 16 THEN pc'[2] = 1 ELSE pc'[2] = pc[2] + 1
      /\ place(1)' = place(1) /\ (pc[2] \notin {1, 8, 13, 14} => place(2)' = place(2))
      /\ pc[2] = 1 => place(2)' = "ready"
      /\ pc[2] = 8 => place(2)' = "insert"
      /\ pc[2] = 13 => place(2)' = "load"
      /\ pc[2] = 14 => place(2)' = "exit"
      /\ pc[2] \notin {12, 15, 16} => at("renamed")' = at("renamed")
      /\ pc[2] = 11 => There("renamed")
  BY TakerStep
<1>3. /\ key("robot1In")' = key("robot1In")
      /\ pc[2] \notin {2, 9} => key("robot2In")' = key("robot2In")
      /\ pc[2] = 2 => ~key("robot2In")'
      /\ pc[2] = 9 => key("robot2In")'
      /\ pc[2] = 3 => key("robot1In")
      /\ pc[2] = 10 => ~key("robot1In")
  BY TakerKeys
<1>4. GiverInv'
  <2>1. pc[1] \in 17..26 => pc[2] \notin {12, 15, 16} BY DEF InTurn
  <2>2. QED BY <1>2, <1>3, <2>1 DEF GiverInv
<1>5. TakerInv' BY <1>1, <1>2, <1>3 DEF TakerInv, There
<1>6. ASSUME pc[2] = 16 PROVE at("renamed")' = Gone
  <2>1. at("renamed") \in {Gone, InWorld} BY <1>6, RenamedFree
  <2>2. LeafOf(2) = Remove("renamed") BY <1>6, DualBranches, TakerLeaves
  <2>3. QED BY <2>1, <2>2, RemoveStep DEF Objects
<1>7. There("renamed")' => pc'[2] \in 10..16
  <2>1. CASE pc[2] = 16 BY <1>6, <2>1 DEF There
  <2>2. CASE pc[2] \in 9..15 BY <1>2, <2>2
  <2>3. CASE pc[2] \in 1..8
    <3>1. at("renamed")' = at("renamed") BY <1>2, <2>3
    <3>2. QED BY <2>3, <3>1 DEF InTurn, There
  <2>4. QED BY <1>1, <2>1, <2>2, <2>3
<1>8. pc[1] \in 17..26 => pc[2] # 11 BY <1>2 DEF GiverInv, There
<1>9. pc'[1] \in 17..20 => pc'[2] \in 1..11 /\ (pc'[2] \in 1..2 => ~key("robot2In")')
  <2>1. SUFFICES ASSUME pc[1] \in 17..20
                 PROVE  pc'[2] \in 1..11 /\ (pc'[2] \in 1..2 => ~key("robot2In")')
    BY <1>2
  <2>2. pc[2] \in 1..10 /\ (pc[2] \in 1..2 => ~key("robot2In")) BY <1>1, <1>8, <2>1 DEF InTurn
  <2>3. QED BY <1>2, <1>3, <2>2
<1>10. pc[1] \notin 21..26
  <2>1. SUFFICES ASSUME pc[1] \in 21..26 PROVE FALSE OBVIOUS
  <2>2. pc[2] = 10 BY <1>8, <2>1 DEF InTurn
  <2>3. QED BY <1>3, <2>1, <2>2 DEF GiverInv
<1>11. InTurn' BY <1>2, <1>7, <1>9, <1>10 DEF InTurn
<1>12. QED BY <1>4, <1>5, <1>11

\* The same of the steps in which the two follow each other, if it was not.
LEMMA TakerInStep ==
  ASSUME TypeOK, InPlace, client = "app_dual", stage = 3, GiverInv, TakerInv, InStep, Concludes(2),
         ~misled'
  PROVE  InStep'
<1>1. pc[1] \in 1..27 /\ pc[2] \in 1..16 BY DualBranches
<1>2. /\ pc'[1] = pc[1] /\ IF pc[2] = 16 THEN pc'[2] = 1 ELSE pc'[2] = pc[2] + 1
      /\ place(1)' = place(1) /\ (pc[2] \notin {1, 8, 13, 14} => place(2)' = place(2))
      /\ pc[2] = 1 => place(2)' = "ready"
      /\ pc[2] = 8 => place(2)' = "insert"
      /\ pc[2] = 13 => place(2)' = "load"
      /\ pc[2] = 14 => place(2)' = "exit"
      /\ pc[2] \notin {12, 15, 16} => at("renamed")' = at("renamed")
      /\ pc[2] = 11 => There("renamed")
      /\ pc[2] = 3 => place(1) = "drop"
  BY TakerStep
<1>3. /\ key("robot1In")' = key("robot1In")
      /\ pc[2] \notin {2, 9} => key("robot2In")' = key("robot2In")
      /\ pc[2] = 2 => ~key("robot2In")'
      /\ pc[2] = 9 => key("robot2In")'
      /\ pc[2] = 3 => key("robot1In")
      /\ pc[2] = 10 => ~key("robot1In")
  BY TakerKeys
<1>4. pc'[1] = 27 => There("renamed")'
  <2>1. pc[1] = 27 => There("renamed") /\ pc[2] = 10 BY DEF InStep
  <2>2. QED BY <1>2, <2>1 DEF There
<1>11. CASE pc[2] \in 1..2
  <2>1. /\ pc[1] \in 1..20
        /\ pc[1] = 1 => place(1) = "rest"
        /\ pc[1] \in 17..20 => ~key("robot2In")
    BY <1>11 DEF InStep
  <2>2. pc[1] \in 17..20 => ~key("robot2In")' BY <1>3, <1>11, <2>1
  <2>3. QED BY <1>2, <1>11, <2>1, <2>2 DEF InStep
<1>12. CASE pc[2] = 3
  <2>1. pc[1] \in 1..20 /\ (pc[1] = 1 => place(1) = "rest") BY <1>12 DEF InStep
  <2>2. pc[1] \in {1} \cup 19..20 BY <1>2, <1>12, <2>1 DEF GiverInv
  <2>3. pc[1] # 1 /\ pc[1] # 19 BY <1>2, <1>3, <1>12, <2>1 DEF GiverInv
  <2>4. QED BY <1>2, <1>12, <2>2, <2>3 DEF InStep
<1>13. CASE pc[2] \in 4..9
  <2>1. pc[1] = 20 BY <1>13 DEF InStep
  <2>2. QED BY <1>2, <1>13, <2>1 DEF InStep
<1>14. CASE pc[2] = 10
  <2>1. ~(pc[1] \in 1..2) /\ ~(pc[1] \in 20..27) BY <1>3, <1>14 DEF InStep, GiverInv
  <2>2. QED BY <1>2, <1>14, <2>1 DEF InStep
<1>15. CASE pc[2] \in 11..15 BY <1>2, <1>15 DEF InStep
<1>16. CASE pc[2] = 16
  <2>1. pc[1] \in 3..16 BY <1>16 DEF InStep
  <2>2. QED BY <1>2, <1>16, <2>1 DEF InStep
<1>17. QED BY <1>1, <1>11, <1>12, <1>13, <1>14, <1>15, <1>16

\* Between start-up and cycle each robot goes to its rest position.
LEMMA GoesToRest ==
  ASSUME TypeOK, InPlace, HandoverInv, client = "app_dual", fresh, stage = 2, NEW b, Concludes(b),
         NEW r \in Robots, pc'[r] = 3
  PROVE  place(r)' = "rest"
<1>1. Running(b) /\ Due(b) /\ Advance(b) BY DEF Concludes, Due
<1>2. /\ Len(tree) = 3 /\ Len(tree[2]) = 2
      /\ tree[2][1][1] = Check(1) /\ tree[2][1][2] = Move(1, "rest") /\ Len(tree[2][1]) = 2
      /\ tree[2][2][1] = Check(2) /\ tree[2][2][2] = Move(2, "rest") /\ Len(tree[2][2]) = 2
  BY DualTree
<1>3. ~Cycling /\ Branches = 1..2 /\ \A c : Leaves(c) = tree[2][c] BY <1>2 DEF Cycling, Branches, Leaves
<1>4. b \in {1, 2} /\ pc[b] \in Nat \ {0} BY <1>1, <1>3, AtLeaf DEF Running
<1>5. /\ LeafOf(b) = tree[2][b][pc[b]] /\ pc[b] <= 2
  <2>1. LeafOf(b) = tree[2][b][pc[b]] /\ pc[b] <= Len(tree[2][b]) BY <1>1, <1>3 DEF LeafOf, Running
  <2>2. CASE b = 1 BY <1>2, <2>1, <2>2
  <2>3. CASE b = 2 BY <1>2, <2>1, <2>3
  <2>4. QED BY <1>4, <2>2, <2>3, <2>1
<1>6. pc'[b] = pc[b] + 1 /\ \A c \in Branches \ {b} : pc'[c] = pc[c] BY <1>1, <1>3, Proceeds
<1>7. CASE pc[b] = 1
  <2>1. LeafOf(b).do = "check" BY <1>2, <1>4, <1>5, <1>7, CheckDoes
  <2>2. r # b BY <1>6, <1>7
  <2>3. pc[r] = 3 BY <1>3, <1>6, <2>2 DEF Robots
  <2>4. place(r) = "rest" BY <2>3 DEF HandoverInv
  <2>5. QED BY <2>1, <2>4, PlaceStays
<1>8. CASE pc[b] = 2
  <2>1. LeafOf(b) = Move(b, "rest") BY <1>2, <1>4, <1>5, <1>8
  <2>2. world'.place[b] = "rest" /\ \A q \in Robots : q # b => world'.place[q] = world.place[q]
    BY <1>4, <2>1, MoveStep DEF Robots, Places
  <2>3. CASE r = b BY <2>2, <2>3 DEF place
  <2>4. CASE r # b
    <3>1. pc[r] = 3 BY <1>3, <1>6, <2>4 DEF Robots
    <3>2. place(r) = "rest" BY <3>1 DEF HandoverInv
    <3>3. QED BY <2>2, <2>4, <3>2 DEF place
  <2>5. QED BY <2>3, <2>4
<1>9. QED BY <1>4, <1>5, <1>7, <1>8

\* What the start-up has removed stays away until the cycle.
LEMMA RenamedAbsent ==
  ASSUME TypeOK, InPlace, HeldIsTaken, HandoverInv, client = "app_dual", fresh, NEW b, Concludes(b)
  PROVE  /\ stage = 1 /\ pc'[1] = 12 => at("renamed")' = Gone
         /\ stage = 2 => at("renamed")' = Gone
<1>1. Running(b) /\ Due(b) /\ Advance(b) BY DEF Concludes, Due
<1>2. /\ Len(tree) = 3 /\ Len(tree[1]) = 1 /\ Len(tree[1][1]) = 11 /\ Len(tree[2]) = 2
      /\ Len(tree[2][1]) = 2 /\ tree[2][1][1] = Check(1) /\ tree[2][1][2] = Move(1, "rest")
      /\ Len(tree[2][2]) = 2 /\ tree[2][2][1] = Check(2) /\ tree[2][2][2] = Move(2, "rest")
  BY DualTree
<1>3. b \in Branches /\ pc[b] \in 1..Len(Leaves(b)) BY <1>1, AtLeaf
<1>4. ASSUME stage = 1, pc'[1] = 12 PROVE at("renamed")' = Gone
  <2>1. Branches = 1..1 /\ ~Cycling /\ Leaves(1) = tree[1][1]
    <3>1. Branches = 1..1 BY <1>2, <1>4 DEF Branches
    <3>2. ~Cycling BY <1>2, <1>4 DEF Cycling
    <3>3. Leaves(1) = tree[1][1] BY <1>4 DEF Leaves
    <3>4. QED BY <3>1, <3>2, <3>3
  <2>2. b = 1 BY <1>3, <2>1
  <2>3. pc'[1] = pc[1] + 1 BY <1>1, <2>1, <2>2, Proceeds
  <2>4. pc[1] = 11 BY <1>3, <1>4, <2>2, <2>3
  <2>5. LeafOf(1) = Remove("renamed") BY <2>1, <2>4, DualStartUp DEF LeafOf
  <2>6. at("renamed") \in {Gone, InWorld} BY <1>4, <2>4, RenamedFree
  <2>7. QED BY <2>2, <2>5, <2>6, RemoveStep DEF Objects
<1>5. ASSUME stage = 2 PROVE at("renamed")' = Gone
  <2>1. Branches = 1..2 /\ Leaves(b) = tree[2][b] BY <1>2, <1>5 DEF Branches, Leaves
  <2>2. LeafOf(b) \in {Check(1), Check(2), Move(1, "rest"), Move(2, "rest")}
    <3>1. CASE b = 1 BY <1>2, <1>3, <2>1, <3>1 DEF LeafOf
    <3>2. CASE b = 2 BY <1>2, <1>3, <2>1, <3>2 DEF LeafOf
    <3>3. QED BY <1>3, <2>1, <3>1, <3>2
  <2>3. LeafOf(b).of = "" BY <2>2, CheckDoes, MoveDoes
  <2>4. at("renamed")' = at("renamed") BY <2>3, AtStays DEF Objects
  <2>5. at("renamed") = Gone BY <1>5 DEF HandoverInv
  <2>6. QED BY <2>4, <2>5
<1>6. QED BY <1>4, <1>5

\* A leaf of the two robots' client.
LEMMA ConcludesHandover ==
  ASSUME TypeOK, InPlace, HeldIsTaken, HandoverInv, NEW b, Concludes(b)
  PROVE  HandoverInv'
<1>1. /\ client' = client /\ stage' = stage /\ (fresh' => fresh) /\ (misled => misled')
      /\ Running(b)
  BY DEF Concludes, Advance, Due
<1>2. SUFFICES ASSUME client = "app_dual", fresh
               PROVE  /\ stage = 1 /\ pc'[1] = 12 => at("renamed")' = Gone
                      /\ stage = 2 => /\ at("renamed")' = Gone
                                      /\ \A r \in Robots : pc'[r] = 3 => place(r)' = "rest"
                      /\ stage = 3 => GiverInv' /\ TakerInv' /\ InTurn' /\ (misled' \/ InStep')
  BY <1>1 DEF HandoverInv
<1>3. ASSUME stage = 3 PROVE GiverInv' /\ TakerInv' /\ InTurn' /\ (misled' \/ InStep')
  <2>1. GiverInv /\ TakerInv /\ InTurn /\ (misled \/ InStep) BY <1>2, <1>3 DEF HandoverInv
  <2>2. b \in {1, 2} BY <1>1, <1>2, <1>3, DualBranches DEF Running
  <2>3. GiverInv' /\ TakerInv' /\ InTurn'
    BY <1>2, <1>3, <2>1, <2>2, GiverHandsOver, TakerHandsOver
  <2>4. misled' \/ InStep' BY <1>1, <1>2, <1>3, <2>1, <2>2, GiverInStep, TakerInStep
  <2>5. QED BY <2>3, <2>4
<1>4. QED BY <1>2, <1>3, GoesToRest, RenamedAbsent

\* The end of a stage of the two robots' client.
LEMMA EndStageHandover ==
  ASSUME TypeOK, InPlace, HandoverInv, EndStage
  PROVE  HandoverInv'
<1>1. /\ client' = client /\ world' = world /\ (fresh' => fresh) /\ stage' = stage + 1
      /\ pc' = <<1, 1>> /\ \A r \in Robots : pc'[r] = 1
  BY DEF EndStage, Robots
<1>2. SUFFICES ASSUME client = "app_dual", fresh
               PROVE  /\ stage = 1 => at("renamed")' = Gone
                      /\ stage = 2 => GiverInv' /\ TakerInv' /\ InTurn' /\ InStep'
  BY <1>1 DEF HandoverInv, TypeOK
<1>3. ASSUME stage = 1 PROVE at("renamed")' = Gone
  <2>1. Len(tree[1]) = 1 /\ Len(tree[1][1]) = 11 BY <1>2, DualTree
  <2>2. 1 \in Branches /\ Leaves(1) = tree[1][1] BY <1>3, <2>1 DEF Branches, Leaves
  <2>3. pc[1] = 12
    <3> DEFINE n == Len(Leaves(1))
    <3>1. pc[1] = n + 1 /\ n = 11 BY <2>1, <2>2, Ended
    <3> HIDE DEF n
    <3>2. QED BY <3>1
  <2>4. at("renamed") = Gone BY <1>2, <1>3, <2>3 DEF HandoverInv
  <2>5. QED BY <1>1, <2>4 DEF at
<1>4. ASSUME stage = 2 PROVE GiverInv' /\ TakerInv' /\ InTurn' /\ InStep'
  <2>1. Len(tree[2]) = 2 /\ Len(tree[2][1]) = 2 /\ Len(tree[2][2]) = 2 BY <1>2, DualTree
  <2>2. 1 \in Branches /\ 2 \in Branches /\ Leaves(1) = tree[2][1] /\ Leaves(2) = tree[2][2]
    BY <1>4, <2>1 DEF Branches, Leaves
  <2>3. pc[1] = 3 /\ pc[2] = 3
    <3> DEFINE n1 == Len(Leaves(1))
               n2 == Len(Leaves(2))
    <3>1. pc[1] = n1 + 1 /\ n1 = 2 /\ pc[2] = n2 + 1 /\ n2 = 2 BY <2>1, <2>2, Ended
    <3> HIDE DEF n1, n2
    <3>2. QED BY <3>1
  <2>4. place(1) = "rest" /\ place(2) = "rest" /\ at("renamed") = Gone
    BY <1>2, <1>4, <2>3 DEF HandoverInv, Robots
  <2>5. place(1)' = "rest" /\ place(2)' = "rest" /\ at("renamed")' = Gone
    BY <1>1, <2>4 DEF place, at
  <2>6. pc'[1] = 1 /\ pc'[2] = 1 BY <1>1 DEF Robots
  <2>7. QED BY <2>5, <2>6 DEF GiverInv, TakerInv, InTurn, InStep, There
<1>5. QED BY <1>3, <1>4

-----------------------------------------------------------------------------
(* The invariant.                                                          *)

\* Every client starts in the invariant.
LEMMA InitInv == Init => AppInv
<1> SUFFICES ASSUME Init PROVE AppInv
  OBVIOUS
<1>1. /\ client \in DOMAIN TreeOf /\ stage = 1 /\ pc = <<1, 1>> /\ faults = 0 /\ fresh = TRUE /\ misled = FALSE
      /\ \A c \in Robots : pc[c] = 1
  BY DEF Init, Robots
<1>2. PICK shut \in SUBSET Robots :
        world = [at |-> [o \in Objects |-> Gone], closed |-> shut,
                 place |-> <<"rest", "rest">>, keys |-> [k \in Keys |-> FALSE]]
  BY DEF Init
<1>3. WellFormed(tree) BY <1>1, TreesAssumption DEF tree
<1>4. Len(tree) \in {2, 3} /\ Len(tree[1]) \in {1, 2} BY <1>3 DEF WellFormed
<1>5. TypeOK
  <2>1. <<"rest", "rest">> \in [Robots -> Places] BY DEF Robots, Places
  <2>2. world \in Worlds BY <1>2, <2>1 DEF Worlds
  <2>3. pc \in [Robots -> Nat \ {0}] BY <1>1 DEF Robots
  <2>4. stage \in 1..Len(tree) BY <1>1, <1>4
  <2>5. faults \in 0..MaxFaults BY <1>1, MaxFaultsAssumption
  <2>6. fresh \in BOOLEAN /\ misled \in BOOLEAN BY <1>1
  <2>7. client \in DOMAIN TreeOf BY <1>1
  <2>8. QED BY <2>2, <2>3, <2>4, <2>5, <2>6, <2>7 DEF TypeOK
<1>6. Branches \subseteq Robots /\ ~Cycling
  <2>1. Branches = 1..Len(tree[1]) BY <1>1 DEF Branches
  <2>2. Branches \subseteq Robots BY <1>4, <2>1, UpToTwo DEF Robots
  <2>3. ~Cycling BY <1>1, <1>4 DEF Cycling
  <2>4. QED BY <2>2, <2>3
<1>7. InPlace
  <2>1. \A c \in Branches : Len(Leaves(c)) \in Nat \ {0}
    BY <1>5, TreeKnown DEF WellFormed, Branches, Leaves
  <2>2. QED BY <1>1, <1>6, <2>1 DEF InPlace
<1>8. HeldIsTaken BY <1>2 DEF HeldIsTaken, at, Robots
<1>9. ShutIsClosed BY <1>1, <1>6, SinceStart DEF ShutIsClosed, Shut
<1>10. SceneIsPrepared BY <1>1, <1>6, SinceStart DEF SceneIsPrepared, Present, Absent
<1>11. CameraInv /\ HandoverInv BY <1>1 DEF CameraInv, HandoverInv, Robots
<1>12. QED BY <1>5, <1>7, <1>8, <1>9, <1>10, <1>11 DEF AppInv

\* A leaf that concludes.
LEMMA ConcludesInv == ASSUME AppInv, NEW b, Concludes(b) PROVE AppInv'
BY ConcludesTypes, ConcludesHeld, ConcludesShut, ConcludesScene, ConcludesCamera, ConcludesHandover
   DEF AppInv

\* A leaf that fails of itself starts the tree over.
LEMMA FailsInv == ASSUME AppInv, NEW b, FailsWithoutFault(b) PROVE AppInv'
<1>1. world' = world /\ faults' = faults /\ Restart BY DEF FailsWithoutFault
<1>2. world' \in LeftBehind BY <1>1 DEF LeftBehind
<1>3. faults' \in 0..MaxFaults BY <1>1 DEF AppInv, TypeOK
<1>4. QED BY <1>1, <1>2, <1>3, RestartInv DEF AppInv

\* A fault is passed over or starts the tree over.
LEMMA FaultInv == ASSUME AppInv, NEW b, Fault(b) PROVE AppInv'
<1>1. Due(b) /\ faults' \in 0..MaxFaults BY MaxFaultsAssumption DEF Fault, AppInv, TypeOK
<1>2. CASE Swallowed(LeafOf(b))
  <2>1. Advance(b) /\ fresh' = FALSE /\ UNCHANGED <<world, misled>> BY <1>2 DEF Fault
  <2>2. QED BY <1>1, <2>1, PassedOver
<1>3. CASE ~Swallowed(LeafOf(b))
  <2>1. Restart /\ world' \in LeftBehind BY <1>3 DEF Fault
  <2>2. QED BY <1>1, <2>1, RestartInv DEF AppInv
<1>4. QED BY <1>2, <1>3

\* The inductive invariant of the applications holds in every reachable state, whatever
\* leaves fail and whenever RESET is pressed, however often.
THEOREM AppInvariance == Spec => []AppInv
<1>1. AppInv /\ [Next]_vars => AppInv'
  <2> SUFFICES ASSUME AppInv, [Next]_vars PROVE AppInv'
    OBVIOUS
  <2>1. ASSUME NEW b \in {1, 2}, Concludes(b) PROVE AppInv' BY <2>1, ConcludesInv
  <2>2. ASSUME NEW b \in {1, 2}, FailsWithoutFault(b) PROVE AppInv' BY <2>2, FailsInv
  <2>3. ASSUME NEW b \in {1, 2}, Fault(b) PROVE AppInv' BY <2>3, FaultInv
  <2>4. CASE EndStage BY <2>4, EndStageInv, EndStageCamera, EndStageHandover DEF AppInv
  <2>5. CASE UNCHANGED vars
    BY <2>5 DEF vars, AppInv, TypeOK, InPlace, HeldIsTaken, ShutIsClosed, SceneIsPrepared,
                CameraInv, HandoverInv, GiverInv, TakerInv, InTurn, InStep, tree, Branches, Leaves, Cycling,
                at, There, place, key
  <2>6. QED BY <2>1, <2>2, <2>3, <2>4, <2>5 DEF Next
<1>2. QED BY <1>1, InitInv, PTL DEF Spec

-----------------------------------------------------------------------------
(* What follows from it.                                                   *)

\* In the invariant no robot moves an object in open jaws.
LEMMA HeldIsShut == AppInv => MovesWhatItHolds
<1> SUFFICES ASSUME AppInv, fresh, NEW r \in Robots, NEW o \in Objects,
                    Moving(r, Places, {}), HasGripper(tree, r), at(o) = r
             PROVE  r \in world.closed
  BY DEF MovesWhatItHolds
<1> USE DEF AppInv
<1>1. PICK b \in Branches : Running(b) /\ LeafOf(b).do = "move" /\ LeafOf(b).robot = r
  BY DEF Moving
<1>2. Takes(tree, r, o) BY DEF HeldIsTaken
<1>3. pc[b] \in 1..Len(Leaves(b)) BY <1>1, AtLeaf
<1>4. CASE stage = 1
  <2>1. ~Freed(Leaves(b), pc[b], r, o) BY <1>4 DEF HeldIsTaken
  <2>2. \A c \in 1..Len(tree[1]) : \A i \in 1..Len(tree[1][c]) :
          tree[1][c][i].do = "move" /\ tree[1][c][i].robot = r => Freed(tree[1][c], i, r, o)
    BY <1>2, TreeKnown DEF GivesBack
  <2>3. QED BY <1>1, <1>3, <1>4, <2>1, <2>2 DEF Branches, Leaves, LeafOf
<1>5. CASE stage # 1
  <2>1. PICK c \in Branches : Cycling /\ Held(Leaves(c), pc[c], r, o) BY <1>5 DEF HeldIsTaken
  <2>2. PICK j \in 1..(pc[c] - 1) : Leaves(c)[j] = Attach(r, o) BY <2>1 DEF Held, Since
  <2>3. Leaves(c)[j].robot = r BY <2>2, AttachDoes
  <2>4. j \in 1..Len(Leaves(c)) BY <2>2, BranchBound
  <2>5. c = b BY <1>1, <1>3, <2>3, <2>4, OneBranch DEF LeafOf
  <2>6. \A d \in 1..Len(tree[Len(tree)]) : \A i \in 1..Len(tree[Len(tree)][d]) :
          /\ tree[Len(tree)][d][i].do = "move" /\ tree[Len(tree)][d][i].robot = r
          /\ Held(tree[Len(tree)][d], i, r, o)
          => Shut(tree[Len(tree)][d], i, r)
    BY <1>2, TreeKnown DEF GivesBack
  <2>7. Shut(Leaves(b), pc[b], r)
    BY <1>1, <1>3, <2>1, <2>5, <2>6 DEF Cycling, Branches, Leaves, LeafOf
  <2>8. QED BY <2>7 DEF ShutIsClosed
<1>6. QED BY <1>4, <1>5

\* An object that is there can be taken: no other robot holds it.
LEMMA AttachFinds ==
  ASSUME TypeOK, HeldIsTaken, NEW b, Running(b), LeafOf(b).do = "attach",
         LeafOf(b).of \in Objects, There(LeafOf(b).of)
  PROVE  at(LeafOf(b).of) \in {InWorld, LeafOf(b).robot}
<1> DEFINE l == LeafOf(b)
<1>1. Takes(tree, l.robot, l.of) BY AttachTakes
<1>2. l.robot \in Robots BY AtLeaf, Kinds
<1>3. at(l.of) \in {InWorld} \cup Robots BY DEF TypeOK, Worlds, There, at
<1>4. ASSUME at(l.of) \in Robots PROVE at(l.of) = l.robot
  <2>1. Takes(tree, at(l.of), l.of) BY <1>4 DEF HeldIsTaken
  <2>2. QED BY <1>1, <1>2, <1>4, <2>1, TreeKnown DEF GivesBack
<1>5. QED BY <1>3, <1>4

\* A leaf whose object its own branch has prepared does not fail of itself.
LEMMA PreparedSucceeds ==
  ASSUME AppInv, fresh, NEW b, Running(b), Prepared(tree, stage, b, pc[b])
  PROVE  ~FailsByItself(LeafOf(b))
<1> DEFINE l == LeafOf(b)
<1> USE DEF AppInv
<1>1. b \in Branches /\ Fits(l) BY AtLeaf
<1>2. l = tree[stage][b][pc[b]] /\ Leaves(b) = tree[stage][b] BY DEF LeafOf, Leaves
<1>3. ASSUME l.do = "add" PROVE ~There(l.of)
  <2>1. /\ Sole(tree, stage, b, l.of) /\ Absent(Leaves(b), pc[b], l.of)
        /\ \A r \in Robots : ~Takes(tree, r, l.of)
    BY <1>2, <1>3 DEF Prepared
  <2>2. l.of \in Objects BY <1>1, <1>3, Kinds
  <2>3. at(l.of) = Gone BY <1>1, <2>1, <2>2 DEF SceneIsPrepared
  <2>4. QED BY <2>3 DEF There
<1>4. ASSUME l.do \in {"pose", "exists", "attach"} PROVE l.of \in Objects /\ There(l.of)
  <2>1. l.of \in Objects /\ Sole(tree, stage, b, l.of) /\ Present(Leaves(b), pc[b], l.of)
    BY <1>2, <1>4 DEF Prepared
  <2>2. QED BY <1>1, <2>1 DEF SceneIsPrepared
<1>5. ASSUME l.do = "attach" PROVE at(l.of) \in {InWorld, l.robot}
  <2>1. l.of \in Objects /\ There(l.of) BY <1>4, <1>5
  <2>2. QED BY <1>5, <2>1, AttachFinds
<1>6. QED BY <1>3, <1>4, <1>5 DEF FailsByItself

\* All leaves are prepared by their own branch but those that are handed something.
LEMMA Alone ==
  ASSUME AppInv, NEW b, Running(b), client # "app_dual", ~Handed(client, stage, b, pc[b])
  PROVE  Prepared(tree, stage, b, pc[b])
<1>1. stage \in 1..Len(tree) /\ client \in DOMAIN TreeOf BY DEF AppInv, TypeOK
<1>2. b \in Branches /\ pc[b] \in 1..Len(Leaves(b)) BY AtLeaf DEF AppInv
<1>3. QED BY <1>1, <1>2, TreesAssumption DEF tree, Branches, Leaves

\* The camera adds, and the robot takes, what the keys promise.
LEMMA CameraSucceeds ==
  ASSUME AppInv, fresh, client = "foundationpose", NEW b, Running(b), FailsByItself(LeafOf(b))
  PROVE  ~key("created")
<1> USE DEF AppInv
<1>1. stage = 2 /\ pc[b] = 5 /\ b \in {1, 2}
  <2>1. stage = 2 /\ pc[b] = 5 BY Alone, PreparedSucceeds DEF Handed
  <2>2. QED BY <2>1, AtLeaf DEF Robots
<1>2. CASE b = 1 BY <1>1, <1>2 DEF CameraInv
<1>3. CASE b = 2
  <2>1. stage = 2 /\ b = 2 /\ pc[2] = 5 BY <1>1, <1>3
  <2>2. tree[2] = <<CameraCycle, PickerCycle>> BY CameraTree
  <2>3. LeafOf(2) = PickerCycle[5] BY <2>1, <2>2 DEF LeafOf, Leaves
  <2>4. LeafOf(2) = Attach(1, "part") BY <2>3, PickerLeaves
  <2>5. LeafOf(2).do = "attach" /\ LeafOf(2).of = "part" BY <2>4, AttachDoes
  <2>6. ~There("part") BY <2>1, <2>5, AttachFinds DEF FailsByItself, Objects
  <2>7. QED BY <2>1, <2>6 DEF CameraInv
<1>4. QED BY <1>1, <1>2, <1>3

\* The giver leaves the tube in the scene until it renames it, and the endplate
\* from its reset on.
LEMMA GiverOffers ==
  /\ Present(Giver, 20, "tube") /\ Present(Giver, 20, "endplate")
<1>1. \A i \in 5..19 : ~(Giver[i].do = "remove" /\ Giver[i].of = "tube") BY GiverQuiet
<1>2. \A i \in 9..19 : ~(Giver[i].do = "remove" /\ Giver[i].of = "endplate") BY GiverQuiet
<1>3. \A i \in 5..19 : Giver[i] # Remove("tube") BY <1>1, RemoveDoes
<1>4. \A i \in 9..19 : Giver[i] # Remove("endplate") BY <1>2, RemoveDoes
<1>5. Giver[4] \in Adding("tube") /\ Giver[8] \in Adding("endplate") BY GiverLeaves DEF Adding
<1>6. 4 \in 1..(20 - 1) /\ \A k \in (4 + 1)..(20 - 1) : Giver[k] \notin {Remove("tube")} BY <1>3
<1>7. 8 \in 1..(20 - 1) /\ \A k \in (8 + 1)..(20 - 1) : Giver[k] \notin {Remove("endplate")} BY <1>4
<1>8. Present(Giver, 20, "tube") BY <1>5, <1>6 DEF Present, Since
<1>9. Present(Giver, 20, "endplate") BY <1>5, <1>7 DEF Present, Since
<1>10. QED BY <1>8, <1>9

\* Robot 1 takes the tube and robot 2 the renamed one, and nothing else.
LEMMA DualTakes ==
  ASSUME client = "app_dual", NEW r, NEW o \in {"slider", "endplate"}
  PROVE  ~Takes(tree, r, o)
<1>1. SUFFICES ASSUME Takes(tree, r, o) PROVE FALSE OBVIOUS
<1>2. Len(tree) = 3 /\ tree[3] = <<Giver, Taker>> BY DualTree
<1>3. PICK b \in 1..2 : \E i \in 1..Len(tree[3][b]) : tree[3][b][i] = Attach(r, o)
  BY <1>1, <1>2 DEF Takes
<1>4. PICK i \in 1..Len(tree[3][b]) : tree[3][b][i] = Attach(r, o) BY <1>3
<1>5. tree[3][b][i].do = "attach" /\ tree[3][b][i].of = o BY <1>4, AttachDoes
<1>6. CASE b = 1
  <2>1. i \in 1..27 /\ Giver[i].do = "attach" /\ Giver[i].of = o
    <3>1. tree[3][b] = Giver BY <1>2, <1>6
    <3>2. Len(Giver) = 27 BY GiverLeaves
    <3>3. i \in 1..Len(Giver) BY <3>1
    <3>4. i \in 1..27 BY <3>2, <3>3
    <3>5. QED BY <1>5, <3>1, <3>4
  <2>2. Giver[14].of = o BY <2>1, GiverQuiet
  <2>3. Giver[14] = Attach(1, "tube") BY GiverLeaves
  <2>4. QED BY <2>2, <2>3, AttachDoes
<1>7. CASE b = 2
  <2>1. i \in 1..16 /\ Taker[i].do = "attach" /\ Taker[i].of = o
    <3>1. tree[3][b] = Taker BY <1>2, <1>7
    <3>2. Len(Taker) = 16 BY TakerLeaves
    <3>3. i \in 1..Len(Taker) BY <3>1
    <3>4. i \in 1..16 BY <3>2, <3>3
    <3>5. QED BY <1>5, <3>1, <3>4
  <2>2. Taker[12].of = o BY <2>1, TakerQuiet
  <2>3. Taker[12] = Attach(2, "renamed") BY TakerLeaves
  <2>4. QED BY <2>2, <2>3, AttachDoes
<1>8. QED BY <1>6, <1>7

\* The taker only removes the renamed tube, and adds nothing.
LEMMA DualSole ==
  ASSUME client = "app_dual", NEW o, o # "renamed"
  PROVE  Sole(tree, 3, 1, o)
<1>1. Len(tree) = 3 /\ tree[3] = <<Giver, Taker>> BY DualTree
<1>2. SUFFICES ASSUME NEW i \in 1..16, Taker[i] \in Adding(o) \cup {Remove(o)} PROVE FALSE
  BY <1>1, TakerLeaves DEF Sole
<1>3. Taker[i].do \in {"ensure", "add", "remove"} /\ Taker[i].of = o
  BY <1>2, EnsureDoes, AddDoes, RemoveDoes DEF Adding
<1>4. i = 16 BY <1>3, TakerQuiet
<1>5. Taker[16] = Remove("renamed") BY TakerLeaves
<1>6. Taker[16].of = "renamed" BY <1>5, RemoveDoes
<1>7. QED BY <1>3, <1>4, <1>6

\* What the giver has removed before it adds it again, and what it has made sure of.
LEMMA GiverPrepares ==
  /\ Absent(Giver, 6, "slider") /\ Absent(Giver, 8, "endplate")
  /\ \A i \in {9, 10, 14, 24} : Present(Giver, i, "tube")
<1>1. Giver[5] = Remove("slider") /\ Giver[7] = Remove("endplate") /\ Giver[4] = Ensure("tube")
  BY GiverLeaves
<1>2. Absent(Giver, 6, "slider")
  <2>1. 5 \in 1..(6 - 1) /\ \A k \in (5 + 1)..(6 - 1) : Giver[k] \notin Adding("slider") OBVIOUS
  <2>2. QED BY <1>1, <2>1 DEF Absent, Since
<1>3. Absent(Giver, 8, "endplate")
  <2>1. 7 \in 1..(8 - 1) /\ \A k \in (7 + 1)..(8 - 1) : Giver[k] \notin Adding("endplate") OBVIOUS
  <2>2. QED BY <1>1, <2>1 DEF Absent, Since
<1>4. ASSUME NEW i \in {9, 10, 14, 24} PROVE Present(Giver, i, "tube")
  <2>1. \A k \in 5..23 : ~(Giver[k].do = "remove" /\ Giver[k].of = "tube") BY GiverQuiet
  <2>2. \A k \in 5..23 : Giver[k] # Remove("tube") BY <2>1, RemoveDoes
  <2>3. 4 \in 1..(i - 1) /\ \A k \in (4 + 1)..(i - 1) : Giver[k] \notin {Remove("tube")} BY <2>2
  <2>4. Giver[4] \in Adding("tube") BY <1>1 DEF Adding
  <2>5. QED BY <2>3, <2>4 DEF Present, Since
<1>5. QED BY <1>2, <1>3, <1>4

\* The start-up's leaves that could fail are the two that add an object.
LEMMA StartUpQuiet ==
  ASSUME client = "app_dual", NEW i \in 1..11, i \notin {3, 5}
  PROVE  tree[1][1][i].do \notin {"add", "pose", "exists", "attach"}
<1> DEFINE q == tree[1][1]
<1>1. /\ q[1] = Ensure("machine") /\ q[2] = Remove("slider") /\ q[4] = Remove("endplate")
      /\ q[6] = Grip(1, "open") /\ q[7] = Detach(1, "tube") /\ q[8] = Sensor(1)
      /\ q[9] = Remove("tube") /\ q[10] = Detach(2, "renamed") /\ q[11] = Remove("renamed")
  BY DualStartUp
<1> HIDE DEF q
<1>2. q[1].do = "ensure" BY <1>1, EnsureDoes
<1>3. q[2].do = "remove" /\ q[4].do = "remove" /\ q[9].do = "remove" /\ q[11].do = "remove"
  BY <1>1, RemoveDoes
<1>4. q[6].do = "grip" BY <1>1, GripDoes
<1>5. q[7].do = "detach" /\ q[10].do = "detach" BY <1>1, DetachDoes
<1>6. q[8].do = "sensor" BY <1>1, SensorDoes
<1>7. q[i].do \notin {"add", "pose", "exists", "attach"} BY <1>2, <1>3, <1>4, <1>5, <1>6
<1>8. QED BY <1>7 DEF q

\* The two robots' leaves are prepared by their own branch, but for those that are
\* handed something.
LEMMA DualPrepared ==
  ASSUME AppInv, client = "app_dual", NEW b, Running(b), ~Handed(client, stage, b, pc[b])
  PROVE  Prepared(tree, stage, b, pc[b])
<1> DEFINE i == pc[b]
           l == LeafOf(b)
           Quiet == l.do \notin {"add", "pose", "exists", "attach"}
<1> USE DEF AppInv
<1>1. b \in Branches /\ i \in 1..Len(Leaves(b)) /\ stage \in 1..Len(tree) BY AtLeaf DEF TypeOK
<1>2. l = tree[stage][b][i] /\ Leaves(b) = tree[stage][b] BY DEF LeafOf, Leaves
<1>3. Quiet => Prepared(tree, stage, b, i) BY <1>2 DEF Prepared
<1>4. CASE stage = 1
  <2>1. Len(tree[1]) = 1 /\ Len(tree[1][1]) = 11 BY DualTree
  <2>2. b = 1 /\ i \in 1..11 BY <1>1, <1>2, <1>4, <2>1 DEF Branches
  <2>3. \A o : Sole(tree, 1, 1, o) BY <2>1 DEF Sole
  <2>4. CASE i = 3
    <3>1. tree[1][1][2] = Remove("slider") /\ l = Add("slider") BY <1>2, <1>4, <2>2, <2>4, DualStartUp
    <3>2. l.do = "add" /\ l.of = "slider" BY <3>1, AddDoes
    <3>3. 2 \in 1..(3 - 1) /\ \A k \in (2 + 1)..(3 - 1) : tree[1][1][k] \notin Adding("slider")
      OBVIOUS
    <3>4. Absent(tree[1][1], 3, "slider") BY <3>1, <3>3 DEF Absent, Since
    <3>5. QED BY <1>2, <1>4, <2>2, <2>3, <2>4, <3>2, <3>4, DualTakes DEF Prepared
  <2>5. CASE i = 5
    <3>1. tree[1][1][4] = Remove("endplate") /\ l = Add("endplate")
      BY <1>2, <1>4, <2>2, <2>5, DualStartUp
    <3>2. l.do = "add" /\ l.of = "endplate" BY <3>1, AddDoes
    <3>3. 4 \in 1..(5 - 1) /\ \A k \in (4 + 1)..(5 - 1) : tree[1][1][k] \notin Adding("endplate")
      OBVIOUS
    <3>4. Absent(tree[1][1], 5, "endplate") BY <3>1, <3>3 DEF Absent, Since
    <3>5. QED BY <1>2, <1>4, <2>2, <2>3, <2>5, <3>2, <3>4, DualTakes DEF Prepared
  <2>6. CASE i \notin {3, 5} BY <1>2, <1>3, <1>4, <2>2, <2>6, StartUpQuiet
  <2>7. QED BY <2>4, <2>5, <2>6
<1>5. CASE stage = 2
  <2>1. /\ Len(tree[2]) = 2 /\ Len(tree[2][1]) = 2 /\ Len(tree[2][2]) = 2
        /\ tree[2][1][1] = Check(1) /\ tree[2][1][2] = Move(1, "rest")
        /\ tree[2][2][1] = Check(2) /\ tree[2][2][2] = Move(2, "rest")
    BY DualTree
  <2>2. b \in {1, 2} BY <1>1, <1>5, <2>1 DEF Branches
  <2>3. i \in {1, 2}
    <3>1. CASE b = 1 BY <1>1, <1>2, <1>5, <2>1, <3>1
    <3>2. CASE b = 2 BY <1>1, <1>2, <1>5, <2>1, <3>2
    <3>3. QED BY <2>2, <3>1, <3>2
  <2>4. l \in {Check(1), Check(2), Move(1, "rest"), Move(2, "rest")} BY <1>2, <1>5, <2>1, <2>2, <2>3
  <2>5. l.do \in {"check", "move"} BY <2>4, CheckDoes, MoveDoes
  <2>6. QED BY <1>3, <2>5
<1>6. CASE stage = 3
  <2>1. /\ Branches = {1, 2} /\ pc[1] \in 1..27 /\ pc[2] \in 1..16
        /\ LeafOf(1) = Giver[pc[1]] /\ LeafOf(2) = Taker[pc[2]]
    BY <1>6, DualBranches
  <2>2. tree[3][1] = Giver /\ tree[3][2] = Taker BY DualTree
  <2>3. CASE b = 2
    <3>1. i \notin {4, 5, 6, 7, 12} BY <1>6, <2>3 DEF Handed
    <3>2. Quiet BY <2>1, <2>3, <3>1, TakerQuiet
    <3>3. QED BY <1>3, <3>2
  <2>4. CASE b = 1
    <3>1. i \notin {26, 27} BY <1>6, <2>4 DEF Handed
    <3>2. CASE i \in {6, 8}
      <4>1. PICK o \in {"slider", "endplate"} : l = Add(o) /\ Absent(Giver, i, o)
        BY <2>1, <2>4, <3>2, GiverLeaves, GiverPrepares
      <4>2. l.do = "add" /\ l.of = o BY <4>1, AddDoes
      <4>3. Sole(tree, 3, 1, o) BY <4>1, DualSole
      <4>4. QED BY <1>2, <1>6, <2>2, <2>4, <4>1, <4>2, <4>3, DualTakes DEF Prepared
    <3>3. CASE i \in {9, 10, 14, 24}
      <4>1. l = Pose("tube") \/ l = Attach(1, "tube") BY <2>1, <2>4, <3>3, GiverLeaves
      <4>2. l.do \in {"pose", "attach"} /\ l.of = "tube" BY <4>1, PoseDoes, AttachDoes
      <4>3. Sole(tree, 3, 1, "tube") /\ Present(Giver, i, "tube") BY <3>3, DualSole, GiverPrepares
      <4>4. QED BY <1>2, <1>6, <2>2, <2>4, <4>2, <4>3 DEF Prepared, Objects
    <3>4. CASE i \notin {6, 8, 9, 10, 14, 24}
      <4>1. Quiet BY <2>1, <2>4, <3>1, <3>4, GiverQuiet
      <4>2. QED BY <1>3, <4>1
    <3>5. QED BY <3>2, <3>3, <3>4
  <2>5. QED BY <1>1, <2>1, <2>3, <2>4
<1>7. stage \in 1..3 BY <1>1, DualTree
<1>8. QED BY <1>4, <1>5, <1>6, <1>7

\* While the giver waits for the taker (20), the taker finds both.
LEMMA TakerFinds ==
  ASSUME AppInv, fresh, client = "app_dual", stage = 3, pc[1] = 20
  PROVE  There("tube") /\ There("endplate")
<1>1. 1 \in Branches /\ Leaves(1) = Giver BY DualBranches DEF AppInv
<1>2. QED BY <1>1, DualSole, GiverOffers DEF AppInv, SceneIsPrepared, Objects

\* The two robots' client: no leaf fails of itself, unless the taker was misled; and then
\* only where it looks for what the giver adds, or the giver for what it takes away.
LEMMA DualSucceeds ==
  ASSUME AppInv, fresh, client = "app_dual", NEW b, Running(b), FailsByItself(LeafOf(b))
  PROVE  /\ misled
         /\ \/ b = 1 /\ LeafOf(b).do = "exists"
            \/ b = 2 /\ LeafOf(b).do = "pose"
<1> USE DEF AppInv
<1>1. Handed(client, stage, b, pc[b]) BY DualPrepared, PreparedSucceeds
<1>2. stage = 3 /\ ((b = 1 /\ pc[1] \in {26, 27}) \/ (b = 2 /\ pc[2] \in {4, 5, 6, 7, 12}))
  BY <1>1, AtLeaf DEF Handed, Robots
<1>3. LeafOf(1) = Giver[pc[1]] /\ LeafOf(2) = Taker[pc[2]] BY <1>2, DualBranches
<1>4. GiverInv /\ TakerInv /\ InTurn /\ (misled \/ InStep) BY <1>2 DEF HandoverInv
<1>5. ~(b = 1 /\ pc[1] = 26)
  <2>1. SUFFICES ASSUME b = 1, pc[1] = 26 PROVE FALSE OBVIOUS
  <2>2. LeafOf(1) = Add("renamed") BY <1>3, <2>1, GiverLeaves
  <2>3. LeafOf(1).do = "add" /\ LeafOf(1).of = "renamed" BY <2>2, AddDoes
  <2>4. at("renamed") = Gone BY <1>4, <2>1 DEF GiverInv
  <2>5. QED BY <2>1, <2>3, <2>4 DEF FailsByItself, There
<1>6. CASE b = 1 /\ pc[1] = 27
  <2>1. LeafOf(1) = Exists("renamed") BY <1>3, <1>6, GiverLeaves
  <2>2. LeafOf(1).do = "exists" /\ LeafOf(1).of = "renamed" BY <2>1, ExistsDoes
  <2>3. InStep => There("renamed") BY <1>6 DEF InStep
  <2>4. misled BY <1>4, <1>6, <2>2, <2>3 DEF FailsByItself
  <2>5. QED BY <1>6, <2>2, <2>4
<1>7. CASE b = 2 /\ pc[2] \in 4..7
  <2>1. LeafOf(2) = Pose("tube") \/ LeafOf(2) = Pose("endplate") BY <1>3, <1>7, TakerLeaves
  <2>2. LeafOf(2).do = "pose" /\ LeafOf(2).of \in {"tube", "endplate"} BY <2>1, PoseDoes
  <2>3. InStep => pc[1] = 20 BY <1>7 DEF InStep
  <2>4. InStep => There("tube") /\ There("endplate") BY <1>2, <2>3, TakerFinds
  <2>5. misled BY <1>4, <1>7, <2>2, <2>4 DEF FailsByItself
  <2>6. QED BY <1>7, <2>2, <2>5
<1>8. ~(b = 2 /\ pc[2] = 12)
  <2>1. SUFFICES ASSUME b = 2, pc[2] = 12 PROVE FALSE OBVIOUS
  <2>2. LeafOf(2) = Attach(2, "renamed") BY <1>3, <2>1, TakerLeaves
  <2>3. LeafOf(2).do = "attach" /\ LeafOf(2).of = "renamed" BY <2>2, AttachDoes
  <2>4. There("renamed") BY <1>4, <2>1 DEF TakerInv
  <2>5. at("renamed") \in {InWorld, LeafOf(2).robot} BY <2>1, <2>3, <2>4, AttachFinds DEF Objects
  <2>6. QED BY <2>1, <2>3, <2>5 DEF FailsByItself
<1>9. QED BY <1>2, <1>5, <1>6, <1>7, <1>8

\* In the invariant no leaf fails of itself, but for those that are excepted.
LEMMA Succeeds == AppInv => CycleSucceeds
<1> SUFFICES ASSUME AppInv, NEW b \in Branches, fresh, Due(b), FailsByItself(LeafOf(b))
             PROVE  \/ client = "foundationpose" /\ ~world.keys["created"]
                    \/ /\ client = "app_dual" /\ misled
                       /\ \/ b = 1 /\ LeafOf(b).do = "exists"
                          \/ b = 2 /\ LeafOf(b).do = "pose"
  BY DEF CycleSucceeds
<1>1. Running(b) BY DEF Due
<1>2. CASE client = "app_dual" BY <1>1, <1>2, DualSucceeds
<1>3. CASE client # "app_dual"
  <2>1. client = "foundationpose"
    <3>1. ASSUME client # "foundationpose" PROVE FALSE
      <4>1. ~Handed(client, stage, b, pc[b]) BY <1>3, <3>1 DEF Handed
      <4>2. QED BY <1>1, <1>3, <4>1, Alone, PreparedSucceeds
    <3>2. QED BY <3>1
  <2>2. ~key("created") BY <1>1, <2>1, CameraSucceeds
  <2>3. QED BY <2>1, <2>2 DEF key
<1>4. QED BY <1>2, <1>3

\* Where the giver is when it moves in the working position, or goes there.
LEMMA GiverMovesIn ==
  ASSUME AppInv, fresh, client = "app_dual", stage = 3, Moving(1, {"drop"}, {"drop"})
  PROVE  pc[1] = 18 \/ (pc[1] = 1 /\ place(1) = "drop")
<1> USE DEF AppInv
<1>1. /\ Branches = {1, 2} /\ pc[1] \in 1..27 /\ pc[2] \in 1..16
      /\ LeafOf(1) = Giver[pc[1]] /\ LeafOf(2) = Taker[pc[2]]
  BY DualBranches
<1>2. PICK b \in Branches :
        LeafOf(b).do = "move" /\ LeafOf(b).robot = 1 /\ (place(1) = "drop" \/ LeafOf(b).arg = "drop")
  BY DEF Moving, place
<1>3. b = 1
  <2>1. SUFFICES ASSUME b = 2 PROVE FALSE BY <1>1
  <2>2. pc[2] \in {1, 8, 13, 14} BY <1>1, <1>2, <2>1, TakerQuiet
  <2>3. PICK to \in Places : Taker[pc[2]] = Move(2, to) BY <2>2, TakerLeaves DEF Places
  <2>4. LeafOf(2).robot = 2 BY <1>1, <2>3, MoveFields DEF Robots
  <2>5. QED BY <1>2, <2>1, <2>4
<1>4. pc[1] \in {1, 11, 15, 18} BY <1>1, <1>2, <1>3, GiverQuiet
<1>5. GiverInv BY DEF HandoverInv
<1>6. ASSUME pc[1] = 1 PROVE place(1) = "drop"
  <2>1. LeafOf(1) = Move(1, "ready") BY <1>1, <1>6, GiverLeaves
  <2>2. LeafOf(1).arg = "ready" BY <2>1, MoveTarget DEF Robots, Places
  <2>3. QED BY <1>2, <1>3, <2>2
<1>7. pc[1] # 11
  <2>1. SUFFICES ASSUME pc[1] = 11 PROVE FALSE OBVIOUS
  <2>2. LeafOf(1) = Move(1, "pick") BY <1>1, <2>1, GiverLeaves
  <2>3. LeafOf(1).arg = "pick" BY <2>2, MoveTarget DEF Robots, Places
  <2>4. place(1) = "ready" BY <1>5, <2>1 DEF GiverInv
  <2>5. QED BY <1>2, <1>3, <2>3, <2>4
<1>8. pc[1] # 15
  <2>1. SUFFICES ASSUME pc[1] = 15 PROVE FALSE OBVIOUS
  <2>2. LeafOf(1) = Move(1, "wait") BY <1>1, <2>1, GiverLeaves
  <2>3. LeafOf(1).arg = "wait" BY <2>2, MoveTarget DEF Robots, Places
  <2>4. place(1) = "pick" BY <1>5, <2>1 DEF GiverInv
  <2>5. QED BY <1>2, <1>3, <2>3, <2>4
<1>9. QED BY <1>4, <1>6, <1>7, <1>8

\* The same of the taker.
LEMMA TakerMovesIn ==
  ASSUME AppInv, fresh, client = "app_dual", stage = 3,
         Moving(2, {"insert", "load", "exit"}, {"insert", "load", "exit"})
  PROVE  pc[2] \in {8, 13, 14} \/ (pc[2] = 1 /\ place(2) # "rest")
<1> USE DEF AppInv
<1>1. /\ Branches = {1, 2} /\ pc[1] \in 1..27 /\ pc[2] \in 1..16
      /\ LeafOf(1) = Giver[pc[1]] /\ LeafOf(2) = Taker[pc[2]]
  BY DualBranches
<1>2. PICK b \in Branches :
        /\ LeafOf(b).do = "move" /\ LeafOf(b).robot = 2
        /\ place(2) \in {"insert", "load", "exit"} \/ LeafOf(b).arg \in {"insert", "load", "exit"}
  BY DEF Moving, place
<1>3. b = 2
  <2>1. SUFFICES ASSUME b = 1 PROVE FALSE BY <1>1
  <2>2. pc[1] \in {1, 11, 15, 18} BY <1>1, <1>2, <2>1, GiverQuiet
  <2>3. PICK to \in Places : Giver[pc[1]] = Move(1, to) BY <2>2, GiverLeaves DEF Places
  <2>4. LeafOf(1).robot = 1 BY <1>1, <2>3, MoveFields DEF Robots
  <2>5. QED BY <1>2, <2>1, <2>4
<1>4. pc[2] \in {1, 8, 13, 14} BY <1>1, <1>2, <1>3, TakerQuiet
<1>5. ASSUME pc[2] = 1 PROVE place(2) # "rest"
  <2>1. LeafOf(2) = Move(2, "ready") BY <1>1, <1>5, TakerLeaves
  <2>2. LeafOf(2).arg = "ready" BY <2>1, MoveTarget DEF Robots, Places
  <2>3. QED BY <1>2, <1>3, <2>2
<1>6. QED BY <1>4, <1>5

\* The giver opens its jaws while the taker waits at the tube.
LEMMA OpensAtTaker ==
  ASSUME AppInv, fresh, client = "app_dual", stage = 3, LeafOf(1) = Grip(1, "open")
  PROVE  place(2) = "insert" /\ LeafOf(2).do # "move"
<1> USE DEF AppInv
<1>1. pc[1] \in 1..27 /\ LeafOf(1) = Giver[pc[1]] /\ LeafOf(2) = Taker[pc[2]] BY DualBranches
<1>2. LeafOf(1).do = "grip" /\ LeafOf(1).arg = "open" BY Fields
<1>3. pc[1] \in {12, 21} BY <1>1, <1>2, GiverQuiet
<1>4. pc[1] # 12
  <2>1. SUFFICES ASSUME pc[1] = 12 PROVE FALSE OBVIOUS
  <2>2. LeafOf(1) = Grip(1, "closed") BY <1>1, <2>1, GiverLeaves
  <2>3. LeafOf(1).arg = "closed" BY <2>2, Fields
  <2>4. QED BY <1>2, <2>3
<1>5. TakerInv /\ InTurn BY DEF HandoverInv
<1>6. pc[2] \in 10..11 BY <1>3, <1>4, <1>5 DEF InTurn
<1>7. place(2) = "insert" BY <1>5, <1>6 DEF TakerInv
<1>8. LeafOf(2).do \in {"waitKey", "waitObject"} BY <1>1, <1>6, TakerFlags
<1>9. QED BY <1>7, <1>8

\* In the invariant the two robots hand over safely.
LEMMA HandsOverSafely == AppInv => HandoverIsSafe
<1> SUFFICES ASSUME AppInv, fresh, Cycling, client = "app_dual"
             PROVE  /\ misled \/ ~BothInWorkingPosition
                    /\ LeafOf(1) = Grip(1, "open") => place(2) = "insert" /\ LeafOf(2).do # "move"
  BY DEF HandoverIsSafe, place
<1>1. stage = 3 BY DualTree DEF Cycling
<1>2. ASSUME ~misled PROVE ~BothInWorkingPosition
  <2>1. GiverInv /\ TakerInv /\ InStep BY <1>1, <1>2 DEF AppInv, HandoverInv
  <2>2. ~(/\ pc[1] = 18 \/ (pc[1] = 1 /\ place(1) = "drop")
          /\ pc[2] \in {8, 13, 14} \/ (pc[2] = 1 /\ place(2) # "rest"))
    BY <2>1 DEF TakerInv, InStep
  <2>3. QED BY <1>1, <2>2, GiverMovesIn, TakerMovesIn DEF BothInWorkingPosition
<1>3. QED BY <1>1, <1>2, OpensAtTaker

\* A robot with a gripper never moves while it holds an object and its jaws are open,
\* also after a tree was started over from the middle of a cycle; unless a detach was
\* given up since the last start-up.
THEOREM HeldObjectsMoveInClosedJaws == Spec => []MovesWhatItHolds
BY AppInvariance, HeldIsShut, PTL

\* Whatever failures have left behind, the start-up restores what the leaves of the next
\* run need: none of them fails of itself, unless a detach or removal was given up, or the
\* robot reaches for the part that the camera has announced and not yet added, or robot 2
\* has acted on a key that is left over from before the restart: then it may look for the
\* tube and the endplate too early, or robot 1 for the renamed tube too late.
THEOREM StartUpPreparesCycle == Spec => []CycleSucceeds
BY AppInvariance, Succeeds, PTL

\* In the cycle of bt_client_app_dual the giver opens its jaws only while the taker is
\* there and stands still, also after a restart with an old key; and the two are not on
\* the move in the working position at once, unless the taker has acted on such a key.
THEOREM RobotsHandOverSafely == Spec => []HandoverIsSafe
BY AppInvariance, HandsOverSafely, PTL
=============================================================================
