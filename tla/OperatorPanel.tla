--------------------------- MODULE OperatorPanel ---------------------------
(***************************************************************************)
(* The operator's panel and the blackboard behind it.  The panel           *)
(* (AppModule and HmiGui) shows what the last status message said, unless  *)
(* the operator is typing, and computes other keys from what it shows and  *)
(* what was typed; SEND and the cycle's switch call update_blackboard key  *)
(* by key, START, STOP and RESET do so from another thread.  Calls are     *)
(* applied one by one, maybe long after the panel stopped waiting for      *)
(* them, and may be lost; HMIServiceNode publishes a status from a timer.  *)
(* Two typed keys and one key computed from both stand for all of them.    *)
(***************************************************************************)
EXTENDS Integers, Sequences

CONSTANTS
  First,        \* what every field is when the application starts
  Valid,        \* numbers within a field's limits
  Invalid,      \* numbers outside them
  MaxClicks,    \* bound: clicks on any button and on the switch, and losses
  MaxLosses     \* bound: lost calls and restarts of the application

ASSUME ConstantsAssumption ==
  /\ Valid \subseteq Nat \ {0} /\ Invalid \subseteq Nat \ {0} /\ Valid \cap Invalid = {}
  /\ First \in Valid
  /\ MaxClicks \in Nat /\ MaxLosses \in Nat

Empty == -1
NA == 0          \* "N/A", which toDouble() takes for 0
None == [v |-> NA]

VARIABLES
  board,     \* the blackboard: the typed keys, the computed one, the switch, stop and reset
  calls,     \* updates from SEND and the switch that are yet to be applied
  orders,    \* updates from the buttons that are yet to be applied
  panel,     \* what AppModule keeps and shows
  stopOn,    \* the STOP button is enabled, START and RESET are not
  status,    \* the status message yet to be shown, if any
  clicks, losses,   \* so far, for the bounds
  view       \* history: "fresh" when the panel has shown a status that is later than all
             \* it sent, and "hasty" for good once SEND is clicked without, or a call is lost

vars == <<board, calls, orders, panel, stopOn, status, clicks, losses, view>>

Fields == {"length", "offset"}
Numbers == Valid \cup Invalid
Texts == Numbers \cup {NA, Empty}

\* Of the switch, current and override are "N/A", "" or its value.
Switches == {"N/A", "", "true", "false"}

Text(on) == IF on THEN "true" ELSE "false"

\* What the application starts with.
AtStart ==
  [v |-> [k \in Fields |-> First], computed |-> [k \in Fields |-> First],
   cycle |-> FALSE, stop |-> TRUE, reset |-> FALSE]

Init ==
  /\ board = AtStart
  /\ calls = <<>> /\ orders = <<>> /\ status = None
  /\ panel = [current |-> [k \in Fields |-> NA], computed |-> [k \in Fields |-> NA],
              text |-> [k \in Fields |-> NA], override |-> [k \in Fields |-> Empty],
              edited |-> [k \in Fields |-> Empty], focus |-> "", send |-> FALSE,
              on |-> FALSE, cycleCurrent |-> "N/A", cycleOverride |-> ""]
  /\ stopOn = FALSE
  /\ clicks = 0 /\ losses = 0
  /\ view = "stale"

-----------------------------------------------------------------------------
(* The panel's own functions.                                              *)

\* Broken variant: what is being typed is left out.
MergedShown(p) == p.current

\* What the computed keys are computed from.
Merged(p) == [k \in Fields |-> IF p.edited[k] = Empty THEN p.current[k] ELSE p.edited[k]]

\* updateComputedFields: nothing is computed when both numbers are 0.
Computed(p) == IF \A k \in Fields : Merged(p)[k] = NA THEN p.computed ELSE Merged(p)

Pending(p, k) == p.override[k] # Empty /\ p.override[k] # p.current[k]
SwitchPending(p) == p.cycleOverride # "" /\ p.cycleOverride # p.cycleCurrent

\* Broken variant: SEND stays enabled while the cycle is on.
SendWhileCycling(p) ==
  /\ \A k \in Fields : Pending(p, k) => p.override[k] \in Valid
  /\ SwitchPending(p) \/ \E k \in Fields : Pending(p, k)

\* Broken variant: SEND is enabled by one good edit, whatever the others are.
SendDespiteBad(p) ==
  /\ ~p.on
  /\ SwitchPending(p) \/ \E k \in Fields : Pending(p, k) /\ p.override[k] \in Valid

\* updateSendButtonState.
SendEnabled(p) ==
  /\ ~p.on
  /\ \A k \in Fields : Pending(p, k) => p.override[k] \in Valid
  /\ SwitchPending(p) \/ \E k \in Fields : Pending(p, k)

Refresh(p) == [p EXCEPT !.computed = Computed(p), !.send = SendEnabled(p)]

\* The text of a field changes, and with it the edit.
OnEditableChanged(p, k, t) ==
  LET e == IF t = p.current[k] THEN Empty ELSE t
  IN Refresh([p EXCEPT !.text[k] = t, !.override[k] = e, !.edited[k] = e])

SetText(p, k, t) == IF p.text[k] = t THEN p ELSE OnEditableChanged(p, k, t)

\* A status update leaves alone a field that is being edited.
UpdateField(p, k, v) ==
  LET q == [p EXCEPT !.current[k] = v] IN
  IF p.focus = k \/ Pending(q, k) THEN q ELSE Refresh([q EXCEPT !.text[k] = v])

LeaveField(p) ==
  LET k == p.focus
      q == [p EXCEPT !.focus = ""]
      r == IF p.text[k] = Empty THEN [SetText(q, k, p.current[k]) EXCEPT !.override[k] = Empty] ELSE q
  IN IF k = "" THEN p ELSE [r EXCEPT !.send = SendEnabled(r)]

EnterField(p, k) ==
  LET q == [LeaveField(p) EXCEPT !.focus = k] IN
  IF q.text[k] = q.current[k] THEN SetText(q, k, Empty) ELSE q

-----------------------------------------------------------------------------
(* The operator.                                                           *)

Rest == <<stopOn, status, losses>>

\* The operator enters a field, types into it, or leaves it.
Edit ==
  /\ \/ \E k \in Fields \ {panel.focus} : panel' = EnterField(panel, k)
     \/ \E t \in Numbers \cup {Empty} :
          panel.focus # "" /\ panel' = SetText(panel, panel.focus, t)
     \/ panel.focus # "" /\ panel' = LeaveField(panel)
  /\ UNCHANGED <<board, calls, orders, clicks, view, Rest>>

\* The switch is sent at once.
Toggle ==
  /\ clicks < MaxClicks /\ clicks' = clicks + 1
  /\ panel' = Refresh([panel EXCEPT !.on = ~@, !.cycleOverride = Text(~panel.on)])
  /\ calls' = Append(calls, [key |-> "cycle", value |-> ~panel.on])
  /\ UNCHANGED <<board, orders, view, Rest>>

\* What SEND sends: the pending edits, and then every computed key.
Updates ==
  LET Typed(k) == IF Pending(panel, k) /\ panel.override[k] \in Valid
                    THEN <<[key |-> k, value |-> panel.override[k]]>> ELSE <<>>
      Switch == IF SwitchPending(panel) THEN <<[key |-> "cycle", value |-> panel.on]>> ELSE <<>>
      Derived == IF \A k \in Fields : panel.computed[k] = NA THEN <<>>
                    ELSE <<[key |-> "computed", value |-> panel.computed]>>
  IN Switch \o Typed("length") \o Typed("offset") \o Derived

\* A field whose text is not written as the panel writes it is written anew,
\* and only then forgets its edit.
AfterSend(respelled) ==
  LET new == [k \in Fields |-> IF Pending(panel, k) /\ panel.override[k] \in Valid
                                 THEN panel.override[k] ELSE panel.current[k]]
      Kept(k) == panel.text[k] = new[k] /\ k \notin respelled
  IN Refresh([panel EXCEPT
       !.current = new, !.text = new,
       !.override = [k \in Fields |-> Empty],
       !.edited = [k \in Fields |-> IF Kept(k) THEN @[k] ELSE Empty],
       !.cycleCurrent = IF SwitchPending(panel) THEN panel.cycleOverride ELSE @,
       !.cycleOverride = ""])

\* A click moves the focus to the button.
Send ==
  /\ clicks < MaxClicks /\ clicks' = clicks + 1
  /\ panel.send /\ panel.focus = ""
  /\ calls' = calls \o Updates
  /\ \E respelled \in SUBSET Fields : panel' = AfterSend(respelled)
  /\ view' = IF view = "fresh" THEN "stale" ELSE "hasty"
  /\ status' = IF status = None THEN None ELSE [status EXCEPT !.late = TRUE]
  /\ UNCHANGED <<board, orders, stopOn, losses>>

\* START, STOP and RESET set stop_execution, and RESET also the reset key.
Press ==
  /\ clicks < MaxClicks /\ clicks' = clicks + 1
  /\ \/ ~stopOn /\ orders' = Append(orders, [stop |-> FALSE, reset |-> FALSE])
     \/ stopOn /\ orders' = Append(orders, [stop |-> TRUE, reset |-> FALSE])
     \/ ~stopOn /\ orders' = Append(orders, [stop |-> TRUE, reset |-> TRUE])
  /\ UNCHANGED <<board, calls, panel, view, Rest>>

-----------------------------------------------------------------------------
(* The application.                                                        *)

Quiet == <<panel, stopOn, status, clicks>>

\* handleUpdateBlackboard, for a call of each kind.
HandleUpdate ==
  /\ calls # <<>>
  /\ LET c == Head(calls) IN
     board' = CASE c.key = "cycle" -> [board EXCEPT !.cycle = c.value]
                [] c.key = "computed" -> [board EXCEPT !.computed = c.value]
                [] OTHER -> [board EXCEPT !.v[c.key] = c.value]
  /\ calls' = Tail(calls)
  /\ UNCHANGED <<orders, losses, view, Quiet>>

HandleOrder ==
  /\ orders # <<>>
  /\ board' = [board EXCEPT !.stop = Head(orders).stop, !.reset = @ \/ Head(orders).reset]
  /\ orders' = Tail(orders)
  /\ UNCHANGED <<calls, losses, view, Quiet>>

\* RetryPauseResetNode takes the reset.
TakeReset ==
  /\ board.reset /\ board' = [board EXCEPT !.reset = FALSE]
  /\ UNCHANGED <<calls, orders, losses, view, Quiet>>

\* A call or an order finds no service, or the application starts again with
\* its first values.
Lose ==
  /\ clicks < MaxClicks /\ clicks' = clicks + 1
  /\ losses < MaxLosses /\ losses' = losses + 1
  /\ \/ calls # <<>> /\ calls' = Tail(calls) /\ UNCHANGED <<board, orders>>
     \/ orders # <<>> /\ orders' = Tail(orders) /\ UNCHANGED <<board, calls>>
     \/ board' = AtStart /\ calls' = <<>> /\ orders' = <<>>
  /\ view' = "hasty"
  /\ UNCHANGED <<panel, stopOn, status>>

-----------------------------------------------------------------------------
(* The status.                                                             *)

\* Broken variant: a status carries the switches, and for the numbers what the
\* panel has already.
PublishSwitches ==
  /\ status = None
  /\ status' = [v |-> panel.current, computed |-> panel.computed, cycle |-> board.cycle,
                stop |-> board.stop, late |-> calls # <<>>]
  /\ UNCHANGED <<board, calls, orders, panel, stopOn, clicks, losses, view>>

\* publishBlackboardStatus.  One status at a time is under way; late tells
\* whether it is older than a call.
PublishBlackboardStatus ==
  /\ status = None
  /\ status' = [v |-> board.v, computed |-> board.computed, cycle |-> board.cycle,
                stop |-> board.stop, late |-> calls # <<>>]
  /\ UNCHANGED <<board, calls, orders, panel, stopOn, clicks, losses, view>>

\* statusCallback posts updateStatus and one updateField per key, in their
\* order; the GUI runs them in a row, with no input in between.
ShowStatus ==
  /\ status # None /\ status' = None
  /\ stopOn' = ~status.stop
  /\ \E p \in {Refresh([panel EXCEPT !.cycleCurrent = Text(status.cycle)])} :
     \E q \in {UpdateField(p, "length", status.v["length"])} :
     \E r \in {UpdateField(q, "offset", status.v["offset"])} :
       panel' = Refresh([r EXCEPT !.computed = status.computed])
  /\ view' = IF view = "stale" /\ ~status.late THEN "fresh" ELSE view
  /\ UNCHANGED <<board, calls, orders, clicks, losses>>

-----------------------------------------------------------------------------
Operator == Edit \/ Toggle \/ Send \/ Press

Next ==
  \/ Operator \/ Lose
  \/ HandleUpdate \/ HandleOrder \/ TakeReset
  \/ PublishBlackboardStatus \/ ShowStatus

\* The executor serves the calls and the timer, the GUI its event queue.
Fairness ==
  /\ WF_vars(HandleUpdate \/ HandleOrder)
  /\ WF_vars(PublishBlackboardStatus \/ ShowStatus)

Spec == Init /\ [][Next]_vars
FairSpec == Spec /\ Fairness

-----------------------------------------------------------------------------
(* Properties.                                                             *)

Calls ==
  [key : Fields, value : Valid] \cup [key : {"cycle"}, value : BOOLEAN]
    \cup [key : {"computed"}, value : [Fields -> Numbers \cup {NA}]]

Panels ==
  [current : [Fields -> Numbers \cup {NA}], computed : [Fields -> Numbers \cup {NA}],
   text : [Fields -> Texts], override : [Fields -> Numbers \cup {Empty}],
   edited : [Fields -> Numbers \cup {Empty}], focus : Fields \cup {""}, send : BOOLEAN,
   on : BOOLEAN, cycleCurrent : Switches, cycleOverride : Switches]

Statuses ==
  [v : [Fields -> Valid], computed : [Fields -> Numbers \cup {NA}],
   cycle : BOOLEAN, stop : BOOLEAN, late : BOOLEAN]

PanelTypes ==
  /\ board \in [v : [Fields -> Valid], computed : [Fields -> Numbers \cup {NA}],
                cycle : BOOLEAN, stop : BOOLEAN, reset : BOOLEAN]
  /\ calls \in Seq(Calls)
  /\ orders \in Seq([stop : BOOLEAN, reset : BOOLEAN])
  /\ panel \in Panels
  /\ status \in Statuses \cup {None}
  /\ clicks \in Nat /\ losses \in Nat
  /\ stopOn \in BOOLEAN /\ view \in {"stale", "fresh", "hasty"}

\* SEND is enabled by what is pending now, the other keys are computed from what
\* is shown and typed now, and a pending edit is one of the numbers they are
\* computed from.
Coherent(p) ==
  /\ p.send <=> SendEnabled(p)
  /\ (\E k \in Fields : Merged(p)[k] # NA) => p.computed = Merged(p)
  /\ \A k \in Fields : p.override[k] # Empty => p.edited[k] = p.override[k]

\* Applying the calls sets field k to x, or leaves it at x.
Becomes(k, x) ==
  /\ \A i \in DOMAIN calls : calls[i].key = k => calls[i].value = x
  /\ (\A i \in DOMAIN calls : calls[i].key # k) => board.v[k] = x

OnlySwitches == \A i \in DOMAIN calls : calls[i].key = "cycle"

\* The calls of one SEND at most are to be applied: a key once, the computed key
\* after all it was computed from.
OneSend ==
  /\ \A i, j \in DOMAIN calls :
       calls[i].key = calls[j].key /\ calls[i].key # "cycle" => i = j
  /\ \A i \in DOMAIN calls :
       calls[i].key \in Fields => \E j \in DOMAIN calls : i < j /\ calls[j].key = "computed"
  /\ \A i \in DOMAIN calls :
       calls[i].key = "computed" => \A k \in Fields : Becomes(k, calls[i].value[k])
  /\ (\A i \in DOMAIN calls : calls[i].key # "computed") => board.computed = board.v
  /\ board.computed \in [Fields -> Valid]

\* An edit that was sent and is still computed from is what its field becomes.
SentEditsStand ==
  \A k \in Fields :
    panel.override[k] = Empty /\ panel.edited[k] # Empty => Becomes(k, panel.edited[k])

\* A status that is no older than what was sent, or that is under way when the
\* panel has shown such a status, says what is on the blackboard.
StatusIsTrue ==
  status # None /\ (~status.late \/ view = "fresh") =>
    OnlySwitches /\ status.v = board.v /\ status.computed = board.computed

\* After the calls before the i-th have been applied, the switch is x.
CycleAt(i, x) ==
  /\ \A j \in 1..(i - 1) :
       calls[j].key = "cycle" /\ (\A m \in (j + 1)..(i - 1) : calls[m].key # "cycle")
         => calls[j].value = x
  /\ (\A j \in 1..(i - 1) : calls[j].key # "cycle") => board.cycle = x

\* The switch ends up as the panel has it, and is off for every other key.
SwitchInOrder ==
  /\ CycleAt(Len(calls) + 1, panel.on)
  /\ \A i \in DOMAIN calls : calls[i].key # "cycle" => CycleAt(i, FALSE)

\* Every variable keeps its type, and the invariants above hold.  In particular
\* nothing outside a field's limits reaches the blackboard, neither typed nor, as
\* long as the operator waits for the status, inside a computed key: SEND is
\* enabled only while no pending edit is outside its limits, a pending edit is
\* what the other keys are computed from, and an edit the panel no longer takes
\* for pending is one the blackboard has or is about to get.
PanelInv ==
  /\ PanelTypes
  /\ Coherent(panel)
  /\ view # "hasty" => OneSend /\ SentEditsStand /\ StatusIsTrue
  /\ view = "fresh" => OnlySwitches /\ panel.current = board.v
  /\ losses = 0 => SwitchInOrder

\* The computed key was computed from the very numbers on the blackboard, once
\* every call has been applied: SEND sends several keys one by one, while old
\* statuses still arrive.  It needs an operator who waits for a status that is
\* later than the SEND before, and no lost call.
RecipeAgrees ==
  view # "hasty" /\ calls = <<>> => board.computed = board.v

\* The recipe does not change while the cycle is on, however long the calls of
\* a SEND before it, or of the switch, take to be applied; as long as no call was
\* lost and the application did not start again, for the switch shows what was
\* clicked, and SEND follows the switch.
RecipeHeldWhileCycling ==
  [][losses = 0 /\ board.cycle /\ board'.cycle
       => board'.v = board.v /\ board'.computed = board.computed]_vars

\* Whatever was lost or typed, again and again the panel is right: every field
\* that is left alone shows the blackboard's number, and the buttons enabled are
\* those that change something. The switch is no such field: it keeps showing
\* what was clicked last.
PanelCatchesUp ==
  []<>(/\ \A k \in Fields :
            panel.focus = k \/ Pending(panel, k) \/ panel.text[k] = board.v[k]
       /\ stopOn = ~board.stop)

=============================================================================
