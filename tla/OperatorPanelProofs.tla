------------------------ MODULE OperatorPanelProofs -------------------------
(***************************************************************************)
(* For any numbers and bounds: the panel's inductive invariant, that the   *)
(* computed key agrees with the typed ones once the calls are applied, and *)
(* that the recipe does not change while the cycle is on.                  *)
(***************************************************************************)
EXTENDS OperatorPanel, SequenceTheorems, TLAPS

-----------------------------------------------------------------------------
(* Lemmas about the panel's own functions.                                 *)

\* A number is neither "N/A" nor nothing.
LEMMA NumbersApart == Empty \notin Numbers /\ NA \notin Numbers /\ NA # Empty
BY ConstantsAssumption DEF Empty, NA, Numbers

\* The parts of a panel that what is pending depends on, and SEND, and what is
\* merged.
Alike(p, q) ==
  /\ q.current = p.current /\ q.override = p.override /\ q.edited = p.edited
  /\ q.on = p.on /\ q.cycleCurrent = p.cycleCurrent /\ q.cycleOverride = p.cycleOverride

LEMMA AlikePanels ==
  ASSUME NEW p, NEW q, Alike(p, q)
  PROVE  /\ \A k \in Fields : Pending(q, k) <=> Pending(p, k)
         /\ SendEnabled(q) <=> SendEnabled(p)
         /\ Merged(q) = Merged(p)
<1>1. \A k \in Fields : Pending(q, k) <=> Pending(p, k)
  BY DEF Alike, Pending
<1>2. SendEnabled(q) <=> SendEnabled(p)
  BY <1>1 DEF Alike, SendEnabled, SwitchPending
<1>. QED  BY <1>1, <1>2 DEF Alike, Merged

\* A pending edit is one the other keys are computed from.
EditsAgree(p) == \A k \in Fields : p.override[k] # Empty => p.edited[k] = p.override[k]

LEMMA MergedIsTyped ==
  ASSUME NEW p \in Panels
  PROVE  Merged(p) \in [Fields -> Numbers \cup {NA}]
BY DEF Panels, Merged

\* updateComputedFields and updateSendButtonState leave a panel coherent.
LEMMA Refreshed ==
  ASSUME NEW p \in Panels
  PROVE  /\ Refresh(p) \in Panels
         /\ Alike(p, Refresh(p))
         /\ Refresh(p).text = p.text /\ Refresh(p).focus = p.focus
         /\ EditsAgree(p) => Coherent(Refresh(p))
<1>1. Computed(p) \in [Fields -> Numbers \cup {NA}]
  BY MergedIsTyped DEF Computed, Panels
<1>2. SendEnabled(p) \in BOOLEAN
  BY DEF SendEnabled
<1>3. Refresh(p) \in Panels
  BY <1>1, <1>2 DEF Refresh, Panels
<1>4. Alike(p, Refresh(p)) /\ Refresh(p).text = p.text /\ Refresh(p).focus = p.focus
  BY DEF Refresh, Panels, Alike
<1>5. Refresh(p).computed = Computed(p) /\ (Refresh(p).send <=> SendEnabled(p))
  BY DEF Refresh, Panels
<1>6. ASSUME EditsAgree(p)  PROVE Coherent(Refresh(p))
  <2>1. SendEnabled(Refresh(p)) <=> SendEnabled(p)
    BY <1>4, AlikePanels
  <2>2. Merged(Refresh(p)) = Merged(p)
    BY <1>4, AlikePanels
  <2>3. (\E k \in Fields : Merged(p)[k] # NA) => Computed(p) = Merged(p)
    BY DEF Computed
  <2>4. \A k \in Fields : Refresh(p).override[k] # Empty => Refresh(p).edited[k] = Refresh(p).override[k]
    BY <1>4, <1>6 DEF EditsAgree, Alike
  <2>. QED  BY <1>5, <2>1, <2>2, <2>3, <2>4 DEF Coherent
<1>. QED  BY <1>3, <1>4, <1>6

\* What an edit does to a panel: nothing that is shown from a status changes, and
\* a field is left with an edit that is not pending only if it had it before.
Edited(p, q) ==
  /\ q \in Panels /\ Coherent(q)
  /\ q.current = p.current /\ q.on = p.on
  /\ q.cycleCurrent = p.cycleCurrent /\ q.cycleOverride = p.cycleOverride
  /\ \A k \in Fields : q.override[k] = Empty /\ q.edited[k] # Empty
       => p.override[k] = Empty /\ p.edited[k] = q.edited[k]

LEMMA EditableChanged ==
  ASSUME NEW p \in Panels, EditsAgree(p), NEW k \in Fields, NEW t \in Texts,
         t # NA \/ p.current[k] = NA
  PROVE  /\ Edited(p, OnEditableChanged(p, k, t))
         /\ OnEditableChanged(p, k, t).focus = p.focus
         /\ t = p.current[k] => OnEditableChanged(p, k, t).edited[k] = Empty
<1> DEFINE e == IF t = p.current[k] THEN Empty ELSE t
           q == [p EXCEPT !.text[k] = t, !.override[k] = e, !.edited[k] = e]
<1>1. e \in Numbers \cup {Empty}
  BY DEF Texts
<1>2. q \in Panels
  BY <1>1 DEF Panels
<1>3. /\ q.override = [p.override EXCEPT ![k] = e] /\ q.edited = [p.edited EXCEPT ![k] = e]
      /\ q.current = p.current /\ q.on = p.on /\ q.focus = p.focus
      /\ q.cycleCurrent = p.cycleCurrent /\ q.cycleOverride = p.cycleOverride
  BY DEF Panels
<1>4. EditsAgree(q)
  BY <1>3 DEF EditsAgree, Panels
<1>5. OnEditableChanged(p, k, t) = Refresh(q)
  BY DEF OnEditableChanged
<1>. HIDE DEF q
<1>6. /\ Refresh(q) \in Panels /\ Coherent(Refresh(q)) /\ Alike(q, Refresh(q))
      /\ Refresh(q).focus = q.focus
  BY <1>2, <1>4, Refreshed
<1>7. ASSUME NEW j \in Fields, q.override[j] = Empty, q.edited[j] # Empty
      PROVE  p.override[j] = Empty /\ p.edited[j] = q.edited[j]
  BY <1>3, <1>7 DEF Panels
<1>8. t = p.current[k] => q.edited[k] = Empty
  BY <1>3 DEF Panels
<1>. QED  BY <1>3, <1>5, <1>6, <1>7, <1>8 DEF Edited, Alike

LEMMA EditedInTurn ==
  ASSUME NEW p, NEW q, NEW r, Edited(p, q), Edited(q, r)
  PROVE  Edited(p, r)
<1>1. ASSUME NEW k \in Fields, r.override[k] = Empty, r.edited[k] # Empty
      PROVE  p.override[k] = Empty /\ p.edited[k] = r.edited[k]
  BY <1>1 DEF Edited
<1>. QED  BY <1>1 DEF Edited

\* Nothing but the focus changes, or what does not matter to an edit.
LEMMA OnlyFocus ==
  ASSUME NEW p \in Panels, Coherent(p), NEW k \in Fields \cup {""}
  PROVE  /\ Edited(p, p)
         /\ Edited(p, [p EXCEPT !.focus = k])
         /\ [p EXCEPT !.focus = k].focus = k /\ [p EXCEPT !.focus = k].text = p.text
<1> DEFINE q == [p EXCEPT !.focus = k]
<1>1. q \in Panels
  BY DEF Panels
<1>2. Alike(p, q) /\ q.send = p.send /\ q.computed = p.computed /\ q.focus = k /\ q.text = p.text
  BY DEF Panels, Alike
<1>. HIDE DEF q
<1>3. Coherent(q)
  BY <1>2, AlikePanels DEF Coherent, Alike
<1>4. Edited(p, q) /\ Edited(p, p)
  BY <1>1, <1>2, <1>3 DEF Edited, Alike
<1>. QED  BY <1>2, <1>4 DEF q

\* The operator types: the text is a number or nothing.
LEMMA TextSet ==
  ASSUME NEW p \in Panels, Coherent(p), NEW k \in Fields, NEW t \in Texts,
         t # NA \/ p.current[k] = NA
  PROVE  /\ Edited(p, SetText(p, k, t))
         /\ SetText(p, k, t).focus = p.focus
         /\ p.text[k] # t /\ t = p.current[k] => SetText(p, k, t).edited[k] = Empty
<1>1. EditsAgree(p)
  BY DEF Coherent, EditsAgree
<1>2. Edited(p, p)
  BY OnlyFocus
<1>. QED  BY <1>1, <1>2, EditableChanged DEF SetText

LEMMA FieldLeft ==
  ASSUME NEW p \in Panels, Coherent(p)
  PROVE  Edited(p, LeaveField(p))
<1> DEFINE k == p.focus
           q == [p EXCEPT !.focus = ""]
           s == SetText(q, k, p.current[k])
           r == IF p.text[k] = Empty THEN [s EXCEPT !.override[k] = Empty] ELSE q
           a == [r EXCEPT !.send = SendEnabled(r)]
<1>1. CASE p.focus = ""
  BY <1>1, OnlyFocus DEF LeaveField
<1>2. CASE p.focus # ""
  <2>1. k \in Fields
    BY <1>2 DEF Panels
  <2>2. Edited(p, q) /\ q.text = p.text
    BY OnlyFocus
  <2>3. p.current[k] \in Texts /\ p.current[k] # Empty
    BY <2>1, NumbersApart DEF Panels, Texts
  <2>4. Edited(q, s) /\ (p.text[k] = Empty => s.edited[k] = Empty)
    <3>1. q \in Panels /\ Coherent(q)
      BY <2>2 DEF Edited
    <3>. HIDE DEF q, k
    <3>2. q.current = p.current /\ q.text = p.text
      BY <2>2 DEF Edited
    <3>3. p.current[k] # NA \/ q.current[k] = NA
      BY <3>2
    <3>. QED  BY <3>1, <3>2, <3>3, <2>1, <2>3, TextSet
  <2>5. Edited(p, s)
    BY <2>2, <2>4, EditedInTurn
  <2>. HIDE DEF s, q, k
  <2>6. ASSUME p.text[k] = Empty  PROVE Edited(p, r)
    <3>1. s \in Panels /\ Coherent(s) /\ s.edited[k] = Empty
      BY <2>4, <2>6 DEF Edited
    <3>2. s.override[k] = Empty
      BY <3>1, <2>1 DEF Coherent
    <3>3. [s EXCEPT !.override[k] = Empty] = s
      BY <3>1, <3>2, <2>1 DEF Panels
    <3>4. r = s
      BY <3>3, <2>6
    <3>. QED  BY <3>4, <2>5
  <2>7. ASSUME p.text[k] # Empty  PROVE Edited(p, r)
    BY <2>7, <2>2
  <2>8. Edited(p, r)
    BY <2>6, <2>7
  <2>. HIDE DEF r
  <2>9. a = r
    <3>1. r \in Panels /\ (r.send <=> SendEnabled(r))
      BY <2>8 DEF Edited, Coherent
    <3>2. r.send \in BOOLEAN /\ SendEnabled(r) \in BOOLEAN
      BY <3>1 DEF Panels, SendEnabled
    <3>3. SendEnabled(r) = r.send
      BY <3>1, <3>2
    <3>. QED  BY <3>1, <3>3 DEF Panels
  <2>10. LeaveField(p) = a
    BY <1>2 DEF LeaveField, r, s, q, k
  <2>. QED  BY <2>8, <2>9, <2>10
<1>. QED  BY <1>1, <1>2

LEMMA FieldEntered ==
  ASSUME NEW p \in Panels, Coherent(p), NEW k \in Fields
  PROVE  Edited(p, EnterField(p, k))
<1> DEFINE l == LeaveField(p)
           q == [l EXCEPT !.focus = k]
<1>1. Edited(p, l)
  BY FieldLeft
<1>. HIDE DEF l
<1>2. Edited(l, q)
  <2>1. l \in Panels /\ Coherent(l)
    BY <1>1 DEF Edited
  <2>. QED  BY <2>1, OnlyFocus
<1>3. Edited(p, q)
  BY <1>1, <1>2, EditedInTurn
<1>. HIDE DEF q
<1>4. Edited(q, SetText(q, k, Empty))
  BY <1>3, TextSet, NumbersApart DEF Edited, Texts
<1>5. EnterField(p, k) = IF q.text[k] = q.current[k] THEN SetText(q, k, Empty) ELSE q
  BY DEF EnterField, q, l
<1>. QED  BY <1>3, <1>4, <1>5, EditedInTurn

\* A field of a status: only what is shown changes.
LEMMA FieldUpdated ==
  ASSUME NEW p \in Panels, NEW k \in Fields, NEW v \in Numbers
  PROVE  /\ UpdateField(p, k, v) \in Panels
         /\ UpdateField(p, k, v).current = [p.current EXCEPT ![k] = v]
         /\ UpdateField(p, k, v).override = p.override /\ UpdateField(p, k, v).edited = p.edited
         /\ UpdateField(p, k, v).on = p.on
<1> DEFINE q == [p EXCEPT !.current[k] = v]
           r == [q EXCEPT !.text[k] = v]
<1>1. /\ q \in Panels /\ q.current = [p.current EXCEPT ![k] = v]
      /\ q.override = p.override /\ q.edited = p.edited /\ q.on = p.on
  BY DEF Panels
<1>2. UpdateField(p, k, v) = IF p.focus = k \/ Pending(q, k) THEN q ELSE Refresh(r)
  BY DEF UpdateField
<1>. HIDE DEF q
<1>3. /\ r \in Panels /\ r.current = q.current
      /\ r.override = q.override /\ r.edited = q.edited /\ r.on = q.on
  BY <1>1 DEF Panels, Texts
<1>. HIDE DEF r
<1>4. Refresh(r) \in Panels /\ Alike(r, Refresh(r))
  BY <1>3, Refreshed
<1>. QED  BY <1>1, <1>2, <1>3, <1>4 DEF Alike

\* A status shown: the numbers are the status's, and no edit changes.
LEMMA StatusShown ==
  ASSUME PanelTypes, Coherent(panel), ShowStatus
  PROVE  /\ status \in Statuses /\ panel' \in Panels /\ Coherent(panel')
         /\ panel'.current = status.v
         /\ panel'.override = panel.override /\ panel'.edited = panel.edited
         /\ panel'.on = panel.on
<1>1. status \in Statuses
  BY DEF PanelTypes, ShowStatus
<1> DEFINE a == [panel EXCEPT !.cycleCurrent = Text(status.cycle)]
           p == Refresh(a)
           q == UpdateField(p, "length", status.v["length"])
           r == UpdateField(q, "offset", status.v["offset"])
           b == [r EXCEPT !.computed = status.computed]
<1>2. panel' = Refresh(b)
  BY DEF ShowStatus
<1>3. status.v \in [Fields -> Numbers] /\ status.computed \in [Fields -> Numbers \cup {NA}]
  BY <1>1 DEF Statuses, Numbers
<1>4. /\ a \in Panels
      /\ a.override = panel.override /\ a.edited = panel.edited /\ a.on = panel.on
  BY DEF PanelTypes, Panels, Text, Switches
<1>. HIDE DEF a
<1>5. /\ p \in Panels
      /\ p.override = panel.override /\ p.edited = panel.edited /\ p.on = panel.on
  BY <1>4, Refreshed DEF Alike
<1>. HIDE DEF p
<1>6. /\ q \in Panels /\ q.current = [p.current EXCEPT !["length"] = status.v["length"]]
      /\ q.override = panel.override /\ q.edited = panel.edited /\ q.on = panel.on
  BY <1>3, <1>5, FieldUpdated DEF Fields
<1>. HIDE DEF q
<1>7. /\ r \in Panels /\ r.current = [q.current EXCEPT !["offset"] = status.v["offset"]]
      /\ r.override = panel.override /\ r.edited = panel.edited /\ r.on = panel.on
  BY <1>3, <1>6, FieldUpdated DEF Fields
<1>8. r.current = status.v
  <2>1. p.current \in [Fields -> Numbers \cup {NA}] /\ r.current \in [Fields -> Numbers \cup {NA}]
    BY <1>5, <1>7 DEF Panels
  <2>2. \A k \in Fields : r.current[k] = status.v[k]
    BY <2>1, <1>6, <1>7 DEF Fields
  <2>. QED  BY <1>3, <2>1, <2>2
<1>. HIDE DEF r
<1>9. /\ b \in Panels /\ b.current = r.current
      /\ b.override = panel.override /\ b.edited = panel.edited /\ b.on = panel.on
  BY <1>3, <1>7 DEF Panels
<1>. HIDE DEF b
<1>10. EditsAgree(b)
  BY <1>9 DEF Coherent, EditsAgree
<1>11. Refresh(b) \in Panels /\ Coherent(Refresh(b)) /\ Alike(b, Refresh(b))
  BY <1>9, <1>10, Refreshed
<1>. QED  BY <1>1, <1>2, <1>8, <1>9, <1>11 DEF Alike

\* The panel after SEND: no edit is pending, and an edit that is still computed
\* from was there before.
LEMMA PanelAfterSend ==
  ASSUME panel \in Panels, NEW respelled \in SUBSET Fields
  PROVE  /\ AfterSend(respelled) \in Panels /\ Coherent(AfterSend(respelled))
         /\ AfterSend(respelled).on = panel.on
         /\ \A k \in Fields : /\ AfterSend(respelled).override[k] = Empty
                              /\ AfterSend(respelled).edited[k] \in {Empty, panel.edited[k]}
<1> DEFINE new == [k \in Fields |-> IF Pending(panel, k) /\ panel.override[k] \in Valid
                                      THEN panel.override[k] ELSE panel.current[k]]
           kept == [k \in Fields |-> IF panel.text[k] = new[k] /\ k \notin respelled
                                       THEN panel.edited[k] ELSE Empty]
           switch == IF SwitchPending(panel) THEN panel.cycleOverride ELSE panel.cycleCurrent
           none == [k \in Fields |-> Empty]
           q == [panel EXCEPT !.current = new, !.text = new, !.override = none,
                              !.edited = kept, !.cycleCurrent = switch, !.cycleOverride = ""]
<1>1. AfterSend(respelled) = Refresh(q)
  BY DEF AfterSend, Panels
<1>2. new \in [Fields -> Numbers \cup {NA}]
  BY DEF Panels, Numbers
<1>. HIDE DEF new
<1>3. kept \in [Fields -> Numbers \cup {Empty}] /\ none \in [Fields -> Numbers \cup {Empty}]
  BY DEF Panels
<1>4. switch \in Switches
  BY DEF Panels
<1>5. \A k \in Fields : kept[k] \in {Empty, panel.edited[k]} /\ none[k] = Empty
  OBVIOUS
<1>. HIDE DEF kept, none, switch
<1>6. q \in Panels /\ q.edited = kept /\ q.override = none /\ q.on = panel.on
  BY <1>2, <1>3, <1>4 DEF Panels, Switches, Texts
<1>. HIDE DEF q
<1>7. EditsAgree(q)
  BY <1>5, <1>6 DEF EditsAgree
<1>8. Refresh(q) \in Panels /\ Coherent(Refresh(q)) /\ Alike(q, Refresh(q))
  BY <1>6, <1>7, Refreshed
<1>. QED  BY <1>1, <1>5, <1>6, <1>8 DEF Alike

\* The switch is turned.
LEMMA Toggled ==
  ASSUME panel \in Panels, Coherent(panel), Toggle
  PROVE  /\ panel' \in Panels /\ Coherent(panel') /\ (panel'.on <=> ~panel.on)
         /\ panel'.current = panel.current
         /\ panel'.override = panel.override /\ panel'.edited = panel.edited
<1> DEFINE q == [panel EXCEPT !.on = ~panel.on, !.cycleOverride = Text(~panel.on)]
<1>1. panel' = Refresh(q)
  BY DEF Toggle
<1>2. /\ q \in Panels /\ (q.on <=> ~panel.on) /\ q.current = panel.current
      /\ q.override = panel.override /\ q.edited = panel.edited
  BY DEF Panels, Text, Switches
<1>. HIDE DEF q
<1>3. EditsAgree(q)
  BY <1>2 DEF Coherent, EditsAgree
<1>4. Refresh(q) \in Panels /\ Coherent(Refresh(q)) /\ Alike(q, Refresh(q))
  BY <1>2, <1>3, Refreshed
<1>. QED  BY <1>1, <1>2, <1>4 DEF Alike

-----------------------------------------------------------------------------
(* Lemmas about the calls.                                                 *)

Among(s) == {s[i] : i \in 1..Len(s)}
KeysDiffer(s) == \A i, j \in 1..Len(s) : s[i].key = s[j].key => i = j

\* A call or none after calls that have other keys.
LEMMA OneMore ==
  ASSUME NEW s \in Seq(Calls), KeysDiffer(s), NEW t \in Seq(Calls), Len(t) <= 1,
         \A c \in Among(s), d \in Among(t) : c.key # d.key
  PROVE  /\ s \o t \in Seq(Calls) /\ KeysDiffer(s \o t)
         /\ Among(s \o t) = Among(s) \cup Among(t)
         /\ Len(t) = 1 => Len(s \o t) > 0 /\ (s \o t)[Len(s \o t)] = t[1]
<1> DEFINE u == s \o t
           m == Len(s)
           n == Len(t)
<1>1. m \in Nat /\ n \in Nat /\ n <= 1
  OBVIOUS
<1>2. /\ u \in Seq(Calls) /\ Len(u) = m + n
      /\ \A i \in 1..(m + n) : u[i] = IF i <= m THEN s[i] ELSE t[i - m]
  BY ConcatProperties
<1>3. /\ Among(s) = {s[i] : i \in 1..m} /\ Among(t) = {t[i] : i \in 1..n}
      /\ Among(u) = {u[i] : i \in 1..(m + n)}
  BY <1>2 DEF Among
<1>4. \A i, j \in 1..m : s[i].key = s[j].key => i = j
  BY DEF KeysDiffer
<1>. HIDE DEF u, m, n
<1>5. \A i \in 1..m : i \in 1..(m + n) /\ u[i] = s[i]
  BY <1>1, <1>2
<1>6. n = 1 => m + 1 \in 1..(m + n) /\ u[m + 1] = t[1]
  <2>1. n = 1 => m + 1 \in 1..(m + n) /\ ~(m + 1 <= m) /\ (m + 1) - m = 1
    BY <1>1
  <2>. QED  BY <2>1, <1>2
<1>7. \A i \in 1..(m + n) : i \in 1..m \/ (n = 1 /\ i = m + 1)
  BY <1>1
<1>8. {t[i] : i \in 1..n} = IF n = 1 THEN {t[1]} ELSE {}
  <2>1. n = 0 \/ n = 1
    BY <1>1
  <2>2. CASE n = 0
    BY <2>2
  <2>3. CASE n = 1
    <3>1. 1..n = {1}
      BY <2>3
    <3>. QED  BY <3>1, <2>3
  <2>. QED  BY <2>1, <2>2, <2>3
<1>9. Among(u) = Among(s) \cup Among(t)
  BY <1>3, <1>5, <1>6, <1>7, <1>8
<1>10. KeysDiffer(u)
  <2>1. ASSUME NEW i \in 1..(m + n), NEW j \in 1..(m + n), u[i].key = u[j].key  PROVE i = j
    <3>1. CASE i \in 1..m /\ j \in 1..m
      BY <3>1, <2>1, <1>4, <1>5
    <3>2. CASE n = 1 /\ i = m + 1 /\ j = m + 1
      BY <3>2
    <3>3. CASE i \in 1..m /\ n = 1 /\ j = m + 1
      <4>1. u[i] \in Among(s) /\ u[j] \in Among(t)
        BY <3>3, <1>3, <1>5, <1>6, <1>8
      <4>. QED  BY <4>1, <2>1
    <3>4. CASE j \in 1..m /\ n = 1 /\ i = m + 1
      <4>1. u[j] \in Among(s) /\ u[i] \in Among(t)
        BY <3>4, <1>3, <1>5, <1>6, <1>8
      <4>. QED  BY <4>1, <2>1
    <3>. QED  BY <3>1, <3>2, <3>3, <3>4, <1>7
  <2>. QED  BY <2>1, <1>2 DEF KeysDiffer
<1>. QED  BY <1>1, <1>2, <1>6, <1>9, <1>10 DEF u, n

LEMMA OneOrNone ==
  ASSUME NEW P, NEW x, P => x \in Calls, NEW s, s = IF P THEN <<x>> ELSE <<>>
  PROVE  /\ s \in Seq(Calls) /\ Len(s) <= 1 /\ KeysDiffer(s)
         /\ Among(s) = IF P THEN {x} ELSE {}
         /\ P => Len(s) = 1 /\ s[1] = x
<1>1. CASE P
  <2>1. s = <<x>> /\ x \in Calls
    BY <1>1
  <2>2. s \in Seq(Calls) /\ Len(s) = 1 /\ s[1] = x
    BY <2>1
  <2>. QED  BY <2>2, <1>1 DEF Among, KeysDiffer
<1>2. CASE ~P
  <2>1. s = <<>>
    BY <1>2
  <2>2. s \in Seq(Calls) /\ Len(s) = 0
    BY <2>1
  <2>. QED  BY <2>2, <1>2 DEF Among, KeysDiffer
<1>. QED  BY <1>1, <1>2

\* What SEND sends: the switch as the panel has it, each pending edit once, and
\* then the computed key, unless there is none.
LEMMA WhatSendSends ==
  ASSUME panel \in Panels, Coherent(panel), panel.send
  PROVE  /\ Updates \in Seq(Calls) /\ KeysDiffer(Updates)
         /\ \A c \in Among(Updates) :
              /\ c.key = "cycle" => c.value = panel.on
              /\ c.key \in Fields => Pending(panel, c.key) /\ c.value = panel.override[c.key]
              /\ c.key = "computed" => c.value = panel.computed
         /\ \A k \in Fields : Pending(panel, k) => \E c \in Among(Updates) : c.key = k
         /\ (\E k \in Fields : panel.computed[k] # NA) =>
              Len(Updates) > 0 /\ Updates[Len(Updates)].key = "computed"
<1> DEFINE call == [key |-> "cycle", value |-> panel.on]
           typed(k) == [key |-> k, value |-> panel.override[k]]
           derived == [key |-> "computed", value |-> panel.computed]
           some == \E k \in Fields : panel.computed[k] # NA
           a == IF SwitchPending(panel) THEN <<call>> ELSE <<>>
           b == IF Pending(panel, "length") THEN <<typed("length")>> ELSE <<>>
           c == IF Pending(panel, "offset") THEN <<typed("offset")>> ELSE <<>>
           d == IF some THEN <<derived>> ELSE <<>>
           ab == a \o b
           abc == ab \o c
<1>1. \A k \in Fields : Pending(panel, k) => panel.override[k] \in Valid
  BY DEF Coherent, SendEnabled
<1>2. Updates = abc \o d
  BY <1>1 DEF Updates, Fields
<1>3. /\ call \in Calls /\ derived \in Calls
      /\ \A k \in Fields : Pending(panel, k) => typed(k) \in Calls
  BY <1>1 DEF Calls, Panels
<1>4. /\ call.key = "cycle" /\ call.value = panel.on
      /\ derived.key = "computed" /\ derived.value = panel.computed
      /\ \A k \in Fields : typed(k).key = k /\ typed(k).value = panel.override[k]
  OBVIOUS
<1>. HIDE DEF call, derived, typed
<1>5. /\ a \in Seq(Calls) /\ Len(a) <= 1 /\ KeysDiffer(a)
      /\ Among(a) = IF SwitchPending(panel) THEN {call} ELSE {}
  BY <1>3, OneOrNone
<1>6. /\ b \in Seq(Calls) /\ Len(b) <= 1
      /\ Among(b) = IF Pending(panel, "length") THEN {typed("length")} ELSE {}
  <2>1. Pending(panel, "length") => typed("length") \in Calls
    BY <1>3 DEF Fields
  <2>. QED  BY <2>1, OneOrNone
<1>7. /\ c \in Seq(Calls) /\ Len(c) <= 1
      /\ Among(c) = IF Pending(panel, "offset") THEN {typed("offset")} ELSE {}
  <2>1. Pending(panel, "offset") => typed("offset") \in Calls
    BY <1>3 DEF Fields
  <2>. QED  BY <2>1, OneOrNone
<1>8. /\ d \in Seq(Calls) /\ Len(d) <= 1 /\ (some => Len(d) = 1 /\ d[1] = derived)
      /\ Among(d) = IF some THEN {derived} ELSE {}
  <2>. HIDE DEF some
  <2>. QED  BY <1>3, OneOrNone
<1>. HIDE DEF a, b, c, d
<1>9. ab \in Seq(Calls) /\ KeysDiffer(ab) /\ Among(ab) = Among(a) \cup Among(b)
  <2>1. \A x \in Among(a), y \in Among(b) : x.key # y.key
    BY <1>4, <1>5, <1>6 DEF Fields
  <2>. QED  BY <2>1, <1>5, <1>6, OneMore
<1>. HIDE DEF ab
<1>10. abc \in Seq(Calls) /\ KeysDiffer(abc) /\ Among(abc) = Among(ab) \cup Among(c)
  <2>1. \A x \in Among(ab), y \in Among(c) : x.key # y.key
    BY <1>4, <1>5, <1>6, <1>7, <1>9 DEF Fields
  <2>. QED  BY <2>1, <1>7, <1>9, OneMore
<1>. HIDE DEF abc
<1>11. /\ Updates \in Seq(Calls) /\ KeysDiffer(Updates)
       /\ Among(Updates) = Among(abc) \cup Among(d)
       /\ Len(d) = 1 => Len(Updates) > 0 /\ Updates[Len(Updates)] = d[1]
  <2>1. \A x \in Among(abc), y \in Among(d) : x.key # y.key
    BY <1>4, <1>5, <1>6, <1>7, <1>8, <1>9, <1>10 DEF Fields
  <2>. QED  BY <2>1, <1>2, <1>8, <1>10, OneMore
<1>12. ASSUME NEW x \in Among(Updates)
       PROVE  /\ x.key = "cycle" => x.value = panel.on
              /\ x.key \in Fields => Pending(panel, x.key) /\ x.value = panel.override[x.key]
              /\ x.key = "computed" => x.value = panel.computed
  BY <1>4, <1>5, <1>6, <1>7, <1>8, <1>9, <1>10, <1>11 DEF Fields
<1>13. ASSUME NEW k \in Fields, Pending(panel, k)
       PROVE  \E x \in Among(Updates) : x.key = k
  BY <1>13, <1>4, <1>6, <1>7, <1>9, <1>10, <1>11 DEF Fields
<1>14. some => Len(Updates) > 0 /\ Updates[Len(Updates)].key = "computed"
  BY <1>4, <1>8, <1>11
<1>. QED  BY <1>11, <1>12, <1>13, <1>14

\* The first of the calls is taken from the queue.
LEMMA FirstCall ==
  ASSUME PanelTypes, calls # <<>>, calls' = Tail(calls)
  PROVE  /\ calls' \in Seq(Calls) /\ Len(calls') \in Nat /\ Len(calls) = Len(calls') + 1
         /\ DOMAIN calls = 1..Len(calls) /\ DOMAIN calls' = 1..Len(calls')
         /\ 1 \in DOMAIN calls /\ calls[1] \in Calls /\ calls[1] = Head(calls)
         /\ \A i \in DOMAIN calls' : i + 1 \in DOMAIN calls /\ calls'[i] = calls[i + 1]
         /\ \A i \in DOMAIN calls : i # 1 => i - 1 \in DOMAIN calls' /\ calls'[i - 1] = calls[i]
<1>1. calls \in Seq(Calls)
  BY DEF PanelTypes
<1>2. /\ calls' \in Seq(Calls) /\ Len(calls) = Len(calls') + 1 /\ Len(calls') \in Nat
      /\ \A i \in 1..Len(calls') : calls'[i] = calls[i + 1]
      /\ Head(calls) = calls[1] /\ calls[1] \in Calls
  BY <1>1, HeadTailProperties, EmptySeq, ElementOfSeq, LenProperties
<1>3. DOMAIN calls = 1..Len(calls) /\ DOMAIN calls' = 1..Len(calls')
  BY <1>1, <1>2, LenProperties
<1>4. \A i \in 1..Len(calls) : i # 1 => i - 1 \in 1..Len(calls') /\ (i - 1) + 1 = i
  BY <1>2
<1>. QED  BY <1>2, <1>3, <1>4

\* Calls are added at its end.
LEMMA MoreCalls ==
  ASSUME PanelTypes, NEW u \in Seq(Calls), calls' = calls \o u
  PROVE  /\ calls' \in Seq(Calls) /\ Len(calls) \in Nat /\ Len(u) \in Nat
         /\ Len(calls') = Len(calls) + Len(u)
         /\ DOMAIN calls = 1..Len(calls) /\ DOMAIN calls' = 1..(Len(calls) + Len(u))
         /\ \A i \in DOMAIN calls : i \in DOMAIN calls' /\ calls'[i] = calls[i]
         /\ \A i \in DOMAIN calls' : i \notin DOMAIN calls =>
              i - Len(calls) \in 1..Len(u) /\ calls'[i] = u[i - Len(calls)]
         /\ \A i \in 1..Len(u) : Len(calls) + i \in DOMAIN calls' /\ calls'[Len(calls) + i] = u[i]
<1> DEFINE m == Len(calls)
           n == Len(u)
<1>1. calls \in Seq(Calls)
  BY DEF PanelTypes
<1>2. m \in Nat /\ n \in Nat
  BY <1>1, LenProperties
<1>3. /\ calls' \in Seq(Calls) /\ Len(calls') = m + n
      /\ \A i \in 1..(m + n) : calls'[i] = IF i <= m THEN calls[i] ELSE u[i - m]
  BY <1>1, ConcatProperties
<1>4. DOMAIN calls = 1..m /\ DOMAIN calls' = 1..(m + n)
  BY <1>1, <1>3, LenProperties
<1>. HIDE DEF m, n
<1>5. \A i \in 1..m : i \in 1..(m + n) /\ calls'[i] = calls[i]
  BY <1>2, <1>3
<1>6. \A i \in 1..(m + n) : i \notin 1..m => i - m \in 1..n /\ calls'[i] = u[i - m]
  BY <1>2, <1>3
<1>7. \A i \in 1..n : m + i \in 1..(m + n) /\ calls'[m + i] = u[i]
  <2>1. \A i \in 1..n : m + i \in 1..(m + n) /\ ~(m + i <= m) /\ (m + i) - m = i
    BY <1>2
  <2>. QED  BY <2>1, <1>3
<1>. QED  BY <1>2, <1>3, <1>4, <1>5, <1>6, <1>7 DEF m, n

Orders == [stop : BOOLEAN, reset : BOOLEAN]

\* What the buttons sent.
LEMMA OrdersAreTyped ==
  ASSUME PanelTypes
  PROVE  /\ orders \in Seq(Orders)
         /\ \A o \in Orders : Append(orders, o) \in Seq(Orders)
         /\ orders # <<>> => Head(orders) \in Orders /\ Tail(orders) \in Seq(Orders)
<1>1. orders \in Seq(Orders)
  BY DEF PanelTypes, Orders
<1>2. \A o \in Orders : Append(orders, o) \in Seq(Orders)
  BY <1>1, AppendProperties
<1>3. orders # <<>> => Head(orders) \in Orders /\ Tail(orders) \in Seq(Orders)
  BY <1>1, HeadTailProperties
<1>. QED  BY <1>1, <1>2, <1>3

\* Where the switch's call is.
LEMMA SwitchCalled ==
  ASSUME PanelTypes, NEW on \in BOOLEAN, calls' = Append(calls, [key |-> "cycle", value |-> on])
  PROVE  /\ <<[key |-> "cycle", value |-> on]>> \in Seq(Calls)
         /\ calls' = calls \o <<[key |-> "cycle", value |-> on]>>
<1>1. [key |-> "cycle", value |-> on] \in Calls
  BY DEF Calls
<1>. QED  BY <1>1 DEF PanelTypes

\* handleUpdateBlackboard changes what the first call names.
LEMMA UpdateHandled ==
  ASSUME PanelTypes, HandleUpdate
  PROVE  LET c == calls[1] IN
         /\ c \in Calls
         /\ board' \in [v : [Fields -> Valid], computed : [Fields -> Numbers \cup {NA}],
                        cycle : BOOLEAN, stop : BOOLEAN, reset : BOOLEAN]
         /\ c.key = "cycle" =>
              board'.cycle = c.value /\ board'.v = board.v /\ board'.computed = board.computed
         /\ c.key = "computed" =>
              board'.cycle = board.cycle /\ board'.v = board.v /\ board'.computed = c.value
         /\ c.key \in Fields =>
              /\ board'.cycle = board.cycle /\ board'.computed = board.computed
              /\ board'.v = [board.v EXCEPT ![c.key] = c.value] /\ c.value \in Valid
<1> DEFINE c == calls[1]
<1>1. c \in Calls /\ c = Head(calls)
  BY FirstCall DEF HandleUpdate
<1>2. /\ c.key = "cycle" => board' = [board EXCEPT !.cycle = c.value]
      /\ c.key = "computed" => board' = [board EXCEPT !.computed = c.value]
      /\ c.key \in Fields => board' = [board EXCEPT !.v[c.key] = c.value]
  BY <1>1 DEF HandleUpdate, Fields
<1>3. \/ c.key = "cycle" /\ c.value \in BOOLEAN
      \/ c.key = "computed" /\ c.value \in [Fields -> Numbers \cup {NA}]
      \/ c.key \in Fields /\ c.value \in Valid
  BY <1>1 DEF Calls
<1>. HIDE DEF c
<1>4. "cycle" \notin Fields /\ "computed" \notin Fields
  BY DEF Fields
<1>5. CASE c.key = "cycle"
  BY <1>1, <1>2, <1>3, <1>4, <1>5 DEF PanelTypes, c
<1>6. CASE c.key = "computed"
  BY <1>1, <1>2, <1>3, <1>4, <1>6 DEF PanelTypes, c
<1>7. CASE c.key \in Fields
  BY <1>1, <1>2, <1>3, <1>4, <1>7 DEF PanelTypes, c
<1>. QED  BY <1>3, <1>5, <1>6, <1>7

\* Becomes and CycleAt of the state after a step, for a value before it.
BecomesNext(k, x) ==
  /\ \A i \in DOMAIN calls' : calls'[i].key = k => calls'[i].value = x
  /\ (\A i \in DOMAIN calls' : calls'[i].key # k) => board'.v[k] = x

CycleAtNext(i, x) ==
  /\ \A j \in 1..(i - 1) :
       calls'[j].key = "cycle" /\ (\A m \in (j + 1)..(i - 1) : calls'[m].key # "cycle")
         => calls'[j].value = x
  /\ (\A j \in 1..(i - 1) : calls'[j].key # "cycle") => board'.cycle = x

LEMMA Nexts ==
  /\ \A i, x : CycleAtNext(i, x) <=> CycleAt(i, x)'
  /\ \A k, x : BecomesNext(k, x) <=> Becomes(k, x)'
BY DEF CycleAtNext, CycleAt, BecomesNext, Becomes

\* A step that changes neither the queue nor the keys.
LEMMA SameQueue ==
  ASSUME calls' = calls, board'.v = board.v, board'.computed = board.computed
  PROVE  /\ OneSend => OneSend'
         /\ OnlySwitches <=> OnlySwitches'
         /\ \A k, x : Becomes(k, x) => BecomesNext(k, x)
<1>1. \A k, x : Becomes(k, x) => BecomesNext(k, x)
  BY DEF Becomes, BecomesNext
<1>2. ASSUME OneSend  PROVE OneSend'
  BY <1>2, <1>1 DEF OneSend, Becomes, BecomesNext
<1>. QED  BY <1>1, <1>2 DEF OnlySwitches

\* A call applied changes the field it names to what the field was to become.
LEMMA AppliedBecomes ==
  ASSUME PanelTypes, OneSend, HandleUpdate, NEW k \in Fields, NEW x, Becomes(k, x)
  PROVE  BecomesNext(k, x)
<1> DEFINE c == calls[1]
<1>1. /\ DOMAIN calls = 1..Len(calls) /\ DOMAIN calls' = 1..Len(calls')
      /\ 1 \in DOMAIN calls
      /\ \A i \in DOMAIN calls' : i + 1 \in DOMAIN calls /\ calls'[i] = calls[i + 1]
      /\ \A i \in DOMAIN calls : i # 1 => i - 1 \in DOMAIN calls' /\ calls'[i - 1] = calls[i]
  BY FirstCall DEF HandleUpdate
<1>2. \A i \in DOMAIN calls' : calls'[i].key = k => calls'[i].value = x
  BY <1>1 DEF Becomes
<1>3. ASSUME \A i \in DOMAIN calls' : calls'[i].key # k  PROVE board'.v[k] = x
  <2>1. \A i \in DOMAIN calls : i # 1 => calls[i].key # k
    BY <1>1, <1>3
  <2>2. CASE c.key = k
    <3>1. c.value = x
      BY <1>1, <2>2 DEF Becomes
    <3>2. board'.v = [board.v EXCEPT ![k] = c.value]
      BY <2>2, UpdateHandled
    <3>3. board.v \in [Fields -> Valid]
      BY DEF PanelTypes
    <3>. QED  BY <3>1, <3>2, <3>3
  <2>3. CASE c.key # k
    <3>1. \A i \in DOMAIN calls : calls[i].key # k
      BY <2>1, <2>3
    <3>2. board.v[k] = x
      BY <3>1 DEF Becomes
    <3>3. board'.v[k] = board.v[k]
      <4>1. c \in Calls /\ board.v \in [Fields -> Valid]
        BY UpdateHandled DEF PanelTypes
      <4>2. c.key \in Fields \cup {"cycle", "computed"}
        BY <4>1 DEF Calls
      <4>. QED  BY <2>3, <4>1, <4>2, UpdateHandled
    <3>. QED  BY <3>2, <3>3
  <2>. QED  BY <2>2, <2>3
<1>. QED  BY <1>2, <1>3 DEF BecomesNext

\* The queue after a call has been applied.
LEMMA AppliedOneSend ==
  ASSUME PanelTypes, OneSend, HandleUpdate
  PROVE  OneSend' /\ (OnlySwitches => OnlySwitches')
<1> DEFINE c == calls[1]
<1>1. /\ DOMAIN calls = 1..Len(calls) /\ DOMAIN calls' = 1..Len(calls') /\ Len(calls') \in Nat
      /\ 1 \in DOMAIN calls /\ c \in Calls
      /\ \A i \in DOMAIN calls' : i + 1 \in DOMAIN calls /\ calls'[i] = calls[i + 1]
      /\ \A i \in DOMAIN calls : i # 1 => i - 1 \in DOMAIN calls' /\ calls'[i - 1] = calls[i]
  BY FirstCall DEF HandleUpdate
<1>2. c.key \in Fields \cup {"cycle", "computed"}
  BY <1>1 DEF Calls
<1>3. ASSUME NEW i \in DOMAIN calls', NEW j \in DOMAIN calls',
             calls'[i].key = calls'[j].key, calls'[i].key # "cycle"
      PROVE  i = j
  <2>1. i + 1 = j + 1
    BY <1>1, <1>3 DEF OneSend
  <2>. QED  BY <2>1, <1>1
<1>4. ASSUME NEW i \in DOMAIN calls', calls'[i].key \in Fields
      PROVE  \E j \in DOMAIN calls' : i < j /\ calls'[j].key = "computed"
  <2>1. PICK j \in DOMAIN calls : i + 1 < j /\ calls[j].key = "computed"
    BY <1>1, <1>4 DEF OneSend
  <2>2. j - 1 \in DOMAIN calls' /\ calls'[j - 1] = calls[j] /\ i < j - 1
    BY <2>1, <1>1
  <2>. QED  BY <2>1, <2>2
<1>5. ASSUME NEW i \in DOMAIN calls', calls'[i].key = "computed", NEW k \in Fields
      PROVE  BecomesNext(k, calls'[i].value[k])
  <2>1. Becomes(k, calls[i + 1].value[k])
    BY <1>1, <1>5 DEF OneSend
  <2>. QED  BY <2>1, <1>1, <1>5, AppliedBecomes
<1>6. ASSUME \A i \in DOMAIN calls' : calls'[i].key # "computed"
      PROVE  board'.computed = board'.v
  <2>1. \A i \in DOMAIN calls : i # 1 => calls[i].key # "computed"
    BY <1>1, <1>6
  <2>2. CASE c.key = "computed"
    <3>1. \A k \in Fields : Becomes(k, c.value[k])
      BY <2>2, <1>1 DEF OneSend
    <3>2. \A i \in DOMAIN calls : calls[i].key \notin Fields
      <4>1. ASSUME NEW i \in DOMAIN calls, calls[i].key \in Fields  PROVE FALSE
        <5>1. PICK j \in DOMAIN calls : i < j /\ calls[j].key = "computed"
          BY <4>1 DEF OneSend
        <5>. QED  BY <5>1, <2>1, <1>1
      <4>. QED  BY <4>1
    <3>3. \A k \in Fields : board.v[k] = c.value[k]
      BY <3>1, <3>2 DEF Becomes
    <3>4. board'.v = board.v /\ board'.computed = c.value
      BY <2>2, UpdateHandled
    <3>5. board'.v \in [Fields -> Valid] /\ board'.computed \in [Fields -> Numbers \cup {NA}]
      BY UpdateHandled
    <3>. QED  BY <3>3, <3>4, <3>5
  <2>3. CASE c.key \in Fields
    <3>1. PICK j \in DOMAIN calls : 1 < j /\ calls[j].key = "computed"
      BY <2>3, <1>1 DEF OneSend
    <3>. QED  BY <3>1, <2>1
  <2>4. CASE c.key = "cycle"
    <3>1. board.computed = board.v
      BY <2>1, <2>4, <1>1 DEF OneSend
    <3>. QED  BY <3>1, <2>4, UpdateHandled
  <2>. QED  BY <1>2, <2>2, <2>3, <2>4
<1>7. board'.computed \in [Fields -> Valid]
  <2>1. CASE c.key = "computed"
    <3>1. \A i \in DOMAIN calls' : calls'[i].key # "computed"
      <4>1. ASSUME NEW i \in DOMAIN calls', calls'[i].key = "computed"  PROVE FALSE
        <5>1. i + 1 = 1
          BY <4>1, <2>1, <1>1 DEF OneSend
        <5>. QED  BY <5>1, <1>1
      <4>. QED  BY <4>1
    <3>. QED  BY <3>1, <1>6, UpdateHandled
  <2>2. CASE c.key # "computed"
    BY <2>2, <1>2, UpdateHandled DEF OneSend
  <2>. QED  BY <2>1, <2>2
<1>8. OneSend'
  BY <1>3, <1>4, <1>5, <1>6, <1>7 DEF OneSend, BecomesNext, Becomes
<1>. QED  BY <1>1, <1>8 DEF OnlySwitches

\* The queue after the switch has been turned.
LEMMA ToggledQueue ==
  ASSUME PanelTypes, OneSend, Toggle
  PROVE  /\ OneSend' /\ (OnlySwitches => OnlySwitches')
         /\ \A k \in Fields : \A x : Becomes(k, x) => BecomesNext(k, x)
<1> DEFINE on == ~panel.on
           c == [key |-> "cycle", value |-> on]
           u == <<c>>
<1>1. on \in BOOLEAN /\ calls' = Append(calls, c) /\ board' = board
  BY DEF Toggle
<1>. HIDE DEF on
<1>2. u \in Seq(Calls) /\ calls' = calls \o u
  BY <1>1, SwitchCalled
<1>3. c.key = "cycle" /\ \A i \in 1..Len(u) : u[i] = c
  OBVIOUS
<1>. HIDE DEF u, c
<1>4. /\ \A i \in DOMAIN calls : i \in DOMAIN calls' /\ calls'[i] = calls[i]
      /\ \A i \in DOMAIN calls' : i \notin DOMAIN calls => calls'[i].key = "cycle"
  BY <1>2, <1>3, MoreCalls
<1>5. ASSUME NEW k \in Fields, NEW x, Becomes(k, x)  PROVE BecomesNext(k, x)
  <2>1. k # "cycle"
    BY DEF Fields
  <2>. QED  BY <2>1, <1>1, <1>4, <1>5 DEF Becomes, BecomesNext
<1>6. ASSUME NEW i \in DOMAIN calls', NEW j \in DOMAIN calls',
             calls'[i].key = calls'[j].key, calls'[i].key # "cycle"
      PROVE  i = j
  BY <1>4, <1>6 DEF OneSend
<1>7. ASSUME NEW i \in DOMAIN calls', calls'[i].key \in Fields
      PROVE  \E j \in DOMAIN calls' : i < j /\ calls'[j].key = "computed"
  <2>1. i \in DOMAIN calls /\ calls[i].key \in Fields
    BY <1>4, <1>7 DEF Fields
  <2>2. PICK j \in DOMAIN calls : i < j /\ calls[j].key = "computed"
    BY <2>1 DEF OneSend
  <2>. QED  BY <2>2, <1>4
<1>8. ASSUME NEW i \in DOMAIN calls', calls'[i].key = "computed", NEW k \in Fields
      PROVE  BecomesNext(k, calls'[i].value[k])
  <2>1. i \in DOMAIN calls /\ calls[i] = calls'[i]
    BY <1>4, <1>8
  <2>2. Becomes(k, calls[i].value[k])
    BY <2>1, <1>8 DEF OneSend
  <2>. QED  BY <2>1, <2>2, <1>5
<1>9. /\ (\A i \in DOMAIN calls' : calls'[i].key # "computed") => board'.computed = board'.v
      /\ board'.computed \in [Fields -> Valid]
  BY <1>1, <1>4 DEF OneSend
<1>10. OneSend'
  BY <1>6, <1>7, <1>8, <1>9 DEF OneSend, BecomesNext, Becomes
<1>. QED  BY <1>4, <1>5, <1>10 DEF OnlySwitches

\* When the panel shows what is on the blackboard, SEND is enabled only if each
\* number the other keys are computed from is the edit about to be sent, or else
\* the number on the blackboard.
LEMMA FreshMerged ==
  ASSUME PanelTypes, Coherent(panel), panel.send, SentEditsStand,
         OnlySwitches, panel.current = board.v
  PROVE  /\ panel.computed = Merged(panel)
         /\ \A k \in Fields :
              /\ panel.edited[k] # Empty => panel.computed[k] = panel.edited[k]
              /\ Pending(panel, k) => panel.computed[k] = panel.override[k]
              /\ ~Pending(panel, k) => panel.computed[k] = board.v[k]
              /\ panel.computed[k] # NA
<1>1. ASSUME NEW k \in Fields
      PROVE  /\ panel.edited[k] # Empty => Merged(panel)[k] = panel.edited[k]
             /\ Pending(panel, k) => Merged(panel)[k] = panel.override[k]
             /\ ~Pending(panel, k) => Merged(panel)[k] = board.v[k]
             /\ Merged(panel)[k] # NA
  <2>1. board.v[k] \in Valid /\ NA \notin Valid /\ Empty \notin Valid
    BY NumbersApart DEF PanelTypes, Numbers
  <2>2. Merged(panel)[k] = IF panel.edited[k] = Empty THEN board.v[k] ELSE panel.edited[k]
    BY DEF Merged
  <2>3. CASE panel.override[k] # Empty
    <3>1. panel.edited[k] = panel.override[k] /\ Merged(panel)[k] = panel.override[k]
      BY <2>2, <2>3 DEF Coherent
    <3>2. Pending(panel, k) <=> panel.override[k] # board.v[k]
      BY <2>3 DEF Pending
    <3>3. Pending(panel, k) => panel.override[k] \in Valid
      BY DEF Coherent, SendEnabled
    <3>. QED  BY <2>1, <3>1, <3>2, <3>3
  <2>4. CASE panel.override[k] = Empty
    <3>1. ~Pending(panel, k)
      BY <2>4 DEF Pending
    <3>2. panel.edited[k] # Empty => Becomes(k, panel.edited[k])
      BY <2>4 DEF SentEditsStand
    <3>3. k # "cycle"
      BY DEF Fields
    <3>4. panel.edited[k] # Empty => board.v[k] = panel.edited[k]
      BY <3>2, <3>3 DEF Becomes, OnlySwitches
    <3>. QED  BY <2>1, <2>2, <3>1, <3>4
  <2>. QED  BY <2>3, <2>4
<1>2. panel.computed = Merged(panel)
  BY <1>1 DEF Coherent, Fields
<1>. QED  BY <1>1, <1>2

\* The queue after SEND, when the panel had shown what is on the blackboard.
LEMMA SentQueue ==
  ASSUME PanelTypes, Coherent(panel), OneSend, SentEditsStand,
         OnlySwitches, panel.current = board.v, Send
  PROVE  OneSend' /\ SentEditsStand'
<1> DEFINE u == Updates
           n == Len(calls)
<1>1. panel \in Panels /\ panel.send /\ calls' = calls \o u /\ board' = board
  BY DEF PanelTypes, Send
<1>2. /\ u \in Seq(Calls) /\ KeysDiffer(u)
      /\ \A c \in Among(u) :
           /\ c.key \in Fields => Pending(panel, c.key) /\ c.value = panel.override[c.key]
           /\ c.key = "computed" => c.value = panel.computed
      /\ \A k \in Fields : Pending(panel, k) => \E c \in Among(u) : c.key = k
      /\ (\E k \in Fields : panel.computed[k] # NA) => Len(u) > 0 /\ u[Len(u)].key = "computed"
  BY <1>1, WhatSendSends
<1>. HIDE DEF u
<1>3. /\ n \in Nat /\ Len(u) \in Nat
      /\ DOMAIN calls' = 1..(n + Len(u)) /\ DOMAIN calls = 1..n
      /\ \A i \in DOMAIN calls : i \in DOMAIN calls' /\ calls'[i] = calls[i]
      /\ \A i \in DOMAIN calls' : i \notin DOMAIN calls =>
           i - n \in 1..Len(u) /\ calls'[i] = u[i - n]
      /\ \A i \in 1..Len(u) : n + i \in DOMAIN calls' /\ calls'[n + i] = u[i]
  BY <1>1, <1>2, MoreCalls
<1>. HIDE DEF n
<1>4. /\ \A i \in 1..Len(u) : u[i] \in Among(u)
      /\ \A c \in Among(u) : \E i \in 1..Len(u) : u[i] = c
  BY DEF Among
<1>5. /\ panel.computed = Merged(panel)
      /\ \A k \in Fields :
           /\ panel.edited[k] # Empty => panel.computed[k] = panel.edited[k]
           /\ Pending(panel, k) => panel.computed[k] = panel.override[k]
           /\ ~Pending(panel, k) => panel.computed[k] = board.v[k]
           /\ panel.computed[k] # NA
  BY <1>1, FreshMerged
<1>6. \A i \in DOMAIN calls' : calls'[i].key # "cycle" => i \notin DOMAIN calls
  BY <1>3 DEF OnlySwitches
<1>7. Len(u) > 0 /\ u[Len(u)].key = "computed"
  BY <1>2, <1>5 DEF Fields
<1>8. n + Len(u) \in DOMAIN calls' /\ calls'[n + Len(u)].key = "computed"
  BY <1>3, <1>7
<1>9. ASSUME NEW i \in DOMAIN calls', NEW j \in DOMAIN calls',
             calls'[i].key = calls'[j].key, calls'[i].key # "cycle"
      PROVE  i = j
  <2>1. /\ i - n \in 1..Len(u) /\ calls'[i] = u[i - n]
        /\ j - n \in 1..Len(u) /\ calls'[j] = u[j - n]
    BY <1>3, <1>6, <1>9
  <2>2. i - n = j - n
    BY <2>1, <1>2, <1>9 DEF KeysDiffer
  <2>. QED  BY <2>2, <1>3
<1>10. ASSUME NEW i \in DOMAIN calls', calls'[i].key \in Fields
       PROVE  \E j \in DOMAIN calls' : i < j /\ calls'[j].key = "computed"
  <2>1. i # n + Len(u)
    BY <1>8, <1>10 DEF Fields
  <2>2. i < n + Len(u)
    BY <2>1, <1>3
  <2>. QED  BY <2>2, <1>8
<1>11. ASSUME NEW k \in Fields
       PROVE  BecomesNext(k, panel.computed[k])
  <2>1. k # "cycle"
    BY DEF Fields
  <2>2. ASSUME NEW i \in DOMAIN calls', calls'[i].key = k
        PROVE  calls'[i].value = panel.computed[k]
    <3>1. i - n \in 1..Len(u) /\ calls'[i] = u[i - n]
      BY <1>3, <1>6, <2>1, <2>2
    <3>. QED  BY <3>1, <2>2, <1>2, <1>4, <1>5
  <2>3. ASSUME \A i \in DOMAIN calls' : calls'[i].key # k
        PROVE  board'.v[k] = panel.computed[k]
    <3>1. ~Pending(panel, k)
      <4>1. ASSUME Pending(panel, k)  PROVE FALSE
        <5>1. PICK i \in 1..Len(u) : u[i].key = k
          BY <4>1, <1>2, <1>4
        <5>. QED  BY <5>1, <1>3, <2>3
      <4>. QED  BY <4>1
    <3>. QED  BY <3>1, <1>1, <1>5
  <2>. QED  BY <2>2, <2>3 DEF BecomesNext
<1>12. ASSUME NEW i \in DOMAIN calls', calls'[i].key = "computed"
       PROVE  calls'[i].value = panel.computed
  <2>1. i - n \in 1..Len(u) /\ calls'[i] = u[i - n]
    BY <1>3, <1>6, <1>12
  <2>. QED  BY <2>1, <1>2, <1>4, <1>12
<1>13. OneSend'
  <2>1. board'.computed \in [Fields -> Valid]
    BY <1>1 DEF OneSend
  <2>2. ASSUME NEW i \in DOMAIN calls', calls'[i].key = "computed", NEW k \in Fields
        PROVE  BecomesNext(k, calls'[i].value[k])
    BY <2>2, <1>11, <1>12
  <2>. QED  BY <2>1, <2>2, <1>8, <1>9, <1>10 DEF OneSend, BecomesNext, Becomes
<1>14. SentEditsStand'
  <2>1. ASSUME NEW k \in Fields, panel'.edited[k] # Empty
        PROVE  BecomesNext(k, panel'.edited[k])
    <3>1. panel'.edited[k] = panel.edited[k]
      <4>1. PICK respelled \in SUBSET Fields : panel' = AfterSend(respelled)
        BY DEF Send
      <4>. QED  BY <4>1, <2>1, <1>1, PanelAfterSend
    <3>2. panel'.edited[k] = panel.computed[k]
      BY <3>1, <2>1, <1>5
    <3>. QED  BY <3>2, <1>11
  <2>. QED  BY <2>1 DEF SentEditsStand, BecomesNext, Becomes
<1>. QED  BY <1>13, <1>14

-----------------------------------------------------------------------------
(* Lemmas about the switch.                                                *)

\* What the switch is after a number of calls does not depend on which of them
\* have been applied.
LEMMA AppliedCycleAt ==
  ASSUME PanelTypes, HandleUpdate, NEW i \in 1..(Len(calls') + 1), NEW x, CycleAt(i + 1, x)
  PROVE  CycleAtNext(i, x)
<1> DEFINE c == calls[1]
<1>1. /\ DOMAIN calls = 1..Len(calls) /\ DOMAIN calls' = 1..Len(calls') /\ Len(calls') \in Nat
      /\ c \in Calls /\ i \in Nat
      /\ \A j \in DOMAIN calls' : calls'[j] = calls[j + 1]
  BY FirstCall DEF HandleUpdate
<1>2. \A j \in 1..(i - 1) : j \in DOMAIN calls' /\ j + 1 \in 1..((i + 1) - 1)
  BY <1>1
<1>3. ASSUME NEW j \in 1..(i - 1), calls'[j].key = "cycle",
             \A m \in (j + 1)..(i - 1) : calls'[m].key # "cycle"
      PROVE  calls'[j].value = x
  <2>1. \A m \in ((j + 1) + 1)..((i + 1) - 1) : calls[m].key # "cycle"
    <3>1. ASSUME NEW m \in ((j + 1) + 1)..((i + 1) - 1)  PROVE calls[m].key # "cycle"
      <4>1. m - 1 \in (j + 1)..(i - 1) /\ m - 1 \in 1..(i - 1) /\ (m - 1) + 1 = m
        BY <1>1
      <4>. QED  BY <4>1, <1>1, <1>2, <1>3
    <3>. QED  BY <3>1
  <2>2. calls[j + 1].key = "cycle" /\ calls[j + 1] = calls'[j]
    BY <1>1, <1>2, <1>3
  <2>. QED  BY <2>1, <2>2, <1>2 DEF CycleAt
<1>4. ASSUME \A j \in 1..(i - 1) : calls'[j].key # "cycle"
      PROVE  board'.cycle = x
  <2>1. \A m \in 2..((i + 1) - 1) : calls[m].key # "cycle"
    <3>1. ASSUME NEW m \in 2..((i + 1) - 1)  PROVE calls[m].key # "cycle"
      <4>1. m - 1 \in 1..(i - 1) /\ (m - 1) + 1 = m
        BY <1>1
      <4>. QED  BY <4>1, <1>1, <1>2, <1>4
    <3>. QED  BY <3>1
  <2>2. CASE c.key = "cycle"
    <3>1. 1 \in 1..((i + 1) - 1) /\ 1 + 1 = 2
      BY <1>1
    <3>2. c.value = x
      BY <2>1, <2>2, <3>1 DEF CycleAt
    <3>. QED  BY <3>2, <2>2, UpdateHandled
  <2>3. CASE c.key # "cycle"
    <3>1. \A m \in 1..((i + 1) - 1) : m = 1 \/ m \in 2..((i + 1) - 1)
      BY <1>1
    <3>2. board.cycle = x
      BY <3>1, <2>1, <2>3 DEF CycleAt
    <3>3. c.key \in Fields \cup {"computed"}
      BY <1>1, <2>3 DEF Calls
    <3>. QED  BY <3>2, <3>3, UpdateHandled
  <2>. QED  BY <2>2, <2>3
<1>. QED  BY <1>3, <1>4 DEF CycleAtNext

LEMMA AppliedInOrder ==
  ASSUME PanelTypes, HandleUpdate, SwitchInOrder
  PROVE  SwitchInOrder'
<1>1. /\ DOMAIN calls' = 1..Len(calls') /\ Len(calls') \in Nat /\ Len(calls) = Len(calls') + 1
      /\ \A j \in DOMAIN calls' : j + 1 \in DOMAIN calls /\ calls'[j] = calls[j + 1]
  BY FirstCall DEF HandleUpdate
<1>2. panel' = panel
  BY DEF HandleUpdate, Quiet
<1>3. CycleAtNext(Len(calls') + 1, panel.on)
  <2>1. Len(calls') + 1 \in 1..(Len(calls') + 1) /\ CycleAt((Len(calls') + 1) + 1, panel.on)
    BY <1>1 DEF SwitchInOrder
  <2>. QED  BY <2>1, AppliedCycleAt
<1>4. ASSUME NEW i \in DOMAIN calls', calls'[i].key # "cycle"  PROVE CycleAtNext(i, FALSE)
  <2>1. i \in 1..(Len(calls') + 1)
    BY <1>1
  <2>2. i + 1 \in DOMAIN calls /\ calls[i + 1].key # "cycle"
    BY <1>1, <1>4
  <2>3. CycleAt(i + 1, FALSE)
    BY <2>2 DEF SwitchInOrder
  <2>. QED  BY <2>1, <2>3, AppliedCycleAt
<1>. QED  BY <1>2, <1>3, <1>4 DEF SwitchInOrder, CycleAtNext, CycleAt

\* What is added to the queue changes nothing for the calls before it.
LEMMA BeforeMoreCalls ==
  ASSUME PanelTypes, NEW u \in Seq(Calls), calls' = calls \o u, board' = board,
         NEW i \in 1..(Len(calls) + 1), NEW x, CycleAt(i, x)
  PROVE  CycleAtNext(i, x)
<1>1. /\ Len(calls) \in Nat /\ DOMAIN calls = 1..Len(calls)
      /\ \A j \in DOMAIN calls : calls'[j] = calls[j]
  BY MoreCalls
<1>2. \A j \in 1..(i - 1) : calls'[j] = calls[j]
  <2>1. \A j \in 1..(i - 1) : j \in 1..Len(calls)
    BY <1>1
  <2>. QED  BY <2>1, <1>1
<1>3. \A j \in 1..(i - 1) : \A m \in (j + 1)..(i - 1) : m \in 1..(i - 1)
  BY <1>1
<1>. QED  BY <1>2, <1>3 DEF CycleAt, CycleAtNext

\* Further on the switch is what the calls added say, or is left as it was.
LEMMA AfterMoreCalls ==
  ASSUME PanelTypes, NEW u \in Seq(Calls), calls' = calls \o u, board' = board,
         NEW x, \A j \in 1..Len(u) : u[j].key = "cycle" => u[j].value = x,
         NEW i \in Nat, i > Len(calls), i <= Len(calls') + 1,
         CycleAt(Len(calls) + 1, x) \/ (i > Len(calls) + 1 /\ u[1].key = "cycle")
  PROVE  CycleAtNext(i, x)
<1> DEFINE n == Len(calls)
<1>1. /\ n \in Nat /\ DOMAIN calls = 1..n /\ Len(u) \in Nat
      /\ DOMAIN calls' = 1..(n + Len(u)) /\ Len(calls') = n + Len(u)
      /\ \A j \in DOMAIN calls : calls'[j] = calls[j]
      /\ \A j \in DOMAIN calls' : j \notin DOMAIN calls => j - n \in 1..Len(u) /\ calls'[j] = u[j - n]
      /\ \A j \in 1..Len(u) : calls'[n + j] = u[j]
  BY MoreCalls
<1>2. ~(CycleAt(n + 1, x)) => n + 1 \in 1..(i - 1) /\ calls'[n + 1].key = "cycle"
  <2>1. ~(CycleAt(n + 1, x)) => u[1].key = "cycle" /\ i > n + 1 /\ 1 \in 1..Len(u)
    BY <1>1
  <2>. QED  BY <2>1, <1>1
<1>. HIDE DEF n
<1>3. \A j \in 1..(i - 1) : j \in DOMAIN calls'
  BY <1>1 DEF n
<1>4. \A j \in 1..n : calls'[j] = calls[j] /\ j \in 1..(i - 1)
  BY <1>1 DEF n
<1>5. ASSUME NEW j \in 1..(i - 1), calls'[j].key = "cycle",
             \A m \in (j + 1)..(i - 1) : calls'[m].key # "cycle"
      PROVE  calls'[j].value = x
  <2>1. CASE j \in 1..n
    <3>1. n + 1 \in (j + 1)..(i - 1) \/ CycleAt(n + 1, x)
      BY <1>1, <1>2, <2>1
    <3>2. CycleAt(n + 1, x)
      BY <3>1, <1>2, <1>5
    <3>3. \A m \in (j + 1)..((n + 1) - 1) : m \in (j + 1)..(i - 1) /\ m \in 1..n
      BY <1>1, <2>1 DEF n
    <3>4. \A m \in (j + 1)..((n + 1) - 1) : calls[m].key # "cycle"
      BY <3>3, <1>4, <1>5
    <3>5. j \in 1..((n + 1) - 1) /\ calls[j] = calls'[j]
      BY <1>1, <1>4, <2>1
    <3>. QED  BY <3>2, <3>4, <3>5, <1>5 DEF CycleAt
  <2>2. CASE j \notin 1..n
    BY <2>2, <1>1, <1>3, <1>5
  <2>. QED  BY <2>1, <2>2
<1>6. ASSUME \A j \in 1..(i - 1) : calls'[j].key # "cycle"  PROVE board'.cycle = x
  <2>1. CycleAt(n + 1, x)
    BY <1>2, <1>6
  <2>2. \A j \in 1..((n + 1) - 1) : j \in 1..n
    BY <1>1
  <2>3. \A j \in 1..((n + 1) - 1) : calls[j].key # "cycle"
    BY <2>2, <1>4, <1>6
  <2>. QED  BY <2>1, <2>3 DEF CycleAt
<1>. QED  BY <1>5, <1>6 DEF CycleAtNext

LEMMA ToggledInOrder ==
  ASSUME PanelTypes, Coherent(panel), Toggle, SwitchInOrder
  PROVE  SwitchInOrder'
<1> DEFINE on == ~panel.on
           c == [key |-> "cycle", value |-> on]
           u == <<c>>
           n == Len(calls)
<1>1. panel \in Panels /\ on \in BOOLEAN /\ calls' = Append(calls, c) /\ board' = board
  BY DEF Toggle, PanelTypes
<1>2. panel'.on = on
  <2>1. (panel'.on <=> on) /\ panel'.on \in BOOLEAN
    BY <1>1, Toggled DEF Panels
  <2>. QED  BY <2>1, <1>1
<1>. HIDE DEF on
<1>3. u \in Seq(Calls) /\ calls' = calls \o u
  BY <1>1, SwitchCalled
<1>4. Len(u) = 1 /\ u[1] = c /\ c.key = "cycle" /\ c.value = on
  OBVIOUS
<1>. HIDE DEF u, c
<1>5. /\ n \in Nat /\ DOMAIN calls = 1..n /\ DOMAIN calls' = 1..(n + 1) /\ Len(calls') = n + 1
      /\ \A i \in DOMAIN calls : calls'[i] = calls[i]
      /\ calls'[n + 1] = c
  <2>1. /\ n \in Nat /\ DOMAIN calls = 1..n /\ DOMAIN calls' = 1..(n + Len(u))
        /\ Len(calls') = n + Len(u)
        /\ \A i \in DOMAIN calls : calls'[i] = calls[i]
        /\ \A i \in 1..Len(u) : calls'[n + i] = u[i]
    BY <1>3, MoreCalls
  <2>2. 1 \in 1..Len(u)
    BY <1>4
  <2>. QED  BY <2>1, <2>2, <1>4
<1>6. CycleAtNext(Len(calls') + 1, on)
  <2>1. \A j \in 1..Len(u) : u[j].key = "cycle" => u[j].value = on
    BY <1>4
  <2> DEFINE i == Len(calls') + 1
  <2>2. i \in Nat /\ i > Len(calls) /\ i <= Len(calls') + 1 /\ i > Len(calls) + 1
    BY <1>5
  <2>3. u[1].key = "cycle"
    BY <1>4
  <2>. HIDE DEF i
  <2>4. CycleAtNext(i, on)
    BY <2>1, <2>2, <2>3, <1>1, <1>3, AfterMoreCalls
  <2>. QED  BY <2>4 DEF i
<1>7. ASSUME NEW i \in DOMAIN calls', calls'[i].key # "cycle"  PROVE CycleAtNext(i, FALSE)
  <2>1. i \in DOMAIN calls /\ calls'[i] = calls[i]
    <3>1. i # n + 1
      BY <1>4, <1>5, <1>7
    <3>. QED  BY <3>1, <1>5
  <2>2. CycleAt(i, FALSE)
    BY <2>1, <1>7 DEF SwitchInOrder
  <2>3. i \in 1..(Len(calls) + 1)
    BY <2>1, <1>5
  <2>. QED  BY <2>2, <2>3, <1>1, <1>3, BeforeMoreCalls
<1>. QED  BY <1>2, <1>6, <1>7 DEF SwitchInOrder, CycleAtNext, CycleAt

LEMMA SentInOrder ==
  ASSUME PanelTypes, Coherent(panel), Send, SwitchInOrder
  PROVE  SwitchInOrder'
<1> DEFINE u == Updates
           n == Len(calls)
<1>1. /\ panel \in Panels /\ panel.send /\ calls' = calls \o u /\ board' = board
      /\ panel.on = FALSE
  <2>1. panel \in Panels /\ panel.send /\ calls' = calls \o u /\ board' = board
    BY DEF PanelTypes, Send
  <2>2. ~panel.on /\ panel.on \in BOOLEAN
    BY <2>1 DEF Coherent, SendEnabled, Panels
  <2>. QED  BY <2>1, <2>2
<1>2. u \in Seq(Calls) /\ \A j \in 1..Len(u) : u[j].key = "cycle" => u[j].value = FALSE
  BY <1>1, WhatSendSends DEF Among
<1>3. panel'.on = FALSE
  <2>1. PICK respelled \in SUBSET Fields : panel' = AfterSend(respelled)
    BY DEF Send
  <2>. QED  BY <2>1, <1>1, PanelAfterSend
<1>. HIDE DEF u
<1>4. /\ n \in Nat /\ Len(u) \in Nat /\ Len(calls') = n + Len(u)
      /\ DOMAIN calls = 1..n /\ DOMAIN calls' = 1..(n + Len(u))
      /\ \A i \in DOMAIN calls : calls'[i] = calls[i]
  BY <1>1, <1>2, MoreCalls
<1>5. CycleAt(n + 1, FALSE)
  BY <1>1 DEF SwitchInOrder
<1>6. ASSUME NEW i \in Nat, i > n, i <= Len(calls') + 1  PROVE CycleAtNext(i, FALSE)
  BY <1>1, <1>2, <1>5, <1>6, AfterMoreCalls
<1>7. CycleAtNext(Len(calls') + 1, FALSE)
  <2> DEFINE i == Len(calls') + 1
  <2>1. i \in Nat /\ i > n /\ i <= Len(calls') + 1
    BY <1>4
  <2>. HIDE DEF i
  <2>2. CycleAtNext(i, FALSE)
    BY <2>1, <1>6
  <2>. QED  BY <2>2 DEF i
<1>8. ASSUME NEW i \in DOMAIN calls', calls'[i].key # "cycle"  PROVE CycleAtNext(i, FALSE)
  <2>1. CASE i \in DOMAIN calls
    <3>1. calls[i].key # "cycle"
      BY <2>1, <1>4, <1>8
    <3>2. CycleAt(i, FALSE)
      BY <2>1, <3>1 DEF SwitchInOrder
    <3>3. i \in 1..(Len(calls) + 1)
      BY <2>1, <1>4
    <3>. QED  BY <3>2, <3>3, <1>1, <1>2, BeforeMoreCalls
  <2>2. CASE i \notin DOMAIN calls
    <3>1. i \in Nat /\ i > n /\ i <= Len(calls') + 1
      BY <2>2, <1>4
    <3>. QED  BY <3>1, <1>6
  <2>. QED  BY <2>1, <2>2
<1>. QED  BY <1>3, <1>7, <1>8 DEF SwitchInOrder, CycleAtNext, CycleAt

LEMMA SameSwitch ==
  ASSUME calls' = calls, board'.cycle = board.cycle, panel'.on = panel.on, SwitchInOrder
  PROVE  SwitchInOrder'
<1>1. \A i, x : CycleAt(i, x) => CycleAtNext(i, x)
  BY DEF CycleAt, CycleAtNext
<1>2. CycleAtNext(Len(calls') + 1, panel'.on)
  BY <1>1 DEF SwitchInOrder
<1>3. \A i \in DOMAIN calls' : calls'[i].key # "cycle" => CycleAtNext(i, FALSE)
  BY <1>1 DEF SwitchInOrder
<1>. QED  BY <1>2, <1>3 DEF SwitchInOrder, CycleAtNext, CycleAt

-----------------------------------------------------------------------------
(* The invariant.                                                          *)

LEMMA InitInv ==
  ASSUME Init
  PROVE  PanelInv
<1>0. First \in Valid /\ First \in Numbers
  BY ConstantsAssumption DEF Numbers
<1>1. PanelTypes
  <2>1. panel \in Panels
    BY DEF Init, Panels, Texts, Switches
  <2>2. board \in [v : [Fields -> Valid], computed : [Fields -> Numbers \cup {NA}],
                   cycle : BOOLEAN, stop : BOOLEAN, reset : BOOLEAN]
    BY <1>0 DEF Init, AtStart
  <2>3. calls \in Seq(Calls) /\ orders \in Seq([stop : BOOLEAN, reset : BOOLEAN])
    BY EmptySeq DEF Init
  <2>. QED  BY <2>1, <2>2, <2>3 DEF Init, PanelTypes
<1>2. Coherent(panel)
  <2>1. ~SendEnabled(panel)
    BY DEF Init, SendEnabled, SwitchPending, Pending
  <2>2. \A k \in Fields : Merged(panel)[k] = NA
    BY DEF Init, Merged
  <2>. QED  BY <2>1, <2>2 DEF Init, Coherent
<1>3. Len(calls) = 0 /\ DOMAIN calls = {}
  <2>1. calls \in Seq(Calls) /\ Len(calls) = 0
    BY <1>1 DEF PanelTypes, Init
  <2>. QED  BY <2>1, LenProperties
<1>4. OneSend
  BY <1>0, <1>3 DEF Init, AtStart, OneSend
<1>5. SentEditsStand /\ StatusIsTrue /\ view # "fresh"
  BY DEF Init, SentEditsStand, StatusIsTrue
<1>6. SwitchInOrder
  <2>1. board.cycle = FALSE /\ panel.on = FALSE
    BY DEF Init, AtStart
  <2>2. Len(calls) + 1 = 1 /\ 1..(1 - 1) = {}
    BY <1>3
  <2>3. CycleAt(1, FALSE)
    BY <2>1, <2>2 DEF CycleAt
  <2>. QED  BY <1>3, <2>1, <2>2, <2>3 DEF SwitchInOrder
<1>. QED  BY <1>1, <1>2, <1>4, <1>5, <1>6 DEF PanelInv

LEMMA EditKeeps ==
  ASSUME PanelInv, Edit
  PROVE  PanelInv'
<1>1. PanelTypes /\ panel \in Panels /\ Coherent(panel)
  BY DEF PanelInv, PanelTypes
<1>2. Edited(panel, panel')
  <2>1. ASSUME NEW k \in Fields \ {panel.focus}, panel' = EnterField(panel, k)
        PROVE  Edited(panel, panel')
    BY <2>1, <1>1, FieldEntered
  <2>2. ASSUME NEW t \in Numbers \cup {Empty}, panel.focus # "",
               panel' = SetText(panel, panel.focus, t)
        PROVE  Edited(panel, panel')
    <3>1. panel.focus \in Fields /\ t \in Texts /\ t # NA
      BY <2>2, <1>1, NumbersApart DEF Panels, Texts
    <3>. QED  BY <3>1, <2>2, <1>1, TextSet
  <2>3. ASSUME panel' = LeaveField(panel)  PROVE Edited(panel, panel')
    BY <2>3, <1>1, FieldLeft
  <2>. QED  BY <2>1, <2>2, <2>3 DEF Edit
<1>3. /\ board' = board /\ calls' = calls /\ orders' = orders /\ clicks' = clicks
      /\ view' = view /\ stopOn' = stopOn /\ status' = status /\ losses' = losses
  BY DEF Edit, Rest
<1>4. PanelTypes' /\ Coherent(panel')
  BY <1>1, <1>2, <1>3 DEF PanelTypes, Edited
<1>5. view' # "hasty" => OneSend' /\ SentEditsStand' /\ StatusIsTrue'
  <2>1. ASSUME view # "hasty"  PROVE OneSend' /\ StatusIsTrue' /\ SentEditsStand'
    <3>1. OneSend /\ StatusIsTrue /\ SentEditsStand
      BY <2>1 DEF PanelInv
    <3>2. ASSUME NEW k \in Fields, panel'.override[k] = Empty, panel'.edited[k] # Empty
          PROVE  BecomesNext(k, panel'.edited[k])
      <4>1. panel.override[k] = Empty /\ panel.edited[k] = panel'.edited[k]
        BY <3>2, <1>2 DEF Edited
      <4>2. Becomes(k, panel'.edited[k])
        BY <4>1, <3>1, <3>2 DEF SentEditsStand
      <4>. QED  BY <4>2, <1>3, SameQueue
    <3>3. SentEditsStand'
      BY <3>2 DEF SentEditsStand, BecomesNext, Becomes
    <3>. QED  BY <3>1, <3>3, <1>3, SameQueue DEF StatusIsTrue
  <2>. QED  BY <2>1, <1>3
<1>6. view' = "fresh" => OnlySwitches' /\ panel'.current = board'.v
  BY <1>2, <1>3, SameQueue DEF PanelInv, Edited
<1>7. losses' = 0 => SwitchInOrder'
  BY <1>2, <1>3, SameSwitch DEF PanelInv, Edited
<1>. QED  BY <1>4, <1>5, <1>6, <1>7 DEF PanelInv

LEMMA ToggleKeeps ==
  ASSUME PanelInv, Toggle
  PROVE  PanelInv'
<1>1. PanelTypes /\ panel \in Panels /\ Coherent(panel)
  BY DEF PanelInv, PanelTypes
<1>2. /\ panel' \in Panels /\ Coherent(panel') /\ panel'.current = panel.current
      /\ panel'.override = panel.override /\ panel'.edited = panel.edited
  BY <1>1, Toggled
<1>3. /\ board' = board /\ orders' = orders /\ clicks' = clicks + 1
      /\ view' = view /\ stopOn' = stopOn /\ status' = status /\ losses' = losses
  BY DEF Toggle, Rest
<1>4. PanelTypes'
  <2>1. calls' \in Seq(Calls)
    <3> DEFINE on == ~panel.on
               u == <<[key |-> "cycle", value |-> on]>>
    <3>1. on \in BOOLEAN /\ calls' = Append(calls, [key |-> "cycle", value |-> on])
      BY DEF Toggle
    <3>. HIDE DEF on
    <3>2. u \in Seq(Calls) /\ calls' = calls \o u
      BY <3>1, <1>1, SwitchCalled
    <3>. HIDE DEF u
    <3>. QED  BY <3>2, <1>1, MoreCalls
  <2>. QED  BY <2>1, <1>1, <1>2, <1>3 DEF PanelTypes
<1>5. view' # "hasty" => OneSend' /\ SentEditsStand' /\ StatusIsTrue'
  <2>1. ASSUME view # "hasty"  PROVE OneSend' /\ StatusIsTrue' /\ SentEditsStand'
    <3>1. OneSend /\ StatusIsTrue /\ SentEditsStand
      BY <2>1 DEF PanelInv
    <3>2. ASSUME NEW k \in Fields, panel'.override[k] = Empty, panel'.edited[k] # Empty
          PROVE  BecomesNext(k, panel'.edited[k])
      <4>1. Becomes(k, panel'.edited[k])
        BY <3>1, <3>2, <1>2 DEF SentEditsStand
      <4>. QED  BY <4>1, <3>1, <1>1, ToggledQueue
    <3>3. SentEditsStand'
      BY <3>2 DEF SentEditsStand, BecomesNext, Becomes
    <3>. QED  BY <3>1, <3>3, <1>1, <1>3, ToggledQueue DEF StatusIsTrue
  <2>. QED  BY <2>1, <1>3
<1>6. view' = "fresh" => OnlySwitches' /\ panel'.current = board'.v
  BY <1>1, <1>2, <1>3, ToggledQueue DEF PanelInv
<1>7. losses' = 0 => SwitchInOrder'
  BY <1>1, <1>3, ToggledInOrder DEF PanelInv
<1>. QED  BY <1>2, <1>4, <1>5, <1>6, <1>7 DEF PanelInv

LEMMA SendKeeps ==
  ASSUME PanelInv, Send
  PROVE  PanelInv'
<1>1. PanelTypes /\ panel \in Panels /\ Coherent(panel) /\ panel.send
  BY DEF PanelInv, PanelTypes, Send
<1>2. panel' \in Panels /\ Coherent(panel')
  <2>1. PICK respelled \in SUBSET Fields : panel' = AfterSend(respelled)
    BY DEF Send
  <2>. QED  BY <2>1, <1>1, PanelAfterSend
<1>3. /\ board' = board /\ orders' = orders /\ clicks' = clicks + 1
      /\ stopOn' = stopOn /\ losses' = losses
      /\ view' = IF view = "fresh" THEN "stale" ELSE "hasty"
      /\ status' = IF status = None THEN None ELSE [status EXCEPT !.late = TRUE]
  BY DEF Send
<1>4. PanelTypes'
  <2>1. calls' \in Seq(Calls)
    <3>1. calls' = calls \o Updates /\ Updates \in Seq(Calls)
      BY <1>1, WhatSendSends DEF Send
    <3>. QED  BY <3>1, <1>1, MoreCalls
  <2>2. status' \in Statuses \cup {None}
    BY <1>1, <1>3 DEF PanelTypes, Statuses
  <2>. QED  BY <2>1, <2>2, <1>1, <1>2, <1>3 DEF PanelTypes
<1>5. view' # "hasty" => OneSend' /\ SentEditsStand' /\ StatusIsTrue'
  <2>1. ASSUME view = "fresh"  PROVE OneSend' /\ SentEditsStand' /\ StatusIsTrue'
    <3>1. OneSend' /\ SentEditsStand'
      BY <2>1, <1>1, SentQueue DEF PanelInv
    <3>2. status' # None => status'.late
      BY <1>1, <1>3 DEF PanelTypes, Statuses
    <3>3. view' # "fresh"
      BY <1>3
    <3>. QED  BY <3>1, <3>2, <3>3 DEF StatusIsTrue
  <2>. QED  BY <2>1, <1>3
<1>6. view' # "fresh"
  BY <1>3
<1>7. losses' = 0 => SwitchInOrder'
  BY <1>1, <1>3, SentInOrder DEF PanelInv
<1>. QED  BY <1>2, <1>4, <1>5, <1>6, <1>7 DEF PanelInv

\* A step that changes neither the panel, nor the status, nor the queue, nor the
\* numbers and the switch on the blackboard.
LEMMA OrdersKeep ==
  ASSUME PanelInv, PanelTypes', calls' = calls, panel' = panel, status' = status, view' = view,
         losses' = losses,
         board'.v = board.v, board'.computed = board.computed, board'.cycle = board.cycle
  PROVE  PanelInv'
<1>1. Coherent(panel')
  BY DEF PanelInv
<1>2. view' # "hasty" => OneSend' /\ SentEditsStand' /\ StatusIsTrue'
  <2>1. ASSUME SentEditsStand  PROVE SentEditsStand'
    <3>1. \A k, x : Becomes(k, x) => BecomesNext(k, x)
      BY SameQueue
    <3>. QED  BY <3>1, <2>1 DEF SentEditsStand, BecomesNext, Becomes
  <2>. QED  BY <2>1, SameQueue DEF PanelInv, StatusIsTrue
<1>3. view' = "fresh" => OnlySwitches' /\ panel'.current = board'.v
  BY SameQueue DEF PanelInv
<1>4. losses' = 0 => SwitchInOrder'
  BY SameSwitch DEF PanelInv
<1>. QED  BY <1>1, <1>2, <1>3, <1>4 DEF PanelInv

LEMMA ApplyKeeps ==
  ASSUME PanelInv, HandleUpdate
  PROVE  PanelInv'
<1>1. PanelTypes
  BY DEF PanelInv
<1>2. /\ orders' = orders /\ losses' = losses /\ view' = view /\ panel' = panel
      /\ stopOn' = stopOn /\ status' = status /\ clicks' = clicks
  BY DEF HandleUpdate, Quiet
<1>3. PanelTypes' /\ Coherent(panel')
  <2>1. calls' \in Seq(Calls)
    BY <1>1, FirstCall DEF HandleUpdate
  <2>2. board' \in [v : [Fields -> Valid], computed : [Fields -> Numbers \cup {NA}],
                    cycle : BOOLEAN, stop : BOOLEAN, reset : BOOLEAN]
    BY <1>1, UpdateHandled
  <2>. QED  BY <2>1, <2>2, <1>1, <1>2 DEF PanelTypes, PanelInv
<1>4. OnlySwitches => board'.v = board.v /\ board'.computed = board.computed
  <2>1. 1 \in DOMAIN calls
    BY <1>1, FirstCall DEF HandleUpdate
  <2>. QED  BY <2>1, <1>1, UpdateHandled DEF OnlySwitches
<1>5. view' # "hasty" => OneSend' /\ SentEditsStand' /\ StatusIsTrue'
  <2>1. ASSUME view # "hasty"  PROVE OneSend' /\ SentEditsStand' /\ StatusIsTrue'
    <3>1. OneSend /\ SentEditsStand /\ StatusIsTrue
      BY <2>1 DEF PanelInv
    <3>2. ASSUME NEW k \in Fields, panel.override[k] = Empty, panel.edited[k] # Empty
          PROVE  BecomesNext(k, panel.edited[k])
      <4>1. Becomes(k, panel.edited[k])
        BY <3>1, <3>2 DEF SentEditsStand
      <4>. QED  BY <4>1, <3>1, <1>1, AppliedBecomes
    <3>3. SentEditsStand'
      BY <3>2, <1>2 DEF SentEditsStand, BecomesNext, Becomes
    <3>4. OneSend' /\ (OnlySwitches => OnlySwitches')
      BY <3>1, <1>1, AppliedOneSend
    <3>. QED  BY <3>1, <3>3, <3>4, <1>2, <1>4 DEF StatusIsTrue
  <2>. QED  BY <2>1, <1>2
<1>6. view' = "fresh" => OnlySwitches' /\ panel'.current = board'.v
  BY <1>1, <1>2, <1>4, AppliedOneSend DEF PanelInv
<1>7. losses' = 0 => SwitchInOrder'
  BY <1>1, <1>2, AppliedInOrder DEF PanelInv
<1>. QED  BY <1>3, <1>5, <1>6, <1>7 DEF PanelInv

LEMMA LoseKeeps ==
  ASSUME PanelInv, Lose
  PROVE  PanelInv'
<1>1. PanelTypes
  BY DEF PanelInv
<1>2. /\ losses' = losses + 1 /\ view' = "hasty" /\ panel' = panel
      /\ stopOn' = stopOn /\ status' = status /\ clicks' = clicks + 1
  BY DEF Lose
<1>3. /\ board' \in [v : [Fields -> Valid], computed : [Fields -> Numbers \cup {NA}],
                     cycle : BOOLEAN, stop : BOOLEAN, reset : BOOLEAN]
      /\ calls' \in Seq(Calls) /\ orders' \in Seq(Orders)
  <2>1. ASSUME calls # <<>>, calls' = Tail(calls), UNCHANGED <<board, orders>>
        PROVE  calls' \in Seq(Calls) /\ orders' = orders /\ board' = board
    BY <2>1, <1>1, FirstCall
  <2>2. ASSUME orders # <<>>, orders' = Tail(orders), UNCHANGED <<board, calls>>
        PROVE  orders' \in Seq(Orders) /\ calls' = calls /\ board' = board
    BY <2>2, <1>1, OrdersAreTyped
  <2>3. /\ <<>> \in Seq(Calls) /\ <<>> \in Seq(Orders)
        /\ AtStart \in [v : [Fields -> Valid], computed : [Fields -> Numbers \cup {NA}],
                        cycle : BOOLEAN, stop : BOOLEAN, reset : BOOLEAN]
    <3>1. First \in Valid /\ First \in Numbers
      BY ConstantsAssumption DEF Numbers
    <3>. QED  BY <3>1 DEF AtStart
  <2>4. \/ calls # <<>> /\ calls' = Tail(calls) /\ UNCHANGED <<board, orders>>
        \/ orders # <<>> /\ orders' = Tail(orders) /\ UNCHANGED <<board, calls>>
        \/ board' = AtStart /\ calls' = <<>> /\ orders' = <<>>
    BY DEF Lose
  <2>. QED  BY <1>1, <2>1, <2>2, <2>3, <2>4, OrdersAreTyped DEF PanelTypes
<1>4. PanelTypes' /\ Coherent(panel')
  BY <1>1, <1>2, <1>3 DEF PanelTypes, PanelInv, Orders
<1>5. losses' # 0
  BY <1>1, <1>2 DEF PanelTypes
<1>. QED  BY <1>2, <1>4, <1>5 DEF PanelInv

LEMMA PublishKeeps ==
  ASSUME PanelInv, PublishBlackboardStatus
  PROVE  PanelInv'
<1>1. PanelTypes
  BY DEF PanelInv
<1>2. /\ board' = board /\ calls' = calls /\ orders' = orders /\ panel' = panel
      /\ stopOn' = stopOn /\ clicks' = clicks /\ losses' = losses /\ view' = view
      /\ status' = [v |-> board.v, computed |-> board.computed, cycle |-> board.cycle,
                    stop |-> board.stop, late |-> calls # <<>>]
  BY DEF PublishBlackboardStatus
<1>3. PanelTypes' /\ Coherent(panel')
  <2>1. status' \in Statuses
    BY <1>1, <1>2 DEF PanelTypes, Statuses
  <2>. QED  BY <2>1, <1>1, <1>2 DEF PanelTypes, PanelInv
<1>4. status'.v = board'.v /\ status'.computed = board'.computed /\ (status'.late <=> calls # <<>>)
  BY <1>2
<1>5. calls = <<>> => OnlySwitches
  BY DEF OnlySwitches
<1>6. view' # "hasty" => OneSend' /\ SentEditsStand' /\ StatusIsTrue'
  <2>1. ASSUME SentEditsStand  PROVE SentEditsStand'
    <3>1. \A k, x : Becomes(k, x) => BecomesNext(k, x)
      BY <1>2, SameQueue
    <3>. QED  BY <3>1, <2>1, <1>2 DEF SentEditsStand, BecomesNext, Becomes
  <2>2. StatusIsTrue'
    BY <1>2, <1>4, <1>5, SameQueue DEF PanelInv, StatusIsTrue
  <2>. QED  BY <2>1, <2>2, <1>2, SameQueue DEF PanelInv
<1>7. view' = "fresh" => OnlySwitches' /\ panel'.current = board'.v
  BY <1>2, SameQueue DEF PanelInv
<1>8. losses' = 0 => SwitchInOrder'
  BY <1>2, SameSwitch DEF PanelInv
<1>. QED  BY <1>3, <1>6, <1>7, <1>8 DEF PanelInv

LEMMA ShowKeeps ==
  ASSUME PanelInv, ShowStatus
  PROVE  PanelInv'
<1>1. PanelTypes /\ Coherent(panel) /\ status # None
  BY DEF PanelInv, ShowStatus
<1>2. /\ board' = board /\ calls' = calls /\ orders' = orders /\ clicks' = clicks
      /\ losses' = losses /\ status' = None /\ stopOn' = ~status.stop
      /\ view' = IF view = "stale" /\ ~status.late THEN "fresh" ELSE view
  BY DEF ShowStatus
<1>3. /\ panel' \in Panels /\ Coherent(panel') /\ panel'.current = status.v
      /\ panel'.override = panel.override /\ panel'.edited = panel.edited
      /\ panel'.on = panel.on
  BY <1>1, StatusShown
<1>4. PanelTypes'
  BY <1>1, <1>2, <1>3 DEF PanelTypes
<1>5. view' # "hasty" => OneSend' /\ SentEditsStand' /\ StatusIsTrue'
  <2>1. ASSUME SentEditsStand  PROVE SentEditsStand'
    <3>1. \A k, x : Becomes(k, x) => BecomesNext(k, x)
      BY <1>2, SameQueue
    <3>2. ASSUME NEW k \in Fields, panel'.override[k] = Empty, panel'.edited[k] # Empty
          PROVE  BecomesNext(k, panel'.edited[k])
      BY <3>1, <3>2, <2>1, <1>3 DEF SentEditsStand
    <3>. QED  BY <3>2 DEF SentEditsStand, BecomesNext, Becomes
  <2>. QED  BY <2>1, <1>2, SameQueue DEF PanelInv, StatusIsTrue
<1>6. view' = "fresh" => OnlySwitches' /\ panel'.current = board'.v
  BY <1>1, <1>2, <1>3, SameQueue DEF PanelInv, StatusIsTrue
<1>7. losses' = 0 => SwitchInOrder'
  BY <1>2, <1>3, SameSwitch DEF PanelInv
<1>. QED  BY <1>3, <1>4, <1>5, <1>6, <1>7 DEF PanelInv

LEMMA NextKeeps ==
  ASSUME PanelInv, [Next]_vars
  PROVE  PanelInv'
<1>1. PanelTypes
  BY DEF PanelInv
<1>2. CASE Press
  <2>1. /\ board' = board /\ calls' = calls /\ panel' = panel /\ view' = view
        /\ stopOn' = stopOn /\ status' = status /\ losses' = losses /\ clicks' = clicks + 1
    BY <1>2 DEF Press, Rest
  <2>2. orders' \in Seq(Orders)
    <3>1. PICK o \in Orders : orders' = Append(orders, o)
      BY <1>2 DEF Press, Orders
    <3>. QED  BY <3>1, <1>1, OrdersAreTyped
  <2>3. PanelTypes'
    BY <2>1, <2>2, <1>1 DEF PanelTypes, Orders
  <2>. QED  BY <2>1, <2>3, OrdersKeep
<1>3. CASE HandleOrder \/ TakeReset
  <2>1. /\ calls' = calls /\ panel' = panel /\ view' = view
        /\ stopOn' = stopOn /\ status' = status /\ losses' = losses /\ clicks' = clicks
    BY <1>3 DEF HandleOrder, TakeReset, Quiet
  <2>2. orders' \in Seq(Orders)
    BY <1>1, <1>3, OrdersAreTyped DEF HandleOrder, TakeReset
  <2>3. /\ board'.v = board.v /\ board'.computed = board.computed /\ board'.cycle = board.cycle
        /\ board' \in [v : [Fields -> Valid], computed : [Fields -> Numbers \cup {NA}],
                       cycle : BOOLEAN, stop : BOOLEAN, reset : BOOLEAN]
    <3>1. CASE TakeReset
      BY <3>1, <1>1 DEF TakeReset, PanelTypes
    <3>2. CASE HandleOrder
      <4>1. Head(orders) \in Orders
        BY <3>2, <1>1, OrdersAreTyped DEF HandleOrder
      <4>. QED  BY <4>1, <3>2, <1>1 DEF HandleOrder, PanelTypes, Orders
    <3>. QED  BY <3>1, <3>2, <1>3
  <2>4. PanelTypes'
    BY <2>1, <2>2, <2>3, <1>1 DEF PanelTypes, Orders
  <2>. QED  BY <2>1, <2>3, <2>4, OrdersKeep
<1>4. CASE UNCHANGED vars
  <2>1. PanelTypes'
    BY <1>1, <1>4 DEF PanelTypes, vars
  <2>. QED  BY <2>1, <1>4, OrdersKeep DEF vars
<1>. QED  BY <1>2, <1>3, <1>4, EditKeeps, ToggleKeeps, SendKeeps, LoseKeeps, ApplyKeeps,
             PublishKeeps, ShowKeeps DEF Next, Operator

\* The panel's invariant: a queue that holds one SEND's calls, statuses that tell
\* the truth, and a switch that is off for every other key.
THEOREM PanelInvariance == Spec => []PanelInv
<1>1. Init => PanelInv
  BY InitInv
<1>2. PanelInv /\ [Next]_vars => PanelInv'
  BY NextKeeps
<1>. QED  BY <1>1, <1>2, PTL DEF Spec

\* With no call under way the computed key agrees with the typed ones, for an
\* operator who waits for a status and loses no call (handleUpdateBlackboard,
\* HmiGui's SEND).
THEOREM ComputedAgrees == Spec => []RecipeAgrees
<1>1. PanelInv => RecipeAgrees
  BY DEF PanelInv, OneSend, RecipeAgrees
<1>. QED  BY <1>1, PanelInvariance, PTL

\* While the cycle is on no call changes a key of the recipe, unless one has been
\* lost: SEND is disabled, and what was sent before is applied before the switch.
THEOREM RecipeIsHeld == Spec => RecipeHeldWhileCycling
<1>1. ASSUME PanelInv, Next, losses = 0, board.cycle, board'.cycle
      PROVE  board'.v = board.v /\ board'.computed = board.computed
  <2>1. PanelTypes /\ SwitchInOrder
    BY <1>1 DEF PanelInv
  <2>2. CASE HandleUpdate
    <3>1. 1 \in DOMAIN calls /\ calls[1] \in Calls
      BY <2>1, <2>2, FirstCall DEF HandleUpdate
    <3>2. calls[1].key = "cycle"
      <4>1. ASSUME calls[1].key # "cycle"  PROVE FALSE
        <5>1. CycleAt(1, FALSE)
          BY <4>1, <3>1, <2>1 DEF SwitchInOrder
        <5>2. \A j \in 1..(1 - 1) : calls[j].key # "cycle"
          OBVIOUS
        <5>3. board.cycle = FALSE
          BY <5>1, <5>2 DEF CycleAt
        <5>. QED  BY <5>3, <1>1
      <4>. QED  BY <4>1
    <3>. QED  BY <3>2, <2>1, <2>2, UpdateHandled
  <2>3. CASE HandleOrder \/ TakeReset
    BY <2>3, <2>1 DEF HandleOrder, TakeReset, PanelTypes
  <2>4. CASE Lose
    BY <2>4, <1>1 DEF Lose, AtStart
  <2>5. CASE Operator \/ PublishBlackboardStatus \/ ShowStatus
    BY <2>5 DEF Operator, Edit, Toggle, Send, Press, PublishBlackboardStatus, ShowStatus
  <2>. QED  BY <1>1, <2>2, <2>3, <2>4, <2>5 DEF Next
<1>2. PanelInv /\ [Next]_vars =>
        [losses = 0 /\ board.cycle /\ board'.cycle
           => board'.v = board.v /\ board'.computed = board.computed]_vars
  BY <1>1
<1>. QED  BY <1>2, PanelInvariance, PTL DEF Spec, RecipeHeldWhileCycling

=============================================================================
