------------------------------- MODULE ExitProofs -------------------------------
(***************************************************************************)
(* Proofs about ExitAssistance: the vehicle leaves the road only by         *)
(* invitation, and the opportunity is presented and resolved once, however  *)
(* the driver, the vehicle, the clock, the errors of the loop and the       *)
(* answers of the Traffic Manager interleave.  And about MovingHazard: the  *)
(* scene behind a moving lead is sound.                                     *)
(***************************************************************************)
EXTENDS ExitAssistance, MovingHazard, TLAPS

Statuses == {"WAITING", "DRAFT", "PRESENTED", "CONFIRMED", "NORESPONSE",
             "INTERRUPTED", "NOT_PRESENTED", "COMPLETED"}
Decisions == {"none", "CONFIRM", "NORESPONSE", "MANUAL_PROXY", "MANUAL_NOCHANGE"}
Forks == {"none", "Right", "Straight"}

Exits == [status : Statuses, decision : Decisions, shown : BOOLEAN, automated : BOOLEAN,
          actual : {NoA, Manual}, closed : BOOLEAN, presentation : BOOLEAN,
          finished : BOOLEAN, armed : BOOLEAN, choice : Forks, branchFailed : BOOLEAN,
          cancelBad : BOOLEAN, lateral : BOOLEAN, path : {"none", "EXIT", "MISSED"},
          ended : BOOLEAN, outside : BOOLEAN, at : Places \cup {"unseen"},
          owned : BOOLEAN, route : Forks]

\* What the Traffic Manager was told is known to the backend; and a route to the exit
\* is either the one that is armed, or known not to be taken back.
Routed(c) ==
    /\ c.route # "none" => c.owned
    /\ c.route = "Right" => c.cancelBad \/ (c.armed /\ c.choice = "Right")

\* What is said of the guidance hangs together.
Told(c) ==
    /\ c.closed \/ c.ended => c.shown
    /\ c.closed => ~c.presentation
    /\ c.status \in {"WAITING", "DRAFT"} => ~c.shown
    /\ c.decision = "CONFIRM" => c.automated /\ c.shown

\* An armed route belongs to a running opportunity, and the exit to a consent.
Armed(c) ==
    c.armed => /\ c.choice # "none" /\ c.shown /\ ~c.finished
               /\ c.choice = "Right" => c.decision = "CONFIRM" /\ c.status = "CONFIRMED"

\* A consent stands until the opportunity is finished or complete.
Agreed(c) == c.decision = "CONFIRM" /\ ~c.finished => c.status \in {"CONFIRMED", "COMPLETED"}

\* Between two assignments of a call the first half holds, around it all of it.
Half(c) == c \in Exits /\ Routed(c) /\ Told(c)
Sound(c) == Half(c) /\ Armed(c) /\ Agreed(c)

\* What a call to the Traffic Manager leaves alone.
Kept(c, d) ==
    /\ d.status = c.status /\ d.decision = c.decision /\ d.shown = c.shown
    /\ d.automated = c.automated /\ d.actual = c.actual /\ d.closed = c.closed
    /\ d.presentation = c.presentation /\ d.finished = c.finished /\ d.choice = c.choice
    /\ d.lateral = c.lateral /\ d.path = c.path /\ d.ended = c.ended /\ d.at = c.at
    /\ d.branchFailed = c.branchFailed /\ d.outside = c.outside

\* What no call undoes.
Onward(c, d) == d.shown = c.shown /\ (c.ended => d.ended)

(* The route at the Traffic Manager. *)
LEMMA CancelAtTMFields ==
    ASSUME NEW c, Half(c), NEW answer \in Answers
    PROVE  LET d == CancelAtTM(c, answer) IN
           /\ Half(d) /\ Kept(c, d) /\ d.armed = c.armed /\ d.cancelBad = c.cancelBad
           /\ d.owned \/ d.route = "none"
  <1> DEFINE r == IF answer = "refused" THEN c.route ELSE "none"
             o == answer # "done"
             d == [c EXCEPT !.route = r, !.owned = o]
  <1>1. CASE ~c.owned  BY <1>1 DEF CancelAtTM, Half, Kept, Routed
  <1>2. CASE c.owned
    <2>1. CancelAtTM(c, answer) = d  BY <1>2 DEF CancelAtTM
    <2>2. /\ r \in Forks /\ o \in BOOLEAN /\ (r = c.route \/ r = "none")
          /\ r # "none" => o = TRUE
      BY DEF Half, Exits, Forks, Answers
    <2> HIDE DEF r, o
    <2>3. /\ d \in Exits /\ d.route = r /\ d.owned = o /\ d.armed = c.armed
          /\ d.cancelBad = c.cancelBad /\ Kept(c, d)
      BY <2>2 DEF Half, Exits, Kept
    <2> HIDE DEF d
    <2> QED  BY <2>1, <2>2, <2>3 DEF Half, Routed, Told, Kept
  <1> QED  BY <1>1, <1>2 DEF Half, Exits

\* Disarming takes the route back, or knows that it could not.
LEMMA CancelRouteFields ==
    ASSUME NEW c, Half(c), NEW answer \in Answers
    PROVE  LET d == CancelRoute(c, answer) IN
           Half(d) /\ Kept(c, d) /\ d.armed = FALSE
  <1> DEFINE e == CancelAtTM(c, answer)
             d == [e EXCEPT !.armed = FALSE, !.cancelBad = e.owned]
  <1>1. CASE ~c.armed  BY <1>1 DEF CancelRoute, Kept, Half, Exits
  <1>2. CASE c.armed
    <2>1. CancelRoute(c, answer) = d  BY <1>2 DEF CancelRoute
    <2>2. Half(e) /\ Kept(c, e) /\ (e.owned \/ e.route = "none")  BY CancelAtTMFields
    <2> HIDE DEF e
    <2>3. /\ d \in Exits /\ d.armed = FALSE /\ d.cancelBad = e.owned /\ d.owned = e.owned
          /\ d.route = e.route /\ Kept(e, d)
      BY <2>2 DEF Half, Exits, Kept
    <2> HIDE DEF d
    <2>4. Routed(d)  BY <2>2, <2>3 DEF Routed
    <2> QED  BY <2>1, <2>2, <2>3, <2>4 DEF Half, Told, Kept
  <1> QED  BY <1>1, <1>2 DEF Half, Exits

LEMMA InterruptFields ==
    ASSUME NEW c, Half(c), NEW answer \in Answers
    PROVE  LET d == Interrupt(c, answer) IN
           /\ Sound(d) /\ Onward(c, d) /\ d.decision = c.decision /\ d.closed = c.closed
           /\ d.at = c.at
  <1> DEFINE e == [c EXCEPT !.status = "INTERRUPTED", !.finished = TRUE,
                            !.presentation = FALSE]
             d == CancelRoute(e, answer)
  <1>1. Interrupt(c, answer) = d  BY DEF Interrupt
  <1>2. /\ e \in Exits /\ e.status = "INTERRUPTED" /\ e.finished = TRUE
        /\ e.presentation = FALSE /\ e.route = c.route /\ e.owned = c.owned
        /\ e.cancelBad = c.cancelBad /\ e.armed = c.armed /\ e.choice = c.choice
        /\ e.closed = c.closed /\ e.ended = c.ended /\ e.shown = c.shown
        /\ e.decision = c.decision /\ e.automated = c.automated /\ e.at = c.at
    BY DEF Half, Exits, Statuses
  <1> HIDE DEF e
  <1>3. Half(e)  BY <1>2 DEF Half, Routed, Told
  <1>4. Half(d) /\ Kept(e, d) /\ d.armed = FALSE  BY <1>3, CancelRouteFields
  <1> HIDE DEF d
  <1> QED  BY <1>1, <1>2, <1>4 DEF Sound, Armed, Agreed, Kept, Onward

(* The guidance. *)
\* What ending the guidance leaves alone, and that it consents to nothing.
Watched(c, d) ==
    /\ Onward(c, d) /\ d.at = c.at /\ d.finished = c.finished /\ d.armed = c.armed
    /\ (d.decision = "CONFIRM") = (c.decision = "CONFIRM")
    /\ c.closed => d.closed
    /\ d.ended = c.ended

LEMMA CloseFields ==
    ASSUME NEW c, Half(c), c.shown
    PROVE  LET d == Close(c) IN
           /\ Half(d) /\ Watched(c, d) /\ d.closed
           /\ d.status \in {c.status, "NORESPONSE"}
           /\ Armed(c) => Armed(d)
           /\ Agreed(c) => Agreed(d)
  <1> DEFINE e == [c EXCEPT !.closed = TRUE, !.presentation = FALSE]
             f == [e EXCEPT !.status = "NORESPONSE", !.decision = "NORESPONSE"]
  <1>1. CASE c.closed
    <2>1. Close(c) = c  BY <1>1 DEF Close
    <2> QED  BY <1>1, <2>1 DEF Watched, Onward
  <1>2. CASE ~c.closed
    <2>1. Close(c) = IF c.decision = "none" /\ c.actual = NoA THEN f ELSE e  BY <1>2 DEF Close
    <2>2. /\ e \in Exits /\ Routed(e) /\ Told(e) /\ e.closed = TRUE
          /\ e.status = c.status /\ e.decision = c.decision /\ e.shown = c.shown
          /\ e.armed = c.armed /\ e.choice = c.choice /\ e.finished = c.finished
          /\ e.ended = c.ended /\ e.at = c.at
      BY ZenonT(40) DEF Half, Exits, Routed, Told
    <2> HIDE DEF e
    <2>3. /\ f \in Exits /\ f.status = "NORESPONSE" /\ f.decision = "NORESPONSE"
          /\ f.route = e.route /\ f.owned = e.owned /\ f.cancelBad = e.cancelBad
          /\ f.armed = e.armed /\ f.choice = e.choice /\ f.closed = TRUE
          /\ f.presentation = e.presentation /\ f.shown = e.shown
          /\ f.finished = e.finished /\ f.ended = e.ended /\ f.at = e.at
      BY <2>2 DEF Exits, Statuses, Decisions
    <2> HIDE DEF f
    <2>4. CASE c.decision = "none" /\ c.actual = NoA
      <3>1. Half(f)  BY <2>2, <2>3 DEF Half, Routed, Told
      <3> QED  BY <2>1, <2>2, <2>3, <2>4, <3>1 DEF Watched, Onward, Armed, Agreed
    <2>5. CASE ~(c.decision = "none" /\ c.actual = NoA)
      BY <2>1, <2>2, <2>5 DEF Half, Watched, Onward, Armed, Agreed
    <2> QED  BY <2>4, <2>5
  <1> QED  BY <1>1, <1>2 DEF Half, Exits

LEMMA RefreshFields ==
    ASSUME NEW c, Half(c)
    PROVE  LET d == Refresh(c) IN
           /\ Half(d) /\ Watched(c, d)
           /\ d.status \in {c.status, "NORESPONSE"}
           /\ c.shown /\ ~d.closed => /\ ~late /\ phase # "over"
                                      /\ c.at \in Navigable \/ c.at = "unseen"
           /\ Armed(c) => Armed(d)
           /\ Agreed(c) => Agreed(d)
  <1>1. CASE Refresh(c) = c  BY <1>1 DEF Refresh, Watched, Onward, Close
  <1>2. CASE Refresh(c) # c
    <2>1. c.shown /\ Refresh(c) = Close(c)  BY <1>2 DEF Refresh
    <2> QED  BY <2>1, CloseFields
  <1> QED  BY <1>1, <1>2

LEMMA PrepareFields ==
    ASSUME NEW c, Sound(c)
    PROVE  LET d == Prepare(c) IN Sound(d) /\ Watched(c, d)
  <1> DEFINE r == Refresh(c)
             d == [r EXCEPT !.status = "NOT_PRESENTED", !.presentation = FALSE]
  <1>1. Half(r) /\ Armed(r) /\ Agreed(r) /\ Watched(c, r)  BY RefreshFields DEF Sound
  <1>2. Prepare(c) = IF r.presentation /\ r.status = "DRAFT" /\ phase = "over"
                     THEN d ELSE r
    BY DEF Prepare
  <1> HIDE DEF r
  <1>3. CASE r.status = "DRAFT"
    <2>1. ~r.shown /\ r.decision # "CONFIRM" /\ ~r.armed  BY <1>1, <1>3 DEF Half, Told, Armed
    <2>2. /\ d \in Exits /\ d.status = "NOT_PRESENTED" /\ d.presentation = FALSE
          /\ d.route = r.route /\ d.owned = r.owned /\ d.cancelBad = r.cancelBad
          /\ d.armed = r.armed /\ d.choice = r.choice /\ d.closed = r.closed
          /\ d.shown = r.shown /\ d.finished = r.finished /\ d.ended = r.ended
          /\ d.at = r.at /\ d.decision = r.decision /\ d.automated = r.automated
      BY <1>1 DEF Half, Exits, Statuses
    <2> HIDE DEF d
    <2> QED  BY <1>1, <1>2, <2>1, <2>2
             DEF Sound, Half, Routed, Told, Armed, Agreed, Watched, Onward
  <1>4. CASE r.status # "DRAFT"  BY <1>1, <1>2, <1>4 DEF Sound
  <1> QED  BY <1>3, <1>4

(* The driver's input. *)
LEMMA WithdrawFields ==
    ASSUME NEW c, Sound(c), NEW signal, NEW answer \in Answers
    PROVE  LET d == Withdraw(c, signal, answer) IN
           Sound(d) /\ Onward(c, d) /\ d.decision = c.decision /\ d.closed = c.closed
             /\ d.at = c.at
  BY InterruptFields DEF Withdraw, Sound, Onward

LEMMA BranchFields ==
    ASSUME NEW c, Sound(c), c.shown, ~c.finished, c.status # "COMPLETED",
           NEW busy, NEW submitted \in Answers, NEW cancelled \in Answers
    PROVE  LET d == Branch(c, busy, submitted, cancelled) IN
           Sound(d) /\ Onward(c, d) /\ d.decision = c.decision
  <1> DEFINE fork == IF c.decision = "CONFIRM" /\ c.at \in TargetLane THEN "Right"
                     ELSE IF c.decision = "NORESPONSE" THEN "Straight" ELSE "none"
             e == [c EXCEPT !.armed = TRUE, !.choice = fork]
             r == IF submitted = "refused" THEN e.route ELSE fork
             d == [e EXCEPT !.owned = TRUE, !.route = r]
             f == [d EXCEPT !.branchFailed = TRUE]
  <1>1. CASE Branch(c, busy, submitted, cancelled) = c  BY <1>1 DEF Onward
  <1>2. CASE /\ fork # "none" /\ ~c.armed
             /\ Branch(c, busy, submitted, cancelled) =
                  IF submitted = "done" THEN d ELSE CancelRoute(f, cancelled)
    <2>1. fork \in Forks /\ (fork = "Right" => c.decision = "CONFIRM" /\ c.status = "CONFIRMED")
      BY DEF Forks, Sound, Agreed
    <2> HIDE DEF fork
    <2>2. /\ e \in Exits /\ e.armed = TRUE /\ e.choice = fork /\ e.route = c.route
          /\ e.owned = c.owned /\ e.cancelBad = c.cancelBad /\ e.shown = c.shown
          /\ e.finished = c.finished /\ e.ended = c.ended /\ e.closed = c.closed
          /\ e.status = c.status /\ e.decision = c.decision /\ e.at = c.at
          /\ e.automated = c.automated /\ e.presentation = c.presentation
      BY <2>1 DEF Sound, Half, Exits
    <2> HIDE DEF e
    <2>3. r \in Forks /\ r \in {fork, c.route}  BY <2>1, <2>2 DEF Exits
    <2>4. /\ d \in Exits /\ d.armed = TRUE /\ d.choice = fork /\ d.route = r
          /\ d.owned = TRUE /\ d.cancelBad = c.cancelBad /\ d.shown = c.shown
          /\ d.finished = c.finished /\ d.ended = c.ended /\ d.closed = c.closed
          /\ d.status = c.status /\ d.decision = c.decision
          /\ d.automated = c.automated /\ d.presentation = c.presentation
      BY <2>2, <2>3 DEF Exits
    <2> HIDE DEF d
    <2>5. Routed(d) /\ Told(d)  BY <1>2, <2>3, <2>4 DEF Sound, Half, Routed, Told
    <2>6. CASE submitted = "done"
      BY <1>2, <2>1, <2>4, <2>5, <2>6 DEF Sound, Half, Armed, Agreed, Onward
    <2>7. CASE submitted # "done"
      <3>1. /\ f \in Exits /\ Routed(f) /\ Told(f) /\ f.shown = c.shown /\ f.ended = c.ended
            /\ f.finished = c.finished /\ f.status = c.status /\ f.decision = c.decision
        BY <2>4, <2>5 DEF Exits, Routed, Told
      <3> HIDE DEF f
      <3>2. LET g == CancelRoute(f, cancelled) IN Half(g) /\ Kept(f, g) /\ g.armed = FALSE
        BY <3>1, CancelRouteFields DEF Half
      <3> QED  BY <1>2, <2>7, <3>1, <3>2 DEF Sound, Armed, Agreed, Kept, Onward
    <2> QED  BY <2>6, <2>7
  <1>3. \/ Branch(c, busy, submitted, cancelled) = c
        \/ /\ fork # "none" /\ ~c.armed
           /\ Branch(c, busy, submitted, cancelled) =
                IF submitted = "done" THEN d ELSE CancelRoute(f, cancelled)
    BY DEF Branch, SubmitAtTM
  <1> QED  BY <1>1, <1>2, <1>3

\* A consent is given only to guidance that is still open, in time and in place.
Consents(c, d, m, hand) ==
    d.decision = "CONFIRM" /\ c.decision # "CONFIRM" =>
        /\ confirm /\ m = NoA /\ hand # "toggle" /\ ~c.closed /\ ~late /\ phase # "over"
        /\ c.at \in Navigable \/ c.at = "unseen"

LEMMA SignalExitFields ==
    ASSUME NEW c, Sound(c), c.shown, ~c.finished, c.status # "COMPLETED",
           NEW m, NEW signal, NEW hand, NEW busy,
           NEW submitted \in Answers, NEW cancelled \in Answers
    PROVE  LET d == SignalExit(c, m, signal, hand, busy, submitted, cancelled) IN
           Sound(d) /\ Onward(c, d) /\ Consents(c, d, m, hand)
  <1> DEFINE r == Refresh(c)
             s == SignalExit(c, m, signal, hand, busy, submitted, cancelled)
             k == CancelRoute(r, cancelled)
             agreed == r.decision = "none" /\ ~r.closed /\ confirm
             y == [r EXCEPT !.status = "CONFIRMED", !.automated = TRUE,
                            !.decision = "CONFIRM"]
             d == IF agreed THEN y ELSE r
  <1>1. /\ Sound(r) /\ Watched(c, r) /\ r.shown /\ ~r.finished
        /\ r.status # "COMPLETED"
        /\ ~r.closed => /\ ~late /\ phase # "over"
                        /\ c.at \in Navigable \/ c.at = "unseen"
    BY RefreshFields DEF Sound, Watched, Onward
  <1>2. s = IF m # NoA
            THEN IF k.decision = "CONFIRM" THEN Interrupt(k, cancelled) ELSE k
            ELSE IF hand = "toggle" THEN r
            ELSE IF d.decision = "CONFIRM" /\ signal = "left"
                 THEN Interrupt(Close(d), cancelled)
                 ELSE Branch(d, busy, submitted, cancelled)
    BY DEF SignalExit
  <1> SUFFICES Sound(s) /\ Onward(c, s) /\ Consents(c, s, m, hand)  OBVIOUS
  <1> HIDE DEF s, r, k, y, d
  <1>3. CASE m # NoA
    <2>1. Half(k) /\ Kept(r, k) /\ k.armed = FALSE  BY <1>1, CancelRouteFields DEF Sound, k
    <2>2. CASE k.decision = "CONFIRM"
      <3>1. LET i == Interrupt(k, cancelled) IN
            Sound(i) /\ Onward(k, i) /\ i.decision = k.decision
        BY <2>1, InterruptFields
      <3> QED  BY <1>1, <1>2, <1>3, <2>1, <2>2, <3>1 DEF Kept, Onward, Watched, Consents
    <2>3. CASE k.decision # "CONFIRM"
      BY <1>1, <1>2, <1>3, <2>1, <2>3
      DEF Sound, Armed, Agreed, Kept, Onward, Watched, Consents
    <2> QED  BY <2>2, <2>3
  <1>4. CASE m = NoA /\ hand = "toggle"  BY <1>1, <1>2, <1>4 DEF Watched, Consents
  <1>5. CASE m = NoA /\ hand # "toggle"
    <2>1. /\ y \in Exits /\ y.status = "CONFIRMED" /\ y.automated = TRUE
          /\ y.decision = "CONFIRM" /\ y.route = r.route /\ y.owned = r.owned
          /\ y.cancelBad = r.cancelBad /\ y.armed = r.armed /\ y.choice = r.choice
          /\ y.closed = r.closed /\ y.shown = r.shown /\ y.finished = r.finished
          /\ y.ended = r.ended /\ y.presentation = r.presentation
      <3>1. r \in Exits /\ "CONFIRMED" \in Statuses /\ "CONFIRM" \in Decisions
        BY <1>1 DEF Sound, Half, Statuses, Decisions
      <3> QED  BY <3>1 DEF Exits, y
    <2>2. ASSUME agreed PROVE Sound(y)
      BY <1>1, <2>1, <2>2 DEF Sound, Half, Routed, Told, Armed, Agreed
    <2>3. /\ Sound(d) /\ Onward(c, d) /\ d.shown /\ ~d.finished /\ d.status # "COMPLETED"
          /\ Consents(c, d, m, hand)
      <3>1. CASE agreed  BY <1>1, <1>5, <2>1, <2>2, <3>1 DEF Watched, Onward, Consents, d
      <3>2. CASE ~agreed  BY <1>1, <3>2 DEF Watched, Onward, Consents, d
      <3> QED  BY <3>1, <3>2
    <2>4. CASE d.decision = "CONFIRM" /\ signal = "left"
      <3> DEFINE e == Close(d)
      <3>1. Half(e) /\ Watched(d, e)  BY <2>3, CloseFields DEF Sound
      <3> HIDE DEF e
      <3>2. LET i == Interrupt(e, cancelled) IN
            Sound(i) /\ Onward(e, i) /\ i.decision = e.decision
        BY <3>1, InterruptFields
      <3>3. s = Interrupt(e, cancelled)  BY <1>2, <1>5, <2>4 DEF e
      <3> QED  BY <2>3, <2>4, <3>1, <3>2, <3>3 DEF Watched, Onward, Consents
    <2>5. CASE ~(d.decision = "CONFIRM" /\ signal = "left")
      <3>1. s = Branch(d, busy, submitted, cancelled)  BY <1>2, <1>5, <2>5
      <3>2. Sound(s) /\ Onward(d, s) /\ s.decision = d.decision  BY <2>3, <3>1, BranchFields
      <3> QED  BY <2>3, <3>2 DEF Onward, Consents
    <2> QED  BY <2>4, <2>5
  <1> QED  BY <1>3, <1>4, <1>5

LEMMA CoordinateFields ==
    ASSUME NEW c, Sound(c), NEW m \in {NoA, Manual}, NEW signal, NEW hand, NEW busy,
           NEW submitted \in Answers, NEW cancelled \in Answers
    PROVE  LET d == Coordinate(c, m, signal, hand, busy, submitted, cancelled) IN
           Sound(d) /\ Onward(c, d) /\ Consents(c, d, m, hand)
  <1> DEFINE e == [c EXCEPT !.actual = m]
             s == SignalExit(e, m, signal, hand, busy, submitted, cancelled)
  <1>1. Coordinate(c, m, signal, hand, busy, submitted, cancelled) =
          IF c.finished THEN c
          ELSE IF e.shown /\ e.status # "COMPLETED" THEN s ELSE e
    BY DEF Coordinate
  <1>2. /\ e \in Exits /\ e.status = c.status /\ e.decision = c.decision
        /\ e.automated = c.automated /\ e.route = c.route /\ e.owned = c.owned
        /\ e.cancelBad = c.cancelBad /\ e.armed = c.armed /\ e.choice = c.choice
        /\ e.closed = c.closed /\ e.shown = c.shown /\ e.finished = c.finished
        /\ e.ended = c.ended /\ e.presentation = c.presentation /\ e.at = c.at
    BY DEF Sound, Half, Exits
  <1> HIDE DEF e
  <1>3. Sound(e)  BY <1>2 DEF Sound, Half, Routed, Told, Armed, Agreed
  <1>4. CASE ~c.finished /\ e.shown /\ e.status # "COMPLETED"
    <2>1. Sound(s) /\ Onward(e, s) /\ Consents(e, s, m, hand)  BY <1>2, <1>3, <1>4, SignalExitFields
    <2> QED  BY <1>1, <1>2, <1>4, <2>1 DEF Onward, Consents
  <1>5. CASE ~(~c.finished /\ e.shown /\ e.status # "COMPLETED")
    BY <1>1, <1>2, <1>3, <1>5 DEF Onward, Consents
  <1> QED  BY <1>4, <1>5

(* The vehicle. *)
\* What an observation does: it resolves, and consents to nothing.
Quiet(c, d) == Onward(c, d) /\ (d.decision = "CONFIRM" => c.decision = "CONFIRM")

LEMMA RetireFields ==
    ASSUME NEW c, Sound(c), NEW held, NEW answer \in Answers
    PROVE  LET d == Retire(c, held, answer) IN Sound(d) /\ Quiet(c, d)
  <1> DEFINE off == [c EXCEPT !.outside = FALSE]
             on == [c EXCEPT !.outside = TRUE]
             e == [c EXCEPT !.ended = TRUE]
  <1>1. \/ Retire(c, held, answer) \in {off, on, c}
        \/ c.closed /\ Retire(c, held, answer) = Interrupt(e, answer)
    BY DEF Retire
  <1>2. ASSUME NEW d \in {off, on, c} PROVE Sound(d) /\ Quiet(c, d)
    <2>1. /\ d \in Exits /\ d.status = c.status /\ d.decision = c.decision
          /\ d.automated = c.automated /\ d.route = c.route /\ d.owned = c.owned
          /\ d.cancelBad = c.cancelBad /\ d.armed = c.armed /\ d.choice = c.choice
          /\ d.closed = c.closed /\ d.shown = c.shown /\ d.finished = c.finished
          /\ d.ended = c.ended /\ d.presentation = c.presentation
      BY ZenonT(40) DEF Sound, Half, Exits
    <2> QED  BY <2>1 DEF Sound, Half, Routed, Told, Armed, Agreed, Quiet, Onward
  <1>3. ASSUME c.closed
        PROVE  LET d == Interrupt(e, answer) IN Sound(d) /\ Quiet(c, d)
    <2>1. /\ e \in Exits /\ e.status = c.status /\ e.decision = c.decision
          /\ e.automated = c.automated /\ e.route = c.route /\ e.owned = c.owned
          /\ e.cancelBad = c.cancelBad /\ e.armed = c.armed /\ e.choice = c.choice
          /\ e.closed = c.closed /\ e.shown = c.shown
          /\ e.ended = TRUE /\ e.presentation = c.presentation
      BY DEF Sound, Half, Exits
    <2> HIDE DEF e
    <2>2. Half(e)  BY <1>3, <2>1 DEF Sound, Half, Routed, Told
    <2>3. LET d == Interrupt(e, answer) IN
          Sound(d) /\ Onward(e, d) /\ d.decision = e.decision
      BY <2>2, InterruptFields
    <2> QED  BY <2>1, <2>3 DEF Quiet, Onward
  <1> QED  BY <1>1, <1>2, <1>3

LEMMA CompleteFields ==
    ASSUME NEW c, Sound(c), c.shown, NEW answer \in Answers
    PROVE  LET d == Complete(c, answer) IN Sound(d) /\ Quiet(c, d)
  <1> DEFINE n == [c EXCEPT !.decision = "MANUAL_NOCHANGE"]
             d == IF ~c.automated /\ c.path = "MISSED" /\ ~c.lateral /\ c.decision = "none"
                  THEN n ELSE c
             e == [d EXCEPT !.status = "COMPLETED"]
             k == CancelRoute(e, answer)
             f == [k EXCEPT !.presentation = FALSE, !.ended = TRUE]
  <1>1. Complete(c, answer) = f  BY DEF Complete
  <1>2. /\ d \in Exits /\ (d.decision = "CONFIRM" => c.decision = "CONFIRM")
        /\ d.automated = c.automated /\ d.route = c.route /\ d.owned = c.owned
        /\ d.cancelBad = c.cancelBad /\ d.armed = c.armed /\ d.choice = c.choice
        /\ d.closed = c.closed /\ d.shown = c.shown
        /\ d.ended = c.ended /\ d.presentation = c.presentation
    <2>1. c \in Exits /\ "MANUAL_NOCHANGE" \in Decisions  BY DEF Sound, Half, Decisions
    <2>2. /\ n \in Exits /\ n.decision = "MANUAL_NOCHANGE"
          /\ n.automated = c.automated /\ n.route = c.route /\ n.owned = c.owned
          /\ n.cancelBad = c.cancelBad /\ n.armed = c.armed /\ n.choice = c.choice
          /\ n.closed = c.closed /\ n.shown = c.shown
          /\ n.ended = c.ended /\ n.presentation = c.presentation
      BY <2>1 DEF Exits
    <2> HIDE DEF n
    <2> QED  BY <2>1, <2>2
  <1> HIDE DEF d
  <1>3. /\ e \in Exits /\ e.status = "COMPLETED" /\ e.decision = d.decision
        /\ e.automated = c.automated /\ e.route = c.route /\ e.owned = c.owned
        /\ e.cancelBad = c.cancelBad /\ e.armed = c.armed /\ e.choice = c.choice
        /\ e.closed = c.closed /\ e.shown = c.shown
        /\ e.ended = c.ended /\ e.presentation = c.presentation
    <2>1. "COMPLETED" \in Statuses  BY DEF Statuses
    <2> QED  BY <1>2, <2>1 DEF Exits
  <1> HIDE DEF e
  <1>4. Half(e)  BY <1>2, <1>3 DEF Sound, Half, Routed, Told
  <1>5. Half(k) /\ Kept(e, k) /\ k.armed = FALSE  BY <1>4, CancelRouteFields
  <1> HIDE DEF k
  <1>6. /\ f \in Exits /\ f.status = k.status /\ f.decision = k.decision
        /\ f.automated = k.automated /\ f.route = k.route /\ f.owned = k.owned
        /\ f.cancelBad = k.cancelBad /\ f.armed = FALSE /\ f.choice = k.choice
        /\ f.closed = k.closed /\ f.shown = k.shown
        /\ f.ended = TRUE /\ f.presentation = FALSE
    BY <1>5 DEF Half, Exits
  <1> HIDE DEF f
  <1>7. Half(f)  BY <1>3, <1>5, <1>6 DEF Half, Routed, Told, Kept
  <1> QED  BY <1>1, <1>2, <1>3, <1>5, <1>6, <1>7 DEF Sound, Armed, Agreed, Quiet, Onward, Kept

\* An opportunity that was not presented is drafted, or given up for good.
LEMMA DraftedFields ==
    ASSUME NEW c, Sound(c), ~c.shown
    PROVE  Sound(Drafted(c)) /\ Quiet(c, Drafted(c))
  <1> DEFINE d == Drafted(c)
  <1>1. \E s \in Statuses, p \in BOOLEAN :
           d = c \/ d = [c EXCEPT !.status = s, !.presentation = p]
                 \/ d = [c EXCEPT !.presentation = p]
    BY DEF Drafted, Statuses
  <1>2. PICK s \in Statuses, p \in BOOLEAN :
           d = c \/ d = [c EXCEPT !.status = s, !.presentation = p]
                 \/ d = [c EXCEPT !.presentation = p]
    BY <1>1
  <1> HIDE DEF d
  <1>3. /\ d \in Exits /\ d.decision = c.decision
        /\ d.automated = c.automated /\ d.route = c.route /\ d.owned = c.owned
        /\ d.cancelBad = c.cancelBad /\ d.armed = c.armed /\ d.choice = c.choice
        /\ d.closed = c.closed /\ d.shown = c.shown /\ d.ended = c.ended
    BY <1>2, ZenonT(40) DEF Sound, Half, Exits
  <1>4. ~c.closed /\ c.decision # "CONFIRM" /\ ~c.armed /\ ~c.ended  BY DEF Sound, Half, Told, Armed
  <1> QED  BY <1>3, <1>4 DEF Sound, Half, Routed, Told, Armed, Agreed, Quiet, Onward, d

LEMMA FollowedFields ==
    ASSUME NEW c, Sound(c), c.shown, ~c.finished,
           NEW onset, NEW held, NEW answer \in Answers
    PROVE  LET d == Followed(c, onset, held, answer) IN Sound(d) /\ Quiet(c, d)
  <1> DEFINE b == c.at \in BeforeFork /\ ~c.closed
             p == [c EXCEPT !.presentation = b]
             v == IF p.automated THEN p.decision ELSE "MANUAL_PROXY"
             n == [p EXCEPT !.lateral = TRUE, !.decision = v]
             l == IF onset /\ ~p.lateral /\ p.at \in BeforeFork THEN n ELSE p
             u == IF l.at \in {"ramp", "exit"} THEN "EXIT"
                  ELSE IF l.at = "through" THEN "MISSED" ELSE l.path
             w == [l EXCEPT !.path = u]
  <1>1. Followed(c, onset, held, answer) =
          IF w.path # "none" /\ w.at \in {"exit", "through"}
          THEN Complete(w, answer) ELSE Retire(w, held, answer)
    <2>1. n = [p EXCEPT !.lateral = TRUE,
                        !.decision = IF p.automated THEN @ ELSE "MANUAL_PROXY"]
      <3>1. [p EXCEPT !.lateral = TRUE].decision = p.decision  BY DEF Sound, Half, Exits
      <3> QED  BY <3>1
    <2> QED  BY <2>1 DEF Followed
  <1>2. /\ b \in BOOLEAN /\ (c.closed => b = FALSE)  OBVIOUS
  <1> HIDE DEF b
  <1>3. /\ p \in Exits /\ p.status = c.status /\ p.decision = c.decision
        /\ p.automated = c.automated /\ p.route = c.route /\ p.owned = c.owned
        /\ p.cancelBad = c.cancelBad /\ p.armed = c.armed /\ p.choice = c.choice
        /\ p.closed = c.closed /\ p.shown = c.shown /\ p.finished = c.finished
        /\ p.ended = c.ended /\ p.presentation = b
    BY <1>2 DEF Sound, Half, Exits
  <1> HIDE DEF p
  <1>4. /\ v \in Decisions /\ (p.automated => v = p.decision)
        /\ ~p.automated => v # "CONFIRM"
    BY <1>3 DEF Exits, Decisions
  <1> HIDE DEF v
  <1>5. /\ n \in Exits /\ n.status = p.status /\ n.decision = v
        /\ n.automated = p.automated /\ n.route = p.route /\ n.owned = p.owned
        /\ n.cancelBad = p.cancelBad /\ n.armed = p.armed /\ n.choice = p.choice
        /\ n.closed = p.closed /\ n.shown = p.shown /\ n.finished = p.finished
        /\ n.ended = p.ended /\ n.presentation = p.presentation
    BY <1>3, <1>4 DEF Exits
  <1> HIDE DEF n
  <1>6. Sound(p) /\ Quiet(c, p)
    BY <1>2, <1>3 DEF Sound, Half, Routed, Told, Armed, Agreed, Quiet, Onward
  <1>7. Sound(n) /\ Quiet(c, n)
    <2>1. p.decision = "CONFIRM" => n.decision = "CONFIRM"
      BY <1>4, <1>5, <1>6 DEF Sound, Half, Told
    <2>2. n.decision = "CONFIRM" => p.decision = "CONFIRM"  BY <1>3, <1>4, <1>5 DEF Exits
    <2> QED  BY <1>5, <1>6, <2>1, <2>2
             DEF Sound, Half, Routed, Told, Armed, Agreed, Quiet, Onward
  <1>8. Sound(l) /\ Quiet(c, l)  BY <1>6, <1>7
  <1> HIDE DEF l
  <1>9. u \in {"none", "EXIT", "MISSED"}  BY <1>8 DEF Sound, Half, Exits
  <1> HIDE DEF u
  <1>10. /\ w \in Exits /\ w.status = l.status /\ w.decision = l.decision
         /\ w.automated = l.automated /\ w.route = l.route /\ w.owned = l.owned
         /\ w.cancelBad = l.cancelBad /\ w.armed = l.armed /\ w.choice = l.choice
         /\ w.closed = l.closed /\ w.shown = l.shown /\ w.finished = l.finished
         /\ w.ended = l.ended /\ w.presentation = l.presentation
    BY <1>8, <1>9 DEF Sound, Half, Exits
  <1> HIDE DEF w
  <1>11. Sound(w) /\ Quiet(c, w) /\ w.shown
    BY <1>8, <1>10 DEF Sound, Half, Routed, Told, Armed, Agreed, Quiet, Onward
  <1>12. LET d == Complete(w, answer) IN Sound(d) /\ Quiet(w, d)  BY <1>11, CompleteFields
  <1>13. LET d == Retire(w, held, answer) IN Sound(d) /\ Quiet(w, d)  BY <1>11, RetireFields
  <1>14. Sound(Followed(c, onset, held, answer)) /\ Quiet(w, Followed(c, onset, held, answer))
    BY <1>1, <1>12, <1>13
  <1> QED  BY <1>11, <1>14 DEF Quiet, Onward

LEMMA ObserveExitFields ==
    ASSUME NEW c, Sound(c), NEW place \in Places, NEW onset, NEW held, NEW answer \in Answers
    PROVE  LET d == ObserveExit(c, place, onset, held, answer) IN Sound(d) /\ Quiet(c, d)
  <1> DEFINE e == [c EXCEPT !.at = place]
             r == Refresh(e)
  <1>1. ObserveExit(c, place, onset, held, answer) =
          IF c.status = "COMPLETED" \/ c.finished THEN e
          ELSE IF ~r.shown THEN Drafted(r)
          ELSE Followed(r, onset, held, answer)
    BY DEF ObserveExit
  <1>2. /\ e \in Exits /\ e.status = c.status /\ e.decision = c.decision
        /\ e.automated = c.automated /\ e.route = c.route /\ e.owned = c.owned
        /\ e.cancelBad = c.cancelBad /\ e.armed = c.armed /\ e.choice = c.choice
        /\ e.closed = c.closed /\ e.shown = c.shown /\ e.finished = c.finished
        /\ e.ended = c.ended /\ e.presentation = c.presentation
    BY DEF Sound, Half, Exits
  <1> HIDE DEF e
  <1>3. Sound(e) /\ Quiet(c, e)  BY <1>2 DEF Sound, Half, Routed, Told, Armed, Agreed, Quiet, Onward
  <1>4. Sound(r) /\ Quiet(c, r) /\ r.finished = c.finished
    BY <1>2, <1>3, RefreshFields DEF Sound, Watched, Quiet, Onward
  <1> HIDE DEF r
  <1>5. ~r.shown => Sound(Drafted(r)) /\ Quiet(r, Drafted(r))  BY <1>4, DraftedFields
  <1>6. ~c.finished /\ r.shown =>
          LET d == Followed(r, onset, held, answer) IN Sound(d) /\ Quiet(r, d)
    BY <1>4, FollowedFields
  <1> QED  BY <1>1, <1>3, <1>4, <1>5, <1>6 DEF Quiet, Onward

(* The steps. *)
ExitTypes ==
    /\ mode \in {NoA, Manual}
    /\ view \in [prepared : {"none", "plain", "invite"}, drawn : BOOLEAN, active : BOOLEAN]
    /\ pc \in {"collect", "update", "observe", "draw", "flip", "stopped"}
    /\ confirm \in BOOLEAN /\ late \in BOOLEAN /\ phase \in {"early", "open", "over"}
    /\ faults \in 0..MaxFaults /\ visible \in BOOLEAN /\ released \in BOOLEAN

\* A right signal counts only under a frame that invites to it, and only on the approach.
InviteInv ==
    /\ view.active => visible
    /\ confirm => visible /\ x.at \in Navigable /\ pc \in {"update", "stopped"}

ExitInv == Sound(x) /\ ExitTypes /\ InviteInv

\* What a step may do to the opportunity.
Grows(c, d) == Onward(c, d) \/ (~c.shown /\ d.shown /\ d.ended = c.ended)

Invited ==
    x'.decision = "CONFIRM" /\ x.decision # "CONFIRM" =>
        /\ visible /\ ~x.closed /\ ~late /\ phase # "over"
        /\ x.at \in Navigable /\ mode' = NoA

ExitStep == ExitInv' /\ Grows(x, x') /\ Invited

LEMMA PreparedRange ==
    ASSUME NEW c
    PROVE  /\ Prepared(c) \in {"none", "plain", "invite"}
           /\ Prepared(c) = "invite" => c.at \in Navigable
           /\ ~c.presentation => Prepared(c) = "none"
  BY DEF Prepared

LEMMA ExitStart == Init => ExitInv
  <1> SUFFICES ASSUME Init PROVE ExitInv  OBVIOUS
  <1>1. x \in Exits  BY DEF Init, Exits, Statuses, Decisions, Forks
  <1>2. /\ x.status = "WAITING" /\ x.decision = "none" /\ x.shown = FALSE /\ x.closed = FALSE
        /\ x.presentation = FALSE /\ x.armed = FALSE /\ x.ended = FALSE /\ x.route = "none"
    BY DEF Init
  <1>3. Sound(x)  BY <1>1, <1>2 DEF Sound, Half, Routed, Told, Armed, Agreed
  <1>4. 0 \in 0..MaxFaults  BY FaultsAssumption
  <1>5. ExitTypes  BY <1>4 DEF Init, ExitTypes
  <1>6. view.active = FALSE /\ confirm = FALSE  BY DEF Init
  <1> QED  BY <1>3, <1>5, <1>6 DEF ExitInv, InviteInv

LEMMA CollectStep == ExitInv /\ Collect => ExitStep
  <1> SUFFICES ASSUME ExitInv, Collect PROVE ExitStep  OBVIOUS
  <1>1. /\ pc' = "update" /\ UNCHANGED <<mode, view, late, phase, faults, visible, released>>
    BY DEF Collect
  <1>2. CASE UNCHANGED <<x, confirm>>
    BY <1>1, <1>2 DEF Collect, ExitStep, ExitInv, ExitTypes, InviteInv, Sound, Half, Routed, Told, Armed, Agreed, Grows, Onward, Invited
  <1>3. CASE view.active /\ x' = Prepare(x) /\ confirm' = (Prepared(x') = "invite")
    <2>1. Sound(x') /\ Watched(x, x')  BY <1>3, PrepareFields DEF ExitInv
    <2>2. confirm' \in BOOLEAN /\ (confirm' => x'.at \in Navigable)  BY <1>3, PreparedRange
    <2>3. ExitTypes' /\ InviteInv'  BY <1>1, <1>3, <2>2 DEF ExitInv, ExitTypes, InviteInv
    <2> QED  BY <2>1, <2>3 DEF ExitStep, ExitInv, Grows, Watched, Invited
  <1> QED  BY <1>2, <1>3 DEF Collect

LEMMA ApplyStep == ExitInv /\ Apply => ExitStep
  <1> SUFFICES ASSUME ExitInv, Apply PROVE ExitStep  OBVIOUS
  <1>1. PICK signal \in Signals, hand \in Hands :
          \E withdrawn \in AnswersTo(Withdraws(signal)),
             left \in AnswersTo(x.owned /\ hand = "toggle"),
             gate \in {TRUE, mode = NoA},
             busy \in {TRUE, ~Submits(hand)},
             submitted \in AnswersTo(Submits(hand)) :
          \E cancelled \in AnswersTo(x.armed \/ submitted # "done") :
             LET c == Withdraw(x, signal, withdrawn)
                 asked == CancelAtTM(c, left)
                 off == mode = NoA /\ hand = "toggle"
                 on == mode = Manual /\ hand = "toggle" /\ gate
                 m == IF off THEN Manual ELSE IF on THEN NoA ELSE mode
             IN  /\ on => ~asked.owned
                 /\ mode' = m
                 /\ x' = Coordinate(IF off \/ on THEN asked ELSE c, m, signal, hand,
                                    busy, submitted, cancelled)
                 /\ Release(m)
    BY DEF Apply
  <1>2. PICK withdrawn \in AnswersTo(Withdraws(signal)),
             left \in AnswersTo(x.owned /\ hand = "toggle"),
             gate \in {TRUE, mode = NoA},
             busy \in {TRUE, ~Submits(hand)},
             submitted \in AnswersTo(Submits(hand)) :
          \E cancelled \in AnswersTo(x.armed \/ submitted # "done") :
             LET c == Withdraw(x, signal, withdrawn)
                 asked == CancelAtTM(c, left)
                 off == mode = NoA /\ hand = "toggle"
                 on == mode = Manual /\ hand = "toggle" /\ gate
                 m == IF off THEN Manual ELSE IF on THEN NoA ELSE mode
             IN  /\ on => ~asked.owned
                 /\ mode' = m
                 /\ x' = Coordinate(IF off \/ on THEN asked ELSE c, m, signal, hand,
                                    busy, submitted, cancelled)
                 /\ Release(m)
    BY <1>1
  <1> DEFINE c == Withdraw(x, signal, withdrawn)
             asked == CancelAtTM(c, left)
             off == mode = NoA /\ hand = "toggle"
             on == mode = Manual /\ hand = "toggle" /\ gate
             m == IF off THEN Manual ELSE IF on THEN NoA ELSE mode
             k == IF off \/ on THEN asked ELSE c
  <1>3. PICK cancelled \in AnswersTo(x.armed \/ submitted # "done") :
             /\ mode' = m
             /\ x' = Coordinate(k, m, signal, hand, busy, submitted, cancelled)
             /\ Release(m)
    BY <1>2
  <1>4. \A b : AnswersTo(b) \subseteq Answers  BY DEF AnswersTo, Answers
  <1>5. withdrawn \in Answers /\ left \in Answers /\ submitted \in Answers
          /\ cancelled \in Answers
    BY <1>4
  <1>6. /\ Sound(c) /\ Onward(x, c) /\ c.decision = x.decision /\ c.closed = x.closed
        /\ c.at = x.at
    BY <1>5, WithdrawFields DEF ExitInv
  <1> HIDE DEF c
  <1>7. Half(asked) /\ Kept(c, asked) /\ asked.armed = c.armed
    BY <1>5, <1>6, CancelAtTMFields DEF Sound
  <1> HIDE DEF asked
  <1>8. Sound(k) /\ Onward(x, k) /\ k.decision = x.decision /\ k.closed = x.closed
          /\ k.at = x.at
    BY <1>6, <1>7 DEF Sound, Armed, Agreed, Kept, Onward
  <1>9. m \in {NoA, Manual}  BY DEF ExitInv, ExitTypes
  <1> HIDE DEF k
  <1>10. Sound(x') /\ Onward(k, x') /\ Consents(k, x', m, hand)
    BY <1>3, <1>5, <1>8, <1>9, CoordinateFields
  <1>11. Onward(x, x')  BY <1>8, <1>10 DEF Onward
  <1>12. Invited  BY <1>3, <1>8, <1>10 DEF Invited, Consents, ExitInv, InviteInv, Navigable
  <1>13. /\ pc' = "observe" /\ confirm' = FALSE
         /\ UNCHANGED <<view, late, phase, faults, visible>>
    BY DEF Apply
  <1>14. released' \in BOOLEAN  BY <1>3 DEF Release, ExitInv, ExitTypes
  <1> HIDE DEF m
  <1>15. ExitTypes' /\ InviteInv'  BY <1>3, <1>9, <1>13, <1>14 DEF ExitInv, ExitTypes, InviteInv
  <1> QED  BY <1>10, <1>11, <1>12, <1>15 DEF ExitStep, ExitInv, Grows

LEMMA ObserveStep == ExitInv /\ Observe => ExitStep
  <1> SUFFICES ASSUME ExitInv, Observe PROVE ExitStep  OBVIOUS
  <1>1. /\ pc = "observe" /\ pc' = "draw"
        /\ UNCHANGED <<mode, view, confirm, late, phase, faults, visible, released>>
    BY DEF Observe
  <1>2. ~confirm  BY <1>1 DEF ExitInv, InviteInv
  <1>3. Sound(x') /\ Quiet(x, x')
    <2>1. CASE UNCHANGED x
      BY <2>1 DEF ExitInv, Sound, Half, Routed, Told, Armed, Agreed, Quiet, Onward
    <2>2. CASE ~UNCHANGED x
      <3>1. PICK place \in Places, answer \in AnswersTo(x.armed /\ x.owned),
                 onset \in {FALSE, ~x.lateral}, held \in {FALSE, x.outside} :
                   x' = ObserveExit(x, place, onset, held, answer)
        BY <2>2, ZenonT(40) DEF Observe
      <3>2. answer \in Answers  BY DEF AnswersTo, Answers
      <3> QED  BY <3>1, <3>2, ObserveExitFields DEF ExitInv
    <2> QED  BY <2>1, <2>2
  <1>4. ExitTypes' /\ InviteInv'  BY <1>1, <1>2 DEF ExitInv, ExitTypes, InviteInv
  <1> QED  BY <1>3, <1>4 DEF ExitStep, ExitInv, Quiet, Grows, Invited

\* The view's record, field by field.
LEMMA ViewFields ==
    ASSUME ExitTypes, NEW p \in {"none", "plain", "invite"}, NEW d \in BOOLEAN, NEW a \in BOOLEAN
    PROVE  LET v == [view EXCEPT !.prepared = p, !.drawn = d, !.active = a] IN
           /\ v \in [prepared : {"none", "plain", "invite"}, drawn : BOOLEAN,
                     active : BOOLEAN]
           /\ v.active = a /\ v.drawn = d
  BY DEF ExitTypes

LEMMA DrawStep ==
    ExitInv /\ Draw => ExitStep /\ (x.closed => ~view'.drawn)
  <1> SUFFICES ASSUME ExitInv, Draw PROVE ExitStep /\ (x.closed => ~view'.drawn)  OBVIOUS
  <1>1. /\ pc = "draw" /\ pc' = "flip" /\ x' = Prepare(x)
        /\ UNCHANGED <<mode, confirm, late, phase, faults, visible, released>>
    BY DEF Draw
  <1>2. Sound(x') /\ Watched(x, x')  BY <1>1, PrepareFields DEF ExitInv
  <1> DEFINE p == Prepared(x')
  <1>3. p \in {"none", "plain", "invite"} /\ (~x'.presentation => p = "none")  BY PreparedRange
  <1>4. PICK hud \in BOOLEAN :
          view' = [view EXCEPT !.prepared = p, !.drawn = hud /\ p # "none",
                               !.active = @ /\ hud /\ p = "invite"]
    BY DEF Draw
  <1> HIDE DEF p
  <1> DEFINE d == hud /\ p # "none"
             a == view.active /\ hud /\ p = "invite"
  <1>5. view' = [view EXCEPT !.prepared = p, !.drawn = d, !.active = a]
    BY <1>4 DEF ExitInv, ExitTypes
  <1>6. d \in BOOLEAN /\ a \in BOOLEAN /\ (a => view.active) /\ (d => p # "none")
    BY DEF ExitInv, ExitTypes
  <1> HIDE DEF d, a
  <1>7. /\ view' \in [prepared : {"none", "plain", "invite"}, drawn : BOOLEAN,
                      active : BOOLEAN]
        /\ view'.active = a /\ view'.drawn = d
    BY <1>3, <1>5, <1>6, ViewFields, ZenonT(40) DEF ExitInv
  <1>8. ~confirm  BY <1>1 DEF ExitInv, InviteInv
  <1>9. ExitTypes' /\ InviteInv'  BY <1>1, <1>6, <1>7, <1>8 DEF ExitInv, ExitTypes, InviteInv
  <1>10. x.closed => ~view'.drawn  BY <1>2, <1>3, <1>6, <1>7 DEF Watched, Sound, Half, Told
  <1> QED  BY <1>2, <1>9, <1>10 DEF ExitStep, ExitInv, Watched, Grows, Invited

LEMMA MarkPresentedFields ==
    ASSUME NEW c, Sound(c), ~c.shown, mode \in {NoA, Manual}
    PROVE  LET d == MarkPresented(c) IN
           Sound(d) /\ d.shown /\ d.ended = c.ended /\ d.decision = c.decision
  <1> DEFINE g == mode = NoA
             d == [c EXCEPT !.status = "PRESENTED", !.shown = TRUE, !.actual = mode,
                            !.automated = g]
  <1>1. ~c.closed /\ ~c.armed /\ c.decision # "CONFIRM"  BY DEF Sound, Half, Told, Armed
  <1>2. g \in BOOLEAN /\ c \in Exits /\ "PRESENTED" \in Statuses  BY DEF Sound, Half, Statuses
  <1>3. MarkPresented(c) = d  BY DEF MarkPresented
  <1> HIDE DEF g
  <1>4. /\ d \in Exits /\ d.status = "PRESENTED" /\ d.decision = c.decision
        /\ d.route = c.route /\ d.owned = c.owned
        /\ d.cancelBad = c.cancelBad /\ d.armed = c.armed /\ d.choice = c.choice
        /\ d.closed = c.closed /\ d.shown = TRUE /\ d.ended = c.ended
    BY <1>2 DEF Exits
  <1> HIDE DEF d
  <1> QED  BY <1>1, <1>3, <1>4 DEF Sound, Half, Routed, Told, Armed, Agreed

LEMMA FlipStep == ExitInv /\ Flip => ExitStep
  <1> SUFFICES ASSUME ExitInv, Flip PROVE ExitStep  OBVIOUS
  <1>1. /\ pc = "flip" /\ pc' = "collect"
        /\ visible' = (view.drawn /\ view.prepared = "invite")
        /\ UNCHANGED <<mode, confirm, late, phase, faults, released>>
    BY DEF Flip
  <1>2. \/ x' = Prepare(x)
        \/ ~x.shown /\ x' = MarkPresented(x)
        \/ x.shown /\ x' = Close(x)
        \/ x' = x
    BY DEF Flip
  <1>3. Sound(x') /\ Grows(x, x') /\ (x'.decision = "CONFIRM" => x.decision = "CONFIRM")
    <2>1. CASE x' = Prepare(x)  BY <2>1, PrepareFields DEF ExitInv, Watched, Grows
    <2>2. CASE ~x.shown /\ x' = MarkPresented(x)
      BY <2>2, MarkPresentedFields DEF ExitInv, ExitTypes, Grows
    <2>3. CASE x.shown /\ x' = Close(x)  BY <2>3, CloseFields DEF ExitInv, Sound, Watched, Grows
    <2>4. CASE x' = x  BY <2>4 DEF ExitInv, Sound, Half, Routed, Told, Armed, Agreed, Grows, Onward
    <2> QED  BY <1>2, <2>1, <2>2, <2>3, <2>4
  <1> DEFINE a == visible' /\ (x.shown => Prepared(x') = "invite")
  <1>4. view' = [prepared |-> "none", drawn |-> FALSE, active |-> a]  BY DEF Flip
  <1>5. visible' \in BOOLEAN /\ a \in BOOLEAN /\ (a => visible')  BY <1>1 DEF ExitInv, ExitTypes
  <1> HIDE DEF a
  <1>6. /\ view' \in [prepared : {"none", "plain", "invite"}, drawn : BOOLEAN,
                      active : BOOLEAN]
        /\ view'.active = a
    BY <1>4, <1>5
  <1>7. ~confirm  BY <1>1 DEF ExitInv, InviteInv
  <1>8. ExitTypes' /\ InviteInv'  BY <1>1, <1>5, <1>6, <1>7 DEF ExitInv, ExitTypes, InviteInv
  <1> QED  BY <1>3, <1>8 DEF ExitStep, ExitInv, Invited

LEMMA SoundSame == ASSUME Sound(x), x' = x PROVE Sound(x') /\ Grows(x, x')
  BY DEF Sound, Half, Routed, Told, Armed, Agreed, Grows, Onward

LEMMA ClockStep == ExitInv /\ (Clock \/ UNCHANGED vars) => ExitStep
  <1> SUFFICES ASSUME ExitInv, Clock \/ UNCHANGED vars PROVE ExitStep  OBVIOUS
  <1>1. /\ UNCHANGED <<x, mode, view, pc, confirm, faults, visible, released>>
        /\ late' \in BOOLEAN /\ phase' \in {"early", "open", "over"}
    BY DEF Clock, vars, ExitInv, ExitTypes
  <1>2. Sound(x') /\ Grows(x, x')  BY <1>1, SoundSame DEF ExitInv
  <1>3. ExitTypes' /\ InviteInv'  BY <1>1 DEF ExitInv, ExitTypes, InviteInv
  <1> QED  BY <1>1, <1>2, <1>3 DEF ExitStep, ExitInv, Invited

LEMMA PauseStep == ExitInv /\ Pause => ExitStep
  <1> SUFFICES ASSUME ExitInv, Pause PROVE ExitStep  OBVIOUS
  <1>1. /\ mode' = Manual /\ pc' = "collect" /\ confirm' = FALSE /\ faults < MaxFaults
        /\ faults' = faults + 1 /\ UNCHANGED <<view, late, phase, visible>> /\ Release(Manual)
    BY DEF Pause
  <1>2. PICK withdrawn \in AnswersTo(x.owned), answer \in AnswersTo(x.owned) :
          \E c \in {x, IF pc = "update" THEN Withdraw(x, "left", withdrawn) ELSE x} :
             x' = CancelAtTM(c, answer)
    BY DEF Pause
  <1>3. withdrawn \in Answers /\ answer \in Answers  BY DEF AnswersTo, Answers
  <1>4. PICK c : c \in {x, Withdraw(x, "left", withdrawn)} /\ x' = CancelAtTM(c, answer)  BY <1>2
  <1>5. Sound(c) /\ Onward(x, c) /\ c.decision = x.decision
    BY <1>3, <1>4, WithdrawFields DEF ExitInv, Onward
  <1>6. Half(x') /\ Kept(c, x') /\ x'.armed = c.armed
    BY <1>3, <1>4, <1>5, CancelAtTMFields DEF Sound
  <1>7. Sound(x') /\ Grows(x, x') /\ Invited
    BY <1>5, <1>6 DEF Sound, Armed, Agreed, Kept, Grows, Onward, Invited
  <1>8. faults' \in 0..MaxFaults /\ released' \in BOOLEAN
    <2>1. faults' \in 0..MaxFaults  BY <1>1, FaultsAssumption DEF ExitInv, ExitTypes
    <2>2. released' \in BOOLEAN  BY <1>1 DEF Release, ExitInv, ExitTypes
    <2> QED  BY <2>1, <2>2
  <1>9. ExitTypes' /\ InviteInv'  BY <1>1, <1>8 DEF ExitInv, ExitTypes, InviteInv
  <1> QED  BY <1>7, <1>9 DEF ExitStep, ExitInv

LEMMA FinishStep == ExitInv /\ Finish => ExitStep
  <1> SUFFICES ASSUME ExitInv, Finish PROVE ExitStep  OBVIOUS
  <1> DEFINE e == [x EXCEPT !.finished = TRUE]
  <1>1. /\ pc' = "stopped"
        /\ UNCHANGED <<mode, view, confirm, late, phase, faults, visible, released>>
    BY DEF Finish
  <1>2. PICK answer \in AnswersTo(x.owned) :
          x' = [CancelRoute(e, answer) EXCEPT
                  !.presentation = FALSE,
                  !.status = IF @ \in {"COMPLETED", "NOT_PRESENTED"} THEN @
                             ELSE "INTERRUPTED"]
    BY DEF Finish
  <1>3. answer \in Answers  BY DEF AnswersTo, Answers
  <1>4. /\ e \in Exits /\ e.status = x.status /\ e.decision = x.decision
        /\ e.automated = x.automated /\ e.route = x.route /\ e.owned = x.owned
        /\ e.cancelBad = x.cancelBad /\ e.armed = x.armed /\ e.choice = x.choice
        /\ e.closed = x.closed /\ e.shown = x.shown /\ e.finished = TRUE
        /\ e.ended = x.ended /\ e.presentation = x.presentation /\ e.at = x.at
    BY DEF ExitInv, Sound, Half, Exits
  <1> DEFINE k == CancelRoute(e, answer)
             s == IF k.status \in {"COMPLETED", "NOT_PRESENTED"} THEN k.status
                  ELSE "INTERRUPTED"
  <1>5. x' = [k EXCEPT !.presentation = FALSE,
                       !.status = IF @ \in {"COMPLETED", "NOT_PRESENTED"} THEN @
                                  ELSE "INTERRUPTED"]
    BY <1>2
  <1> HIDE DEF e
  <1>6. Half(e)  BY <1>4 DEF ExitInv, Sound, Half, Routed, Told
  <1>7. Half(k) /\ Kept(e, k) /\ k.armed = FALSE  BY <1>3, <1>6, CancelRouteFields
  <1> HIDE DEF k
  <1>8. x' = [k EXCEPT !.presentation = FALSE, !.status = s]
    <2>1. [k EXCEPT !.presentation = FALSE].status = k.status  BY <1>7 DEF Half, Exits
    <2> QED  BY <1>5, <2>1
  <1>9. s \in Statuses /\ s \in {"COMPLETED", "NOT_PRESENTED", "INTERRUPTED"}  BY DEF Statuses
  <1> HIDE DEF s
  <1>10. /\ x' \in Exits /\ x'.status = s /\ x'.decision = k.decision
         /\ x'.automated = k.automated /\ x'.route = k.route /\ x'.owned = k.owned
         /\ x'.cancelBad = k.cancelBad /\ x'.armed = FALSE /\ x'.choice = k.choice
         /\ x'.closed = k.closed /\ x'.shown = k.shown /\ x'.finished = k.finished
         /\ x'.ended = k.ended /\ x'.presentation = FALSE /\ x'.at = k.at
    BY <1>7, <1>8, <1>9 DEF Half, Exits
  <1>11. Half(x')  BY <1>7, <1>9, <1>10 DEF Half, Routed, Told
  <1>12. Sound(x') /\ Grows(x, x') /\ Invited
    BY <1>4, <1>7, <1>10, <1>11 DEF Sound, Armed, Agreed, Kept, Grows, Onward, Invited
  <1>13. ExitTypes' /\ InviteInv'
    <2>1. x'.at = x.at  BY <1>4, <1>7, <1>10 DEF Kept
    <2> QED  BY <1>1, <2>1 DEF ExitInv, ExitTypes, InviteInv
  <1> QED  BY <1>12, <1>13 DEF ExitStep, ExitInv

LEMMA ExitNext == ExitInv /\ [Next]_vars => ExitStep
  BY CollectStep, ApplyStep, ObserveStep, DrawStep, FlipStep, ClockStep, PauseStep,
     FinishStep DEF Next, Iterate

\* The inductive invariant of the exit opportunity, at every point of the iteration.
THEOREM ExitInvariance == Spec => []ExitInv
  <1>1. ExitInv /\ [Next]_vars => ExitInv'  BY ExitNext DEF ExitStep
  <1> QED  BY ExitStart, <1>1, PTL DEF Spec

\* The vehicle leaves the road only by invitation: while NoA drives, the Traffic Manager
\* takes the exit under a consent that stands or one that could not be taken back; a
\* consent answers open guidance, in time and in place; and closed guidance is never
\* drawn again.
THEOREM ExitStaysInvited == Spec => ExitIsInvited
  <1>1. ExitInv => TypeOK
    <2> SUFFICES ASSUME ExitInv PROVE TypeOK  OBVIOUS
    <2>1. x \in Exits /\ (x.armed => x.choice # "none")  BY DEF ExitInv, Sound, Half, Armed
    <2> QED  BY <2>1 DEF ExitInv, ExitTypes, TypeOK, Exits, Statuses, Decisions, Forks
  <1>2. ExitInv => NoStrayExit
    <2> SUFFICES ASSUME ExitInv, mode = NoA, x.route = "Right"
                 PROVE  x.owned /\ (\/ x.armed /\ x.decision = "CONFIRM" /\ x.status = "CONFIRMED"
                                    \/ x.cancelBad)
      BY DEF NoStrayExit
    <2> QED  BY DEF ExitInv, Sound, Half, Routed, Armed
  <1>3. ExitInv /\ [Next]_vars =>
          [x'.decision = "CONFIRM" /\ x.decision # "CONFIRM" =>
             /\ visible /\ ~x.closed /\ ~late /\ phase # "over"
             /\ x.at \in Navigable /\ mode' = NoA]_vars
    BY ExitNext DEF ExitStep, Invited
  <1>4. ExitInv /\ [Next]_vars => [x.closed /\ pc = "draw" /\ pc' = "flip" => ~view'.drawn]_vars
    <2> SUFFICES ASSUME ExitInv, [Next]_vars, x.closed, pc = "draw", pc' = "flip"
                 PROVE  ~view'.drawn
      OBVIOUS
    <2>1. Draw  BY DEF Next, Iterate, Collect, Apply, Observe, Flip, Clock, Pause, Finish, vars
    <2> QED  BY <2>1, DrawStep
  <1>5. Spec => [](TypeOK /\ NoStrayExit)  BY <1>1, <1>2, ExitInvariance, PTL
  <1>6. Spec => ConsentWasInvited  BY <1>3, ExitInvariance, PTL DEF Spec, ConsentWasInvited
  <1>7. Spec => GuidanceStaysClosed  BY <1>4, ExitInvariance, PTL DEF Spec, GuidanceStaysClosed
  <1> QED  BY <1>5, <1>6, <1>7 DEF ExitIsInvited

\* The opportunity is what the hazard of module 2 takes it for: presented at most once,
\* and resolved at most once, only after it was presented.
THEOREM OpportunityIsKept == Spec => OpportunitySpec
  <1>1. Init => Opportunity!Init  BY DEF Init, Opportunity!Init
  <1>2. ExitInv /\ [Next]_vars =>
          [Opportunity!Next]_(IF x.ended THEN "resolved"
                              ELSE IF x.shown THEN "presented" ELSE "not_presented")
    <2> SUFFICES ASSUME ExitInv, [Next]_vars
                 PROVE  [Opportunity!Next]_(IF x.ended THEN "resolved"
                              ELSE IF x.shown THEN "presented" ELSE "not_presented")
      OBVIOUS
    <2>1. Grows(x, x') /\ Sound(x') /\ Sound(x)  BY ExitNext DEF ExitStep, ExitInv
    <2>2. /\ x.ended \in BOOLEAN /\ x.shown \in BOOLEAN
          /\ x'.ended \in BOOLEAN /\ x'.shown \in BOOLEAN
          /\ (x.ended => x.shown) /\ (x'.ended => x'.shown)
      BY <2>1 DEF Sound, Half, Exits, Told
    <2> QED  BY <2>1, <2>2
             DEF Grows, Onward, Opportunity!Next, Opportunity!Present, Opportunity!Resolve
  <1> QED  BY <1>1, <1>2, ExitInvariance, PTL DEF Spec, OpportunitySpec, Opportunity!Spec

(* The scene behind a moving lead. *)

\* Where the scene is prepared, where a frame has not come to the reveal, where it is over.
Preparing == {"lead", "cargo", "pair"}
Early == {"window", "hit"} \cup Preparing \cup {"geometry", "seen", "reveal"}
Over == {"ending", "closed"}

\* The frames of the scene: none is later than the last one seen, and a frame that has not
\* come to the reveal is later than the motion of the lead.
NumbersInv ==
    /\ {world, sample, lastFrame, requested, placement, motion} \subseteq Nat
    /\ world > 0 /\ lastFrame <= world
    /\ mpc \in Early => sample = lastFrame /\ motion < sample
    /\ motion <= lastFrame /\ placement <= lastFrame
    /\ placement # Unset => requested # Unset /\ requested < placement
    /\ motion # Unset => placement # Unset /\ placement <= motion

\* A scene is prepared once, under the participant's occurrence, and revealed once.
PlanInv ==
    /\ state = "SCHEDULED" \/ mpc \in {"lead", "cargo"} => requested = Unset
    /\ mpc \in Preparing => placement = Unset /\ state = "PREPARING" /\ registry = "ours"
    /\ mpc \in {"seen", "reveal"} => placement # Unset
    /\ "cargo" \in owned /\ mpc \notin Over => requested # Unset
    /\ motion # Unset => state # "OCCLUDED"
    /\ requested # Unset => registry = "ours"

\* An exposure follows the motion, or has ended the scene as an invalid one; a display that
\* does not count has at least raised.
ExposureInv ==
    /\ \A e \in {first, shown} :
         /\ e.valid \in BOOLEAN /\ e.frame \in Nat
         /\ e # Unexposed => placement # Unset
         /\ e # Unexposed /\ ~e.valid => raised /\ mpc \in Over
         /\ e.valid => motion # Unset
    /\ first # Unexposed /\ ~first.valid => state = "INVALID_EXPOSURE"
    /\ first.valid => motion < first.frame
    /\ shown.valid => motion <= shown.frame

\* A lead is advanced before the scene is retired, and has gone to the Traffic Manager after.
LeadInv ==
    /\ mpc \in {"seen", "reveal", "advance", "retire"} => ~retired
    /\ retired /\ mpc \notin Over => handed

\* The record.
EndInv == CandidateIsSound /\ NothingOutlivesTheScene

SceneInv == NumbersInv /\ PlanInv /\ ExposureInv /\ LeadInv /\ EndInv

\* Every step keeps the frames in order.
LEMMA NumbersKeep ==
    ASSUME SceneInv, [MovingNext]_movingVars
    PROVE  NumbersInv'
  <1> USE DEF SceneInv, NumbersInv, PlanInv, Emit, Fails, Raising, timeVars, frameVars,
      planVars, placeVars, leadVars, pairVars, senseVars, seenVars, Preparing, Early, Over
  <1>1. CASE Tick  BY <1>1 DEF Tick
  <1>2. CASE WorldTick  BY <1>2 DEF WorldTick
  <1>3. CASE Capture  BY <1>3 DEF Capture
  <1>4. CASE \E kind \in {"cargo", "other"} : Collide(kind)  BY <1>4 DEF Collide
  <1>5. CASE StartObservation  BY <1>5 DEF StartObservation
  <1>6. CASE Control  BY <1>6 DEF Control
  <1>7. CASE Leave  BY <1>7 DEF Leave
  <1>8. CASE WindowCloses  BY <1>8 DEF WindowCloses, Looking, InWindow
  <1>9. CASE NothingToDo  BY <1>9 DEF NothingToDo, Attempting, Looking, InWindow
  <1>10. CASE Defer  BY <1>10 DEF Defer, Attempting, Looking, InWindow
  <1>11. CASE Unsuitable  BY <1>11 DEF Unsuitable, Defer, Attempting, Looking, InWindow
  <1>12. CASE TooLate  BY <1>12 DEF TooLate, Attempting, Looking, InWindow
  <1>13. CASE Claim  BY <1>13 DEF Claim, Attempting, Looking, InWindow
  <1>14. CASE SpawnLead  BY <1>14 DEF SpawnLead
  <1>15. CASE SpawnCargo  BY <1>15 DEF SpawnCargo
  <1>16. CASE PlanExposure  BY <1>16 DEF PlanExposure
  <1>17. CASE PreparationFails  BY <1>17 DEF PreparationFails
  <1>18. CASE NoGeometry  BY <1>18 DEF NoGeometry, Observing
  <1>19. CASE ActorLost  BY <1>19 DEF ActorLost, Observing, OnTheRoad
  <1>20. CASE ConfirmPlacement  BY <1>20 DEF ConfirmPlacement, Observing, OnTheRoad
  <1>21. CASE Placed  BY <1>21 DEF Placed, Observing, OnTheRoad
  <1>22. CASE CargoMoved  BY <1>22 DEF CargoMoved, Observing
  <1>23. CASE Expose  BY <1>23 DEF Expose, Observing
  <1>24. CASE NothingNew  BY <1>24 DEF NothingNew, Observing
  <1>25. CASE Reveal  BY <1>25 DEF Reveal, Observing, Due
  <1>26. CASE RevealTooLate  BY <1>26 DEF RevealTooLate, Observing, Due
  <1>27. CASE NoReveal  BY <1>27 DEF NoReveal, Observing, Due
  <1>28. CASE Steer  BY <1>28 DEF Steer, Lead
  <1>29. CASE SameFrame  BY <1>29 DEF SameFrame, Lead, Larger
  <1>30. CASE HandOver  BY <1>30 DEF HandOver, Lead
  <1>31. CASE Stay  BY <1>31 DEF Stay, Lead
  <1>32. CASE RetireScene  BY <1>32 DEF RetireScene
  <1>33. CASE \E f \in Frames : Show(f)  BY <1>33 DEF Show, Observing, OnTheRoad, Frames
  <1>34. CASE ShowNothing  BY <1>34 DEF ShowNothing, Observing
  <1>35. CASE EndScene  BY <1>35 DEF EndScene, CleanUp, Result
  <1>36. CASE UNCHANGED movingVars  BY <1>36 DEF movingVars
  <1> QED
    BY <1>1, <1>2, <1>3, <1>4, <1>5, <1>6, <1>7, <1>8, <1>9, <1>10, <1>11, <1>12, <1>13, <1>14,
       <1>15, <1>16, <1>17, <1>18, <1>19, <1>20, <1>21, <1>22, <1>23, <1>24, <1>25, <1>26,
       <1>27, <1>28, <1>29, <1>30, <1>31, <1>32, <1>33, <1>34, <1>35, <1>36 DEF MovingNext


\* Every step keeps the one preparation and the one reveal.
LEMMA PlanKeep ==
    ASSUME SceneInv, [MovingNext]_movingVars
    PROVE  PlanInv'
  <1> USE DEF SceneInv, NumbersInv, PlanInv, Emit, Fails, Raising, timeVars, frameVars,
      planVars, placeVars, leadVars, pairVars, senseVars, seenVars, Preparing, Early, Over
  <1>1. CASE Tick  BY <1>1 DEF Tick
  <1>2. CASE WorldTick  BY <1>2 DEF WorldTick
  <1>3. CASE Capture  BY <1>3 DEF Capture
  <1>4. CASE \E kind \in {"cargo", "other"} : Collide(kind)  BY <1>4 DEF Collide
  <1>5. CASE StartObservation  BY <1>5 DEF StartObservation
  <1>6. CASE Control  BY <1>6 DEF Control
  <1>7. CASE Leave  BY <1>7 DEF Leave
  <1>8. CASE WindowCloses  BY <1>8 DEF WindowCloses, Looking, InWindow
  <1>9. CASE NothingToDo  BY <1>9 DEF NothingToDo, Attempting, Looking, InWindow
  <1>10. CASE Defer  BY <1>10 DEF Defer, Attempting, Looking, InWindow
  <1>11. CASE Unsuitable  BY <1>11 DEF Unsuitable, Defer, Attempting, Looking, InWindow
  <1>12. CASE TooLate  BY <1>12 DEF TooLate, Attempting, Looking, InWindow
  <1>13. CASE Claim  BY <1>13 DEF Claim, Attempting, Looking, InWindow
  <1>14. CASE SpawnLead  BY <1>14 DEF SpawnLead
  <1>15. CASE SpawnCargo  BY <1>15 DEF SpawnCargo
  <1>16. CASE PlanExposure  BY <1>16 DEF PlanExposure
  <1>17. CASE PreparationFails  BY <1>17 DEF PreparationFails
  <1>18. CASE NoGeometry  BY <1>18 DEF NoGeometry, Observing
  <1>19. CASE ActorLost  BY <1>19 DEF ActorLost, Observing, OnTheRoad
  <1>20. CASE ConfirmPlacement  BY <1>20 DEF ConfirmPlacement, Observing, OnTheRoad
  <1>21. CASE Placed  BY <1>21 DEF Placed, Observing, OnTheRoad
  <1>22. CASE CargoMoved  BY <1>22 DEF CargoMoved, Observing
  <1>23. CASE Expose  BY <1>23 DEF Expose, Observing
  <1>24. CASE NothingNew  BY <1>24 DEF NothingNew, Observing
  <1>25. CASE Reveal  BY <1>25 DEF Reveal, Observing, Due
  <1>26. CASE RevealTooLate  BY <1>26 DEF RevealTooLate, Observing, Due
  <1>27. CASE NoReveal  BY <1>27 DEF NoReveal, Observing, Due
  <1>28. CASE Steer  BY <1>28 DEF Steer, Lead
  <1>29. CASE SameFrame  BY <1>29 DEF SameFrame, Lead, Larger
  <1>30. CASE HandOver  BY <1>30 DEF HandOver, Lead
  <1>31. CASE Stay  BY <1>31 DEF Stay, Lead
  <1>32. CASE RetireScene  BY <1>32 DEF RetireScene
  <1>33. CASE \E f \in Frames : Show(f)  BY <1>33 DEF Show, Observing, OnTheRoad, Frames
  <1>34. CASE ShowNothing  BY <1>34 DEF ShowNothing, Observing
  <1>35. CASE EndScene  BY <1>35 DEF EndScene, CleanUp, Result
  <1>36. CASE UNCHANGED movingVars  BY <1>36 DEF movingVars
  <1> QED
    BY <1>1, <1>2, <1>3, <1>4, <1>5, <1>6, <1>7, <1>8, <1>9, <1>10, <1>11, <1>12, <1>13, <1>14,
       <1>15, <1>16, <1>17, <1>18, <1>19, <1>20, <1>21, <1>22, <1>23, <1>24, <1>25, <1>26,
       <1>27, <1>28, <1>29, <1>30, <1>31, <1>32, <1>33, <1>34, <1>35, <1>36 DEF MovingNext


\* Every step keeps the exposures after the motion.
LEMMA ExposureKeep ==
    ASSUME SceneInv, [MovingNext]_movingVars
    PROVE  ExposureInv'
  <1> USE DEF SceneInv, NumbersInv, PlanInv, ExposureInv, Emit, Fails, Raising, timeVars,
      frameVars, planVars, placeVars, leadVars, pairVars, senseVars, seenVars, Preparing,
      Early, Over
  <1>1. CASE Tick  BY <1>1 DEF Tick
  <1>2. CASE WorldTick  BY <1>2 DEF WorldTick
  <1>3. CASE Capture  BY <1>3 DEF Capture
  <1>4. CASE \E kind \in {"cargo", "other"} : Collide(kind)  BY <1>4 DEF Collide
  <1>5. CASE StartObservation  BY <1>5 DEF StartObservation
  <1>6. CASE Control  BY <1>6 DEF Control
  <1>7. CASE Leave  BY <1>7 DEF Leave
  <1>8. CASE WindowCloses  BY <1>8 DEF WindowCloses, Looking, InWindow
  <1>9. CASE NothingToDo  BY <1>9 DEF NothingToDo, Attempting, Looking, InWindow
  <1>10. CASE Defer  BY <1>10 DEF Defer, Attempting, Looking, InWindow
  <1>11. CASE Unsuitable  BY <1>11 DEF Unsuitable, Defer, Attempting, Looking, InWindow
  <1>12. CASE TooLate  BY <1>12 DEF TooLate, Attempting, Looking, InWindow
  <1>13. CASE Claim  BY <1>13 DEF Claim, Attempting, Looking, InWindow
  <1>14. CASE SpawnLead  BY <1>14 DEF SpawnLead
  <1>15. CASE SpawnCargo  BY <1>15 DEF SpawnCargo
  <1>16. CASE PlanExposure  BY <1>16 DEF PlanExposure
  <1>17. CASE PreparationFails  BY <1>17 DEF PreparationFails
  <1>18. CASE NoGeometry  BY <1>18 DEF NoGeometry, Observing
  <1>19. CASE ActorLost  BY <1>19 DEF ActorLost, Observing, OnTheRoad
  <1>20. CASE ConfirmPlacement  BY <1>20 DEF ConfirmPlacement, Observing, OnTheRoad
  <1>21. CASE Placed  BY <1>21 DEF Placed, Observing, OnTheRoad
  <1>22. CASE CargoMoved  BY <1>22 DEF CargoMoved, Observing
  <1>23. CASE Expose  BY <1>23 DEF Expose, Observing
  <1>24. CASE NothingNew  BY <1>24 DEF NothingNew, Observing
  <1>25. CASE Reveal  BY <1>25 DEF Reveal, Observing, Due
  <1>26. CASE RevealTooLate  BY <1>26 DEF RevealTooLate, Observing, Due
  <1>27. CASE NoReveal  BY <1>27 DEF NoReveal, Observing, Due
  <1>28. CASE Steer  BY <1>28 DEF Steer, Lead
  <1>29. CASE SameFrame  BY <1>29 DEF SameFrame, Lead, Larger
  <1>30. CASE HandOver  BY <1>30 DEF HandOver, Lead
  <1>31. CASE Stay  BY <1>31 DEF Stay, Lead
  <1>32. CASE RetireScene  BY <1>32 DEF RetireScene
  <1>33. CASE \E f \in Frames : Show(f)
    <2>1. PICK f \in Frames : Show(f)  BY <1>33
    <2>2. f \in Nat  BY WindowAssumption DEF Frames
    <2>3. /\ shown'.frame = f /\ shown'.valid \in BOOLEAN
          /\ shown'.valid => motion # Unset /\ motion <= f
      BY <2>1, <2>2 DEF Show
    <2>4. /\ placement # Unset /\ first' = first
          /\ ~shown'.valid => raised' /\ mpc' = "ending"
          /\ shown'.valid => state' = state /\ mpc' \in {"frame", "ending"}
          /\ placement' = placement /\ motion' = motion /\ mpc = "display"
      BY <2>1 DEF Show, Observing, OnTheRoad
    <2>5. first.valid \/ first = Unexposed  BY <2>4
    <2> QED  BY <2>2, <2>3, <2>4, <2>5
  <1>34. CASE ShowNothing  BY <1>34 DEF ShowNothing, Observing
  <1>35. CASE EndScene  BY <1>35 DEF EndScene, CleanUp, Result
  <1>36. CASE UNCHANGED movingVars  BY <1>36 DEF movingVars
  <1> QED
    BY <1>1, <1>2, <1>3, <1>4, <1>5, <1>6, <1>7, <1>8, <1>9, <1>10, <1>11, <1>12, <1>13, <1>14,
       <1>15, <1>16, <1>17, <1>18, <1>19, <1>20, <1>21, <1>22, <1>23, <1>24, <1>25, <1>26,
       <1>27, <1>28, <1>29, <1>30, <1>31, <1>32, <1>33, <1>34, <1>35, <1>36 DEF MovingNext


\* Every step keeps a driver to the lead.
LEMMA LeadKeep ==
    ASSUME SceneInv, [MovingNext]_movingVars
    PROVE  LeadInv'
  <1> USE DEF SceneInv, LeadInv, Emit, Fails, Raising, timeVars, frameVars, planVars,
      placeVars, leadVars, pairVars, senseVars, seenVars, Over
  <1>1. CASE Tick  BY <1>1 DEF Tick
  <1>2. CASE WorldTick  BY <1>2 DEF WorldTick
  <1>3. CASE Capture  BY <1>3 DEF Capture
  <1>4. CASE \E kind \in {"cargo", "other"} : Collide(kind)  BY <1>4 DEF Collide
  <1>5. CASE StartObservation  BY <1>5 DEF StartObservation
  <1>6. CASE Control  BY <1>6 DEF Control
  <1>7. CASE Leave  BY <1>7 DEF Leave
  <1>8. CASE WindowCloses  BY <1>8 DEF WindowCloses, Looking, InWindow
  <1>9. CASE NothingToDo  BY <1>9 DEF NothingToDo, Attempting, Looking, InWindow
  <1>10. CASE Defer  BY <1>10 DEF Defer, Attempting, Looking, InWindow
  <1>11. CASE Unsuitable  BY <1>11 DEF Unsuitable, Defer, Attempting, Looking, InWindow
  <1>12. CASE TooLate  BY <1>12 DEF TooLate, Attempting, Looking, InWindow
  <1>13. CASE Claim  BY <1>13 DEF Claim, Attempting, Looking, InWindow
  <1>14. CASE SpawnLead  BY <1>14 DEF SpawnLead
  <1>15. CASE SpawnCargo  BY <1>15 DEF SpawnCargo
  <1>16. CASE PlanExposure  BY <1>16 DEF PlanExposure
  <1>17. CASE PreparationFails  BY <1>17 DEF PreparationFails
  <1>18. CASE NoGeometry  BY <1>18 DEF NoGeometry, Observing
  <1>19. CASE ActorLost  BY <1>19 DEF ActorLost, Observing, OnTheRoad
  <1>20. CASE ConfirmPlacement  BY <1>20 DEF ConfirmPlacement, Observing, OnTheRoad
  <1>21. CASE Placed  BY <1>21 DEF Placed, Observing, OnTheRoad
  <1>22. CASE CargoMoved  BY <1>22 DEF CargoMoved, Observing
  <1>23. CASE Expose  BY <1>23 DEF Expose, Observing
  <1>24. CASE NothingNew  BY <1>24 DEF NothingNew, Observing
  <1>25. CASE Reveal  BY <1>25 DEF Reveal, Observing, Due
  <1>26. CASE RevealTooLate  BY <1>26 DEF RevealTooLate, Observing, Due
  <1>27. CASE NoReveal  BY <1>27 DEF NoReveal, Observing, Due
  <1>28. CASE Steer  BY <1>28 DEF Steer, Lead
  <1>29. CASE SameFrame  BY <1>29 DEF SameFrame, Lead, Larger
  <1>30. CASE HandOver  BY <1>30 DEF HandOver, Lead
  <1>31. CASE Stay  BY <1>31 DEF Stay, Lead
  <1>32. CASE RetireScene  BY <1>32 DEF RetireScene
  <1>33. CASE \E f \in Frames : Show(f)  BY <1>33 DEF Show, Observing, OnTheRoad, Frames
  <1>34. CASE ShowNothing  BY <1>34 DEF ShowNothing, Observing
  <1>35. CASE EndScene  BY <1>35 DEF EndScene, CleanUp, Result
  <1>36. CASE UNCHANGED movingVars  BY <1>36 DEF movingVars
  <1> QED
    BY <1>1, <1>2, <1>3, <1>4, <1>5, <1>6, <1>7, <1>8, <1>9, <1>10, <1>11, <1>12, <1>13, <1>14,
       <1>15, <1>16, <1>17, <1>18, <1>19, <1>20, <1>21, <1>22, <1>23, <1>24, <1>25, <1>26,
       <1>27, <1>28, <1>29, <1>30, <1>31, <1>32, <1>33, <1>34, <1>35, <1>36 DEF MovingNext


\* Every step keeps the record true.
LEMMA EndKeep ==
    ASSUME SceneInv, [MovingNext]_movingVars
    PROVE  EndInv'
  <1> USE DEF SceneInv, EndInv, ExposureInv, PlanInv, Emit, Fails, Raising, timeVars,
      frameVars, planVars, placeVars, leadVars, pairVars, senseVars, seenVars,
      CandidateIsSound, NothingOutlivesTheScene, Over
  <1>1. CASE Tick  BY <1>1 DEF Tick
  <1>2. CASE WorldTick  BY <1>2 DEF WorldTick
  <1>3. CASE Capture  BY <1>3 DEF Capture
  <1>4. CASE \E kind \in {"cargo", "other"} : Collide(kind)  BY <1>4 DEF Collide
  <1>5. CASE StartObservation  BY <1>5 DEF StartObservation
  <1>6. CASE Control  BY <1>6 DEF Control
  <1>7. CASE Leave  BY <1>7 DEF Leave
  <1>8. CASE WindowCloses  BY <1>8 DEF WindowCloses, Looking, InWindow
  <1>9. CASE NothingToDo  BY <1>9 DEF NothingToDo, Attempting, Looking, InWindow
  <1>10. CASE Defer  BY <1>10 DEF Defer, Attempting, Looking, InWindow
  <1>11. CASE Unsuitable  BY <1>11 DEF Unsuitable, Defer, Attempting, Looking, InWindow
  <1>12. CASE TooLate  BY <1>12 DEF TooLate, Attempting, Looking, InWindow
  <1>13. CASE Claim  BY <1>13 DEF Claim, Attempting, Looking, InWindow
  <1>14. CASE SpawnLead  BY <1>14 DEF SpawnLead
  <1>15. CASE SpawnCargo  BY <1>15 DEF SpawnCargo
  <1>16. CASE PlanExposure  BY <1>16 DEF PlanExposure
  <1>17. CASE PreparationFails  BY <1>17 DEF PreparationFails
  <1>18. CASE NoGeometry  BY <1>18 DEF NoGeometry, Observing
  <1>19. CASE ActorLost  BY <1>19 DEF ActorLost, Observing, OnTheRoad
  <1>20. CASE ConfirmPlacement  BY <1>20 DEF ConfirmPlacement, Observing, OnTheRoad
  <1>21. CASE Placed  BY <1>21 DEF Placed, Observing, OnTheRoad
  <1>22. CASE CargoMoved  BY <1>22 DEF CargoMoved, Observing
  <1>23. CASE Expose  BY <1>23 DEF Expose, Observing
  <1>24. CASE NothingNew  BY <1>24 DEF NothingNew, Observing
  <1>25. CASE Reveal  BY <1>25 DEF Reveal, Observing, Due
  <1>26. CASE RevealTooLate  BY <1>26 DEF RevealTooLate, Observing, Due
  <1>27. CASE NoReveal  BY <1>27 DEF NoReveal, Observing, Due
  <1>28. CASE Steer  BY <1>28 DEF Steer, Lead
  <1>29. CASE SameFrame  BY <1>29 DEF SameFrame, Lead, Larger
  <1>30. CASE HandOver  BY <1>30 DEF HandOver, Lead
  <1>31. CASE Stay  BY <1>31 DEF Stay, Lead
  <1>32. CASE RetireScene  BY <1>32 DEF RetireScene
  <1>33. CASE \E f \in Frames : Show(f)  BY <1>33 DEF Show, Observing, OnTheRoad, Frames
  <1>34. CASE ShowNothing  BY <1>34 DEF ShowNothing, Observing
  <1>35. CASE EndScene
    <2>1. PICK lost \in SUBSET {"pair", "callback", "sensor", "row"}, left \in SUBSET owned :
            /\ CleanUp(lost, left)
            /\ ended' = [status |-> IF raised \/ lost \cup left # {} THEN "FAILED"
                                    ELSE IF stopped THEN "CONTROLLED_COLLISION_STOP"
                                    ELSE "DEVELOPMENT_RUN_ENDED",
                         result |-> Result(state'),
                         left   |-> left]
      BY <1>35 DEF EndScene
    <2>2. /\ ended'.left = left /\ ended'.result = Result(state')
          /\ lost \cup left # {} => ended'.status = "FAILED"
          /\ ended'.status = "DEVELOPMENT_RUN_ENDED" => ~stopped
      BY <2>1
    <2>3. /\ UNCHANGED <<first, shown, registry, placement, requested, stopped>>
          /\ state' = IF state = "SCHEDULED" THEN "NOT_OCCURRED" ELSE state
      BY <1>35 DEF EndScene
    <2>4. /\ pairOff' => pairChanged' /\ "pair" \in lost
          /\ listening' => "sensor" \in lost
          /\ owned' = left /\ pending' = {}
      BY <2>1 DEF CleanUp
    <2>5. NothingOutlivesTheScene'  BY <2>2, <2>3, <2>4
    <2>6. /\ \A e \in {first, shown} : e # Unexposed => registry = "ours"
          /\ first # Unexposed /\ ~first.valid => state' = "INVALID_EXPOSURE"
          /\ shown # Unexposed /\ ~shown.valid => ended'.status = "FAILED"
      BY <2>1, <2>3 DEF NumbersInv
    <2>7. CandidateIsSound'  BY <2>2, <2>3, <2>6 DEF Result
    <2> QED  BY <2>5, <2>7
  <1>36. CASE UNCHANGED movingVars  BY <1>36 DEF movingVars
  <1> QED
    BY <1>1, <1>2, <1>3, <1>4, <1>5, <1>6, <1>7, <1>8, <1>9, <1>10, <1>11, <1>12, <1>13, <1>14,
       <1>15, <1>16, <1>17, <1>18, <1>19, <1>20, <1>21, <1>22, <1>23, <1>24, <1>25, <1>26,
       <1>27, <1>28, <1>29, <1>30, <1>31, <1>32, <1>33, <1>34, <1>35, <1>36 DEF MovingNext



\* The scene begins with them all.
LEMMA SceneBegins == MovingInit => SceneInv
  <1> SUFFICES ASSUME MovingInit PROVE SceneInv  OBVIOUS
  <1> USE DEF MovingInit, Preparing, Early, Over, Unexposed, Unset
  <1>1. NumbersInv  BY DEF NumbersInv
  <1>2. PlanInv  BY DEF PlanInv
  <1>3. ExposureInv  BY DEF ExposureInv
  <1>4. LeadInv  BY DEF LeadInv
  <1>5. EndInv  BY DEF EndInv, CandidateIsSound, NothingOutlivesTheScene
  <1> QED  BY <1>1, <1>2, <1>3, <1>4, <1>5 DEF SceneInv

\* The lead has one driver in every step from a state of the invariant.
LEMMA LeadStep ==
    ASSUME SceneInv, SceneInv', [MovingNext]_movingVars
    PROVE  [/\ steered' # steered => ~handed /\ ~retired
            /\ retired' /\ mpc' # "ending" /\ mpc' # "closed" => handed']_movingVars
  <1>1. steered' # steered => Steer
    <2>1. CASE UNCHANGED movingVars  BY <2>1 DEF movingVars, leadVars
    <2> USE DEF timeVars, leadVars, Observing, InWindow, Lead
    <2>2. CASE Tick \/ WorldTick \/ Capture \/ StartObservation \/ Control \/ Leave
               \/ WindowCloses \/ NothingToDo
      BY <2>2 DEF Tick, WorldTick, Capture, StartObservation, Control, Leave, WindowCloses,
         NothingToDo
    <2>3. CASE Defer \/ Unsuitable \/ TooLate \/ Claim \/ SpawnLead \/ SpawnCargo
               \/ PlanExposure \/ PreparationFails
      BY <2>3 DEF Defer, Unsuitable, TooLate, Claim, SpawnLead, SpawnCargo, PlanExposure,
         PreparationFails
    <2>4. CASE NoGeometry \/ ActorLost \/ ConfirmPlacement \/ Placed \/ CargoMoved \/ Expose
               \/ NothingNew \/ Reveal
      BY <2>4 DEF NoGeometry, ActorLost, ConfirmPlacement, Placed, CargoMoved, Expose,
         NothingNew, Reveal
    <2>5. CASE RevealTooLate \/ NoReveal \/ SameFrame \/ HandOver \/ Stay \/ RetireScene
               \/ ShowNothing \/ EndScene
      BY <2>5 DEF RevealTooLate, NoReveal, SameFrame, HandOver, Stay, RetireScene, ShowNothing,
         EndScene
    <2>6. CASE (\E kind \in {"cargo", "other"} : Collide(kind)) \/ (\E f \in Frames : Show(f))
      BY <2>6 DEF Collide, Show
    <2> QED  BY <2>1, <2>2, <2>3, <2>4, <2>5, <2>6 DEF MovingNext
  <1>2. Steer => ~handed /\ ~retired  BY DEF Steer, SceneInv, LeadInv
  <1>3. retired' /\ mpc' # "ending" /\ mpc' # "closed" => handed'  BY DEF SceneInv, LeadInv, Over
  <1> QED  BY <1>1, <1>2, <1>3

\* SceneIsSound: an exposure that counts follows its command, its placement and its motion,
\* a candidate is sound, the lead has one driver and nothing outlives the scene unsaid; for
\* any number of frames, failures and collisions and whatever the callback lags behind.
THEOREM MovingSceneIsSound == MovingSpec => SceneIsSound
  <1>1. MovingInit => SceneInv  BY SceneBegins
  <1>2. SceneInv /\ [MovingNext]_movingVars => SceneInv'
    BY NumbersKeep, PlanKeep, ExposureKeep, LeadKeep, EndKeep DEF SceneInv
  <1>3. SceneInv => ExposureIsCommanded /\ CandidateIsSound /\ NothingOutlivesTheScene
    BY DEF SceneInv, NumbersInv, ExposureInv, EndInv, ExposureIsCommanded
  <1>4. SceneInv /\ SceneInv' /\ [MovingNext]_movingVars =>
          [/\ steered' # steered => ~handed /\ ~retired
           /\ retired' /\ mpc' # "ending" /\ mpc' # "closed" => handed']_movingVars
    BY LeadStep
  <1> QED  BY <1>1, <1>2, <1>3, <1>4, PTL DEF MovingSpec, SceneIsSound, LeadHasOneDriver
=============================================================================
