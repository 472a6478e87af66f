---------------------------- MODULE HostProofs ----------------------------
(* Theorems about the programs that host a session's parts: the operator's hazard *)
(* loop over the scenario, the drive with static hazards, and the two programs that *)
(* collect with P6. *)
EXTENDS OperatorHazardLoop, StaticHazardDrive, P6Collection, TLAPS

States == {"IDLE"} \cup Live \cup Terminal
Outcomes == {"NONE", "UNOBSERVABLE", "COLLISION", "ROAD_DEPARTURE", "AVOIDED"}

Scenarios ==
  [state : States, outcome : Outcomes, terminated : BOOLEAN, claimed : BOOLEAN,
   trigger : Nat, reveal : Nat, leadComplete : BOOLEAN, onset : [Pedals -> Nat],
   candidate : Nat, previous : Inputs, previousAt : Nat]

\* What the driver is said to have answered is an answer to the obstacle.
Answered(s, seen) ==
  \A p \in Pedals : s.onset[p] # Never =>
     s.reveal # Never /\ s.reveal < s.onset[p] /\ p \in seen

\* The reading the next one is compared with, if it is one of a driver who
\* has the obstacle before him, tells which pedals were seen at rest.
Baseline(s, seen) ==
  s.previous # NoInput /\ s.reveal # Never /\ s.reveal <= s.previousAt =>
     \A p \in Pedals : s.previous[p] = 0 => p \in seen

\* The steps of one observation before the driver's input is looked at.
Unread(s) ==
  /\ s \in Scenarios /\ s.state # "IDLE"
  /\ s.claimed = h.claimed /\ s.terminated = h.terminated
  /\ s.previous = h.previous /\ s.previousAt = h.previousAt /\ s.onset = h.onset
  /\ s.reveal = h.reveal \/ (h.reveal = Never /\ s.reveal = now')

\* And after it.
Read(s, o) ==
  /\ s \in Scenarios /\ s.state # "IDLE"
  /\ s.claimed = h.claimed /\ s.terminated = h.terminated
  /\ s.previous = NoInput \/ (s.previous = o.input /\ s.previousAt = now')
  /\ s.reveal = h.reveal \/ (h.reveal = Never /\ s.reveal = now')
  /\ s.previousAt <= now'
  /\ \A p \in Pedals : s.onset[p] # h.onset[p] =>
        /\ s.reveal = h.reveal /\ s.reveal # Never
        /\ s.reveal < s.onset[p] /\ p \in rested

\* A stage before the driver's input goes on, or ends the call for a reason.
Early(r) ==
  /\ Unread(r.s)
  /\ r.ends => r.err # "none" \/ r.s.state \in Terminal

\* Stored or not, a row leaves the state as it was; a call that goes on raised nothing.
LEMMA RowResults ==
  ASSUME NEW s, NEW r \in Row(s)
  PROVE  r.s = s /\ (~r.ends => r.err = "none")
  BY DEF Row, Ok, Fails

\* Observing changes what was read of the pedals, and an onset only after the reveal.
LEMMA ObserveFacts ==
  ASSUME NEW s, Unread(s), NEW in \in Inputs, now' \in Nat, h \in Scenarios,
         h.previousAt <= now', Baseline(h, rested)
  PROVE  LET n == ObserveInput(s, in) IN
         /\ n \in Scenarios
         /\ n = [s EXCEPT !.onset = n.onset, !.candidate = n.candidate,
                          !.previous = n.previous, !.previousAt = now']
         /\ n.previous = NoInput \/ n.previous = in
         /\ \A p \in Pedals : n.onset[p] # s.onset[p] =>
              /\ s.reveal # Never /\ s.reveal <= s.previousAt
              /\ s.reveal < now' /\ n.onset[p] = now' /\ p \in rested
<1> DEFINE n == ObserveInput(s, in)
<1>0. s \in Scenarios /\ NoInput \in Inputs  BY DEF Unread, Inputs
<1>1. ASSUME NEW i \in Inputs
      PROVE  LET m == Remembered(s, i) IN
             /\ m \in Scenarios
             /\ m = [s EXCEPT !.onset = m.onset, !.candidate = m.candidate,
                              !.previous = m.previous, !.previousAt = now']
             /\ m.previous = i /\ m.onset = s.onset
  BY <1>0, <1>1 DEF Remembered, Scenarios
<1>2. CASE in = NoInput \/ s.previous = NoInput \/ s.reveal = Never
  <2>1. n = Remembered(s, in)  BY <1>2 DEF ObserveInput
  <2> QED  BY <2>1, <1>1
<1>3. CASE ~(in = NoInput \/ s.previous = NoInput \/ s.reveal = Never)
  <2>1. CASE now' <= s.previousAt
    <3>1. n = Remembered(s, NoInput)  BY <1>3, <2>1 DEF ObserveInput
    <3> QED  BY <3>1, <1>1, <1>0
  <2>2. CASE ~(now' <= s.previousAt) /\ (s.previousAt < s.reveal \/ now' <= s.reveal)
    <3>1. n = Remembered(s, in)  BY <1>3, <2>2 DEF ObserveInput
    <3> QED  BY <3>1, <1>1
  <2>3. CASE ~(now' <= s.previousAt) /\ ~(s.previousAt < s.reveal \/ now' <= s.reveal)
    <3> DEFINE pressed == {p \in Pedals : s.onset[p] = Never
                                   /\ s.previous[p] = 0 /\ in[p] > 0}
               ons == [p \in Pedals |-> IF p \in pressed THEN now' ELSE s.onset[p]]
               strong == \E p \in Pedals : ons[p] # Never /\ in[p] = 2
               cand == IF s.candidate = Never /\ strong THEN now' ELSE s.candidate
    <3>1. n = [Remembered(s, in) EXCEPT !.onset = ons, !.candidate = cand]
      BY <1>3, <2>3 DEF ObserveInput, Pressed, Remembered
    <3>2. ons \in [Pedals -> Nat] /\ cand \in Nat  BY <1>0 DEF Scenarios
    <3>3. s.reveal = h.reveal /\ s.previous = h.previous /\ s.previousAt = h.previousAt
      BY <2>3, <1>0 DEF Unread, Scenarios
    <3>4. \A p \in pressed : p \in rested  BY <3>3, <1>3, <2>3, <1>0 DEF Baseline, Scenarios
    <3>5. \A p \in Pedals : ons[p] # s.onset[p] => p \in pressed /\ ons[p] = now'  OBVIOUS
    <3> HIDE DEF ons, cand, strong
    <3>6. /\ n \in Scenarios /\ n.onset = ons /\ n.previous = in
          /\ n = [s EXCEPT !.onset = n.onset, !.candidate = n.candidate,
                           !.previous = n.previous, !.previousAt = now']
      BY <3>1, <3>2, <1>0 DEF Remembered, Scenarios
    <3> QED  BY <3>4, <3>5, <3>6, <1>3, <2>3, <1>0 DEF Scenarios
  <2> QED  BY <2>1, <2>2, <2>3
<1> QED  BY <1>2, <1>3

\* A scenario that has read nothing is typed, and was armed.
LEMMA UnreadTypes ==
  ASSUME NEW s, Unread(s)
  PROVE  s \in Scenarios /\ s.state # "IDLE"
  BY DEF Unread

\* A row on its own is such a stage.
LEMMA RowEarly ==
  ASSUME NEW s, Unread(s), NEW r \in Row(s)
  PROVE  Early(r)
  BY DEF Row, Ok, Fails, Raised, Early

\* An abort writes how the scenario ends, and nothing else.
LEMMA AbortedShape ==
  ASSUME NEW s \in Scenarios, NEW outcome \in Outcomes
  PROVE  Aborted(s, outcome) = [s EXCEPT !.state = Aborted(s, outcome).state,
                                         !.outcome = Aborted(s, outcome).outcome]
<1>1. CASE s.state \in Terminal  BY <1>1 DEF Aborted, Scenarios
<1>2. CASE s.state \notin Terminal  BY <1>2 DEF Aborted, Scenarios
<1> QED  BY <1>1, <1>2

\* ... and an abort ends a scenario that has not ended, with the outcome it has, if any.
LEMMA AbortedFacts ==
  ASSUME NEW s \in Scenarios, NEW outcome \in Outcomes
  PROVE  /\ Aborted(s, outcome) \in Scenarios /\ Aborted(s, outcome).state \in Terminal
         /\ s.state \in Terminal => Aborted(s, outcome) = s
         /\ s.state \notin Terminal =>
              /\ Aborted(s, outcome).state = "ABORTED"
              /\ Aborted(s, outcome).outcome = IF outcome = "NONE" THEN s.outcome ELSE outcome
<1> DEFINE a == Aborted(s, outcome)
<1>1. CASE s.state \in Terminal  BY <1>1 DEF Aborted, Scenarios
<1>2. CASE s.state \notin Terminal
  <2> DEFINE out == IF outcome = "NONE" THEN s.outcome ELSE outcome
  <2>1. a = [s EXCEPT !.state = "ABORTED", !.outcome = out]  BY <1>2 DEF Aborted, Scenarios
  <2>2. out \in Outcomes  BY DEF Scenarios
  <2> HIDE DEF a, out
  <2>3. a \in Scenarios /\ a.state = "ABORTED" /\ a.outcome = out
    BY <2>1, <2>2 DEF Scenarios, States, Terminal
  <2>4. /\ a \in Scenarios /\ a.state \in Terminal
        /\ a.state = "ABORTED" /\ a.outcome = IF outcome = "NONE" THEN s.outcome ELSE outcome
    BY <2>3 DEF out, Terminal
  <2> QED  BY <1>2, <2>4 DEF a
<1> QED  BY <1>1, <1>2

\* Whatever becomes of its row, an abort ends the scenario in memory.
LEMMA AbortFacts ==
  ASSUME NEW s \in Scenarios, NEW outcome \in Outcomes, NEW r \in Abort(s, outcome)
  PROVE  r.s = Aborted(s, outcome) /\ r.ends /\ r.err \in {"none"} \cup Raised
<1>1. s.state \in Terminal => Aborted(s, outcome) = s  BY AbortedFacts
<1> QED  BY <1>1 DEF Abort, Ends, Fails

\* An abort touches nothing but how the scenario ends.
LEMMA AbortEarly ==
  ASSUME NEW s, Unread(s), NEW outcome \in Outcomes, NEW r \in Abort(s, outcome)
  PROVE  Early(r)
<1>1. s \in Scenarios /\ s.state # "IDLE"  BY UnreadTypes
<1>2. r.s = Aborted(s, outcome)  BY <1>1, AbortFacts
<1>3. /\ r.s \in Scenarios /\ r.s.state \in Terminal
      /\ r.s = [s EXCEPT !.state = r.s.state, !.outcome = r.s.outcome]
  <2> DEFINE a == Aborted(s, outcome)
  <2>1. /\ a \in Scenarios /\ a.state \in Terminal
        /\ a = [s EXCEPT !.state = a.state, !.outcome = a.outcome]
    <3>1. a \in Scenarios /\ a.state \in Terminal  BY <1>1, AbortedFacts
    <3> QED  BY <1>1, <3>1, AbortedShape
  <2> QED  BY <2>1, <1>2
<1>4. /\ r.s.claimed = s.claimed /\ r.s.terminated = s.terminated
      /\ r.s.previous = s.previous /\ r.s.previousAt = s.previousAt
      /\ r.s.onset = s.onset /\ r.s.reveal = s.reveal
  BY <1>1, <1>3 DEF Scenarios
<1> QED  BY <1>3, <1>4 DEF Early, Unread, Terminal

\* The trigger reads no pedal ...
LEMMA TriggerEarly ==
  ASSUME NEW s, Unread(s), NEW o, now' \in Nat, NEW r \in Trigger(s, o)
  PROVE  Early(r)
<1> DEFINE fired == [s EXCEPT !.state = "TRIGGERED", !.trigger = now']
<1>1. s \in Scenarios /\ "UNOBSERVABLE" \in Outcomes  BY UnreadTypes DEF Outcomes
<1>2. Unread(fired)  BY <1>1 DEF Unread, Scenarios, States, Live
<1> HIDE DEF fired
<1>3. fired \in Scenarios  BY <1>2 DEF Unread
<1>4. Unread([fired EXCEPT !.state = "LEAD_MOVING_ASIDE"])
  BY <1>2, <1>3 DEF Unread, Scenarios, States, Live
<1>5. ASSUME NEW q \in Fire(s) PROVE Early(q)
  <2>1. \/ q \in Row(fired)
        \/ \E x \in Row(fired) : ~x.ends /\
              \/ q \in Abort(x.s, "UNOBSERVABLE")
              \/ q \in Row([x.s EXCEPT !.state = "LEAD_MOVING_ASIDE"])
    BY <1>5 DEF Fire, Then, fired
  <2>2. \A x \in Row(fired) : x.s = fired  BY RowResults
  <2> QED  BY <2>1, <2>2, <1>1, <1>2, <1>4, RowEarly, AbortEarly
<1>6. Early(Ok(s))  BY DEF Early, Ok
<1> QED  BY <1>1, <1>5, <1>6, AbortEarly DEF Trigger

\* ... nor does the reveal, whose time is that of this observation ...
LEMMA RevealEarly ==
  ASSUME NEW s, Unread(s), NEW o, now' \in Nat, NEW r \in Reveal(s, o)
  PROVE  Early(r)
<1> DEFINE revealed == [s EXCEPT !.reveal = now', !.state = "HAZARD_REVEALED"]
<1>1. s \in Scenarios  BY UnreadTypes
<1>2. s.reveal = Never => Unread(revealed)  BY <1>1 DEF Unread, Scenarios, States, Live
<1>3. Early(Ok(s))  BY DEF Early, Ok
<1> QED  BY <1>2, <1>3, RowEarly DEF Reveal

\* ... nor the end of the lead.
LEMMA LeadDoneEarly ==
  ASSUME NEW s, Unread(s), NEW o, NEW r \in LeadDone(s, o)
  PROVE  Early(r)
<1>1. s \in Scenarios  BY UnreadTypes
<1>2. Unread([s EXCEPT !.leadComplete = TRUE])  BY <1>1 DEF Unread, Scenarios
<1>3. Early(Ok(s))  BY DEF Early, Ok
<1> QED  BY <1>2, <1>3, RowEarly DEF LeadDone

\* A response is read from the pedals of this update and of the one before it.
LEMMA RespondRead ==
  ASSUME NEW s, Unread(s), NEW o \in Observations, now' \in Nat, h \in Scenarios,
         h.previousAt <= now', Baseline(h, rested), NEW r \in Respond(s, o.input)
  PROVE  Read(r.s, o)
<1> DEFINE seen == ObserveInput(s, o.input)
           after == [seen EXCEPT !.state = "RESPONDED"]
<1>1. s \in Scenarios /\ o.input \in Inputs  BY UnreadTypes DEF Observations
<1>2. /\ seen \in Scenarios
      /\ seen = [s EXCEPT !.onset = seen.onset, !.candidate = seen.candidate,
                          !.previous = seen.previous, !.previousAt = now']
      /\ seen.previous = NoInput \/ seen.previous = o.input
      /\ \A p \in Pedals : seen.onset[p] # s.onset[p] =>
           /\ s.reveal # Never /\ s.reveal <= s.previousAt
           /\ s.reveal < now' /\ seen.onset[p] = now' /\ p \in rested
  BY <1>1, ObserveFacts
<1> HIDE DEF seen
<1>3. /\ seen.claimed = s.claimed /\ seen.terminated = s.terminated
      /\ seen.reveal = s.reveal /\ seen.previousAt = now' /\ seen.state = s.state
  BY <1>1, <1>2 DEF Scenarios
<1>4. s.onset = h.onset /\ (s.reveal # Never /\ s.reveal <= s.previousAt =>
                              s.reveal = h.reveal \/ s.reveal = now')
  BY DEF Unread
<1>5. ASSUME NEW p \in Pedals, seen.onset[p] # h.onset[p]
      PROVE  seen.reveal = h.reveal
  BY <1>1, <1>5, <1>2, <1>3, <1>4 DEF Scenarios
<1>6. Read(seen, o)  BY <1>2, <1>3, <1>4, <1>5 DEF Read, Unread
<1>7. Read(after, o)  BY <1>2, <1>6 DEF Read, Scenarios, States, Live
<1> HIDE DEF after
<1>8. r \in Row(after) \cup Row(seen) \cup Fails(seen) \cup {Ok(after), Ok(seen)}
  BY DEF Respond, seen, after
<1> QED  BY <1>6, <1>7, <1>8 DEF Row, Ok, Fails

\* An outcome is that of what the update observed.
LEMMA OutcomeRead ==
  ASSUME NEW s, NEW o, Read(s, o), NEW r \in Outcome(s)
  PROVE  /\ Read(r.s, o)
         /\ r.err = "none" => r.s.state \in Terminal \/ r.s = s
<1>1. s \in Scenarios  BY DEF Read
<1>2. ASSUME NEW out \in Outcomes, NEW q \in Complete(s, out)
      PROVE  Read(q.s, o) /\ q.s.state \in Terminal
  <2> DEFINE done == [s EXCEPT !.state = "COMPLETED", !.outcome = out]
  <2>1. Read(done, o) /\ done.state \in Terminal  BY <1>1 DEF Read, Scenarios, States, Terminal
  <2>2. q.s = done  BY <1>2 DEF Complete, Ends, Fails
  <2> QED  BY <2>1, <2>2
<1>3. ASSUME NEW q \in Abort(s, "UNOBSERVABLE")
      PROVE  Read(q.s, o) /\ q.s.state \in Terminal
  <2> DEFINE a == Aborted(s, "UNOBSERVABLE")
  <2>1. /\ a \in Scenarios /\ a.state \in Terminal
        /\ a = [s EXCEPT !.state = a.state, !.outcome = a.outcome]
    <3>1. a \in Scenarios /\ a.state \in Terminal  BY <1>1, AbortedFacts DEF Outcomes
    <3> QED  BY <1>1, <3>1, AbortedShape DEF Outcomes
  <2>2. q.s = a  BY <1>1, <1>3, AbortFacts DEF Outcomes
  <2> HIDE DEF a
  <2>3. Read(a, o)
    <3>1. /\ a.claimed = s.claimed /\ a.terminated = s.terminated
          /\ a.previous = s.previous /\ a.previousAt = s.previousAt
          /\ a.onset = s.onset /\ a.reveal = s.reveal
      BY <1>1, <2>1 DEF Scenarios
    <3> QED  BY <2>1, <3>1 DEF Read, Terminal
  <2> QED  BY <2>1, <2>2, <2>3
<1>4. "AVOIDED" \in Outcomes /\ s.outcome \in Outcomes  BY <1>1 DEF Outcomes, Scenarios
<1>5. \/ r = Ends(s)
      \/ r \in Complete(s, "AVOIDED")
      \/ r \in Complete(s, s.outcome)
      \/ r \in Abort(s, "UNOBSERVABLE")
  BY DEF Outcome
<1> QED  BY <1>2, <1>3, <1>4, <1>5 DEF Ends

\* An observation that meets nothing.
LEMMA UpdatedClear ==
  ASSUME NEW o \in Observations, o.contact = "none", h.state \in Live, now' \in Nat,
         h \in Scenarios, h.previousAt <= now', Baseline(h, rested), NEW r \in Updated(o)
  PROVE  \/ Read(r.s, o)
         \/ Unread(r.s) /\ (r.err # "none" \/ r.s.state \in Terminal)
<1> DEFINE triggered == Trigger(h, o)
           revealed  == Then(triggered, LAMBDA s : Reveal(s, o))
           moved     == Then(revealed, LAMBDA s : LeadDone(s, o))
           answered  == Then(moved, LAMBDA s : Respond(s, o.input))
           sampled   == Then(answered, Row)
           Done(q)   == q.ends /\ Early(q)
<1>0. Unread(h)  BY DEF Unread, Live
<1>1. CASE Unsound(h, o)
  <2>1. r \in Abort(h, "UNOBSERVABLE")  BY <1>1 DEF Updated
  <2> QED  BY <2>1, <1>0, AbortEarly, AbortFacts DEF Outcomes, Early
<1>2. CASE ~Unsound(h, o)
  <2>1. r \in Then(sampled, Outcome)  BY <1>2 DEF Updated
  <2>2. \A q \in triggered : Early(q)  BY <1>0, TriggerEarly
  <2> HIDE DEF triggered
  <2>3. ASSUME NEW q \in revealed PROVE Early(q)
    <3>1. q \in triggered \/ \E x \in triggered : q \in Reveal(x.s, o)  BY DEF Then
    <3> QED  BY <3>1, <2>2, RevealEarly DEF Early
  <2> HIDE DEF revealed
  <2>4. ASSUME NEW q \in moved PROVE Early(q)
    <3>1. q \in revealed \/ \E x \in revealed : q \in LeadDone(x.s, o)  BY DEF Then
    <3> QED  BY <3>1, <2>3, LeadDoneEarly DEF Early
  <2> HIDE DEF moved
  <2>5. ASSUME NEW q \in answered PROVE Done(q) \/ Read(q.s, o)
    <3>1. (q \in moved /\ q.ends) \/ \E x \in moved : q \in Respond(x.s, o.input)  BY DEF Then
    <3> QED  BY <3>1, <2>4, RespondRead DEF Early
  <2> HIDE DEF answered
  <2>6. ASSUME NEW q \in sampled PROVE Done(q) \/ Read(q.s, o)
    <3>1. (q \in answered /\ q.ends) \/ \E x \in answered : ~x.ends /\ q \in Row(x.s)  BY DEF Then
    <3> QED  BY <3>1, <2>5, RowResults
  <2> HIDE DEF sampled
  <2>7. (r \in sampled /\ r.ends) \/ \E x \in sampled : ~x.ends /\ r \in Outcome(x.s)
    BY <2>1 DEF Then
  <2> QED  BY <2>6, <2>7, OutcomeRead DEF Early
<1> QED  BY <1>1, <1>2

\* A contact asks for the end and names it before anything is written, and the
\* scene it ended is aborted unless a row could not be written.
LEMMA UpdatedContact ==
  ASSUME NEW o \in Observations, o.contact # "none", h.state \in Live,
         h \in Scenarios, NEW r \in Updated(o)
  PROVE  /\ r.s \in Scenarios /\ r.s.terminated /\ r.s.state \in Live \cup {"ABORTED"}
         /\ r.err = "none" => r.s.state = "ABORTED"
         /\ o.contact = "collision" => r.s.outcome = "COLLISION"
         /\ o.contact = "departure" => r.s.outcome = "ROAD_DEPARTURE"
         /\ r.s.claimed = h.claimed /\ r.s.reveal = h.reveal /\ r.s.onset = h.onset
         /\ r.s.previousAt = h.previousAt
<1> DEFINE out == CASE o.contact = "collision" -> "COLLISION"
                    [] o.contact = "departure" -> "ROAD_DEPARTURE"
                    [] OTHER -> h.outcome
           contacted == [h EXCEPT !.terminated = TRUE, !.outcome = out]
           a == Aborted(contacted, "NONE")
<1>1. h.outcome \in Outcomes /\ "NONE" \in Outcomes  BY DEF Scenarios, Outcomes
<1>2. /\ out \in Outcomes
      /\ o.contact = "collision" => out = "COLLISION"
      /\ o.contact = "departure" => out = "ROAD_DEPARTURE"
  BY <1>1 DEF Outcomes, Observations, Contacts
<1>3. contacted = [h EXCEPT !.terminated = TRUE,
                             !.outcome = CASE o.contact = "collision" -> "COLLISION"
                                           [] o.contact = "departure" -> "ROAD_DEPARTURE"
                                           [] OTHER -> @]
  BY DEF Scenarios
<1>4. r \in Then(Row(contacted), LAMBDA x : Abort(x, "NONE"))  BY <1>3 DEF Updated, Terminate
<1> HIDE DEF out
<1>5. /\ contacted \in Scenarios /\ contacted.terminated /\ contacted.outcome = out
      /\ contacted.state = h.state
      /\ contacted.claimed = h.claimed /\ contacted.reveal = h.reveal
      /\ contacted.onset = h.onset /\ contacted.previousAt = h.previousAt
  BY <1>2 DEF Scenarios
<1> HIDE DEF contacted
<1>6. (r \in Row(contacted) /\ r.ends) \/ \E x \in Row(contacted) : r \in Abort(x.s, "NONE")
  BY <1>4 DEF Then
<1>7. (r \in Row(contacted) /\ r.ends) \/ r \in Abort(contacted, "NONE")  BY <1>6, RowResults
<1>8. CASE r \in Row(contacted) /\ r.ends  BY <1>2, <1>5, <1>8 DEF Row, Ok, Fails, Raised
<1>9. CASE r \in Abort(contacted, "NONE")
  <2>1. r.s = a  BY <1>1, <1>5, <1>9, AbortFacts
  <2>2. /\ a \in Scenarios /\ a.state = "ABORTED" /\ a.outcome = out
        /\ a = [contacted EXCEPT !.state = a.state, !.outcome = a.outcome]
    <3>1. a \in Scenarios /\ a.state = "ABORTED" /\ a.outcome = out
      BY <1>1, <1>5, AbortedFacts DEF Live, Terminal
    <3> QED  BY <1>1, <1>5, <3>1, AbortedShape
  <2> HIDE DEF a
  <2>3. /\ a.terminated = contacted.terminated /\ a.claimed = contacted.claimed
        /\ a.reveal = contacted.reveal /\ a.onset = contacted.onset
        /\ a.previousAt = contacted.previousAt
    BY <1>5, <2>2 DEF Scenarios
  <2> QED  BY <2>1, <2>2, <2>3, <1>2, <1>5
<1> QED  BY <1>7, <1>8, <1>9

(***************************************************************************)
(* What every call of a scenario keeps, whoever makes it.                  *)
(***************************************************************************)
ScenarioInv ==
  /\ h \in Scenarios /\ now \in Nat
  /\ h.previousAt <= now /\ h.reveal <= now
  /\ Answered(h, rested)
  /\ h.claimed => disk = "ours"
  /\ h.state = "IDLE" => h.reveal = Never /\ ~h.terminated
  /\ h.terminated => h.state # "COMPLETED"
  /\ struck # "none" => h.terminated
  /\ struck = "collision" => h.outcome = "COLLISION"
  /\ struck = "departure" => h.outcome = "ROAD_DEPARTURE"

\* A scenario that was never armed is honest.
LEMMA ScenarioInvInit == ScenarioInit => ScenarioInv
<1> SUFFICES ASSUME ScenarioInit PROVE ScenarioInv  OBVIOUS
<1>1. h = Fresh /\ NoInput \in Inputs  BY DEF ScenarioInit, Inputs
<1>2. h \in Scenarios  BY <1>1 DEF Fresh, Scenarios, States, Outcomes, Never
<1>3. Answered(h, rested)  BY <1>1 DEF Answered, Fresh
<1> QED  BY <1>1, <1>2, <1>3 DEF ScenarioInv, ScenarioInit, Fresh, Never

\* An update of a scenario that is not armed changes nothing.
LEMMA UpdatedIdle ==
  ASSUME h.state \notin Live, NEW o, NEW r \in Updated(o)
  PROVE  r.s = h /\ r.err = "none"
  BY DEF Updated, Ends

\* An update of a scene that nobody has asked to end.
LEMMA UpdateKeeps ==
  ASSUME ScenarioInv, ~h.terminated, Baseline(h, rested),
         NEW o \in Observations, Update(o)
  PROVE  /\ ScenarioInv'
         /\ err' = "none" => h'.state \in Terminal \/ Baseline(h, rested)'
         /\ err' = "none" /\ h'.terminated => h'.state = "ABORTED"
<1> USE DEF ScenarioInv
<1>1. PICK r \in Updated(o) : h' = r.s /\ err' = r.err  BY DEF Update, Call
<1>2. /\ now' \in Nat /\ now <= now'
      /\ rested' = rested \cup Rest(o) /\ UNCHANGED disk
      /\ struck' = IF h.state \in Live /\ struck = "none" THEN o.contact ELSE struck
  BY DEF Update, Later
<1>3. struck = "none" /\ h.previousAt <= now' /\ h.previousAt \in Nat /\ h.reveal \in Nat
  BY <1>2 DEF Scenarios
<1>5. CASE h.state \notin Live
  <2>1. h' = h /\ err' = "none" /\ struck' = "none"  BY <1>1, <1>2, <1>3, <1>5, UpdatedIdle
  <2>2. Answered(h, rested)' /\ Baseline(h, rested)'  BY <2>1, <1>2 DEF Answered, Baseline
  <2> QED  BY <2>1, <2>2, <1>2, <1>3
<1>6. CASE h.state \in Live /\ o.contact # "none"
  <2>1. /\ h' \in Scenarios /\ h'.terminated /\ h'.state \in Live \cup {"ABORTED"}
        /\ err' = "none" => h'.state = "ABORTED"
        /\ o.contact = "collision" => h'.outcome = "COLLISION"
        /\ o.contact = "departure" => h'.outcome = "ROAD_DEPARTURE"
        /\ h'.claimed = h.claimed /\ h'.reveal = h.reveal /\ h'.onset = h.onset
        /\ h'.previousAt = h.previousAt
    BY <1>1, <1>6, UpdatedContact
  <2>2. Answered(h, rested)'  BY <2>1, <1>2 DEF Answered
  <2>3. struck' = o.contact  BY <1>2, <1>3, <1>6
  <2> QED  BY <2>1, <2>2, <2>3, <1>2, <1>3, <1>6 DEF Live, Terminal
<1>7. CASE h.state \in Live /\ o.contact = "none"
  <2>1. \/ Read(h', o)
        \/ Unread(h') /\ (err' # "none" \/ h'.state \in Terminal)
    BY <1>1, <1>2, <1>3, <1>7, UpdatedClear
  <2>2. struck' = "none"  BY <1>2, <1>3, <1>7
  <2>3. /\ h' \in Scenarios /\ h'.state # "IDLE" /\ h'.claimed = h.claimed
        /\ h'.terminated = h.terminated /\ h'.previousAt <= now'
        /\ h'.reveal = h.reveal \/ (h.reveal = Never /\ h'.reveal = now')
    BY <2>1, <1>2, <1>3 DEF Read, Unread
  <2>4. \A p \in Pedals : h'.onset[p] # Never =>
           h'.reveal # Never /\ h'.reveal < h'.onset[p] /\ p \in rested
    BY <2>1, <2>3 DEF Read, Unread, Answered
  <2>5. Answered(h, rested)'  BY <2>4, <1>2 DEF Answered
  <2>6. ASSUME err' = "none", h'.state \notin Terminal PROVE Baseline(h, rested)'
    <3>1. h'.previous = NoInput \/ (h'.previous = o.input /\ h'.previousAt = now')
      BY <2>1, <2>6 DEF Read
    <3>2. h'.reveal # Never /\ h'.previous # NoInput =>
             \A p \in Pedals : h'.previous[p] = 0 => p \in Rest(o)
      BY <3>1 DEF Rest
    <3> QED  BY <3>2, <1>2 DEF Baseline
  <2> QED  BY <2>2, <2>3, <2>5, <2>6, <1>2, <1>3
<1> QED  BY <1>5, <1>6, <1>7

\* An abort from outside, which names the end the scene already has, if any.
LEMMA AbortKeeps ==
  ASSUME ScenarioInv, NEW outcome \in Outcomes, AbortWith(outcome),
         h.terminated /\ h.state \notin Terminal /\ struck \in {"collision", "departure"}
           => outcome = h.outcome
  PROVE  /\ ScenarioInv'
         /\ h'.state \in Terminal /\ h'.terminated = h.terminated
         /\ h.terminated /\ h.state \notin Terminal => h'.state = "ABORTED"
<1> DEFINE a == Aborted(h, outcome)
<1>0. h \in Scenarios  BY DEF ScenarioInv
<1>1. PICK r \in Abort(h, outcome) : h' = r.s /\ err' = r.err  BY DEF AbortWith, Call
<1>2. h' = a  BY <1>0, <1>1, AbortFacts
<1>3. /\ a \in Scenarios /\ a.state \in Terminal
      /\ a = [h EXCEPT !.state = a.state, !.outcome = a.outcome]
      /\ h.state \in Terminal => a = h
      /\ h.state \notin Terminal =>
           a.state = "ABORTED" /\ a.outcome = IF outcome = "NONE" THEN h.outcome ELSE outcome
  <2>1. /\ a \in Scenarios /\ a.state \in Terminal
        /\ h.state \in Terminal => a = h
        /\ h.state \notin Terminal =>
             a.state = "ABORTED" /\ a.outcome = IF outcome = "NONE" THEN h.outcome ELSE outcome
    BY <1>0, AbortedFacts
  <2>2. a = [h EXCEPT !.state = a.state, !.outcome = a.outcome]  BY <1>0, AbortedShape
  <2> QED  BY <2>1, <2>2
<1> HIDE DEF a
<1> USE DEF ScenarioInv
<1>4. /\ a.claimed = h.claimed /\ a.terminated = h.terminated
      /\ a.previousAt = h.previousAt /\ a.onset = h.onset /\ a.reveal = h.reveal
  BY <1>3 DEF Scenarios
<1>5. UNCHANGED <<disk, now, rested, struck>>  BY DEF AbortWith
<1>6. Answered(h, rested)'  BY <1>2, <1>4, <1>5 DEF Answered
<1> QED  BY <1>2, <1>3, <1>4, <1>5, <1>6 DEF Terminal

\* A scenario that was never shown an obstacle stays as honest as it is,
\* whatever becomes of its arming.
LEMMA UnarmedKeeps ==
  ASSUME ScenarioInv, h.reveal = Never, ~h.terminated,
         h' \in Scenarios, now' \in Nat, now <= now', UNCHANGED <<rested, struck>>,
         h'.reveal = h.reveal, h'.onset = h.onset, h'.terminated = h.terminated,
         h'.previousAt <= now',
         h'.claimed => disk' = "ours"
  PROVE  ScenarioInv' /\ Baseline(h, rested)' /\ ~h'.terminated
<1>1. Answered(h, rested)'  BY DEF ScenarioInv, Answered
<1>2. Baseline(h, rested)'  BY DEF Baseline
<1> QED  BY <1>1, <1>2 DEF ScenarioInv, Never

\* What is raised again after an abort is of the same scene.
LEMMA RethrownFacts ==
  ASSUME NEW q, q.s \in Scenarios, NEW r \in Rethrown(q)
  PROVE  /\ r.s \in Scenarios
         /\ r.s.reveal = q.s.reveal /\ r.s.onset = q.s.onset
         /\ r.s.terminated = q.s.terminated /\ r.s.claimed = q.s.claimed
         /\ r.s.previousAt = q.s.previousAt
<1>1. r = q \/ \E a \in Abort(q.s, "UNOBSERVABLE") : r.s = a.s  BY DEF Rethrown, Raises
<1>2. r.s = q.s \/ r.s = Aborted(q.s, "UNOBSERVABLE")  BY <1>1, AbortFacts DEF Outcomes
<1> DEFINE a == Aborted(q.s, "UNOBSERVABLE")
<1>3. a \in Scenarios /\ a = [q.s EXCEPT !.state = a.state, !.outcome = a.outcome]
  <2>1. a \in Scenarios  BY AbortedFacts DEF Outcomes
  <2> QED  BY <2>1, AbortedShape DEF Outcomes
<1> HIDE DEF a
<1>4. /\ a.reveal = q.s.reveal /\ a.onset = q.s.onset /\ a.terminated = q.s.terminated
      /\ a.claimed = q.s.claimed /\ a.previousAt = q.s.previousAt
  BY <1>3 DEF Scenarios
<1> QED  BY <1>2, <1>3, <1>4 DEF a

\* Arming begins before anything is shown.
LEMMA BeginArmKeeps ==
  ASSUME ScenarioInv, NEW o, BeginArm(o)
  PROVE  ScenarioInv' /\ Baseline(h, rested)' /\ ~h'.terminated /\ h'.reveal = Never
         /\ (err' = "none" => h'.state = "IDLE")
<1> USE DEF ScenarioInv
<1>1. PICK c \in IF Armable(o) THEN Claim(h) ELSE {[d |-> disk, r |-> Raises(h, "runtime")]} :
         disk' = c.d /\ \E r \in Rethrown(c.r) : h' = r.s /\ err' = r.err
  BY DEF BeginArm, Call
<1>2. PICK r \in Rethrown(c.r) : h' = r.s /\ err' = r.err  BY <1>1
<1>3. /\ h.state = "IDLE" /\ now' \in Nat /\ now <= now' /\ UNCHANGED <<rested, struck>>
  BY DEF BeginArm, Later
<1> DEFINE claimed == [h EXCEPT !.claimed = TRUE]
<1>4. /\ claimed \in Scenarios /\ claimed.reveal = h.reveal /\ claimed.onset = h.onset
      /\ claimed.terminated = h.terminated /\ claimed.previousAt = h.previousAt
      /\ claimed.state = h.state /\ h.previousAt \in Nat
  BY DEF Scenarios
<1> HIDE DEF claimed
<1>5. c \in {[d |-> disk, r |-> Raises(h, "runtime")], [d |-> "ours", r |-> Ok(claimed)],
             [d |-> "ours", r |-> Raises(h, "other")]}
  BY DEF Claim, claimed
<1>6. /\ c.r.s \in {h, claimed} /\ (c.r.s = claimed => c.d = "ours" \/ claimed = h)
      /\ c.d \in {disk, "ours"}
      /\ (c.r.err = "none" => c.r.s = claimed) /\ c.r.err \in {"none", "runtime", "other"}
  BY <1>5 DEF Ok, Raises
<1>7. /\ h' \in Scenarios /\ h'.reveal = h.reveal /\ h'.onset = h.onset
      /\ h'.terminated = h.terminated /\ h'.previousAt = h.previousAt
      /\ h'.claimed = c.r.s.claimed
  BY <1>2, <1>4, <1>6, RethrownFacts
<1>8. h'.claimed => disk' = "ours"  BY <1>1, <1>6, <1>7
<1>9. h'.previousAt <= now'  BY <1>3, <1>4, <1>7
<1>10. err' = "none" => h'.state = "IDLE"
  <2>1. c.r.err # "runtime" => r = c.r  BY DEF Rethrown
  <2>2. c.r.err = "runtime" => r.err # "none"  BY DEF Rethrown, Raises
  <2> QED  BY <2>1, <2>2, <1>2, <1>3, <1>4, <1>6
<1> QED  BY <1>3, <1>7, <1>8, <1>9, <1>10, UnarmedKeeps

\* So does the preparation of the backend.
LEMMA PrepareKeeps ==
  ASSUME ScenarioInv, h.reveal = Never, ~h.terminated, NEW e, PrepareFails(e)
  PROVE  ScenarioInv' /\ Baseline(h, rested)' /\ ~h'.terminated /\ h'.reveal = Never
<1> USE DEF ScenarioInv
<1>1. PICK r \in Rethrown(Raises(h, e)) : h' = r.s  BY DEF PrepareFails, Call
<1>2. UNCHANGED <<disk, now, rested, struck>>  BY DEF PrepareFails
<1>3. /\ h' \in Scenarios /\ h'.reveal = h.reveal /\ h'.onset = h.onset
      /\ h'.terminated = h.terminated /\ h'.previousAt = h.previousAt
      /\ h'.claimed = h.claimed
  BY <1>1, RethrownFacts DEF Raises
<1> QED  BY <1>2, <1>3, UnarmedKeeps

\* The end of arming either keeps the scenario armed or aborts it.
LEMMA EndArmKeeps ==
  ASSUME ScenarioInv, h.reveal = Never, ~h.terminated, NEW o \in Observations, EndArm(o)
  PROVE  ScenarioInv' /\ Baseline(h, rested)' /\ ~h'.terminated
<1> USE DEF ScenarioInv
<1>1. PICK a \in Armed(h, o) : \E r \in Rethrown(a) : h' = r.s  BY DEF EndArm, Call
<1>2. UNCHANGED <<disk, now, rested, struck>> /\ o.input \in Inputs  BY DEF EndArm, Observations
<1> DEFINE armed == [h EXCEPT !.state = "ARMED"]
           known == Remembered(armed, o.input)
<1>3. /\ armed \in Scenarios /\ armed.reveal = Never /\ armed.onset = h.onset
      /\ armed.terminated = h.terminated /\ armed.previousAt = h.previousAt
      /\ armed.claimed = h.claimed
  BY DEF Scenarios, States, Live
<1> HIDE DEF armed
<1>4. /\ known \in Scenarios /\ known.reveal = Never /\ known.onset = h.onset
      /\ known.terminated = h.terminated /\ known.previousAt = now
      /\ known.claimed = h.claimed
  BY <1>2, <1>3 DEF Remembered, Scenarios
<1>5. ObserveInput(armed, o.input) = known  BY <1>3 DEF ObserveInput
<1> HIDE DEF known
<1>6. (a \in Row(armed) /\ a.ends) \/ \E x \in Row(armed) : a = Ok(ObserveInput(x.s, o.input))
  BY DEF Armed, Then, armed
<1>7. a.s \in {armed, known}  BY <1>5, <1>6, RowResults DEF Ok
<1>8. /\ h' \in Scenarios /\ h'.reveal = h.reveal /\ h'.onset = h.onset
      /\ h'.terminated = h.terminated /\ h'.previousAt \in {now, h.previousAt}
      /\ h'.claimed = h.claimed
  BY <1>1, <1>3, <1>4, <1>7, RethrownFacts
<1> QED  BY <1>2, <1>8, UnarmedKeeps

(* The operator's loop. *)
OperatorLoopSpec ==
  ScenarioInit /\ OperatorInit /\ [][OperatorNext]_<<scenarioVars, operatorVars>>

\* The owner is asked once, and by the time the loop goes on.
RescueInv ==
  /\ rescue \in {"NOT_REQUESTED", "FAILED", "RETURNED"}
  /\ requests = (IF rescue = "NOT_REQUESTED" THEN 0 ELSE 1)
  /\ h.terminated /\ opc \notin {"new", "called"} => rescue # "NOT_REQUESTED"

\* A scene that the loop goes on with has met nothing, and the reading it
\* compares the next one with was counted.
LoopInv ==
  /\ opc = "new" => h.state = "IDLE"
  /\ opc \in {"frame", "actors"} \/ (opc = "display" /\ active) =>
        ~h.terminated /\ Baseline(h, rested)
  /\ opc = "actors" => h.reveal = Never
  /\ opc = "called" /\ err = "none" =>
        /\ h.terminated => h.state = "ABORTED"
        /\ h.state \in Terminal \/ Baseline(h, rested)

\* One record is left, of what is so when it is written and afterwards.
RecordInv ==
  /\ recorded = (IF opc = "closed" THEN 1 ELSE 0)
  /\ opc \in {"finishing", "closed"} => backend # "held"
  /\ opc = "closed" =>
        /\ record.status = "EXECUTED" => h.state = "COMPLETED" /\ backend # "stuck"
        /\ stageEnd = "NORMAL_COMPLETION" => record.status = "EXECUTED"
        /\ record.rescue = rescue /\ record.left = (backend = "stuck")
        /\ record.outcome = h.outcome /\ record.reserved = h.claimed

OperatorInv == ScenarioInv /\ RescueInv /\ LoopInv /\ RecordInv

\* Before the loop begins nothing was met and nothing recorded.
LEMMA OperatorInvInit == ScenarioInit /\ OperatorInit => OperatorInv
<1> SUFFICES ASSUME ScenarioInit, OperatorInit PROVE OperatorInv  OBVIOUS
<1>1. ScenarioInv  BY ScenarioInvInit
<1>2. opc = "new" /\ h = Fresh /\ rescue = "NOT_REQUESTED" /\ requests = 0 /\ recorded = 0
  BY DEF ScenarioInit, OperatorInit
<1> QED  BY <1>1, <1>2 DEF OperatorInv, RescueInv, LoopInv, RecordInv, Fresh

\* The steps that leave the scene alone.
LEMMA QuietKeeps ==
  ASSUME ScenarioInv,
         UNCHANGED <<h, disk, now, err, rested, struck>>
  PROVE  ScenarioInv' /\ (Baseline(h, rested)' <=> Baseline(h, rested))
  BY DEF ScenarioInv, Answered, Baseline

\* The loop before the end of the drive.
LEMMA LoopKeeps ==
  ASSUME OperatorInv,
         \/ SegmentFails \/ Acquire \/ AcquireFails \/ ObservationFails
         \/ StreamEnds \/ OperatorArm \/ OperatorActors \/ OperatorUpdate
         \/ Return \/ RequestSafeShutdown
         \/ DisplayFails \/ SeenTooEarly \/ Displayed \/ OperatorExit
  PROVE  OperatorInv'
<1> USE DEF OperatorInv
<1>1. /\ opc \notin {"finishing", "closed"} /\ opc' # "closed"
      /\ UNCHANGED recorded
      /\ opc' = "finishing" => backend' # "held"
  BY DEF SegmentFails, Acquire, AcquireFails, ObservationFails, StreamEnds, OperatorArm,
         OperatorActors, OperatorUpdate, Return, RequestSafeShutdown, DisplayFails,
         SeenTooEarly, Displayed, OperatorExit, Escape, endVars, operatorVars
<1>2. RecordInv'  BY <1>1 DEF RecordInv
<1>3. CASE SegmentFails \/ Acquire \/ AcquireFails
  <2>1. /\ UNCHANGED <<h, disk, now, err, rested, struck, rescue, requests>>
        /\ opc = "new" /\ opc' \in {"ending", "frame", "finishing"}
    BY <1>3 DEF SegmentFails, Acquire, AcquireFails, Escape, Quiet, scenarioVars, safetyVars
  <2>2. ~h.terminated /\ h.reveal = Never /\ Baseline(h, rested)
    BY <2>1 DEF LoopInv, ScenarioInv, Baseline
  <2> QED  BY <1>2, <2>1, <2>2, QuietKeeps DEF RescueInv, LoopInv
<1>4. CASE ObservationFails \/ DisplayFails \/ OperatorExit
  <2>1. /\ UNCHANGED <<h, disk, now, err, rested, struck, rescue, requests>>
        /\ opc \in {"frame", "display"} /\ opc' = "ending"
    BY <1>4 DEF ObservationFails, DisplayFails, OperatorExit, Escape, Quiet, scenarioVars,
                safetyVars
  <2> QED  BY <1>2, <2>1, QuietKeeps DEF RescueInv, LoopInv
<1>5. CASE StreamEnds
  <2>1. /\ opc = "frame" /\ opc' \in {"ending", "display"} /\ ~active'
        /\ UNCHANGED <<rescue, requests>>
        /\ AbortWith("UNOBSERVABLE") \/ UNCHANGED <<h, disk, now, rested, struck>>
    BY <1>5 DEF StreamEnds, safetyVars
  <2>2. ~h.terminated  BY <2>1 DEF LoopInv
  <2>3. ScenarioInv' /\ h'.terminated = h.terminated
    <3>1. CASE AbortWith("UNOBSERVABLE")  BY <3>1, <2>2, AbortKeeps DEF Outcomes
    <3>2. CASE UNCHANGED <<h, disk, now, rested, struck>>  BY <3>2 DEF ScenarioInv, Answered
    <3> QED  BY <2>1, <3>1, <3>2
  <2> QED  BY <1>2, <2>1, <2>2, <2>3 DEF RescueInv, LoopInv
<1>6. CASE OperatorArm
  <2>1. /\ opc = "frame" /\ opc' \in {"ending", "actors", "called"}
        /\ opc' = "actors" => err' = "none" /\ opc' # "ending"
        /\ UNCHANGED <<rescue, requests>>
        /\ (UNCHANGED <<h, disk, now, rested, struck>> /\ opc' = "ending")
             \/ \E o \in Observations : BeginArm(o)
    BY <1>6 DEF OperatorArm, ArmDisabled, safetyVars
  <2>2. CASE UNCHANGED <<h, disk, now, rested, struck>> /\ opc' = "ending"
    <3>1. ScenarioInv'  BY <2>2 DEF ScenarioInv, Answered
    <3> QED  BY <1>2, <2>1, <2>2, <3>1 DEF RescueInv, LoopInv
  <2>3. CASE \E o \in Observations : BeginArm(o)
    <3>1. ScenarioInv' /\ Baseline(h, rested)' /\ ~h'.terminated /\ h'.reveal = Never
      BY <2>3, BeginArmKeeps
    <3> QED  BY <1>2, <2>1, <3>1 DEF RescueInv, LoopInv
  <2> QED  BY <2>1, <2>2, <2>3
<1>7. CASE OperatorActors
  <2>1. /\ opc = "actors" /\ opc' = "called"
        /\ UNCHANGED <<rescue, requests>>
        /\ (\E o \in Observations : EndArm(o)) \/ (\E e \in Raised : PrepareFails(e))
    BY <1>7 DEF OperatorActors, safetyVars
  <2>2. ~h.terminated /\ h.reveal = Never  BY <2>1 DEF LoopInv
  <2>3. ScenarioInv' /\ Baseline(h, rested)' /\ ~h'.terminated
    BY <2>1, <2>2, EndArmKeeps, PrepareKeeps
  <2> QED  BY <1>2, <2>1, <2>3 DEF RescueInv, LoopInv
<1>8. CASE OperatorUpdate
  <2>1. PICK o \in Observations : Update(o)  BY <1>8 DEF OperatorUpdate
  <2>2. opc = "frame" /\ opc' = "called" /\ UNCHANGED <<rescue, requests>>
    BY <1>8 DEF OperatorUpdate, safetyVars
  <2>3. ~h.terminated /\ Baseline(h, rested)  BY <2>2 DEF LoopInv
  <2>4. /\ ScenarioInv'
        /\ err' = "none" => h'.state \in Terminal \/ Baseline(h, rested)'
        /\ err' = "none" /\ h'.terminated => h'.state = "ABORTED"
    BY <2>1, <2>3, UpdateKeeps
  <2> QED  BY <1>2, <2>2, <2>4 DEF RescueInv, LoopInv
<1>9. CASE Return \/ RequestSafeShutdown
  <2>1. /\ opc = "called" /\ opc' \in {"ending", "display"}
        /\ UNCHANGED <<h, disk, now, err, rested, struck>>
        /\ active' = (h.state \notin Terminal)
        /\ opc' = "display" => err = "none"
    BY <1>9 DEF Return, RequestSafeShutdown, Quiet, scenarioVars
  <2>2. RescueInv'
    <3>1. CASE Return  BY <2>1, <3>1 DEF Return, Wanted, RescueInv, safetyVars
    <3>2. CASE RequestSafeShutdown  BY <2>1, <3>2 DEF RequestSafeShutdown, Wanted, RescueInv
    <3> QED  BY <1>9, <3>1, <3>2
  <2>3. opc' = "display" /\ active' => ~h.terminated /\ Baseline(h, rested)
    BY <2>1 DEF LoopInv, Terminal
  <2> QED  BY <1>2, <2>1, <2>2, <2>3, QuietKeeps DEF LoopInv
<1>10. CASE SeenTooEarly
  <2>1. /\ opc = "display" /\ active /\ opc' = "ending"
        /\ UNCHANGED <<rescue, requests>> /\ AbortWith("UNOBSERVABLE")
    BY <1>10 DEF SeenTooEarly, safetyVars
  <2>2. ~h.terminated  BY <2>1 DEF LoopInv
  <2>3. ScenarioInv' /\ h'.terminated = h.terminated  BY <2>1, <2>2, AbortKeeps DEF Outcomes
  <2> QED  BY <1>2, <2>1, <2>2, <2>3 DEF RescueInv, LoopInv
<1>11. CASE Displayed
  <2>1. /\ opc = "display" /\ opc' = IF active THEN "frame" ELSE "ending"
        /\ UNCHANGED <<h, disk, now, err, rested, struck, rescue, requests>>
    BY <1>11 DEF Displayed, scenarioVars, safetyVars
  <2> QED  BY <1>2, <2>1, QuietKeeps DEF RescueInv, LoopInv
<1> QED  BY <1>3, <1>4, <1>5, <1>6, <1>7, <1>8, <1>9, <1>10, <1>11

\* The end of the drive.
LEMMA EndKeeps ==
  ASSUME OperatorInv, Finalize \/ Clean \/ Finish
  PROVE  OperatorInv'
<1> USE DEF OperatorInv
<1>1. CASE Finalize
  <2> DEFINE out == IF h.outcome = "NONE" THEN "UNOBSERVABLE" ELSE h.outcome
  <2>1. /\ opc = "ending" /\ opc' = "cleaning"
        /\ UNCHANGED <<rescue, requests, recorded>>
        /\ AbortWith(out) \/ UNCHANGED <<h, disk, now, rested, struck>>
    BY <1>1 DEF Finalize, safetyVars, endVars
  <2>2. out \in Outcomes /\ (struck \in {"collision", "departure"} => out = h.outcome)
    BY DEF ScenarioInv, Scenarios, Outcomes
  <2> HIDE DEF out
  <2>3. ScenarioInv' /\ h'.terminated = h.terminated
    <3>1. CASE AbortWith(out)  BY <3>1, <2>2, AbortKeeps
    <3>2. CASE UNCHANGED <<h, disk, now, rested, struck>>  BY <3>2 DEF ScenarioInv, Answered
    <3> QED  BY <2>1, <3>1, <3>2
  <2> QED  BY <2>1, <2>3 DEF RescueInv, LoopInv, RecordInv
<1>2. CASE Clean
  <2>1. /\ opc = "cleaning" /\ opc' = "finishing" /\ backend' # "held"
        /\ UNCHANGED <<h, disk, now, err, rested, struck, rescue, requests, recorded>>
    BY <1>2 DEF Clean, Quiet, safetyVars, endVars
  <2> QED  BY <2>1, QuietKeeps DEF RescueInv, LoopInv, RecordInv
<1>3. CASE Finish
  <2>1. /\ opc = "finishing" /\ opc' = "closed"
        /\ recorded' = recorded + 1
        /\ UNCHANGED <<h, disk, now, err, rested, struck, rescue, requests, backend>>
    BY <1>3 DEF Finish, Quiet, safetyVars
  <2>2. PICK early \in BOOLEAN, late \in BOOLEAN :
          LET broken == error \/ backend = "stuck" \/ early
          IN  /\ record' = [status   |-> IF broken THEN "FAILED"
                                         ELSE IF h.state = "COMPLETED" THEN "EXECUTED"
                                         ELSE "ABORTED",
                            reserved |-> h.claimed,
                            rescue   |-> rescue,
                            left     |-> backend = "stuck",
                            outcome  |-> h.outcome]
              /\ error' = (broken \/ late)
    BY <1>3, Zenon DEF Finish
  <2>3. stageEnd' = IF error' THEN "FAILURE"
                   ELSE IF h.state = "COMPLETED" THEN "NORMAL_COMPLETION"
                   ELSE "HAZARD_ABORTED"
    BY <1>3 DEF Finish
  <2>4. /\ record'.status = "EXECUTED" => h.state = "COMPLETED" /\ backend # "stuck"
        /\ stageEnd' = "NORMAL_COMPLETION" => record'.status = "EXECUTED"
        /\ record'.rescue = rescue /\ record'.left = (backend = "stuck")
        /\ record'.outcome = h.outcome /\ record'.reserved = h.claimed
    BY <2>2, <2>3
  <2>5. RecordInv'  BY <2>1, <2>4 DEF RecordInv
  <2> QED  BY <2>1, <2>5, QuietKeeps DEF RescueInv, LoopInv
<1> QED  BY <1>1, <1>2, <1>3

\* One case per action of the loop.
LEMMA OperatorInvNext ==
  OperatorInv /\ [OperatorNext]_<<scenarioVars, operatorVars>> => OperatorInv'
<1> SUFFICES ASSUME OperatorInv, [OperatorNext]_<<scenarioVars, operatorVars>>
             PROVE  OperatorInv'
  OBVIOUS
<1>1. CASE OperatorNext  BY <1>1, LoopKeeps, EndKeeps DEF OperatorNext
<1>2. CASE UNCHANGED <<scenarioVars, operatorVars>>
  <2>1. UNCHANGED <<h, disk, now, err, rested, struck, opc, active, rescue, requests,
                    recorded, record, stageEnd, backend>>
    BY <1>2 DEF scenarioVars, operatorVars, bindingVars, safetyVars, endVars
  <2> QED  BY <2>1, QuietKeeps DEF OperatorInv, RescueInv, LoopInv, RecordInv
<1> QED  BY <1>1, <1>2

\* The invariant says what the properties say.
LEMMA OperatorInvEnough == OperatorInv => HazardIsRecordedAsMet
<1> SUFFICES ASSUME OperatorInv PROVE HazardIsRecordedAsMet  OBVIOUS
<1> USE DEF OperatorInv
<1>1. RescueFollowsContact  BY DEF RescueFollowsContact, RescueInv
<1>2. ResponseIsAfterReveal  BY DEF ResponseIsAfterReveal, ScenarioInv, Answered
<1>3. RecordIsHonest  BY DEF RecordIsHonest, RecordInv, ScenarioInv
<1> QED  BY <1>1, <1>2, <1>3 DEF HazardIsRecordedAsMet

\* Whatever rows cannot be written, whatever the backend and the safety owner
\* raise and whenever the drive ends: a contact asks for the stop once, before
\* the loop goes on; the one record tells the outcome, the rescue and the actors
\* as they are; and what it calls an answer came after the obstacle did.
THEOREM HazardRecorded == OperatorLoopSpec => []HazardIsRecordedAsMet
<1>1. OperatorInv /\ [OperatorNext]_<<scenarioVars, operatorVars>> => OperatorInv'
  BY OperatorInvNext
<1> QED  BY OperatorInvInit, <1>1, OperatorInvEnough, PTL DEF OperatorLoopSpec

(* The development drive. *)
StaticDriveSpec ==
  ScenarioInit /\ StaticInit /\ [][StaticNext]_<<scenarioVars, staticVars>>

\* Nothing is made before the preflight, the cameras are closed before the
\* actors, and the actors that are left by then are those that would not go.
StaticInv ==
  /\ spc = "new" => err = "none" /\ owned = {} /\ stuck = {} /\ viewer = "none" /\ ~listening
  /\ spc = "actors" => viewer # "open"
  /\ spc \in {"closing", "closed"} /\ err = "none" =>
        owned = stuck /\ viewer # "open" /\ (listening => "sensor" \in stuck)

\* One case per action of the drive.
LEMMA StaticInvNext ==
  StaticInv /\ [StaticNext]_<<scenarioVars, staticVars>> => StaticInv'
<1> SUFFICES ASSUME StaticInv, [StaticNext]_<<scenarioVars, staticVars>>
             PROVE  StaticInv'
  OBVIOUS
<1> USE DEF StaticInv
<1>1. CASE PreflightFails \/ Preflight
  BY <1>1 DEF PreflightFails, Preflight, Still, contactVars, scenarioVars
<1>2. CASE TrafficFails \/ PrepareTraffic \/ StaticArm \/ SpawnCargo \/ SpawnLead \/ ActorsFail
           \/ ObserveCollisions \/ ObserverFails \/ OpenViewer \/ ViewerFails
           \/ LoopFails \/ Overflowed \/ Frame \/ TimeIsUp \/ UserAbort
  <2>1. spc' \notin {"new", "actors", "closing", "closed"}
    BY <1>2 DEF TrafficFails, PrepareTraffic, StaticArm, SpawnCargo, SpawnLead, ActorsFail,
                ObserveCollisions, ObserverFails, OpenViewer, ViewerFails, LoopFails,
                Overflowed, Frame, TimeIsUp, UserAbort, Caught
  <2> QED  BY <2>1
<1>3. CASE Capture  BY <1>3 DEF Capture, scenarioVars
<1>4. CASE EndScene  BY <1>4 DEF EndScene
<1>5. CASE CloseSensors  BY <1>5 DEF CloseSensors
<1>6. CASE CloseActors  BY <1>6 DEF CloseActors, Still
<1>7. CASE CloseSession  BY <1>7 DEF CloseSession, scenarioVars, contactVars
<1>8. CASE UNCHANGED <<scenarioVars, staticVars>>  BY <1>8 DEF scenarioVars, staticVars, contactVars
<1> QED  BY <1>1, <1>2, <1>3, <1>4, <1>5, <1>6, <1>7, <1>8 DEF StaticNext

\* Whatever fails and whenever the user leaves, an actor that was spawned is
\* destroyed or was tried, and the cameras are closed, unless the row of the
\* scene's own end could not be written.
THEOREM StaticActorsReturned == StaticDriveSpec => []ActorsAreReturned
<1>1. ScenarioInit /\ StaticInit => StaticInv  BY DEF ScenarioInit, StaticInit, StaticInv
<1>2. StaticInv => ActorsAreReturned  BY DEF StaticInv, ActorsAreReturned
<1> QED  BY <1>1, <1>2, StaticInvNext, PTL DEF StaticDriveSpec

(* The gaze sidecar. *)
GazeRows == [kind : {"gaze", "overflow"}, samples : SUBSET Nat]

Sidecars ==
  [accepting : BOOLEAN, stop : BOOLEAN, queue : Seq(Nat), index : Nat,
   worker : {"none", "loop", "swap", "write", "wait", "drain", "dead"},
   item : Nat \cup {NoSample}, pending : SUBSET Nat, swapped : SUBSET Nat,
   file : Seq(GazeRows), overflow : SUBSET Nat, unconfirmed : SUBSET Nat,
   error : BOOLEAN, report : {"none", "stored", "failed"}]

Queued == {gaze.queue[i] : i \in 1..Len(gaze.queue)}
Held == IF gaze.item = NoSample THEN {} ELSE {gaze.item}

Rising(s) == \A i, j \in 1..Len(s) : i < j => s[i] < s[j]

\* Every index that was given out is in one place, or in the file and unconfirmed; what
\* is written comes before what is in hand, and that before what waits.
PlacesInv ==
  /\ Written \cup Queued \cup Held \cup gaze.overflow \cup gaze.unconfirmed = 0..(gaze.index - 1)
  /\ Written \cap Queued = {} /\ Written \cap Held = {} /\ Written \cap gaze.overflow = {}
  /\ \A w \in Written, m \in Held \cup Queued \cup gaze.unconfirmed : w <= m
  /\ \A k \in Held, m \in Queued : k < m
  /\ Queued \cap Held = {} /\ Queued \cap gaze.overflow = {} /\ Queued \cap gaze.unconfirmed = {}
  /\ Held \cap gaze.overflow = {} /\ Held \cap gaze.unconfirmed = {}
  /\ gaze.overflow \cap gaze.unconfirmed = {}
  /\ Rising(gaze.queue)

\* What the queue had no place for is told, or about to be.
OverflowInv ==
  /\ Told \cup gaze.pending \cup gaze.swapped \subseteq gaze.overflow
  /\ Told \cap gaze.pending = {} /\ Told \cap gaze.swapped = {}
  /\ gaze.pending \cap gaze.swapped = {}
  /\ ~gaze.error => Told \cup gaze.pending \cup gaze.swapped = gaze.overflow

RowsApart ==
  \A i, j \in 1..Len(gaze.file) :
     i # j => gaze.file[i].samples \cap gaze.file[j].samples = {}

\* The worker's way to its end.
WorkerInv ==
  /\ gaze.stop = ~gaze.accepting
  /\ ~gaze.error => gaze.unconfirmed = {}
  /\ gaze.worker \in {"swap", "write"} /\ gaze.item = NoSample =>
        gaze.stop /\ gaze.queue = << >> /\ ~gaze.error
  /\ gaze.worker = "write" /\ gaze.item = NoSample => gaze.pending = {}
  /\ gaze.worker \in {"drain", "dead"} => gaze.stop /\ gaze.item = NoSample
  /\ gaze.worker \in {"drain", "dead"} /\ ~gaze.error =>
        gaze.queue = << >> /\ gaze.pending = {} /\ gaze.swapped = {}
  /\ gaze.worker = "dead" => gaze.queue = << >>
  /\ gaze.worker \in {"loop", "wait", "none"} => gaze.item = NoSample
  /\ gaze.worker # "write" => gaze.swapped = {}
  /\ gaze.worker = "wait" => gaze.error
  /\ gaze.worker \in {"none", "loop", "swap", "write"} => ~gaze.error

GazeInv == gaze \in Sidecars /\ PlacesInv /\ OverflowInv /\ RowsApart /\ WorkerInv

\* The samples a file's rows of one kind tell of, and rows that keep apart.
ToldIn(f, kind) == UNION {f[i].samples : i \in {j \in 1..Len(f) : f[j].kind = kind}}
Apart(f) == \A i, j \in 1..Len(f) : i # j => f[i].samples \cap f[j].samples = {}

\* A row is told once it is appended.
LEMMA AppendTold ==
  ASSUME NEW file \in Seq(GazeRows), NEW row \in GazeRows, NEW kind
  PROVE  ToldIn(Append(file, row), kind) = IF row.kind = kind
           THEN ToldIn(file, kind) \cup row.samples ELSE ToldIn(file, kind)
<1> DEFINE new == Append(file, row)
<1>1. /\ Len(new) = Len(file) + 1 /\ Len(file) \in Nat
      /\ \A i \in 1..Len(file) : new[i] = file[i]
      /\ new[Len(file) + 1] = row
  OBVIOUS
<1> HIDE DEF new
<1>2. ASSUME NEW x
      PROVE  x \in ToldIn(new, kind) <=>
               (x \in ToldIn(file, kind) \/ (row.kind = kind /\ x \in row.samples))
  <2>1. x \in ToldIn(new, kind) <=> \E i \in 1..Len(new) : new[i].kind = kind /\ x \in new[i].samples
    BY DEF ToldIn
  <2>2. x \in ToldIn(file, kind) <=> \E i \in 1..Len(file) : file[i].kind = kind /\ x \in file[i].samples
    BY DEF ToldIn
  <2>3. ASSUME \E i \in 1..Len(file) : file[i].kind = kind /\ x \in file[i].samples
        PROVE  \E i \in 1..Len(new) : new[i].kind = kind /\ x \in new[i].samples
    BY <2>3, <1>1
  <2>4. ASSUME row.kind = kind /\ x \in row.samples
        PROVE  \E i \in 1..Len(new) : new[i].kind = kind /\ x \in new[i].samples
    BY <2>4, <1>1
  <2>5. ASSUME NEW i \in 1..Len(new), new[i].kind = kind /\ x \in new[i].samples
        PROVE  \/ \E k \in 1..Len(file) : file[k].kind = kind /\ x \in file[k].samples
               \/ row.kind = kind /\ x \in row.samples
    BY <2>5, <1>1
  <2> QED  BY <2>1, <2>2, <2>3, <2>4, <2>5
<1> QED  BY <1>2 DEF new

\* A row that tells of samples no row told of stays apart from the others.
LEMMA AppendApart ==
  ASSUME NEW file \in Seq(GazeRows), NEW row \in GazeRows,
         \A i, j \in 1..Len(file) : i # j => file[i].samples \cap file[j].samples = {},
         \A i \in 1..Len(file) : file[i].samples \cap row.samples = {}
  PROVE  \A i, j \in 1..Len(Append(file, row)) :
           i # j => Append(file, row)[i].samples \cap Append(file, row)[j].samples = {}
<1> DEFINE new == Append(file, row)
<1>1. /\ Len(new) = Len(file) + 1 /\ Len(file) \in Nat
      /\ \A i \in 1..Len(file) : new[i] = file[i]
      /\ new[Len(file) + 1] = row
  OBVIOUS
<1> HIDE DEF new
<1>2. ASSUME NEW i \in 1..Len(new), NEW j \in 1..Len(new), i # j
      PROVE  new[i].samples \cap new[j].samples = {}
  <2>1. (i \in 1..Len(file) \/ i = Len(file) + 1) /\ (j \in 1..Len(file) \/ j = Len(file) + 1)
    BY <1>1
  <2>2. CASE i \in 1..Len(file) /\ j \in 1..Len(file)  BY <1>1, <1>2, <2>2
  <2>3. CASE i \in 1..Len(file) /\ j = Len(file) + 1  BY <1>1, <2>3
  <2>4. CASE i = Len(file) + 1 /\ j \in 1..Len(file)
    <3>1. file[j].samples \cap row.samples = row.samples \cap file[j].samples  OBVIOUS
    <3> QED  BY <1>1, <2>4, <3>1
  <2> QED  BY <1>1, <1>2, <2>1, <2>2, <2>3, <2>4
<1> QED  BY <1>2 DEF new

\* A writer that was not started has given out no index.
LEMMA GazeInvInit == GazeInit => GazeInv
<1> SUFFICES ASSUME GazeInit PROVE GazeInv  OBVIOUS
<1>0. /\ gaze.accepting = TRUE /\ gaze.stop = FALSE /\ gaze.queue = << >> /\ gaze.index = 0
      /\ gaze.worker = "none" /\ gaze.item = NoSample /\ gaze.pending = {}
      /\ gaze.swapped = {} /\ gaze.file = << >> /\ gaze.overflow = {} /\ gaze.unconfirmed = {}
      /\ gaze.error = FALSE
  BY DEF GazeInit
<1>1. gaze \in Sidecars  BY DEF Sidecars, GazeInit
<1>2. Written = {} /\ Told = {}  BY <1>0 DEF Written, Told, ToldBy
<1>3. Queued = {} /\ Held = {}  BY <1>0 DEF Queued, Held
<1>4. 0..(gaze.index - 1) = {}  BY <1>0
<1>5. PlacesInv  BY <1>0, <1>2, <1>3, <1>4 DEF PlacesInv, Rising
<1>6. OverflowInv  BY <1>0, <1>2 DEF OverflowInv
<1>7. RowsApart  BY <1>0 DEF RowsApart
<1>8. WorkerInv  BY <1>0 DEF WorkerInv
<1> QED  BY <1>1, <1>5, <1>6, <1>7, <1>8 DEF GazeInv

\* What the file tells, and what waits, is a matter of the file and of the queue.
LEMMA SameFile ==
  ASSUME gaze'.file = gaze.file
  PROVE  Written' = Written /\ Told' = Told /\ (RowsApart => RowsApart')
  BY DEF Written, Told, ToldBy, RowsApart

\* The same for the queue.
LEMMA SameQueue ==
  ASSUME gaze'.queue = gaze.queue
  PROVE  Queued' = Queued
  BY DEF Queued

\* The same for the sample in hand.
LEMMA SameItem ==
  ASSUME gaze'.item = gaze.item
  PROVE  Held' = Held
  BY DEF Held

\* Nothing but the worker's bookkeeping changes.
LEMMA GazeFrame ==
  ASSUME PlacesInv,
         gaze'.index = gaze.index, gaze'.queue = gaze.queue, gaze'.item = gaze.item,
         gaze'.file = gaze.file, gaze'.overflow = gaze.overflow, gaze'.unconfirmed = gaze.unconfirmed
  PROVE  PlacesInv'
  BY SameFile, SameQueue, SameItem DEF PlacesInv

\* The overflow counts are a matter of the file and of what is pending.
LEMMA OverflowFrame ==
  ASSUME OverflowInv,
         gaze'.file = gaze.file, gaze'.overflow = gaze.overflow,
         gaze'.pending = gaze.pending, gaze'.swapped = gaze.swapped, gaze'.error = gaze.error
  PROVE  OverflowInv'
  BY SameFile DEF OverflowInv

\* The worker's bookkeeping.
LEMMA StartKeeps ==
  ASSUME GazeInv, GazeStart \/ Subscribe \/ SourceEnds \/ Unsubscribe \/ GazeCloses
         \/ WorkerSwaps \/ WorkerWaits
  PROVE  GazeInv'
<1>0. /\ gaze \in Sidecars /\ PlacesInv /\ OverflowInv /\ RowsApart /\ WorkerInv
      /\ gaze.stop \in BOOLEAN /\ gaze.accepting \in BOOLEAN
  BY DEF GazeInv, Sidecars
<1>1. CASE GazeStart \/ GazeCloses
  <2> DEFINE woken == IF gaze.worker = "none" THEN "loop" ELSE gaze.worker
             closing == [gaze EXCEPT !.accepting = FALSE, !.stop = TRUE, !.worker = woken]
  <2>1. \/ gaze' = [gaze EXCEPT !.worker = woken]
        \/ gaze' = closing
    BY <1>0, <1>1 DEF GazeStart, GazeCloses, Sidecars
  <2>2. woken \in {"none", "loop", "swap", "write", "wait", "drain", "dead"}  BY <1>0 DEF Sidecars
  <2>3. /\ gaze' \in Sidecars /\ gaze'.worker = woken
        /\ gaze'.index = gaze.index /\ gaze'.queue = gaze.queue /\ gaze'.item = gaze.item
        /\ gaze'.file = gaze.file /\ gaze'.overflow = gaze.overflow /\ gaze'.unconfirmed = gaze.unconfirmed
        /\ gaze'.pending = gaze.pending /\ gaze'.swapped = gaze.swapped
        /\ gaze'.error = gaze.error
        /\ \/ gaze'.stop = gaze.stop /\ gaze'.accepting = gaze.accepting
           \/ gaze'.stop = TRUE /\ gaze'.accepting = FALSE
    <3> HIDE DEF woken
    <3>1. CASE gaze' = [gaze EXCEPT !.worker = woken]  BY <1>0, <2>2, <3>1 DEF Sidecars
    <3>2. CASE gaze' = closing  BY <1>0, <2>2, <3>2 DEF Sidecars
    <3> QED  BY <2>1, <3>1, <3>2
  <2>4. PlacesInv' /\ RowsApart' /\ OverflowInv'  BY <1>0, <2>3, GazeFrame, OverflowFrame, SameFile
  <2>5. WorkerInv'  BY <1>0, <2>3 DEF WorkerInv
  <2> QED  BY <2>3, <2>4, <2>5 DEF GazeInv
<1>2. CASE Subscribe \/ SourceEnds \/ Unsubscribe
  <2>1. gaze' = gaze  BY <1>2 DEF Subscribe, SourceEnds, Unsubscribe
  <2>2. PlacesInv' /\ RowsApart' /\ OverflowInv'  BY <1>0, <2>1, GazeFrame, OverflowFrame, SameFile
  <2> QED  BY <1>0, <2>1, <2>2 DEF GazeInv, WorkerInv
<1>3. CASE WorkerSwaps
  <2>1. /\ gaze' \in Sidecars /\ gaze.worker = "swap" /\ gaze'.worker = "write"
        /\ gaze'.swapped = gaze.pending /\ gaze'.pending = {}
        /\ gaze'.index = gaze.index /\ gaze'.queue = gaze.queue /\ gaze'.item = gaze.item
        /\ gaze'.file = gaze.file /\ gaze'.overflow = gaze.overflow /\ gaze'.unconfirmed = gaze.unconfirmed
        /\ gaze'.error = gaze.error /\ gaze'.stop = gaze.stop
        /\ gaze'.accepting = gaze.accepting
    BY <1>0, <1>3 DEF WorkerSwaps, Sidecars
  <2>2. PlacesInv' /\ RowsApart' /\ Told' = Told  BY <1>0, <2>1, GazeFrame, SameFile
  <2>3. gaze.swapped = {}  BY <1>0, <2>1 DEF WorkerInv
  <2>4. OverflowInv'  BY <1>0, <2>1, <2>2, <2>3 DEF OverflowInv
  <2>5. WorkerInv'  BY <1>0, <2>1 DEF WorkerInv
  <2> QED  BY <2>1, <2>2, <2>4, <2>5 DEF GazeInv
<1>4. CASE WorkerWaits
  <2>1. /\ gaze' \in Sidecars /\ gaze.worker = "wait" /\ gaze'.worker = "drain" /\ gaze.stop
        /\ gaze'.swapped = gaze.swapped /\ gaze'.pending = gaze.pending
        /\ gaze'.index = gaze.index /\ gaze'.queue = gaze.queue /\ gaze'.item = gaze.item
        /\ gaze'.file = gaze.file /\ gaze'.overflow = gaze.overflow /\ gaze'.unconfirmed = gaze.unconfirmed
        /\ gaze'.error = gaze.error /\ gaze'.stop = gaze.stop
        /\ gaze'.accepting = gaze.accepting
    BY <1>0, <1>4 DEF WorkerWaits, Sidecars
  <2>2. PlacesInv' /\ RowsApart' /\ OverflowInv'  BY <1>0, <2>1, GazeFrame, OverflowFrame, SameFile
  <2>3. WorkerInv'  BY <1>0, <2>1 DEF WorkerInv
  <2> QED  BY <2>1, <2>2, <2>3 DEF GazeInv
<1> QED  BY <1>1, <1>2, <1>3, <1>4

\* The samples of a queue when one more is put, and when the oldest is taken.
LEMMA AppendRange ==
  ASSUME NEW s \in Seq(Nat), NEW x \in Nat
  PROVE  {Append(s, x)[i] : i \in 1..Len(Append(s, x))} = {s[i] : i \in 1..Len(s)} \cup {x}
<1> DEFINE q == Append(s, x)
<1>1. /\ Len(q) = Len(s) + 1 /\ q[Len(s) + 1] = x /\ Len(s) \in Nat
      /\ \A i \in 1..Len(s) : q[i] = s[i]
  OBVIOUS
<1> HIDE DEF q
<1>2. \A i \in 1..Len(q) : i \in 1..Len(s) \/ i = Len(s) + 1  BY <1>1
<1>3. \A i \in 1..Len(s) : i \in 1..Len(q)  BY <1>1
<1>4. Len(s) + 1 \in 1..Len(q)  BY <1>1
<1>5. {q[i] : i \in 1..Len(q)} = {s[i] : i \in 1..Len(s)} \cup {x}  BY <1>1, <1>2, <1>3, <1>4
<1> QED  BY <1>5 DEF q

\* What leaves the head of a rising queue leaves its set, and is less than what stays.
LEMMA TailRange ==
  ASSUME NEW s \in Seq(Nat), s # << >>, Rising(s)
  PROVE  /\ Tail(s) \in Seq(Nat) /\ Head(s) \in Nat
         /\ {s[i] : i \in 1..Len(s)} = {Tail(s)[i] : i \in 1..Len(Tail(s))} \cup {Head(s)}
         /\ \A m \in {Tail(s)[i] : i \in 1..Len(Tail(s))} : Head(s) < m
         /\ Rising(Tail(s))
<1> DEFINE q == Tail(s)
           x == Head(s)
           len == Len(s)
<1>1. /\ q \in Seq(Nat) /\ x \in Nat /\ len \in Nat /\ len > 0
      /\ x = s[1] /\ Len(q) = len - 1
      /\ \A i \in 1..Len(q) : q[i] = s[i + 1]
  OBVIOUS
<1>2. \A i, j \in 1..len : i < j => s[i] < s[j]  BY DEF Rising
<1>3. {s[i] : i \in 1..Len(s)} = {s[i] : i \in 1..len}  OBVIOUS
<1> HIDE DEF q, x, len
<1>4. ASSUME NEW i \in 1..Len(q)
      PROVE  i + 1 \in 1..len /\ 1 < i + 1 /\ 1 \in 1..len /\ i \in Int
  BY <1>1
<1>5. ASSUME NEW i \in 1..Len(q), NEW j \in 1..Len(q), i < j
      PROVE  q[i] < q[j]
  <2>1. i + 1 < j + 1  BY <1>4, <1>5
  <2> QED  BY <1>1, <1>2, <1>4, <2>1
<1>6. ASSUME NEW i \in 1..Len(q) PROVE x < q[i]  BY <1>1, <1>2, <1>4
<1>7. ASSUME NEW i \in 1..len, i # 1
      PROVE  i - 1 \in 1..Len(q) /\ q[i - 1] = s[i]
  <2>1. i - 1 \in 1..Len(q) /\ (i - 1) + 1 = i  BY <1>1, <1>7
  <2> QED  BY <1>1, <2>1
<1>8. {s[i] : i \in 1..len} = {q[i] : i \in 1..Len(q)} \cup {x}
  <2>1. ASSUME NEW i \in 1..len
        PROVE  s[i] \in {q[k] : k \in 1..Len(q)} \cup {x}
    BY <1>1, <1>7, ZenonT(40)
  <2>2. ASSUME NEW i \in 1..Len(q)
        PROVE  q[i] \in {s[k] : k \in 1..len}
    BY <1>1, <1>4
  <2>3. x \in {s[k] : k \in 1..len}  BY <1>1
  <2> QED  BY <2>1, <2>2, <2>3
<1>9. \A m \in {q[i] : i \in 1..Len(q)} : x < m  BY <1>6
<1>10. Rising(q)  BY <1>5 DEF Rising
<1> QED  BY <1>1, <1>3, <1>8, <1>9, <1>10 DEF q, x

\* A sample is queued, or counted as an overflow.
LEMMA CapturedKeeps ==
  ASSUME GazeInv, Captured
  PROVE  GazeInv'
<1> DEFINE n == gaze.index
<1>0. /\ gaze \in Sidecars /\ PlacesInv /\ OverflowInv /\ RowsApart /\ WorkerInv
      /\ gaze.stop \in BOOLEAN /\ gaze.accepting \in BOOLEAN
      /\ n \in Nat /\ gaze.queue \in Seq(Nat)
      /\ gaze.overflow \in SUBSET Nat /\ gaze.pending \in SUBSET Nat
  BY DEF GazeInv, Sidecars
<1>1. 0..((n + 1) - 1) = (0..(n - 1)) \cup {n} /\ n \notin 0..(n - 1)  BY <1>0
<1>2. /\ n \notin Written \cup Queued \cup Held \cup gaze.overflow \cup gaze.unconfirmed
      /\ \A m \in Written \cup Queued \cup Held : m < n
  BY <1>0, <1>1 DEF PlacesInv
<1>3. CASE ~gaze.accepting
  <2>1. gaze' = gaze  BY <1>3 DEF Captured
  <2>2. PlacesInv' /\ RowsApart' /\ OverflowInv'  BY <1>0, <2>1, GazeFrame, OverflowFrame, SameFile
  <2> QED  BY <1>0, <2>1, <2>2 DEF GazeInv, WorkerInv
<1>4. CASE gaze.accepting /\ Len(gaze.queue) < GazeCapacity
  <2> DEFINE q == Append(gaze.queue, n)
  <2>1. gaze' = [gaze EXCEPT !.queue = q, !.index = n + 1] /\ q \in Seq(Nat)
    BY <1>0, <1>4 DEF Captured
  <2>2. /\ Len(q) = Len(gaze.queue) + 1 /\ q[Len(q)] = n /\ Len(gaze.queue) \in Nat
        /\ \A i \in 1..Len(gaze.queue) : q[i] = gaze.queue[i]
    BY <1>0
  <2> HIDE DEF q
  <2>3. /\ gaze'.queue = q /\ gaze'.index = n + 1
        /\ gaze'.swapped = gaze.swapped /\ gaze'.pending = gaze.pending
        /\ gaze'.item = gaze.item /\ gaze'.worker = gaze.worker
        /\ gaze'.file = gaze.file /\ gaze'.overflow = gaze.overflow /\ gaze'.unconfirmed = gaze.unconfirmed
        /\ gaze'.error = gaze.error /\ gaze'.stop = gaze.stop
        /\ gaze'.accepting = gaze.accepting
    BY <1>0, <2>1 DEF Sidecars
  <2>4. gaze' \in Sidecars
    <3>1. n + 1 \in Nat  BY <1>0
    <3> HIDE DEF n
    <3> QED  BY <1>0, <2>1, <3>1 DEF Sidecars
  <2>5. Queued' = Queued \cup {n}  BY <1>0, <2>3, AppendRange DEF Queued, q
  <2>6. \A i \in 1..Len(gaze.queue) : gaze.queue[i] < n  BY <1>2 DEF Queued
  <2>7. ASSUME NEW i \in 1..Len(q), NEW j \in 1..Len(q), i < j
        PROVE  q[i] < q[j]
    <3>1. i \in 1..Len(gaze.queue) /\ (j \in 1..Len(gaze.queue) \/ j = Len(q))  BY <2>2, <2>7
    <3> QED  BY <1>0, <3>1, <2>2, <2>6, <2>7 DEF PlacesInv, Rising
  <2>8. Rising(gaze'.queue)  BY <2>3, <2>7 DEF Rising
  <2>9. Written' = Written /\ Held' = Held  BY <2>3, SameFile, SameItem
  <2>12. /\ \A w \in Written', m \in Held' \cup Queued' \cup gaze'.unconfirmed : w <= m
         /\ \A k \in Held', m \in Queued' : k < m
    BY <1>0, <1>2, <2>3, <2>5, <2>9 DEF PlacesInv
  <2>13. PlacesInv'  BY <1>0, <1>1, <1>2, <2>3, <2>5, <2>8, <2>9, <2>12 DEF PlacesInv
  <2>10. OverflowInv' /\ RowsApart'  BY <1>0, <2>3, OverflowFrame, SameFile
  <2>11. WorkerInv'  BY <1>0, <1>4, <2>3 DEF WorkerInv
  <2> QED  BY <2>4, <2>13, <2>10, <2>11 DEF GazeInv
<1>5. CASE gaze.accepting /\ ~(Len(gaze.queue) < GazeCapacity)
  <2> DEFINE over == gaze.overflow \cup {n}
             pend == gaze.pending \cup {n}
  <2>1. /\ gaze' = [gaze EXCEPT !.overflow = over, !.index = n + 1, !.pending = pend]
        /\ over \in SUBSET Nat /\ pend \in SUBSET Nat /\ n + 1 \in Nat
    BY <1>0, <1>5 DEF Captured
  <2> HIDE DEF over, pend
  <2>3. /\ gaze'.queue = gaze.queue /\ gaze'.index = n + 1
        /\ gaze'.swapped = gaze.swapped /\ gaze'.pending = pend
        /\ gaze'.item = gaze.item /\ gaze'.worker = gaze.worker
        /\ gaze'.file = gaze.file /\ gaze'.overflow = over /\ gaze'.unconfirmed = gaze.unconfirmed
        /\ gaze'.error = gaze.error /\ gaze'.stop = gaze.stop
        /\ gaze'.accepting = gaze.accepting
    BY <1>0, <2>1 DEF Sidecars
  <2>4. gaze' \in Sidecars
    <3> HIDE DEF n
    <3> QED  BY <1>0, <2>1 DEF Sidecars
  <2>5. PlacesInv'  BY <1>0, <1>1, <1>2, <2>3, SameFile, SameItem, SameQueue DEF PlacesInv, over
  <2>6. n \notin Told \cup gaze.pending \cup gaze.swapped  BY <1>0, <1>2 DEF OverflowInv
  <2>7. OverflowInv'  BY <1>0, <2>3, <2>6, SameFile DEF OverflowInv, over, pend
  <2>8. RowsApart'  BY <1>0, <2>3, SameFile
  <2>9. WorkerInv'  BY <1>0, <1>5, <2>3 DEF WorkerInv
  <2> QED  BY <2>4, <2>5, <2>7, <2>8, <2>9 DEF GazeInv
<1> QED  BY <1>0, <1>3, <1>4, <1>5

\* The worker takes the oldest sample, or finds that it is told to stop.
LEMMA TakesKeeps ==
  ASSUME GazeInv, WorkerTakes
  PROVE  GazeInv'
<1>0. /\ gaze \in Sidecars /\ PlacesInv /\ OverflowInv /\ RowsApart /\ WorkerInv
      /\ gaze.queue \in Seq(Nat) /\ gaze.worker = "loop" /\ NoSample \notin Nat
  BY GazeAssumption DEF GazeInv, Sidecars, WorkerTakes
<1>1. gaze.item = NoSample /\ Held = {} /\ ~gaze.error  BY <1>0 DEF WorkerInv, Held
<1>2. CASE gaze.queue = << >>
  <2>1. gaze' = [gaze EXCEPT !.worker = "swap"] /\ gaze.stop  BY <1>2 DEF WorkerTakes
  <2>2. /\ gaze' \in Sidecars /\ gaze'.worker = "swap"
        /\ gaze'.swapped = gaze.swapped /\ gaze'.pending = gaze.pending
        /\ gaze'.index = gaze.index /\ gaze'.queue = gaze.queue /\ gaze'.item = gaze.item
        /\ gaze'.file = gaze.file /\ gaze'.overflow = gaze.overflow /\ gaze'.unconfirmed = gaze.unconfirmed
        /\ gaze'.error = gaze.error /\ gaze'.stop = gaze.stop
        /\ gaze'.accepting = gaze.accepting
    BY <1>0, <2>1 DEF Sidecars
  <2>3. PlacesInv' /\ RowsApart' /\ OverflowInv'  BY <1>0, <2>2, GazeFrame, OverflowFrame, SameFile
  <2>4. WorkerInv'  BY <1>0, <1>2, <2>1, <2>2 DEF WorkerInv
  <2> QED  BY <2>2, <2>3, <2>4 DEF GazeInv
<1>3. CASE gaze.queue # << >>
  <2> DEFINE q == Tail(gaze.queue)
             x == Head(gaze.queue)
  <2>1. gaze' = [gaze EXCEPT !.queue = q, !.item = x, !.worker = "swap"]  BY <1>3 DEF WorkerTakes
  <2>2. /\ q \in Seq(Nat) /\ x \in Nat
        /\ {gaze.queue[i] : i \in 1..Len(gaze.queue)} = {q[i] : i \in 1..Len(q)} \cup {x}
        /\ \A m \in {q[i] : i \in 1..Len(q)} : x < m
        /\ Rising(q)
    BY <1>0, <1>3, TailRange DEF PlacesInv
  <2> HIDE DEF q, x
  <2>3. /\ gaze'.queue = q /\ gaze'.index = gaze.index
        /\ gaze'.swapped = gaze.swapped /\ gaze'.pending = gaze.pending
        /\ gaze'.item = x /\ gaze'.worker = "swap"
        /\ gaze'.file = gaze.file /\ gaze'.overflow = gaze.overflow /\ gaze'.unconfirmed = gaze.unconfirmed
        /\ gaze'.error = gaze.error /\ gaze'.stop = gaze.stop
        /\ gaze'.accepting = gaze.accepting
    BY <1>0, <2>1 DEF Sidecars
  <2>4. gaze' \in Sidecars  BY <1>0, <2>1, <2>2 DEF Sidecars
  <2>5. Held' = {x}  BY <1>0, <2>2, <2>3 DEF Held
  <2>8. Queued = Queued' \cup {x} /\ \A m \in Queued' : x < m  BY <2>2, <2>3, ZenonT(40) DEF Queued
  <2>9. Rising(gaze'.queue) /\ Written' = Written /\ x \notin Queued'  BY <2>2, <2>3, <2>8, SameFile
  <2>10. PlacesInv'
    <3>1. /\ \A w \in Written', m \in Held' \cup Queued' \cup gaze'.unconfirmed : w <= m
          /\ \A k \in Held', m \in Queued' : k < m
      BY <1>0, <2>3, <2>5, <2>8, <2>9 DEF PlacesInv
    <3> QED  BY <1>0, <1>1, <2>3, <2>5, <2>8, <2>9, <3>1 DEF PlacesInv
  <2>11. OverflowInv' /\ RowsApart'  BY <1>0, <2>3, OverflowFrame, SameFile
  <2>12. WorkerInv'  BY <1>0, <1>1, <2>2, <2>3 DEF WorkerInv
  <2> QED  BY <2>4, <2>10, <2>11, <2>12 DEF GazeInv
<1> QED  BY <1>2, <1>3

\* A row of samples that no row told of keeps the rows apart.
LEMMA AppendRow ==
  ASSUME NEW f \in Seq(GazeRows), Apart(f), NEW set \in SUBSET Nat,
         NEW kind \in {"gaze", "overflow"},
         set \cap (ToldIn(f, "gaze") \cup ToldIn(f, "overflow")) = {}
  PROVE  LET n == Append(f, GazeRow(kind, set))
         IN  /\ n \in Seq(GazeRows) /\ Apart(n)
             /\ ToldIn(n, "gaze") = IF kind = "gaze" THEN ToldIn(f, "gaze") \cup set
                                    ELSE ToldIn(f, "gaze")
             /\ ToldIn(n, "overflow") = IF kind = "overflow" THEN ToldIn(f, "overflow") \cup set
                                        ELSE ToldIn(f, "overflow")
<1> DEFINE row == GazeRow(kind, set)
           n == Append(f, row)
<1>1. row \in GazeRows /\ row.kind = kind /\ row.samples = set  BY DEF GazeRow, GazeRows
<1> HIDE DEF row
<1>2. ASSUME NEW i \in 1..Len(f) PROVE f[i].samples \cap row.samples = {}
  <2>1. f[i] \in GazeRows  OBVIOUS
  <2>2. f[i].kind \in {"gaze", "overflow"}  BY <2>1 DEF GazeRows
  <2>3. f[i].samples \subseteq ToldIn(f, "gaze") \cup ToldIn(f, "overflow")  BY <2>2 DEF ToldIn
  <2> QED  BY <2>3, <1>1
<1>3. Apart(n)  BY <1>1, <1>2, AppendApart DEF Apart
<1>4. n \in Seq(GazeRows)  BY <1>1
<1>5. ASSUME NEW q
      PROVE  ToldIn(n, q) = IF row.kind = q THEN ToldIn(f, q) \cup row.samples ELSE ToldIn(f, q)
  BY <1>1, AppendTold
<1> HIDE DEF n
<1>6. /\ ToldIn(n, "gaze") = IF kind = "gaze" THEN ToldIn(f, "gaze") \cup set
                             ELSE ToldIn(f, "gaze")
      /\ ToldIn(n, "overflow") = IF kind = "overflow" THEN ToldIn(f, "overflow") \cup set
                                 ELSE ToldIn(f, "overflow")
  <2>1. ToldIn(n, "gaze") = IF kind = "gaze" THEN ToldIn(f, "gaze") \cup set
                            ELSE ToldIn(f, "gaze")
    BY <1>1, <1>5, Zenon
  <2>2. ToldIn(n, "overflow") = IF kind = "overflow" THEN ToldIn(f, "overflow") \cup set
                                ELSE ToldIn(f, "overflow")
    BY <1>1, <1>5, Zenon
  <2> QED  BY <2>1, <2>2
<1> QED  BY <1>3, <1>4, <1>6 DEF row, n

\* The file after a turn tells what it told before, and what the turn's rows tell.
LEMMA FileTold ==
  Written = ToldIn(gaze.file, "gaze") /\ Told = ToldIn(gaze.file, "overflow")
  /\ (RowsApart <=> Apart(gaze.file))
  BY DEF Written, Told, ToldBy, ToldIn, RowsApart, Apart

\* The rows of a turn come after those of the file.
LEMMA RowsConcat ==
  ASSUME NEW f \in Seq(GazeRows), NEW row \in GazeRows
  PROVE  f \o << >> = f /\ f \o <<row>> = Append(f, row)
  OBVIOUS

\* The rows of one turn of the worker: the overflow that waits, the sample in hand.
LEMMA TurnRows ==
  ASSUME gaze \in Sidecars, PlacesInv, OverflowInv, RowsApart,
         NEW fo, fo = gaze.file \o OverflowRow, NEW f, f = fo \o SampleRow
  PROVE  /\ fo \in Seq(GazeRows) /\ Apart(fo) /\ f \in Seq(GazeRows) /\ Apart(f)
         /\ ToldIn(fo, "gaze") = Written /\ ToldIn(f, "gaze") = Written \cup Held
         /\ ToldIn(fo, "overflow") = Told \cup gaze.swapped
         /\ ToldIn(f, "overflow") = Told \cup gaze.swapped
<1> DEFINE g == gaze.file
           rowO == GazeRow("overflow", gaze.swapped)
           rowS == GazeRow("gaze", {gaze.item})
           f1 == IF gaze.swapped # {} THEN Append(g, rowO) ELSE g
<1>1. /\ g \in Seq(GazeRows) /\ gaze.swapped \in SUBSET Nat
      /\ gaze.item # NoSample => gaze.item \in Nat
  BY DEF Sidecars
<1>2. rowO \in GazeRows /\ (gaze.item # NoSample => rowS \in GazeRows)
  BY <1>1 DEF GazeRow, GazeRows
<1>3. fo = f1  BY <1>1, <1>2, RowsConcat DEF OverflowRow
<1>4. /\ Apart(g) /\ Written = ToldIn(g, "gaze") /\ Told = ToldIn(g, "overflow")  BY FileTold
<1>5. gaze.swapped \cap (ToldIn(g, "gaze") \cup ToldIn(g, "overflow")) = {}
  BY <1>4 DEF OverflowInv, PlacesInv
<1>6. /\ f1 \in Seq(GazeRows) /\ Apart(f1) /\ ToldIn(f1, "gaze") = Written
      /\ ToldIn(f1, "overflow") = Told \cup gaze.swapped
  <2>1. CASE gaze.swapped # {}
    <3>1. /\ Append(g, rowO) \in Seq(GazeRows) /\ Apart(Append(g, rowO))
          /\ ToldIn(Append(g, rowO), "gaze") = ToldIn(g, "gaze")
          /\ ToldIn(Append(g, rowO), "overflow") = ToldIn(g, "overflow") \cup gaze.swapped
      BY <1>1, <1>4, <1>5, AppendRow
    <3> QED  BY <2>1, <3>1, <1>4
  <2>2. CASE gaze.swapped = {}  BY <2>2, <1>1, <1>4
  <2> QED  BY <2>1, <2>2
<1> HIDE DEF f1, g
<1>7. f = f1 \o (IF gaze.item = NoSample THEN << >> ELSE <<rowS>>)  BY <1>3 DEF SampleRow
<1>8. CASE gaze.item = NoSample
  <2>1. f = f1  BY <1>2, <1>6, <1>7, <1>8, RowsConcat
  <2> QED  BY <2>1, <1>3, <1>6, <1>8 DEF Held
<1>9. CASE gaze.item # NoSample
  <2>1. f = Append(f1, rowS) /\ Held = {gaze.item}  BY <1>2, <1>6, <1>7, <1>9, RowsConcat DEF Held
  <2>2. Held \cap (Written \cup (Told \cup gaze.swapped)) = {} /\ {gaze.item} \in SUBSET Nat
    BY <1>1, <1>9 DEF OverflowInv, PlacesInv
  <2>3. {gaze.item} \cap (ToldIn(f1, "gaze") \cup ToldIn(f1, "overflow")) = {}  BY <2>1, <2>2, <1>6
  <2>4. /\ Append(f1, rowS) \in Seq(GazeRows) /\ Apart(Append(f1, rowS))
        /\ ToldIn(Append(f1, rowS), "gaze") = ToldIn(f1, "gaze") \cup {gaze.item}
        /\ ToldIn(Append(f1, rowS), "overflow") = ToldIn(f1, "overflow")
    BY <1>6, <2>2, <2>3, AppendRow
  <2> QED  BY <2>1, <2>4, <1>3, <1>6
<1> QED  BY <1>8, <1>9

\* The same for the state after a step.
LEMMA FileNow ==
  Written' = ToldIn(gaze'.file, "gaze") /\ Told' = ToldIn(gaze'.file, "overflow")
  /\ (Apart(gaze'.file) => RowsApart')
  BY DEF Written, Told, ToldBy, ToldIn, RowsApart, Apart

\* What is written or in hand comes before what waits, and the one in hand is last.
LEMMA InHand ==
  ASSUME gaze \in Sidecars, PlacesInv
  PROVE  /\ \A w \in Written \cup Held, m \in Queued : w <= m
         /\ \A w \in Written \cup Held, m \in Held : w <= m
<1>1. Held \subseteq Nat /\ Queued \subseteq Nat /\ \A k, m \in Held : k = m
  BY DEF Sidecars, Held, Queued
<1> QED  BY <1>1 DEF PlacesInv

\* The worker writes what it has: its sample, and the overflow before it.
LEMMA WritesKeeps ==
  ASSUME GazeInv, WorkerWrites
  PROVE  GazeInv'
<1> DEFINE f == gaze.file \o OverflowRow \o SampleRow
           next == IF gaze.item = NoSample THEN "drain" ELSE "loop"
<1>0. /\ gaze \in Sidecars /\ PlacesInv /\ OverflowInv /\ RowsApart /\ WorkerInv
      /\ gaze.worker = "write"
  BY DEF GazeInv, WorkerWrites
<1>1. gaze' = [gaze EXCEPT !.file = f, !.item = NoSample, !.swapped = {}, !.worker = next]
  BY DEF WorkerWrites
<1>2. /\ f \in Seq(GazeRows) /\ Apart(f)
      /\ ToldIn(f, "gaze") = Written \cup Held
      /\ ToldIn(f, "overflow") = Told \cup gaze.swapped
  BY <1>0, TurnRows
<1>3. next \in {"drain", "loop"} /\ (next = "drain" <=> gaze.item = NoSample)  OBVIOUS
<1> HIDE DEF f, next
<1>4. /\ gaze' \in Sidecars
      /\ gaze'.queue = gaze.queue /\ gaze'.index = gaze.index
      /\ gaze'.swapped = {} /\ gaze'.pending = gaze.pending
      /\ gaze'.item = NoSample /\ gaze'.worker = next
      /\ gaze'.file = f /\ gaze'.overflow = gaze.overflow /\ gaze'.unconfirmed = gaze.unconfirmed
      /\ gaze'.error = gaze.error /\ gaze'.stop = gaze.stop
      /\ gaze'.accepting = gaze.accepting
  BY <1>0, <1>1, <1>2, <1>3 DEF Sidecars
<1>5. Written' = Written \cup Held /\ Told' = Told \cup gaze.swapped /\ RowsApart'
  BY <1>2, <1>4, FileNow
<1>6. Queued' = Queued /\ Held' = {}  BY <1>4, SameQueue DEF Held
<1>7. /\ Rising(gaze'.queue) /\ gaze.unconfirmed = {}
      /\ \A w \in Written \cup Held, m \in Queued : w <= m
  BY <1>0, <1>4, InHand DEF PlacesInv, WorkerInv
<1>8. PlacesInv'  BY <1>0, <1>4, <1>5, <1>6, <1>7 DEF PlacesInv
<1>9. OverflowInv'  BY <1>0, <1>4, <1>5 DEF OverflowInv
<1>10. WorkerInv'  BY <1>0, <1>3, <1>4 DEF WorkerInv
<1> QED  BY <1>4, <1>5, <1>8, <1>9, <1>10 DEF GazeInv

\* A row or the flush raises: the sample in hand is unconfirmed, in the file or not.
LEMMA FailsKeeps ==
  ASSUME GazeInv, WorkerFails
  PROVE  GazeInv'
<1>0. /\ gaze \in Sidecars /\ PlacesInv /\ OverflowInv /\ RowsApart /\ WorkerInv
      /\ gaze.worker = "write"
  BY DEF GazeInv, WorkerFails
<1> DEFINE lost == gaze.unconfirmed \cup Held
           fo == gaze.file \o OverflowRow
           f == fo \o SampleRow
<1>1. PICK file \in {gaze.file, fo, f} :
         gaze' = [gaze EXCEPT !.file = file, !.error = TRUE, !.swapped = {},
                              !.item = NoSample, !.worker = "wait", !.unconfirmed = lost]
  <2>1. lost = IF gaze.item = NoSample THEN gaze.unconfirmed ELSE gaze.unconfirmed \cup {gaze.item}
    BY DEF Held
  <2> HIDE DEF lost
  <2> QED  BY <2>1, <1>0 DEF WorkerFails, Sidecars
<1>2. /\ gaze.file \in Seq(GazeRows) /\ lost \in SUBSET Nat  BY <1>0 DEF Sidecars, Held
<1>3. /\ Apart(gaze.file) /\ Written = ToldIn(gaze.file, "gaze")
      /\ Told = ToldIn(gaze.file, "overflow")
  BY <1>0, FileTold
<1>5. /\ fo \in Seq(GazeRows) /\ Apart(fo) /\ f \in Seq(GazeRows) /\ Apart(f)
      /\ ToldIn(fo, "gaze") = Written /\ ToldIn(f, "gaze") = Written \cup Held
      /\ ToldIn(fo, "overflow") = Told \cup gaze.swapped
      /\ ToldIn(f, "overflow") = Told \cup gaze.swapped
  BY <1>0, TurnRows
<1> HIDE DEF fo, f
<1>6. /\ file \in Seq(GazeRows) /\ Apart(file)
      /\ ToldIn(file, "gaze") \in {Written, Written \cup Held}
      /\ ToldIn(file, "overflow") \in {Told, Told \cup gaze.swapped}
  BY <1>1, <1>2, <1>3, <1>5
<1> HIDE DEF lost
<1>7. /\ gaze' \in Sidecars
      /\ gaze'.queue = gaze.queue /\ gaze'.index = gaze.index
      /\ gaze'.swapped = {} /\ gaze'.pending = gaze.pending
      /\ gaze'.item = NoSample /\ gaze'.worker = "wait"
      /\ gaze'.file = file /\ gaze'.overflow = gaze.overflow /\ gaze'.unconfirmed = lost
      /\ gaze'.error = TRUE /\ gaze'.stop = gaze.stop
      /\ gaze'.accepting = gaze.accepting
  BY <1>0, <1>1, <1>2, <1>6 DEF Sidecars
<1>8. /\ Written' \in {Written, Written \cup Held} /\ RowsApart'
      /\ Told' \in {Told, Told \cup gaze.swapped}
  BY <1>6, <1>7, FileNow
<1>9. Queued' = Queued /\ Held' = {}  BY <1>7, SameQueue DEF Held
<1>10. Rising(gaze'.queue) /\ lost = Held  BY <1>0, <1>7 DEF PlacesInv, WorkerInv, lost
<1>11. PlacesInv'
  <2>1. \A w \in Written', m \in Held' \cup Queued' \cup gaze'.unconfirmed : w <= m
    BY <1>0, <1>7, <1>8, <1>9, <1>10, InHand
  <2>2. /\ Written' \cup lost = Written \cup Held \cup gaze.unconfirmed
        /\ Written' \subseteq Written \cup Held
    BY <1>8 DEF lost
  <2> QED  BY <1>0, <1>7, <1>9, <1>10, <2>1, <2>2 DEF PlacesInv
<1>12. OverflowInv'  BY <1>0, <1>7, <1>8 DEF OverflowInv
<1>13. WorkerInv'  BY <1>0, <1>7 DEF WorkerInv
<1> QED  BY <1>7, <1>8, <1>11, <1>12, <1>13 DEF GazeInv

\* What is left in the queue is unconfirmed.
LEMMA DrainsKeeps ==
  ASSUME GazeInv, WorkerDrains
  PROVE  GazeInv'
<1>0. /\ gaze \in Sidecars /\ PlacesInv /\ OverflowInv /\ RowsApart /\ WorkerInv
      /\ gaze.worker = "drain" /\ gaze.queue \in Seq(Nat)
  BY DEF GazeInv, WorkerDrains, Sidecars
<1> DEFINE lost == gaze.unconfirmed \cup Queued
<1>1. PICK ok \in BOOLEAN :
         gaze' = [gaze EXCEPT !.unconfirmed = lost, !.queue = << >>, !.worker = "dead",
                              !.report = IF ok THEN "stored" ELSE "failed",
                              !.error = gaze.error \/ ~ok]
  BY <1>0 DEF WorkerDrains, Queued, Sidecars
<1> DEFINE report == IF ok THEN "stored" ELSE "failed"
           broken == gaze.error \/ ~ok
<1>2. /\ lost \in SUBSET Nat /\ report \in {"stored", "failed"}
      /\ broken \in BOOLEAN /\ (~broken => ~gaze.error)
  <2>1. Queued \subseteq Nat /\ gaze.unconfirmed \subseteq Nat /\ gaze.error \in BOOLEAN
    BY <1>0 DEF Queued, Sidecars
  <2> QED  BY <2>1
<1>3. gaze' = [gaze EXCEPT !.unconfirmed = lost, !.queue = << >>, !.worker = "dead",
                           !.report = report, !.error = broken]
  BY <1>1
<1> HIDE DEF lost, report, broken
<1>4. /\ gaze' \in Sidecars
      /\ gaze'.queue = << >> /\ gaze'.index = gaze.index
      /\ gaze'.swapped = gaze.swapped /\ gaze'.pending = gaze.pending
      /\ gaze'.item = gaze.item /\ gaze'.worker = "dead"
      /\ gaze'.file = gaze.file /\ gaze'.overflow = gaze.overflow /\ gaze'.unconfirmed = lost
      /\ gaze'.error = broken /\ gaze'.stop = gaze.stop
      /\ gaze'.accepting = gaze.accepting
  <2> DEFINE empty == << >>
  <2>1. empty \in Seq(Nat)  OBVIOUS
  <2>2. gaze' = [gaze EXCEPT !.unconfirmed = lost, !.queue = empty, !.worker = "dead",
                             !.report = report, !.error = broken]
    BY <1>3
  <2> HIDE DEF empty
  <2>3. gaze' \in Sidecars  BY <1>0, <1>2, <2>1, <2>2 DEF Sidecars
  <2>4. /\ gaze'.queue = empty /\ gaze'.index = gaze.index
        /\ gaze'.swapped = gaze.swapped /\ gaze'.pending = gaze.pending
        /\ gaze'.item = gaze.item /\ gaze'.worker = "dead"
        /\ gaze'.file = gaze.file /\ gaze'.overflow = gaze.overflow /\ gaze'.unconfirmed = lost
        /\ gaze'.error = broken /\ gaze'.stop = gaze.stop
        /\ gaze'.accepting = gaze.accepting
    BY <1>0, <2>2 DEF Sidecars
  <2> QED  BY <2>3, <2>4 DEF empty
<1>5. Written' = Written /\ Told' = Told /\ RowsApart'  BY <1>0, <1>4, SameFile
<1>6. Queued' = {} /\ Held' = {} /\ Held = {}  BY <1>0, <1>4 DEF Queued, Held, WorkerInv
<1>7. PlacesInv'
  <2>1. Rising(gaze'.queue)  BY <1>4 DEF Rising
  <2>2. \A w \in Written', m \in gaze'.unconfirmed : w <= m  BY <1>0, <1>4, <1>5 DEF PlacesInv, lost
  <2> QED  BY <1>0, <1>4, <1>5, <1>6, <2>1, <2>2 DEF PlacesInv, lost
<1>8. OverflowInv'  BY <1>0, <1>2, <1>4, <1>5 DEF OverflowInv
<1>9. ~broken => lost = {}
  <2>1. gaze.queue = << >> => Queued = {}  BY DEF Queued
  <2> QED  BY <1>0, <1>2, <2>1 DEF WorkerInv, lost
<1>10. WorkerInv'  BY <1>0, <1>2, <1>4, <1>9 DEF WorkerInv
<1> QED  BY <1>4, <1>5, <1>7, <1>8, <1>10 DEF GazeInv

\* A step of the worker, whichever it is.
LEMMA WorkerKeeps == ASSUME GazeInv, Worker PROVE GazeInv'
  BY StartKeeps, TakesKeeps, WritesKeeps, FailsKeeps, DrainsKeeps DEF Worker

\* A step of somebody else.
LEMMA GazeStutter == ASSUME GazeInv, UNCHANGED gaze PROVE GazeInv'
<1>1. PlacesInv' /\ RowsApart' /\ OverflowInv'  BY GazeFrame, OverflowFrame, SameFile DEF GazeInv
<1> QED  BY <1>1 DEF GazeInv, WorkerInv

\* When the file is closed nothing is queued or in hand, so every sample has its place.
LEMMA GazeAccounted == GazeInv => EverySampleIsAccounted
<1> SUFFICES ASSUME GazeInv, gaze.worker = "dead" PROVE EverySampleIsAccounted
  BY DEF EverySampleIsAccounted
<1>0. PlacesInv /\ OverflowInv /\ RowsApart /\ WorkerInv  BY DEF GazeInv
<1>1. Queued = {} /\ Held = {}  BY <1>0 DEF WorkerInv, Queued, Held
<1>2. /\ Written \cup gaze.overflow \cup gaze.unconfirmed = 0..(gaze.index - 1)
      /\ gaze.overflow \cap (Written \cup gaze.unconfirmed) = {}
      /\ \A w \in Written, u \in gaze.unconfirmed : w <= u
  BY <1>0, <1>1 DEF PlacesInv
<1>3. ~gaze.error => gaze.unconfirmed = {} /\ Told = gaze.overflow
  BY <1>0 DEF WorkerInv, OverflowInv
<1> QED  BY <1>0, <1>2, <1>3 DEF EverySampleIsAccounted, RowsApart

-----------------------------------------------------------------------------
(* The collection: each of the two programs with the tablet and the gaze file *)

Whats == {"request", "prepare", "start"}
Kinds == EventKinds \cup {"none"}
Dispositions == {"accepted", "duplicate", "stale_epoch", "stale_trial", "invalid_stage",
                 "early_end", "paused", "pre_show"}
Tasks == {"SURT", "NO_SURT", "VIDEO", "MISSING", "IDLE", "none"}
Stages == {"IDLE", "BLANK", "SURT_READY", "VIDEO_READY", "MEDIA_MISSING", "PREPARED",
           "START_REQUESTED", "STIMULUS_SHOWN", "MEDIA_PLAYING", "PAUSED", "ERROR",
           "EXPERIMENT_STOPPED"}
HandlerPcs == {"idle", "sent", "prepare", "start", "append", "put", "join", "appended",
               "answered", "refused", "broken"}
Ids == Threads \cup {NoItem} \cup (Threads \X Whats) \cup ({Main} \X {"end"} \X Nat)
Entries ==
  [id : Ids, by : Threads, what : Whats \cup {"end"}, kind : Kinds,
   trial : Threads \cup {NoItem}, disp : Dispositions]
Tabs ==
  [epoch : Nat, trial : Threads \cup {NoItem}, task : Tasks, before : Stages \cup {"none"},
   paused : BOOLEAN, meta : BOOLEAN, stage : Stages]
Handlers ==
  [pc : HandlerPcs, kind : Kinds, id : Threads \cup {NoItem}, epoch : Nat,
   trial : Threads \cup {NoItem}, disp : Dispositions, what : Whats]
Items == (Threads \X Whats) \cup {NoItem}
Sinks ==
  [on : BOOLEAN, queue : Seq(Items), unfinished : Int, item : Items, file : SUBSET Items,
   error : BOOLEAN, worker : {"alive", "dead", "none"}]

TabletTypes ==
  tab \in Tabs /\ post \in [Threads -> Handlers] /\ ledger \in Seq(Entries) /\ sink \in Sinks

\* The writer's worker: what is queued or in hand is an unfinished task, and a worker that
\* failed holds nothing and takes nothing more.
SinkInv ==
  /\ sink.unfinished >= Len(sink.queue)
  /\ sink.item # NoItem => /\ sink.worker = "alive" /\ ~sink.error
                           /\ sink.unfinished >= Len(sink.queue) + 1
  /\ sink.error => sink.worker # "alive"

InQueue(event) == \E k \in 1..Len(sink.queue) : sink.queue[k] = event

\* An event that the ledger holds is in the file, unless its thread is still on its way:
\* about to capture it, or waiting until the queue is done with it.  A thread that met an
\* error never answers.
OnItsWay(p, what) ==
  \/ post[p].pc = "put" /\ post[p].what = what
  \/ post[p].pc = "join" /\ post[p].what = what
       /\ (sink.error \/ sink.item = <<p, what>> \/ InQueue(<<p, what>>))
  \/ post[p].pc = "broken"

StoredInv ==
  sink.on => \A i \in 1..Len(ledger) :
               \/ <<ledger[i].by, ledger[i].what>> \in sink.file
               \/ OnItsWay(ledger[i].by, ledger[i].what)

TabletInv == TabletTypes /\ SinkInv /\ StoredInv /\ CountedOnce

\* A queued event is not the marker that ends the worker.
LEMMA NotTheMarker == \A p \in Threads, what \in Whats : <<p, what>> # NoItem
  BY TabletAssumption DEF Threads, Whats

\* Both programs begin with an empty ledger and an idle writer.
LEMMA TabletInvInit ==
  ASSUME NEW task \in {"SURT", "NO_SURT", "VIDEO", "MISSING", "none"}, NEW on \in BOOLEAN,
         TabletInit(task, on)
  PROVE  TabletInv /\ sink.on = on
<1>1. ledger = << >> /\ ledger \in Seq(Entries)  BY DEF TabletInit
<1>2. tab \in Tabs
  <2>1. tab = Configured(task)  BY DEF TabletInit
  <2> DEFINE stage == Configured(task).stage
  <2>2. stage \in Stages  BY DEF Configured, Stages
  <2>3. tab = [epoch |-> 1, trial |-> NoItem, task |-> task, before |-> "none",
               paused |-> FALSE, meta |-> FALSE, stage |-> stage]
    BY <2>1 DEF Configured
  <2> HIDE DEF stage
  <2> QED  BY <2>2, <2>3 DEF Tabs, Tasks
<1>3. post \in [Threads -> Handlers]
  <2>1. Idle \in Handlers /\ [Idle EXCEPT !.pc = "prepare"] \in Handlers
    BY DEF Idle, Handlers, Whats, HandlerPcs, Kinds, Dispositions
  <2> QED  BY <2>1 DEF TabletInit
<1>4. sink \in Sinks /\ sink.on = on /\ SinkInv
  <2> DEFINE empty == << >>
             worker == IF on THEN "alive" ELSE "none"
  <2>1. empty \in Seq(Items) /\ Len(empty) = 0 /\ worker \in {"alive", "dead", "none"}  OBVIOUS
  <2>2. sink = [on |-> on, queue |-> empty, unfinished |-> 0, item |-> NoItem,
                file |-> {}, error |-> FALSE, worker |-> worker]
    BY DEF TabletInit
  <2>3. NoItem \in Items  BY DEF Items
  <2> HIDE DEF empty, worker
  <2>4. sink \in Sinks  BY <2>1, <2>2, <2>3 DEF Sinks
  <2>5. sink.on = on /\ sink.queue = empty /\ sink.unfinished = 0 /\ sink.item = NoItem
        /\ sink.error = FALSE
    BY <2>2
  <2> QED  BY <2>1, <2>4, <2>5 DEF SinkInv
<1>5. StoredInv /\ CountedOnce  BY <1>1 DEF StoredInv, CountedOnce
<1> QED  BY <1>1, <1>2, <1>3, <1>4, <1>5 DEF TabletInv, TabletTypes

\* An event enters the ledger under its lock: a known identifier makes it a duplicate.
LEMMA LedgerGrows ==
  ASSUME ledger \in Seq(Entries), CountedOnce, NEW e \in Entries,
         Known(e.id) => e.disp = "duplicate", ledger' = Append(ledger, e)
  PROVE  /\ ledger' \in Seq(Entries) /\ CountedOnce'
         /\ Len(ledger') = Len(ledger) + 1 /\ ledger'[Len(ledger) + 1] = e
         /\ \A i \in 1..Len(ledger) : ledger'[i] = ledger[i]
<1>1. /\ ledger' \in Seq(Entries) /\ Len(ledger') = Len(ledger) + 1
      /\ ledger'[Len(ledger) + 1] = e /\ \A i \in 1..Len(ledger) : ledger'[i] = ledger[i]
  OBVIOUS
<1>2. CountedOnce'
  <2> SUFFICES ASSUME NEW i \in 1..(Len(ledger) + 1), NEW j \in 1..(Len(ledger) + 1),
                      i # j, ledger'[i].id = ledger'[j].id,
                      ledger'[i].disp = "accepted", ledger'[j].disp = "accepted"
               PROVE  FALSE
    BY <1>1 DEF CountedOnce
  <2>1. CASE i \in 1..Len(ledger) /\ j \in 1..Len(ledger)  BY <1>1, <2>1 DEF CountedOnce
  <2>2. CASE i = Len(ledger) + 1
    <3>1. j \in 1..Len(ledger)  BY <2>2
    <3> QED  BY <1>1, <2>2, <3>1 DEF Known
  <2>3. CASE j = Len(ledger) + 1
    <3>1. i \in 1..Len(ledger)  BY <2>3
    <3> QED  BY <1>1, <2>3, <3>1 DEF Known
  <2> QED  BY <2>1, <2>2, <2>3
<1> QED  BY <1>1, <1>2

\* A thread that is not on its way with an event may do as it likes with its own record
\* and with the tablet's state.
LEMMA HandlerMoves ==
  ASSUME TabletInv, NEW p \in Threads, post[p].pc \notin {"put", "join", "broken"},
         NEW r \in Handlers, post' = [post EXCEPT ![p] = r], tab' \in Tabs,
         UNCHANGED <<ledger, sink>>
  PROVE  TabletInv'
<1>0. TabletTypes /\ SinkInv /\ StoredInv /\ CountedOnce  BY DEF TabletInv
<1>1. post' \in [Threads -> Handlers] /\ \A q \in Threads : q # p => post'[q] = post[q]
  BY <1>0 DEF TabletTypes
<1>2. TabletTypes' /\ SinkInv' /\ CountedOnce'  BY <1>0, <1>1 DEF TabletTypes, SinkInv, CountedOnce
<1>3. StoredInv'
  <2> SUFFICES ASSUME sink.on, NEW i \in 1..Len(ledger),
                      <<ledger[i].by, ledger[i].what>> \notin sink.file
               PROVE  OnItsWay(ledger[i].by, ledger[i].what)'
    BY DEF StoredInv
  <2>0. ledger[i] \in Entries  BY <1>0 DEF TabletTypes
  <2>1. OnItsWay(ledger[i].by, ledger[i].what) /\ ledger[i].by \in Threads
    BY <1>0, <2>0 DEF StoredInv, Entries
  <2>2. ledger[i].by # p  BY <2>1 DEF OnItsWay
  <2>3. post'[ledger[i].by] = post[ledger[i].by]  BY <1>1, <2>1, <2>2
  <2> QED  BY <2>1, <2>3 DEF OnItsWay, InQueue
<1> QED  BY <1>2, <1>3 DEF TabletInv

\* What a handler is: typed, and one entry of its own record changes.
LEMMA HandlerTypes ==
  ASSUME TabletInv, NEW p \in Threads
  PROVE  /\ tab \in Tabs /\ post \in [Threads -> Handlers] /\ post[p] \in Handlers
         /\ post[p].trial \in Threads \cup {NoItem} /\ post[p].what \in Whats
         /\ post[p].kind \in Kinds /\ post[p].disp \in Dispositions
         /\ EventDisposition(post[p]) \in Dispositions
         /\ EpochDisposition(post[p]) \in Dispositions
<1>1. tab \in Tabs /\ post \in [Threads -> Handlers]  BY DEF TabletInv, TabletTypes
<1>2. post[p] \in Handlers  BY <1>1
<1> QED  BY <1>1, <1>2 DEF Handlers, Dispositions, EventDisposition, EpochDisposition

\* A handler that only goes on, with the state as it is or as its step makes it.
LEMMA GotoKeeps ==
  ASSUME TabletInv, NEW p \in Threads, post[p].pc \notin {"put", "join", "broken"},
         NEW pc \in HandlerPcs, Goto(p, pc), tab' \in Tabs, UNCHANGED <<ledger, sink>>
  PROVE  TabletInv'
<1> DEFINE r == [post[p] EXCEPT !.pc = pc]
<1>1. r \in Handlers /\ post' = [post EXCEPT ![p] = r]  BY HandlerTypes DEF Goto, Handlers
<1> QED  BY <1>1, HandlerMoves

\* A handler that has decided is about to append its event.
LEMMA DecidedKeeps ==
  ASSUME TabletInv, NEW p \in Threads, post[p].pc \notin {"put", "join", "broken"},
         NEW disp \in Dispositions, NEW next \in Tabs, Decided(p, disp, next)
  PROVE  TabletInv'
<1> DEFINE r == [post[p] EXCEPT !.pc = "append", !.disp = disp]
<1>1. r \in Handlers  BY HandlerTypes DEF Handlers, HandlerPcs
<1>2. post' = [post EXCEPT ![p] = r] /\ tab' \in Tabs /\ UNCHANGED <<ledger, sink>>
  BY HandlerTypes DEF Decided
<1> QED  BY <1>1, <1>2, HandlerMoves

\* A handler that refuses appends none.
LEMMA RefuseKeeps ==
  ASSUME TabletInv, NEW p \in Threads, post[p].pc \notin {"put", "join", "broken"}, Refuse(p)
  PROVE  TabletInv'
<1>1. tab' \in Tabs /\ UNCHANGED <<ledger, sink>> /\ Goto(p, "refused")
  BY DEF Refuse, TabletInv, TabletTypes
<1> QED  BY <1>1, GotoKeeps DEF HandlerPcs

\* Each request's handler changes the state, or refuses, before its event is appended.
LEMMA RequestKeeps ==
  ASSUME TabletInv, NEW p \in Threads,
         Acknowledge(p) \/ VideoMetadata(p) \/ Touch(p) \/ Pause(p) \/ Resume(p)
         \/ MediaEnded(p) \/ PageReport(p)
  PROVE  TabletInv'
<1> DEFINE staged(stage) == [tab EXCEPT !.stage = stage]
           halted == [tab EXCEPT !.before = tab.stage, !.paused = TRUE, !.stage = "PAUSED"]
           resumed(stage) == [tab EXCEPT !.before = "none", !.paused = FALSE, !.stage = stage]
           measured == [tab EXCEPT !.meta = TRUE]
           d == EventDisposition(post[p])
           e == EpochDisposition(post[p])
<1>1. post[p].pc \notin {"put", "join", "broken"}
  BY DEF Acknowledge, VideoMetadata, Touch, Pause, Resume, MediaEnded, PageReport, Reads
<1>2. /\ tab \in Tabs /\ d \in Dispositions /\ e \in Dispositions
      /\ tab.stage \in Stages /\ tab.before \in Stages \cup {"none"}
  BY HandlerTypes DEF Tabs
<1>3. /\ \A stage \in Stages : staged(stage) \in Tabs /\ resumed(stage) \in Tabs
      /\ halted \in Tabs /\ measured \in Tabs
  BY <1>2, ZenonT(40) DEF Tabs, Stages
<1>4. \/ Refuse(p)
      \/ \E disp \in Dispositions, next \in Tabs : Decided(p, disp, next)
  <2>1. CASE Acknowledge(p)
    <3>1. staged("STIMULUS_SHOWN") \in Tabs /\ staged("MEDIA_PLAYING") \in Tabs  BY <1>3 DEF Stages
    <3>2. "accepted" \in Dispositions /\ "invalid_stage" \in Dispositions  BY DEF Dispositions
    <3>3. \/ Decided(p, d, tab) \/ Decided(p, "invalid_stage", tab) \/ Refuse(p)
          \/ Decided(p, d, staged("STIMULUS_SHOWN"))
          \/ Decided(p, d, staged("MEDIA_PLAYING"))
      BY <2>1 DEF Acknowledge, Reads
    <3> HIDE DEF d, staged
    <3> QED  BY <1>2, <3>1, <3>2, <3>3
  <2>2. CASE VideoMetadata(p)
    <3>1. \/ Decided(p, d, tab) \/ Decided(p, d, measured) \/ Refuse(p)  BY <2>2 DEF VideoMetadata
    <3> HIDE DEF d, measured
    <3> QED  BY <1>2, <1>3, <3>1
  <2>3. CASE Touch(p)
    <3> DEFINE disp == IF d # "accepted" THEN d
                       ELSE IF tab.paused THEN "paused"
                       ELSE IF tab.stage # "STIMULUS_SHOWN" THEN "pre_show" ELSE d
    <3>1. Decided(p, disp, tab)  BY <2>3 DEF Touch
    <3>2. disp \in Dispositions  BY <1>2 DEF Dispositions
    <3> HIDE DEF disp
    <3> QED  BY <1>2, <3>1, <3>2
  <2>4. CASE Pause(p)
    <3>1. Decided(p, e, tab) \/ Decided(p, e, halted) \/ Refuse(p)  BY <2>4 DEF Pause
    <3> HIDE DEF e, halted
    <3> QED  BY <1>2, <1>3, <3>1
  <2>5. CASE Resume(p)
    <3> DEFINE stage == IF tab.before = "none" THEN "SURT_READY" ELSE tab.before
    <3>1. Decided(p, e, tab) \/ Decided(p, e, resumed(stage)) \/ Refuse(p)  BY <2>5 DEF Resume
    <3>2. stage \in Stages  BY <1>2 DEF Stages
    <3>3. resumed(stage) \in Tabs  BY <1>3, <3>2
    <3> HIDE DEF e, resumed, stage
    <3> QED  BY <1>2, <3>1, <3>3
  <2>6. CASE MediaEnded(p)
    <3>1. Decided(p, d, tab) \/ Decided(p, "early_end", staged("ERROR"))  BY <2>6 DEF MediaEnded
    <3>2. staged("ERROR") \in Tabs /\ "early_end" \in Dispositions  BY <1>3 DEF Stages, Dispositions
    <3> HIDE DEF d, staged
    <3> QED  BY <1>2, <3>1, <3>2
  <2>7. CASE PageReport(p)
    <3>1. Decided(p, e, tab) \/ Decided(p, e, staged("ERROR"))  BY <2>7 DEF PageReport
    <3>2. staged("ERROR") \in Tabs  BY <1>3 DEF Stages
    <3> HIDE DEF e, staged
    <3> QED  BY <1>2, <3>1, <3>2
  <2> QED  BY <2>1, <2>2, <2>3, <2>4, <2>5, <2>6, <2>7
<1> QED  BY <1>1, <1>4, DecidedKeeps, RefuseKeeps

\* What follows an event, and the trial that a touch begins.
LEMMA TrialKeeps ==
  ASSUME TabletInv, NEW p \in Threads, Follow(p) \/ Prepare(p) \/ RequestStart(p)
  PROVE  TabletInv'
<1>1. post[p].pc \notin {"put", "join", "broken"} /\ UNCHANGED <<ledger, sink>>
  BY DEF Follow, Prepare, RequestStart, Refuse
<1>2. tab \in Tabs /\ post \in [Threads -> Handlers] /\ post[p] \in Handlers  BY HandlerTypes
<1>3. CASE Follow(p)
  <2> DEFINE cleared == [Configured("IDLE") EXCEPT !.epoch = tab.epoch + 1]
  <2>1. cleared \in Tabs
    <3> DEFINE stage == Configured("IDLE").stage
               blank == [epoch |-> 1, trial |-> NoItem, task |-> "IDLE", before |-> "none",
                         paused |-> FALSE, meta |-> FALSE, stage |-> stage]
    <3>1. stage \in Stages  BY DEF Configured, Stages
    <3>2. Configured("IDLE") = blank  BY DEF Configured
    <3> HIDE DEF stage
    <3>3. blank \in Tabs  BY <3>1 DEF Tabs, Tasks
    <3> HIDE DEF blank
    <3>4. cleared = [blank EXCEPT !.epoch = tab.epoch + 1]  BY <3>2
    <3>5. tab.epoch + 1 \in Nat  BY <1>2 DEF Tabs
    <3> HIDE DEF cleared
    <3> QED  BY <3>3, <3>4, <3>5 DEF Tabs
  <2>2. \/ Goto(p, "prepare") /\ UNCHANGED tab
        \/ Goto(p, "answered") /\ tab' = cleared
        \/ Goto(p, "start") /\ UNCHANGED tab
        \/ Goto(p, "answered") /\ UNCHANGED tab
    BY <1>3 DEF Follow
  <2>3. tab' \in Tabs  BY <1>2, <2>1, <2>2
  <2> QED  BY <1>1, <2>2, <2>3, GotoKeeps DEF HandlerPcs
<1>4. CASE Prepare(p) /\ ~Refuse(p)
  <2> DEFINE r == [post[p] EXCEPT !.pc = "append", !.what = "prepare", !.trial = p,
                                  !.disp = "accepted"]
  <2>1. /\ post' = [post EXCEPT ![p] = r]
        /\ tab' = [tab EXCEPT !.trial = p, !.stage = "PREPARED"]
    BY <1>4, <1>2 DEF Prepare
  <2>2. r \in Handlers  BY <1>2 DEF Handlers, HandlerPcs, Whats, Dispositions
  <2>3. tab' \in Tabs  BY <1>2, <2>1 DEF Tabs, Stages
  <2> QED  BY <1>1, <2>1, <2>2, <2>3, HandlerMoves
<1>5. CASE RequestStart(p) /\ ~Refuse(p)
  <2> DEFINE r == [post[p] EXCEPT !.pc = "append", !.what = "start"]
  <2>1. post' = [post EXCEPT ![p] = r] /\ tab' = [tab EXCEPT !.stage = "START_REQUESTED"]
    BY <1>5, <1>2 DEF RequestStart
  <2>2. r \in Handlers  BY <1>2 DEF Handlers, HandlerPcs, Whats
  <2>3. tab' \in Tabs  BY <1>2, <2>1 DEF Tabs, Stages
  <2> QED  BY <1>1, <2>1, <2>2, <2>3, HandlerMoves
<1> QED  BY <1>1, <1>3, <1>4, <1>5, RefuseKeeps

\* A request is made of the state that its page polled, or of an earlier request.
LEMMA SendKeeps ==
  ASSUME TabletInv, NEW p \in Posts, NEW kinds \in SUBSET EventKinds, Send(p, kinds)
  PROVE  TabletInv'
<1>1. /\ p \in Threads /\ post[p].pc \notin {"put", "join", "broken"}
      /\ UNCHANGED <<ledger, sink>> /\ tab' \in Tabs /\ Posts \subseteq Threads
  BY DEF Send, Threads, TabletInv, TabletTypes
<1> DEFINE r(kind, id, epoch, trial) ==
             [Idle EXCEPT !.pc = "sent", !.kind = kind, !.id = id, !.epoch = epoch,
                          !.trial = trial]
<1>2. \A kind \in Kinds, id \in Threads, epoch \in Nat, trial \in Threads \cup {NoItem} :
         r(kind, id, epoch, trial) \in Handlers
  BY DEF Idle, Handlers, HandlerPcs, Dispositions, Whats
<1>3. tab.epoch \in Nat /\ tab.trial \in Threads \cup {NoItem}  BY DEF TabletInv, TabletTypes, Tabs
<1>4. CASE \E kind \in kinds : post' = [post EXCEPT ![p] = r(kind, p, tab.epoch, tab.trial)]
  <2>1. PICK kind \in kinds : post' = [post EXCEPT ![p] = r(kind, p, tab.epoch, tab.trial)]  BY <1>4
  <2>2. kind \in Kinds  BY DEF Kinds
  <2>3. r(kind, p, tab.epoch, tab.trial) \in Handlers  BY <1>1, <1>2, <1>3, <2>2
  <2> QED  BY <1>1, <2>1, <2>3, HandlerMoves
<1>5. CASE \E q \in Posts : post' = [post EXCEPT ![p] = r(post[q].kind, q, post[q].epoch,
                                                          post[q].trial)]
  <2>1. PICK q \in Posts : post' = [post EXCEPT ![p] = r(post[q].kind, q, post[q].epoch,
                                                         post[q].trial)]
    BY <1>5
  <2>2. post[q] \in Handlers /\ q \in Threads  BY <1>1 DEF TabletInv, TabletTypes
  <2>3. /\ post[q].kind \in Kinds /\ post[q].epoch \in Nat
        /\ post[q].trial \in Threads \cup {NoItem}
    BY <2>2 DEF Handlers
  <2>4. r(post[q].kind, q, post[q].epoch, post[q].trial) \in Handlers  BY <1>2, <2>2, <2>3
  <2> QED  BY <1>1, <2>1, <2>4, HandlerMoves
<1> QED  BY <1>4, <1>5 DEF Send

\* The event is in the ledger, and its thread about to capture it.
LEMMA RecordEventKeeps ==
  ASSUME TabletInv, NEW p \in Threads, RecordEvent(p)
  PROVE  TabletInv'
<1> DEFINE id == EventId(p)
           e == [id |-> id, by |-> p, what |-> post[p].what, kind |-> post[p].kind,
                 trial |-> post[p].trial, disp |-> Recorded(post[p].disp, id)]
           n == Len(ledger)
<1>0. /\ TabletTypes /\ SinkInv /\ StoredInv /\ CountedOnce /\ post[p].pc = "append"
      /\ ledger \in Seq(Entries) /\ n \in Nat
  BY DEF TabletInv, TabletTypes, RecordEvent
<1>1. id \in Ids
  <2>1. post[p].id \in Threads \cup {NoItem} /\ post[p].what \in Whats  BY HandlerTypes DEF Handlers
  <2> QED  BY <2>1 DEF EventId, Ids
<1>2. Recorded(post[p].disp, id) \in Dispositions /\ (Known(id) => Recorded(post[p].disp, id) = "duplicate")
  BY HandlerTypes DEF Recorded, Dispositions
<1>3. /\ e.id = id /\ e.by = p /\ e.what = post[p].what
      /\ (Known(e.id) => e.disp = "duplicate")
  BY <1>2
<1>4. ledger' = Append(ledger, e)  BY DEF RecordEvent
<1>5. e \in Entries
  <2> DEFINE disp == Recorded(post[p].disp, id)
  <2>1. e = [id |-> id, by |-> p, what |-> post[p].what, kind |-> post[p].kind,
             trial |-> post[p].trial, disp |-> disp]
    OBVIOUS
  <2>2. disp \in Dispositions  BY <1>2
  <2> HIDE DEF e, id, disp
  <2> QED  BY <1>1, <2>1, <2>2, HandlerTypes DEF Entries
<1> HIDE DEF e, id
<1>6. /\ ledger' \in Seq(Entries) /\ CountedOnce'
      /\ Len(ledger') = n + 1 /\ ledger'[n + 1] = e
      /\ \A i \in 1..n : ledger'[i] = ledger[i]
  BY <1>0, <1>3, <1>4, <1>5, LedgerGrows
<1>7. PICK pc \in {"put", "appended"} : /\ post' = [post EXCEPT ![p].pc = pc]
                                        /\ sink.on => pc = "put"
  BY DEF RecordEvent, Goto
<1>8. UNCHANGED <<tab, sink>>  BY DEF RecordEvent
<1>9. /\ post' \in [Threads -> Handlers] /\ \A q \in Threads : q # p => post'[q] = post[q]
      /\ post'[p].pc = pc /\ post'[p].what = post[p].what
  BY <1>7, HandlerTypes DEF Handlers, HandlerPcs
<1>10. TabletTypes' /\ SinkInv'  BY <1>0, <1>6, <1>8, <1>9 DEF TabletTypes, SinkInv
<1>11. StoredInv'
  <2> SUFFICES ASSUME sink.on, NEW i \in 1..(n + 1)
               PROVE  (\/ <<ledger[i].by, ledger[i].what>> \in sink.file
                       \/ OnItsWay(ledger[i].by, ledger[i].what))'
    BY <1>6, <1>8 DEF StoredInv
  <2>1. CASE i = n + 1
    <3>1. ledger'[i].by = p /\ ledger'[i].what = post[p].what  BY <1>3, <1>6, <2>1
    <3> QED  BY <1>7, <1>9, <3>1 DEF OnItsWay
  <2>2. CASE i \in 1..n
    <3>0. ledger[i] \in Entries /\ ledger'[i] = ledger[i]  BY <1>0, <1>6, <2>2
    <3>1. ledger[i].by \in Threads  BY <3>0 DEF Entries
    <3>2. CASE <<ledger[i].by, ledger[i].what>> \in sink.file  BY <1>8, <3>0, <3>2
    <3>3. CASE OnItsWay(ledger[i].by, ledger[i].what)
      <4>1. ledger[i].by # p  BY <1>0, <3>3 DEF OnItsWay
      <4>2. post'[ledger[i].by] = post[ledger[i].by]  BY <1>9, <3>1, <4>1
      <4> QED  BY <1>8, <3>0, <3>3, <4>2 DEF OnItsWay, InQueue
    <3> QED  BY <1>0, <2>2, <3>2, <3>3 DEF StoredInv
  <2> QED  BY <1>0, <2>1, <2>2
<1> QED  BY <1>6, <1>10, <1>11 DEF TabletInv

\* One thread goes on while the sink changes: its own events must be stored or on their
\* way, and those of the others must be no worse off.
LEMMA SinkMoves ==
  ASSUME TabletInv, sink' \in Sinks, SinkInv', sink'.on = sink.on, UNCHANGED <<tab, ledger>>,
         post' \in [Threads -> Handlers],
         \A p \in Threads, what \in Whats \cup {"end"} :
            (<<p, what>> \in sink.file \/ OnItsWay(p, what))
              => (<<p, what>> \in sink.file \/ OnItsWay(p, what))'
  PROVE  TabletInv'
<1>0. TabletTypes /\ StoredInv /\ CountedOnce /\ ledger \in Seq(Entries)
  BY DEF TabletInv, TabletTypes
<1>1. StoredInv'
  <2> SUFFICES ASSUME sink.on, NEW i \in 1..Len(ledger)
               PROVE  (\/ <<ledger[i].by, ledger[i].what>> \in sink.file
                       \/ OnItsWay(ledger[i].by, ledger[i].what))'
    BY DEF StoredInv
  <2>1. ledger[i] \in Entries  BY <1>0
  <2>2. ledger[i].by \in Threads /\ ledger[i].what \in Whats \cup {"end"}  BY <2>1 DEF Entries
  <2>3. <<ledger[i].by, ledger[i].what>> \in sink.file \/ OnItsWay(ledger[i].by, ledger[i].what)
    BY <1>0 DEF StoredInv
  <2> QED  BY <2>2, <2>3
<1> QED  BY <1>0, <1>1 DEF TabletInv, TabletTypes, CountedOnce

\* Something is queued: what was queued still is.
LEMMA SinkGrows ==
  ASSUME sink \in Sinks, SinkInv, NEW item \in Items,
         sink' = [sink EXCEPT !.queue = Append(@, item), !.unfinished = @ + 1]
  PROVE  /\ sink' \in Sinks /\ SinkInv' /\ sink'.on = sink.on /\ sink'.file = sink.file
         /\ sink'.error = sink.error /\ sink'.item = sink.item
         /\ \A event : InQueue(event) => InQueue(event)'
         /\ InQueue(item)'
<1> DEFINE queue == Append(sink.queue, item)
           unfinished == sink.unfinished + 1
           n == Len(sink.queue)
<1>1. sink.queue \in Seq(Items) /\ sink.unfinished \in Int /\ n \in Nat  BY DEF Sinks
<1>2. /\ queue \in Seq(Items) /\ Len(queue) = n + 1 /\ queue[n + 1] = item
      /\ \A k \in 1..n : queue[k] = sink.queue[k]
  BY <1>1
<1>3. unfinished \in Int /\ unfinished = sink.unfinished + 1  BY <1>1
<1>4. sink' = [sink EXCEPT !.queue = queue, !.unfinished = unfinished]  OBVIOUS
<1> HIDE DEF queue, unfinished
<1>5. sink' \in Sinks  BY <1>2, <1>3, <1>4 DEF Sinks
<1>6. /\ sink'.queue = queue /\ sink'.unfinished = unfinished /\ sink'.on = sink.on
      /\ sink'.file = sink.file /\ sink'.error = sink.error /\ sink'.item = sink.item
      /\ sink'.worker = sink.worker
  BY <1>4 DEF Sinks
<1>7. SinkInv'  BY <1>1, <1>2, <1>3, <1>6 DEF SinkInv
<1>8. \A event : InQueue(event) => InQueue(event)'
  <2> SUFFICES ASSUME NEW event, InQueue(event) PROVE InQueue(event)'  OBVIOUS
  <2>1. PICK k \in 1..n : sink.queue[k] = event  BY DEF InQueue
  <2>2. k \in 1..(n + 1) /\ queue[k] = event  BY <1>1, <1>2, <2>1
  <2> QED  BY <1>2, <1>6, <2>2 DEF InQueue
<1>9. InQueue(item)'
  <2>1. n + 1 \in 1..(n + 1)  BY <1>1
  <2> QED  BY <1>2, <1>6, <2>1 DEF InQueue
<1> QED  BY <1>5, <1>6, <1>7, <1>8, <1>9

\* The event is queued, unless the writer was closed.
LEMMA PutKeeps ==
  ASSUME TabletInv, NEW p \in Threads, Put(p)
  PROVE  TabletInv'
<1>0. /\ TabletTypes /\ SinkInv /\ StoredInv /\ CountedOnce /\ post[p].pc = "put"
      /\ sink \in Sinks /\ post \in [Threads -> Handlers] /\ UNCHANGED <<tab, ledger>>
  BY DEF TabletInv, TabletTypes, Put
<1>1. CASE Goto(p, "broken") /\ UNCHANGED sink
  <2>1. /\ post' \in [Threads -> Handlers] /\ post'[p].pc = "broken"
        /\ \A q \in Threads : q # p => post'[q] = post[q]
    BY <1>0, <1>1 DEF Goto, Handlers, HandlerPcs
  <2>2. ASSUME NEW q \in Threads, NEW what, OnItsWay(q, what) PROVE OnItsWay(q, what)'
    BY <1>1, <2>1, <2>2 DEF OnItsWay, InQueue
  <2>3. sink' \in Sinks /\ SinkInv' /\ sink'.on = sink.on /\ sink'.file = sink.file
    BY <1>0, <1>1 DEF SinkInv
  <2> QED  BY <1>0, <2>1, <2>2, <2>3, SinkMoves
<1>2. CASE /\ sink' = [sink EXCEPT !.queue = Append(@, <<p, post[p].what>>), !.unfinished = @ + 1]
           /\ Goto(p, "join")
  <2>1. /\ post' \in [Threads -> Handlers] /\ post'[p].pc = "join" /\ post[p].what \in Whats
        /\ post'[p].what = post[p].what /\ \A q \in Threads : q # p => post'[q] = post[q]
    BY <1>0, <1>2, HandlerTypes DEF Goto, Handlers, HandlerPcs
  <2>2. PICK item \in Items : item = <<p, post[p].what>>  BY <2>1 DEF Items
  <2>0. sink' = [sink EXCEPT !.queue = Append(@, item), !.unfinished = @ + 1]  BY <1>2, <2>2
  <2>3. /\ sink' \in Sinks /\ SinkInv' /\ sink'.on = sink.on /\ sink'.file = sink.file
        /\ sink'.error = sink.error /\ sink'.item = sink.item
        /\ \A event : InQueue(event) => InQueue(event)'
        /\ InQueue(item)'
    BY <1>0, <2>0, SinkGrows
  <2>4. ASSUME NEW q \in Threads, NEW what, OnItsWay(q, what) PROVE OnItsWay(q, what)'
    <3>1. CASE q = p
      <4>1. what = post[p].what  BY <1>0, <2>4, <3>1 DEF OnItsWay
      <4>2. InQueue(<<q, what>>)'  BY <2>2, <2>3, <3>1, <4>1
      <4> QED  BY <2>1, <3>1, <4>1, <4>2 DEF OnItsWay
    <3>2. CASE q # p
      <4>1. post'[q] = post[q]  BY <2>1, <3>2
      <4>2. InQueue(<<q, what>>) => InQueue(<<q, what>>)'  BY <2>3
      <4> QED  BY <2>3, <2>4, <4>1, <4>2 DEF OnItsWay
    <3> QED  BY <3>1, <3>2
  <2> QED  BY <1>0, <2>1, <2>3, <2>4, SinkMoves
<1> QED  BY <1>1, <1>2 DEF Put

\* Nothing is unfinished: the event is in the file, unless the worker met an error.
LEMMA JoinKeeps ==
  ASSUME TabletInv, NEW p \in Threads, Join(p)
  PROVE  TabletInv'
<1>0. /\ TabletTypes /\ SinkInv /\ post[p].pc = "join" /\ sink.unfinished = 0
      /\ sink \in Sinks /\ post \in [Threads -> Handlers] /\ UNCHANGED <<tab, ledger, sink>>
      /\ sink.queue \in Seq(Items)
  BY DEF TabletInv, TabletTypes, Join, Sinks
<1>1. Len(sink.queue) = 0 /\ sink.item = NoItem  BY <1>0 DEF SinkInv
<1>2. /\ post' \in [Threads -> Handlers] /\ post'[p].pc = IF sink.error THEN "broken" ELSE "appended"
      /\ \A q \in Threads : q # p => post'[q] = post[q]
  BY <1>0 DEF Join, Goto, Handlers, HandlerPcs
<1>3. ASSUME NEW q \in Threads, NEW what, OnItsWay(q, what) PROVE OnItsWay(q, what)'
  <2>1. CASE q = p
    <3>1. what = post[p].what /\ what \in Whats  BY <1>0, <1>3, <2>1, HandlerTypes DEF OnItsWay
    <3>2. ~InQueue(<<q, what>>) /\ sink.item # <<q, what>>  BY <1>1, <3>1, NotTheMarker DEF InQueue
    <3>3. sink.error  BY <1>0, <1>3, <2>1, <3>2 DEF OnItsWay
    <3> QED  BY <1>2, <2>1, <3>3 DEF OnItsWay
  <2>2. CASE q # p
    <3>1. post'[q] = post[q]  BY <1>2, <2>2
    <3> QED  BY <1>0, <1>3, <3>1 DEF OnItsWay, InQueue
  <2> QED  BY <2>1, <2>2
<1>4. sink' \in Sinks /\ SinkInv' /\ sink'.on = sink.on /\ sink'.file = sink.file
  BY <1>0 DEF SinkInv
<1> QED  BY <1>0, <1>2, <1>3, <1>4, SinkMoves

\* The worker takes what is queued first.
LEMMA TakeKeeps ==
  ASSUME TabletInv, Take
  PROVE  TabletInv'
<1> DEFINE queue == Tail(sink.queue)
           head == Head(sink.queue)
           n == Len(sink.queue)
<1>0. /\ TabletTypes /\ SinkInv /\ sink \in Sinks /\ post \in [Threads -> Handlers]
      /\ sink.worker = "alive" /\ sink.item = NoItem /\ sink.queue # << >>
      /\ sink.queue \in Seq(Items) /\ sink.unfinished \in Int /\ ~sink.error
      /\ UNCHANGED <<tab, ledger, post>>
  BY DEF TabletInv, TabletTypes, Take, Sinks, SinkInv
<1>1. /\ n \in Nat /\ n > 0 /\ queue \in Seq(Items) /\ Len(queue) = n - 1
      /\ head = sink.queue[1] /\ head \in Items
      /\ \A k \in 1..(n - 1) : queue[k] = sink.queue[k + 1]
  BY <1>0
<1>2. \/ head = NoItem /\ sink' = [sink EXCEPT !.queue = queue, !.worker = "dead"]
      \/ head # NoItem /\ sink' = [sink EXCEPT !.queue = queue, !.item = head]
  BY DEF Take
<1> HIDE DEF queue, head
<1>3. sink' \in Sinks  BY <1>0, <1>1, <1>2 DEF Sinks
<1>4. /\ sink'.queue = queue /\ sink'.on = sink.on /\ sink'.file = sink.file
      /\ sink'.error = sink.error /\ sink'.unfinished = sink.unfinished
  BY <1>0, <1>2 DEF Sinks
<1>5. /\ sink'.item = head
      /\ head # NoItem => sink'.worker = "alive"
  BY <1>0, <1>2 DEF Sinks
<1>6. SinkInv'
  <2>1. sink.unfinished >= n  BY <1>0 DEF SinkInv
  <2> QED  BY <1>0, <1>1, <1>4, <1>5, <2>1 DEF SinkInv
<1>7. ASSUME NEW q \in Threads, NEW what, OnItsWay(q, what) PROVE OnItsWay(q, what)'
  <2>1. CASE post[q].pc = "join"
    <3>1. what \in Whats /\ <<q, what>> # NoItem
      BY <1>7, <2>1, HandlerTypes, NotTheMarker DEF OnItsWay
    <3>2. InQueue(<<q, what>>)  BY <1>0, <1>7, <2>1, <3>1 DEF OnItsWay
    <3>3. PICK k \in 1..n : sink.queue[k] = <<q, what>>  BY <3>2 DEF InQueue
    <3>4. CASE k = 1  BY <1>0, <1>1, <1>5, <1>7, <2>1, <3>3, <3>4 DEF OnItsWay
    <3>5. CASE k # 1
      <4>1. k - 1 \in 1..(n - 1) /\ queue[k - 1] = <<q, what>>  BY <1>1, <3>3, <3>5
      <4>2. InQueue(<<q, what>>)'  BY <1>1, <1>4, <4>1 DEF InQueue
      <4> QED  BY <1>0, <1>7, <2>1, <4>2 DEF OnItsWay
    <3> QED  BY <3>4, <3>5
  <2>2. CASE post[q].pc # "join"  BY <1>0, <1>7, <2>2 DEF OnItsWay
  <2> QED  BY <2>1, <2>2
<1> QED  BY <1>0, <1>3, <1>4, <1>6, <1>7, SinkMoves

\* The event in hand is written, or the worker ends with an error.
LEMMA WriteEventKeeps ==
  ASSUME TabletInv, NEW fails \in BOOLEAN, WriteEvent(fails)
  PROVE  TabletInv'
<1> DEFINE file == IF fails THEN sink.file ELSE sink.file \cup {sink.item}
           worker == IF fails THEN "dead" ELSE sink.worker
           unfinished == sink.unfinished - 1
<1>0. /\ TabletTypes /\ SinkInv /\ sink \in Sinks /\ post \in [Threads -> Handlers]
      /\ sink.item # NoItem /\ ~sink.error /\ sink.worker = "alive"
      /\ sink.unfinished \in Int /\ sink.unfinished >= Len(sink.queue) + 1
      /\ sink.queue \in Seq(Items)
      /\ UNCHANGED <<tab, ledger, post>>
  BY DEF TabletInv, TabletTypes, WriteEvent, Sinks, SinkInv
<1>1. sink' = [sink EXCEPT !.item = NoItem, !.unfinished = unfinished, !.file = file,
                           !.error = fails, !.worker = worker]
  BY DEF WriteEvent
<1>2. /\ file \in SUBSET Items /\ worker \in {"alive", "dead"} /\ unfinished \in Int
      /\ unfinished >= Len(sink.queue) /\ NoItem \in Items /\ (fails => worker = "dead")
      /\ sink.file \subseteq file /\ (~fails => sink.item \in file)
  BY <1>0 DEF Sinks, Items
<1> HIDE DEF file, worker, unfinished
<1>3. sink' \in Sinks  BY <1>0, <1>1, <1>2 DEF Sinks
<1>4. /\ sink'.queue = sink.queue /\ sink'.on = sink.on /\ sink'.file = file
      /\ sink'.error = fails /\ sink'.unfinished = unfinished /\ sink'.worker = worker
      /\ sink'.item = NoItem
  BY <1>0, <1>1 DEF Sinks
<1>5. SinkInv'  BY <1>0, <1>2, <1>4 DEF SinkInv
<1>6. ASSUME NEW q \in Threads, NEW what, OnItsWay(q, what)
      PROVE  <<q, what>> \in sink'.file \/ OnItsWay(q, what)'
  <2>1. CASE fails  BY <1>0, <1>4, <1>6, <2>1 DEF OnItsWay
  <2>2. CASE ~fails  BY <1>0, <1>2, <1>4, <1>6, <2>2 DEF OnItsWay, InQueue
  <2> QED  BY <2>1, <2>2
<1> QED  BY <1>0, <1>2, <1>3, <1>4, <1>5, <1>6, SinkMoves

\* serve_tablet ends its writer's worker and waits for it.
LEMMA WriterKeeps ==
  ASSUME TabletInv, StopWriter \/ WriterJoined
  PROVE  TabletInv'
<1>0. /\ TabletTypes /\ SinkInv /\ sink \in Sinks /\ post \in [Threads -> Handlers]
      /\ UNCHANGED <<tab, ledger, post>>
  BY DEF TabletInv, TabletTypes, StopWriter, WriterJoined
<1>1. CASE StopWriter
  <2>1. NoItem \in Items  BY DEF Items
  <2>2. /\ sink' \in Sinks /\ SinkInv' /\ sink'.on = sink.on /\ sink'.file = sink.file
        /\ sink'.error = sink.error /\ sink'.item = sink.item
        /\ \A event : InQueue(event) => InQueue(event)'
    BY <1>0, <1>1, <2>1, SinkGrows DEF StopWriter
  <2>3. ASSUME NEW q \in Threads, NEW what, OnItsWay(q, what) PROVE OnItsWay(q, what)'
    <3>1. InQueue(<<q, what>>) => InQueue(<<q, what>>)'  BY <2>2
    <3> QED  BY <1>0, <2>2, <2>3, <3>1 DEF OnItsWay
  <2> QED  BY <1>0, <2>2, <2>3, SinkMoves
<1>2. CASE WriterJoined
  <2>1. sink' = [sink EXCEPT !.worker = "none"] /\ sink.worker = "dead"  BY <1>2 DEF WriterJoined
  <2>2. sink' \in Sinks  BY <1>0, <2>1 DEF Sinks
  <2>3. /\ sink'.queue = sink.queue /\ sink'.on = sink.on /\ sink'.file = sink.file
        /\ sink'.error = sink.error /\ sink'.unfinished = sink.unfinished
        /\ sink'.worker = "none" /\ sink'.item = sink.item
    BY <1>0, <2>1 DEF Sinks
  <2>4. SinkInv'  BY <1>0, <2>1, <2>3 DEF SinkInv
  <2>5. ASSUME NEW q \in Threads, NEW what, OnItsWay(q, what) PROVE OnItsWay(q, what)'
    BY <1>0, <2>3, <2>5 DEF OnItsWay, InQueue
  <2> QED  BY <1>0, <2>2, <2>3, <2>4, <2>5, SinkMoves
<1> QED  BY <1>1, <1>2

\* A handler's step, of whichever thread.
LEMMA HandleKeeps == ASSUME TabletInv, NEW p \in Threads, Handle(p) PROVE TabletInv'
  BY RequestKeeps, TrialKeeps, RecordEventKeeps, PutKeeps, JoinKeeps DEF Handle

\* A step of somebody else.
LEMMA TabletStutter ==
  ASSUME TabletInv, UNCHANGED <<tab, ledger, post, sink>>
  PROVE  TabletInv' /\ sink'.on = sink.on
  BY ZenonT(40) DEF TabletInv, TabletTypes, SinkInv, StoredInv, CountedOnce, OnItsWay, InQueue

Programs ==
  [mode : {"serve", "runtime"},
   pc : {"configure", "serving", "closing", "writer", "join", "returned", "new", "started",
         "subscribe", "running", "unsubscribe", "server", "end", "write", "gaze", "gaze_join",
         "halted"},
   closed : BOOLEAN, events : SUBSET Ids, open : BOOLEAN, closes : 0..Closes, raised : BOOLEAN]

EndTold(ids) == \E n \in 0..Closes : <<Main, "end", n>> \in ids

\* The runtime's way to its end: what it writes tells the end of the experiment, and a
\* runtime that is closed stays so.
RuntimeInv ==
  p6.mode = "runtime" =>
    /\ p6.pc = "write" =>
         \E i \in 1..Len(ledger) : ledger[i].id = <<Main, "end", p6.closes>>
    /\ p6.pc \in {"gaze", "gaze_join"} => ~p6.open /\ EndTold(p6.events)
    /\ p6.closed => p6.pc = "returned" /\ ~p6.open /\ EndTold(p6.events) /\ ~WorkerAlive

ProgramInv == p6 \in Programs /\ (sink.on <=> p6.mode = "serve") /\ RuntimeInv

CollectionInv == TabletInv /\ GazeInv /\ ProgramInv

\* Both programs begin with an open file and no event.
LEMMA CollectionInvInit == CollectionInit => CollectionInv
<1> SUFFICES ASSUME CollectionInit PROVE CollectionInv  OBVIOUS
<1>1. PICK mode \in {"serve", "runtime"}, task \in {"SURT", "NO_SURT", "VIDEO", "MISSING"} :
         /\ TabletInit(IF mode = "serve" THEN task ELSE "none", mode = "serve")
         /\ p6 = [mode |-> mode, pc |-> IF mode = "serve" THEN "configure" ELSE "new",
                   closed |-> FALSE, events |-> {}, open |-> mode = "runtime", closes |-> 0,
                   raised |-> FALSE]
  BY DEF CollectionInit
<1>2. GazeInv  BY GazeInvInit DEF CollectionInit
<1>3. TabletInv /\ sink.on = (mode = "serve")
  <2>1. /\ (mode = "serve") \in BOOLEAN
        /\ (IF mode = "serve" THEN task ELSE "none") \in {"SURT", "NO_SURT", "VIDEO", "MISSING", "none"}
    OBVIOUS
  <2> QED  BY <1>1, <2>1, TabletInvInit
<1>4. p6 \in Programs /\ p6.mode = mode /\ p6.closed = FALSE
      /\ p6.pc = (IF mode = "serve" THEN "configure" ELSE "new")
  <2> DEFINE pc == IF mode = "serve" THEN "configure" ELSE "new"
             open == mode = "runtime"
  <2>1. pc \in {"configure", "new"} /\ open \in BOOLEAN /\ 0 \in 0..Closes  BY P6Assumption
  <2>2. p6 = [mode |-> mode, pc |-> pc, closed |-> FALSE, events |-> {}, open |-> open,
              closes |-> 0, raised |-> FALSE]
    BY <1>1
  <2> HIDE DEF pc, open
  <2>3. p6 \in Programs  BY <2>1, <2>2 DEF Programs
  <2>4. p6.mode = mode /\ p6.closed = FALSE /\ p6.pc = pc  BY <2>2
  <2> QED  BY <2>3, <2>4 DEF pc
<1> QED  BY <1>2, <1>3, <1>4 DEF CollectionInv, ProgramInv, RuntimeInv

\* The program goes from one of its steps to another, and may note that it raised.
LEMMA ProgramTypes ==
  ASSUME p6 \in Programs, NEW pc, NEW raised \in BOOLEAN,
         p6' = [p6 EXCEPT !.pc = pc, !.raised = raised],
         pc \in {"configure", "serving", "closing", "writer", "join", "returned", "started",
                 "subscribe", "running", "unsubscribe", "server", "end", "write", "gaze",
                 "gaze_join", "halted"}
  PROVE  /\ p6' \in Programs /\ p6'.mode = p6.mode /\ p6'.pc = pc /\ p6'.closed = p6.closed
         /\ p6'.open = p6.open /\ p6'.events = p6.events /\ p6'.closes = p6.closes
  BY DEF Programs

\* A step that is not one of those that write and close.
LEMMA ProgramMoves ==
  ASSUME ProgramInv, sink'.on = sink.on, NEW pc, NEW raised \in BOOLEAN,
         p6' = [p6 EXCEPT !.pc = pc, !.raised = raised],
         pc \in {"serving", "closing", "writer", "join", "returned", "started",
                 "subscribe", "running", "unsubscribe", "server", "end", "halted"},
         p6.pc # "returned"
  PROVE  ProgramInv'
<1>1. /\ p6' \in Programs /\ p6'.mode = p6.mode /\ p6'.pc = pc /\ p6'.closed = p6.closed
      /\ p6'.open = p6.open /\ p6'.events = p6.events /\ p6'.closes = p6.closes
  BY ProgramTypes DEF ProgramInv
<1> QED  BY <1>1 DEF ProgramInv, RuntimeInv

\* The program stands still: the ledger keeps its events, and a worker that ended stays so.
LEMMA ProgramWaits ==
  ASSUME ProgramInv, UNCHANGED p6, sink'.on = sink.on,
         \A i \in 1..Len(ledger) : i \in 1..Len(ledger)' /\ ledger'[i] = ledger[i],
         ~WorkerAlive => ~WorkerAlive'
  PROVE  ProgramInv'
<1>1. ASSUME NEW i \in 1..Len(ledger), ledger[i].id = <<Main, "end", p6.closes>>
      PROVE  \E j \in 1..Len(ledger)' : ledger'[j].id = <<Main, "end", p6.closes>>
  BY <1>1
<1> QED  BY <1>1 DEF ProgramInv, RuntimeInv

\* Whatever the gaze's threads do, they do not wake a worker that ended.
LEMMA EndedStays ==
  ASSUME GazeInv, ~WorkerAlive,
         Worker \/ Captured \/ SourceEnds \/ Unsubscribe \/ Subscribe \/ UNCHANGED gaze
  PROVE  ~WorkerAlive'
<1>1. gaze \in Sidecars  BY DEF GazeInv
<1>2. ~Worker
  BY DEF Worker, WorkerTakes, WorkerSwaps, WorkerWrites, WorkerFails, WorkerWaits,
         WorkerDrains, WorkerAlive
<1>3. gaze'.worker = gaze.worker
  BY <1>1, <1>2 DEF Captured, SourceEnds, Unsubscribe, Subscribe, Sidecars
<1> QED  BY <1>3 DEF WorkerAlive

\* Of a handler's steps one adds to the ledger, and one to the sink's queue.
LEMMA HandlerFrame ==
  ASSUME NEW p \in Threads, Handle(p)
  PROVE  (UNCHANGED ledger \/ RecordEvent(p)) /\ (UNCHANGED sink \/ Put(p))
<1> DEFINE Kept == UNCHANGED ledger /\ UNCHANGED sink
<1>1. /\ \A disp, next : Decided(p, disp, next) => Kept
      /\ Refuse(p) => Kept
  BY DEF Decided, Refuse
<1>2. Acknowledge(p) => Kept
  <2>1. Acknowledge(p) => Refuse(p) \/ \E disp, next : Decided(p, disp, next)
    BY DEF Acknowledge, Reads
  <2> QED  BY <1>1, <2>1
<1>3. VideoMetadata(p) \/ Touch(p) \/ Pause(p) \/ Resume(p) => Kept
  BY <1>1 DEF VideoMetadata, Touch, Pause, Resume
<1>4. MediaEnded(p) \/ PageReport(p) => Kept  BY <1>1 DEF MediaEnded, PageReport
<1>5. Follow(p) \/ Prepare(p) \/ RequestStart(p) => Kept  BY <1>1 DEF Follow, Prepare, RequestStart
<1>6. (RecordEvent(p) => UNCHANGED sink) /\ (Put(p) => UNCHANGED ledger) /\ (Join(p) => Kept)
  BY DEF RecordEvent, Put, Join
<1> HIDE DEF Kept
<1>7. Handle(p) => Kept \/ RecordEvent(p) \/ Put(p)  BY <1>2, <1>3, <1>4, <1>5, <1>6 DEF Handle
<1> QED  BY <1>6, <1>7 DEF Kept

\* The handlers only add to the ledger.
LEMMA LedgerKept ==
  ASSUME TabletInv, NEW p \in Threads, Handle(p) \/ UNCHANGED ledger
  PROVE  \A i \in 1..Len(ledger) : i \in 1..Len(ledger)' /\ ledger'[i] = ledger[i]
<1>1. CASE UNCHANGED ledger  BY <1>1
<1>2. CASE RecordEvent(p)
  <2>1. ledger \in Seq(Entries)  BY DEF TabletInv, TabletTypes
  <2>2. PICK e : ledger' = Append(ledger, e)  BY <1>2 DEF RecordEvent
  <2>3. Len(ledger') = Len(ledger) + 1 /\ \A i \in 1..Len(ledger) : ledger'[i] = ledger[i]
    BY <2>1, <2>2
  <2> QED  BY <2>1, <2>3
<1> QED  BY <1>1, <1>2, HandlerFrame

\* Which sink a session has is decided when it begins.
LEMMA SinkStaysOn ==
  ASSUME TabletInv,
         (\E p \in Threads : Handle(p)) \/ Take \/ (\E fails \in BOOLEAN : WriteEvent(fails))
         \/ StopWriter \/ WriterJoined
  PROVE  sink'.on = sink.on
<1>1. sink \in Sinks  BY DEF TabletInv, TabletTypes
<1>2. CASE \E p \in Threads : Handle(p)
  <2>1. PICK p \in Threads : Handle(p)  BY <1>2
  <2>2. UNCHANGED sink \/ Put(p)  BY <2>1, HandlerFrame
  <2> QED  BY <1>1, <2>2 DEF Put, Sinks
<1> QED  BY <1>1, <1>2 DEF Take, WriteEvent, StopWriter, WriterJoined, Sinks

\* The runtime ends its experiment, and writes what the tablet's ledger holds.
LEMMA TabletEndsKeeps ==
  ASSUME CollectionInv, TabletEnds
  PROVE  CollectionInv'
<1> DEFINE id == <<Main, "end", p6.closes>>
           e == [id |-> id, by |-> Main, what |-> "end", kind |-> "none", trial |-> NoItem,
                 disp |-> Recorded("accepted", id)]
           n == Len(ledger)
<1>0. /\ TabletTypes /\ SinkInv /\ StoredInv /\ CountedOnce /\ ProgramInv /\ GazeInv
      /\ ledger \in Seq(Entries) /\ n \in Nat /\ tab \in Tabs /\ ~sink.on
      /\ p6 \in Programs /\ p6.closes \in Nat
      /\ UNCHANGED <<post, sink, gaze>>
  BY P6Assumption DEF CollectionInv, TabletInv, TabletTypes, ProgramInv, Programs,
                      TabletEnds, gazeVars
<1>1. id \in Ids /\ Main \in Threads  BY <1>0 DEF Ids, Threads
<1>2. Known(id) => Recorded("accepted", id) = "duplicate"  BY DEF Recorded
<1>3. Recorded("accepted", id) \in Dispositions  BY DEF Recorded, Dispositions
<1>4. e.id = id /\ (Known(e.id) => e.disp = "duplicate")  BY <1>2
<1>5. e \in Entries
  <2> DEFINE disp == Recorded("accepted", id)
  <2>1. e = [id |-> id, by |-> Main, what |-> "end", kind |-> "none", trial |-> NoItem,
             disp |-> disp]
    OBVIOUS
  <2>2. disp \in Dispositions  BY <1>3
  <2> HIDE DEF e, id, disp
  <2> QED  BY <1>1, <2>1, <2>2 DEF Entries, Kinds
<1>6. ledger' = Append(ledger, e)  BY DEF TabletEnds
<1>7. PICK entry \in Entries : entry = e  BY <1>5
<1>8. entry.id = id /\ (Known(entry.id) => entry.disp = "duplicate") /\ ledger' = Append(ledger, entry)
  BY <1>4, <1>6, <1>7
<1> HIDE DEF e
<1>9. /\ ledger' \in Seq(Entries) /\ CountedOnce'
      /\ Len(ledger') = n + 1 /\ ledger'[n + 1] = entry
  BY <1>0, <1>8, LedgerGrows
<1>10. tab' \in Tabs  BY <1>0 DEF TabletEnds, Tabs, Stages
<1>11. TabletInv'  BY <1>0, <1>9, <1>10 DEF TabletInv, TabletTypes, SinkInv, StoredInv
<1>12. p6' = [p6 EXCEPT !.pc = "write"] /\ ~p6.closed /\ p6.mode = "runtime"  BY DEF TabletEnds
<1>13. /\ p6' \in Programs /\ p6'.mode = p6.mode /\ p6'.pc = "write" /\ p6'.closed = FALSE
       /\ p6'.closes = p6.closes
  BY <1>0, <1>12 DEF Programs
<1>14. n + 1 \in 1..Len(ledger') /\ ledger'[n + 1].id = <<Main, "end", p6'.closes>>
  BY <1>0, <1>8, <1>9, <1>13
<1>15. ProgramInv'  BY <1>0, <1>13, <1>14 DEF ProgramInv, RuntimeInv
<1> QED  BY <1>0, <1>11, <1>15, GazeStutter DEF CollectionInv

\* The events that are written tell the end of the experiment.
LEMMA TabletWrittenKeeps ==
  ASSUME CollectionInv, TabletWritten
  PROVE  CollectionInv'
<1> DEFINE told == {ledger[i].id : i \in 1..Len(ledger)}
<1>0. /\ TabletInv /\ ProgramInv /\ GazeInv /\ ledger \in Seq(Entries) /\ p6 \in Programs
      /\ p6.mode = "runtime" /\ p6.pc = "write" /\ p6.closes \in 0..Closes /\ p6.raised \in BOOLEAN
      /\ (p6.open => p6.open = TRUE)
      /\ UNCHANGED <<tab, ledger, post, sink, gaze>>
  BY DEF CollectionInv, TabletInv, TabletTypes, ProgramInv, Programs, TabletWritten, gazeVars,
         tabletVars
<1>1. TabletInv' /\ sink'.on = sink.on /\ GazeInv'  BY <1>0, TabletStutter, GazeStutter
<1>2. ~p6.closed  BY <1>0 DEF ProgramInv, RuntimeInv
<1>3. CASE Raise("halted")
  <2>1. p6' = [p6 EXCEPT !.pc = "halted", !.raised = TRUE]  BY <1>3 DEF Raise
  <2> QED  BY <1>0, <1>1, <2>1, ProgramMoves DEF CollectionInv
<1>4. CASE p6' = [p6 EXCEPT !.pc = "gaze", !.open = FALSE, !.events = told]
  <2>1. told \in SUBSET Ids
    <3>1. \A i \in 1..Len(ledger) : ledger[i] \in Entries  BY <1>0
    <3> QED  BY <3>1 DEF Entries
  <2>2. EndTold(told)
    <3>1. PICK i \in 1..Len(ledger) : ledger[i].id = <<Main, "end", p6.closes>>
      BY <1>0 DEF ProgramInv, RuntimeInv
    <3>2. <<Main, "end", p6.closes>> \in told  BY <3>1
    <3> QED  BY <1>0, <3>2 DEF EndTold
  <2>3. PICK ids \in SUBSET Ids : ids = told  BY <2>1
  <2>4. p6' = [p6 EXCEPT !.pc = "gaze", !.open = FALSE, !.events = ids] /\ EndTold(ids)
    BY <1>4, <2>2, <2>3
  <2> HIDE DEF told
  <2>5. /\ p6' \in Programs /\ p6'.mode = p6.mode /\ p6'.pc = "gaze" /\ p6'.open = FALSE
        /\ p6'.events = ids /\ p6'.closed = p6.closed
    BY <1>0, <2>4 DEF Programs
  <2>6. ProgramInv'  BY <1>0, <1>1, <1>2, <2>4, <2>5 DEF ProgramInv, RuntimeInv
  <2> QED  BY <1>1, <2>6 DEF CollectionInv
<1> QED  BY <1>3, <1>4 DEF TabletWritten

\* The gaze writer is told to close, and joined.
LEMMA GazeEndKeeps ==
  ASSUME CollectionInv, GazeTold \/ GazeJoined
  PROVE  CollectionInv'
<1>0. /\ TabletInv /\ ProgramInv /\ GazeInv /\ p6 \in Programs /\ p6.mode = "runtime"
      /\ p6.pc \in {"gaze", "gaze_join"} /\ p6.raised \in BOOLEAN /\ gaze.error \in BOOLEAN
      /\ ~p6.open /\ EndTold(p6.events) /\ ~p6.closed
      /\ UNCHANGED <<tab, ledger, post, sink>>
  BY DEF CollectionInv, ProgramInv, Programs, GazeTold, GazeJoined, tabletVars, RuntimeInv,
         Step, GazeInv, Sidecars
<1>1. TabletInv' /\ sink'.on = sink.on  BY <1>0, TabletStutter
<1>2. CASE GazeTold
  <2>1. GazeInv'  BY <1>0, <1>2, StartKeeps DEF GazeTold
  <2>2. p6' = [p6 EXCEPT !.pc = "gaze_join"]  BY <1>2 DEF GazeTold, Step
  <2>3. /\ p6' \in Programs /\ p6'.mode = p6.mode /\ p6'.pc = "gaze_join"
        /\ p6'.open = p6.open /\ p6'.events = p6.events /\ p6'.closed = p6.closed
    BY <1>0, <2>2 DEF Programs
  <2>4. ProgramInv'  BY <1>0, <1>1, <2>3 DEF ProgramInv, RuntimeInv
  <2> QED  BY <1>1, <2>1, <2>4 DEF CollectionInv
<1>3. CASE GazeJoined
  <2>1. UNCHANGED gaze  BY <1>3 DEF GazeJoined, gazeVars
  <2>2. GazeInv' /\ (WorkerAlive' <=> WorkerAlive)  BY <1>0, <2>1, GazeStutter DEF WorkerAlive
  <2>3. CASE Raise("halted")
    <3>1. p6' = [p6 EXCEPT !.pc = "halted", !.raised = TRUE]  BY <2>3 DEF Raise
    <3> QED  BY <1>0, <1>1, <2>2, <3>1, ProgramMoves DEF CollectionInv
  <2>4. CASE /\ ~WorkerAlive
             /\ p6' = [p6 EXCEPT !.pc = "returned", !.closed = TRUE, !.raised = @ \/ gaze.error]
    <3> DEFINE raised == p6.raised \/ gaze.error
    <3>1. raised \in BOOLEAN /\ p6' = [p6 EXCEPT !.pc = "returned", !.closed = TRUE, !.raised = raised]
      BY <1>0, <2>4
    <3> HIDE DEF raised
    <3>2. /\ p6' \in Programs /\ p6'.mode = p6.mode /\ p6'.pc = "returned" /\ p6'.closed = TRUE
          /\ p6'.open = p6.open /\ p6'.events = p6.events
      BY <1>0, <3>1 DEF Programs
    <3>3. ProgramInv'  BY <1>0, <1>1, <2>2, <2>4, <3>2 DEF ProgramInv, RuntimeInv
    <3> QED  BY <1>1, <2>2, <3>3 DEF CollectionInv
  <2> QED  BY <1>3, <2>3, <2>4 DEF GazeJoined
<1> QED  BY <1>2, <1>3

\* close once more.
LEMMA CloseAgainKeeps ==
  ASSUME CollectionInv, CloseAgain
  PROVE  CollectionInv'
<1>0. /\ TabletInv /\ ProgramInv /\ GazeInv /\ p6 \in Programs /\ p6.mode = "runtime"
      /\ p6.closes \in 0..Closes /\ p6.closes < Closes
      /\ p6.pc \in {"new", "halted", "returned"}
      /\ UNCHANGED <<tab, ledger, post, sink, gaze>>
  BY DEF CollectionInv, ProgramInv, Programs, CloseAgain, tabletVars, gazeVars
<1>1. TabletInv' /\ sink'.on = sink.on /\ GazeInv' /\ (WorkerAlive' <=> WorkerAlive)
  BY <1>0, TabletStutter, GazeStutter DEF WorkerAlive
<1> DEFINE closes == p6.closes + 1
           pc == IF p6.closed THEN p6.pc ELSE "end"
<1>2. /\ p6' = [p6 EXCEPT !.closes = closes, !.pc = pc]
      /\ closes \in 0..Closes /\ pc \in {"new", "halted", "returned", "end"}
      /\ (p6.closed => pc = p6.pc)
  BY <1>0, P6Assumption DEF CloseAgain
<1> HIDE DEF closes, pc
<1>3. /\ p6' \in Programs /\ p6'.mode = p6.mode /\ p6'.pc = pc /\ p6'.closed = p6.closed
      /\ p6'.open = p6.open /\ p6'.events = p6.events
  BY <1>0, <1>2 DEF Programs
<1>4. ProgramInv'  BY <1>0, <1>1, <1>2, <1>3 DEF ProgramInv, RuntimeInv
<1> QED  BY <1>1, <1>4 DEF CollectionInv

\* The steps of either program that neither write nor close.
LEMMA ProgramStepKeeps ==
  ASSUME CollectionInv,
         Station \/ Interrupt \/ RuntimeStarts \/ ServerOpens \/ Subscribes \/ Unsubscribed
         \/ ServerStops \/ StopBegins
  PROVE  CollectionInv'
<1>0. TabletInv /\ ProgramInv /\ GazeInv /\ p6 \in Programs /\ p6.raised \in BOOLEAN
  BY DEF CollectionInv, ProgramInv, Programs
<1> DEFINE Aside == UNCHANGED <<tab, ledger, post, sink>>
<1>1. Aside \/ StopWriter \/ WriterJoined
  BY DEF Station, ServeFails, Serve, ServerCloses, WriterIsTold, WriterIsJoined, Interrupt,
         RuntimeStarts, ServerOpens, Subscribes, Unsubscribed, ServerStops, StopBegins,
         OpenServer, CloseServer, tabletVars
<1>2. TabletInv' /\ sink'.on = sink.on  BY <1>0, <1>1, TabletStutter, WriterKeeps, SinkStaysOn
<1>3. UNCHANGED gaze \/ GazeStart \/ Subscribe \/ Unsubscribe
  BY DEF Station, ServeFails, Serve, ServerCloses, WriterIsTold, WriterIsJoined, Interrupt,
         RuntimeStarts, ServerOpens, Subscribes, Unsubscribed, ServerStops, StopBegins,
         gazeVars
<1>4. GazeInv'  BY <1>0, <1>3, StartKeeps, GazeStutter
<1>5. PICK pc \in {"serving", "closing", "writer", "join", "returned", "started",
                   "subscribe", "running", "unsubscribe", "server", "end", "halted"},
           raised \in BOOLEAN : /\ p6' = [p6 EXCEPT !.pc = pc, !.raised = raised]
                                /\ p6.pc # "returned"
  <2>1. p6 = [p6 EXCEPT !.raised = p6.raised]  BY <1>0 DEF Programs
  <2>2. ASSUME NEW pc, p6' = [p6 EXCEPT !.pc = pc]
        PROVE  p6' = [p6 EXCEPT !.pc = pc, !.raised = p6.raised]
    BY <1>0, <2>2 DEF Programs
  <2>3. CASE ServeFails  BY <2>3 DEF ServeFails, Raise
  <2>4. CASE Serve \/ Interrupt \/ ServerCloses \/ WriterIsTold
    BY <1>0, <2>2, <2>4 DEF Serve, Interrupt, ServerCloses, WriterIsTold, Step
  <2>5. CASE WriterIsJoined
    <3>1. sink.error \in BOOLEAN  BY <1>0 DEF TabletInv, TabletTypes, Sinks
    <3>2. (p6.raised \/ sink.error) \in BOOLEAN  BY <1>0, <3>1
    <3>3. p6' = [p6 EXCEPT !.pc = "returned", !.raised = (p6.raised \/ sink.error)]
      BY <2>5 DEF WriterIsJoined
    <3> QED  BY <2>5, <3>2, <3>3 DEF WriterIsJoined
  <2>6. CASE RuntimeStarts \/ Subscribes \/ Unsubscribed \/ ServerStops \/ StopBegins
    BY <1>0, <2>2, <2>6 DEF RuntimeStarts, Subscribes, Unsubscribed, ServerStops, StopBegins, Step
  <2>7. CASE ServerOpens  BY <1>0, <2>2, <2>7 DEF ServerOpens, Step, Raise
  <2> QED  BY <2>3, <2>4, <2>5, <2>6, <2>7 DEF Station
<1>6. ProgramInv'  BY <1>0, <1>2, <1>5, ProgramMoves
<1> QED  BY <1>2, <1>4, <1>6 DEF CollectionInv

\* The threads of both programs, whatever they do, while the program stands still.
LEMMA OthersKeep ==
  ASSUME CollectionInv, Configure \/ Request \/ SinkStep \/ GazeStep \/ UNCHANGED p6Vars
  PROVE  CollectionInv'
<1>0. TabletInv /\ ProgramInv /\ GazeInv /\ UNCHANGED p6
  BY DEF CollectionInv, Configure, Request, SinkStep, GazeStep, p6Vars
<1>1. Main \in Threads /\ Posts \subseteq Threads /\ Viewers \subseteq Posts
  BY P6Assumption DEF Threads
<1>2. /\ \/ \E p \in Threads : Handle(p)
         \/ \E p \in Posts, kinds \in SUBSET EventKinds : Send(p, kinds)
         \/ Take \/ (\E fails \in BOOLEAN : WriteEvent(fails))
         \/ UNCHANGED <<tab, ledger, post, sink>>
      /\ Worker \/ Captured \/ SourceEnds \/ UNCHANGED gaze
  <2>1. CASE Request
    <3>1. Reporters \subseteq Posts /\ {"error", "sync", "reset"} \in SUBSET EventKinds
          /\ {"ended"} \in SUBSET EventKinds /\ EventKinds \in SUBSET EventKinds
      BY P6Assumption DEF EventKinds
    <3>2. \/ \E p \in Posts : Send(p, {"ended"}) \/ Send(p, EventKinds)
          \/ \E p \in Reporters : Send(p, {"error", "sync", "reset"})
          \/ \E p \in Posts : Handle(p)
      BY <2>1 DEF Request
    <3> QED  BY <1>1, <2>1, <3>1, <3>2 DEF Request, gazeVars
  <2>2. CASE Configure  BY <1>1, <2>2 DEF Configure, gazeVars
  <2>3. CASE SinkStep \/ GazeStep \/ UNCHANGED p6Vars
    BY <2>3 DEF SinkStep, GazeStep, p6Vars, gazeVars, tabletVars
  <2> QED  BY <2>1, <2>2, <2>3
<1>3. TabletInv'  BY <1>0, <1>2, HandleKeeps, SendKeeps, TakeKeeps, WriteEventKeeps, TabletStutter
<1>4. sink'.on = sink.on  BY <1>0, <1>2, SinkStaysOn DEF Send
<1>5. \A i \in 1..Len(ledger) : i \in 1..Len(ledger)' /\ ledger'[i] = ledger[i]
  <2>1. (\E p \in Threads : Handle(p)) \/ UNCHANGED ledger  BY <1>2 DEF Send, Take, WriteEvent
  <2> QED  BY <1>0, <1>1, <2>1, LedgerKept
<1>6. GazeInv' /\ (~WorkerAlive => ~WorkerAlive')
  BY <1>0, <1>2, WorkerKeeps, CapturedKeeps, StartKeeps, GazeStutter, EndedStays
<1>7. ProgramInv'  BY <1>0, <1>4, <1>5, <1>6, ProgramWaits
<1> QED  BY <1>3, <1>6, <1>7 DEF CollectionInv

\* One case per step of either program and of its threads.
LEMMA CollectionInvNext == CollectionInv /\ [CollectionNext]_p6Vars => CollectionInv'
  BY TabletEndsKeeps, TabletWrittenKeeps, GazeEndKeeps, CloseAgainKeeps, ProgramStepKeeps,
     OthersKeep DEF CollectionNext, Runtime

\* What the collection says is so.
LEMMA CollectionInvEnough == CollectionInv => CollectionIsWhole
<1> SUFFICES ASSUME CollectionInv PROVE CollectionIsWhole  OBVIOUS
<1>1. CountedOnce /\ EverySampleIsAccounted  BY GazeAccounted DEF CollectionInv, TabletInv
<1>2. AnsweredIsStored
  BY DEF CollectionInv, TabletInv, StoredInv, ProgramInv, AnsweredIsStored, OnItsWay
<1>3. ClosedMeansClosed  BY DEF CollectionInv, ProgramInv, RuntimeInv, ClosedMeansClosed, EndTold
<1> QED  BY <1>1, <1>2, <1>3 DEF CollectionIsWhole

\* P6's collection, in both of its programs and for every number of requests, samples and
\* calls of close: an identifier counts once, what the page was told is in the file, every
\* sample is accounted for once the gaze file is closed, and a runtime that is closed is.
THEOREM CollectionWhole == CollectionSpec => []CollectionIsWhole
<1>1. CollectionInit => CollectionInv  BY CollectionInvInit
<1>2. CollectionInv /\ [CollectionNext]_p6Vars => CollectionInv'  BY CollectionInvNext
<1>3. CollectionInv => CollectionIsWhole  BY CollectionInvEnough
<1> QED  BY <1>1, <1>2, <1>3, PTL DEF CollectionSpec
=============================================================================
