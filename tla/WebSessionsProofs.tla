------------------------- MODULE WebSessionsProofs -------------------------
(***************************************************************************)
(* The server loses no workspace it has handed out, for any number of      *)
(* requests, any limit and any combination of failures.                    *)
(***************************************************************************)
EXTENDS WebSessions, FiniteSetTheorems, TLAPS

\* The starts that hold a slot.
Slots == {r \in Requests : \/ pc[r] \in {"create", "register", "release"}
                           \/ pc[r] \in RemoveSteps /\ ask[r].op = "start"}

\* s.pending counts them.
SlotsCounted == IsFiniteSet(Slots) /\ pending = Cardinality(Slots)

NoneTaken == \A t \in Requests : taken[t] = "none"

\* What the place of a handler says about its request.
Placed(r) ==
    /\ pc[r] \in {"start", "admit", "create", "register", "release"} => ask[r].op = "start"
    /\ pc[r] \in Busy => ask[r].op # "none"
    /\ pc[r] \in {"use", "reseed", "forget"} => ask[r].op \in {"end", "use"}
    /\ pc[r] \in RemoveSteps => ask[r].op \in {"start", "end"}
    /\ pc[r] \in {"open", "use", "reseed", "forget"} => ask[r].cookie \in Requests
    /\ pc[r] \in RemoveSteps /\ ask[r].op # "start" => ask[r].cookie \in Requests

\* Only the token of a start that has succeeded is a cookie or in the table.
Issued(t) ==
    /\ reply[t] = "created" => pc[t] \in {"release", "done"} /\ islets[t] # "coming"
    /\ pc[t] = "release" => reply[t] \in {"created", "error"}
    /\ pc[t] \notin {"release", "done"} => reply[t] = "none"
    /\ ask[t].cookie # NoCookie => reply[ask[t].cookie] = "created"
    /\ sessions[t] # "none" \/ taken[t] # "none" => reply[t] = "created"

\* Where an islet may come from.
Born(t) ==
    /\ islets[t] # "none" => /\ ask[t].op = "start"
                             /\ pc[t] \in {"register", "release", "done"} \cup RemoveSteps
    /\ islets[t] = "coming" => pc[t] \in RemoveSteps \/ reply[t] = "error"

\* Where an islet is accounted for.
Tracked(t) ==
    Exists(t) => \/ sessions[t] # "none"
                 \/ taken[t] # "none"
                 \/ ask[t].op = "start" /\ pc[t] \in {"register"} \cup RemoveSteps
                 \/ reply[t] = "error"

\* end forgets a session only when its islet is gone for good.
Forgetting(r) == pc[r] = "forget" => islets[ask[r].cookie] = "none"

\* Cleanup works on what it has taken, and has something only while it runs.
Sweeping ==
    /\ main \notin {"sweeping", "final", "overdue"} => NoneTaken
    /\ sweep.cur # NoCookie => taken[sweep.cur] # "none" /\ sweep.step \in RemoveSteps

\* After a drain without errors nothing is left but what Cleanup has in hand.
Drained ==
    /\ main \in {"final", "closing", "exited"} /\ ~failed =>
          \A t \in Requests : pc[t] \notin Busy /\ sessions[t] = "none"
    /\ main = "overdue" => failed

SessionInv ==
    /\ TypeOK
    /\ \A r \in Requests : Placed(r) /\ Issued(r) /\ Born(r) /\ Tracked(r) /\ Forgetting(r)
    /\ Sweeping
    /\ Drained
    /\ SlotsCounted

\* The steps of remove: an islet it reports as removed is gone, one that was
\* gone stays as it was.
LEMMA RemoveEffect ==
    ASSUME NEW step \in RemoveSteps, NEW s \in IsletStates,
           NEW o \in RemoveOutcomes(step, s)
    PROVE  /\ o.islet \in IsletStates
           /\ o.then \in RemoveSteps \cup {"ok", "err"}
           /\ o.then = "ok" => o.islet \in {"none", "coming"}
           /\ o.islet = "coming" => s = "coming"
           /\ s \in {"none", "coming"} => o.islet = s
  <1>1. CASE step = "reopen"
    BY <1>1 DEF RemoveOutcomes, IsletStates, RemoveSteps
  <1>2. CASE step = "recover"
    BY <1>2 DEF RemoveOutcomes, IsletStates, RemoveSteps
  <1>3. CASE step = "delete"
    BY <1>3 DEF RemoveOutcomes, IsletStates, RemoveSteps
  <1>4. QED
    BY <1>1, <1>2, <1>3 DEF RemoveSteps

\* SessionInv holds initially.
LEMMA SessionInit == Init => SessionInv
  <1> SUFFICES ASSUME Init PROVE SessionInv
    OBVIOUS
  <1>1. TypeOK
    BY DEF Init, TypeOK, Ages, IsletStates, Busy, Refreshed, RemoveSteps
  <1>2. ASSUME NEW r \in Requests
        PROVE  Placed(r) /\ Issued(r) /\ Born(r) /\ Tracked(r) /\ Forgetting(r)
    BY DEF Init, Placed, Issued, Born, Tracked, Forgetting, Exists, Busy, Refreshed, RemoveSteps
  <1>3. Sweeping /\ Drained
    BY DEF Init, Sweeping, Drained, NoneTaken
  <1>4. SlotsCounted
    <2>1. Slots = {}
      BY DEF Init, Slots, RemoveSteps
    <2>2. QED
      BY <2>1, FS_EmptySet DEF Init, SlotsCounted
  <1>5. QED
    BY <1>1, <1>2, <1>3, <1>4 DEF SessionInv

\* Reject preserves SessionInv.
LEMMA RejectStep ==
    ASSUME SessionInv, NEW r \in Requests, Reject(r)
    PROVE  SessionInv'
  <1> USE NoCookieAssumption DEF Reject, mainVars, Answer, Goto
  <1>1. TypeOK'
    BY DEF SessionInv, TypeOK, Ages, IsletStates, Placed, Busy, Refreshed, RemoveSteps
  <1>2. ASSUME NEW x \in Requests
        PROVE  Placed(x)' /\ Issued(x)' /\ Born(x)' /\ Tracked(x)' /\ Forgetting(x)'
    BY DEF SessionInv, TypeOK, Placed, Issued, Born, Tracked, Forgetting, Exists, Sweeping,
           NoneTaken, Busy, Refreshed, RemoveSteps
  <1>3. Sweeping' /\ Drained'
    BY DEF SessionInv, TypeOK, Sweeping, Drained, NoneTaken, Issued, Ages, Busy, Refreshed,
           RemoveSteps
  <1>4. SlotsCounted'
    <2>1. Slots' = Slots
      BY DEF SessionInv, TypeOK, Placed, Slots, RemoveSteps
    <2>2. QED
      BY <2>1 DEF SessionInv, SlotsCounted
  <1>5. QED
    BY <1>1, <1>2, <1>3, <1>4 DEF SessionInv

\* Arrive preserves SessionInv.
LEMMA ArriveStep ==
    ASSUME SessionInv, NEW r \in Requests, NEW op \in {"start", "end", "use"},
           NEW cookie \in Cookies \cup {NoCookie}, Arrive(r, op, cookie)
    PROVE  SessionInv'
  <1> USE NoCookieAssumption DEF Arrive, mainVars, Goto, Cookies
  <1>1. TypeOK'
    BY DEF SessionInv, TypeOK, Ages, IsletStates, Placed, Busy, Refreshed, RemoveSteps
  <1>2. ASSUME NEW x \in Requests
        PROVE  Placed(x)' /\ Issued(x)' /\ Born(x)' /\ Tracked(x)' /\ Forgetting(x)'
    BY DEF SessionInv, TypeOK, Placed, Issued, Born, Tracked, Forgetting, Exists, Sweeping,
           NoneTaken, Busy, Refreshed, RemoveSteps
  <1>3. Sweeping' /\ Drained'
    BY DEF SessionInv, TypeOK, Sweeping, Drained, NoneTaken, Issued, Ages, Busy, Refreshed,
           RemoveSteps
  <1>4. SlotsCounted'
    <2>1. Slots' = Slots
      BY DEF SessionInv, TypeOK, Placed, Slots, RemoveSteps
    <2>2. QED
      BY <2>1 DEF SessionInv, SlotsCounted
  <1>5. QED
    BY <1>1, <1>2, <1>3, <1>4 DEF SessionInv

\* StartCheck preserves SessionInv.
LEMMA StartCheckStep ==
    ASSUME SessionInv, NEW r \in Requests, StartCheck(r)
    PROVE  SessionInv'
  <1> USE NoCookieAssumption DEF StartCheck, mainVars, Goto, Alive
  <1>1. TypeOK'
    BY DEF SessionInv, TypeOK, Ages, IsletStates, Placed, Busy, Refreshed, RemoveSteps
  <1>2. ASSUME NEW x \in Requests
        PROVE  Placed(x)' /\ Issued(x)' /\ Born(x)' /\ Tracked(x)' /\ Forgetting(x)'
    BY DEF SessionInv, TypeOK, Placed, Issued, Born, Tracked, Forgetting, Exists, Sweeping,
           NoneTaken, Busy, Refreshed, RemoveSteps
  <1>3. Sweeping' /\ Drained'
    BY DEF SessionInv, TypeOK, Sweeping, Drained, NoneTaken, Issued, Ages, Busy, Refreshed,
           RemoveSteps
  <1>4. SlotsCounted'
    <2>1. Slots' = Slots
      BY DEF SessionInv, TypeOK, Placed, Slots, RemoveSteps
    <2>2. QED
      BY <2>1 DEF SessionInv, SlotsCounted
  <1>5. QED
    BY <1>1, <1>2, <1>3, <1>4 DEF SessionInv

\* Admit preserves SessionInv.
LEMMA AdmitStep ==
    ASSUME SessionInv, NEW r \in Requests, Admit(r)
    PROVE  SessionInv'
  <1> USE NoCookieAssumption DEF Admit, mainVars, Answer, Goto
  <1>1. TypeOK'
    BY DEF SessionInv, TypeOK, Ages, IsletStates, Placed, Busy, Refreshed, RemoveSteps
  <1>2. ASSUME NEW x \in Requests
        PROVE  Placed(x)' /\ Issued(x)' /\ Born(x)' /\ Tracked(x)' /\ Forgetting(x)'
    BY DEF SessionInv, TypeOK, Placed, Issued, Born, Tracked, Forgetting, Exists, Sweeping,
           NoneTaken, Busy, Refreshed, RemoveSteps
  <1>3. Sweeping' /\ Drained'
    BY DEF SessionInv, TypeOK, Sweeping, Drained, NoneTaken, Issued, Ages, Busy, Refreshed,
           RemoveSteps
  <1>4. SlotsCounted'
    <2>1. CASE UNCHANGED pending
      <3>1. Slots' = Slots
        BY <2>1 DEF SessionInv, TypeOK, Placed, Slots, RemoveSteps
      <3>2. QED
        BY <2>1, <3>1 DEF SessionInv, SlotsCounted
    <2>2. CASE pending' = pending + 1
      <3>1. Slots' = Slots \cup {r} /\ r \notin Slots
        BY <2>2 DEF SessionInv, TypeOK, Placed, Slots, RemoveSteps
      <3>2. QED
        BY <2>2, <3>1, FS_AddElement DEF SessionInv, SlotsCounted
    <2>3. QED
      BY <2>1, <2>2
  <1>5. QED
    BY <1>1, <1>2, <1>3, <1>4 DEF SessionInv

\* Create preserves SessionInv.
LEMMA CreateStep ==
    ASSUME SessionInv, NEW r \in Requests, Create(r)
    PROVE  SessionInv'
  <1> USE NoCookieAssumption DEF Create, mainVars, Goto
  <1>1. TypeOK'
    BY DEF SessionInv, TypeOK, Ages, IsletStates, Placed, Busy, Refreshed, RemoveSteps
  <1>2. ASSUME NEW x \in Requests
        PROVE  Placed(x)' /\ Issued(x)' /\ Born(x)' /\ Tracked(x)' /\ Forgetting(x)'
    BY DEF SessionInv, TypeOK, Placed, Issued, Born, Tracked, Forgetting, Exists, Sweeping,
           NoneTaken, Busy, Refreshed, RemoveSteps
  <1>3. Sweeping' /\ Drained'
    BY DEF SessionInv, TypeOK, Sweeping, Drained, NoneTaken, Issued, Ages, Busy, Refreshed,
           RemoveSteps
  <1>4. SlotsCounted'
    <2>1. Slots' = Slots
      BY DEF SessionInv, TypeOK, Placed, Slots, RemoveSteps
    <2>2. QED
      BY <2>1 DEF SessionInv, SlotsCounted
  <1>5. QED
    BY <1>1, <1>2, <1>3, <1>4 DEF SessionInv

\* Register preserves SessionInv.
LEMMA RegisterStep ==
    ASSUME SessionInv, NEW r \in Requests, Register(r)
    PROVE  SessionInv'
  <1> USE NoCookieAssumption DEF Register, mainVars, Goto
  <1>1. TypeOK'
    BY DEF SessionInv, TypeOK, Ages, IsletStates, Placed, Busy, Refreshed, RemoveSteps
  <1>2. ASSUME NEW x \in Requests
        PROVE  Placed(x)' /\ Issued(x)' /\ Born(x)' /\ Tracked(x)' /\ Forgetting(x)'
    BY DEF SessionInv, TypeOK, Placed, Issued, Born, Tracked, Forgetting, Exists, Sweeping,
           NoneTaken, Busy, Refreshed, RemoveSteps
  <1>3. Sweeping' /\ Drained'
    BY DEF SessionInv, TypeOK, Sweeping, Drained, NoneTaken, Issued, Ages, Busy, Refreshed,
           RemoveSteps
  <1>4. SlotsCounted'
    <2>1. Slots' = Slots
      BY DEF SessionInv, TypeOK, Placed, Slots, RemoveSteps
    <2>2. QED
      BY <2>1 DEF SessionInv, SlotsCounted
  <1>5. QED
    BY <1>1, <1>2, <1>3, <1>4 DEF SessionInv

\* Release preserves SessionInv.
LEMMA ReleaseStep ==
    ASSUME SessionInv, NEW r \in Requests, Release(r)
    PROVE  SessionInv'
  <1> USE NoCookieAssumption DEF Release, mainVars, Goto
  <1>1. TypeOK'
    <2>1. r \in Slots
      BY DEF SessionInv, TypeOK, Slots
    <2>2. pending - 1 \in Nat
      BY <2>1, FS_EmptySet, FS_CardinalityType DEF SessionInv, SlotsCounted
    <2>3. QED
      BY <2>2 DEF SessionInv, TypeOK, Busy, Refreshed, RemoveSteps
  <1>2. ASSUME NEW x \in Requests
        PROVE  Placed(x)' /\ Issued(x)' /\ Born(x)' /\ Tracked(x)' /\ Forgetting(x)'
    BY DEF SessionInv, TypeOK, Placed, Issued, Born, Tracked, Forgetting, Exists, Sweeping,
           NoneTaken, Busy, Refreshed, RemoveSteps
  <1>3. Sweeping' /\ Drained'
    BY DEF SessionInv, TypeOK, Sweeping, Drained, NoneTaken, Issued, Ages, Busy, Refreshed,
           RemoveSteps
  <1>4. SlotsCounted'
    <2>1. Slots' = Slots \ {r} /\ r \in Slots
      BY DEF SessionInv, TypeOK, Placed, Slots, RemoveSteps
    <2>2. QED
      BY <2>1, FS_RemoveElement DEF SessionInv, SlotsCounted
  <1>5. QED
    BY <1>1, <1>2, <1>3, <1>4 DEF SessionInv

\* Current preserves SessionInv.
LEMMA CurrentStep ==
    ASSUME SessionInv, NEW r \in Requests, Current(r)
    PROVE  SessionInv'
  <1> USE NoCookieAssumption DEF Current, mainVars, Answer, Goto, Alive
  <1>1. TypeOK'
    BY DEF SessionInv, TypeOK, Ages, IsletStates, Placed, Busy, Refreshed, RemoveSteps
  <1>2. ASSUME NEW x \in Requests
        PROVE  Placed(x)' /\ Issued(x)' /\ Born(x)' /\ Tracked(x)' /\ Forgetting(x)'
    BY DEF SessionInv, TypeOK, Placed, Issued, Born, Tracked, Forgetting, Exists, Sweeping,
           NoneTaken, Busy, Refreshed, RemoveSteps
  <1>3. Sweeping' /\ Drained'
    BY DEF SessionInv, TypeOK, Sweeping, Drained, NoneTaken, Issued, Ages, Busy, Refreshed,
           RemoveSteps
  <1>4. SlotsCounted'
    <2>1. Slots' = Slots
      BY DEF SessionInv, TypeOK, Placed, Slots, RemoveSteps
    <2>2. QED
      BY <2>1 DEF SessionInv, SlotsCounted
  <1>5. QED
    BY <1>1, <1>2, <1>3, <1>4 DEF SessionInv

\* Open preserves SessionInv.
LEMMA OpenStep ==
    ASSUME SessionInv, NEW r \in Requests, Open(r)
    PROVE  SessionInv'
  <1> USE NoCookieAssumption DEF Open, mainVars, Answer, Goto
  <1>1. TypeOK'
    BY DEF SessionInv, TypeOK, Ages, IsletStates, Placed, Busy, Refreshed, RemoveSteps
  <1>2. ASSUME NEW x \in Requests
        PROVE  Placed(x)' /\ Issued(x)' /\ Born(x)' /\ Tracked(x)' /\ Forgetting(x)'
    BY DEF SessionInv, TypeOK, Placed, Issued, Born, Tracked, Forgetting, Exists, Sweeping,
           NoneTaken, Busy, Refreshed, RemoveSteps
  <1>3. Sweeping' /\ Drained'
    BY DEF SessionInv, TypeOK, Sweeping, Drained, NoneTaken, Issued, Ages, Busy, Refreshed,
           RemoveSteps
  <1>4. SlotsCounted'
    <2>1. Slots' = Slots
      BY DEF SessionInv, TypeOK, Placed, Slots, RemoveSteps
    <2>2. QED
      BY <2>1 DEF SessionInv, SlotsCounted
  <1>5. QED
    BY <1>1, <1>2, <1>3, <1>4 DEF SessionInv

\* Use preserves SessionInv.
LEMMA UseStep ==
    ASSUME SessionInv, NEW r \in Requests, Use(r)
    PROVE  SessionInv'
  <1> USE NoCookieAssumption DEF Use, mainVars, Answer, Goto
  <1>1. TypeOK'
    BY DEF SessionInv, TypeOK, Ages, IsletStates, Placed, Busy, Refreshed, RemoveSteps
  <1>2. ASSUME NEW x \in Requests
        PROVE  Placed(x)' /\ Issued(x)' /\ Born(x)' /\ Tracked(x)' /\ Forgetting(x)'
    BY DEF SessionInv, TypeOK, Placed, Issued, Born, Tracked, Forgetting, Exists, Sweeping,
           NoneTaken, Busy, Refreshed, RemoveSteps
  <1>3. Sweeping' /\ Drained'
    BY DEF SessionInv, TypeOK, Sweeping, Drained, NoneTaken, Issued, Ages, Busy, Refreshed,
           RemoveSteps
  <1>4. SlotsCounted'
    <2>1. Slots' = Slots
      BY DEF SessionInv, TypeOK, Placed, Slots, RemoveSteps
    <2>2. QED
      BY <2>1 DEF SessionInv, SlotsCounted
  <1>5. QED
    BY <1>1, <1>2, <1>3, <1>4 DEF SessionInv

\* Reseed preserves SessionInv.
LEMMA ReseedStep ==
    ASSUME SessionInv, NEW r \in Requests, Reseed(r)
    PROVE  SessionInv'
  <1> USE NoCookieAssumption DEF Reseed, mainVars, Goto
  <1>1. TypeOK'
    BY DEF SessionInv, TypeOK, Ages, IsletStates, Placed, Busy, Refreshed, RemoveSteps
  <1>2. ASSUME NEW x \in Requests
        PROVE  Placed(x)' /\ Issued(x)' /\ Born(x)' /\ Tracked(x)' /\ Forgetting(x)'
    BY DEF SessionInv, TypeOK, Placed, Issued, Born, Tracked, Forgetting, Exists, Sweeping,
           NoneTaken, Busy, Refreshed, RemoveSteps
  <1>3. Sweeping' /\ Drained'
    BY DEF SessionInv, TypeOK, Sweeping, Drained, NoneTaken, Issued, Ages, Busy, Refreshed,
           RemoveSteps
  <1>4. SlotsCounted'
    <2>1. Slots' = Slots
      BY DEF SessionInv, TypeOK, Placed, Slots, RemoveSteps
    <2>2. QED
      BY <2>1 DEF SessionInv, SlotsCounted
  <1>5. QED
    BY <1>1, <1>2, <1>3, <1>4 DEF SessionInv

\* ReseedEnds preserves SessionInv.
LEMMA ReseedEndsStep ==
    ASSUME SessionInv, NEW r \in Requests, ReseedEnds(r)
    PROVE  SessionInv'
  <1> USE NoCookieAssumption DEF ReseedEnds, mainVars, Answer, Goto
  <1>1. TypeOK'
    BY DEF SessionInv, TypeOK, Ages, IsletStates, Placed, Busy, Refreshed, RemoveSteps
  <1>2. ASSUME NEW x \in Requests
        PROVE  Placed(x)' /\ Issued(x)' /\ Born(x)' /\ Tracked(x)' /\ Forgetting(x)'
    BY DEF SessionInv, TypeOK, Placed, Issued, Born, Tracked, Forgetting, Exists, Sweeping,
           NoneTaken, Busy, Refreshed, RemoveSteps
  <1>3. Sweeping' /\ Drained'
    BY DEF SessionInv, TypeOK, Sweeping, Drained, NoneTaken, Issued, Ages, Busy, Refreshed,
           RemoveSteps
  <1>4. SlotsCounted'
    <2>1. Slots' = Slots
      BY DEF SessionInv, TypeOK, Placed, Slots, RemoveSteps
    <2>2. QED
      BY <2>1 DEF SessionInv, SlotsCounted
  <1>5. QED
    BY <1>1, <1>2, <1>3, <1>4 DEF SessionInv

\* Forget preserves SessionInv.
LEMMA ForgetStep ==
    ASSUME SessionInv, NEW r \in Requests, Forget(r)
    PROVE  SessionInv'
  <1> USE NoCookieAssumption DEF Forget, mainVars, Answer, Goto
  <1>1. TypeOK'
    BY DEF SessionInv, TypeOK, Ages, IsletStates, Placed, Busy, Refreshed, RemoveSteps
  <1>2. ASSUME NEW x \in Requests
        PROVE  Placed(x)' /\ Issued(x)' /\ Born(x)' /\ Tracked(x)' /\ Forgetting(x)'
    BY DEF SessionInv, TypeOK, Placed, Issued, Born, Tracked, Forgetting, Exists, Sweeping,
           NoneTaken, Busy, Refreshed, RemoveSteps
  <1>3. Sweeping' /\ Drained'
    BY DEF SessionInv, TypeOK, Sweeping, Drained, NoneTaken, Issued, Ages, Busy, Refreshed,
           RemoveSteps
  <1>4. SlotsCounted'
    <2>1. Slots' = Slots
      BY DEF SessionInv, TypeOK, Placed, Slots, RemoveSteps
    <2>2. QED
      BY <2>1 DEF SessionInv, SlotsCounted
  <1>5. QED
    BY <1>1, <1>2, <1>3, <1>4 DEF SessionInv

\* Tick preserves SessionInv.
LEMMA TickStep ==
    ASSUME SessionInv, Tick
    PROVE  SessionInv'
  <1> USE NoCookieAssumption DEF Tick, mainVars, Take, Sweepable
  <1>1. TypeOK'
    BY DEF SessionInv, TypeOK, Ages, IsletStates, Placed, Busy, Refreshed, RemoveSteps
  <1>2. ASSUME NEW x \in Requests
        PROVE  Placed(x)' /\ Issued(x)' /\ Born(x)' /\ Tracked(x)' /\ Forgetting(x)'
    BY DEF SessionInv, TypeOK, Placed, Issued, Born, Tracked, Forgetting, Exists, Sweeping,
           NoneTaken, Busy, Refreshed, RemoveSteps
  <1>3. Sweeping' /\ Drained'
    BY DEF SessionInv, TypeOK, Sweeping, Drained, NoneTaken, Issued, Ages, Busy, Refreshed,
           RemoveSteps
  <1>4. SlotsCounted'
    <2>1. Slots' = Slots
      BY DEF SessionInv, TypeOK, Placed, Slots, RemoveSteps
    <2>2. QED
      BY <2>1 DEF SessionInv, SlotsCounted
  <1>5. QED
    BY <1>1, <1>2, <1>3, <1>4 DEF SessionInv

\* SweepNext preserves SessionInv.
LEMMA SweepNextStep ==
    ASSUME SessionInv, NEW t \in Requests, SweepNext(t)
    PROVE  SessionInv'
  <1> USE NoCookieAssumption DEF SweepNext, mainVars
  <1>1. TypeOK'
    BY DEF SessionInv, TypeOK, Ages, IsletStates, Placed, Busy, Refreshed, RemoveSteps
  <1>2. ASSUME NEW x \in Requests
        PROVE  Placed(x)' /\ Issued(x)' /\ Born(x)' /\ Tracked(x)' /\ Forgetting(x)'
    BY DEF SessionInv, TypeOK, Placed, Issued, Born, Tracked, Forgetting, Exists, Sweeping,
           NoneTaken, Busy, Refreshed, RemoveSteps
  <1>3. Sweeping' /\ Drained'
    BY DEF SessionInv, TypeOK, Sweeping, Drained, NoneTaken, Issued, Ages, Busy, Refreshed,
           RemoveSteps
  <1>4. SlotsCounted'
    <2>1. Slots' = Slots
      BY DEF SessionInv, TypeOK, Placed, Slots, RemoveSteps
    <2>2. QED
      BY <2>1 DEF SessionInv, SlotsCounted
  <1>5. QED
    BY <1>1, <1>2, <1>3, <1>4 DEF SessionInv

\* SweepEnds preserves SessionInv.
LEMMA SweepEndsStep ==
    ASSUME SessionInv, SweepEnds
    PROVE  SessionInv'
  <1> USE NoCookieAssumption DEF SweepEnds, mainVars
  <1>1. TypeOK'
    BY DEF SessionInv, TypeOK, Ages, IsletStates, Placed, Busy, Refreshed, RemoveSteps
  <1>2. ASSUME NEW x \in Requests
        PROVE  Placed(x)' /\ Issued(x)' /\ Born(x)' /\ Tracked(x)' /\ Forgetting(x)'
    BY DEF SessionInv, TypeOK, Placed, Issued, Born, Tracked, Forgetting, Exists, Sweeping,
           NoneTaken, Busy, Refreshed, RemoveSteps
  <1>3. Sweeping' /\ Drained'
    BY DEF SessionInv, TypeOK, Sweeping, Drained, NoneTaken, Issued, Ages, Busy, Refreshed,
           RemoveSteps
  <1>4. SlotsCounted'
    <2>1. Slots' = Slots
      BY DEF SessionInv, TypeOK, Placed, Slots, RemoveSteps
    <2>2. QED
      BY <2>1 DEF SessionInv, SlotsCounted
  <1>5. QED
    BY <1>1, <1>2, <1>3, <1>4 DEF SessionInv

\* ManagerCloses preserves SessionInv.
LEMMA ManagerClosesStep ==
    ASSUME SessionInv, ManagerCloses
    PROVE  SessionInv'
  <1> USE NoCookieAssumption DEF ManagerCloses, mainVars
  <1>1. TypeOK'
    BY DEF SessionInv, TypeOK, Ages, IsletStates, Placed, Busy, Refreshed, RemoveSteps
  <1>2. ASSUME NEW x \in Requests
        PROVE  Placed(x)' /\ Issued(x)' /\ Born(x)' /\ Tracked(x)' /\ Forgetting(x)'
    BY DEF SessionInv, TypeOK, Placed, Issued, Born, Tracked, Forgetting, Exists, Sweeping,
           NoneTaken, Busy, Refreshed, RemoveSteps
  <1>3. Sweeping' /\ Drained'
    BY DEF SessionInv, TypeOK, Sweeping, Drained, NoneTaken, Issued, Ages, Busy, Refreshed,
           RemoveSteps
  <1>4. SlotsCounted'
    <2>1. Slots' = Slots
      BY DEF SessionInv, TypeOK, Placed, Slots, RemoveSteps
    <2>2. QED
      BY <2>1 DEF SessionInv, SlotsCounted
  <1>5. QED
    BY <1>1, <1>2, <1>3, <1>4 DEF SessionInv

\* Stop preserves SessionInv.
LEMMA StopStep ==
    ASSUME SessionInv, Stop
    PROVE  SessionInv'
  <1> USE NoCookieAssumption DEF Stop, mainVars
  <1>1. TypeOK'
    BY DEF SessionInv, TypeOK, Ages, IsletStates, Placed, Busy, Refreshed, RemoveSteps
  <1>2. ASSUME NEW x \in Requests
        PROVE  Placed(x)' /\ Issued(x)' /\ Born(x)' /\ Tracked(x)' /\ Forgetting(x)'
    BY DEF SessionInv, TypeOK, Placed, Issued, Born, Tracked, Forgetting, Exists, Sweeping,
           NoneTaken, Busy, Refreshed, RemoveSteps
  <1>3. Sweeping' /\ Drained'
    BY DEF SessionInv, TypeOK, Sweeping, Drained, NoneTaken, Issued, Ages, Busy, Refreshed,
           RemoveSteps
  <1>4. SlotsCounted'
    <2>1. Slots' = Slots
      BY DEF SessionInv, TypeOK, Placed, Slots, RemoveSteps
    <2>2. QED
      BY <2>1 DEF SessionInv, SlotsCounted
  <1>5. QED
    BY <1>1, <1>2, <1>3, <1>4 DEF SessionInv

\* Drain preserves SessionInv.
LEMMA DrainStep ==
    ASSUME SessionInv, Drain
    PROVE  SessionInv'
  <1> USE NoCookieAssumption DEF Drain, mainVars, Take, Sweepable, Running, DrainError
  <1>1. TypeOK'
    BY DEF SessionInv, TypeOK, Ages, IsletStates, Placed, Busy, Refreshed, RemoveSteps
  <1>2. ASSUME NEW x \in Requests
        PROVE  Placed(x)' /\ Issued(x)' /\ Born(x)' /\ Tracked(x)' /\ Forgetting(x)'
    BY DEF SessionInv, TypeOK, Placed, Issued, Born, Tracked, Forgetting, Exists, Sweeping,
           NoneTaken, Busy, Refreshed, RemoveSteps
  <1>3. Sweeping' /\ Drained'
    BY DEF SessionInv, TypeOK, Sweeping, Drained, NoneTaken, Issued, Ages, Busy, Refreshed,
           RemoveSteps
  <1>4. SlotsCounted'
    <2>1. Slots' = Slots
      BY DEF SessionInv, TypeOK, Placed, Slots, RemoveSteps
    <2>2. QED
      BY <2>1 DEF SessionInv, SlotsCounted
  <1>5. QED
    BY <1>1, <1>2, <1>3, <1>4 DEF SessionInv

\* Expire preserves SessionInv.
LEMMA ExpireStep ==
    ASSUME SessionInv, NEW t \in Requests, Expire(t)
    PROVE  SessionInv'
  <1> USE NoCookieAssumption DEF Expire, mainVars
  <1>1. TypeOK'
    BY DEF SessionInv, TypeOK, Ages, IsletStates, Placed, Busy, Refreshed, RemoveSteps
  <1>2. ASSUME NEW x \in Requests
        PROVE  Placed(x)' /\ Issued(x)' /\ Born(x)' /\ Tracked(x)' /\ Forgetting(x)'
    BY DEF SessionInv, TypeOK, Placed, Issued, Born, Tracked, Forgetting, Exists, Sweeping,
           NoneTaken, Busy, Refreshed, RemoveSteps
  <1>3. Sweeping' /\ Drained'
    BY DEF SessionInv, TypeOK, Sweeping, Drained, NoneTaken, Issued, Ages, Busy, Refreshed,
           RemoveSteps
  <1>4. SlotsCounted'
    <2>1. Slots' = Slots
      BY DEF SessionInv, TypeOK, Placed, Slots, RemoveSteps
    <2>2. QED
      BY <2>1 DEF SessionInv, SlotsCounted
  <1>5. QED
    BY <1>1, <1>2, <1>3, <1>4 DEF SessionInv

\* LateCreate preserves SessionInv.
LEMMA LateCreateStep ==
    ASSUME SessionInv, NEW t \in Requests, LateCreate(t)
    PROVE  SessionInv'
  <1> USE NoCookieAssumption DEF LateCreate, mainVars
  <1>1. TypeOK'
    BY DEF SessionInv, TypeOK, Ages, IsletStates, Placed, Busy, Refreshed, RemoveSteps
  <1>2. ASSUME NEW x \in Requests
        PROVE  Placed(x)' /\ Issued(x)' /\ Born(x)' /\ Tracked(x)' /\ Forgetting(x)'
    BY DEF SessionInv, TypeOK, Placed, Issued, Born, Tracked, Forgetting, Exists, Sweeping,
           NoneTaken, Busy, Refreshed, RemoveSteps
  <1>3. Sweeping' /\ Drained'
    BY DEF SessionInv, TypeOK, Sweeping, Drained, NoneTaken, Issued, Ages, Busy, Refreshed,
           RemoveSteps
  <1>4. SlotsCounted'
    <2>1. Slots' = Slots
      BY DEF SessionInv, TypeOK, Placed, Slots, RemoveSteps
    <2>2. QED
      BY <2>1 DEF SessionInv, SlotsCounted
  <1>5. QED
    BY <1>1, <1>2, <1>3, <1>4 DEF SessionInv

\* Remove preserves SessionInv: a removal that succeeds makes the islet vanish,
\* one that fails leaves a start answered with an error or a session in place.
LEMMA RemoveStep ==
    ASSUME SessionInv, NEW r \in Requests, Remove(r)
    PROVE  SessionInv'
  <1> DEFINE t == Target(r)
  <1>0. t \in Requests /\ islets[t] \in IsletStates /\ pc[r] \in RemoveSteps
    BY DEF SessionInv, TypeOK, Placed, Remove, Target
  <1>1. PICK o \in RemoveOutcomes(pc[r], islets[t]) :
          /\ islets' = [islets EXCEPT ![t] = o.islet]
          /\ \/ o.then \in RemoveSteps /\ Goto(r, o.then) /\ UNCHANGED reply
             \/ /\ o.then \notin RemoveSteps /\ ask[r].op = "start"
                /\ Goto(r, "release")
                /\ reply' = [reply EXCEPT ![r] = "error"]
             \/ o.then = "ok" /\ ask[r].op = "end" /\ Goto(r, "forget") /\ UNCHANGED reply
             \/ o.then = "err" /\ ask[r].op = "end" /\ Answer(r, "error")
    BY DEF Remove
  <1>2. /\ o.islet \in IsletStates
        /\ o.then \in RemoveSteps \cup {"ok", "err"}
        /\ o.then = "ok" => o.islet \in {"none", "coming"}
        /\ o.islet = "coming" => islets[t] = "coming"
        /\ islets[t] \in {"none", "coming"} => o.islet = islets[t]
    BY <1>0, <1>1, RemoveEffect
  <1>3. UNCHANGED <<sessions, pending, ask, main, failed, taken, sweep>>
    BY DEF Remove, mainVars
  <1> HIDE DEF t
  <1>4. t = IF ask[r].op = "start" THEN r ELSE ask[r].cookie
    BY DEF t, Target
  <1> USE NoCookieAssumption, <1>0, <1>1, <1>2, <1>3, <1>4 DEF Answer, Goto
  <1>5. TypeOK'
    BY DEF SessionInv, TypeOK, IsletStates, Busy, Refreshed, RemoveSteps
  <1>6. ASSUME NEW x \in Requests
        PROVE  Placed(x)' /\ Issued(x)' /\ Born(x)' /\ Tracked(x)' /\ Forgetting(x)'
    <2>1. Placed(x)'
      BY DEF SessionInv, TypeOK, Placed, Issued, Busy, Refreshed, RemoveSteps
    <2>2. Issued(x)'
      BY DEF SessionInv, TypeOK, Placed, Issued, Born, RemoveSteps
    <2>3. Born(x)'
      BY DEF SessionInv, TypeOK, Placed, Issued, Born, RemoveSteps
    <2>4. Tracked(x)'
      BY DEF SessionInv, TypeOK, Placed, Issued, Born, Tracked, Exists, RemoveSteps
    <2>5. Forgetting(x)'
      BY DEF SessionInv, TypeOK, Placed, Issued, Born, Forgetting, RemoveSteps
    <2>6. QED
      BY <2>1, <2>2, <2>3, <2>4, <2>5
  <1>7. Sweeping' /\ Drained'
    BY DEF SessionInv, TypeOK, Sweeping, NoneTaken, Drained, Busy, Refreshed
  <1>8. SlotsCounted'
    <2>1. Slots' = Slots
      BY DEF SessionInv, TypeOK, Placed, Slots, RemoveSteps
    <2>2. QED
      BY <2>1 DEF SessionInv, SlotsCounted
  <1>9. QED
    BY <1>5, <1>6, <1>7, <1>8 DEF SessionInv

\* SweepStep preserves SessionInv: what Cleanup cannot remove goes back.
LEMMA SweepStepStep ==
    ASSUME SessionInv, SweepStep
    PROVE  SessionInv'
  <1> DEFINE t == sweep.cur
  <1>0. t \in Requests /\ islets[t] \in IsletStates /\ sweep.step \in RemoveSteps /\ taken[t] # "none"
    BY DEF SessionInv, TypeOK, Sweeping, SweepStep
  <1>1. PICK o \in SweepOutcomes :
          /\ islets' = [islets EXCEPT ![t] = o.islet]
          /\ \/ /\ o.then \in RemoveSteps
                /\ sweep' = [sweep EXCEPT !.step = o.then]
                /\ UNCHANGED <<sessions, taken, failed>>
             \/ /\ o.then \notin RemoveSteps
                /\ sweep' = [cur |-> NoCookie, step |-> "none"]
                /\ taken' = [taken EXCEPT ![t] = "none"]
                /\ sessions' = IF o.then = "err" THEN Reinserted(t) ELSE sessions
                /\ failed' = (failed \/ (o.then = "err" /\ main # "sweeping"))
    BY DEF SweepStep
  <1>2. /\ o.islet \in IsletStates
        /\ o.then \in RemoveSteps \cup {"ok", "err"}
        /\ o.then = "ok" => o.islet \in {"none", "coming"}
        /\ o.islet = "coming" => islets[t] = "coming"
        /\ islets[t] \in {"none", "coming"} => o.islet = islets[t]
    <2>1. CASE main = "overdue"
      BY <1>0, <1>1, <2>1 DEF SweepOutcomes
    <2>2. CASE main # "overdue"
      BY <1>0, <1>1, <2>2, RemoveEffect DEF SweepOutcomes
    <2>3. QED
      BY <2>1, <2>2
  <1>3. UNCHANGED <<pending, ask, pc, reply, main>>
    BY DEF SweepStep
  <1>4. main \in {"sweeping", "final", "overdue"} /\ reply[t] = "created"
    BY <1>0 DEF SessionInv, TypeOK, Sweeping, NoneTaken, Issued
  <1>5. t = sweep.cur
    OBVIOUS
  <1> HIDE DEF t
  <1> USE NoCookieAssumption, <1>0, <1>1, <1>2, <1>3, <1>4, <1>5 DEF Reinserted
  <1>6. TypeOK'
    <2>1. failed' \in BOOLEAN
      BY Zenon DEF SessionInv, TypeOK
    <2>2. sweep' \in [cur : Requests \cup {NoCookie}, step : RemoveSteps \cup {"none"}]
      BY DEF SessionInv, TypeOK
    <2>3. sessions' \in [Requests -> Ages] /\ taken' \in [Requests -> Ages]
      BY DEF SessionInv, TypeOK, Ages
    <2>4. QED
      BY <2>1, <2>2, <2>3 DEF SessionInv, TypeOK
  <1>7. ASSUME NEW x \in Requests
        PROVE  Placed(x)' /\ Issued(x)' /\ Born(x)' /\ Tracked(x)' /\ Forgetting(x)'
    <2>1. Placed(x)'
      BY DEF SessionInv, TypeOK, Placed, RemoveSteps
    <2>2. Issued(x)'
      BY DEF SessionInv, TypeOK, Issued, Born, RemoveSteps
    <2>3. Born(x)'
      BY DEF SessionInv, TypeOK, Issued, Born, RemoveSteps
    <2>4. Tracked(x)'
      BY DEF SessionInv, TypeOK, Issued, Born, Tracked, Exists, RemoveSteps
    <2>5. Forgetting(x)'
      BY DEF SessionInv, TypeOK, Placed, Issued, Born, Forgetting, RemoveSteps
    <2>6. QED
      BY <2>1, <2>2, <2>3, <2>4, <2>5
  <1>8. Sweeping'
    BY DEF SessionInv, TypeOK, Sweeping, NoneTaken, RemoveSteps
  <1>9. Drained'
    BY DEF SessionInv, TypeOK, Drained
  <1>10. SlotsCounted'
    <2>1. Slots' = Slots
      BY DEF Slots
    <2>2. QED
      BY <2>1 DEF SessionInv, SlotsCounted
  <1>11. QED
    BY <1>6, <1>7, <1>8, <1>9, <1>10 DEF SessionInv

\* SessionInv is an invariant of the specification.
LEMMA SessionInvariant == Spec => []SessionInv
  <1>1. SessionInv /\ [Next]_vars => SessionInv'
    <2> SUFFICES ASSUME SessionInv, [Next]_vars PROVE SessionInv'
      OBVIOUS
    <2>1. ASSUME NEW r \in Requests, Handler(r) PROVE SessionInv'
      BY <2>1, StartCheckStep, AdmitStep, CreateStep, RegisterStep, ReleaseStep, CurrentStep,
         OpenStep, UseStep, ReseedStep, ReseedEndsStep, RemoveStep, ForgetStep DEF Handler
    <2>2. ASSUME Sweeper PROVE SessionInv'
      BY <2>2, SweepStepStep, SweepEndsStep, SweepNextStep DEF Sweeper
    <2>3. CASE UNCHANGED vars
      BY <2>3 DEF SessionInv, TypeOK, Placed, Issued, Born, Tracked, Exists, Forgetting, Sweeping,
         NoneTaken, Drained, SlotsCounted, Slots, vars
    <2>4. QED
      BY <2>1, <2>2, <2>3, RejectStep, ArriveStep, TickStep, StopStep, DrainStep, LateCreateStep,
         ExpireStep, ManagerClosesStep DEF Next, Exited
  <1>2. QED
    BY <1>1, SessionInit, PTL DEF Spec

\* Type correctness: in particular pending never falls below zero, because it
\* counts the starts that hold a slot.
THEOREM TypeCorrect == Spec => []TypeOK
  <1>1. SessionInv => TypeOK
    BY DEF SessionInv
  <1>2. QED
    BY <1>1, SessionInvariant, PTL

\* No islet is forgotten while the server runs, whatever fails.
THEOREM NoIsletForgotten == Spec => []NothingForgotten
  <1>1. SessionInv => NothingForgotten
    BY DEF SessionInv, NothingForgotten, Tracked, Busy, Refreshed
  <1>2. QED
    BY <1>1, SessionInvariant, PTL

\* An exit without an error leaves only the islets of failed starts.
THEOREM ExitIsClean == Spec => []CleanExit
  <1>1. SessionInv => CleanExit
    BY DEF SessionInv, CleanExit, Tracked, Drained, Sweeping, NoneTaken, Busy, Refreshed
  <1>2. QED
    BY <1>1, SessionInvariant, PTL

(***************************************************************************)
(* Capacity.  It holds when islets can be removed and Shutdown does not    *)
(* give up on its handlers: only a failed removal puts a session back.     *)
(***************************************************************************)

Reliable == Failures \cap {"remove", "drain"} = {}

\* A session that has expired or that Cleanup has taken is used by nobody.
Alone(t) ==
    taken[t] # "none" \/ sessions[t] = "expired" => \A r \in Requests : ~Using(r, t)

\* A token is in the table or with Cleanup.
OnePlace(t) == taken[t] # "none" => sessions[t] = "none"

\* What Cleanup has seen of the islet still holds.
SweepSure ==
    sweep.cur # NoCookie =>
        /\ sweep.step = "recover" => Exists(sweep.cur)
        /\ sweep.step = "delete" => islets[sweep.cur] # "initializing"

Capacity ==
    /\ IsFiniteSet(Kept \cup Slots)
    /\ Cardinality(Kept \cup Slots) <= MaxSessions

\* Shutdown has not used up its deadline.
InTime == main # "overdue"

CapacityInv ==
    /\ InTime
    /\ \A t \in Requests : Alone(t) /\ OnePlace(t)
    /\ SweepSure
    /\ Capacity

\* A step after which no new token is in the table or on its way to it.
LEMMA CapacityShrinks ==
    ASSUME Capacity, (Kept \cup Slots)' \subseteq Kept \cup Slots
    PROVE  Capacity'
  <1>1. /\ IsFiniteSet((Kept \cup Slots)')
        /\ Cardinality((Kept \cup Slots)') <= Cardinality(Kept \cup Slots)
    BY FS_Subset DEF Capacity
  <1>2. QED
    BY <1>1, FS_CardinalityType, MaxSessionsAssumption DEF Capacity

\* Reject preserves CapacityInv.
LEMMA RejectCapacity ==
    ASSUME Reliable, SessionInv, CapacityInv, NEW r \in Requests, Reject(r)
    PROVE  CapacityInv'
  <1> USE NoCookieAssumption DEF Reject, mainVars, Answer, Goto
  <1>1. ASSUME NEW x \in Requests
        PROVE  Alone(x)' /\ OnePlace(x)'
    BY DEF SessionInv, TypeOK, Placed, Issued, CapacityInv, Alone, OnePlace, Using, Reliable,
           Ages, Sweeping, NoneTaken, Refreshed, RemoveSteps
  <1>2. SweepSure'
    BY DEF SessionInv, TypeOK, Placed, Issued, Born, CapacityInv, SweepSure,
           Sweeping, NoneTaken, Alone, Using, Exists, Refreshed, RemoveSteps
  <1>3. Capacity'
    <2>1. (Kept \cup Slots)' \subseteq Kept \cup Slots
      BY DEF SessionInv, TypeOK, Placed, Slots, Kept, RemoveSteps
    <2>2. QED
      BY <2>1, CapacityShrinks DEF CapacityInv
  <1>4. InTime'
    BY DEF CapacityInv, InTime, Reliable
  <1>5. QED
    BY <1>1, <1>2, <1>3, <1>4 DEF CapacityInv

\* Arrive preserves CapacityInv.
LEMMA ArriveCapacity ==
    ASSUME Reliable, SessionInv, CapacityInv, NEW r \in Requests, NEW op \in {"start", "end", "use"},
           NEW cookie \in Cookies \cup {NoCookie}, Arrive(r, op, cookie)
    PROVE  CapacityInv'
  <1> USE NoCookieAssumption DEF Arrive, mainVars, Goto
  <1>1. ASSUME NEW x \in Requests
        PROVE  Alone(x)' /\ OnePlace(x)'
    BY DEF SessionInv, TypeOK, Placed, Issued, CapacityInv, Alone, OnePlace, Using, Reliable,
           Ages, Sweeping, NoneTaken, Refreshed, RemoveSteps
  <1>2. SweepSure'
    BY DEF SessionInv, TypeOK, Placed, Issued, Born, CapacityInv, SweepSure,
           Sweeping, NoneTaken, Alone, Using, Exists, Refreshed, RemoveSteps
  <1>3. Capacity'
    <2>1. (Kept \cup Slots)' \subseteq Kept \cup Slots
      BY DEF SessionInv, TypeOK, Placed, Slots, Kept, RemoveSteps
    <2>2. QED
      BY <2>1, CapacityShrinks DEF CapacityInv
  <1>4. InTime'
    BY DEF CapacityInv, InTime, Reliable
  <1>5. QED
    BY <1>1, <1>2, <1>3, <1>4 DEF CapacityInv

\* StartCheck preserves CapacityInv.
LEMMA StartCheckCapacity ==
    ASSUME Reliable, SessionInv, CapacityInv, NEW r \in Requests, StartCheck(r)
    PROVE  CapacityInv'
  <1> USE NoCookieAssumption DEF StartCheck, mainVars, Goto
  <1>1. ASSUME NEW x \in Requests
        PROVE  Alone(x)' /\ OnePlace(x)'
    BY DEF SessionInv, TypeOK, Placed, Issued, CapacityInv, Alone, OnePlace, Using, Reliable,
           Ages, Sweeping, NoneTaken, Refreshed, RemoveSteps
  <1>2. SweepSure'
    BY DEF SessionInv, TypeOK, Placed, Issued, Born, CapacityInv, SweepSure,
           Sweeping, NoneTaken, Alone, Using, Exists, Refreshed, RemoveSteps
  <1>3. Capacity'
    <2>1. (Kept \cup Slots)' \subseteq Kept \cup Slots
      BY DEF SessionInv, TypeOK, Placed, Slots, Kept, RemoveSteps
    <2>2. QED
      BY <2>1, CapacityShrinks DEF CapacityInv
  <1>4. InTime'
    BY DEF CapacityInv, InTime, Reliable
  <1>5. QED
    BY <1>1, <1>2, <1>3, <1>4 DEF CapacityInv

\* Admit preserves CapacityInv.
LEMMA AdmitCapacity ==
    ASSUME Reliable, SessionInv, CapacityInv, NEW r \in Requests, Admit(r)
    PROVE  CapacityInv'
  <1> USE NoCookieAssumption DEF Admit, mainVars, Answer, Goto
  <1>1. ASSUME NEW x \in Requests
        PROVE  Alone(x)' /\ OnePlace(x)'
    BY DEF SessionInv, TypeOK, Placed, Issued, CapacityInv, Alone, OnePlace, Using, Reliable,
           Ages, Sweeping, NoneTaken, Refreshed, RemoveSteps
  <1>2. SweepSure'
    BY DEF SessionInv, TypeOK, Placed, Issued, Born, CapacityInv, SweepSure,
           Sweeping, NoneTaken, Alone, Using, Exists, Refreshed, RemoveSteps
  <1>3. Capacity'
    <2>1. CASE Full
      <3>1. (Kept \cup Slots)' \subseteq Kept \cup Slots
        BY <2>1 DEF SessionInv, TypeOK, Placed, Slots, Kept, RemoveSteps
      <3>2. QED
        BY <3>1, CapacityShrinks DEF CapacityInv
    <2>2. CASE ~Full
      <3>1. (Kept \cup Slots)' = (Kept \cup Slots) \cup {r}
        BY <2>2 DEF SessionInv, TypeOK, Placed, Slots, Kept, RemoveSteps
      <3>2. IsFiniteSet(Kept) /\ IsFiniteSet(Slots) /\ IsFiniteSet(Kept \cap Slots)
        BY FS_Subset DEF CapacityInv, Capacity
      <3>3. Cardinality(Kept \cup Slots) + 1 <= MaxSessions
        <4>1. Cardinality(Kept \cup Slots) =
                Cardinality(Kept) + Cardinality(Slots) - Cardinality(Kept \cap Slots)
          BY <3>2, FS_Union
        <4>2. /\ Cardinality(Kept) \in Nat /\ Cardinality(Slots) \in Nat
              /\ Cardinality(Kept \cap Slots) \in Nat
          BY <3>2, FS_CardinalityType
        <4>3. Cardinality(Kept) + Cardinality(Slots) < MaxSessions
          BY <2>2, <4>2, MaxSessionsAssumption DEF Full, SessionInv, SlotsCounted
        <4>4. QED
          BY <4>1, <4>2, <4>3, MaxSessionsAssumption
      <3>4. /\ IsFiniteSet((Kept \cup Slots) \cup {r})
            /\ Cardinality((Kept \cup Slots) \cup {r}) <= MaxSessions
        <4> DEFINE U == Kept \cup Slots
        <4>1. IsFiniteSet(U) /\ Cardinality(U) + 1 <= MaxSessions
          BY <3>3 DEF CapacityInv, Capacity
        <4> HIDE DEF U
        <4>2. Cardinality(U) \in Nat
          BY <4>1, FS_CardinalityType
        <4>3. /\ IsFiniteSet(U \cup {r})
              /\ Cardinality(U \cup {r}) = IF r \in U THEN Cardinality(U) ELSE Cardinality(U) + 1
          BY <4>1, FS_AddElement
        <4>4. IsFiniteSet(U \cup {r}) /\ Cardinality(U \cup {r}) <= MaxSessions
          BY <4>1, <4>2, <4>3, MaxSessionsAssumption
        <4>5. QED
          BY <4>4 DEF U
      <3>5. QED
        BY <3>1, <3>4 DEF Capacity
    <2>3. QED
      BY <2>1, <2>2
  <1>4. InTime'
    BY DEF CapacityInv, InTime, Reliable
  <1>5. QED
    BY <1>1, <1>2, <1>3, <1>4 DEF CapacityInv

\* Create preserves CapacityInv.
LEMMA CreateCapacity ==
    ASSUME Reliable, SessionInv, CapacityInv, NEW r \in Requests, Create(r)
    PROVE  CapacityInv'
  <1> USE NoCookieAssumption DEF Create, mainVars, Goto
  <1>1. ASSUME NEW x \in Requests
        PROVE  Alone(x)' /\ OnePlace(x)'
    BY DEF SessionInv, TypeOK, Placed, Issued, CapacityInv, Alone, OnePlace, Using, Reliable,
           Ages, Sweeping, NoneTaken, Refreshed, RemoveSteps
  <1>2. SweepSure'
    BY DEF SessionInv, TypeOK, Placed, Issued, Born, CapacityInv, SweepSure,
           Sweeping, NoneTaken, Alone, Using, Exists, Refreshed, RemoveSteps
  <1>3. Capacity'
    <2>1. (Kept \cup Slots)' \subseteq Kept \cup Slots
      BY DEF SessionInv, TypeOK, Placed, Slots, Kept, RemoveSteps
    <2>2. QED
      BY <2>1, CapacityShrinks DEF CapacityInv
  <1>4. InTime'
    BY DEF CapacityInv, InTime, Reliable
  <1>5. QED
    BY <1>1, <1>2, <1>3, <1>4 DEF CapacityInv

\* Register preserves CapacityInv.
LEMMA RegisterCapacity ==
    ASSUME Reliable, SessionInv, CapacityInv, NEW r \in Requests, Register(r)
    PROVE  CapacityInv'
  <1> USE NoCookieAssumption DEF Register, mainVars, Goto
  <1>1. ASSUME NEW x \in Requests
        PROVE  Alone(x)' /\ OnePlace(x)'
    BY DEF SessionInv, TypeOK, Placed, Issued, CapacityInv, Alone, OnePlace, Using, Reliable,
           Ages, Sweeping, NoneTaken, Refreshed, RemoveSteps
  <1>2. SweepSure'
    BY DEF SessionInv, TypeOK, Placed, Issued, Born, CapacityInv, SweepSure,
           Sweeping, NoneTaken, Alone, Using, Exists, Refreshed, RemoveSteps
  <1>3. Capacity'
    <2>1. (Kept \cup Slots)' \subseteq Kept \cup Slots
      BY DEF SessionInv, TypeOK, Placed, Slots, Kept, RemoveSteps
    <2>2. QED
      BY <2>1, CapacityShrinks DEF CapacityInv
  <1>4. InTime'
    BY DEF CapacityInv, InTime, Reliable
  <1>5. QED
    BY <1>1, <1>2, <1>3, <1>4 DEF CapacityInv

\* Release preserves CapacityInv.
LEMMA ReleaseCapacity ==
    ASSUME Reliable, SessionInv, CapacityInv, NEW r \in Requests, Release(r)
    PROVE  CapacityInv'
  <1> USE NoCookieAssumption DEF Release, mainVars, Goto
  <1>1. ASSUME NEW x \in Requests
        PROVE  Alone(x)' /\ OnePlace(x)'
    BY DEF SessionInv, TypeOK, Placed, Issued, CapacityInv, Alone, OnePlace, Using, Reliable,
           Ages, Sweeping, NoneTaken, Refreshed, RemoveSteps
  <1>2. SweepSure'
    BY DEF SessionInv, TypeOK, Placed, Issued, Born, CapacityInv, SweepSure,
           Sweeping, NoneTaken, Alone, Using, Exists, Refreshed, RemoveSteps
  <1>3. Capacity'
    <2>1. (Kept \cup Slots)' \subseteq Kept \cup Slots
      BY DEF SessionInv, TypeOK, Placed, Slots, Kept, RemoveSteps
    <2>2. QED
      BY <2>1, CapacityShrinks DEF CapacityInv
  <1>4. InTime'
    BY DEF CapacityInv, InTime, Reliable
  <1>5. QED
    BY <1>1, <1>2, <1>3, <1>4 DEF CapacityInv

\* Current preserves CapacityInv.
LEMMA CurrentCapacity ==
    ASSUME Reliable, SessionInv, CapacityInv, NEW r \in Requests, Current(r)
    PROVE  CapacityInv'
  <1> USE NoCookieAssumption DEF Current, mainVars, Answer, Goto, Alive
  <1>1. ASSUME NEW x \in Requests
        PROVE  Alone(x)' /\ OnePlace(x)'
    BY DEF SessionInv, TypeOK, Placed, Issued, CapacityInv, Alone, OnePlace, Using, Reliable,
           Ages, Sweeping, NoneTaken, Refreshed, RemoveSteps
  <1>2. SweepSure'
    BY DEF SessionInv, TypeOK, Placed, Issued, Born, CapacityInv, SweepSure,
           Sweeping, NoneTaken, Alone, Using, Exists, Refreshed, RemoveSteps
  <1>3. Capacity'
    <2>1. (Kept \cup Slots)' \subseteq Kept \cup Slots
      BY DEF SessionInv, TypeOK, Placed, Slots, Kept, RemoveSteps
    <2>2. QED
      BY <2>1, CapacityShrinks DEF CapacityInv
  <1>4. InTime'
    BY DEF CapacityInv, InTime, Reliable
  <1>5. QED
    BY <1>1, <1>2, <1>3, <1>4 DEF CapacityInv

\* Open preserves CapacityInv.
LEMMA OpenCapacity ==
    ASSUME Reliable, SessionInv, CapacityInv, NEW r \in Requests, Open(r)
    PROVE  CapacityInv'
  <1> USE NoCookieAssumption DEF Open, mainVars, Answer, Goto
  <1>0. "hang" \notin Failures
    BY FailuresAssumption DEF Reliable
  <1>1. ASSUME NEW x \in Requests
        PROVE  Alone(x)' /\ OnePlace(x)'
    BY <1>0 DEF SessionInv, TypeOK, Placed, Issued, CapacityInv, Alone, OnePlace, Using, Reliable,
           Ages, Sweeping, NoneTaken, Refreshed, RemoveSteps
  <1>2. SweepSure'
    BY DEF SessionInv, TypeOK, Placed, Issued, Born, CapacityInv, SweepSure,
           Sweeping, NoneTaken, Alone, Using, Exists, Refreshed, RemoveSteps
  <1>3. Capacity'
    <2>1. (Kept \cup Slots)' \subseteq Kept \cup Slots
      BY DEF SessionInv, TypeOK, Placed, Slots, Kept, RemoveSteps
    <2>2. QED
      BY <2>1, CapacityShrinks DEF CapacityInv
  <1>4. InTime'
    BY DEF CapacityInv, InTime, Reliable
  <1>5. QED
    BY <1>1, <1>2, <1>3, <1>4 DEF CapacityInv

\* Use preserves CapacityInv.
LEMMA UseCapacity ==
    ASSUME Reliable, SessionInv, CapacityInv, NEW r \in Requests, Use(r)
    PROVE  CapacityInv'
  <1> USE NoCookieAssumption DEF Use, mainVars, Answer, Goto
  <1>1. ASSUME NEW x \in Requests
        PROVE  Alone(x)' /\ OnePlace(x)'
    BY DEF SessionInv, TypeOK, Placed, Issued, CapacityInv, Alone, OnePlace, Using, Reliable,
           Ages, Sweeping, NoneTaken, Refreshed, RemoveSteps
  <1>2. SweepSure'
    BY DEF SessionInv, TypeOK, Placed, Issued, Born, CapacityInv, SweepSure,
           Sweeping, NoneTaken, Alone, Using, Exists, Refreshed, RemoveSteps
  <1>3. Capacity'
    <2>1. (Kept \cup Slots)' \subseteq Kept \cup Slots
      BY DEF SessionInv, TypeOK, Placed, Slots, Kept, RemoveSteps
    <2>2. QED
      BY <2>1, CapacityShrinks DEF CapacityInv
  <1>4. InTime'
    BY DEF CapacityInv, InTime, Reliable
  <1>5. QED
    BY <1>1, <1>2, <1>3, <1>4 DEF CapacityInv

\* Reseed preserves CapacityInv.
LEMMA ReseedCapacity ==
    ASSUME Reliable, SessionInv, CapacityInv, NEW r \in Requests, Reseed(r)
    PROVE  CapacityInv'
  <1> USE NoCookieAssumption DEF Reseed, mainVars, Goto
  <1>1. ASSUME NEW x \in Requests
        PROVE  Alone(x)' /\ OnePlace(x)'
    BY DEF SessionInv, TypeOK, Placed, Issued, CapacityInv, Alone, OnePlace, Using, Reliable,
           Ages, Sweeping, NoneTaken, Refreshed, RemoveSteps
  <1>2. SweepSure'
    BY DEF SessionInv, TypeOK, Placed, Issued, Born, CapacityInv, SweepSure,
           Sweeping, NoneTaken, Alone, Using, Exists, Refreshed, RemoveSteps
  <1>3. Capacity'
    <2>1. (Kept \cup Slots)' \subseteq Kept \cup Slots
      BY DEF SessionInv, TypeOK, Placed, Slots, Kept, RemoveSteps
    <2>2. QED
      BY <2>1, CapacityShrinks DEF CapacityInv
  <1>4. InTime'
    BY DEF CapacityInv, InTime, Reliable
  <1>5. QED
    BY <1>1, <1>2, <1>3, <1>4 DEF CapacityInv

\* ReseedEnds preserves CapacityInv.
LEMMA ReseedEndsCapacity ==
    ASSUME Reliable, SessionInv, CapacityInv, NEW r \in Requests, ReseedEnds(r)
    PROVE  CapacityInv'
  <1> USE NoCookieAssumption DEF ReseedEnds, mainVars, Answer, Goto
  <1>1. ASSUME NEW x \in Requests
        PROVE  Alone(x)' /\ OnePlace(x)'
    BY DEF SessionInv, TypeOK, Placed, Issued, CapacityInv, Alone, OnePlace, Using, Reliable,
           Ages, Sweeping, NoneTaken, Refreshed, RemoveSteps
  <1>2. SweepSure'
    BY DEF SessionInv, TypeOK, Placed, Issued, Born, CapacityInv, SweepSure,
           Sweeping, NoneTaken, Alone, Using, Exists, Refreshed, RemoveSteps
  <1>3. Capacity'
    <2>1. (Kept \cup Slots)' \subseteq Kept \cup Slots
      BY DEF SessionInv, TypeOK, Placed, Slots, Kept, RemoveSteps
    <2>2. QED
      BY <2>1, CapacityShrinks DEF CapacityInv
  <1>4. InTime'
    BY DEF CapacityInv, InTime, Reliable
  <1>5. QED
    BY <1>1, <1>2, <1>3, <1>4 DEF CapacityInv

\* Remove preserves CapacityInv.
LEMMA RemoveCapacity ==
    ASSUME Reliable, SessionInv, CapacityInv, NEW r \in Requests, Remove(r)
    PROVE  CapacityInv'
  <1> USE NoCookieAssumption DEF Remove, mainVars, Answer, Goto, Target
  <1>1. ASSUME NEW x \in Requests
        PROVE  Alone(x)' /\ OnePlace(x)'
    BY DEF SessionInv, TypeOK, Placed, Issued, CapacityInv, Alone, OnePlace, Using, Reliable,
           Ages, Sweeping, NoneTaken, Refreshed, RemoveSteps
  <1>2. SweepSure'
    BY DEF SessionInv, TypeOK, Placed, Issued, Born, CapacityInv, SweepSure,
           Sweeping, NoneTaken, Alone, Using, Exists, Refreshed, RemoveSteps
  <1>3. Capacity'
    <2>1. (Kept \cup Slots)' \subseteq Kept \cup Slots
      BY DEF SessionInv, TypeOK, Placed, Slots, Kept, RemoveSteps
    <2>2. QED
      BY <2>1, CapacityShrinks DEF CapacityInv
  <1>4. InTime'
    BY DEF CapacityInv, InTime, Reliable
  <1>5. QED
    BY <1>1, <1>2, <1>3, <1>4 DEF CapacityInv

\* Forget preserves CapacityInv.
LEMMA ForgetCapacity ==
    ASSUME Reliable, SessionInv, CapacityInv, NEW r \in Requests, Forget(r)
    PROVE  CapacityInv'
  <1> USE NoCookieAssumption DEF Forget, mainVars, Answer, Goto
  <1>1. ASSUME NEW x \in Requests
        PROVE  Alone(x)' /\ OnePlace(x)'
    BY DEF SessionInv, TypeOK, Placed, Issued, CapacityInv, Alone, OnePlace, Using, Reliable,
           Ages, Sweeping, NoneTaken, Refreshed, RemoveSteps
  <1>2. SweepSure'
    BY DEF SessionInv, TypeOK, Placed, Issued, Born, CapacityInv, SweepSure,
           Sweeping, NoneTaken, Alone, Using, Exists, Refreshed, RemoveSteps
  <1>3. Capacity'
    <2>1. (Kept \cup Slots)' \subseteq Kept \cup Slots
      BY DEF SessionInv, TypeOK, Placed, Slots, Kept, RemoveSteps
    <2>2. QED
      BY <2>1, CapacityShrinks DEF CapacityInv
  <1>4. InTime'
    BY DEF CapacityInv, InTime, Reliable
  <1>5. QED
    BY <1>1, <1>2, <1>3, <1>4 DEF CapacityInv

\* Tick preserves CapacityInv.
LEMMA TickCapacity ==
    ASSUME Reliable, SessionInv, CapacityInv, Tick
    PROVE  CapacityInv'
  <1> USE NoCookieAssumption DEF Tick, mainVars, Take, Sweepable
  <1>1. ASSUME NEW x \in Requests
        PROVE  Alone(x)' /\ OnePlace(x)'
    BY DEF SessionInv, TypeOK, Placed, Issued, CapacityInv, Alone, OnePlace, Using, Reliable,
           Ages, Sweeping, NoneTaken, Refreshed, RemoveSteps
  <1>2. SweepSure'
    BY DEF SessionInv, TypeOK, Placed, Issued, Born, CapacityInv, SweepSure,
           Sweeping, NoneTaken, Alone, Using, Exists, Refreshed, RemoveSteps
  <1>3. Capacity'
    <2>1. (Kept \cup Slots)' \subseteq Kept \cup Slots
      BY DEF SessionInv, TypeOK, Placed, Slots, Kept, RemoveSteps
    <2>2. QED
      BY <2>1, CapacityShrinks DEF CapacityInv
  <1>4. InTime'
    BY DEF CapacityInv, InTime, Reliable
  <1>5. QED
    BY <1>1, <1>2, <1>3, <1>4 DEF CapacityInv

\* SweepNext preserves CapacityInv.
LEMMA SweepNextCapacity ==
    ASSUME Reliable, SessionInv, CapacityInv, NEW t \in Requests, SweepNext(t)
    PROVE  CapacityInv'
  <1> USE NoCookieAssumption DEF SweepNext, mainVars
  <1>1. ASSUME NEW x \in Requests
        PROVE  Alone(x)' /\ OnePlace(x)'
    BY DEF SessionInv, TypeOK, Placed, Issued, CapacityInv, Alone, OnePlace, Using, Reliable,
           Ages, Sweeping, NoneTaken, Refreshed, RemoveSteps
  <1>2. SweepSure'
    BY DEF SessionInv, TypeOK, Placed, Issued, Born, CapacityInv, SweepSure,
           Sweeping, NoneTaken, Alone, Using, Exists, Refreshed, RemoveSteps
  <1>3. Capacity'
    <2>1. (Kept \cup Slots)' \subseteq Kept \cup Slots
      BY DEF SessionInv, TypeOK, Placed, Slots, Kept, RemoveSteps
    <2>2. QED
      BY <2>1, CapacityShrinks DEF CapacityInv
  <1>4. InTime'
    BY DEF CapacityInv, InTime, Reliable
  <1>5. QED
    BY <1>1, <1>2, <1>3, <1>4 DEF CapacityInv

\* SweepEnds preserves CapacityInv.
LEMMA SweepEndsCapacity ==
    ASSUME Reliable, SessionInv, CapacityInv, SweepEnds
    PROVE  CapacityInv'
  <1> USE NoCookieAssumption DEF SweepEnds, mainVars
  <1>1. ASSUME NEW x \in Requests
        PROVE  Alone(x)' /\ OnePlace(x)'
    BY DEF SessionInv, TypeOK, Placed, Issued, CapacityInv, Alone, OnePlace, Using, Reliable,
           Ages, Sweeping, NoneTaken, Refreshed, RemoveSteps
  <1>2. SweepSure'
    BY DEF SessionInv, TypeOK, Placed, Issued, Born, CapacityInv, SweepSure,
           Sweeping, NoneTaken, Alone, Using, Exists, Refreshed, RemoveSteps
  <1>3. Capacity'
    <2>1. (Kept \cup Slots)' \subseteq Kept \cup Slots
      BY DEF SessionInv, TypeOK, Placed, Slots, Kept, RemoveSteps
    <2>2. QED
      BY <2>1, CapacityShrinks DEF CapacityInv
  <1>4. InTime'
    BY DEF CapacityInv, InTime, Reliable
  <1>5. QED
    BY <1>1, <1>2, <1>3, <1>4 DEF CapacityInv

\* ManagerCloses preserves CapacityInv.
LEMMA ManagerClosesCapacity ==
    ASSUME Reliable, SessionInv, CapacityInv, ManagerCloses
    PROVE  CapacityInv'
  <1> USE NoCookieAssumption DEF ManagerCloses, mainVars
  <1>1. ASSUME NEW x \in Requests
        PROVE  Alone(x)' /\ OnePlace(x)'
    BY DEF SessionInv, TypeOK, Placed, Issued, CapacityInv, Alone, OnePlace, Using, Reliable,
           Ages, Sweeping, NoneTaken, Refreshed, RemoveSteps
  <1>2. SweepSure'
    BY DEF SessionInv, TypeOK, Placed, Issued, Born, CapacityInv, SweepSure,
           Sweeping, NoneTaken, Alone, Using, Exists, Refreshed, RemoveSteps
  <1>3. Capacity'
    <2>1. (Kept \cup Slots)' \subseteq Kept \cup Slots
      BY DEF SessionInv, TypeOK, Placed, Slots, Kept, RemoveSteps
    <2>2. QED
      BY <2>1, CapacityShrinks DEF CapacityInv
  <1>4. InTime'
    BY DEF CapacityInv, InTime, Reliable
  <1>5. QED
    BY <1>1, <1>2, <1>3, <1>4 DEF CapacityInv

\* Stop preserves CapacityInv.
LEMMA StopCapacity ==
    ASSUME Reliable, SessionInv, CapacityInv, Stop
    PROVE  CapacityInv'
  <1> USE NoCookieAssumption DEF Stop, mainVars
  <1>1. ASSUME NEW x \in Requests
        PROVE  Alone(x)' /\ OnePlace(x)'
    BY DEF SessionInv, TypeOK, Placed, Issued, CapacityInv, Alone, OnePlace, Using, Reliable,
           Ages, Sweeping, NoneTaken, Refreshed, RemoveSteps
  <1>2. SweepSure'
    BY DEF SessionInv, TypeOK, Placed, Issued, Born, CapacityInv, SweepSure,
           Sweeping, NoneTaken, Alone, Using, Exists, Refreshed, RemoveSteps
  <1>3. Capacity'
    <2>1. (Kept \cup Slots)' \subseteq Kept \cup Slots
      BY DEF SessionInv, TypeOK, Placed, Slots, Kept, RemoveSteps
    <2>2. QED
      BY <2>1, CapacityShrinks DEF CapacityInv
  <1>4. InTime'
    BY DEF CapacityInv, InTime, Reliable
  <1>5. QED
    BY <1>1, <1>2, <1>3, <1>4 DEF CapacityInv

\* Drain preserves CapacityInv.
LEMMA DrainCapacity ==
    ASSUME Reliable, SessionInv, CapacityInv, Drain
    PROVE  CapacityInv'
  <1> USE NoCookieAssumption DEF Drain, mainVars, Take, Sweepable, Running, Busy
  <1>1. ASSUME NEW x \in Requests
        PROVE  Alone(x)' /\ OnePlace(x)'
    BY DEF SessionInv, TypeOK, Placed, Issued, CapacityInv, Alone, OnePlace, Using, Reliable,
           Ages, Sweeping, NoneTaken, Refreshed, RemoveSteps
  <1>2. SweepSure'
    BY DEF SessionInv, TypeOK, Placed, Issued, Born, CapacityInv, SweepSure,
           Sweeping, NoneTaken, Alone, Using, Exists, Refreshed, RemoveSteps
  <1>3. Capacity'
    <2>1. (Kept \cup Slots)' \subseteq Kept \cup Slots
      BY DEF SessionInv, TypeOK, Placed, Slots, Kept, RemoveSteps
    <2>2. QED
      BY <2>1, CapacityShrinks DEF CapacityInv
  <1>4. InTime'
    BY DEF CapacityInv, InTime, Reliable
  <1>5. QED
    BY <1>1, <1>2, <1>3, <1>4 DEF CapacityInv

\* Expire preserves CapacityInv.
LEMMA ExpireCapacity ==
    ASSUME Reliable, SessionInv, CapacityInv, NEW t \in Requests, Expire(t)
    PROVE  CapacityInv'
  <1> USE NoCookieAssumption DEF Expire, mainVars
  <1>1. ASSUME NEW x \in Requests
        PROVE  Alone(x)' /\ OnePlace(x)'
    BY DEF SessionInv, TypeOK, Placed, Issued, CapacityInv, Alone, OnePlace, Using, Reliable,
           Ages, Sweeping, NoneTaken, Refreshed, RemoveSteps
  <1>2. SweepSure'
    BY DEF SessionInv, TypeOK, Placed, Issued, Born, CapacityInv, SweepSure,
           Sweeping, NoneTaken, Alone, Using, Exists, Refreshed, RemoveSteps
  <1>3. Capacity'
    <2>1. (Kept \cup Slots)' \subseteq Kept \cup Slots
      BY DEF SessionInv, TypeOK, Placed, Slots, Kept, RemoveSteps
    <2>2. QED
      BY <2>1, CapacityShrinks DEF CapacityInv
  <1>4. InTime'
    BY DEF CapacityInv, InTime, Reliable
  <1>5. QED
    BY <1>1, <1>2, <1>3, <1>4 DEF CapacityInv

\* LateCreate preserves CapacityInv.
LEMMA LateCreateCapacity ==
    ASSUME Reliable, SessionInv, CapacityInv, NEW t \in Requests, LateCreate(t)
    PROVE  CapacityInv'
  <1> USE NoCookieAssumption DEF LateCreate, mainVars
  <1>1. ASSUME NEW x \in Requests
        PROVE  Alone(x)' /\ OnePlace(x)'
    BY DEF SessionInv, TypeOK, Placed, Issued, CapacityInv, Alone, OnePlace, Using, Reliable,
           Ages, Sweeping, NoneTaken, Refreshed, RemoveSteps
  <1>2. SweepSure'
    BY DEF SessionInv, TypeOK, Placed, Issued, Born, CapacityInv, SweepSure,
           Sweeping, NoneTaken, Alone, Using, Exists, Refreshed, RemoveSteps
  <1>3. Capacity'
    <2>1. (Kept \cup Slots)' \subseteq Kept \cup Slots
      BY DEF SessionInv, TypeOK, Placed, Slots, Kept, RemoveSteps
    <2>2. QED
      BY <2>1, CapacityShrinks DEF CapacityInv
  <1>4. InTime'
    BY DEF CapacityInv, InTime, Reliable
  <1>5. QED
    BY <1>1, <1>2, <1>3, <1>4 DEF CapacityInv

\* SweepStep preserves CapacityInv: every removal succeeds, so nothing goes back.
LEMMA SweepStepCapacity ==
    ASSUME Reliable, SessionInv, CapacityInv, SweepStep
    PROVE  CapacityInv'
  <1> DEFINE t == sweep.cur
  <1>0. t \in Requests /\ islets[t] \in IsletStates /\ sweep.step \in RemoveSteps /\ taken[t] # "none"
    BY DEF SessionInv, TypeOK, Sweeping, SweepStep
  <1>a. main # "overdue"
    BY DEF CapacityInv, InTime
  <1>1. PICK o \in SweepOutcomes :
          /\ islets' = [islets EXCEPT ![t] = o.islet]
          /\ \/ /\ o.then \in RemoveSteps
                /\ sweep' = [sweep EXCEPT !.step = o.then]
                /\ UNCHANGED <<sessions, taken, failed>>
             \/ /\ o.then \notin RemoveSteps
                /\ sweep' = [cur |-> NoCookie, step |-> "none"]
                /\ taken' = [taken EXCEPT ![t] = "none"]
                /\ sessions' = IF o.then = "err" THEN Reinserted(t) ELSE sessions
                /\ failed' = (failed \/ (o.then = "err" /\ main # "sweeping"))
    BY DEF SweepStep
  <1>2. /\ sweep.step = "recover" => islets[t] \notin {"none", "coming"}
        /\ sweep.step = "delete" => islets[t] # "initializing"
    BY <1>0, NoCookieAssumption DEF CapacityInv, SweepSure, Exists
  <1>3. /\ o.then # "err"
        /\ o.then = "recover" => o.islet \notin {"none", "coming"}
        /\ o.then = "delete" => o.islet # "initializing"
    <2>1. CASE sweep.step = "reopen"
      BY <1>0, <1>a, <1>1, <2>1 DEF SweepOutcomes, RemoveOutcomes, Reliable, IsletStates
    <2>2. CASE sweep.step = "recover"
      BY <1>a, <1>1, <1>2, <2>2 DEF SweepOutcomes, RemoveOutcomes, Reliable
    <2>3. CASE sweep.step = "delete"
      BY <1>a, <1>1, <1>2, <2>3 DEF SweepOutcomes, RemoveOutcomes, Reliable
    <2>4. QED
      BY <1>0, <2>1, <2>2, <2>3 DEF RemoveSteps
  <1>4. UNCHANGED <<sessions, ask, pc>>
    BY <1>1, <1>3 DEF SweepStep
  <1>5. t = sweep.cur
    OBVIOUS
  <1> HIDE DEF t
  <1>6. ASSUME NEW x \in Requests
        PROVE  Alone(x)' /\ OnePlace(x)'
    BY <1>0, <1>1, <1>4 DEF SessionInv, TypeOK, CapacityInv, Alone, OnePlace, Using
  <1>7. SweepSure'
    BY <1>0, <1>1, <1>3, <1>5 DEF SessionInv, TypeOK, SweepSure, Exists
  <1>b. InTime'
    BY <1>a DEF SweepStep, InTime
  <1>8. Capacity'
    <2>1. (Kept \cup Slots)' \subseteq Kept \cup Slots
      BY <1>4 DEF Kept, Slots
    <2>2. QED
      BY <2>1, CapacityShrinks DEF CapacityInv
  <1>9. QED
    BY <1>6, <1>7, <1>8, <1>b DEF CapacityInv

\* The table never exceeds its limit when removals and the drain succeed.
THEOREM CapacityHolds ==
    ASSUME Reliable
    PROVE  Spec => []WithinCapacity
  <1>1. Init => CapacityInv
    <2> SUFFICES ASSUME Init PROVE CapacityInv
      OBVIOUS
    <2>1. Kept \cup Slots = {}
      BY DEF Init, Kept, Slots, RemoveSteps
    <2>2. Capacity
      BY <2>1, FS_EmptySet, MaxSessionsAssumption DEF Capacity
    <2>3. QED
      BY <2>2 DEF Init, CapacityInv, Alone, OnePlace, SweepSure, InTime
  <1>2. SessionInv /\ CapacityInv /\ [Next]_vars => CapacityInv'
    <2> SUFFICES ASSUME SessionInv, CapacityInv, [Next]_vars PROVE CapacityInv'
      OBVIOUS
    <2> USE Reliable
    <2>1. ASSUME NEW r \in Requests, Handler(r) PROVE CapacityInv'
      BY <2>1, StartCheckCapacity, AdmitCapacity, CreateCapacity, RegisterCapacity,
         ReleaseCapacity, CurrentCapacity, OpenCapacity, UseCapacity, ReseedCapacity,
         ReseedEndsCapacity, RemoveCapacity, ForgetCapacity DEF Handler
    <2>2. ASSUME Sweeper PROVE CapacityInv'
      BY <2>2, SweepStepCapacity, SweepEndsCapacity, SweepNextCapacity DEF Sweeper
    <2>3. CASE UNCHANGED vars
      BY <2>3 DEF CapacityInv, Capacity, Alone, OnePlace, SweepSure, InTime, Using,
             Exists, Kept, Slots, vars
    <2>4. QED
      BY <2>1, <2>2, <2>3, RejectCapacity, ArriveCapacity, TickCapacity, StopCapacity,
         DrainCapacity, LateCreateCapacity, ExpireCapacity, ManagerClosesCapacity DEF Next, Exited
  <1>3. CapacityInv => WithinCapacity
    <2> SUFFICES ASSUME CapacityInv PROVE WithinCapacity
      OBVIOUS
    <2>1. IsFiniteSet(Kept) /\ Cardinality(Kept) <= Cardinality(Kept \cup Slots)
      BY FS_Subset DEF CapacityInv, Capacity
    <2>2. QED
      BY <2>1, FS_CardinalityType, MaxSessionsAssumption DEF CapacityInv, Capacity, WithinCapacity
  <1>4. QED
    BY <1>1, <1>2, <1>3, SessionInvariant, PTL DEF Spec

=============================================================================
