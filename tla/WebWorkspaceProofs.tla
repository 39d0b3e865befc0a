------------------------ MODULE WebWorkspaceProofs -------------------------
(***************************************************************************)
(* What a browser may rely on while the server runs: its workspace is not  *)
(* destroyed under it, and once it is told to reconnect it can.            *)
(***************************************************************************)
EXTENDS WebSessionsProofs

\* A start registers an islet that is there.
Registered(t) == pc[t] = "register" => islets[t] # "none"

\* The cleanup of the ticker works on expired sessions only, and these are off
\* the table.
SweepsExpired(t) ==
    main = "sweeping" /\ taken[t] # "none" => taken[t] = "expired" /\ sessions[t] # "live"

\* The end of session t has removed the islet and forgets the session next, or
\* was answered with an error.
EndedBy(e, t) ==
    /\ ask[e].op = "end" /\ ask[e].cookie = t
    /\ pc[e] = "forget" \/ reply[e] = "error"

\* Until the last Cleanup, only an end leaves a live session without an islet.
Excused(t) ==
    main \in {"serving", "sweeping", "draining"} /\ sessions[t] = "live" /\ islets[t] = "none"
    => \E e \in Requests : EndedBy(e, t)

WorkspaceInv ==
    /\ SessionInv
    /\ \A t \in Requests : Registered(t) /\ SweepsExpired(t) /\ Excused(t)

\* remove destroys an islet in its last step only, and an error never sends it
\* back to an earlier one.
LEMMA RemoveDestroys ==
    ASSUME NEW step \in RemoveSteps, NEW s \in IsletStates,
           NEW o \in RemoveOutcomes(step, s),
           s \notin {"none", "coming"}, o.islet \in {"none", "coming"}
    PROVE  step = "delete" /\ o.then \in {"ok", "err"}
  <1>1. CASE step = "reopen"
    BY <1>1 DEF RemoveOutcomes, IsletStates, RemoveSteps
  <1>2. CASE step = "recover"
    BY <1>2 DEF RemoveOutcomes, IsletStates, RemoveSteps
  <1>3. CASE step = "delete"
    BY <1>3 DEF RemoveOutcomes, IsletStates, RemoveSteps
  <1>4. QED
    BY <1>1, <1>2, <1>3 DEF RemoveSteps

\* An end that excuses its session goes on to do so in every step of another
\* request, and of its own unless it forgets the session.
LEMMA ExcuseStays ==
    ASSUME WorkspaceInv, NEW t \in Requests,
           \/ UNCHANGED <<pc, reply, ask>>
           \/ \E r \in Requests :
                 /\ pc[r] # "forget"
                 /\ pc' = [pc EXCEPT ![r] = pc'[r]]
                 /\ reply' = [reply EXCEPT ![r] = reply'[r]]
                 /\ ask' = [ask EXCEPT ![r] = ask'[r]]
                 /\ pc[r] # "idle" => ask' = ask
                 /\ pc[r] = "release" => reply' = reply
                 /\ pc[r] # "done",
           \E e \in Requests : EndedBy(e, t)
    PROVE  \E e \in Requests : EndedBy(e, t)'
  <1>1. PICK e \in Requests : EndedBy(e, t)
    OBVIOUS
  <1>2. EndedBy(e, t)'
    BY <1>1 DEF EndedBy, WorkspaceInv, SessionInv, TypeOK, Issued
  <1>3. QED
    BY <1>2

\* The steps of a request that change no islet and no session.
LEMMA HandlerKeeps ==
    ASSUME WorkspaceInv, SessionInv', NEW t \in Requests, NEW r \in Requests,
           UNCHANGED <<islets, sessions, main, taken>>,
           \/ StartCheck(r) \/ Admit(r) \/ Current(r) \/ Open(r) \/ Release(r) \/ Reject(r)
           \/ \E op \in {"start", "end", "use"}, cookie \in Requests \cup {NoCookie} :
                 Arrive(r, op, cookie)
    PROVE  Registered(t)' /\ SweepsExpired(t)' /\ Excused(t)'
  <1>1. Registered(t)' /\ SweepsExpired(t)'
    BY DEF StartCheck, Admit, Current, Open, Release, Reject, Arrive, Goto, Answer,
           Registered, SweepsExpired, WorkspaceInv, SessionInv, TypeOK
  <1>2. \/ UNCHANGED <<pc, reply, ask>>
        \/ /\ pc[r] # "forget"
           /\ pc' = [pc EXCEPT ![r] = pc'[r]]
           /\ reply' = [reply EXCEPT ![r] = reply'[r]]
           /\ ask' = [ask EXCEPT ![r] = ask'[r]]
           /\ pc[r] # "idle" => ask' = ask
           /\ pc[r] = "release" => reply' = reply
           /\ pc[r] # "done"
    BY DEF StartCheck, Admit, Current, Open, Release, Reject, Arrive, Goto, Answer,
           WorkspaceInv, SessionInv, TypeOK
  <1>3. Excused(t)'
    BY <1>2, ExcuseStays DEF Excused, WorkspaceInv
  <1>4. QED
    BY <1>1, <1>3

\* A start makes its islet before it registers it.
LEMMA StartKeeps ==
    ASSUME WorkspaceInv, SessionInv', NEW t \in Requests, NEW r \in Requests,
           Create(r) \/ Register(r)
    PROVE  Registered(t)' /\ SweepsExpired(t)' /\ Excused(t)'
  <1>1. Registered(t)' /\ SweepsExpired(t)'
    BY DEF Create, Register, Goto, mainVars, Registered, SweepsExpired, WorkspaceInv,
           SessionInv, TypeOK, Issued
  <1>2. /\ pc[r] # "forget"
        /\ pc' = [pc EXCEPT ![r] = pc'[r]]
        /\ reply' = [reply EXCEPT ![r] = reply'[r]]
        /\ ask' = [ask EXCEPT ![r] = ask'[r]]
        /\ pc[r] # "idle" => ask' = ask
        /\ pc[r] = "release" => reply' = reply
        /\ pc[r] # "done"
    BY DEF Create, Register, Goto, WorkspaceInv, SessionInv, TypeOK
  <1>3. CASE t = r
    BY <1>1, <1>3 DEF Create, Register, Goto, mainVars, Excused, Registered, WorkspaceInv,
           SessionInv, TypeOK, Issued
  <1>4. CASE t # r
    <2>1. UNCHANGED <<islets[t], sessions[t], main>>
      BY <1>4 DEF Create, Register, mainVars, WorkspaceInv, SessionInv, TypeOK
    <2>2. QED
      BY <1>1, <1>2, <2>1, ExcuseStays DEF Excused, WorkspaceInv
  <1>5. QED
    BY <1>1, <1>3, <1>4

\* The handlers that use a workspace destroy none.
LEMMA UseKeeps ==
    ASSUME WorkspaceInv, SessionInv', NEW t \in Requests, NEW r \in Requests,
           Use(r) \/ Reseed(r) \/ ReseedEnds(r)
    PROVE  Registered(t)' /\ SweepsExpired(t)' /\ Excused(t)'
  <1>1. islets[t] # "none" => islets'[t] # "none"
    BY DEF Use, Reseed, ReseedEnds, WorkspaceInv, SessionInv, TypeOK
  <1>2. Registered(t)' /\ SweepsExpired(t)'
    BY <1>1 DEF Use, Reseed, ReseedEnds, Goto, Answer, mainVars, Registered, SweepsExpired,
           WorkspaceInv, SessionInv, TypeOK
  <1>3. /\ pc[r] # "forget"
        /\ pc' = [pc EXCEPT ![r] = pc'[r]]
        /\ reply' = [reply EXCEPT ![r] = reply'[r]]
        /\ ask' = [ask EXCEPT ![r] = ask'[r]]
        /\ pc[r] # "idle" => ask' = ask
        /\ pc[r] = "release" => reply' = reply
        /\ pc[r] # "done"
    BY DEF Use, Reseed, ReseedEnds, Goto, Answer, WorkspaceInv, SessionInv, TypeOK
  <1>4. UNCHANGED <<sessions, main>>
    BY DEF Use, Reseed, ReseedEnds, mainVars
  <1>5. Excused(t)'
    BY <1>1, <1>3, <1>4, ExcuseStays DEF Excused, WorkspaceInv
  <1>6. QED
    BY <1>2, <1>5

\* An end that destroys the islet of a session goes on to forget the session,
\* or is answered with an error.
LEMMA RemoveKeeps ==
    ASSUME WorkspaceInv, SessionInv', NEW t \in Requests, NEW r \in Requests, Remove(r)
    PROVE  Registered(t)' /\ SweepsExpired(t)' /\ Excused(t)'
  <1>1. /\ UNCHANGED <<sessions, main, taken, ask>>
        /\ pc[r] \in RemoveSteps
        /\ Target(r) \in Requests
    BY DEF Remove, mainVars, Target, WorkspaceInv, SessionInv, TypeOK, Placed
  <1>2. PICK o \in RemoveOutcomes(pc[r], islets[Target(r)]) :
          /\ islets' = [islets EXCEPT ![Target(r)] = o.islet]
          /\ \/ o.then \in RemoveSteps /\ Goto(r, o.then) /\ UNCHANGED reply
             \/ /\ o.then \notin RemoveSteps /\ ask[r].op = "start"
                /\ Goto(r, "release")
                /\ reply' = [reply EXCEPT ![r] = "error"]
             \/ o.then = "ok" /\ ask[r].op = "end" /\ Goto(r, "forget") /\ UNCHANGED reply
             \/ o.then = "err" /\ ask[r].op = "end" /\ Answer(r, "error")
    BY DEF Remove
  <1>3. islets[Target(r)] \in IsletStates
    BY <1>1 DEF WorkspaceInv, SessionInv, TypeOK
  <1>4. /\ pc[r] # "forget"
        /\ pc' = [pc EXCEPT ![r] = pc'[r]]
        /\ reply' = [reply EXCEPT ![r] = reply'[r]]
        /\ ask' = [ask EXCEPT ![r] = ask'[r]]
        /\ pc[r] # "idle" => ask' = ask
        /\ pc[r] = "release" => reply' = reply
        /\ pc[r] # "done"
    BY <1>1, <1>2 DEF Goto, Answer, RemoveSteps, WorkspaceInv, SessionInv, TypeOK
  <1>5. SweepsExpired(t)'
    BY <1>1 DEF SweepsExpired, WorkspaceInv
  <1>6. CASE t # Target(r)
    <2>1. islets'[t] = islets[t]
      BY <1>2, <1>6 DEF WorkspaceInv, SessionInv, TypeOK
    <2>2. Registered(t)'
      BY <1>1, <1>2, <2>1 DEF Registered, Goto, Answer, RemoveSteps, WorkspaceInv, SessionInv, TypeOK
    <2>3. QED
      BY <1>1, <1>4, <1>5, <2>1, <2>2, ExcuseStays DEF Excused, WorkspaceInv
  <1>7. CASE t = Target(r)
    <2>1. pc'[t] # "register"
      <3>1. CASE t = r
        BY <1>1, <1>2, <3>1 DEF Goto, Answer, RemoveSteps, WorkspaceInv, SessionInv, TypeOK
      <3>2. CASE t # r
        BY <1>1, <1>4, <1>7, <3>2, NoCookieAssumption DEF Target, WorkspaceInv, SessionInv,
               TypeOK, Issued
      <3>3. QED
        BY <3>1, <3>2
    <2>2. Registered(t)'
      BY <2>1 DEF Registered
    <2>3. CASE islets[t] = "none"
      BY <1>1, <1>4, <1>5, <2>2, <2>3, ExcuseStays DEF Excused, WorkspaceInv
    <2>4. CASE islets[t] # "none" /\ sessions[t] = "live" /\ islets'[t] = "none"
      <3>1. ask[r].op = "end" /\ ask[r].cookie = t /\ islets[t] # "coming"
        BY <1>1, <1>7, <2>4 DEF Target, WorkspaceInv, SessionInv, TypeOK, Placed, Issued, RemoveSteps
      <3>2. o.islet = "none"
        BY <1>2, <1>7, <2>4 DEF WorkspaceInv, SessionInv, TypeOK
      <3>3. o.then \in {"ok", "err"}
        BY <1>1, <1>2, <1>3, <1>7, <2>4, <3>1, <3>2, RemoveDestroys
      <3>4. EndedBy(r, t)'
        BY <1>1, <1>2, <3>1, <3>3 DEF EndedBy, Goto, Answer, RemoveSteps, WorkspaceInv, SessionInv, TypeOK
      <3>5. QED
        BY <1>5, <2>2, <3>4 DEF Excused
    <2>5. QED
      BY <1>1, <1>5, <2>2, <2>3, <2>4 DEF Excused
  <1>8. QED
    BY <1>6, <1>7

\* end forgets a session; the ends of other sessions are as they were.
LEMMA ForgetKeeps ==
    ASSUME WorkspaceInv, SessionInv', NEW t \in Requests, NEW r \in Requests, Forget(r)
    PROVE  Registered(t)' /\ SweepsExpired(t)' /\ Excused(t)'
  <1>1. Registered(t)' /\ SweepsExpired(t)'
    BY DEF Forget, Answer, Goto, mainVars, Registered, SweepsExpired, WorkspaceInv,
           SessionInv, TypeOK
  <1>2. CASE t = ask[r].cookie
    BY <1>1, <1>2 DEF Forget, Excused, WorkspaceInv, SessionInv, TypeOK
  <1>3. CASE t # ask[r].cookie
    <2>1. ASSUME NEW e \in Requests, EndedBy(e, t)
          PROVE  EndedBy(e, t)'
      BY <1>3, <2>1 DEF Forget, Answer, Goto, EndedBy, WorkspaceInv, SessionInv, TypeOK, Issued
    <2>2. UNCHANGED <<islets, sessions[t], main>>
      BY <1>3 DEF Forget, mainVars, WorkspaceInv, SessionInv, TypeOK
    <2>3. QED
      BY <1>1, <2>1, <2>2 DEF Excused, WorkspaceInv
  <1>4. QED
    BY <1>1, <1>2, <1>3

\* The ticker takes expired sessions, the last Cleanup all of them.
LEMMA TakeKeeps ==
    ASSUME WorkspaceInv, SessionInv', NEW t \in Requests, Tick \/ Drain
    PROVE  Registered(t)' /\ SweepsExpired(t)' /\ Excused(t)'
  <1>1. Registered(t)' /\ SweepsExpired(t)'
    BY DEF Tick, Drain, Take, Sweepable, Registered, SweepsExpired, WorkspaceInv, SessionInv,
           TypeOK, Ages
  <1>2. CASE Tick
    <2>1. sessions'[t] = "live" => sessions[t] = "live"
      BY <1>2 DEF Tick, Take, Sweepable
    <2>2. UNCHANGED <<islets, pc, reply, ask>>
      BY <1>2 DEF Tick
    <2>3. QED
      BY <1>1, <1>2, <2>1, <2>2, ExcuseStays DEF Tick, Excused, WorkspaceInv
  <1>3. CASE Drain
    BY <1>1, <1>3 DEF Drain, Excused
  <1>4. QED
    BY <1>2, <1>3

\* Cleanup puts back only sessions it had found expired, until the server is
\* told to stop.
LEMMA SweepStepKeeps ==
    ASSUME WorkspaceInv, SessionInv', NEW t \in Requests, SweepStep
    PROVE  Registered(t)' /\ SweepsExpired(t)' /\ Excused(t)'
  <1>1. /\ sweep.cur \in Requests /\ taken[sweep.cur] # "none"
        /\ main \in {"sweeping", "final", "overdue"}
        /\ UNCHANGED <<ask, pc, reply, main>>
    BY DEF SweepStep, WorkspaceInv, SessionInv, TypeOK, Sweeping, NoneTaken
  <1>2. /\ islets' = [islets EXCEPT ![sweep.cur] = islets'[sweep.cur]]
        /\ taken'[t] \in {taken[t], "none"}
        /\ \/ sessions' = sessions
           \/ /\ sessions' = [sessions EXCEPT ![sweep.cur] = taken[sweep.cur]]
              /\ taken'[sweep.cur] = "none"
    BY DEF SweepStep, Reinserted, WorkspaceInv, SessionInv, TypeOK
  <1>3. SweepsExpired(t)'
    BY <1>1, <1>2 DEF SweepsExpired, WorkspaceInv, SessionInv, TypeOK
  <1>4. Registered(t)'
    BY <1>1, <1>2 DEF Registered, WorkspaceInv, SessionInv, TypeOK, Issued
  <1>5. Excused(t)'
    <2>1. CASE t # sweep.cur
      <3>1. islets'[t] = islets[t] /\ sessions'[t] = sessions[t]
        BY <1>2, <2>1 DEF WorkspaceInv, SessionInv, TypeOK
      <3>2. (\E e \in Requests : EndedBy(e, t)) => \E e \in Requests : EndedBy(e, t)'
        BY <1>1, ExcuseStays
      <3>3. QED
        BY <1>1, <3>1, <3>2 DEF Excused, WorkspaceInv
    <2>2. CASE t = sweep.cur
      <3>1. main = "sweeping" => sessions'[t] # "live"
        BY <1>1, <1>2, <2>2 DEF SweepsExpired, WorkspaceInv, SessionInv, TypeOK
      <3>2. QED
        BY <1>1, <2>2, <3>1 DEF Excused, WorkspaceInv
    <2>3. QED
      BY <2>1, <2>2
  <1>6. QED
    BY <1>3, <1>4, <1>5

\* The other steps of run, time and the server.
LEMMA OthersKeep ==
    ASSUME WorkspaceInv, SessionInv', NEW t \in Requests,
           \/ SweepEnds \/ Stop \/ ManagerCloses
           \/ \E x \in Requests : SweepNext(x) \/ Expire(x) \/ LateCreate(x)
    PROVE  Registered(t)' /\ SweepsExpired(t)' /\ Excused(t)'
  <1>1. UNCHANGED <<pc, reply, ask, taken>>
    BY DEF SweepEnds, Stop, ManagerCloses, SweepNext, Expire, LateCreate, mainVars
  <1>2. /\ islets'[t] = "none" => islets[t] \in {"none", "coming"}
        /\ sessions'[t] = "live" => sessions[t] = "live"
        /\ main' = "sweeping" => main = "sweeping"
        /\ main' \in {"serving", "sweeping", "draining"} =>
              main \in {"serving", "sweeping", "draining"}
    BY DEF SweepEnds, Stop, ManagerCloses, SweepNext, Expire, LateCreate, mainVars, WorkspaceInv,
           SessionInv, TypeOK
  <1>3. /\ pc[t] = "register" => islets[t] # "coming"
        /\ sessions[t] = "live" => islets[t] # "coming"
    BY DEF WorkspaceInv, SessionInv, TypeOK, Born, Issued, RemoveSteps
  <1>4. Registered(t)' /\ SweepsExpired(t)'
    BY <1>1, <1>2, <1>3 DEF Registered, SweepsExpired, WorkspaceInv
  <1>5. (\E e \in Requests : EndedBy(e, t)) => \E e \in Requests : EndedBy(e, t)'
    BY <1>1, ExcuseStays
  <1>6. QED
    BY <1>2, <1>3, <1>4, <1>5 DEF Excused, WorkspaceInv

\* WorkspaceInv is an invariant of the specification.
LEMMA WorkspaceInvariant == Spec => []WorkspaceInv
  <1>1. Init /\ SessionInv => WorkspaceInv
    BY DEF Init, WorkspaceInv, Registered, SweepsExpired, Excused
  <1>2. WorkspaceInv /\ SessionInv' /\ [Next]_vars => WorkspaceInv'
    <2> SUFFICES ASSUME WorkspaceInv, SessionInv', [Next]_vars, NEW t \in Requests
                 PROVE  Registered(t)' /\ SweepsExpired(t)' /\ Excused(t)'
      BY DEF WorkspaceInv
    <2>1. ASSUME NEW r \in Requests, Handler(r)
          PROVE  Registered(t)' /\ SweepsExpired(t)' /\ Excused(t)'
      <3>1. CASE StartCheck(r) \/ Admit(r) \/ Current(r) \/ Open(r) \/ Release(r)
        <4>1. UNCHANGED <<islets, sessions, main, taken>>
          BY <3>1 DEF StartCheck, Admit, Current, Open, Release, mainVars
        <4>2. QED
          BY <3>1, <4>1, HandlerKeeps
      <3>2. QED
        BY <2>1, <3>1, StartKeeps, UseKeeps, RemoveKeeps, ForgetKeeps DEF Handler
    <2>2. ASSUME NEW r \in Requests, Reject(r)
          PROVE  Registered(t)' /\ SweepsExpired(t)' /\ Excused(t)'
      BY <2>2, HandlerKeeps DEF Reject, mainVars
    <2>3. ASSUME NEW r \in Requests, NEW op \in {"start", "end", "use"},
                 NEW cookie \in Cookies \cup {NoCookie}, Arrive(r, op, cookie)
          PROVE  Registered(t)' /\ SweepsExpired(t)' /\ Excused(t)'
      BY <2>3, HandlerKeeps DEF Arrive, mainVars, Cookies
    <2>4. ASSUME Sweeper
          PROVE  Registered(t)' /\ SweepsExpired(t)' /\ Excused(t)'
      BY <2>4, SweepStepKeeps, OthersKeep DEF Sweeper
    <2>5. CASE UNCHANGED vars
      <3>1. (\E e \in Requests : EndedBy(e, t)) => \E e \in Requests : EndedBy(e, t)'
        BY <2>5, ExcuseStays DEF vars
      <3>2. QED
        BY <2>5, <3>1 DEF vars, WorkspaceInv, Registered, SweepsExpired, Excused
    <2>6. QED
      BY <2>1, <2>2, <2>3, <2>4, <2>5, TakeKeeps, OthersKeep DEF Next, Exited
  <1>3. QED
    BY <1>1, <1>2, SessionInvariant, PTL DEF Spec

\* A browser that is told to reconnect can, for any number of requests and any
\* combination of failures, unless an end of the session was answered with an
\* error: the only thing that leaves a live session without its islet is an end
\* between its removal and its Forget.
THEOREM ReconnectIsPossible == Spec => []ReconnectPossible
  <1>1. WorkspaceInv => ReconnectPossible
    <2> SUFFICES ASSUME WorkspaceInv, main = "serving", Running = {}, NEW r \in Requests,
                        Alive(ask[r].cookie), islets[ask[r].cookie] = "none"
                 PROVE  \E e \in Requests : /\ ask[e].op = "end" /\ ask[e].cookie = ask[r].cookie
                                            /\ reply[e] = "error"
      BY DEF ReconnectPossible
    <2>1. PICK e \in Requests : EndedBy(e, ask[r].cookie)
      BY DEF WorkspaceInv, SessionInv, TypeOK, Alive, Excused
    <2>2. pc[e] # "forget"
      BY DEF Running, Busy, Refreshed
    <2>3. QED
      BY <2>1, <2>2 DEF EndedBy
  <1>2. QED
    BY <1>1, WorkspaceInvariant, PTL

\* While the server runs no step destroys an islet but the Delete of an end, of
\* a failed start or of the cleanup of an expired session.
THEOREM WorkspacesAreKept == Spec => WorkspaceKept
  <1>1. ASSUME WorkspaceInv, [Next]_vars, NEW t \in Requests,
               Exists(t), ~Exists(t)', main # "final"
        PROVE  \/ \E r \in Requests : Target(r) = t /\ pc[r] = "delete"
               \/ taken[t] = "expired"
    <2>1. islets[t] \in IsletStates /\ islets'[t] # islets[t]
      BY <1>1 DEF Exists, WorkspaceInv, SessionInv, TypeOK
    <2>2. CASE \E r \in Requests : Handler(r)
      <3>1. PICK r \in Requests : Handler(r)
        BY <2>2
      <3>2. ~(StartCheck(r) \/ Admit(r) \/ Register(r) \/ Release(r) \/ Current(r) \/ Open(r)
              \/ Forget(r))
        BY <2>1 DEF StartCheck, Admit, Register, Release, Current, Open, Forget
      <3>3. ~(Use(r) \/ Reseed(r) \/ ReseedEnds(r))
        BY <1>1, <2>1 DEF Use, Reseed, ReseedEnds, Exists, WorkspaceInv, SessionInv, TypeOK
      <3>4. ~Create(r)
        BY <1>1, <2>1 DEF Create, Exists, WorkspaceInv, SessionInv, TypeOK, Born, RemoveSteps
      <3>5. Remove(r)
        BY <3>1, <3>2, <3>3, <3>4 DEF Handler
      <3>6. PICK o \in RemoveOutcomes(pc[r], islets[Target(r)]) :
              islets' = [islets EXCEPT ![Target(r)] = o.islet]
        BY <3>5 DEF Remove
      <3>7. t = Target(r) /\ o.islet = islets'[t] /\ pc[r] \in RemoveSteps
        BY <1>1, <2>1, <3>5, <3>6 DEF Remove, WorkspaceInv, SessionInv, TypeOK
      <3>8. pc[r] = "delete"
        BY <1>1, <2>1, <3>6, <3>7, RemoveDestroys DEF Exists
      <3>9. QED
        BY <3>7, <3>8
    <2>3. CASE SweepStep
      <3>1. PICK o \in SweepOutcomes : islets' = [islets EXCEPT ![sweep.cur] = o.islet]
        BY <2>3 DEF SweepStep
      <3>2. t = sweep.cur /\ o.islet = islets'[t]
        BY <1>1, <2>1, <3>1 DEF WorkspaceInv, SessionInv, TypeOK
      <3>3. main # "overdue"
        BY <2>1, <3>1, <3>2 DEF SweepOutcomes
      <3>4. main = "sweeping" /\ taken[t] # "none"
        BY <1>1, <3>2, <3>3, NoCookieAssumption DEF WorkspaceInv, SessionInv, TypeOK, Sweeping, NoneTaken
      <3>5. QED
        BY <1>1, <3>4 DEF WorkspaceInv, SweepsExpired
    <2>4. CASE \E x \in Requests : LateCreate(x)
      BY <1>1, <2>1, <2>4 DEF LateCreate, Exists, WorkspaceInv, SessionInv, TypeOK
    <2>5. QED
      BY <1>1, <2>1, <2>2, <2>3, <2>4 DEF Next, Sweeper, Reject, Arrive, Tick, SweepEnds, SweepNext,
         Stop, Drain, ManagerCloses, Expire, Exited, vars
  <1>2. WorkspaceInv /\ [Next]_vars =>
          [\A t \in Requests :
              Exists(t) /\ ~Exists(t)' /\ main # "final" =>
                 \/ \E r \in Requests : Target(r) = t /\ pc[r] = "delete"
                 \/ taken[t] = "expired"]_vars
    BY <1>1
  <1>3. QED
    BY <1>2, WorkspaceInvariant, PTL DEF Spec, WorkspaceKept

=============================================================================
