--------------------------- MODULE GuiWindowProofs ---------------------------
(***************************************************************************)
(* Proofs about the window, for every image, every poll limit and any      *)
(* number of jobs.  The inductive invariant adds to the invariants of      *)
(* GuiWindow where the worker of the present job can be with what it has   *)
(* sent and with what was asked of it.                                     *)
(***************************************************************************)
EXTENDS GuiWindow, TLAPS

\* The places of a worker before its first look at the flag, or right after one
\* that let it go on.
Early == {"opening", "open", "HELLO", "connected", "INFO", "described", "named",
          "BEGIN", "progress"}

\* The buttons follow the job.
Guarded ==
  /\ cancel_button => busy
  /\ busy => started \in Workers

\* How far the worker of a flash is, by the blocks it has sent; nothing else
\* reaches BOOT than a job that is asked to.
Progressed ==
  /\ \A w \in Workers : worker[w] = "DATA" => sent < Blocks
  /\ \A w \in Workers : worker[w] = "BOOT" => title = "boot"
  /\ \A w \in Workers :
       title = "flash" /\ worker[w] \in {"END", "confirmed", "done"} => sent = Blocks
  /\ \A i \in DOMAIN events :
       title = "flash" /\ events[i].kind = "done" => sent = Blocks

\* Once a request has begun after a cancel, the flag will be seen before another.
Late ==
  /\ late \in 0..1
  /\ late = 1 => cancel /\ \A w \in Workers : worker[w] \notin Early

IInv ==
  /\ TypeOK
  /\ ButtonsGuardWorker
  /\ Guarded
  /\ CancelledOnlyIfAsked
  /\ Progressed
  /\ Late

\* ------------------------------------------------------------------ lemmas ----
LEMMA StepAfterType ==
  ASSUME NEW step \in Working
  PROVE  StepAfter(step) \in Working
BY DEF StepAfter, StepAround, Working, Requests, Lines, Ends

\* Every initial state satisfies the invariant.
LEMMA InitHolds == Init => IInv
<1> SUFFICES ASSUME Init PROVE IInv
  OBVIOUS
<1> USE GuiAssumption DEF Init
<1>1. TypeOK
  <2>1. /\ busy \in BOOLEAN /\ cancel_button \in BOOLEAN
        /\ latest_progress \in BOOLEAN /\ cancel \in BOOLEAN
    BY Zenon
  <2>2. /\ taken \in 0..MaxEvents /\ events \in Seq(Event)
        /\ started \in 0..MaxJobs /\ title \in Titles
        /\ sent \in 0..Blocks /\ asked \subseteq 1..started /\ late \in Nat
    BY DEF Titles
  <2>3. worker \in [Workers -> Working \cup {"closing", "none"}]
    OBVIOUS
  <2> QED BY <2>1, <2>2, <2>3 DEF TypeOK
<1>2. ButtonsGuardWorker /\ Guarded /\ CancelledOnlyIfAsked
  BY DEF ButtonsGuardWorker, Guarded, CancelledOnlyIfAsked, Working, Requests, Lines, Ends
<1>3. Progressed /\ Late
  BY DEF Progressed, Late
<1> QED BY <1>1, <1>2, <1>3 DEF IInv

\* Starting a job preserves it: the previous worker has given the buttons back.
LEMMA StartHolds ==
  ASSUME IInv, NEW job \in Titles, Start(job)
  PROVE  IInv'
<1> USE GuiAssumption DEF IInv, Start, SetBusy
<1>1. started + 1 \in Workers
  BY DEF Workers, TypeOK
<1>2. TypeOK'
  <2>1. /\ busy' \in BOOLEAN /\ cancel_button' \in BOOLEAN
        /\ latest_progress' \in BOOLEAN /\ cancel' \in BOOLEAN
    BY Zenon DEF TypeOK
  <2>2. /\ taken' \in 0..MaxEvents /\ events' \in Seq(Event)
        /\ started' \in 0..MaxJobs /\ title' \in Titles
        /\ sent' \in 0..Blocks /\ asked' \subseteq 1..started' /\ late' \in Nat
    BY <1>1 DEF TypeOK, Workers
  <2>3. worker' \in [Workers -> Working \cup {"closing", "none"}]
    BY <1>1 DEF TypeOK, Working, Lines
  <2> QED BY <2>1, <2>2, <2>3 DEF TypeOK
<1>3. ButtonsGuardWorker' /\ Guarded'
  BY <1>1 DEF ButtonsGuardWorker, Guarded, TypeOK, Working, Lines
<1>4. CancelledOnlyIfAsked' /\ Progressed'
  BY <1>1 DEF CancelledOnlyIfAsked, Progressed, TypeOK, ButtonsGuardWorker, Working, Requests, Lines, Ends
<1>5. Late'
  BY DEF Late
<1> QED BY <1>2, <1>3, <1>4, <1>5

\* A step that leaves the worker, the queue, the buttons and what was asked alone.
LEMMA WindowHolds ==
  ASSUME IInv, RefreshPorts \/ BeginPoll \/ Dismiss \/ EndPoll
  PROVE  IInv'
<1> USE DEF RefreshPorts, BeginPoll, Dismiss, EndPoll
<1>1. TypeOK'
  <2>1. /\ busy' \in BOOLEAN /\ cancel_button' \in BOOLEAN
        /\ latest_progress' \in BOOLEAN /\ cancel' \in BOOLEAN
    BY Zenon DEF IInv, TypeOK
  <2>2. /\ window' \in {"loop", "poll", "dialog"} /\ taken' \in 0..MaxEvents
        /\ status' \in {"ready", "running", "cancelling", "progress"} \cup Outcomes
        /\ log' \in {"line"} \cup Outcomes
    BY GuiAssumption DEF IInv, TypeOK
  <2>3. /\ latest_progress' \in BOOLEAN
        /\ UNCHANGED <<events, started, title, worker, sent, asked, late>>
    BY <2>1 DEF job_vars
  <2> QED BY <2>1, <2>2, <2>3 DEF IInv, TypeOK
<1>2. UNCHANGED <<busy, cancel_button, cancel, events, started, title, worker, sent, asked,
                  late>>
  BY DEF job_vars
<1>3. (ButtonsGuardWorker /\ Guarded /\ CancelledOnlyIfAsked)'
  BY <1>2 DEF IInv, ButtonsGuardWorker, Guarded, CancelledOnlyIfAsked, IsOutcome
<1>4. (Progressed /\ Late)'
  BY <1>2 DEF IInv, Progressed, Late
<1> QED BY <1>1, <1>3, <1>4 DEF IInv

\* A press of Cancel preserves it.
LEMMA CancelHolds ==
  ASSUME IInv, Cancel
  PROVE  IInv'
<1> USE DEF Cancel, job_vars
<1>1. started \in Workers /\ busy
  BY DEF IInv, Guarded
<1>2. TypeOK'
  <2>1. /\ busy' \in BOOLEAN /\ cancel_button' \in BOOLEAN
        /\ latest_progress' \in BOOLEAN /\ cancel' \in BOOLEAN
    BY Zenon DEF IInv, TypeOK
  <2>2. asked' \subseteq 1..started'
    BY <1>1 DEF IInv, TypeOK, Workers
  <2> QED BY <2>1, <2>2 DEF IInv, TypeOK
<1>3. (ButtonsGuardWorker /\ Guarded /\ Progressed)'
  BY <1>1 DEF IInv, ButtonsGuardWorker, Guarded, Progressed, IsOutcome
<1>4. (CancelledOnlyIfAsked /\ Late)'
  BY <1>1 DEF IInv, CancelledOnlyIfAsked, Late
<1> QED BY <1>2, <1>3, <1>4 DEF IInv

\* What is left of the queue when its first event is taken.
LEMMA TailOfEvents ==
  ASSUME events \in Seq(Event), events # <<>>
  PROVE  /\ Tail(events) \in Seq(Event) /\ Head(events) \in Event
         /\ Head(events) = events[1]
         /\ Len(Tail(events)) = Len(events) - 1
         /\ \A i \in DOMAIN Tail(events) :
              i + 1 \in DOMAIN events /\ Tail(events)[i] = events[i + 1]
OBVIOUS

\* Handling an event preserves it; the last event of a job gives the buttons back.
LEMMA TakeEventHolds ==
  ASSUME IInv, TakeEvent
  PROVE  IInv'
<1> DEFINE kind == Head(events).kind
<1>1. /\ events \in Seq(Event) /\ events # <<>> /\ events' = Tail(events)
      /\ taken < MaxEvents /\ taken' = taken + 1
      /\ UNCHANGED <<cancel, started, title, worker, sent, asked, late>>
  BY DEF TakeEvent, EventDue, job_vars, IInv, TypeOK
<1>2. /\ Tail(events) \in Seq(Event) /\ Head(events) \in Event
      /\ Head(events) = events[1] /\ 1 \in DOMAIN events
      /\ Len(Tail(events)) = Len(events) - 1
      /\ \A i \in DOMAIN Tail(events) :
           i + 1 \in DOMAIN events /\ Tail(events)[i] = events[i + 1]
  BY <1>1, TailOfEvents
<1>3. busy /\ started \in Workers
  BY <1>2 DEF IInv, ButtonsGuardWorker, Guarded
<1>4. (CancelledOnlyIfAsked /\ Progressed /\ Late)'
  BY <1>1, <1>2 DEF IInv, CancelledOnlyIfAsked, Progressed, Late
<1>5. taken' \in 0..MaxEvents
  BY <1>1, GuiAssumption DEF IInv, TypeOK
<1>6. CASE kind \notin Outcomes
  <2>1. /\ UNCHANGED <<window, busy, cancel_button, status>>
        /\ log' \in {"line"} \cup Outcomes /\ latest_progress' \in BOOLEAN
    BY <1>6 DEF TakeEvent, IInv, TypeOK
  <2>2. TypeOK'
    BY <1>1, <1>2, <1>5, <2>1 DEF IInv, TypeOK
  <2>3. (ButtonsGuardWorker /\ Guarded)'
    BY <1>1, <1>2, <1>3, <1>6, <2>1
       DEF IInv, ButtonsGuardWorker, Guarded, IsOutcome
  <2> QED BY <1>4, <2>2, <2>3 DEF IInv
<1>7. CASE kind \in Outcomes
  <2>1. Finish(kind)
    BY <1>7 DEF TakeEvent, Outcomes
  <2>2. busy' = FALSE /\ cancel_button' = FALSE
    BY <2>1 DEF Finish, SetBusy
  <2>3. Len(events) = 1 /\ worker[started] \notin Working /\ events' = <<>>
    BY <1>1, <1>2, <1>7 DEF IInv, ButtonsGuardWorker, IsOutcome
  <2>4. TypeOK'
    <3>1. latest_progress' \in BOOLEAN /\ cancel' \in BOOLEAN
      BY <1>1, <2>1, Zenon DEF IInv, TypeOK, Finish
    <3> QED BY <1>1, <1>2, <1>5, <1>7, <2>1, <2>2, <3>1 DEF IInv, TypeOK, Finish
  <2>5. (ButtonsGuardWorker /\ Guarded)'
    BY <1>1, <2>1, <2>2, <2>3 DEF IInv, ButtonsGuardWorker, Guarded, Finish
  <2> QED BY <1>4, <2>4, <2>5 DEF IInv
<1> QED BY <1>6, <1>7

\* A worker that goes on within its job, putting at most an event that does not end
\* it.
LEMMA WorkerHolds ==
  ASSUME IInv, NEW w \in Workers, worker[w] \in Working,
         NEW s \in Working, GoTo(w, s),
         \/ UNCHANGED events
         \/ \E kind \in {"log", "progress"} : Put(w, kind),
         UNCHANGED <<window_vars, cancel, job_vars, asked>>,
         sent' \in 0..Blocks
  PROVE  /\ TypeOK' /\ ButtonsGuardWorker' /\ Guarded'
         /\ w = started
         /\ \A i \in DOMAIN events' : events'[i].kind \notin Outcomes
<1>1. w = started /\ busy
  BY DEF IInv, ButtonsGuardWorker
<1>2. \A i \in DOMAIN events : events[i].kind \notin Outcomes
  BY <1>1 DEF IInv, ButtonsGuardWorker, IsOutcome
<1>3. /\ UNCHANGED <<window, busy, cancel_button, status, log, taken, latest_progress, cancel,
                     started, title, asked>>
      /\ worker' = [worker EXCEPT ![w] = s]
  BY DEF window_vars, job_vars, GoTo
<1>4. /\ events' \in Seq(Event)
      /\ \A i \in DOMAIN events' :
           events'[i].job = started /\ events'[i].kind \notin Outcomes
  <2>1. CASE UNCHANGED events
    BY <1>1, <1>2, <2>1 DEF IInv, TypeOK, ButtonsGuardWorker
  <2>2. CASE \E kind \in {"log", "progress"} : Put(w, kind)
    <3>1. PICK kind \in {"log", "progress"} : events' = Append(events, [job |-> w, kind |-> kind])
      BY <2>2 DEF Put
    <3>2. [job |-> w, kind |-> kind] \in Event /\ kind \notin Outcomes
      BY DEF Event, Outcomes
    <3> QED BY <1>1, <1>2, <3>1, <3>2 DEF IInv, TypeOK, ButtonsGuardWorker
  <2> QED BY <2>1, <2>2
<1>5. late' \in Nat
  BY DEF GoTo, IInv, TypeOK
<1>6. TypeOK'
  <2>1. /\ busy' \in BOOLEAN /\ cancel_button' \in BOOLEAN
        /\ latest_progress' \in BOOLEAN /\ cancel' \in BOOLEAN
    BY <1>3, Zenon DEF IInv, TypeOK
  <2>2. worker' \in [Workers -> Working \cup {"closing", "none"}]
    BY <1>3 DEF IInv, TypeOK
  <2> QED BY <1>3, <1>4, <1>5, <2>1, <2>2 DEF IInv, TypeOK
<1>7. ButtonsGuardWorker'
  <2>1. worker'[started] = s
    BY <1>1, <1>3 DEF IInv, TypeOK
  <2>2. \A v \in Workers \ {w} : worker'[v] = worker[v]
    BY <1>3 DEF IInv, TypeOK
  <2> QED BY <1>1, <1>3, <1>4, <2>1, <2>2 DEF IInv, ButtonsGuardWorker, IsOutcome
<1>8. Guarded'
  BY <1>1, <1>3 DEF IInv, Guarded
<1> QED BY <1>1, <1>4, <1>6, <1>7, <1>8

\* With it, what is left to show of such a step.
LEMMA AdvanceHolds ==
  ASSUME IInv, NEW w \in Workers, worker[w] \in Working,
         NEW s \in Working, GoTo(w, s),
         \/ UNCHANGED events
         \/ \E kind \in {"log", "progress"} : Put(w, kind),
         UNCHANGED <<window_vars, cancel, job_vars, asked>>,
         sent' \in 0..Blocks,
         s = "DATA" => sent' < Blocks,
         s = "BOOT" => title = "boot",
         title = "flash" /\ s \in {"END", "confirmed", "done"} => sent' = Blocks,
         s \in {"cancelling", "ABORT", "aborted"} => w \in asked,
         s \in {"DATA", "END"} => worker[w] = "progress",
         s \in Early => worker[w] \in Early \/ ~cancel,
         sent' # sent => worker[w] = "DATA"
  PROVE  IInv'
<1>1. /\ TypeOK' /\ ButtonsGuardWorker' /\ Guarded'
      /\ w = started
      /\ \A i \in DOMAIN events' : events'[i].kind \notin Outcomes
  BY WorkerHolds
<1>2. /\ UNCHANGED <<cancel, started, title, asked>>
      /\ worker' = [worker EXCEPT ![w] = s]
  BY DEF window_vars, job_vars, GoTo
<1>3. /\ worker'[w] = s
      /\ \A v \in Workers \ {w} : worker'[v] = worker[v] /\ worker[v] \notin Working
  BY <1>1, <1>2 DEF IInv, TypeOK, ButtonsGuardWorker
<1>4. CancelledOnlyIfAsked'
  BY <1>1, <1>2, <1>3 DEF IInv, CancelledOnlyIfAsked, Outcomes, Working, Ends
<1>5. Progressed'
  <2>1. \A v \in Workers \ {w} : worker'[v] \notin {"DATA", "BOOT", "END", "confirmed", "done"}
    BY <1>3 DEF Working, Requests, Lines, Ends
  <2> QED BY <1>1, <1>2, <1>3, <2>1 DEF Progressed, Outcomes
<1>6. Late'
  <2>1. \A v \in Workers \ {w} : worker'[v] \notin Early
    BY <1>3 DEF Working, Requests, Lines, Early
  <2>2. CASE cancel /\ s \in {"DATA", "END"}
    <3>1. late = 0
      BY <2>2 DEF IInv, Late, Early
    <3> QED BY <1>2, <1>3, <2>1, <2>2, <3>1 DEF GoTo, Late, Early
  <2>3. CASE ~(cancel /\ s \in {"DATA", "END"})
    <3>1. late' = late
      BY <2>3 DEF GoTo
    <3>2. late = 1 => cancel /\ s \notin Early
      BY DEF IInv, Late
    <3> QED BY <1>2, <1>3, <2>1, <3>1, <3>2 DEF IInv, Late
  <2> QED BY <2>2, <2>3
<1> QED BY <1>1, <1>4, <1>5, <1>6 DEF IInv

\* A line for the log preserves it.
LEMMA SayHolds ==
  ASSUME IInv, NEW w \in Workers, Say(w)
  PROVE  IInv'
<1> USE DEF Say
<1>1. worker[w] \in Working /\ sent' \in 0..Blocks /\ sent' = sent
  BY DEF Working, IInv, TypeOK
<1>2. CASE Put(w, "log") /\ GoTo(w, StepAfter(worker[w]))
  <2>1. StepAfter(worker[w]) \in Working
    BY <1>1, StepAfterType
  <2>2. /\ StepAfter(worker[w]) = "BOOT" => title = "boot"
        /\ StepAfter(worker[w]) = "done" /\ title = "flash" => worker[w] = "confirmed"
        /\ StepAfter(worker[w]) \notin
             {"DATA", "END", "confirmed", "cancelling", "ABORT", "aborted"}
        /\ StepAfter(worker[w]) \in Early => worker[w] \in Early
    BY DEF StepAfter, StepAround, Lines, Early
  <2>3. title = "flash" /\ StepAfter(worker[w]) = "done" => sent = Blocks
    BY <2>2 DEF IInv, Progressed
  <2> QED BY <1>1, <1>2, <2>1, <2>2, <2>3, AdvanceHolds
<1>3. CASE GoTo(w, "failed") /\ UNCHANGED events
  <2>1. "failed" \in Working /\ "failed" \notin Early
    BY DEF Working, Ends, Early
  <2> QED BY <1>1, <1>3, <2>1, AdvanceHolds
<1> QED BY <1>2, <1>3

\* A request that succeeds preserves it.
LEMMA SucceedHolds ==
  ASSUME IInv, NEW w \in Workers, Succeed(w)
  PROVE  IInv'
<1> USE DEF Succeed
<1> DEFINE s == StepAfter(worker[w])
<1>1. worker[w] \in Working /\ s \in Working
  BY StepAfterType DEF Working
<1>2. sent' \in 0..Blocks /\ (sent' # sent => worker[w] = "DATA")
  BY GuiAssumption DEF IInv, TypeOK, Progressed
<1>3. /\ s \notin {"DATA", "END", "BOOT", "done", "cancelling", "ABORT", "aborted"}
      /\ s = "confirmed" => worker[w] \in {"END", "BOOT"}
      /\ s \in Early => worker[w] \in Early
  BY DEF StepAfter, StepAround, Requests, Early
<1>4. title = "flash" /\ s = "confirmed" => sent' = Blocks
  BY <1>3 DEF IInv, Progressed
<1>5. GoTo(w, s) /\ UNCHANGED events /\ UNCHANGED <<window_vars, cancel, job_vars, asked>>
  OBVIOUS
<1> HIDE DEF s, Succeed
<1> QED BY <1>1, <1>2, <1>3, <1>4, <1>5, AdvanceHolds

\* A request that fails preserves it.
LEMMA FailHolds ==
  ASSUME IInv, NEW w \in Workers, Fail(w)
  PROVE  IInv'
<1>1. worker[w] \in Working /\ "failed" \in Working /\ "failed" \notin Early
  BY DEF Fail, Working, Ends, Early
<1>2. sent' \in 0..Blocks
  BY DEF Fail, IInv, TypeOK
<1> QED BY <1>1, <1>2, AdvanceHolds DEF Fail

\* A look at the cancel flag preserves it.
LEMMA CheckHolds ==
  ASSUME IInv, NEW w \in Workers, Check(w)
  PROVE  IInv'
<1> USE DEF Check
<1>1. worker[w] \in Working /\ sent' \in 0..Blocks
  BY DEF Working, IInv, TypeOK
<1>2. CASE cancel
  <2>1. "cancelling" \in Working /\ "cancelling" \notin Early
    BY DEF Working, Lines, Early
  <2>2. w \in asked
    BY <1>1, <1>2 DEF IInv, ButtonsGuardWorker, CancelledOnlyIfAsked
  <2> QED BY <1>1, <1>2, <2>1, <2>2, AdvanceHolds
<1>3. CASE ~cancel
  <2>1. StepAfter("check") = "progress" /\ "progress" \in Working
    BY DEF StepAfter, StepAround, Working
  <2> QED BY <1>1, <1>3, <2>1, AdvanceHolds
<1> QED BY <1>2, <1>3

\* A progress event preserves it.
LEMMA ReportHolds ==
  ASSUME IInv, NEW w \in Workers, Report(w)
  PROVE  IInv'
<1> USE DEF Report
<1> DEFINE s == StepAfter("progress")
<1>1. worker[w] \in Working /\ sent' = sent /\ sent \in 0..Blocks
  BY DEF Working, IInv, TypeOK
<1>2. /\ s \in {"DATA", "END"} /\ s \in Working /\ s \notin Early
      /\ s = "DATA" => sent < Blocks
      /\ s = "END" => sent = Blocks
  BY <1>1, GuiAssumption DEF StepAfter, StepAround, Working, Requests, Early
<1>3. GoTo(w, s) /\ Put(w, "progress") /\ UNCHANGED <<window_vars, cancel, job_vars, asked>>
      /\ worker[w] = "progress"
  OBVIOUS
<1> HIDE DEF s, Report
<1> QED BY <1>1, <1>2, <1>3, AdvanceHolds

\* An exception on its way to the worker's handler preserves it.
LEMMA UnwindHolds ==
  ASSUME IInv, NEW w \in Workers, Unwind(w)
  PROVE  IInv'
<1> USE DEF Unwind
<1>1. worker[w] \in {"cancelling", "ABORT"} /\ worker[w] \in Working /\ w \in asked
      /\ sent' = sent /\ sent \in 0..Blocks
  BY DEF Working, Lines, IInv, TypeOK, CancelledOnlyIfAsked
<1>2. /\ {"ABORT", "aborted"} \subseteq Working
      /\ "ABORT" \notin Early /\ "aborted" \notin Early
  BY DEF Working, Ends, Early
<1>3. CASE Put(w, "log") /\ GoTo(w, "ABORT")
  BY <1>1, <1>2, <1>3, AdvanceHolds
<1>4. CASE GoTo(w, "aborted") /\ UNCHANGED events
  BY <1>1, <1>2, <1>4, AdvanceHolds
<1> QED BY <1>3, <1>4

\* A worker's last event preserves it.
LEMMA EndHolds ==
  ASSUME IInv, NEW w \in Workers, End(w)
  PROVE  IInv'
<1> DEFINE outcome == OutcomeOf(worker[w])
<1> DEFINE event == [job |-> w, kind |-> outcome]
<1>1. /\ worker[w] \in Ends /\ worker[w] \in Working
      /\ "closing" \notin Working
      /\ outcome \in Outcomes /\ event \in Event
      /\ outcome = "done" => worker[w] = "done"
      /\ outcome = "cancelled" => worker[w] = "aborted"
  BY DEF End, OutcomeOf, Working, Requests, Lines, Ends, Outcomes, Event
<1>2. /\ UNCHANGED <<window, busy, cancel_button, status, log, taken, latest_progress, cancel,
                     started, title, asked, sent, late>>
      /\ worker' = [worker EXCEPT ![w] = "closing"]
      /\ events' = Append(events, event)
  BY DEF End, window_vars, job_vars, GoTo, Put
<1>3. w = started /\ busy
  BY <1>1 DEF IInv, ButtonsGuardWorker
<1>4. \A i \in DOMAIN events : events[i].kind \notin Outcomes
  BY <1>1, <1>3 DEF IInv, ButtonsGuardWorker, IsOutcome
<1>5. /\ worker'[w] = "closing"
      /\ \A v \in Workers \ {w} : worker'[v] = worker[v]
  BY <1>2 DEF IInv, TypeOK
<1>6. /\ events' \in Seq(Event) /\ Len(events') = Len(events) + 1
      /\ events'[Len(events')] = event
      /\ \A i \in DOMAIN events' : i = Len(events') \/ (i \in DOMAIN events /\ events'[i] = events[i])
  <2>1. events \in Seq(Event) /\ event \in Event /\ events' = Append(events, event)
    BY <1>1, <1>2 DEF IInv, TypeOK
  <2>2. DOMAIN events = 1..Len(events) /\ Len(events) \in Nat
    BY <2>1
  <2> HIDE DEF event, outcome
  <2>3. events' \in Seq(Event) /\ Len(events') = Len(events) + 1
    BY <2>1
  <2>4. events'[Len(events) + 1] = event /\ DOMAIN events' = 1..(Len(events) + 1)
    BY <2>1
  <2>5. \A i \in 1..Len(events) : events'[i] = events[i]
    BY <2>1
  <2>6. events'[Len(events')] = event
    BY <2>3, <2>4
  <2>7. \A i \in DOMAIN events' :
          i = Len(events') \/ (i \in DOMAIN events /\ events'[i] = events[i])
    <3> TAKE i \in DOMAIN events'
    <3>1. i = Len(events) + 1 \/ i \in 1..Len(events)
      BY <2>2, <2>4
    <3> QED BY <2>2, <2>3, <2>5, <3>1
  <2> QED BY <2>3, <2>6, <2>7
<1>7. TypeOK'
  <2>1. /\ busy' \in BOOLEAN /\ cancel_button' \in BOOLEAN
        /\ latest_progress' \in BOOLEAN /\ cancel' \in BOOLEAN
    BY <1>2, Zenon DEF IInv, TypeOK
  <2>2. worker' \in [Workers -> Working \cup {"closing", "none"}]
    BY <1>2 DEF IInv, TypeOK
  <2> QED BY <1>2, <1>6, <2>1, <2>2 DEF IInv, TypeOK
<1>8. ButtonsGuardWorker' /\ Guarded'
  BY <1>1, <1>2, <1>3, <1>4, <1>5, <1>6
     DEF IInv, ButtonsGuardWorker, Guarded, IsOutcome
<1>9. CancelledOnlyIfAsked'
  <2>1. outcome = "cancelled" => w \in asked
    BY <1>1 DEF IInv, CancelledOnlyIfAsked
  <2> QED BY <1>2, <1>5, <1>6, <2>1 DEF IInv, CancelledOnlyIfAsked
<1>10. Progressed'
  <2>1. title = "flash" /\ outcome = "done" => sent = Blocks
    BY <1>1 DEF IInv, Progressed
  <2> QED BY <1>2, <1>5, <1>6, <2>1 DEF IInv, Progressed
<1>11. Late'
  BY <1>2, <1>3, <1>5 DEF IInv, Late, Early
<1> QED BY <1>7, <1>8, <1>9, <1>10, <1>11 DEF IInv

\* Closing the port preserves it.
LEMMA CloseHolds ==
  ASSUME IInv, NEW w \in Workers, Close(w)
  PROVE  IInv'
<1>1. /\ UNCHANGED <<window, busy, cancel_button, status, log, taken, latest_progress, cancel,
                     events, started, title, asked, sent, late>>
      /\ worker' = [worker EXCEPT ![w] = "none"]
      /\ worker[w] = "closing"
  BY DEF Close, window_vars, job_vars, GoTo
<1>2. /\ worker'[w] = "none"
      /\ \A v \in Workers \ {w} : worker'[v] = worker[v]
      /\ {"none", "closing"} \cap Working = {}
  BY <1>1 DEF IInv, TypeOK, Working, Requests, Lines, Ends
<1>3. TypeOK'
  <2>1. worker' \in [Workers -> Working \cup {"closing", "none"}]
    BY <1>1 DEF IInv, TypeOK
  <2> QED BY <1>1, <2>1 DEF IInv, TypeOK
<1>4. ButtonsGuardWorker' /\ Guarded' /\ CancelledOnlyIfAsked'
  BY <1>1, <1>2 DEF IInv, ButtonsGuardWorker, Guarded, CancelledOnlyIfAsked, IsOutcome
<1>5. Progressed' /\ Late'
  BY <1>1, <1>2 DEF IInv, Progressed, Late, Early
<1> QED BY <1>3, <1>4, <1>5 DEF IInv

\* A stuttering step preserves it.
LEMMA StutterHolds == IInv /\ UNCHANGED vars => IInv'
<1> SUFFICES ASSUME IInv, UNCHANGED vars PROVE IInv'
  OBVIOUS
<1>1. UNCHANGED <<window, busy, cancel_button, status, log, taken, latest_progress, cancel,
                  events, started, title, worker, sent, asked, late>>
  BY DEF vars, window_vars, job_vars
<1>2. TypeOK' /\ ButtonsGuardWorker' /\ Guarded' /\ CancelledOnlyIfAsked'
  BY <1>1 DEF IInv, TypeOK, ButtonsGuardWorker, Guarded, CancelledOnlyIfAsked, IsOutcome
<1>3. Progressed' /\ Late'
  BY <1>1 DEF IInv, Progressed, Late
<1> QED BY <1>2, <1>3 DEF IInv

\* Every step preserves it.
LEMMA NextHolds == IInv /\ [Next]_vars => IInv'
<1> SUFFICES ASSUME IInv, [Next]_vars PROVE IInv'
  OBVIOUS
<1>1. ASSUME NEW job \in Titles, Start(job) PROVE IInv'
  BY <1>1, StartHolds
<1>2. CASE Cancel
  BY <1>2, CancelHolds
<1>3. CASE RefreshPorts \/ Poll \/ Dismiss
  BY <1>3, WindowHolds, TakeEventHolds DEF Poll
<1>4. ASSUME NEW w \in Workers, Worker(w) PROVE IInv'
  BY <1>4, SayHolds, SucceedHolds, FailHolds, CheckHolds, ReportHolds, UnwindHolds, EndHolds,
     CloseHolds DEF Worker
<1>5. CASE UNCHANGED vars
  BY <1>5, StutterHolds
<1> QED BY <1>1, <1>2, <1>3, <1>4, <1>5 DEF Next

\* ---------------------------------------------------------------- theorems ----
LEMMA Invariance == Spec => []IInv
<1> QED BY InitHolds, NextHolds, PTL DEF Spec

\* The window's state is well formed; a poll takes no more events than it may, and
\* no block is sent beyond the image.
THEOREM WindowTypeCorrect == Spec => []TypeOK
<1>1. IInv => TypeOK  BY DEF IInv
<1> QED BY <1>1, Invariance, PTL

\* However the two threads interleave, the buttons are disabled exactly while a
\* worker is at work or the event that ends its job is still to be taken.
THEOREM ButtonsAreRight == Spec => []ButtonsGuardWorker
<1>1. IInv => ButtonsGuardWorker  BY DEF IInv
<1> QED BY <1>1, Invariance, PTL

\* No job is cancelled by the flag of another.
THEOREM CancelIsOwn == Spec => []CancelledOnlyIfAsked
<1>1. IInv => CancelledOnlyIfAsked  BY DEF IInv
<1> QED BY <1>1, Invariance, PTL

\* After a cancel at most one more block or the END goes out, for an image of any
\* length and a cancel at any moment.
THEOREM CancelIsPrompt == Spec => []CancelTakesEffect
<1>1. IInv => CancelTakesEffect  BY DEF IInv, Late, CancelTakesEffect
<1> QED BY <1>1, Invariance, PTL

\* Of all steps only taking the event that ends the job gives the buttons back, and
\* what it logs is true.
LEMMA LoggedWhenBack ==
  ASSUME IInv, [Next]_vars, busy, ~busy'
  PROVE  /\ log' \in Outcomes /\ events' = <<>>
         /\ log' = "done" /\ title = "flash" => sent = Blocks
         /\ log' = "cancelled" => started \in asked
<1>1. TakeEvent
  <2>1. \A job \in Titles : ~Start(job)
    BY DEF Start
  <2>2. ~Cancel /\ ~RefreshPorts /\ ~BeginPoll /\ ~Dismiss /\ ~EndPoll /\ ~UNCHANGED vars
    BY DEF Cancel, RefreshPorts, BeginPoll, Dismiss, EndPoll, vars, window_vars
  <2>3. \A w \in Workers : ~Worker(w)
    BY DEF Worker, Say, Succeed, Fail, Check, Report, Unwind, End, Close, window_vars
  <2> QED BY <2>1, <2>2, <2>3 DEF Next, Poll
<1> DEFINE kind == Head(events).kind
<1>2. kind \in Outcomes /\ log' = kind
  BY <1>1 DEF TakeEvent, Finish
<1>3. /\ events \in Seq(Event) /\ events # <<>> /\ events' = Tail(events)
      /\ Head(events) = events[1] /\ 1 \in DOMAIN events
  BY <1>1, TailOfEvents DEF TakeEvent, EventDue, IInv, TypeOK
<1>4. events[1].job = started /\ Len(events) = 1
  BY <1>2, <1>3 DEF IInv, ButtonsGuardWorker, IsOutcome
<1>5. events' = <<>>
  BY <1>3, <1>4
<1>6. /\ kind = "done" /\ title = "flash" => sent = Blocks
      /\ kind = "cancelled" => started \in asked
  BY <1>3, <1>4 DEF IInv, Progressed, CancelledOnlyIfAsked
<1> QED BY <1>2, <1>5, <1>6

\* When the buttons come back the true outcome has just been logged, and nothing
\* the worker has to say is left to be logged after it.
THEOREM LogIsTrue == Spec => OutcomeIsLogged
<1>1. IInv /\ [Next]_vars =>
        [busy /\ ~busy' =>
           /\ log' \in Outcomes /\ events' = <<>>
           /\ log' = "done" /\ title = "flash" => sent = Blocks
           /\ log' = "cancelled" => started \in asked]_vars
  BY LoggedWhenBack
<1> QED BY <1>1, Invariance, PTL DEF Spec, OutcomeIsLogged
=============================================================================
