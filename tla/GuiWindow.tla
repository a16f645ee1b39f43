------------------------------ MODULE GuiWindow ------------------------------
(***************************************************************************)
(* The graphical front end (gui.py): a window whose thread starts jobs,    *)
(* cancels them and polls for events, and one worker thread for each job,  *)
(* which talks to the device and never touches a widget.  They share the   *)
(* queue of events and the cancel flag.                                    *)
(*                                                                         *)
(* A request to the device succeeds or raises one of the errors that       *)
(* _run_job catches.  A log line is only told apart by whether it gives    *)
(* the outcome of a job.                                                   *)
(***************************************************************************)
EXTENDS Integers, Sequences

CONSTANTS
  Blocks,     \* DATA requests of the image
  MaxEvents,  \* MAX_EVENTS_PER_POLL
  MaxJobs     \* bound: jobs started

ASSUME GuiAssumption ==
  Blocks \in Nat /\ MaxEvents \in Nat \ {0} /\ MaxJobs \in Nat

Workers  == 1..MaxJobs
Titles   == {"info", "boot", "flash"}
Outcomes == {"done", "failed", "cancelled"}

\* Where a worker stands until it has put the event that ends its job.
Requests == {"open", "HELLO", "INFO", "BEGIN", "DATA", "END", "BOOT"}
Lines    == {"opening", "connected", "described", "named", "confirmed", "cancelling"}
Ends     == {"done", "failed", "aborted"}
Working  == Requests \cup Lines \cup Ends \cup {"check", "progress", "ABORT"}

VARIABLES
  window,         \* the window's thread: "loop", "poll", or "dialog" within a poll
  busy,           \* the buttons that start a job are disabled
  cancel_button,  \* the cancel button is enabled
  status, log,    \* the status line, and the last line of the log
  taken, latest_progress,      \* of the poll: events taken, a progress among them
  cancel, events,              \* the flag and the queue
  started, title,              \* jobs started; what the latest one does
  worker, sent,                \* each worker's place; blocks acknowledged
  asked, late     \* history: the jobs that were cancelled; DATA and END requests
                  \* of this job begun after that

window_vars == <<window, busy, cancel_button, status, log, taken, latest_progress>>
job_vars    == <<started, title>>
vars == <<window_vars, cancel, events, job_vars, worker, sent, asked, late>>

Event == [job: Workers, kind: {"log", "progress"} \cup Outcomes]

\* ------------------------------------------------------------- the window ----
Init ==
  /\ window = "loop" /\ busy = FALSE /\ cancel_button = FALSE
  /\ status = "ready" /\ log = "line" /\ taken = 0 /\ latest_progress = FALSE
  /\ cancel = FALSE /\ events = <<>>
  /\ started = 0 /\ title = "info"
  /\ worker = [w \in Workers |-> "none"] /\ sent = 0
  /\ asked = {} /\ late = 0

\* _set_busy: the buttons that start a job, and the one that cancels it.
SetBusy(b, cancellable) == busy' = b /\ cancel_button' = (b /\ cancellable)

\* Variant: the flag of the job before is kept.
StartUncleared(job) ==
  /\ window = "loop" /\ ~busy /\ started < MaxJobs
  /\ SetBusy(TRUE, job = "flash") /\ status' = "running"
  /\ started' = started + 1 /\ title' = job
  /\ worker' = [worker EXCEPT ![started + 1] = "opening"] /\ sent' = 0
  /\ late' = 0
  /\ UNCHANGED <<window, log, taken, latest_progress, cancel, events, asked>>

Start(job) ==
  /\ window = "loop" /\ ~busy /\ started < MaxJobs
  /\ cancel' = FALSE
  /\ SetBusy(TRUE, job = "flash") /\ status' = "running"
  /\ started' = started + 1 /\ title' = job
  /\ worker' = [worker EXCEPT ![started + 1] = "opening"] /\ sent' = 0
  /\ late' = 0
  /\ UNCHANGED <<window, log, taken, latest_progress, events, asked>>

Cancel ==
  /\ window = "loop" /\ cancel_button
  /\ cancel' = TRUE /\ asked' = asked \cup {started}
  /\ status' = "cancelling" /\ cancel_button' = FALSE
  /\ UNCHANGED <<window, busy, log, taken, latest_progress, events, job_vars,
                 worker, sent, late>>

\* refresh_ports: a line of the log says what was found.  Ports that cannot be
\* listed only open a dialog: nothing kept here changes.
RefreshPorts ==
  /\ window = "loop" /\ ~busy
  /\ log' = "line"
  /\ UNCHANGED <<window, busy, cancel_button, status, taken, latest_progress, cancel,
                 events, job_vars, worker, sent, asked, late>>

BeginPoll ==
  /\ window = "loop"
  /\ window' = "poll" /\ taken' = 0 /\ latest_progress' = FALSE
  /\ UNCHANGED <<busy, cancel_button, status, log, cancel, events, job_vars,
                 worker, sent, asked, late>>

\* _finish: after a job that did not succeed the poll stands still in a dialog.
Finish(outcome) ==
  /\ SetBusy(FALSE, FALSE)
  /\ status' = outcome /\ log' = outcome
  /\ window' = IF outcome = "done" THEN "poll" ELSE "dialog"
  /\ UNCHANGED latest_progress

\* Variant: a poll goes on for as long as there are events.
EventLeft == events # <<>>

EventDue == events # <<>> /\ taken < MaxEvents

TakeEvent ==
  /\ window = "poll" /\ EventDue
  /\ events' = Tail(events) /\ taken' = taken + 1
  /\ LET kind == Head(events).kind
     IN  \/ /\ kind = "log"
            /\ log' = "line"
            /\ UNCHANGED <<window, busy, cancel_button, status, latest_progress>>
         \/ /\ kind = "progress"
            /\ latest_progress' = TRUE
            /\ UNCHANGED <<window, busy, cancel_button, status, log>>
         \/ kind \in Outcomes /\ Finish(kind)
  /\ UNCHANGED <<cancel, job_vars, worker, sent, asked, late>>

Dismiss ==
  /\ window = "dialog"
  /\ window' = "poll"
  /\ UNCHANGED <<busy, cancel_button, status, log, taken, latest_progress, cancel,
                 events, job_vars, worker, sent, asked, late>>

\* The last progress of the poll is shown after the events have been handled.
EndPoll ==
  /\ window = "poll" /\ ~EventDue
  /\ window' = "loop"
  /\ status' = IF latest_progress THEN "progress" ELSE status
  /\ UNCHANGED <<busy, cancel_button, log, taken, latest_progress, cancel, events,
                 job_vars, worker, sent, asked, late>>

\* ------------------------------------------------------------- the worker ----
Put(w, kind) == events' = Append(events, [job |-> w, kind |-> kind])

\* The step after one that went well: _run_job with the job of _on_info, _on_boot
\* or _on_flash, and the requests of flash_stream around the blocks.
StepAround(step) ==
  CASE step = "opening"   -> "open"
    [] step = "open"      -> "HELLO"
    [] step = "HELLO"     -> "connected"
    [] step = "connected" -> IF title = "boot" THEN "BOOT" ELSE "INFO"
    [] step = "INFO"      -> "described"
    [] step = "described" -> IF title = "flash" THEN "named" ELSE "done"
    [] step = "named"     -> "BEGIN"
    [] step = "BEGIN"     -> "check"
    [] step = "check"     -> "progress"
    [] step \in {"END", "BOOT"} -> "confirmed"
    [] OTHER              -> "done"

\* Variant: only the last block is reported.
StepAfterSilently(step) ==
  CASE step = "DATA"     -> IF sent + 1 < Blocks THEN "DATA" ELSE "check"
    [] step = "progress" -> IF sent < Blocks THEN "DATA" ELSE "END"
    [] OTHER             -> StepAround(step)

\* Variant: the last block is not sent.
StepAfterShort(step) ==
  CASE step = "DATA"     -> "check"
    [] step = "progress" -> IF sent + 1 < Blocks THEN "DATA" ELSE "END"
    [] OTHER             -> StepAround(step)

\* flash_stream reports before the first block and after each one.
StepAfter(step) ==
  CASE step = "DATA"     -> "check"
    [] step = "progress" -> IF sent < Blocks THEN "DATA" ELSE "END"
    [] OTHER             -> StepAround(step)

\* Worker w goes to step s; DATA and END after a cancel are counted.
GoTo(w, s) ==
  /\ worker' = [worker EXCEPT ![w] = s]
  /\ late' = IF cancel /\ s \in {"DATA", "END"} THEN late + 1 ELSE late

\* The file may be gone when its size is looked up for the log.
Say(w) ==
  /\ worker[w] \in Lines \ {"cancelling"}
  /\ \/ Put(w, "log") /\ GoTo(w, StepAfter(worker[w]))
     \/ worker[w] = "named" /\ GoTo(w, "failed") /\ UNCHANGED events
  /\ UNCHANGED <<window_vars, cancel, job_vars, sent, asked>>

Succeed(w) ==
  /\ worker[w] \in Requests
  /\ GoTo(w, StepAfter(worker[w]))
  /\ sent' = IF worker[w] = "DATA" THEN sent + 1 ELSE sent
  /\ UNCHANGED <<window_vars, cancel, events, job_vars, asked>>

\* Variant: the error is none of those that _run_job catches.
FailUncaught(w) ==
  /\ worker[w] \in Requests
  /\ GoTo(w, "closing")
  /\ UNCHANGED <<window_vars, cancel, events, job_vars, sent, asked>>

Fail(w) ==
  /\ worker[w] \in Requests
  /\ GoTo(w, "failed")
  /\ UNCHANGED <<window_vars, cancel, events, job_vars, sent, asked>>

\* progress: look at the flag first, and put the event then.
Check(w) ==
  /\ worker[w] = "check"
  /\ GoTo(w, IF cancel THEN "cancelling" ELSE StepAfter("check"))
  /\ UNCHANGED <<window_vars, cancel, events, job_vars, sent, asked>>

Report(w) ==
  /\ worker[w] = "progress"
  /\ Put(w, "progress")
  /\ GoTo(w, StepAfter("progress"))
  /\ UNCHANGED <<window_vars, cancel, job_vars, sent, asked>>

\* Variant: the window is told before the device has answered the ABORT.
UnwindTold(w) ==
  /\ \/ worker[w] = "cancelling" /\ Put(w, "cancelled") /\ GoTo(w, "ABORT")
     \/ worker[w] = "ABORT" /\ GoTo(w, "closing") /\ UNCHANGED events
  /\ UNCHANGED <<window_vars, cancel, job_vars, sent, asked>>

\* The handler of _Cancelled; _abort catches what ABORT raises.
Unwind(w) ==
  /\ \/ worker[w] = "cancelling" /\ Put(w, "log") /\ GoTo(w, "ABORT")
     \/ worker[w] = "ABORT" /\ GoTo(w, "aborted") /\ UNCHANGED events
  /\ UNCHANGED <<window_vars, cancel, job_vars, sent, asked>>

OutcomeOf(step) == IF step = "aborted" THEN "cancelled" ELSE step

\* The event that ends the job comes before the port is closed, so the next
\* worker may open it while this one still holds it.
End(w) ==
  /\ worker[w] \in Ends
  /\ Put(w, OutcomeOf(worker[w]))
  /\ GoTo(w, "closing")
  /\ UNCHANGED <<window_vars, cancel, job_vars, sent, asked>>

Close(w) ==
  /\ worker[w] = "closing"
  /\ GoTo(w, "none")
  /\ UNCHANGED <<window_vars, cancel, events, job_vars, sent, asked>>

Worker(w) ==
  \/ Say(w) \/ Succeed(w) \/ Fail(w) \/ Check(w) \/ Report(w) \/ Unwind(w)
  \/ End(w) \/ Close(w)

\* ----------------------------------------------------------- specification ----
Poll == BeginPoll \/ TakeEvent \/ EndPoll

Next ==
  \/ \E job \in Titles : Start(job)
  \/ Cancel \/ RefreshPorts \/ Poll \/ Dismiss
  \/ \E w \in Workers : Worker(w)

Spec == Init /\ [][Next]_vars

\* A request is answered or given up after its attempts, the window's event loop
\* runs the poll again and again, and a dialog is closed by its user.
FairSpec ==
  /\ Spec
  /\ \A w \in Workers : WF_vars(Worker(w))
  /\ WF_vars(Poll) /\ WF_vars(Dismiss)

\* ------------------------------------------------------------- properties ----
TypeOK ==
  /\ window \in {"loop", "poll", "dialog"}
  /\ busy \in BOOLEAN /\ cancel_button \in BOOLEAN
  /\ latest_progress \in BOOLEAN /\ cancel \in BOOLEAN
  /\ status \in {"ready", "running", "cancelling", "progress"} \cup Outcomes
  /\ log \in {"line"} \cup Outcomes
  /\ taken \in 0..MaxEvents /\ events \in Seq(Event)
  /\ started \in 0..MaxJobs /\ title \in Titles
  /\ worker \in [Workers -> Working \cup {"closing", "none"}] /\ sent \in 0..Blocks
  /\ asked \subseteq 1..started /\ late \in Nat

IsOutcome(event) == event.kind \in Outcomes

\* The buttons guard the worker: while they are disabled, one worker talks to the
\* device or the one event that will enable them is under way, and never both;
\* while they are enabled, no worker does and no event is left to be taken for
\* one of the next job (_set_busy, _finish and the order of puts in _run_job).
ButtonsGuardWorker ==
  /\ \A w \in Workers : worker[w] \in Working => busy /\ w = started
  /\ \A i \in DOMAIN events :
       /\ busy /\ events[i].job = started
       /\ IsOutcome(events[i]) => i = Len(events) /\ worker[started] \notin Working
  /\ busy => \/ started \in Workers /\ worker[started] \in Working
             \/ events # <<>> /\ IsOutcome(events[Len(events)])

\* A job is only cancelled when its own user asked for it: the flag of an earlier
\* job, set perhaps after that one looked at it for the last time, is never
\* taken for this one's (_start clears it, the button is enabled while busy).
CancelledOnlyIfAsked ==
  /\ cancel => started \in asked
  /\ \A w \in Workers : worker[w] \in {"cancelling", "ABORT", "aborted"} => w \in asked
  /\ \A i \in DOMAIN events : events[i].kind = "cancelled" => events[i].job \in asked

\* A cancel takes effect: whenever the button is pressed, at most one more DATA or
\* END is begun, the one whose check came just before.  That one may be the END,
\* and then the image is switched to after all.
CancelTakesEffect == late <= 1

\* A job's outcome is logged when the buttons come back, it is true, and nothing
\* the worker says is logged after it: a flash that is done has sent every block, a
\* job is only said to be cancelled when that was asked of it.  (Until the next job
\* only a refresh of the ports writes to the log again.  The status line is no such
\* place: EndPoll may put the last progress over the outcome.)
OutcomeIsLogged ==
  [][busy /\ ~busy' =>
       /\ log' \in Outcomes /\ events' = <<>>
       /\ log' = "done" /\ title = "flash" => sent = Blocks
       /\ log' = "cancelled" => started \in asked]_vars

\* Every job ends and gives the buttons back.
EveryJobEnds == busy ~> ~busy
=============================================================================
