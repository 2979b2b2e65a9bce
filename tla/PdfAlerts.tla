------------------------------ MODULE PdfAlerts ------------------------------
(***************************************************************************)
(* The alert monitor of platform/common/pp_core_alerts.c: a JavaScript     *)
(* alert raised inside the PDF engine blocks the thread that raised it     *)
(* until another thread has fetched the alert and a third one has answered *)
(* it, or until the monitor is stopped or dropped.                         *)
(*                                                                         *)
(* The fields alerts_active, alert_request, alert_reply and current_alert  *)
(* are read and written only between a lock and the next unlock (or        *)
(* pthread_cond_wait) of alert_lock, so each such section is one action    *)
(* and alert_lock itself is not a variable.  fin_lock and fin_lock2 are    *)
(* held across a condition wait and are modelled by their owners.          *)
(*                                                                         *)
(* An alert event belongs to the thread that raised it and lives as long   *)
(* as that thread's pp_pdf_show_alert call, so the event is named by the   *)
(* thread.                                                                 *)
(***************************************************************************)
CONSTANTS
    Showers,    \* threads in which the PDF engine raises an alert
    Waiters,    \* threads that call pp_pdf_alerts_wait
    Users,      \* threads that call start, stop and reply
    Dropper,    \* the thread that calls pp_pdf_alerts_drop
    Buttons,    \* values of button_pressed
    Unpressed,  \* its initial value 0, also the answer of a cancelled dialog
    Null        \* the null pointer

ASSUME AlertsAssumption ==
    /\ Unpressed \in Buttons
    /\ Showers \cap Waiters = {} /\ Showers \cap Users = {} /\ Waiters \cap Users = {}
    /\ {Dropper, Null} \cap (Showers \cup Waiters \cup Users) = {}
    /\ Dropper # Null

AlertThreads == Showers \cup Waiters \cup Users \cup {Dropper}

VARIABLES
    allocated,      \* initialised: the structure exists and its mutexes do too
    event_cb,       \* the document's event callback is installed
    alerts_active, alert_request, alert_reply, current_alert,
    button_pressed, \* of each thread's alert event
    fin_lock, fin_lock2,    \* owner of each mutex
    at,             \* what each thread does next; "idle" outside the API
    taken,          \* what a waiter copied, then what its call returned
    answered        \* history: the alerts a reply was given to while displayed

alertVars == <<allocated, event_cb, alerts_active, alert_request, alert_reply,
          current_alert, button_pressed, fin_lock, fin_lock2, at, taken, answered>>

flags == <<alerts_active, alert_request, alert_reply, current_alert>>
locks == <<fin_lock, fin_lock2>>
life  == <<allocated, event_cb>>

\* Where a thread can be in the calls it may make.
ShowSteps == {"idle", "show_fin", "show_lock", "show_wait", "show_woken", "show_exit"}
WaitSteps == {"idle", "wait_fin", "wait_lock", "wait_wait", "wait_woken", "wait_exit", "wait_copy"}
UserSteps == {"idle", "start", "stop", "reply"}
DropSteps == {"idle", "drop_flags", "drop_fin", "drop_fin_held", "drop_fin2",
              "drop_fin2_held", "drop_destroy"}

GoOn(t, step) == at' = [at EXCEPT ![t] = step]

ShowersBlocked == {s \in Showers : at[s] = "show_wait"}
WaitersBlocked == {w \in Waiters : at[w] = "wait_wait"}

\* The threads one pthread_cond_signal may wake, of those blocked.
OneOf(blocked) == IF blocked = {} THEN {{}} ELSE {{t} : t \in blocked}

\* The signalling thread t moves on to step, the threads woken leave their wait.
WakeAndGoOn(t, step, woken) ==
    at' = [u \in AlertThreads |-> IF u = t THEN step
                             ELSE IF u \in woken \cap Showers THEN "show_woken"
                             ELSE IF u \in woken \cap Waiters THEN "wait_woken"
                             ELSE at[u]]

SignalRequest(t, step) == \E w \in OneOf(WaitersBlocked) : WakeAndGoOn(t, step, w)
SignalReply(t, step)   == \E s \in OneOf(ShowersBlocked) : WakeAndGoOn(t, step, s)
SignalBoth(t, step) ==
    \E s \in OneOf(ShowersBlocked), w \in OneOf(WaitersBlocked) : WakeAndGoOn(t, step, s \cup w)

\* pp_pdf_alerts_new_mupdf leaves the monitor inactive, callback installed.
AlertsInit ==
    /\ allocated = TRUE /\ event_cb = TRUE
    /\ alerts_active = FALSE /\ alert_request = FALSE /\ alert_reply = FALSE
    /\ current_alert = Null
    /\ button_pressed = [s \in Showers |-> Unpressed]
    /\ fin_lock = Null /\ fin_lock2 = Null
    /\ at = [t \in AlertThreads |-> "idle"]
    /\ taken = [w \in Waiters |-> Null]
    /\ answered = {}

----------------------------------------------------------------------------
(* pp_pdf_show_alert, called by the event callback *)

ShowCall(s) ==
    /\ at[s] = "idle" /\ allocated /\ event_cb
    /\ GoOn(s, "show_fin")
    /\ UNCHANGED <<life, flags, button_pressed, locks, taken, answered>>

ShowLockFin(s) ==
    /\ at[s] = "show_fin" /\ allocated /\ fin_lock2 = Null
    /\ fin_lock2' = s
    /\ GoOn(s, "show_lock")
    /\ UNCHANGED <<life, flags, button_pressed, fin_lock, taken, answered>>

\* Not active: the alert returns unpressed without being shown to anybody.
ShowInactive(s) ==
    /\ at[s] = "show_lock" /\ ~alerts_active
    /\ button_pressed' = [button_pressed EXCEPT ![s] = Unpressed]
    /\ GoOn(s, "show_exit")
    /\ UNCHANGED <<life, flags, locks, taken, answered>>

\* Active: publish the alert, signal a waiter, then wait for the reply (or go
\* on at once, were a reply already flagged).
ShowPublish(s) ==
    /\ at[s] = "show_lock" /\ alerts_active
    /\ button_pressed' = [button_pressed EXCEPT ![s] = Unpressed]
    /\ alert_request' = TRUE
    /\ answered' = answered \ {s}
    /\ IF alert_reply
       THEN /\ alert_reply' = FALSE /\ current_alert' = Null
            /\ SignalRequest(s, "show_exit")
       ELSE /\ current_alert' = s /\ UNCHANGED alert_reply
            /\ SignalRequest(s, "show_wait")
    /\ UNCHANGED <<life, alerts_active, locks, taken>>

\* The test of the loop after the condition wait returns.
ShowSleepAgain(s) ==
    /\ at[s] = "show_woken"
    /\ alerts_active /\ ~alert_reply
    /\ GoOn(s, "show_wait")
    /\ UNCHANGED <<life, flags, button_pressed, locks, taken, answered>>

\* Mutants of ShowFinish: the pointer to the finished event, or the reply flag,
\* is left behind.
ShowFinishKeepingAlert(s) ==
    /\ at[s] = "show_woken" /\ ~(alerts_active /\ ~alert_reply)
    /\ alert_reply' = FALSE
    /\ GoOn(s, "show_exit")
    /\ UNCHANGED <<life, alerts_active, alert_request, current_alert, button_pressed,
                   locks, taken, answered>>
ShowFinishKeepingReply(s) ==
    /\ at[s] = "show_woken" /\ ~(alerts_active /\ ~alert_reply)
    /\ current_alert' = Null
    /\ GoOn(s, "show_exit")
    /\ UNCHANGED <<life, alerts_active, alert_request, alert_reply, button_pressed,
                   locks, taken, answered>>

ShowFinish(s) ==
    /\ at[s] = "show_woken"
    /\ ~(alerts_active /\ ~alert_reply)
    /\ alert_reply' = FALSE /\ current_alert' = Null
    /\ GoOn(s, "show_exit")
    /\ UNCHANGED <<life, alerts_active, alert_request, button_pressed, locks, taken, answered>>

ShowReturn(s) ==
    /\ at[s] = "show_exit"
    /\ fin_lock2' = Null
    /\ GoOn(s, "idle")
    /\ UNCHANGED <<life, flags, button_pressed, fin_lock, taken, answered>>

----------------------------------------------------------------------------
(* pp_pdf_alerts_wait *)

WaitCall(w) ==
    /\ at[w] = "idle" /\ allocated
    /\ taken' = [taken EXCEPT ![w] = Null]
    /\ GoOn(w, "wait_fin")
    /\ UNCHANGED <<life, flags, button_pressed, locks, answered>>

WaitLockFin(w) ==
    /\ at[w] = "wait_fin" /\ allocated /\ fin_lock = Null
    /\ fin_lock' = w
    /\ GoOn(w, "wait_lock")
    /\ UNCHANGED <<life, flags, button_pressed, fin_lock2, taken, answered>>

WaitSleep(w) ==
    /\ at[w] \in {"wait_lock", "wait_woken"}
    /\ alerts_active /\ ~alert_request
    /\ GoOn(w, "wait_wait")
    /\ UNCHANGED <<life, flags, button_pressed, locks, taken, answered>>

\* Consume the request and copy the event structure (not its strings).
WaitTake(w) ==
    /\ at[w] \in {"wait_lock", "wait_woken"}
    /\ ~(alerts_active /\ ~alert_request)
    /\ alert_request' = FALSE
    /\ taken' = [taken EXCEPT ![w] = IF alerts_active THEN current_alert ELSE Null]
    /\ GoOn(w, "wait_exit")
    /\ UNCHANGED <<life, alerts_active, alert_reply, current_alert, button_pressed, locks, answered>>

WaitUnlockFin(w) ==
    /\ at[w] = "wait_exit"
    /\ fin_lock' = Null
    /\ GoOn(w, IF taken[w] = Null THEN "idle" ELSE "wait_copy")
    /\ UNCHANGED <<life, flags, button_pressed, fin_lock2, taken, answered>>

\* Duplicate the strings, with no lock held; out of memory returns no alert.
WaitCopy(w) ==
    /\ at[w] = "wait_copy"
    /\ taken' \in {taken, [taken EXCEPT ![w] = Null]}
    /\ GoOn(w, "idle")
    /\ UNCHANGED <<life, flags, button_pressed, locks, answered>>

----------------------------------------------------------------------------
(* pp_pdf_alerts_start, _stop and _reply: the check of initialised, then
   one section of alert_lock *)

UserCall(u, op) ==
    /\ at[u] = "idle" /\ allocated
    /\ GoOn(u, op)
    /\ UNCHANGED <<life, flags, button_pressed, locks, taken, answered>>

Start(u) ==
    /\ at[u] = "start" /\ allocated
    /\ alert_reply' = FALSE /\ alert_request' = FALSE
    /\ alerts_active' = TRUE /\ current_alert' = Null
    /\ GoOn(u, "idle")
    /\ UNCHANGED <<life, button_pressed, locks, taken, answered>>

\* Mutant of Stop: nobody is signalled.
StopSilently(u) ==
    /\ at[u] = "stop" /\ allocated
    /\ alert_reply' = FALSE /\ alert_request' = FALSE
    /\ alerts_active' = FALSE /\ current_alert' = Null
    /\ GoOn(u, "idle")
    /\ UNCHANGED <<life, button_pressed, locks, taken, answered>>

Stop(u) ==
    /\ at[u] = "stop" /\ allocated
    /\ alert_reply' = FALSE /\ alert_request' = FALSE
    /\ alerts_active' = FALSE /\ current_alert' = Null
    /\ SignalBoth(u, "idle")
    /\ UNCHANGED <<life, button_pressed, locks, taken, answered>>

\* Mutant of Reply: no test that an alert is on display.
ReplyUnchecked(u, b) ==
    /\ at[u] = "reply" /\ allocated
    /\ button_pressed' = [button_pressed EXCEPT ![current_alert] = b]
    /\ answered' = answered \cup {current_alert}
    /\ alert_reply' = TRUE
    /\ SignalReply(u, "idle")
    /\ UNCHANGED <<life, alerts_active, alert_request, current_alert, locks, taken>>

\* With nothing displayed the answer is silently dropped.
Reply(u, b) ==
    /\ at[u] = "reply" /\ allocated
    /\ IF alerts_active /\ current_alert # Null
       THEN /\ button_pressed' = [button_pressed EXCEPT ![current_alert] = b]
            /\ answered' = answered \cup {current_alert}
            /\ alert_reply' = TRUE
            /\ SignalReply(u, "idle")
       ELSE /\ GoOn(u, "idle")
            /\ UNCHANGED <<button_pressed, answered, alert_reply>>
    /\ UNCHANGED <<life, alerts_active, alert_request, current_alert, locks, taken>>

----------------------------------------------------------------------------
(* pp_pdf_alerts_drop, and the next pp_pdf_alerts_new_mupdf *)

DropCall ==
    /\ at[Dropper] = "idle" /\ allocated
    /\ event_cb' = FALSE
    /\ GoOn(Dropper, "drop_flags")
    /\ UNCHANGED <<allocated, flags, button_pressed, locks, taken, answered>>

DropFlags ==
    /\ at[Dropper] = "drop_flags"
    /\ current_alert' = Null /\ alerts_active' = FALSE
    /\ SignalBoth(Dropper, "drop_fin")
    /\ UNCHANGED <<life, alert_request, alert_reply, button_pressed, locks, taken, answered>>

DropWaitFin ==
    /\ \/ /\ at[Dropper] = "drop_fin" /\ fin_lock = Null
          /\ fin_lock' = Dropper /\ GoOn(Dropper, "drop_fin_held")
       \/ /\ at[Dropper] = "drop_fin_held"
          /\ fin_lock' = Null /\ GoOn(Dropper, "drop_fin2")
    /\ UNCHANGED <<life, flags, button_pressed, fin_lock2, taken, answered>>

DropWaitFin2 ==
    /\ \/ /\ at[Dropper] = "drop_fin2" /\ fin_lock2 = Null
          /\ fin_lock2' = Dropper /\ GoOn(Dropper, "drop_fin2_held")
       \/ /\ at[Dropper] = "drop_fin2_held"
          /\ fin_lock2' = Null /\ GoOn(Dropper, "drop_destroy")
    /\ UNCHANGED <<life, flags, button_pressed, fin_lock, taken, answered>>

DropDestroy ==
    /\ at[Dropper] = "drop_destroy"
    /\ allocated' = FALSE
    /\ GoOn(Dropper, "idle")
    /\ UNCHANGED <<event_cb, flags, button_pressed, locks, taken, answered>>

\* The next document opened gets a new monitor.  A thread still inside the
\* old one would use freed memory: nothing is modelled beyond that point.
New ==
    /\ ~allocated /\ \A t \in AlertThreads : at[t] = "idle"
    /\ allocated' = TRUE /\ event_cb' = TRUE
    /\ alerts_active' = FALSE /\ alert_request' = FALSE /\ alert_reply' = FALSE
    /\ current_alert' = Null
    /\ UNCHANGED <<button_pressed, locks, at, taken, answered>>

----------------------------------------------------------------------------

\* POSIX lets a condition wait return without a signal.
SpuriousWakeup(t) ==
    /\ \/ t \in ShowersBlocked /\ GoOn(t, "show_woken")
       \/ t \in WaitersBlocked /\ GoOn(t, "wait_woken")
    /\ UNCHANGED <<life, flags, button_pressed, locks, taken, answered>>

ShowStep(s) == ShowLockFin(s) \/ ShowInactive(s) \/ ShowPublish(s)
               \/ ShowSleepAgain(s) \/ ShowFinish(s) \/ ShowReturn(s)
WaitStep(w) == WaitLockFin(w) \/ WaitSleep(w) \/ WaitTake(w) \/ WaitUnlockFin(w) \/ WaitCopy(w)
UserStep(u) == Start(u) \/ Stop(u) \/ \E b \in Buttons : Reply(u, b)
DropStep    == DropFlags \/ DropWaitFin \/ DropWaitFin2 \/ DropDestroy

AlertsNext ==
    \/ \E s \in Showers : ShowCall(s) \/ ShowStep(s)
    \/ \E w \in Waiters : WaitCall(w) \/ WaitStep(w)
    \/ \E u \in Users : UserStep(u) \/ \E op \in UserSteps \ {"idle"} : UserCall(u, op)
    \/ DropCall \/ DropStep \/ New
    \/ \E t \in Showers \cup Waiters : SpuriousWakeup(t)

AlertsSpec == AlertsInit /\ [][AlertsNext]_alertVars

----------------------------------------------------------------------------
AlertsTypeOK ==
    /\ allocated \in BOOLEAN /\ event_cb \in BOOLEAN
    /\ alerts_active \in BOOLEAN /\ alert_request \in BOOLEAN /\ alert_reply \in BOOLEAN
    /\ current_alert \in Showers \cup {Null}
    /\ button_pressed \in [Showers -> Buttons]
    /\ fin_lock \in Waiters \cup {Dropper, Null}
    /\ fin_lock2 \in Showers \cup {Dropper, Null}
    /\ at \in [AlertThreads -> ShowSteps \cup WaitSteps \cup UserSteps \cup DropSteps]
    /\ \A s \in Showers : at[s] \in ShowSteps
    /\ \A w \in Waiters : at[w] \in WaitSteps
    /\ \A u \in Users : at[u] \in UserSteps
    /\ at[Dropper] \in DropSteps
    /\ taken \in [Waiters -> Showers \cup {Null}]
    /\ answered \subseteq Showers

\* current_alert points into the event of a show call that is still waiting,
\* so the write of a reply never lands in an event that is gone
\* (pp_pdf_alerts_reply dereferences it).
CurrentAlertAlive ==
    current_alert # Null => at[current_alert] \in {"show_wait", "show_woken"}

\* Each mutex is owned exactly while its owner is inside the section it guards.
ShowInside == {"show_lock", "show_wait", "show_woken", "show_exit"}
WaitInside == {"wait_lock", "wait_wait", "wait_woken", "wait_exit"}
FinLocksOwned ==
    /\ \A s \in Showers : at[s] \in ShowInside <=> fin_lock2 = s
    /\ \A w \in Waiters : at[w] \in WaitInside <=> fin_lock = w
    /\ at[Dropper] = "drop_fin_held" <=> fin_lock = Dropper
    /\ at[Dropper] = "drop_fin2_held" <=> fin_lock2 = Dropper

\* No thread sleeps on a condition whose predicate already holds: every
\* change that ends a wait is followed by a signal that reaches the sleeper.
NoLostWakeup ==
    /\ \A s \in Showers : at[s] = "show_wait" => alerts_active /\ ~alert_reply
    /\ \A w \in Waiters : at[w] = "wait_wait" => alerts_active /\ ~alert_request

\* A reply flag left over from an earlier alert is never seen by a later one:
\* while the monitor stays active a show returns only after its own alert was
\* answered.
ShowEndsAnswered ==
    [][\A s \in Showers :
          at[s] \in {"show_lock", "show_wait", "show_woken"} /\ at'[s] = "show_exit"
             => ~alerts_active \/ s \in answered]_alertVars

=============================================================================
