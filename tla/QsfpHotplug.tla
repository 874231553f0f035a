---------------------------- MODULE QsfpHotplug -----------------------------
(***************************************************************************)
(* A cage for QSFP modules: work that runs again and again looks whether a *)
(* module is plugged in, brings a new one up over I2C and has the          *)
(* controller poll it, until the driver is removed.                        *)
(***************************************************************************)
EXTENDS Integers

CONSTANT
  QSFP_CHK_RDY_CNT   \* commands sent to a module before it counts as dead

VARIABLE
  qs    \* module, controller, driver state and work of one cage

qsfp_vars == <<qs>>

\* fresh and steady are history: the module was not touched since the work began, and
\* a whole pass of the work found it so and had all of its commands answered.
QsfpInit ==
  \E in \in BOOLEAN :
    qs = [in |-> in, conf |-> "off", init |-> "reset", work |-> "running", pc |-> "check", cnt |-> 0, rm |-> "no",
          fresh |-> TRUE, failed |-> FALSE, steady |-> FALSE, shown |-> 0]

-----------------------------------------------------------------------------
\* A module is plugged in or taken out.
ModuleMoves == qs' = [qs EXCEPT !.in = ~@, !.fresh = FALSE, !.steady = FALSE]

QsfpRunning(pc) == qs.work = "running" /\ qs.pc = pc

\* Fault: the module counts as ready whatever came of it.
hotplug_result_Any(q, ok) == [q EXCEPT !.pc = "end", !.init = "done", !.conf = IF ok THEN "poll" ELSE @, !.failed = ~ok]
\* The module is ready and polled, or it is tried again in the next pass.
hotplug_result(q, ok) ==
  [q EXCEPT !.pc = "end", !.init = IF ok THEN "done" ELSE @, !.conf = IF ok THEN "poll" ELSE @, !.failed = ~ok]

\* A new module is reset with its controller; one that is gone is forgotten.
hotplug_check(q) ==
  CASE q.in /\ q.init = "reset" -> [q EXCEPT !.pc = "ready", !.conf = "select", !.cnt = 0]
    [] ~q.in /\ q.init = "done" -> [q EXCEPT !.pc = "end", !.init = "reset"]
    [] OTHER -> [q EXCEPT !.pc = "end"]

\* The mutex is taken and the cage looked at.
qsfp_check_hotplug == QsfpRunning("check") /\ qs' = hotplug_check(qs)

\* A command: answered, not acknowledged (then once more, up to the limit), or the
\* FIFO does not drain.
qsfp_init ==
  /\ QsfpRunning("ready")
  /\ \/ qs.in /\ qs' = hotplug_result(qs, TRUE)
     \/ qs.cnt + 1 < QSFP_CHK_RDY_CNT /\ qs' = [qs EXCEPT !.cnt = @ + 1]
     \/ qs.cnt + 1 >= QSFP_CHK_RDY_CNT /\ qs' = hotplug_result(qs, FALSE)
     \/ qs' = hotplug_result(qs, FALSE)

\* The mutex is dropped and the work queued again, unless it is being cancelled.
schedule_delayed_work ==
  /\ QsfpRunning("end")
  /\ qs' = [qs EXCEPT !.work = IF qs.rm = "cancel" THEN "none" ELSE "queued", !.steady = qs.fresh /\ ~qs.failed]
QsfpTimer ==
  /\ qs.work = "queued"
  /\ qs' = [qs EXCEPT !.work = "running", !.pc = "check", !.fresh = TRUE, !.failed = FALSE]

qsfp_connected_show ==
  /\ ~(qs.work = "running" /\ qs.pc # "check") /\ qs.rm = "no"
  /\ qs' = [qs EXCEPT !.shown = IF qs.in /\ qs.init = "done" THEN 1 ELSE 0]

\* Polling is turned off, then the work cancelled.
qsfp_remove_device == qs.rm = "no" /\ qs' = [qs EXCEPT !.conf = "select", !.rm = "cancel"]
cancel_delayed_work_sync(q) == q.rm = "cancel" /\ q.work # "running"
remove_returns ==
  /\ cancel_delayed_work_sync(qs)
  /\ qs' = [qs EXCEPT !.rm = "done", !.work = IF @ = "queued" THEN "none" ELSE @]

QsfpNext ==
  \/ ModuleMoves \/ qsfp_check_hotplug \/ qsfp_init \/ schedule_delayed_work \/ QsfpTimer
  \/ qsfp_connected_show \/ qsfp_remove_device \/ remove_returns

QsfpSpec == QsfpInit /\ [][QsfpNext]_qsfp_vars

-----------------------------------------------------------------------------
(* Properties.                                                             *)

\* While the driver is bound, a module that is taken to be initialised is one the
\* controller polls, whatever failed or was unplugged half way.
QsfpPolled == qs.init = "done" /\ qs.rm = "no" => qs.conf = "poll"

\* One undisturbed pass of the work is enough: it leaves a plugged module initialised
\* and an empty cage not.
QsfpNoticed == qs.steady /\ qs.work # "running" => (qs.init = "done" <=> qs.in)

\* When removal returns no pass of the work runs and none is queued.
QsfpStopped == qs.rm = "done" => qs.work = "none"

\* Taken together: the driver's view follows the cage until it is removed, and
\* its work does not run after that.
QsfpFollowsCage == QsfpPolled /\ QsfpNoticed /\ QsfpStopped
=============================================================================
