---------------------------- MODULE Stratix10Mgr ----------------------------
(***************************************************************************)
(* The Stratix 10 manager.  It sends commands to a service layer that runs *)
(* in a thread of its own and answers by a callback, which sets status     *)
(* bits, gives buffers back and completes the wait of the caller.  Answers *)
(* can come after the caller has given up.                                 *)
(***************************************************************************)
EXTENDS FpgaMgr, FiniteSets

CONSTANTS
  SvcBufs,     \* slots of svc_bufs, by their index
  SvcPool,     \* buffers the service layer can allocate
  SvcFifo      \* length of the queue of the service layer

VARIABLES
  s10,    \* the operation under way: pc and what is left to send
  slot,   \* svc_bufs: buffer and lock bit of each slot
  svc     \* status bits, completion, and the service layer: queue, thread, buffers

s10_vars == <<mgr_vars, s10, slot, svc>>

NoBuf == "none"
ASSUME S10Assumption == SvcBufs \subseteq Nat /\ NoBuf \notin SvcPool /\ SvcFifo \in Nat

s10_ops == [NoOps EXCEPT !.write = TRUE, !.complete = TRUE]
Owned == {slot[i].buf : i \in SvcBufs} \ {NoBuf}

S10Init ==
  /\ MgrInit
  /\ s10 = [pc |-> "none", count |-> 0]
  /\ slot = [i \in SvcBufs |-> [buf |-> NoBuf, lock |-> FALSE]]
  /\ svc = [status |-> {}, done |-> FALSE, queue |-> <<>>, thread |-> FALSE, held |-> {}, pool |-> {}]

s10_probe ==
  /\ fpga_mgr_register_full(s10_ops, "unknown")
  /\ s10' = [pc |-> "none", count |-> 0]
  /\ slot' = [i \in SvcBufs |-> [buf |-> NoBuf, lock |-> FALSE]]
  /\ svc' = [svc EXCEPT !.status = {}, !.done = FALSE, !.thread = FALSE, !.queue = <<>>, !.held = {}, !.pool = {}]

\* Queue a message; sending one starts the thread of the service layer.
s10_svc_send_msg(s, cmd, buf) ==
  [s EXCEPT !.queue = Append(@, [cmd |-> cmd, buf |-> buf]), !.thread = TRUE,
            !.held = IF buf = NoBuf THEN @ ELSE @ \cup {buf}]
\* The thread stops; what is queued stays queued.
svc_done(s) == [s EXCEPT !.thread = FALSE]
QueueRoom == Len(svc.queue) < SvcFifo
reinit_completion(s) == [s EXCEPT !.done = FALSE]
Answered == svc.done

\* Fault: buffers are freed whether or not the service layer uses them.
s10_free_buffers_InUse == {i \in SvcBufs : slot[i].buf # NoBuf}
\* The slots whose buffer is not in use; they keep the lock bit.
s10_free_buffers == {i \in SvcBufs : slot[i].buf # NoBuf /\ ~slot[i].lock}
FreeSlots == [i \in SvcBufs |-> IF i \in s10_free_buffers THEN [buf |-> NoBuf, lock |-> TRUE] ELSE slot[i]]
FreeSvc(s) == [s EXCEPT !.pool = @ \ {slot[i].buf : i \in s10_free_buffers}]
AllFreed == \A i \in SvcBufs : FreeSlots[i].buf = NoBuf
s10_free_buffer_count == Cardinality({i \in SvcBufs : slot[i].buf = NoBuf})

-----------------------------------------------------------------------------
(* write_init: ask for the reconfiguration, then allocate the buffers.     *)

s10_init_send ==
  /\ load.pc = "write_init" /\ s10.pc = "none"
  /\ \/ /\ QueueRoom /\ s10' = [s10 EXCEPT !.pc = "init"] /\ UNCHANGED mgr_vars
        /\ svc' = s10_svc_send_msg(reinit_completion(svc), "reconfig", NoBuf)
     \/ /\ MgrWriteInit(FALSE) /\ UNCHANGED s10
        /\ svc' = svc_done(reinit_completion(svc))
  /\ UNCHANGED slot

\* No answer in time, or one that is not OK.
s10_init_refused ==
  /\ s10.pc = "init" /\ ~(Answered /\ "ok" \in svc.status)
  /\ MgrWriteInit(FALSE) /\ svc' = svc_done(svc)
  /\ s10' = [s10 EXCEPT !.pc = "none"] /\ UNCHANGED slot

\* Slots are filled in order; whatever they held is overwritten.  When the pool
\* runs out at slot n, the buffers that were just taken, and those of the other
\* slots that are not in use, are freed.
s10_init_alloc ==
  /\ s10.pc = "init" /\ Answered /\ "ok" \in svc.status
  /\ s10' = [s10 EXCEPT !.pc = "none"]
  /\ \/ \E f \in [SvcBufs -> SvcPool \ svc.pool] :
          /\ \A i, j \in SvcBufs : i # j => f[i] # f[j]
          /\ slot' = [i \in SvcBufs |-> [buf |-> f[i], lock |-> FALSE]]
          /\ svc' = svc_done([svc EXCEPT !.status = @ \ {"ok"}, !.pool = @ \cup {f[i] : i \in SvcBufs}])
          /\ MgrWriteInit(TRUE)
     \/ \E n \in SvcBufs :
          /\ Injection({i \in SvcBufs : i < n}, SvcPool \ svc.pool) # {}
          /\ slot' = [i \in SvcBufs |-> IF i < n THEN [buf |-> NoBuf, lock |-> TRUE] ELSE FreeSlots[i]]
          /\ svc' = svc_done([svc EXCEPT !.status = @ \ {"ok"},
                                          !.pool = @ \ {slot[i].buf : i \in {k \in s10_free_buffers : k >= n}}])
          /\ MgrWriteInit(FALSE)

-----------------------------------------------------------------------------
(* write: a loop that sends buffers, then claims them back and frees them. *)

s10_write_begin ==
  /\ load.pc = "write" /\ s10.pc = "none"
  /\ s10' = [pc |-> "loop", count |-> MgrChunk]
  /\ UNCHANGED <<mgr_vars, slot, svc>>

\* A free slot is filled and submitted.  With none the loop goes round again at
\* once, without looking at the status.
s10_send_buf ==
  /\ s10.pc = "loop" /\ s10.count > 0
  /\ LET s == reinit_completion(svc)
         free == {i \in SvcBufs : ~slot[i].lock}
         i == CHOOSE k \in free : TRUE
     IN  IF free = {} THEN svc' = s /\ UNCHANGED <<s10, slot>>
         ELSE \/ /\ QueueRoom /\ slot' = [slot EXCEPT ![i].lock = TRUE]
                 /\ svc' = s10_svc_send_msg(s, "submit", slot[i].buf)
                 /\ s10' = [pc |-> "wait", count |-> s10.count - 1]
              \/ svc' = s /\ UNCHANGED <<s10, slot>>
  /\ UNCHANGED mgr_vars

\* All is sent: free what is back, and when something is missing claim it.
s10_write_free ==
  /\ s10.pc = "loop" /\ s10.count = 0
  /\ slot' = FreeSlots
  /\ LET s == FreeSvc(reinit_completion(svc)) IN
     IF AllFreed THEN svc' = s /\ MgrWrite(TRUE) /\ s10' = [s10 EXCEPT !.pc = "none"]
     ELSE \/ /\ QueueRoom /\ svc' = s10_svc_send_msg(s, "claim", NoBuf)
             /\ s10' = [s10 EXCEPT !.pc = "wait"] /\ UNCHANGED mgr_vars
          \/ svc' = s /\ MgrWrite(FALSE) /\ s10' = [s10 EXCEPT !.pc = "none"]

\* A status bit is there already, or the completion, or the time is up.  A bit that
\* does not belong to a write sends it round the loop again.
s10_write_wait ==
  /\ s10.pc = "wait"
  /\ LET back == svc.status \cap {"buffer_done", "buffer_submitted"} IN
     IF back = {} /\ ("error" \in svc.status \/ svc.status = {})
     THEN /\ slot' = FreeSlots /\ svc' = FreeSvc([svc EXCEPT !.status = @ \ {"error"}])
          /\ MgrWrite(FALSE) /\ s10' = [s10 EXCEPT !.pc = "none"]
     ELSE /\ svc' = [svc EXCEPT !.status = @ \ {IF "buffer_done" \in back THEN "buffer_done" ELSE "buffer_submitted"}]
          /\ s10' = [s10 EXCEPT !.pc = "loop"] /\ UNCHANGED <<mgr_vars, slot>>

-----------------------------------------------------------------------------
(* write_complete: ask for the status until it is completed.               *)

s10_complete_send ==
  /\ load.pc = "write_complete" /\ s10.pc \in {"none", "again"}
  /\ \/ /\ QueueRoom /\ svc' = s10_svc_send_msg(reinit_completion(svc), "status", NoBuf)
        /\ s10' = [s10 EXCEPT !.pc = "completing"] /\ UNCHANGED mgr_vars
     \/ /\ svc' = svc_done(reinit_completion(svc))
        /\ MgrWriteComplete(FALSE) /\ s10' = [s10 EXCEPT !.pc = "none"]
  /\ UNCHANGED slot

s10_complete_wait ==
  /\ s10.pc = "completing" /\ UNCHANGED slot
  /\ \/ /\ Answered /\ "completed" \in svc.status
        /\ svc' = svc_done([svc EXCEPT !.status = @ \ {"completed"}])
        /\ MgrWriteComplete(TRUE) /\ s10' = [s10 EXCEPT !.pc = "none"]
     \/ /\ ~Answered \/ (svc.status \cap {"completed", "error"} = {"error"})
        /\ svc' = svc_done([svc EXCEPT !.status = IF Answered THEN @ \ {"error"} ELSE @])
        /\ MgrWriteComplete(FALSE) /\ s10' = [s10 EXCEPT !.pc = "none"]
     \/ /\ Answered /\ svc.status \cap {"completed", "error"} = {}
        /\ s10' = [s10 EXCEPT !.pc = "again"] /\ UNCHANGED <<mgr_vars, svc>>

-----------------------------------------------------------------------------
(* The service layer and the callback.                                     *)

\* Give the lock bit of the slot of a returned buffer back.
s10_unlock_bufs(back) ==
  slot' = [i \in SvcBufs |-> IF slot[i].buf \in back THEN [slot[i] EXCEPT !.lock = FALSE] ELSE slot[i]]

\* One message is handled.  The outcome of a reconfiguration request is OK or
\* an error; data is taken and buffers come back with the answer to a submit
\* or a claim, some or all of them.
s10_receive_callback ==
  /\ svc.thread /\ svc.queue # <<>>
  /\ LET cmd == Head(svc.queue).cmd
         Answer(bits, back) ==
           /\ svc' = [svc EXCEPT !.queue = Tail(@), !.status = @ \cup bits, !.done = TRUE, !.held = @ \ back]
           /\ s10_unlock_bufs(back)
     IN  \/ cmd = "reconfig" /\ \E b \in {"ok", "error"} : Answer({b}, {})
         \/ cmd = "submit" /\ \E b \in {"buffer_submitted", "error"} : Answer({b}, {})
         \/ cmd \in {"submit", "claim"} /\ \E back \in SUBSET svc.held : back # {} /\ Answer({"buffer_done"}, back)
         \/ cmd = "claim" /\ Answer({"error"}, {})
         \/ cmd = "status" /\ \E b \in {"completed", "error", "ok"} : Answer({b}, {})
  /\ UNCHANGED <<mgr_vars, s10>>

S10Next ==
  \/ s10_probe
  \/ MgrFramework({FALSE}) /\ UNCHANGED <<s10, slot, svc>>
  \/ s10_init_send \/ s10_init_refused \/ s10_init_alloc
  \/ s10_write_begin \/ s10_send_buf \/ s10_write_free \/ s10_write_wait
  \/ s10_complete_send \/ s10_complete_wait
  \/ s10_receive_callback

S10Spec == S10Init /\ [][S10Next]_s10_vars

-----------------------------------------------------------------------------
(* Properties.                                                             *)

\* A buffer the service layer reads from is not freed, nor taken for other data:
\* neither by the end of a write nor by one that timed out or failed.
S10NoFreeInUse ==
  /\ svc.held \subseteq svc.pool
  /\ \A i \in SvcBufs : slot[i].buf \in svc.held => slot[i].lock

\* A write that succeeded got all its buffers back: the service layer has taken
\* all of the data when write_complete asks for the status.
S10AllTaken == load.pc = "write_complete" => Owned = {}

\* The accounting of the lock bits: a slot that is not in use has its buffer.
S10FreeSlotFilled == s10.pc \in {"loop", "wait"} => \A i \in SvcBufs : ~slot[i].lock => slot[i].buf # NoBuf

\* Taken together: writer, callback and service layer agree on who has a buffer.
S10BuffersSafe == S10NoFreeInUse /\ S10AllTaken /\ S10FreeSlotFilled
=============================================================================
