----------------------------- MODULE IrqTriggers -----------------------------
(***************************************************************************)
(* The interrupts of a feature and the eventfds that user space binds to   *)
(* them.  A call rebinds a range of interrupts one after the other, under  *)
(* the lock of the feature device; an interrupt can arrive at any point of *)
(* it.  When one binding fails the call unbinds the interrupts before it.  *)
(***************************************************************************)
EXTENDS Integers, FiniteSets

CONSTANTS
  NrIrqs,     \* feature->nr_irqs
  Eventfds,   \* eventfd contexts
  NoTrigger

ASSUME IrqAssumption == NrIrqs \in Nat \ {0} /\ NoTrigger \notin Eventfds

VARIABLES
  irq_trigger,  \* per interrupt: irq_ctx[idx].trigger
  irq_handler,  \* per interrupt: the context its handler was requested with
  fd_refs,      \* per context: references the driver holds
  irq_call,     \* the call under way: range, index reached, what it binds
  irq_open      \* the port is open

irq_vars == <<irq_trigger, irq_handler, fd_refs, irq_call, irq_open>>

Irqs == 0..(NrIrqs - 1)
Fds == Eventfds \cup {NoTrigger}
NoCall == [pc |-> "none", start |-> 0, count |-> 0, i |-> 0, fds |-> [k \in Irqs |-> NoTrigger], failed |-> -1]
IrqIdx == irq_call.start + irq_call.i
IrqGoto(pc) == irq_call' = [irq_call EXCEPT !.pc = pc]
Bound(idx) == irq_trigger[idx] # NoTrigger

IrqInit ==
  /\ irq_trigger = [k \in Irqs |-> NoTrigger] /\ irq_handler = [k \in Irqs |-> NoTrigger]
  /\ fd_refs = [e \in Eventfds |-> 0]
  /\ irq_call = NoCall
  /\ irq_open = FALSE

irq_afu_open ==
  /\ ~irq_open /\ irq_open' = TRUE
  /\ UNCHANGED <<irq_trigger, irq_handler, fd_refs, irq_call>>

\* fds[k] negative unbinds; a range past the last interrupt is refused.
dfl_feature_ioctl_set_irq(start, count, fds) ==
  /\ irq_open /\ irq_call.pc = "none"
  /\ count > 0 /\ start + count <= NrIrqs
  /\ irq_call' = [pc |-> "free", start |-> start, count |-> count, i |-> 0, fds |-> fds, failed |-> -1]
  /\ UNCHANGED <<irq_trigger, irq_handler, fd_refs, irq_open>>

\* The last close unbinds all interrupts, with no descriptors.
irq_afu_release ==
  /\ irq_open /\ irq_call.pc = "none"
  /\ irq_open' = FALSE
  /\ irq_call' = [NoCall EXCEPT !.pc = "free", !.count = NrIrqs]
  /\ UNCHANGED <<irq_trigger, irq_handler, fd_refs>>

\* Fault: the context is put while the handler can still run.
irq_free_irq_PutFirst ==
  /\ irq_call.pc = "free" /\ Bound(IrqIdx)
  /\ fd_refs' = [fd_refs EXCEPT ![irq_trigger[IrqIdx]] = @ - 1]
  /\ IrqGoto("put")
  /\ UNCHANGED <<irq_trigger, irq_handler, irq_open>>

irq_free_irq ==
  /\ irq_call.pc = "free" /\ Bound(IrqIdx)
  /\ irq_handler' = [irq_handler EXCEPT ![IrqIdx] = NoTrigger]
  /\ IrqGoto("put")
  /\ UNCHANGED <<irq_trigger, fd_refs, irq_open>>

irq_put ==
  /\ irq_call.pc = "put"
  /\ fd_refs' = [fd_refs EXCEPT ![irq_trigger[IrqIdx]] = @ - 1]
  /\ irq_trigger' = [irq_trigger EXCEPT ![IrqIdx] = NoTrigger]
  /\ IrqGoto("get")
  /\ UNCHANGED <<irq_handler, irq_open>>

\* The next interrupt of the range, or the end of the call.
IrqAdvance ==
  irq_call' = IF irq_call.i + 1 = irq_call.count THEN NoCall
              ELSE [irq_call EXCEPT !.pc = "free", !.i = irq_call.i + 1]

IrqRollingBack == irq_call.failed # -1

\* Fault: only the interrupt before the one that failed is unbound.
IrqRollback_Skip ==
  irq_call' = IF irq_call.i = 0 \/ IrqRollingBack THEN NoCall
              ELSE [irq_call EXCEPT !.pc = "free", !.i = irq_call.i - 1, !.fds = NoCall.fds, !.failed = irq_call.i]

\* A failure at index i: indices i - 1 down to 0 are unbound again.
IrqRollback ==
  irq_call' = IF irq_call.i = 0 THEN NoCall
              ELSE [irq_call EXCEPT !.pc = "free", !.i = irq_call.i - 1, !.fds = NoCall.fds,
                                    !.failed = IF IrqRollingBack THEN @ ELSE irq_call.i]

\* Nothing to bind: go on with the loop, or with the rollback.
irq_unbound ==
  /\ irq_call.pc = "get" \/ (irq_call.pc = "free" /\ ~Bound(IrqIdx))
  /\ irq_call.fds[irq_call.i] = NoTrigger
  /\ IF IrqRollingBack THEN IrqRollback ELSE IrqAdvance
  /\ UNCHANGED <<irq_trigger, irq_handler, fd_refs, irq_open>>

\* eventfd_ctx_fdget: a context, or a descriptor that is not one.
irq_fdget ==
  LET e == irq_call.fds[irq_call.i] IN
  /\ irq_call.pc = "get" \/ (irq_call.pc = "free" /\ ~Bound(IrqIdx))
  /\ e # NoTrigger
  /\ \/ fd_refs' = [fd_refs EXCEPT ![e] = @ + 1] /\ IrqGoto("request")
     \/ IrqRollback /\ UNCHANGED fd_refs
  /\ UNCHANGED <<irq_trigger, irq_handler, irq_open>>

irq_request ==
  LET e == irq_call.fds[irq_call.i] IN
  /\ irq_call.pc = "request"
  /\ \/ /\ irq_handler' = [irq_handler EXCEPT ![IrqIdx] = e]
        /\ irq_trigger' = [irq_trigger EXCEPT ![IrqIdx] = e]
        /\ IrqAdvance /\ UNCHANGED fd_refs
     \/ /\ fd_refs' = [fd_refs EXCEPT ![e] = @ - 1]
        /\ IrqRollback /\ UNCHANGED <<irq_handler, irq_trigger>>
  /\ UNCHANGED irq_open

IrqNext ==
  \/ irq_afu_open \/ irq_afu_release
  \/ \E s \in Irqs, c \in 1..NrIrqs, fds \in [Irqs -> Fds] : dfl_feature_ioctl_set_irq(s, c, fds)
  \/ irq_free_irq \/ irq_put \/ irq_unbound \/ irq_fdget \/ irq_request

IrqSpec == IrqInit /\ [][IrqNext]_irq_vars

-----------------------------------------------------------------------------
(* Properties.                                                             *)

\* An interrupt that arrives, at any point of a call, signals an eventfd the
\* driver has a reference to: do_set_irq_trigger frees the handler first.
IrqSignalsLive == \A k \in Irqs : irq_handler[k] # NoTrigger => fd_refs[irq_handler[k]] > 0

\* Between calls every reference belongs to a binding, and every binding has
\* its handler: no failure in the middle of a range leaks a context.
IrqRefsExact ==
  irq_call.pc = "none" =>
    /\ irq_handler = irq_trigger
    /\ \A e \in Eventfds : fd_refs[e] = Cardinality({k \in Irqs : irq_trigger[k] = e})

\* A call that failed leaves no interrupt of its range bound up to the one that
\* failed, so that a caller who retries starts from unbound interrupts.
IrqFailedUnbinds ==
  [][IrqRollingBack /\ irq_call'.pc = "none"
       => \A k \in irq_call.start..(irq_call.start + irq_call.failed) : irq_trigger'[k] = NoTrigger]_irq_vars

\* Nothing stays bound once the last file is closed and its release ended.
IrqClosedUnbound == ~irq_open /\ irq_call.pc = "none" => \A k \in Irqs : ~Bound(k)

\* Taken together: a context is referenced as long as an interrupt can signal
\* it, and no longer than it is bound.
IrqBindingsExact == IrqSignalsLive /\ IrqRefsExact /\ IrqClosedUnbound
=============================================================================
