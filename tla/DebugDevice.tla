---------------------------- MODULE DebugDevice ----------------------------
(***************************************************************************)
(* The xHCI debug device: xhci_debug_device (xhci/debug_device*.cpp) as    *)
(* used by xhci_console_base, with the debug capability of the controller  *)
(* (external) on the other side of the out ring and the event ring.        *)
(*                                                                         *)
(* A writer prints (write_byte, write_line, flush, queue_write_transfer)   *)
(* and a poller calls poll(), i.e. handle_events(true), which reconnects.  *)
(* Both run handle_events; the mutexes of the device_driver_adapter        *)
(* exclude each other.  With OneContext the two calls never overlap, as on *)
(* bare metal.  A transfer is known by its number.                         *)
(***************************************************************************)
EXTENDS TrbRing, Sequences

CONSTANTS
    OUT_RING_SIZE, EVENT_RING_SIZE,
    OUT_BUF_SIZE,      \* also 2^16 in the code: what the length field holds
    TRANSFER_MAX,
    OneContext,        \* writer and poller are one thread of control
    MaxTransfers,      \* bound on the transfers queued
    MaxDisconnects,    \* bound on the connection losses
    MaxPortEvents      \* bound on the port status change events

VARIABLES
    out, ev,           \* out_ring_ and event_ring_ with their TRBs
    init_mtx, poll_mtx,
    pc,                \* where the writer and the poller are
    booted,            \* the constructor's initialize() returned
    buf,               \* output_buffer_.length()
    todo,              \* lengths of the transfers the running call queues
    slot,              \* entry returned by enqueue()
    sent,              \* lengths of the strings queued so far
    hw,                \* the controller
    posted,            \* events posted and not yet dequeued
    host,              \* what arrived at the debug host
    lost, ports        \* connection losses, port events so far

software == <<init_mtx, poll_mtx, pc, booted, buf, todo, slot, sent>>
hardware == <<hw, posted, host, lost, ports>>
vars == <<out, ev, software, hardware>>

Thread == {"writer", "poller"}

PortEvent == [type |-> "port", index |-> 0]
TransferEvent(i) == [type |-> "transfer", index |-> i]

Init ==
    /\ out = initialize(OUT_RING_SIZE, TRUE)
    /\ ev = initialize(EVENT_RING_SIZE, FALSE)
    /\ init_mtx = "poller" /\ poll_mtx = "none"
    /\ pc = [writer |-> "idle", poller |-> "init"]
    /\ booted = FALSE
    /\ buf = 0 /\ todo = <<>> /\ slot = 0 /\ sent = <<>>
    /\ hw = [run |-> FALSE, armed |-> FALSE, rung |-> FALSE, ptr |-> 0,
             cycle |-> TRUE, evptr |-> 0, evcycle |-> TRUE, erdp |-> 0]
    /\ posted = <<>> /\ host = <<>> /\ lost = 0 /\ ports = 0

Goto(t, l) == pc' = [pc EXCEPT ![t] = l]

Available(t) ==
    /\ pc[t] = "idle"
    /\ booted
    /\ OneContext => \A s \in Thread : pc[s] = "idle"
-----------------------------------------------------------------------------
(* The writer.                                                             *)

CHUNK_SIZE == IF OUT_BUF_SIZE < TRANSFER_MAX THEN OUT_BUF_SIZE ELSE TRANSFER_MAX

flush == IF buf > 0 THEN <<buf>> ELSE <<>>

chunks(n) == [k \in 1..(n \div CHUNK_SIZE) + 1 |->
                IF k <= n \div CHUNK_SIZE THEN CHUNK_SIZE ELSE n % CHUNK_SIZE]

(* Fault: write_byte does not flush a full buffer.                         *)
Putc_no_flush(newline) ==
    /\ Available("writer")
    /\ Len(sent) < MaxTransfers
    /\ IF newline
         THEN todo' = <<buf + 1>> /\ buf' = 0 /\ Goto("writer", "lock")
         ELSE buf' = buf + 1 /\ UNCHANGED <<todo, pc>>
    /\ UNCHANGED <<out, ev, init_mtx, poll_mtx, booted, slot, sent, hardware>>

(* putc: write_byte, with a flush when the buffer is full or a line ends.  *)
Putc(newline) ==
    /\ Available("writer")
    /\ Len(sent) < MaxTransfers
    /\ IF newline \/ buf + 1 = OUT_BUF_SIZE
         THEN todo' = <<buf + 1>> /\ buf' = 0 /\ Goto("writer", "lock")
         ELSE buf' = buf + 1 /\ UNCHANGED <<todo, pc>>
    /\ UNCHANGED <<out, ev, init_mtx, poll_mtx, booted, slot, sent, hardware>>

(* puts: write_line of a string of n bytes.                                *)
Puts(n) ==
    /\ Available("writer")
    /\ todo' = flush \o chunks(n)
    /\ Len(sent) + Len(todo') <= MaxTransfers
    /\ buf' = 0
    /\ Goto("writer", "lock")
    /\ UNCHANGED <<out, ev, init_mtx, poll_mtx, booted, slot, sent, hardware>>

(* queue_write_transfer of the first string in todo.                       *)
LockInit ==
    /\ pc.writer = "lock"
    /\ init_mtx = "none"
    /\ init_mtx' = "writer"
    /\ Goto("writer", "wait")
    /\ UNCHANGED <<out, ev, poll_mtx, booted, buf, todo, slot, sent, hardware>>

(* Fault: it does not wait.                                                *)
WaitDone_never ==
    /\ pc.writer = "wait"
    /\ Goto("writer", "enqueue")
    /\ UNCHANGED <<out, ev, init_mtx, poll_mtx, booted, buf, todo, slot, sent,
                   hardware>>

(* It waits until the previous request is done, handling events meanwhile, *)
WaitDone ==
    /\ pc.writer = "wait"
    /\ Goto("writer", IF empty(out) THEN "enqueue" ELSE "lockpoll")
    /\ UNCHANGED <<out, ev, init_mtx, poll_mtx, booted, buf, todo, slot, sent,
                   hardware>>

(* takes an entry of the ring, ...                                         *)
QueueEnqueue ==
    /\ pc.writer = "enqueue"
    /\ out' = enqueue(out)
    /\ slot' = enqueue_index(out)
    /\ Goto("writer", "fill")
    /\ UNCHANGED <<ev, init_mtx, poll_mtx, booted, buf, todo, sent, hardware>>

(* fills it, the 16-bit length included, ...                               *)
QueueFill ==
    /\ pc.writer = "fill"
    /\ sent' = Append(sent, Head(todo))
    /\ out' = fill(out, slot, [id |-> Len(sent) + 1,
                               length |-> Head(todo) % OUT_BUF_SIZE])
    /\ Goto("writer", "commit")
    /\ UNCHANGED <<ev, init_mtx, poll_mtx, booted, buf, todo, slot, hardware>>

(* ... commits it, ...                                                     *)
QueueCommit ==
    /\ pc.writer = "commit"
    /\ out' = commit(out, slot)
    /\ Goto("writer", "doorbell")
    /\ UNCHANGED <<ev, init_mtx, poll_mtx, booted, buf, todo, slot, sent,
                   hardware>>

(* The call returns: the guard releases init_mtx_ and the next string, if  *)
(* any, is queued.                                                         *)
QueueReturn ==
    /\ init_mtx' = "none"
    /\ todo' = Tail(todo)
    /\ Goto("writer", IF Tail(todo) = <<>> THEN "idle" ELSE "lock")

(* Fault: the doorbell is not rung.                                        *)
QueueDoorbell_silent ==
    /\ pc.writer = "doorbell"
    /\ QueueReturn
    /\ UNCHANGED <<out, ev, poll_mtx, booted, buf, slot, sent, hardware>>

(* ... and rings the doorbell.                                             *)
QueueDoorbell ==
    /\ pc.writer = "doorbell"
    /\ hw' = [hw EXCEPT !.rung = hw.run]
    /\ QueueReturn
    /\ UNCHANGED <<out, ev, poll_mtx, booted, buf, slot, sent, posted, host,
                   lost, ports>>
-----------------------------------------------------------------------------
(* handle_events, run by either thread t.                                  *)
Poll ==
    /\ Available("poller")
    /\ Goto("poller", "lockpoll")
    /\ UNCHANGED <<out, ev, init_mtx, poll_mtx, booted, buf, todo, slot, sent,
                   hardware>>

LockPoll(t) ==
    /\ pc[t] = "lockpoll"
    /\ poll_mtx = "none"
    /\ poll_mtx' = t
    /\ Goto(t, "running")
    /\ UNCHANGED <<out, ev, init_mtx, booted, buf, todo, slot, sent, hardware>>

(* A lost connection makes the poller re-initialise and the writer drop    *)
(* its request.                                                            *)
CheckRunning(t) ==
    /\ pc[t] = "running"
    /\ \/ /\ hw.run
          /\ Goto(t, "scan")
          /\ UNCHANGED <<init_mtx, poll_mtx, todo>>
       \/ /\ ~hw.run /\ t = "poller"
          /\ Goto(t, "lockinit")
          /\ UNCHANGED <<init_mtx, poll_mtx, todo>>
       \/ /\ ~hw.run /\ t = "writer"
          /\ poll_mtx' = "none"
          /\ QueueReturn
    /\ UNCHANGED <<out, ev, booted, buf, slot, sent, hardware>>

Scan(t) ==
    /\ pc[t] = "scan"
    /\ ev' = update_enqueue_ptr(ev)
    /\ Goto(t, "drain")
    /\ UNCHANGED <<out, init_mtx, poll_mtx, booted, buf, todo, slot, sent,
                   hardware>>

event == ev.trb[increment(ev, ev.deq, ev.cycle).old].data

Drain(t) ==
    /\ pc[t] = "drain"
    /\ IF empty(ev)
         THEN Goto(t, "ack") /\ UNCHANGED <<out, ev, posted>>
         ELSE /\ ev' = dequeue(ev)
              /\ out' = IF event # NoData /\ event.type = "transfer"
                          THEN update_dequeue_ptr(out, event.index) ELSE out
              /\ posted' = IF posted = <<>> THEN posted ELSE Tail(posted)
              /\ UNCHANGED pc
    /\ UNCHANGED <<init_mtx, poll_mtx, booted, buf, todo, slot, sent, hw, host,
                   lost, ports>>

(* Fault: the controller is not told how far the events were read.         *)
Ack_silent(t) ==
    /\ pc[t] = "ack"
    /\ poll_mtx' = "none"
    /\ Goto(t, IF t = "writer" THEN "ring" ELSE "idle")
    /\ UNCHANGED <<out, ev, init_mtx, booted, buf, todo, slot, sent, hardware>>

(* update_event_ring_dequeue_ptr, and the guard releases poll_mtx_.        *)
Ack(t) ==
    /\ pc[t] = "ack"
    /\ hw' = [hw EXCEPT !.erdp = ev.deq]
    /\ poll_mtx' = "none"
    /\ Goto(t, IF t = "writer" THEN "ring" ELSE "idle")
    /\ UNCHANGED <<out, ev, init_mtx, booted, buf, todo, slot, sent, posted,
                   host, lost, ports>>

(* The writer's wait loop rings the doorbell again.                        *)
RingAgain ==
    /\ pc.writer = "ring"
    /\ hw' = [hw EXCEPT !.rung = hw.run]
    /\ Goto("writer", "wait")
    /\ UNCHANGED <<out, ev, init_mtx, poll_mtx, booted, buf, todo, slot, sent,
                   posted, host, lost, ports>>
-----------------------------------------------------------------------------
(* initialize(reinit), where reinit is booted; the handover succeeds.      *)
LockReinit ==
    /\ pc.poller = "lockinit"
    /\ init_mtx = "none"
    /\ init_mtx' = "poller"
    /\ Goto("poller", "init")
    /\ UNCHANGED <<out, ev, poll_mtx, booted, buf, todo, slot, sent, hardware>>

(* Fault: re-initialisation points the controller to the start of a ring   *)
(* that is not reset.                                                      *)
InitSetup_rewinds ==
    /\ pc.poller = "init"
    /\ ev' = initialize(EVENT_RING_SIZE, FALSE)
    /\ posted' = <<>>
    /\ hw' = [hw EXCEPT !.run = FALSE, !.armed = TRUE, !.rung = FALSE,
                        !.evptr = 0, !.evcycle = TRUE, !.erdp = 0,
                        !.ptr = 0, !.cycle = TRUE]
    /\ Goto("poller", "initwait")
    /\ UNCHANGED <<out, init_mtx, poll_mtx, booted, buf, todo, slot, sent, host,
                   lost, ports>>

(* Fault: re-initialisation does not clear the event ring.                 *)
InitSetup_stale_events ==
    /\ pc.poller = "init"
    /\ ev' = [ev EXCEPT !.enq = 0, !.deq = 0, !.cycle = TRUE]
    /\ posted' = <<>>
    /\ hw' = [hw EXCEPT !.run = FALSE, !.armed = TRUE, !.rung = FALSE,
                        !.evptr = 0, !.evcycle = TRUE, !.erdp = 0]
    /\ Goto("poller", "initwait")
    /\ UNCHANGED <<out, init_mtx, poll_mtx, booted, buf, todo, slot, sent, host,
                   lost, ports>>

(* disable, setup_event_ring, setup_endpoint_contexts unless reinit, and   *)
(* enable: the controller does nothing in between.                         *)
InitSetup ==
    /\ pc.poller = "init"
    /\ ev' = initialize(EVENT_RING_SIZE, FALSE)
    /\ posted' = <<>>
    /\ hw' = [hw EXCEPT !.run = FALSE, !.armed = TRUE, !.rung = FALSE,
                        !.evptr = 0, !.evcycle = TRUE, !.erdp = 0,
                        !.ptr = IF booted THEN @ ELSE 0,
                        !.cycle = IF booted THEN @ ELSE TRUE]
    /\ out' = IF booted THEN out ELSE initialize(OUT_RING_SIZE, TRUE)
    /\ Goto("poller", "initwait")
    /\ UNCHANGED <<init_mtx, poll_mtx, booted, buf, todo, slot, sent, host,
                   lost, ports>>

InitDone ==
    /\ pc.poller = "initwait"
    /\ hw.run
    /\ init_mtx' = "none"
    /\ booted' = TRUE
    /\ Goto("poller", IF booted THEN "scan" ELSE "idle")
    /\ UNCHANGED <<out, ev, poll_mtx, buf, todo, slot, sent, hardware>>
-----------------------------------------------------------------------------
(* The controller (external).  It keeps one event TRB free.                *)
EventRoom == (hw.evptr + 1) % EVENT_RING_SIZE # hw.erdp

PostEvent(e) ==
    /\ EventRoom
    /\ ev' = [ev EXCEPT !.trb[hw.evptr] = [cycle |-> hw.evcycle, data |-> e]]
    /\ posted' = Append(posted, e)

AfterEvent(h) ==
    LET last == h.evptr + 1 = EVENT_RING_SIZE
    IN [h EXCEPT !.evptr = IF last THEN 0 ELSE @ + 1, !.evcycle = @ # last]

(* After a doorbell it executes the active TRBs, ...                       *)
HwExecute ==
    /\ hw.run /\ hw.rung
    /\ is_active(out, hw.ptr, hw.cycle)
    /\ ~is_link(out, hw.ptr)
    /\ PostEvent(TransferEvent(hw.ptr))
    /\ host' = Append(host, out.trb[hw.ptr].data)
    /\ hw' = AfterEvent([hw EXCEPT !.ptr = @ + 1])
    /\ UNCHANGED <<out, software, lost, ports>>

(* ... follows the Link TRB ...                                            *)
HwLink ==
    /\ hw.run /\ hw.rung
    /\ is_active(out, hw.ptr, hw.cycle)
    /\ is_link(out, hw.ptr)
    /\ hw' = [hw EXCEPT !.ptr = 0, !.cycle = ~@]
    /\ UNCHANGED <<out, ev, software, posted, host, lost, ports>>

(* ... and stops at an inactive one until the next doorbell.               *)
HwStop ==
    /\ hw.run /\ hw.rung
    /\ ~is_active(out, hw.ptr, hw.cycle)
    /\ hw' = [hw EXCEPT !.rung = FALSE]
    /\ UNCHANGED <<out, ev, software, posted, host, lost, ports>>

HwPortEvent ==
    /\ hw.run
    /\ ports < MaxPortEvents
    /\ PostEvent(PortEvent)
    /\ hw' = AfterEvent(hw)
    /\ ports' = ports + 1
    /\ UNCHANGED <<out, software, host, lost>>

(* The debug host connects, or the connection is lost.  The controller     *)
(* keeps its position in the out ring: initialize(true) relies on that.    *)
HwConnect ==
    /\ hw.armed /\ ~hw.run
    /\ hw' = [hw EXCEPT !.run = TRUE]
    /\ UNCHANGED <<out, ev, software, posted, host, lost, ports>>

HwDisconnect ==
    /\ hw.run /\ booted
    /\ lost < MaxDisconnects
    /\ lost' = lost + 1
    /\ hw' = [hw EXCEPT !.run = FALSE, !.rung = FALSE]
    /\ UNCHANGED <<out, ev, software, posted, host, ports>>
-----------------------------------------------------------------------------
PrintSomething == (\E nl \in BOOLEAN : Putc(nl)) \/ (\E n \in 0..OUT_BUF_SIZE : Puts(n))

WriterStep ==
    \/ LockInit \/ WaitDone \/ QueueEnqueue \/ QueueFill \/ QueueCommit
    \/ QueueDoorbell \/ RingAgain

PollerStep == LockReinit \/ InitSetup \/ InitDone

EventStep(t) ==
    LockPoll(t) \/ CheckRunning(t) \/ Scan(t) \/ Drain(t) \/ Ack(t)

HwStep == HwExecute \/ HwLink \/ HwStop \/ HwConnect

Next ==
    \/ PrintSomething
    \/ WriterStep
    \/ Poll
    \/ PollerStep
    \/ \E t \in Thread : EventStep(t)
    \/ HwStep
    \/ HwPortEvent
    \/ HwDisconnect

Spec == Init /\ [][Next]_vars

(* Both threads run, poll() is called regularly as its doc demands, the    *)
(* mutexes do not starve a waiter, the controller works, and a debug host  *)
(* connects whenever it can.  Nothing obliges anyone to print or unplug.   *)
FairSpec ==
    /\ Spec
    /\ WF_vars(WriterStep \/ EventStep("writer"))
    /\ SF_vars(LockInit) /\ SF_vars(LockPoll("writer"))
    /\ WF_vars(Poll)
    /\ WF_vars(PollerStep \/ EventStep("poller"))
    /\ WF_vars(HwExecute \/ HwLink \/ HwStop)
    /\ WF_vars(HwConnect)
-----------------------------------------------------------------------------
(* The types: rings, locks, program counters and controller registers.     *)
TypeOK ==
    /\ out.enq \in 0..OUT_RING_SIZE - 1 /\ out.deq \in 0..OUT_RING_SIZE - 1
    /\ ev.enq \in 0..EVENT_RING_SIZE - 1 /\ ev.deq \in 0..EVENT_RING_SIZE - 1
    /\ init_mtx \in Thread \cup {"none"} /\ poll_mtx \in Thread \cup {"none"}
    /\ buf \in 0..OUT_BUF_SIZE - 1
    /\ \A i \in DOMAIN todo : todo[i] \in 0..OUT_BUF_SIZE
    /\ slot \in 0..OUT_RING_SIZE - 2
    /\ Len(host) <= Len(sent) /\ Len(sent) <= MaxTransfers
    /\ hw.ptr \in 0..OUT_RING_SIZE - 1
    /\ {hw.evptr, hw.erdp} \subseteq 0..EVENT_RING_SIZE - 1
    /\ Len(posted) < EVENT_RING_SIZE

(* What handle_events dequeues is the oldest event the controller posted   *)
(* and the software has not seen, across wraps of the event ring, events   *)
(* posted between scan and drain, and re-initialisation.                   *)
EventsGenuine ==
    \A t \in Thread : pc[t] = "drain" /\ ~empty(ev)
                        => posted # <<>> /\ event = Head(posted)

(* The debug host gets no transfer twice and none out of order, whatever   *)
(* the connection does.                                                    *)
InOrderOnce ==
    \A i, j \in DOMAIN host : i < j => host[i].id < host[j].id

(* "we block until the current request is done": when an entry of the out  *)
(* ring is being filled, the controller has executed all earlier ones.     *)
DoneBeforeNext ==
    pc.writer \in {"fill", "commit"} =>
      (IF is_link(out, hw.ptr) THEN 0 ELSE hw.ptr) = slot

(* "the maximum is actually 64 KiB - 1, because the length field is only   *)
(* 16 bits" (config.hpp:43): every transfer has the length of its string.  *)
TransfersWhole ==
    \A i \in DOMAIN host : host[i].length = sent[host[i].id]

(* Every transfer that was queued reaches the debug host.                  *)
Delivered ==
    \A n \in 1..MaxTransfers :
      n <= Len(sent) ~> \E i \in DOMAIN host : host[i].id = n

(* Printing never hangs: "re-connect if the connection was lost"           *)
(* (console.hpp:47) restores the console for the next writer.              *)
WriteReturns == pc.writer # "idle" ~> pc.writer = "idle"
=============================================================================
