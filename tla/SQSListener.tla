----------------------------- MODULE SQSListener -----------------------------
(***************************************************************************)
(* The SQS broker listener (app/pkg/sqs/listener.go) composed with the    *)
(* job lifecycle.                                                           *)
(*                                                                         *)
(* Listener.Start sets running, spawns one runWorker goroutine per queue  *)
(* and worker index (the pollers), and waits for ctx.Done or a value on   *)
(* the unbuffered stopCh.  Each poller loops:                              *)
(*   - check running and ctx;                                              *)
(*   - ReceiveMessages (up to MaxMessages; each becomes in flight);        *)
(*   - for each message of the batch, processMessage:                     *)
(*     - a message that does not parse or validate is deleted;            *)
(*     - otherwise JobManagerBridge.HandleMessage calls                    *)
(*       JobManager.CreateJob, the same CreateJob as JobLifecycle's;       *)
(*     - then handleJobAndCleanup deletes the message, unless              *)
(*       shouldRetry(eventJob, err) says to leave it for redelivery.       *)
(* The pool's workers settle the jobs created this way.                   *)
(*                                                                         *)
(* SQS itself is a map from messages to visible / inflight / deleted.     *)
(* An in-flight message becomes visible again when its visibility         *)
(* timeout ends.  A poller still working on the message may race that     *)
(* timeout; such early timeouts are bounded by MaxEarlyTimeouts.           *)
(*                                                                         *)
(* Abstractions:                                                            *)
(* - A message is a model value.  Poison is the set of bodies that fail   *)
(*   json.Unmarshal, validateMessage or convertPayloadToMap.               *)
(* - The job's payload is reduced to its _sqs_metadata.sqs_message_id,    *)
(*   the variable origin.                                                   *)
(* - A call failing because ctx was cancelled is one of the bounded        *)
(*   faults.                                                                *)
(***************************************************************************)
EXTENDS JobLifecycle

CONSTANTS
    Messages,         \* messages published to the queue
    Poison,           \* the ones whose body is rejected
    Pollers,          \* runWorker goroutines: queue URLs x WorkerCount
    NoMsg,            \* no message
    MaxMessages,      \* config Polling.MaxMessages
    MaxEarlyTimeouts  \* bound on visibility timeouts during processing

ASSUME ListenerAssumption ==
    /\ IsFiniteSet(Messages)
    /\ Poison \subseteq Messages
    /\ NoMsg \notin Messages
    /\ MaxMessages \in Nat \ {0}
    /\ MaxEarlyTimeouts \in Nat

(* Where a runWorker goroutine is.  "off": not spawned yet; "top": loop   *)
(* top; "poll": before ReceiveMessages; "next": pollMessages' loop over   *)
(* the batch; "handle": before HandleMessage; "delete": before            *)
(* handleJobAndCleanup's deleteMessage; "exited": returned.               *)
PollerPC == {"off", "top", "poll", "next", "handle", "delete", "exited"}

(* Where Listener.Start is.  "spawn": running set, workers not yet       *)
(* spawned; "select": waiting on ctx.Done and stopCh; "woken": a stop    *)
(* value was received; "drain": waiting (30s at most) for the workers.    *)
StartPC == {"init", "spawn", "select", "woken", "drain", "done"}

VARIABLES
    sqs,        \* [Messages -> {"visible", "inflight", "deleted"}]
    origin,     \* [Jobs -> Messages \cup {NoMsg}]: the job's sqs_message_id
    running,    \* Listener.running
    startPc,    \* Listener.Start's place
    ctxDone,    \* the root context passed to Start has been cancelled
    stopCall,   \* "none", "idle" (Stop saw running = false) or "sent"
    ppc,        \* [Pollers -> PollerPC]
    batch,      \* [Pollers -> SUBSET Messages]: the rest of the batch
    cur,        \* [Pollers -> Messages \cup {NoMsg}]: processMessage's message
    early       \* visibility timeouts so far of a message being processed

listenerVars == <<sqs, origin, running, startPc, ctxDone, stopCall, ppc,
                  batch, cur, early>>
allVars == <<vars, listenerVars>>

-----------------------------------------------------------------------------
(* Helpers *)

(* A message a poller is working on. *)
Held(m) == \E p \in Pollers : m \in batch[p] \/ cur[p] = m

(* deleteMessage: DeleteMessage on the message's receipt handle; the      *)
(* error is logged and returned.                                           *)
DeleteCall(m) ==
    \/ /\ sqs' = [sqs EXCEPT ![m] = "deleted"]
       /\ UNCHANGED faults
    \/ /\ Fault
       /\ UNCHANGED sqs

(* shouldRetry: no attempts left, or a non-retryable error string, means *)
(* no retry.  HandleMessage's errors are wrapped ("failed to create job  *)
(* via job manager: ..."), so none is one of the three strings.           *)
ShouldRetry(attempts, maxAttempts) == attempts < maxAttempts

(* createJobFromMessage builds entity.Job{Type, Payload}: Attempts and    *)
(* MaxAttempts are 0, and HandleMessage passes MaxAttempts 0 on.           *)
EventJobAttempts == 0
EventJobMaxAttempts == 0

-----------------------------------------------------------------------------
(* Poller p (runWorker, pollMessages, processMessage) *)

(* runWorker's loop top: return when running is false or ctx is done. *)
LoopTop(p) ==
    /\ ppc[p] = "top"
    /\ ppc' = [ppc EXCEPT ![p] = IF running /\ ~ctxDone THEN "poll" ELSE "exited"]
    /\ UNCHANGED <<sqs, origin, running, startPc, ctxDone, stopCall, batch, cur,
                   early>>
    /\ UNCHANGED vars

(* pollMessages: ReceiveMessages.  A long poll returns visible messages  *)
(* when there are some, and none otherwise.  An error pauses the worker  *)
(* for PollingInterval and loops.                                          *)
Receive(p) ==
    LET visible == {m \in Messages : sqs[m] = "visible"}
    IN /\ ppc[p] = "poll"
       /\ \/ \E b \in SUBSET visible :
                /\ b # {}
                /\ Cardinality(b) <= MaxMessages
                /\ sqs' = [m \in Messages |-> IF m \in b THEN "inflight" ELSE sqs[m]]
                /\ batch' = [batch EXCEPT ![p] = b]
                /\ ppc' = [ppc EXCEPT ![p] = "next"]
                /\ UNCHANGED faults
          \/ /\ visible = {}
             /\ ppc' = [ppc EXCEPT ![p] = "top"]
             /\ UNCHANGED <<sqs, batch, faults>>
          \/ /\ Fault
             /\ ppc' = [ppc EXCEPT ![p] = "top"]
             /\ UNCHANGED <<sqs, batch>>
       /\ UNCHANGED <<origin, running, startPc, ctxDone, stopCall, cur, early>>
       /\ UNCHANGED <<db, queue, processingSet, retrySchedule, pc, held, stats,
                      cancelled, crashes>>

(* Mutation: processMessage without validateMessage, so a body missing  *)
(* its type or payload is handed to HandleMessage. *)
NextMessageNoValidate(p) ==
    /\ ppc[p] = "next"
    /\ \/ /\ batch[p] = {}
          /\ ppc' = [ppc EXCEPT ![p] = "top"]
          /\ UNCHANGED <<sqs, batch, cur, faults>>
       \/ \E m \in batch[p] :
             /\ batch' = [batch EXCEPT ![p] = @ \ {m}]
             /\ cur' = [cur EXCEPT ![p] = m]
             /\ ppc' = [ppc EXCEPT ![p] = "handle"]
             /\ UNCHANGED <<sqs, faults>>
    /\ UNCHANGED <<origin, running, startPc, ctxDone, stopCall, early>>
    /\ UNCHANGED <<db, queue, processingSet, retrySchedule, pc, held, stats,
                   cancelled, crashes>>

(* pollMessages' loop: processMessage on the next message of the batch.  *)
(* parseMessage deletes a poison message and returns an error, which is *)
(* logged.  An empty rest of the batch returns to the loop top.           *)
NextMessage(p) ==
    /\ ppc[p] = "next"
    /\ \/ /\ batch[p] = {}
          /\ ppc' = [ppc EXCEPT ![p] = "top"]
          /\ UNCHANGED <<sqs, batch, cur, faults>>
       \/ \E m \in batch[p] :
             /\ batch' = [batch EXCEPT ![p] = @ \ {m}]
             /\ IF m \in Poison
                   THEN /\ DeleteCall(m)
                        /\ UNCHANGED <<ppc, cur>>
                   ELSE /\ cur' = [cur EXCEPT ![p] = m]
                        /\ ppc' = [ppc EXCEPT ![p] = "handle"]
                        /\ UNCHANGED <<sqs, faults>>
    /\ UNCHANGED <<origin, running, startPc, ctxDone, stopCall, early>>
    /\ UNCHANGED <<db, queue, processingSet, retrySchedule, pc, held, stats,
                   cancelled, crashes>>

(* JobManagerBridge.HandleMessage: JobManager.CreateJob with the event's *)
(* MaxAttempts (0).  CreateJob writes the row and LPUSHes it, or fails at *)
(* Enqueue after the row is written; the row's payload carries the       *)
(* message id.  A failed Create writes nothing.  On any error,            *)
(* handleJobAndCleanup asks shouldRetry whether to leave the message for *)
(* SQS to redeliver; otherwise it goes on to delete it.                   *)
HandleMessage(p) ==
    LET m == cur[p]
        failed == faults' # faults
        retry == failed /\ ShouldRetry(EventJobAttempts, EventJobMaxAttempts)
    IN /\ ppc[p] = "handle"
       /\ \/ \E j \in Jobs :
                /\ CreateJob(j, EventJobMaxAttempts)
                /\ origin' = [origin EXCEPT ![j] = m]
          \/ /\ Fault
             /\ UNCHANGED <<db, queue, origin>>
             /\ UNCHANGED <<processingSet, retrySchedule, pc, held, stats,
                            cancelled, crashes>>
       /\ ppc' = [ppc EXCEPT ![p] = IF retry THEN "next" ELSE "delete"]
       /\ cur' = IF retry THEN [cur EXCEPT ![p] = NoMsg] ELSE cur
       /\ UNCHANGED <<sqs, running, startPc, ctxDone, stopCall, batch, early>>

(* Mutation: handleJobAndCleanup returns without deleteMessage. *)
DeleteAfterHandleSkipped(p) ==
    /\ ppc[p] = "delete"
    /\ cur' = [cur EXCEPT ![p] = NoMsg]
    /\ ppc' = [ppc EXCEPT ![p] = "next"]
    /\ UNCHANGED <<sqs, origin, running, startPc, ctxDone, stopCall, batch, early>>
    /\ UNCHANGED vars

(* handleJobAndCleanup's deleteMessage, after success or after a failure *)
(* shouldRetry refused; a failed delete is logged and returned.           *)
DeleteAfterHandle(p) ==
    /\ ppc[p] = "delete"
    /\ DeleteCall(cur[p])
    /\ cur' = [cur EXCEPT ![p] = NoMsg]
    /\ ppc' = [ppc EXCEPT ![p] = "next"]
    /\ UNCHANGED <<origin, running, startPc, ctxDone, stopCall, batch, early>>
    /\ UNCHANGED <<db, queue, processingSet, retrySchedule, pc, held, stats,
                   cancelled, crashes>>

-----------------------------------------------------------------------------
(* Listener.Start, Listener.Stop and the environment *)

(* Start: running := true under the lock. *)
StartBegin ==
    /\ startPc = "init"
    /\ ~running
    /\ running' = TRUE
    /\ startPc' = "spawn"
    /\ UNCHANGED <<sqs, origin, ctxDone, stopCall, ppc, batch, cur, early>>
    /\ UNCHANGED vars

(* Start: spawn the runWorker goroutines, then block in the select. *)
SpawnPollers ==
    /\ startPc = "spawn"
    /\ ppc' = [p \in Pollers |-> "top"]
    /\ startPc' = "select"
    /\ UNCHANGED <<sqs, origin, running, ctxDone, stopCall, batch, cur, early>>
    /\ UNCHANGED vars

(* Start: the select returns on ctx.Done or a received stop value; then *)
(* running := false under the lock. *)
Wake ==
    /\ \/ startPc = "select" /\ ctxDone
       \/ startPc = "woken"
    /\ running' = FALSE
    /\ startPc' = "drain"
    /\ UNCHANGED <<sqs, origin, ctxDone, stopCall, ppc, batch, cur, early>>
    /\ UNCHANGED vars

(* Start: wg.Wait or the 30-second timer, whichever comes first; Start   *)
(* returns nil either way, with the pollers possibly still running.       *)
Drain ==
    /\ startPc = "drain"
    /\ startPc' = "done"
    /\ UNCHANGED <<sqs, origin, running, ctxDone, stopCall, ppc, batch, cur, early>>
    /\ UNCHANGED vars

(* Listener.Stop (also SQSListenerService.Stop and the service's         *)
(* shutdown): read running under RLock; if set, a non-blocking send on   *)
(* the unbuffered stopCh, received only if Start is blocked in its select *)
(* at that moment and dropped otherwise.  Stop returns nil in all cases.  *)
ListenerStop ==
    /\ stopCall = "none"
    /\ IF running
          THEN /\ stopCall' = "sent"
               /\ startPc' = IF startPc = "select" THEN "woken" ELSE startPc
          ELSE /\ stopCall' = "idle"
               /\ UNCHANGED startPc
    /\ UNCHANGED <<sqs, origin, running, ctxDone, ppc, batch, cur, early>>
    /\ UNCHANGED vars

(* The root context given to Start is cancelled (process shutdown). *)
CancelCtx ==
    /\ ~ctxDone
    /\ ctxDone' = TRUE
    /\ UNCHANGED <<sqs, origin, running, startPc, stopCall, ppc, batch, cur, early>>
    /\ UNCHANGED vars

(* SQS: the visibility timeout of an in-flight message nobody works on   *)
(* ends, and the message is visible again. *)
VisibilityTimeout(m) ==
    /\ sqs[m] = "inflight"
    /\ ~Held(m)
    /\ sqs' = [sqs EXCEPT ![m] = "visible"]
    /\ UNCHANGED <<origin, running, startPc, ctxDone, stopCall, ppc, batch, cur, early>>
    /\ UNCHANGED vars

(* SQS: the visibility timeout ends while a poller still works on the    *)
(* message (VisibilityTimeoutSeconds shorter than the processing). *)
EarlyTimeout(m) ==
    /\ sqs[m] = "inflight"
    /\ Held(m)
    /\ early < MaxEarlyTimeouts
    /\ early' = early + 1
    /\ sqs' = [sqs EXCEPT ![m] = "visible"]
    /\ UNCHANGED <<origin, running, startPc, ctxDone, stopCall, ppc, batch, cur>>
    /\ UNCHANGED vars

-----------------------------------------------------------------------------

ListenerInit ==
    /\ Init
    /\ sqs = [m \in Messages |-> "visible"]
    /\ origin = [j \in Jobs |-> NoMsg]
    /\ running = FALSE
    /\ startPc = "init"
    /\ ctxDone = FALSE
    /\ stopCall = "none"
    /\ ppc = [p \in Pollers |-> "off"]
    /\ batch = [p \in Pollers |-> {}]
    /\ cur = [p \in Pollers |-> NoMsg]
    /\ early = 0

(* Every step of poller p. *)
PollerStep(p) ==
    \/ LoopTop(p)
    \/ Receive(p)
    \/ NextMessage(p)
    \/ HandleMessage(p)
    \/ DeleteAfterHandle(p)

(* Every step of the goroutine running Listener.Start. *)
StartStep == StartBegin \/ SpawnPollers \/ Wake \/ Drain

(* Jobs enter only through the listener; the pool's workers run as in    *)
(* JobLifecycle. *)
ListenerNext ==
    \/ \E p \in Pollers : PollerStep(p)
    \/ StartStep
    \/ ListenerStop
    \/ CancelCtx
    \/ \E m \in Messages : VisibilityTimeout(m) \/ EarlyTimeout(m)
    \/ \E w \in Workers : WorkerStep(w) /\ UNCHANGED listenerVars

(* The Go scheduler runs every goroutine: the pool's workers, the       *)
(* pollers and Start.  SQS ends every visibility timeout.  Stop,         *)
(* cancellation and early timeouts are the environment's choice.          *)
ListenerFairness ==
    /\ Fairness
    /\ \A p \in Pollers : WF_allVars(PollerStep(p))
    /\ WF_allVars(StartStep)
    /\ \A m \in Messages : WF_allVars(VisibilityTimeout(m))

ListenerSpec == ListenerInit /\ [][ListenerNext]_allVars /\ ListenerFairness

-----------------------------------------------------------------------------
(* Properties *)

(* Every listener variable holds a value of its type; a received batch  *)
(* is at most MaxMessages long, and no poison body becomes a job.         *)
ListenerTypeOK ==
    /\ sqs \in [Messages -> {"visible", "inflight", "deleted"}]
    /\ origin \in [Jobs -> (Messages \ Poison) \cup {NoMsg}]
    /\ running \in BOOLEAN
    /\ startPc \in StartPC
    /\ ctxDone \in BOOLEAN
    /\ stopCall \in {"none", "idle", "sent"}
    /\ ppc \in [Pollers -> PollerPC]
    /\ batch \in [Pollers -> SUBSET Messages]
    /\ \A p \in Pollers : Cardinality(batch[p]) <= MaxMessages
    /\ cur \in [Pollers -> Messages \cup {NoMsg}]
    /\ early \in 0..MaxEarlyTimeouts

(* Spec 4.8 step 3: a message is acknowledged (deleted) only once its    *)
(* event has been admitted as a job; on a retryable error it is left for *)
(* SQS to redeliver.  So every deleted well-formed message has a job.     *)
AckedMessageHasJob ==
    \A m \in Messages \ Poison :
        sqs[m] = "deleted" => \E j \in Jobs : origin[j] = m

(* Spec section 8 property 4: a redelivered message whose job already    *)
(* COMPLETED produces no second COMPLETED job.                            *)
AtMostOneCompletionPerMessage ==
    \A m \in Messages :
        Cardinality({j \in Jobs : origin[j] = m /\ db[j].status = "completed"}) <= 1

(* While the listener runs, every published message is eventually       *)
(* deleted: either its job was created, or it was poison, or an error   *)
(* was not worth a retry.  A failed delete leaves the message in flight  *)
(* until its visibility timeout, and it is processed again.               *)
MessageEventuallyAcked ==
    \A m \in Messages :
        (running /\ sqs[m] # "deleted") ~> (sqs[m] = "deleted" \/ ~running)

(* After Stop has seen the listener running and signalled it, the        *)
(* listener eventually stops: running becomes false and the pollers      *)
(* leave their loops.                                                      *)
StopTakesEffect ==
    stopCall = "sent" ~> ~running

=============================================================================
