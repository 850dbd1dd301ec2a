-------------------------- MODULE SQSListenerProofs --------------------------
(***************************************************************************)
(* Proofs about the broker listener for every set of messages, pollers,  *)
(* jobs and workers and every bound on failures and early timeouts.       *)
(***************************************************************************)
EXTENDS SQSListener, FiniteSetTheorems, TLAPS

(* A poller inside handleJobAndCleanup works on a well-formed message:   *)
(* parseMessage deleted the poison ones before HandleMessage, and        *)
(* shouldRetry never sends it back without clearing it.  Every batch is  *)
(* finite, a subset of one ReceiveMessages result.                        *)
Handling ==
    /\ \A p \in Pollers : ppc[p] \in {"handle", "delete"} => cur[p] \in Messages \ Poison
    /\ \A p \in Pollers : IsFiniteSet(batch[p])

(* The inductive invariant behind ListenerTypeOK. *)
LInv == ListenerTypeOK /\ Handling

(* The listener starts with every message visible and no poller spawned. *)
LEMMA LInvInit == ListenerInit => LInv
<1> SUFFICES ASSUME ListenerInit PROVE LInv
  OBVIOUS
<1>1. \A p \in Pollers : IsFiniteSet(batch[p]) /\ Cardinality(batch[p]) = 0
  BY FS_EmptySet DEF ListenerInit
<1>2. /\ sqs \in [Messages -> {"visible", "inflight", "deleted"}]
      /\ origin \in [Jobs -> (Messages \ Poison) \cup {NoMsg}]
      /\ running \in BOOLEAN /\ ctxDone \in BOOLEAN
      /\ startPc \in StartPC /\ stopCall \in {"none", "idle", "sent"}
  BY DEF ListenerInit, StartPC
<1>3. /\ ppc \in [Pollers -> PollerPC]
      /\ batch \in [Pollers -> SUBSET Messages]
      /\ cur \in [Pollers -> Messages \cup {NoMsg}]
      /\ \A p \in Pollers : ppc[p] \notin {"handle", "delete"}
  BY DEF ListenerInit, PollerPC
<1>4. early \in 0..MaxEarlyTimeouts
  BY ListenerAssumption DEF ListenerInit
<1>5. QED
  BY <1>1, <1>2, <1>3, <1>4, ListenerAssumption DEF LInv, ListenerTypeOK, Handling
-----------------------------------------------------------------------------
(* Steps of Start, Stop, the environment and the pool. *)

(* A step that changes none of the poller state and no message. *)
LEMMA ControlKeeps ==
    ASSUME LInv,
           UNCHANGED <<sqs, origin, ppc, batch, cur, early>>,
           running' \in BOOLEAN, ctxDone' \in BOOLEAN,
           startPc' \in StartPC, stopCall' \in {"none", "idle", "sent"}
    PROVE  LInv'
BY DEF LInv, ListenerTypeOK, Handling

LEMMA StartStopKeeps ==
    ASSUME LInv, StartBegin \/ Wake \/ Drain \/ ListenerStop \/ CancelCtx
    PROVE  LInv'
<1>1. UNCHANGED <<sqs, origin, ppc, batch, cur, early>>
  BY DEF StartBegin, Wake, Drain, ListenerStop, CancelCtx
<1>2. running' \in BOOLEAN /\ ctxDone' \in BOOLEAN
  BY DEF StartBegin, Wake, Drain, ListenerStop, CancelCtx, LInv, ListenerTypeOK
<1>3. startPc' \in StartPC /\ stopCall' \in {"none", "idle", "sent"}
  BY DEF StartBegin, Wake, Drain, ListenerStop, CancelCtx, LInv, ListenerTypeOK,
         StartPC
<1>4. QED
  BY <1>1, <1>2, <1>3, ControlKeeps

LEMMA SpawnPollersKeeps ==
    ASSUME LInv, SpawnPollers
    PROVE  LInv'
<1>1. ppc' \in [Pollers -> PollerPC] /\ \A p \in Pollers : ppc'[p] = "top"
  BY DEF SpawnPollers, PollerPC
<1>2. startPc' \in StartPC
  BY DEF SpawnPollers, StartPC
<1>3. QED
  BY <1>1, <1>2 DEF SpawnPollers, LInv, ListenerTypeOK, Handling

(* SQS ends a visibility timeout: one message becomes visible again. *)
LEMMA TimeoutKeeps ==
    ASSUME LInv, NEW m \in Messages, VisibilityTimeout(m) \/ EarlyTimeout(m)
    PROVE  LInv'
<1>1. sqs' \in [Messages -> {"visible", "inflight", "deleted"}]
  BY DEF VisibilityTimeout, EarlyTimeout, LInv, ListenerTypeOK
<1>2. early' \in 0..MaxEarlyTimeouts
  BY ListenerAssumption DEF VisibilityTimeout, EarlyTimeout, LInv, ListenerTypeOK
<1>3. QED
  BY <1>1, <1>2 DEF VisibilityTimeout, EarlyTimeout, LInv, ListenerTypeOK, Handling

-----------------------------------------------------------------------------
(* Steps of poller p. *)

(* A poller step that moves only ppc[p] to a place outside handling. *)
LEMMA LoopTopKeeps ==
    ASSUME LInv, NEW p \in Pollers, LoopTop(p)
    PROVE  LInv'
<1>1. ppc' \in [Pollers -> PollerPC] /\ ppc'[p] \notin {"handle", "delete"}
  BY DEF LoopTop, LInv, ListenerTypeOK, PollerPC
<1>2. \A q \in Pollers \ {p} : ppc'[q] = ppc[q]
  BY DEF LoopTop, LInv, ListenerTypeOK
<1>3. QED
  BY <1>1, <1>2 DEF LoopTop, LInv, ListenerTypeOK, Handling

(* ReceiveMessages: a nonempty batch of at most MaxMessages visible      *)
(* messages becomes in flight, or nothing happens.                        *)
LEMMA ReceiveKeeps ==
    ASSUME LInv, NEW p \in Pollers, Receive(p)
    PROVE  LInv'
<1> DEFINE visible == {m \in Messages : sqs[m] = "visible"}
<1>0. ppc[p] = "poll" /\ UNCHANGED <<origin, running, startPc, ctxDone, stopCall,
                                     cur, early>>
  BY DEF Receive
<1>1. CASE \E b \in SUBSET visible :
              /\ b # {}
              /\ Cardinality(b) <= MaxMessages
              /\ sqs' = [m \in Messages |-> IF m \in b THEN "inflight" ELSE sqs[m]]
              /\ batch' = [batch EXCEPT ![p] = b]
              /\ ppc' = [ppc EXCEPT ![p] = "next"]
  <2>1. PICK b \in SUBSET visible :
              /\ Cardinality(b) <= MaxMessages
              /\ sqs' = [m \in Messages |-> IF m \in b THEN "inflight" ELSE sqs[m]]
              /\ batch' = [batch EXCEPT ![p] = b]
              /\ ppc' = [ppc EXCEPT ![p] = "next"]
    BY <1>1
  <2>2. IsFiniteSet(b) /\ b \subseteq Messages
    BY ListenerAssumption, FS_Subset
  <2>3. /\ batch' \in [Pollers -> SUBSET Messages]
        /\ \A q \in Pollers : Cardinality(batch'[q]) <= MaxMessages
        /\ \A q \in Pollers : IsFiniteSet(batch'[q])
    BY <2>1, <2>2 DEF LInv, ListenerTypeOK, Handling
  <2>4. ppc' \in [Pollers -> PollerPC]
        /\ \A q \in Pollers : ppc'[q] \in {"handle", "delete"} => q # p /\ ppc[q] = ppc'[q]
    BY <2>1 DEF LInv, ListenerTypeOK, PollerPC
  <2>5. sqs' \in [Messages -> {"visible", "inflight", "deleted"}]
    BY <2>1 DEF LInv, ListenerTypeOK
  <2>6. QED
    BY <1>0, <2>3, <2>4, <2>5 DEF LInv, ListenerTypeOK, Handling
<1>2. CASE UNCHANGED <<sqs, batch>> /\ ppc' = [ppc EXCEPT ![p] = "top"]
  <2>1. ppc' \in [Pollers -> PollerPC]
        /\ \A q \in Pollers : ppc'[q] \in {"handle", "delete"} => q # p /\ ppc[q] = ppc'[q]
    BY <1>2 DEF LInv, ListenerTypeOK, PollerPC
  <2>2. QED
    BY <1>0, <1>2, <2>1 DEF LInv, ListenerTypeOK, Handling
<1>3. QED
  BY <1>1, <1>2 DEF Receive

(* The rest of a batch, once one message is taken from it, is still a    *)
(* finite set of at most MaxMessages messages.                            *)
LEMMA TakeFromBatch ==
    ASSUME LInv, NEW p \in Pollers, NEW m,
           batch' = [batch EXCEPT ![p] = @ \ {m}]
    PROVE  /\ batch' \in [Pollers -> SUBSET Messages]
           /\ \A q \in Pollers : Cardinality(batch'[q]) <= MaxMessages
           /\ \A q \in Pollers : IsFiniteSet(batch'[q])
<1>1. IsFiniteSet(batch[p]) /\ Cardinality(batch[p]) <= MaxMessages
  BY DEF LInv, ListenerTypeOK, Handling
<1>2. IsFiniteSet(batch[p] \ {m})
      /\ Cardinality(batch[p] \ {m}) <= Cardinality(batch[p])
  BY <1>1, FS_Subset
<1>3. Cardinality(batch[p]) \in Nat /\ Cardinality(batch[p] \ {m}) \in Nat
  BY <1>1, <1>2, FS_CardinalityType
<1>4. Cardinality(batch[p] \ {m}) <= MaxMessages
  BY <1>1, <1>2, <1>3, ListenerAssumption
<1>5. QED
  BY <1>2, <1>4 DEF LInv, ListenerTypeOK, Handling

(* processMessage: the empty rest of a batch, a poison message deleted  *)
(* by parseMessage, or a well-formed message handed to HandleMessage.    *)
LEMMA NextMessageKeeps ==
    ASSUME LInv, NEW p \in Pollers, NextMessage(p)
    PROVE  LInv'
<1>0. ppc[p] = "next" /\ UNCHANGED <<origin, running, startPc, ctxDone, stopCall, early>>
  BY DEF NextMessage
<1>1. CASE batch[p] = {} /\ ppc' = [ppc EXCEPT ![p] = "top"]
           /\ UNCHANGED <<sqs, batch, cur>>
  <2>1. ppc' \in [Pollers -> PollerPC]
        /\ \A q \in Pollers : ppc'[q] \in {"handle", "delete"} => q # p /\ ppc[q] = ppc'[q]
    BY <1>1 DEF LInv, ListenerTypeOK, PollerPC
  <2>2. QED
    BY <1>0, <1>1, <2>1 DEF LInv, ListenerTypeOK, Handling
<1>2. ASSUME NEW m \in batch[p], batch' = [batch EXCEPT ![p] = @ \ {m}],
             m \in Poison, DeleteCall(m), UNCHANGED <<ppc, cur>>
      PROVE  LInv'
  <2>1. m \in Messages
    BY DEF LInv, ListenerTypeOK
  <2>2. sqs' \in [Messages -> {"visible", "inflight", "deleted"}]
    BY <1>2, <2>1 DEF DeleteCall, LInv, ListenerTypeOK
  <2>3. QED
    BY <1>0, <1>2, <2>2, TakeFromBatch DEF LInv, ListenerTypeOK, Handling
<1>3. ASSUME NEW m \in batch[p], batch' = [batch EXCEPT ![p] = @ \ {m}],
             m \notin Poison, cur' = [cur EXCEPT ![p] = m],
             ppc' = [ppc EXCEPT ![p] = "handle"], UNCHANGED sqs
      PROVE  LInv'
  <2>1. m \in Messages \ Poison
    BY <1>3 DEF LInv, ListenerTypeOK
  <2>2. cur' \in [Pollers -> Messages \cup {NoMsg}]
        /\ \A q \in Pollers : ppc'[q] \in {"handle", "delete"} => cur'[q] \in Messages \ Poison
    BY <1>3, <2>1 DEF LInv, ListenerTypeOK, Handling
  <2>3. ppc' \in [Pollers -> PollerPC]
    BY <1>3 DEF LInv, ListenerTypeOK, PollerPC
  <2>4. QED
    BY <1>0, <1>3, <2>2, <2>3, TakeFromBatch DEF LInv, ListenerTypeOK, Handling
<1>4. QED
  BY <1>1, <1>2, <1>3 DEF NextMessage

(* HandleMessage never asks for a retry (the event carries MaxAttempts 0), *)
(* so the poller goes on to delete the message it holds; a job created   *)
(* from it records that well-formed message as its origin.               *)
LEMMA HandleMessageKeeps ==
    ASSUME LInv, NEW p \in Pollers, HandleMessage(p)
    PROVE  LInv'
<1>0. ~ShouldRetry(EventJobAttempts, EventJobMaxAttempts)
  BY DEF ShouldRetry, EventJobAttempts, EventJobMaxAttempts
<1>1. ppc[p] = "handle" /\ ppc' = [ppc EXCEPT ![p] = "delete"] /\ cur' = cur
  BY <1>0 DEF HandleMessage
<1>2. cur[p] \in Messages \ Poison
  BY <1>1 DEF LInv, Handling
<1>3. origin' \in [Jobs -> (Messages \ Poison) \cup {NoMsg}]
  BY <1>2 DEF HandleMessage, LInv, ListenerTypeOK
<1>4. ppc' \in [Pollers -> PollerPC]
  BY <1>1 DEF LInv, ListenerTypeOK, PollerPC
<1>5. UNCHANGED <<sqs, running, startPc, ctxDone, stopCall, batch, early>>
  BY DEF HandleMessage
<1>6. QED
  BY <1>1, <1>2, <1>3, <1>4, <1>5 DEF LInv, ListenerTypeOK, Handling

(* handleJobAndCleanup's deleteMessage and the return to the loop. *)
LEMMA DeleteAfterHandleKeeps ==
    ASSUME LInv, NEW p \in Pollers, DeleteAfterHandle(p)
    PROVE  LInv'
<1>1. ppc[p] = "delete" /\ cur[p] \in Messages
  BY DEF DeleteAfterHandle, LInv, Handling
<1>2. sqs' \in [Messages -> {"visible", "inflight", "deleted"}]
  BY <1>1 DEF DeleteAfterHandle, DeleteCall, LInv, ListenerTypeOK
<1>3. ppc' \in [Pollers -> PollerPC]
      /\ \A q \in Pollers : ppc'[q] \in {"handle", "delete"} => q # p /\ ppc[q] = ppc'[q]
  BY DEF DeleteAfterHandle, LInv, ListenerTypeOK, PollerPC
<1>4. cur' \in [Pollers -> Messages \cup {NoMsg}]
      /\ \A q \in Pollers \ {p} : cur'[q] = cur[q]
  BY DEF DeleteAfterHandle, LInv, ListenerTypeOK
<1>5. UNCHANGED <<origin, running, startPc, ctxDone, stopCall, batch, early>>
  BY DEF DeleteAfterHandle
<1>6. QED
  BY <1>2, <1>3, <1>4, <1>5 DEF LInv, ListenerTypeOK, Handling

-----------------------------------------------------------------------------
(* Every step of the listener, of Start and Stop, of SQS and of the pool *)
(* keeps LInv.                                                              *)
LEMMA LInvStep ==
    ASSUME LInv, [ListenerNext]_allVars
    PROVE  LInv'
<1>1. ASSUME NEW p \in Pollers, PollerStep(p) PROVE LInv'
  BY <1>1, LoopTopKeeps, ReceiveKeeps, NextMessageKeeps, HandleMessageKeeps,
     DeleteAfterHandleKeeps DEF PollerStep
<1>2. CASE StartStep
  BY <1>2, StartStopKeeps, SpawnPollersKeeps DEF StartStep
<1>3. CASE ListenerStop \/ CancelCtx
  BY <1>3, StartStopKeeps
<1>4. ASSUME NEW m \in Messages, VisibilityTimeout(m) \/ EarlyTimeout(m) PROVE LInv'
  BY <1>4, TimeoutKeeps
<1>5. CASE UNCHANGED listenerVars
  BY <1>5 DEF listenerVars, LInv, ListenerTypeOK, Handling
<1>6. CASE UNCHANGED allVars
  BY <1>6, <1>5 DEF allVars
<1>7. QED
  BY <1>1, <1>2, <1>3, <1>4, <1>5, <1>6 DEF ListenerNext

(* ListenerTypeOK holds in every reachable state, for every number of    *)
(* pollers, messages and jobs: a ReceiveMessage batch never exceeds      *)
(* MaxNumberOfMessages as processMessage works through it, and a job's   *)
(* sqs_message_id is always a message that passed validateMessage, since *)
(* parseMessage deletes a poison body before it reaches HandleMessage.   *)
THEOREM ListenerTypeCorrect == ListenerSpec => []ListenerTypeOK
<1>1. LInv => ListenerTypeOK
  BY DEF LInv
<1>2. QED
  BY <1>1, LInvInit, LInvStep, PTL DEF ListenerSpec

====
