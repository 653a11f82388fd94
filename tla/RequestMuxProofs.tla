-------------------------- MODULE RequestMuxProofs --------------------------
(***************************************************************************)
(* The multiplexer's invariants for any number of forwards, readers and    *)
(* bodies.  The argument is ownership: the map, one reader or one          *)
(* canceller owns a channel, and only its owner sends on it or closes it.  *)
(* There is one lemma per action and one step per conjunct of IInv; a step *)
(* cites the conjuncts that it needs of the state before the action.       *)
(***************************************************************************)
EXTENDS RequestMux, TLAPS

USE NoneAssumption
USE DEF IInv, TypeOK, HandlerSteps, Cancelling, Closing, HeldByReader, Held,
        readerVars, handlerVars

(* Nothing is registered, held or closed when the connection opens.        *)
LEMMA InitIInv == Init => IInv
<1> SUFFICES ASSUME Init PROVE IInv
  OBVIOUS
<1>1. TypeOK
  BY DEF Init
<1>2. NoPanic
  BY DEF Init, NoPanic
<1>3. PendingUntouched
  BY DEF Init, PendingUntouched
<1>4. UnregisteredUntouched
  BY DEF Init, UnregisteredUntouched
<1>5. ReaderAlone
  BY DEF Init, ReaderAlone
<1>6. CancellerAlone
  BY DEF Init, CancellerAlone
<1>7. WaitingFed
  BY DEF Init, WaitingFed
<1>8. HandlerCoherent
  BY DEF Init, HandlerCoherent
<1> QED BY <1>1, <1>2, <1>3, <1>4, <1>5, <1>6, <1>7, <1>8

(* A fresh id enters the map: UnregisteredUntouched says that its channel  *)
(* is new.                                                                 *)
LEMMA RegisterStep ==
  ASSUME IInv, NEW r \in Reqs, Register(r)
  PROVE  IInv'
<1>1. TypeOK'
  BY DEF Register
<1>2. NoPanic'
  BY DEF Register, NoPanic
<1>3. PendingUntouched'
  BY DEF Register, PendingUntouched, UnregisteredUntouched, HandlerCoherent
<1>4. UnregisteredUntouched'
  BY DEF Register, UnregisteredUntouched
<1>5. ReaderAlone'
  BY DEF Register, ReaderAlone
<1>6. CancellerAlone'
  BY DEF Register, CancellerAlone
<1>7. WaitingFed'
  BY DEF Register, WaitingFed, UnregisteredUntouched
<1>8. HandlerCoherent'
  BY DEF Register, HandlerCoherent
<1> QED BY <1>1, <1>2, <1>3, <1>4, <1>5, <1>6, <1>7, <1>8

(* Only the program counter moves.                                         *)
LEMMA SendFailsStep ==
  ASSUME IInv, NEW r \in Reqs, SendFails(r)
  PROVE  IInv'
<1>1. TypeOK'
  BY DEF SendFails
<1>2. NoPanic'
  BY DEF SendFails, NoPanic
<1>3. PendingUntouched'
  BY DEF SendFails, PendingUntouched
<1>4. UnregisteredUntouched'
  BY DEF SendFails, UnregisteredUntouched
<1>5. ReaderAlone'
  BY DEF SendFails, ReaderAlone
<1>6. CancellerAlone'
  BY DEF SendFails, CancellerAlone
<1>7. WaitingFed'
  BY DEF SendFails, WaitingFed
<1>8. HandlerCoherent'
  BY DEF SendFails, HandlerCoherent
<1> QED BY <1>1, <1>2, <1>3, <1>4, <1>5, <1>6, <1>7, <1>8

(* A forward whose Send panics leaves its id in the map, too.              *)
LEMMA SendPanicsStep ==
  ASSUME IInv, NEW r \in Reqs, SendPanics(r)
  PROVE  IInv'
<1>1. TypeOK'
  BY DEF SendPanics
<1>2. NoPanic'
  BY DEF SendPanics, NoPanic
<1>3. PendingUntouched'
  BY DEF SendPanics, PendingUntouched
<1>4. UnregisteredUntouched'
  BY DEF SendPanics, UnregisteredUntouched
<1>5. ReaderAlone'
  BY DEF SendPanics, ReaderAlone
<1>6. CancellerAlone'
  BY DEF SendPanics, CancellerAlone
<1>7. WaitingFed'
  BY DEF SendPanics, WaitingFed
<1>8. HandlerCoherent'
  BY DEF SendPanics, HandlerCoherent
<1> QED BY <1>1, <1>2, <1>3, <1>4, <1>5, <1>6, <1>7, <1>8

(* An asynchronous forward leaves its id in the map.                       *)
LEMMA ReturnAsyncStep ==
  ASSUME IInv, NEW r \in Reqs, ReturnAsync(r)
  PROVE  IInv'
<1>1. TypeOK'
  BY DEF ReturnAsync
<1>2. NoPanic'
  BY DEF ReturnAsync, NoPanic
<1>3. PendingUntouched'
  BY DEF ReturnAsync, PendingUntouched
<1>4. UnregisteredUntouched'
  BY DEF ReturnAsync, UnregisteredUntouched
<1>5. ReaderAlone'
  BY DEF ReturnAsync, ReaderAlone
<1>6. CancellerAlone'
  BY DEF ReturnAsync, CancellerAlone
<1>7. WaitingFed'
  BY DEF ReturnAsync, WaitingFed
<1>8. HandlerCoherent'
  BY DEF ReturnAsync, HandlerCoherent
<1> QED BY <1>1, <1>2, <1>3, <1>4, <1>5, <1>6, <1>7, <1>8

(* The timer starts; nothing that is shared changes.                       *)
LEMMA StartWaitStep ==
  ASSUME IInv, NEW r \in Reqs, StartWait(r)
  PROVE  IInv'
<1>1. TypeOK'
  BY DEF StartWait
<1>2. NoPanic'
  BY DEF StartWait, NoPanic
<1>3. PendingUntouched'
  BY DEF StartWait, PendingUntouched
<1>4. UnregisteredUntouched'
  BY DEF StartWait, UnregisteredUntouched
<1>5. ReaderAlone'
  BY DEF StartWait, ReaderAlone
<1>6. CancellerAlone'
  BY DEF StartWait, CancellerAlone
<1>7. WaitingFed'
  BY DEF StartWait, WaitingFed
<1>8. HandlerCoherent'
  BY DEF StartWait, HandlerCoherent
<1> QED BY <1>1, <1>2, <1>3, <1>4, <1>5, <1>6, <1>7, <1>8

(* Only the timer's flag changes.                                          *)
LEMMA TimerFiresStep ==
  ASSUME IInv, NEW r \in Reqs, TimerFires(r)
  PROVE  IInv'
<1>1. TypeOK'
  BY DEF TimerFires
<1>2. NoPanic'
  BY DEF TimerFires, NoPanic
<1>3. PendingUntouched'
  BY DEF TimerFires, PendingUntouched
<1>4. UnregisteredUntouched'
  BY DEF TimerFires, UnregisteredUntouched
<1>5. ReaderAlone'
  BY DEF TimerFires, ReaderAlone
<1>6. CancellerAlone'
  BY DEF TimerFires, CancellerAlone
<1>7. WaitingFed'
  BY DEF TimerFires, WaitingFed
<1>8. HandlerCoherent'
  BY DEF TimerFires, HandlerCoherent
<1> QED BY <1>1, <1>2, <1>3, <1>4, <1>5, <1>6, <1>7, <1>8

(* The handler empties the buffer, of a channel that has left the map.     *)
LEMMA WaitReceivesStep ==
  ASSUME IInv, NEW r \in Reqs, WaitReceives(r)
  PROVE  IInv'
<1>1. TypeOK'
  BY DEF WaitReceives
<1>2. NoPanic'
  BY DEF WaitReceives, NoPanic
<1>3. PendingUntouched'
  BY DEF WaitReceives, PendingUntouched
<1>4. UnregisteredUntouched'
  BY DEF WaitReceives, UnregisteredUntouched
<1>5. ReaderAlone'
  BY DEF WaitReceives, ReaderAlone
<1>6. CancellerAlone'
  BY DEF WaitReceives, CancellerAlone
<1>7. WaitingFed'
  BY DEF WaitReceives, WaitingFed
<1>8. HandlerCoherent'
  BY DEF WaitReceives, HandlerCoherent
<1> QED BY <1>1, <1>2, <1>3, <1>4, <1>5, <1>6, <1>7, <1>8

(* By WaitingFed the channel is not closed and empty, so the timer has     *)
(* fired.                                                                  *)
LEMMA WaitFailsStep ==
  ASSUME IInv, NEW r \in Reqs, WaitFails(r)
  PROVE  IInv'
<1>1. TypeOK'
  BY DEF WaitFails
<1>2. NoPanic'
  BY DEF WaitFails, NoPanic
<1>3. PendingUntouched'
  BY DEF WaitFails, PendingUntouched
<1>4. UnregisteredUntouched'
  BY DEF WaitFails, UnregisteredUntouched
<1>5. ReaderAlone'
  BY DEF WaitFails, ReaderAlone
<1>6. CancellerAlone'
  BY DEF WaitFails, CancellerAlone
<1>7. WaitingFed'
  BY DEF WaitFails, WaitingFed
<1>8. HandlerCoherent'
  BY DEF WaitFails, HandlerCoherent, WaitingFed
<1> QED BY <1>1, <1>2, <1>3, <1>4, <1>5, <1>6, <1>7, <1>8

(* The canceller takes the channel out of the map: no reader holds it.     *)
LEMMA CancelHitStep ==
  ASSUME IInv, NEW r \in Reqs, CancelHit(r)
  PROVE  IInv'
<1>1. TypeOK'
  BY DEF CancelHit
<1>2. NoPanic'
  BY DEF CancelHit, NoPanic
<1>3. PendingUntouched'
  BY DEF CancelHit, PendingUntouched
<1>4. UnregisteredUntouched'
  BY DEF CancelHit, UnregisteredUntouched
<1>5. ReaderAlone'
  BY DEF CancelHit, ReaderAlone, PendingUntouched
<1>6. CancellerAlone'
  BY DEF CancelHit, CancellerAlone, PendingUntouched
<1>7. WaitingFed'
  BY DEF CancelHit, WaitingFed
<1>8. HandlerCoherent'
  BY DEF CancelHit, HandlerCoherent
<1> QED BY <1>1, <1>2, <1>3, <1>4, <1>5, <1>6, <1>7, <1>8

(* The id is gone from the map: Cancel leaves the channel to its owner.    *)
LEMMA CancelMissStep ==
  ASSUME IInv, NEW r \in Reqs, CancelMiss(r)
  PROVE  IInv'
<1>1. TypeOK'
  BY DEF CancelMiss, Finish
<1>2. NoPanic'
  BY DEF CancelMiss, Finish, NoPanic
<1>3. PendingUntouched'
  BY DEF CancelMiss, Finish, PendingUntouched
<1>4. UnregisteredUntouched'
  BY DEF CancelMiss, Finish, UnregisteredUntouched
<1>5. ReaderAlone'
  BY DEF CancelMiss, Finish, ReaderAlone
<1>6. CancellerAlone'
  BY DEF CancelMiss, Finish, CancellerAlone
<1>7. WaitingFed'
  BY DEF CancelMiss, Finish, WaitingFed
<1>8. HandlerCoherent'
  BY DEF CancelMiss, Finish, HandlerCoherent
<1> QED BY <1>1, <1>2, <1>3, <1>4, <1>5, <1>6, <1>7, <1>8

(* The canceller closes a channel that it owns alone.                      *)
LEMMA CancelCloseStep ==
  ASSUME IInv, NEW r \in Reqs, CancelClose(r)
  PROVE  IInv'
<1>1. TypeOK'
  BY DEF CancelClose, Finish, CloseChannel
<1>2. NoPanic'
  BY DEF CancelClose, Finish, CloseChannel, NoPanic, CancellerAlone
<1>3. PendingUntouched'
  BY DEF CancelClose, Finish, CloseChannel, PendingUntouched
<1>4. UnregisteredUntouched'
  BY DEF CancelClose, Finish, CloseChannel, UnregisteredUntouched
<1>5. ReaderAlone'
  BY DEF CancelClose, Finish, CloseChannel, ReaderAlone
<1>6. CancellerAlone'
  BY DEF CancelClose, Finish, CloseChannel, CancellerAlone
<1>7. WaitingFed'
  BY DEF CancelClose, Finish, CloseChannel, WaitingFed
<1>8. HandlerCoherent'
  BY DEF CancelClose, Finish, CloseChannel, HandlerCoherent
<1> QED BY <1>1, <1>2, <1>3, <1>4, <1>5, <1>6, <1>7, <1>8

(* A reader takes the channel out of the map: nobody else holds it.        *)
LEMMA CompleteClaimStep ==
  ASSUME IInv, NEW d \in Readers, NEW r \in Reqs, NEW b \in Bodies, CompleteClaim(d, r, b)
  PROVE  IInv'
<1>1. TypeOK'
  BY DEF CompleteClaim
<1>2. NoPanic'
  BY DEF CompleteClaim, NoPanic
<1>3. PendingUntouched'
  BY DEF CompleteClaim, PendingUntouched
<1>4. UnregisteredUntouched'
  BY DEF CompleteClaim, UnregisteredUntouched, PendingUntouched
<1>5. ReaderAlone'
  BY DEF CompleteClaim, ReaderAlone, PendingUntouched
<1>6. CancellerAlone'
  BY DEF CompleteClaim, CancellerAlone, PendingUntouched
<1>7. WaitingFed'
  BY DEF CompleteClaim, WaitingFed
<1>8. HandlerCoherent'
  BY DEF CompleteClaim, HandlerCoherent
<1> QED BY <1>1, <1>2, <1>3, <1>4, <1>5, <1>6, <1>7, <1>8

(* The reader sends on a channel that it owns alone.                       *)
LEMMA CompleteSendStep ==
  ASSUME IInv, NEW d \in Readers, CompleteSend(d)
  PROVE  IInv'
<1>1. TypeOK'
  BY DEF CompleteSend, TrySend
<1>2. NoPanic'
  BY DEF CompleteSend, TrySend, NoPanic, ReaderAlone
<1>3. PendingUntouched'
  BY DEF CompleteSend, TrySend, PendingUntouched
<1>4. UnregisteredUntouched'
  BY DEF CompleteSend, TrySend, UnregisteredUntouched
<1>5. ReaderAlone'
  BY DEF CompleteSend, TrySend, ReaderAlone
<1>6. CancellerAlone'
  BY DEF CompleteSend, TrySend, CancellerAlone
<1>7. WaitingFed'
  BY DEF CompleteSend, TrySend, WaitingFed, ReaderAlone
<1>8. HandlerCoherent'
  BY DEF CompleteSend, TrySend, HandlerCoherent
<1> QED BY <1>1, <1>2, <1>3, <1>4, <1>5, <1>6, <1>7, <1>8

(* The reader closes it: an id in the map is another one                   *)
(* (PendingUntouched).                                                     *)
LEMMA CompleteCloseStep ==
  ASSUME IInv, NEW d \in Readers, CompleteClose(d)
  PROVE  IInv'
<1>1. TypeOK'
  BY DEF CompleteClose, CloseChannel
<1>2. NoPanic'
  BY DEF CompleteClose, CloseChannel, NoPanic, ReaderAlone
<1>3. PendingUntouched'
  BY DEF CompleteClose, CloseChannel, PendingUntouched
<1>4. UnregisteredUntouched'
  BY DEF CompleteClose, CloseChannel, UnregisteredUntouched
<1>5. ReaderAlone'
  BY DEF CompleteClose, CloseChannel, ReaderAlone
<1>6. CancellerAlone'
  BY DEF CompleteClose, CloseChannel, CancellerAlone
<1>7. WaitingFed'
  BY DEF CompleteClose, CloseChannel, WaitingFed, PendingUntouched,
         ReaderAlone
<1>8. HandlerCoherent'
  BY DEF CompleteClose, CloseChannel, HandlerCoherent
<1> QED BY <1>1, <1>2, <1>3, <1>4, <1>5, <1>6, <1>7, <1>8

(* A step that changes nothing preserves the invariant.                    *)
LEMMA StutterStep == ASSUME IInv, UNCHANGED vars PROVE IInv'
<1> USE DEF vars
<1>1. TypeOK'
  OBVIOUS
<1>2. NoPanic'
  BY DEF NoPanic
<1>3. PendingUntouched'
  BY DEF PendingUntouched
<1>4. UnregisteredUntouched'
  BY DEF UnregisteredUntouched
<1>5. ReaderAlone'
  BY DEF ReaderAlone
<1>6. CancellerAlone'
  BY DEF CancellerAlone
<1>7. WaitingFed'
  BY DEF WaitingFed
<1>8. HandlerCoherent'
  BY DEF HandlerCoherent
<1> QED BY <1>1, <1>2, <1>3, <1>4, <1>5, <1>6, <1>7, <1>8

(* Every step of the relay preserves the ownership invariant.              *)
LEMMA NextIInv == ASSUME IInv, [Next]_vars PROVE IInv'
<1>1. ASSUME NEW r \in Reqs, BeforeWait(r) PROVE IInv'
  BY <1>1, RegisterStep, SendFailsStep, SendPanicsStep, ReturnAsyncStep,
     StartWaitStep DEF BeforeWait
<1>2. ASSUME NEW r \in Reqs, AfterSend(r) PROVE IInv'
  BY <1>2, WaitReceivesStep, WaitFailsStep, CancelHitStep, CancelMissStep,
     CancelCloseStep DEF AfterSend
<1>3. ASSUME NEW r \in Reqs, TimerFires(r) PROVE IInv'
  BY <1>3, TimerFiresStep
<1>4. ASSUME NEW d \in Readers, Reader(d) PROVE IInv'
  BY <1>4, CompleteClaimStep, CompleteSendStep, CompleteCloseStep DEF Reader
<1>5. CASE UNCHANGED vars
  BY <1>5, StutterStep
<1> QED BY <1>1, <1>2, <1>3, <1>4, <1>5 DEF Next

(* In every reachable state of the multiplexer, for any number of forwards *)
(* and readers, each channel has one owner (Complete, Cancel, the map).    *)
THEOREM Invariance == Spec => []IInv
BY InitIInv, NextIInv, PTL DEF Spec

(* The variables of handlers, channels and readers keep their types.       *)
THEOREM TypeCorrect == Spec => []TypeOK
<1>1. IInv => TypeOK
  OBVIOUS
<1> QED BY <1>1, Invariance, PTL

(* No interleaving of Complete, Cancel and Wait closes a channel twice or  *)
(* sends on a closed channel, however many forwards and readers there are. *)
THEOREM NeverPanics == Spec => []NoPanic
<1>1. IInv => NoPanic
  OBVIOUS
<1> QED BY <1>1, Invariance, PTL

(* Complete's non-blocking send never drops the answer that it claimed.    *)
THEOREM AnswersKept == Spec => []ReplyKept
<1>1. IInv => ReplyKept
  BY DEF ReaderAlone, ReplyKept
<1> QED BY <1>1, Invariance, PTL

(* handleMCPForward answers 504 only after Wait's own timer has fired.     *)
THEOREM TimeoutsAreReal == Spec => []OnlyRealTimeouts
<1>1. IInv => OnlyRealTimeouts
  BY DEF HandlerCoherent, OnlyRealTimeouts
<1> QED BY <1>1, Invariance, PTL

(* A finished forward has left nothing in the pending map unless it was    *)
(* asynchronous or its Send panicked.                                      *)
THEOREM NothingLeftPending == Spec => []OnlyAsyncLeaks
<1>1. IInv => OnlyAsyncLeaks
  BY DEF PendingUntouched, HandlerCoherent, OnlyAsyncLeaks
<1> QED BY <1>1, Invariance, PTL

-----------------------------------------------------------------------------
(***************************************************************************)
(* The multiplexer implements ReplyOnce: every step of RequestMux is one   *)
(* step of the one-slot-per-request promise, or changes nothing of it.     *)
(* The critical sections of Complete and Cancel are where a slot is        *)
(* settled; everything they do after the unlock is invisible.              *)
(***************************************************************************)
HIDE DEF Held

(* What a step has to leave alone for the accepted answer of q to stay.    *)
LEMMA AcceptedFrame ==
  ASSUME NEW q \in Reqs,
         reply'[q] = reply[q], buf'[q] = buf[q],
         Held(q)' = Held(q), \A d \in Held(q) : rbody'[d] = rbody[d]
  PROVE  Accepted(q)' = Accepted(q)
<1>1. Held(q) # {} => (CHOOSE d \in Held(q) : TRUE) \in Held(q)
  OBVIOUS
<1>2. (CHOOSE d \in Held(q) : TRUE)' = CHOOSE d \in Held(q)' : TRUE
  OBVIOUS
<1> QED BY <1>1, <1>2 DEF Accepted

(* While a reader holds a claimed answer it has not sent, that is the      *)
(* answer of the slot: nobody else holds the id (ReaderAlone).             *)
LEMMA AcceptedHeld ==
  ASSUME IInv, NEW d \in Readers, rpc[d] = "send"
  PROVE  Accepted(rid[d]) = rbody[d]
<1>1. Held(rid[d]) = {d}
  BY DEF ReaderAlone, Held
<1>2. buf[rid[d]] = None /\ reply[rid[d]] = None
  BY DEF ReaderAlone, Held
<1>3. (CHOOSE e \in {d} : TRUE) = d
  OBVIOUS
<1> QED BY <1>1, <1>2, <1>3 DEF Accepted

(* The slot of an id that is still in the map has no answer.               *)
LEMMA AcceptedPending ==
  ASSUME IInv, NEW r \in pending
  PROVE  Accepted(r) = None
BY DEF Accepted, PendingUntouched, Held

(* Nor has a request that is not registered.                               *)
LEMMA AcceptedUnregistered ==
  ASSUME IInv, NEW r \in Reqs, pc[r] = "start"
  PROVE  Accepted(r) = None
BY DEF Accepted, UnregisteredUntouched, HandlerCoherent, Held

(* What of the promise a step may change for one request q.                *)
Unmoved(q) == /\ SlotOf(q)' = SlotOf(q)
              /\ Accepted(q)' = Accepted(q)
              /\ OutcomeOf(q)' = OutcomeOf(q)
              /\ reply'[q] = reply[q]

(* A step of handler r does not show in the other requests.                *)
LEMMA HandlerFrame ==
  ASSUME IInv, NEW r \in Reqs,
         BeforeWait(r) \/ AfterSend(r) \/ TimerFires(r),
         NEW q \in Reqs, q # r
  PROVE  Unmoved(q)
<1> USE DEF BeforeWait, AfterSend, TimerFires, Register, SendFails,
            SendPanics, ReturnAsync, StartWait, WaitReceives, WaitFails,
            CancelHit, CancelMiss, CancelClose, Finish, CloseChannel
<1>1. /\ reply'[q] = reply[q]
      /\ buf'[q] = buf[q]
      /\ pc'[q] = pc[q]
      /\ status'[q] = status[q]
      /\ q \in pending' <=> q \in pending
  OBVIOUS
<1>2. Accepted(q)' = Accepted(q)
  <2>1. UNCHANGED <<rpc, rid, rbody>>
    OBVIOUS
  <2>2. Held(q)' = Held(q) /\ \A d \in Held(q) : rbody'[d] = rbody[d]
    BY <2>1 DEF Held
  <2> HIDE DEF BeforeWait, AfterSend, TimerFires
  <2> QED BY <1>1, <2>2, AcceptedFrame
<1> QED BY <1>1, <1>2 DEF Unmoved, SlotOf, OutcomeOf

(* From the requests to the variables of ReplyOnce.                        *)
LEMMA StutterFromUnmoved ==
  ASSUME TypeOK, TypeOK', \A q \in Reqs : Unmoved(q)
  PROVE  UNCHANGED Promise!vars
BY DEF Unmoved, Promise!vars

(* Complete after its unlock does not show at all: the send moves the      *)
(* claimed answer into the buffer, the close forgets an answer that has    *)
(* been sent.                                                              *)
LEMMA CompleteSendUnmoved ==
  ASSUME IInv, NEW d \in Readers, CompleteSend(d), NEW q \in Reqs
  PROVE  Unmoved(q)
<1> USE DEF CompleteSend, TrySend
<1>1. rid[d] \in Reqs /\ rbody[d] \in Bodies /\ ~closed[rid[d]]
  BY DEF ReaderAlone
<1>2. CASE q = rid[d]
  <2>1. Accepted(q) = rbody[d]
    BY <1>2, AcceptedHeld
  <2>2. buf'[q] = rbody[d] /\ reply'[q] = None /\ rbody[d] # None
    BY <1>1, <1>2 DEF ReaderAlone
  <2>3. Accepted(q)' = rbody[d]
    BY <2>2 DEF Accepted
  <2> QED BY <2>1, <2>3 DEF Unmoved, SlotOf, OutcomeOf
<1>3. CASE q # rid[d]
  <2>1. Held(q)' = Held(q)
    BY <1>3 DEF Held
  <2>2. buf'[q] = buf[q] /\ reply'[q] = reply[q] /\ rbody' = rbody
    BY <1>1, <1>3
  <2>3. Accepted(q)' = Accepted(q)
    BY <2>1, <2>2, AcceptedFrame
  <2> QED BY <2>3 DEF Unmoved, SlotOf, OutcomeOf
<1> QED BY <1>2, <1>3

LEMMA CompleteCloseUnmoved ==
  ASSUME IInv, NEW d \in Readers, CompleteClose(d), NEW q \in Reqs
  PROVE  Unmoved(q)
<1> USE DEF CompleteClose, CloseChannel
<1>1. Held(q)' = Held(q) /\ \A e \in Held(q) : rbody'[e] = rbody[e]
  BY DEF Held
<1>2. Accepted(q)' = Accepted(q)
  BY <1>1, AcceptedFrame
<1> QED BY <1>2 DEF Unmoved, SlotOf, OutcomeOf

(* Complete's critical section gives the slot its answer.                  *)
LEMMA CompleteClaimAnswers ==
  ASSUME IInv, NEW d \in Readers, NEW r \in Reqs, NEW b \in Bodies,
         CompleteClaim(d, r, b)
  PROVE  Promise!Answer(r, b)
<1> USE DEF CompleteClaim
<1>1. SlotOf(r) = "open" /\ SlotOf(r)' = "answered" /\ Accepted(r)' = b
  <2>1. pc[r] # "start" /\ buf[r] = None /\ reply[r] = None /\ Held(r) = {}
    BY DEF PendingUntouched, Held
  <2>2. Held(r)' = {d} /\ rbody'[d] = b
    BY <2>1 DEF Held
  <2>3. (CHOOSE e \in {d} : TRUE) = d
    OBVIOUS
  <2>4. Accepted(r)' = b
    BY <2>1, <2>2, <2>3 DEF Accepted
  <2> QED BY <2>1, <2>4 DEF SlotOf
<1>2. ASSUME NEW q \in Reqs, q # r
      PROVE  SlotOf(q)' = SlotOf(q) /\ Accepted(q)' = Accepted(q)
  <2>1. Held(q)' = Held(q) /\ \A e \in Held(q) : rbody'[e] = rbody[e]
    BY <1>2 DEF Held
  <2>2. Accepted(q)' = Accepted(q)
    BY <2>1, AcceptedFrame
  <2> QED BY <1>2, <2>2 DEF SlotOf
<1>3. [q \in Reqs |-> OutcomeOf(q)]' = [q \in Reqs |-> OutcomeOf(q)]
  BY DEF OutcomeOf
<1> QED BY <1>1, <1>2, <1>3 DEF Promise!Answer

(* A step of handler r: what it does to the slot and outcome of r.         *)
LEMMA RegisterAnnounces ==
  ASSUME IInv, NEW r \in Reqs, Register(r)
  PROVE  Promise!Announce(r)
<1>1. \A q \in Reqs : q # r => Unmoved(q)
  BY HandlerFrame DEF BeforeWait
<1>2. SlotOf(r) = "unused" /\ SlotOf(r)' = "open"
  BY DEF Register, SlotOf
<1>3. OutcomeOf(r)' = OutcomeOf(r) /\ reply' = reply
  BY DEF Register, OutcomeOf
<1>4. Accepted(r)' = Accepted(r)
  BY AcceptedFrame DEF Register, Held
<1>5. \A q \in Reqs : Accepted(q)' = Accepted(q) /\ OutcomeOf(q)' = OutcomeOf(q)
  BY <1>1, <1>3, <1>4 DEF Unmoved
<1>6. \A q \in Reqs : q # r => SlotOf(q)' = SlotOf(q)
  BY <1>1 DEF Unmoved
<1> QED BY <1>2, <1>3, <1>5, <1>6 DEF Promise!Announce

LEMMA LeavesDetaches ==
  ASSUME IInv, NEW r \in Reqs, ReturnAsync(r) \/ SendPanics(r)
  PROVE  Promise!Detach(r)
<1>1. \A q \in Reqs : q # r => Unmoved(q)
  BY HandlerFrame DEF BeforeWait
<1>2. Accepted(r)' = Accepted(r)
  BY AcceptedFrame DEF ReturnAsync, SendPanics, Held
<1>3. SlotOf(r)' = SlotOf(r)
  BY <1>2 DEF ReturnAsync, SendPanics, SlotOf
<1>4. SlotOf(r) \in {"open", "answered"}
  <2>1. CASE r \in pending
    BY <2>1 DEF SlotOf, ReturnAsync, SendPanics
  <2>2. CASE r \notin pending /\ buf[r] # None
    BY <2>2 DEF SlotOf, Accepted, ReturnAsync, SendPanics
  <2>3. CASE r \notin pending /\ buf[r] = None
    <3>1. PICK d \in Held(r) : TRUE
      BY <2>3 DEF WaitingFed, ReturnAsync, SendPanics
    <3>2. Accepted(r) = rbody[d] /\ rbody[d] # None
      BY <3>1, AcceptedHeld DEF Held, ReaderAlone
    <3> QED BY <2>3, <3>2 DEF SlotOf, ReturnAsync, SendPanics
  <2> QED BY <2>1, <2>2, <2>3
<1>5. OutcomeOf(r) = "undecided" /\ OutcomeOf(r)' = "detached"
  BY DEF ReturnAsync, SendPanics, OutcomeOf, HandlerCoherent
<1>6. reply' = reply
  BY DEF ReturnAsync, SendPanics
<1> QED BY <1>1, <1>2, <1>3, <1>4, <1>5, <1>6 DEF Unmoved, Promise!Detach

LEMMA WaitReceivesTakes ==
  ASSUME IInv, NEW r \in Reqs, WaitReceives(r)
  PROVE  Promise!Take(r)
<1>1. \A q \in Reqs : q # r => Unmoved(q)
  BY HandlerFrame DEF AfterSend
<1>2. reply[r] = None /\ r \notin pending /\ buf[r] # None
  BY DEF WaitReceives, HandlerCoherent, PendingUntouched
<1>3. Accepted(r) = buf[r] /\ SlotOf(r) = "answered"
  BY <1>2 DEF Accepted, SlotOf, WaitReceives
<1>4. reply' = [reply EXCEPT ![r] = buf[r]] /\ Accepted(r)' = buf[r]
  BY <1>2 DEF Accepted, WaitReceives
<1>5. SlotOf(r)' = "answered"
  BY <1>2, <1>4 DEF SlotOf, WaitReceives
<1>6. OutcomeOf(r) = "undecided" /\ OutcomeOf(r)' = "taken"
  BY DEF WaitReceives, OutcomeOf, HandlerCoherent
<1>7. \A q \in Reqs : SlotOf(q)' = SlotOf(q) /\ Accepted(q)' = Accepted(q)
  BY <1>1, <1>3, <1>4, <1>5 DEF Unmoved
<1>8. \A q \in Reqs : q # r => OutcomeOf(q)' = OutcomeOf(q)
  BY <1>1 DEF Unmoved
<1> QED BY <1>3, <1>4, <1>6, <1>7, <1>8 DEF Promise!Take

LEMMA CancelHitRevokes ==
  ASSUME IInv, NEW r \in Reqs, CancelHit(r)
  PROVE  Promise!Revoke(r)
<1>1. \A q \in Reqs : q # r => Unmoved(q)
  BY HandlerFrame DEF AfterSend
<1>2. Accepted(r) = None
  BY AcceptedPending DEF CancelHit
<1>3. Accepted(r)' = Accepted(r)
  BY AcceptedFrame DEF CancelHit, Held
<1>4. SlotOf(r) = "open" /\ SlotOf(r)' = "revoked"
  BY <1>2, <1>3 DEF SlotOf, CancelHit
<1>5. OutcomeOf(r) = "undecided" /\ OutcomeOf(r)' = OutcomeOf(r) /\ reply' = reply
  BY DEF CancelHit, OutcomeOf, HandlerCoherent
<1> QED BY <1>1, <1>3, <1>4, <1>5 DEF Unmoved, Promise!Revoke

LEMMA CancelEndsGivesUp ==
  ASSUME IInv, NEW r \in Reqs, CancelMiss(r) \/ CancelClose(r)
  PROVE  Promise!GiveUp(r)
<1> USE DEF CancelMiss, CancelClose, Finish, CloseChannel
<1>1. \A q \in Reqs : q # r => Unmoved(q)
  BY HandlerFrame DEF AfterSend
<1>2. Accepted(r)' = Accepted(r)
  BY AcceptedFrame DEF Held
<1>3. r \notin pending
  BY DEF PendingUntouched
<1>4. SlotOf(r)' = SlotOf(r) /\ SlotOf(r) \in {"answered", "revoked"}
  BY <1>2, <1>3 DEF SlotOf
<1>5. OutcomeOf(r) = "undecided" /\ OutcomeOf(r)' = "gaveUp" /\ reply' = reply
  BY DEF OutcomeOf, HandlerCoherent
<1>6. \A q \in Reqs : SlotOf(q)' = SlotOf(q) /\ Accepted(q)' = Accepted(q)
  BY <1>1, <1>2, <1>4 DEF Unmoved
<1>7. \A q \in Reqs : q # r => OutcomeOf(q)' = OutcomeOf(q)
  BY <1>1 DEF Unmoved
<1> HIDE DEF CancelMiss, CancelClose, Finish, CloseChannel
<1> QED BY <1>4, <1>5, <1>6, <1>7 DEF Promise!GiveUp

(* The steps of a handler that the promise does not see.                   *)
LEMMA HandlerUnmoved ==
  ASSUME IInv, NEW r \in Reqs, NEW q \in Reqs,
         SendFails(r) \/ StartWait(r) \/ TimerFires(r) \/ WaitFails(r)
  PROVE  Unmoved(q)
<1>1. Accepted(q)' = Accepted(q)
  BY AcceptedFrame DEF SendFails, StartWait, TimerFires, WaitFails, Held
<1> QED BY <1>1 DEF SendFails, StartWait, TimerFires, WaitFails, Unmoved,
                    SlotOf, OutcomeOf

LEMMA RefinementInit == Init => Promise!Init
<1> SUFFICES ASSUME Init PROVE Promise!Init
  OBVIOUS
<1>1. \A r \in Reqs : SlotOf(r) = "unused" /\ Accepted(r) = None
                      /\ OutcomeOf(r) = "undecided"
  BY DEF Init, SlotOf, Accepted, OutcomeOf, Held
<1> QED BY <1>1 DEF Init, Promise!Init

LEMMA RefinementStep ==
  ASSUME IInv, IInv', [Next]_vars
  PROVE  [Promise!Next]_(Promise!vars)
<1>1. ASSUME NEW r \in Reqs, BeforeWait(r) PROVE [Promise!Next]_(Promise!vars)
  <2>1. CASE Register(r)
    BY <2>1, RegisterAnnounces DEF Promise!Next
  <2>2. CASE SendFails(r) \/ StartWait(r)
    BY <2>2, HandlerUnmoved, StutterFromUnmoved
  <2>3. CASE ReturnAsync(r) \/ SendPanics(r)
    BY <2>3, LeavesDetaches DEF Promise!Next
  <2> QED BY <1>1, <2>1, <2>2, <2>3 DEF BeforeWait
<1>2. ASSUME NEW r \in Reqs, AfterSend(r) PROVE [Promise!Next]_(Promise!vars)
  <2>1. CASE WaitReceives(r)
    BY <2>1, WaitReceivesTakes DEF Promise!Next
  <2>2. CASE WaitFails(r)
    BY <2>2, HandlerUnmoved, StutterFromUnmoved
  <2>3. CASE CancelHit(r)
    BY <2>3, CancelHitRevokes DEF Promise!Next
  <2>4. CASE CancelMiss(r) \/ CancelClose(r)
    BY <2>4, CancelEndsGivesUp DEF Promise!Next
  <2> QED BY <1>2, <2>1, <2>2, <2>3, <2>4 DEF AfterSend
<1>3. ASSUME NEW r \in Reqs, TimerFires(r) PROVE [Promise!Next]_(Promise!vars)
  BY <1>3, HandlerUnmoved, StutterFromUnmoved
<1>4. ASSUME NEW d \in Readers, Reader(d) PROVE [Promise!Next]_(Promise!vars)
  <2>1. ASSUME NEW r \in Reqs, NEW b \in Bodies, CompleteClaim(d, r, b)
        PROVE  Promise!Next
    BY <2>1, CompleteClaimAnswers DEF Promise!Next
  <2>2. CASE CompleteSend(d)
    BY <2>2, CompleteSendUnmoved, StutterFromUnmoved
  <2>3. CASE CompleteClose(d)
    BY <2>3, CompleteCloseUnmoved, StutterFromUnmoved
  <2> QED BY <1>4, <2>1, <2>2, <2>3 DEF Reader
<1>5. CASE UNCHANGED vars
  BY <1>5 DEF vars, Promise!vars, SlotOf, Accepted, OutcomeOf, Held
<1> QED BY <1>1, <1>2, <1>3, <1>4, <1>5 DEF Next

(* The multiplexer, Complete and Cancel preempted anywhere, gives every    *)
(* forward the first answer accepted for its id, or none, and never both   *)
(* an answer and a revocation.                                             *)
THEOREM Refinement == Spec => ImplementsReplyOnce
<1>1. Init => Promise!Init
  BY RefinementInit
<1>2. IInv /\ IInv' /\ [Next]_vars => [Promise!Next]_(Promise!vars)
  BY RefinementStep
<1> QED BY <1>1, <1>2, Invariance, PTL DEF Spec, ImplementsReplyOnce, Promise!Spec
==============================================================================
