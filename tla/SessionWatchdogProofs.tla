------------------------ MODULE SessionWatchdogProofs -----------------------
(***************************************************************************)
(* The watchdogs of a session work for it, one at a time, and exit once    *)
(* they are no longer wanted, for every number of goroutines and attempts. *)
(***************************************************************************)
EXTENDS MCSession, SessionProofs

(* live(w), of any record of the goroutines.                               *)
open(dogs, w) == dogs[w].pc # "none" /\ ~dogs[w].closed

superseded(dogs) == \A w \in Watchdog : ~open(dogs, w)

(* Only one goroutine has an open channel, the current one.  One that is   *)
(* sending has it, for sendMu kept the handlers from replacing it, and so  *)
(* does one that goes on with a key package of the current client.         *)
DogsInv(dogs, ready) ==
  /\ \A w1, w2 \in Watchdog : open(dogs, w1) /\ open(dogs, w2) => w1 = w2
  /\ \A w \in Watchdog :
       /\ open(dogs, w) => ~ready
       /\ dogs[w].pc \in {"invalidSend", "kpSend"} => ~dogs[w].closed
       /\ dogs[w].pc \in {"attempt", "kpSend", "backoff"} /\ ~dogs[w].closed
            => dogs[w].kp = "current"

unconfirmed == pendingEpoch # Nil /\ pendingCommitBytes

watchesCommit(dogs) ==
  \E w \in Watchdog :
    /\ dogs[w].kind = "commit"
    /\ dogs[w].pc \in {"waiting", "fired", "invalidSend"}
    /\ ~dogs[w].closed

(* From its send on, a commit has a watchdog of its own until it is        *)
(* confirmed or rolled back.  The handlers that arm another one leave no   *)
(* commit unconfirmed.                                                     *)
WatchInv ==
  /\ DogsInv(watchdogs, epochReady)
  /\ sending = "recoverKpSend" => superseded(watchdogs) /\ ~epochReady
  /\ sending \in {"resetKpSend", "soleKpSend", "createKpSend", "drain", "readySend",
                  "invalidSend", "recoverKpSend"} => ~unconfirmed
  /\ unconfirmed /\ ~shutdown /\ sending \notin {"commitSend", "drainCommitSend"}
       => watchesCommit(watchdogs)

(* While the call stays E2EE, nothing is queued without an epoch pending   *)
(* but in the handlers about to empty the queue, and a session without a   *)
(* group is on its way to one: a key package is out or going out, or       *)
(* somebody is watching.                                                   *)
keyPackageToCome == {"resetKpSend", "soleKpSend", "createKpSend", "invalidSend", "recoverKpSend"}

E2EEInv ==
  /\ protocolVersion # 0
  /\ proposalQueue # <<>> => pendingEpoch # Nil \/ sending \in {"drain", "invalidSend"}
  /\ sending = "commitSend" => proposalQueue = <<>>
  /\ \A w \in Watchdog : open(watchdogs, w) /\ watchdogs[w].kind = "commit" => group # Nil
  /\ group = Nil /\ ~pendingKeyPackage /\ ~shutdown
       => \/ sending \in keyPackageToCome
          \/ ~superseded(watchdogs)
          \/ recoveryAttempts >= MaxRecoveryAttempts

-----------------------------------------------------------------------------
(* The goroutines on epochReady.                                           *)
noSender(dogs) == \A w \in Watchdog : dogs[w].pc \notin {"invalidSend", "kpSend"}

(* live(w) is open of what the goroutines are now.                         *)
LEMMA LiveIsOpen == \A w \in Watchdog : live(w) <=> open(watchdogs, w)
  BY SMTT(30) DEF live, open

(* A goroutine with a closed channel has no part in the invariant.         *)
LEMMA SupersededInv ==
  ASSUME NEW dogs, NEW ready, superseded(dogs), noSender(dogs)
  PROVE  DogsInv(dogs, ready)
<1>1. ASSUME NEW w \in Watchdog, dogs[w].pc \in {"attempt", "kpSend", "backoff"},
             ~dogs[w].closed
      PROVE  FALSE
  BY <1>1 DEF superseded, open
<1>. QED BY <1>1, ZenonT(60) DEF superseded, noSender, DogsInv

(* Closing the channel supersedes every goroutine, and leaves it where it  *)
(* is.                                                                     *)
LEMMA ClosedSupersedes ==
  ASSUME NEW dogs \in [Watchdog \cup Waiter -> Goroutine]
  PROVE  /\ superseded(closeEpochReady(dogs))
         /\ superseded(forgetKeyPackages(closeEpochReady(dogs)))
         /\ \A w \in Watchdog :
              /\ closeEpochReady(dogs)[w].pc = dogs[w].pc
              /\ forgetKeyPackages(closeEpochReady(dogs))[w].pc = dogs[w].pc
         /\ closeEpochReady(dogs) \in [Watchdog \cup Waiter -> Goroutine]
<1>1. ASSUME NEW w \in Watchdog
      PROVE  /\ closeEpochReady(dogs)[w].pc = dogs[w].pc
             /\ closeEpochReady(dogs)[w].closed \/ dogs[w].pc = "none"
  BY DEF closeEpochReady, Goroutine
<1>2. closeEpochReady(dogs) \in [Watchdog \cup Waiter -> Goroutine]
  BY ZenonT(60) DEF closeEpochReady, Goroutine
<1> DEFINE shut == closeEpochReady(dogs)
<1> HIDE DEF shut
<1>3. ASSUME NEW w \in Watchdog
      PROVE  /\ forgetKeyPackages(shut)[w].pc = shut[w].pc
             /\ forgetKeyPackages(shut)[w].closed = shut[w].closed
  <2>1. shut \in [Watchdog \cup Waiter -> Goroutine]
    BY <1>2 DEF shut
  <2>. QED BY <2>1 DEF forgetKeyPackages, Goroutine
<1>. QED BY <1>1, <1>2, <1>3, ZenonT(60) DEF superseded, open, shut

(* A watchdog started when all others are superseded is the only one, and  *)
(* there is room for it.                                                   *)
LEMMA ArmedAlone ==
  ASSUME NEW dogs \in [Watchdog \cup Waiter -> Goroutine], superseded(dogs), noSender(dogs),
         NEW kind \in {"recovery", "commit"}
  PROVE  /\ DogsInv(goWatchdog(dogs, kind, FALSE), FALSE)
         /\ \A w \in Watchdog : open(goWatchdog(dogs, kind, FALSE), w)
              => goWatchdog(dogs, kind, FALSE)[w] = waitingOn(kind, FALSE)
         /\ ~shutdown => \E w \in Watchdog :
              goWatchdog(dogs, kind, FALSE)[w] = waitingOn(kind, FALSE)
<1>1. CASE shutdown
  <2>1. goWatchdog(dogs, kind, FALSE) = dogs
    BY <1>1 DEF goWatchdog
  <2>. QED BY <1>1, <2>1, SupersededInv, ZenonT(60) DEF superseded
<1>2. CASE ~shutdown
  <2> DEFINE new == waitingOn(kind, FALSE)
  <2>1. PICK slot \in Watchdog : goWatchdog(dogs, kind, FALSE) = [dogs EXCEPT ![slot] = new]
    <3> DEFINE free == {w \in Watchdog : dogs[w].pc = "none"}
    <3>1. CASE free # {}
      BY <1>2, <3>1, ZenonT(60) DEF goWatchdog
    <3>2. CASE free = {}
      <4>1. \E w \in Watchdog : dogs[w].closed
        BY <3>2, WatchdogAssumption DEF superseded, open
      <4>. QED BY <1>2, <3>2, <4>1, Zenon DEF goWatchdog
    <3>. QED BY <3>1, <3>2, ZenonT(60)
  <2>2. new.pc = "waiting" /\ ~new.closed
    BY DEF waitingOn
  <2> DEFINE armed == [dogs EXCEPT ![slot] = new]
  <2>3. armed[slot] = new /\ \A w \in Watchdog \ {slot} : armed[w] = dogs[w]
    OBVIOUS
  <2> HIDE DEF new, armed
  <2>4. \A w \in Watchdog : open(armed, w) => w = slot
    BY <2>3, ZenonT(60) DEF superseded, open
  <2>5. noSender(armed)
    BY <2>2, <2>3 DEF noSender
  <2>6. \A w \in Watchdog : armed[w].pc \in {"attempt", "kpSend", "backoff"}
                              /\ ~armed[w].closed => FALSE
    <3> SUFFICES ASSUME NEW w \in Watchdog,
                        armed[w].pc \in {"attempt", "kpSend", "backoff"}, ~armed[w].closed
                 PROVE  FALSE
      BY ZenonT(60)
    <3>1. open(armed, w)
      BY DEF open
    <3>2. w = slot
      BY <3>1, <2>4, ZenonT(60)
    <3>. QED BY <3>2, <2>2, <2>3
  <2>7. DogsInv(armed, FALSE)
    BY <2>4, <2>5, <2>6, ZenonT(60) DEF DogsInv, noSender
  <2>8. goWatchdog(dogs, kind, FALSE) = armed
    BY <2>1, Zenon DEF armed
  <2>. QED BY <2>3, <2>4, <2>7, <2>8, ZenonT(60) DEF new
<1>. QED BY <1>1, <1>2, ZenonT(60)

(* A goroutine that goes on without a channel it had not open, and sends   *)
(* only with one that is open and a key package of the current client.     *)
LEMMA OneGoesOn ==
  ASSUME NEW dogs \in [Watchdog \cup Waiter -> Goroutine], NEW ready, DogsInv(dogs, ready),
         NEW w \in Watchdog, NEW dog,
         dog.pc # "none" /\ ~dog.closed => open(dogs, w),
         dog.pc \in {"invalidSend", "kpSend"} => ~dog.closed,
         dog.pc \in {"attempt", "kpSend", "backoff"} /\ ~dog.closed => dog.kp = "current"
  PROVE  /\ DogsInv([dogs EXCEPT ![w] = dog], ready)
         /\ superseded(dogs) => superseded([dogs EXCEPT ![w] = dog])
<1> DEFINE next == [dogs EXCEPT ![w] = dog]
<1>1. next[w] = dog /\ \A v \in Watchdog \ {w} : next[v] = dogs[v]
  OBVIOUS
<1> HIDE DEF next
<1>2. ASSUME NEW v \in Watchdog PROVE open(next, v) => open(dogs, v)
  BY <1>1, ZenonT(60) DEF open
<1>3. ASSUME NEW v \in Watchdog
      PROVE  /\ next[v].pc \in {"invalidSend", "kpSend"} => ~next[v].closed
             /\ next[v].pc \in {"attempt", "kpSend", "backoff"} /\ ~next[v].closed
                  => next[v].kp = "current"
  <2>1. CASE v = w
    BY <2>1, <1>1, ZenonT(60)
  <2>2. CASE v # w
    BY <2>2, <1>1, ZenonT(60) DEF DogsInv
  <2>. QED BY <2>1, <2>2
<1>4. DogsInv(next, ready)
  BY <1>2, <1>3, ZenonT(60) DEF DogsInv
<1>5. superseded(dogs) => superseded(next)
  BY <1>2, ZenonT(60) DEF superseded
<1>. QED BY <1>4, <1>5 DEF next

(* Such a step keeps the rest as well, if it is not the watchdog of a      *)
(* commit that goes away.                                                  *)
LEMMA StepKeepsWatch ==
  ASSUME SessionInv, WatchInv, NEW w \in Watchdog, NEW dog,
         dog.pc # "none" /\ ~dog.closed => open(watchdogs, w),
         dog.pc \in {"invalidSend", "kpSend"} => ~dog.closed,
         dog.pc \in {"attempt", "kpSend", "backoff"} /\ ~dog.closed => dog.kp = "current",
         watchdogs' = [watchdogs EXCEPT ![w] = dog],
         UNCHANGED <<sending, pendingEpoch, pendingCommitBytes, epochReady, shutdown>>,
         \/ watchdogs[w].pc \notin {"waiting", "fired", "invalidSend"}
         \/ watchdogs[w].closed \/ shutdown
         \/ watchdogs[w].kind = "commit" /\ pendingEpoch = Nil
         \/ /\ dog.pc \in {"waiting", "fired", "invalidSend"}
            /\ dog.kind = watchdogs[w].kind
            /\ ~dog.closed
  PROVE  WatchInv'
<1>1. watchdogs \in [Watchdog \cup Waiter -> Goroutine] /\ DogsInv(watchdogs, epochReady)
  BY ZenonT(60) DEF SessionInv, GoroutinesOK, WatchInv
<1>2. /\ DogsInv(watchdogs', epochReady')
      /\ superseded(watchdogs) => superseded(watchdogs')
  BY <1>1, OneGoesOn, ZenonT(60)
<1>3. unconfirmed' <=> unconfirmed
  BY DEF unconfirmed
<1>4. ASSUME unconfirmed, ~shutdown, watchesCommit(watchdogs)
      PROVE  watchesCommit(watchdogs')
  <2>1. PICK v \in Watchdog : /\ watchdogs[v].kind = "commit"
                              /\ watchdogs[v].pc \in {"waiting", "fired", "invalidSend"}
                              /\ ~watchdogs[v].closed
    BY <1>4, ZenonT(60) DEF watchesCommit
  <2>2. CASE v = w
    <3>1. dog.pc \in {"waiting", "fired", "invalidSend"} /\ dog.kind = "commit" /\ ~dog.closed
      BY <1>4, <2>1, <2>2, ZenonT(60) DEF unconfirmed
    <3>2. watchdogs'[w] = dog
      BY <1>1
    <3>. QED BY <3>1, <3>2, ZenonT(60) DEF watchesCommit
  <2>3. CASE v # w
    <3>1. watchdogs'[v] = watchdogs[v]
      BY <2>3, <1>1
    <3>. QED BY <2>1, <3>1, ZenonT(60) DEF watchesCommit
  <2>. QED BY <2>2, <2>3
<1>. QED BY <1>2, <1>3, <1>4, ZenonT(60) DEF WatchInv

-----------------------------------------------------------------------------
(* What a watchdog makes of itself in a step other than the reset of the   *)
(* MLS state, which it ends as the one with the new channel.               *)
LEMMA WatchdogStepWatched ==
  ASSUME SessionInv, WatchInv, NEW w \in Watchdog, WatchdogStep(w)
  PROVE  WatchInv'
<1> USE DEF epochVars, mlsVars, commitVars
<1>t. /\ watchdogs \in [Watchdog \cup Waiter -> Goroutine] /\ w \in Watchdog \cup Waiter
      /\ watchdogs[w] \in Goroutine
  BY ZenonT(60) DEF SessionInv, GoroutinesOK
<1>d. /\ watchdogs[w].pc \in {"invalidSend", "kpSend"} => ~watchdogs[w].closed
      /\ watchdogs[w].pc \in {"attempt", "kpSend", "backoff"} /\ ~watchdogs[w].closed
           => watchdogs[w].kp = "current"
      /\ open(watchdogs, w) => ~epochReady
  BY ZenonT(60) DEF WatchInv, DogsInv
<1>i. idleWatchdog.pc = "none"
  BY DEF idleWatchdog
<1>p. ASSUME NEW pc, NEW dog, dog = [watchdogs[w] EXCEPT !.pc = pc]
      PROVE  /\ dog.pc = pc /\ dog.kind = watchdogs[w].kind
             /\ dog.closed = watchdogs[w].closed /\ dog.kp = watchdogs[w].kp
             /\ [watchdogs EXCEPT ![w].pc = pc] = [watchdogs EXCEPT ![w] = dog]
  BY <1>p, <1>t DEF Goroutine
<1>1. CASE WatchdogStops(w)
  BY <1>1, <1>i, StepKeepsWatch, ZenonT(60) DEF WatchdogStops, quiet
<1>2. CASE WatchdogTimesOut(w)
  <2> DEFINE dog == [watchdogs[w] EXCEPT !.pc = "fired"]
  <2>1. /\ dog.pc = "fired" /\ dog.kind = watchdogs[w].kind /\ dog.closed = watchdogs[w].closed
        /\ watchdogs' = [watchdogs EXCEPT ![w] = dog]
        /\ watchdogs[w].pc = "waiting"
    BY <1>2, <1>p, ZenonT(60) DEF WatchdogTimesOut
  <2>2. UNCHANGED <<sending, pendingEpoch, pendingCommitBytes, epochReady, shutdown>>
    BY <1>2 DEF WatchdogTimesOut, quiet
  <2> HIDE DEF dog
  <2>3. dog.pc # "none" /\ ~dog.closed => open(watchdogs, w)
    BY <2>1 DEF open
  <2>. QED BY <2>1, <2>2, <2>3, StepKeepsWatch, ZenonT(60)
<1>3. CASE RecoverAfterTimeout(w)
  <2>2. UNCHANGED <<sending, pendingEpoch, pendingCommitBytes, epochReady, shutdown>>
    BY <1>3 DEF RecoverAfterTimeout
  <2>3. CASE noLongerWanted(w)
    <3>1. watchdogs' = [watchdogs EXCEPT ![w] = idleWatchdog]
      BY <1>3, <2>3 DEF RecoverAfterTimeout
    <3>. QED BY <1>i, <2>2, <2>3, <3>1, StepKeepsWatch, ZenonT(60) DEF noLongerWanted
  <2>4. CASE ~noLongerWanted(w)
    <3> DEFINE dog == [watchdogs[w] EXCEPT !.pc = "invalidSend"]
    <3>1. /\ dog.pc = "invalidSend" /\ dog.kind = watchdogs[w].kind
          /\ dog.closed = watchdogs[w].closed
          /\ watchdogs' = [watchdogs EXCEPT ![w] = dog]
          /\ watchdogs[w].pc = "fired" /\ ~watchdogs[w].closed
      BY <1>3, <2>4, <1>p, ZenonT(60) DEF RecoverAfterTimeout, noLongerWanted
    <3> HIDE DEF dog
    <3>2. open(watchdogs, w)
      BY <3>1 DEF open
    <3>. QED BY <2>2, <3>1, <3>2, StepKeepsWatch, ZenonT(60)
  <2>. QED BY <2>3, <2>4
<1>4. CASE WatchdogInvalidReturns(w)
  <2> DEFINE dogs == forgetKeyPackages(closeEpochReady(watchdogs))
             next == [pc |-> "attempt", kind |-> "recovery", closed |-> FALSE,
                      tries |-> 0, kp |-> "current"]
  <2>1. /\ superseded(dogs) /\ \A v \in Watchdog : dogs[v].pc = watchdogs[v].pc
        /\ dogs \in [Watchdog \cup Waiter -> Goroutine]
    <3>1. GoroutinesOK(dogs)
      BY CloseKeeps, ForgetKeeps, ZenonT(60) DEF SessionInv
    <3>. QED BY <3>1, <1>t, ClosedSupersedes, ZenonT(60) DEF GoroutinesOK
  <2>2. /\ watchdogs' = [dogs EXCEPT ![w] = next]
        /\ ~epochReady' /\ pendingEpoch' = Nil /\ UNCHANGED sending
        /\ watchdogs[w].pc = "invalidSend"
    BY <1>4 DEF WatchdogInvalidReturns, invalidateMLSStateLocked, forgetGroup
  <2>3. sending = "idle"
    BY <2>2, ZenonT(60) DEF SessionInv, SendMuInv
  <2>4. next.pc = "attempt" /\ ~next.closed /\ next.kp = "current"
    OBVIOUS
  <2> HIDE DEF dogs, next
  <2>5. watchdogs'[w] = next /\ \A v \in Watchdog \ {w} : watchdogs'[v] = dogs[v]
    BY <2>1, <2>2
  <2>6. \A v \in Watchdog \ {w} : watchdogs[v].pc \notin {"invalidSend", "kpSend"}
    <3> SUFFICES ASSUME NEW v \in Watchdog \ {w}, watchdogs[v].pc \in {"invalidSend", "kpSend"}
                 PROVE  FALSE
      BY ZenonT(60)
    <3>1. open(watchdogs, v) /\ open(watchdogs, w)
      BY <2>2, ZenonT(60) DEF WatchInv, DogsInv, open
    <3>. QED BY <3>1, ZenonT(60) DEF WatchInv, DogsInv
  <2>7. \A v \in Watchdog : open(watchdogs', v) => v = w
    BY <2>1, <2>5, ZenonT(60) DEF superseded, open
  <2>8. ASSUME NEW v \in Watchdog
        PROVE  /\ watchdogs'[v].pc \in {"invalidSend", "kpSend"} => ~watchdogs'[v].closed
               /\ watchdogs'[v].pc \in {"attempt", "kpSend", "backoff"} /\ ~watchdogs'[v].closed
                    => watchdogs'[v].kp = "current"
    <3>1. CASE v = w
      BY <3>1, <2>4, <2>5, SMTT(30)
    <3>2. CASE v # w
      <4>1. watchdogs'[v].pc = watchdogs[v].pc /\ ~open(watchdogs', v)
        BY <3>2, <2>1, <2>5, <2>7, ZenonT(60)
      <4>. QED BY <3>2, <4>1, <2>6 DEF open
    <3>. QED BY <3>1, <3>2
  <2>9. DogsInv(watchdogs', epochReady')
    BY <2>2, <2>7, <2>8, ZenonT(60) DEF DogsInv
  <2>. QED BY <2>2, <2>3, <2>9, ZenonT(60) DEF WatchInv, unconfirmed
<1>5. CASE SendAttempt(w)
  <2> DEFINE pc == IF shutdown \/ watchdogs[w].closed \/ pendingKeyPackage THEN "finish" ELSE "kpSend"
             dog == [watchdogs[w] EXCEPT !.pc = pc]
  <2>1. /\ dog.pc = pc /\ dog.kp = watchdogs[w].kp /\ dog.closed = watchdogs[w].closed
        /\ watchdogs' = [watchdogs EXCEPT ![w] = dog]
        /\ watchdogs[w].pc = "attempt"
    <3>1. watchdogs' = [watchdogs EXCEPT ![w].pc = pc] /\ watchdogs[w].pc = "attempt"
      BY <1>5 DEF SendAttempt
    <3> HIDE DEF pc
    <3>. QED BY <3>1, <1>p, ZenonT(60)
  <2>2. UNCHANGED <<sending, pendingEpoch, pendingCommitBytes, epochReady, shutdown>>
    BY <1>5 DEF SendAttempt, quiet
  <2>3. pc = "kpSend" => ~watchdogs[w].closed
    OBVIOUS
  <2>4. pc \in {"finish", "kpSend"}
    OBVIOUS
  <2> HIDE DEF pc, dog
  <2>5. dog.pc # "none" /\ ~dog.closed => open(watchdogs, w)
    BY <2>1 DEF open
  <2>. QED BY <1>d, <2>1, <2>2, <2>3, <2>4, <2>5, StepKeepsWatch, ZenonT(60)
<1>6. ASSUME NEW result \in {"sent", "not ready", "failed"}, WatchdogKeyPackageReturns(w, result)
      PROVE  WatchInv'
  <2> DEFINE pc == IF result = "not ready" /\ watchdogs[w].tries + 1 < RetryMaxAttempts
                   THEN "backoff" ELSE "finish"
             tries == IF result = "not ready" THEN watchdogs[w].tries + 1 ELSE watchdogs[w].tries
             dog == [[watchdogs[w] EXCEPT !.pc = pc] EXCEPT !.tries = tries]
  <2>1. /\ dog.pc = pc /\ dog.kp = watchdogs[w].kp /\ dog.closed = watchdogs[w].closed
        /\ watchdogs[w].pc = "kpSend"
    BY <1>6, <1>t, ZenonT(60) DEF WatchdogKeyPackageReturns, Goroutine
  <2>2. watchdogs' = [watchdogs EXCEPT ![w] = dog]
    BY <1>6, <1>t, ZenonT(60) DEF WatchdogKeyPackageReturns, Goroutine
  <2>3. UNCHANGED <<sending, pendingEpoch, pendingCommitBytes, epochReady, shutdown>>
    BY <1>6 DEF WatchdogKeyPackageReturns
  <2>4. pc \in {"finish", "backoff"}
    OBVIOUS
  <2> HIDE DEF pc, tries, dog
  <2>5. dog.pc # "none" /\ ~dog.closed => open(watchdogs, w)
    BY <2>1, ZenonT(60) DEF open
  <2>. QED BY <1>d, <2>1, <2>2, <2>3, <2>4, <2>5, StepKeepsWatch, ZenonT(60)
<1>7. CASE BackoffEnds(w)
  <2> DEFINE dog == [watchdogs[w] EXCEPT !.pc = "attempt"]
  <2>1. /\ dog.pc = "attempt" /\ dog.kp = watchdogs[w].kp /\ dog.closed = watchdogs[w].closed
        /\ watchdogs' = [watchdogs EXCEPT ![w] = dog]
        /\ watchdogs[w].pc = "backoff"
    BY <1>7, <1>p, ZenonT(60) DEF BackoffEnds
  <2>2. UNCHANGED <<sending, pendingEpoch, pendingCommitBytes, epochReady, shutdown>>
    BY <1>7 DEF BackoffEnds, quiet
  <2> HIDE DEF dog
  <2>3. dog.pc # "none" /\ ~dog.closed => open(watchdogs, w)
    BY <2>1 DEF open
  <2>. QED BY <1>d, <2>1, <2>2, <2>3, StepKeepsWatch, ZenonT(60)
<1>8. CASE BackoffSuperseded(w)
  <2> DEFINE dog == [watchdogs[w] EXCEPT !.pc = "finish"]
  <2>1. /\ dog.pc = "finish" /\ dog.closed = watchdogs[w].closed
        /\ watchdogs' = [watchdogs EXCEPT ![w] = dog]
        /\ watchdogs[w].pc = "backoff"
    BY <1>8, <1>p, ZenonT(60) DEF BackoffSuperseded
  <2>2. UNCHANGED <<sending, pendingEpoch, pendingCommitBytes, epochReady, shutdown>>
    BY <1>8 DEF BackoffSuperseded, quiet
  <2> HIDE DEF dog
  <2>3. dog.pc # "none" /\ ~dog.closed => open(watchdogs, w)
    BY <2>1 DEF open
  <2>. QED BY <2>1, <2>2, <2>3, StepKeepsWatch, ZenonT(60)
<1>9. CASE FinishRecovery(w)
  <2>1. UNCHANGED <<sending, pendingEpoch, pendingCommitBytes, epochReady, shutdown>>
        /\ watchdogs[w].pc = "finish"
    BY <1>9 DEF FinishRecovery, quiet
  <2>2. CASE watchdogs' = [watchdogs EXCEPT ![w] = idleWatchdog]
    BY <1>i, <2>1, <2>2, StepKeepsWatch, ZenonT(60)
  <2>3. CASE /\ watchdogs' = [watchdogs EXCEPT ![w] = waitingOn("recovery", epochReady)]
             /\ ~watchdogs[w].closed
    <3>1. open(watchdogs, w)
      BY <2>1, <2>3, SMTT(30) DEF open
    <3>2. waitingOn("recovery", epochReady).pc = "waiting"
      BY SMTT(30) DEF waitingOn
    <3>. QED BY <2>1, <2>3, <3>1, <3>2, StepKeepsWatch, ZenonT(60)
  <2>. QED BY <1>9, <2>2, <2>3, ZenonT(60) DEF FinishRecovery
<1>. QED BY <1>1, <1>2, <1>3, <1>4, <1>5, <1>6, <1>7, <1>8, <1>9, ZenonT(60) DEF WatchdogStep

(* The calls of the client touch no watchdog; WaitReady has a goroutine of *)
(* its own.                                                                *)
LEMMA CallerLeavesWatchdogs ==
  ASSUME SessionInv, Caller
  PROVE  /\ \A w \in Watchdog : watchdogs'[w] = watchdogs[w]
         /\ UNCHANGED <<sending, protocolVersion, pendingEpoch, pendingCommitBytes, proposalQueue,
                        pendingKeyPackage, recoveryAttempts, epochReady>>
         /\ shutdown => shutdown'
         /\ group # Nil => group' = group
<1> USE DEF versionVars, epochVars, clientVars, groupVars, commitVars, mlsVars, watchVars, recoveryVars
<1>1. CASE Frame \/ TimePasses
  <2>1. UNCHANGED sessionVars
    BY <1>1, SMTT(30) DEF Frame, TimePasses
  <2>. QED BY <2>1, SMTT(30) DEF sessionVars
<1>2. ASSUME NEW user \in Peer, AddUser(user) \/ RemoveUser(user)
      PROVE  UNCHANGED <<sending, versionVars, epochVars, mlsVars, recoveryVars, shutdown>>
  BY <1>2, SMTT(30) DEF AddUser, RemoveUser, unchangedButInputs
<1>3. CASE SetChannelID
  BY <1>3, SMTT(30) DEF SetChannelID, unchangedButInputs
<1>4. ASSUME NEW u \in Waiter, WaitReady(u) \/ WaitReadyWakes(u) \/ WaitReadyCancelled(u)
      PROVE  /\ \A w \in Watchdog : watchdogs'[w] = watchdogs[w]
             /\ UNCHANGED <<sending, versionVars, epochVars, mlsVars, epochReady, recoveryAttempts,
                            shutdown>>
  <2>1. PICK dog : watchdogs' = [watchdogs EXCEPT ![u] = dog]
    BY <1>4 DEF WaitReady, WaitReadyWakes, WaitReadyCancelled, lookReady
  <2>2. u \notin Watchdog
    BY WaiterAssumption
  <2>3. \A w \in Watchdog : watchdogs'[w] = watchdogs[w]
    BY <2>1, <2>2 DEF SessionInv, GoroutinesOK
  <2>. QED BY <1>4, <2>3, SMTT(30) DEF WaitReady, WaitReadyWakes, WaitReadyCancelled, lookReady
<1>5. CASE Close
  BY <1>5 DEF Close
<1>. QED BY <1>1, <1>2, <1>3, <1>4, <1>5, SMTT(30) DEF Caller

(* So they keep the invariant of the watchdogs.                            *)
LEMMA CallerWatched ==
  ASSUME SessionInv, WatchInv, Caller
  PROVE  WatchInv'
<1>1. /\ \A w \in Watchdog : watchdogs'[w] = watchdogs[w]
      /\ UNCHANGED <<sending, pendingEpoch, pendingCommitBytes, epochReady>>
      /\ shutdown => shutdown'
  BY CallerLeavesWatchdogs
<1>2. \A w \in Watchdog : open(watchdogs', w) <=> open(watchdogs, w)
  BY <1>1, ZenonT(60) DEF open
<1>3. superseded(watchdogs') <=> superseded(watchdogs)
  BY <1>2, ZenonT(60) DEF superseded
<1>4. DogsInv(watchdogs', epochReady')
  BY <1>1, <1>2, ZenonT(60) DEF WatchInv, DogsInv
<1>5. watchesCommit(watchdogs) => watchesCommit(watchdogs')
  BY <1>1, ZenonT(60) DEF watchesCommit
<1>6. unconfirmed' <=> unconfirmed
  BY <1>1, ZenonT(60) DEF unconfirmed
<1>. QED BY <1>1, <1>3, <1>4, <1>5, <1>6, ZenonT(60) DEF WatchInv

-----------------------------------------------------------------------------
(* What a handler does to the goroutines, with sendMu held: it leaves them *)
(* alone, gives them a fresh or a closed channel, or starts one of them on *)
(* a fresh one.                                                            *)
handlerDogs ==
  \/ UNCHANGED watchVars
  \/ watchdogs' \in {closeEpochReady(watchdogs), forgetKeyPackages(closeEpochReady(watchdogs))}
  \/ watchDroppedSendLocked
  \/ watchCommitLocked
  \/ /\ sending = "recoverKpSend"
     /\ watchdogs' = watchRecoveryLocked(watchdogs, epochReady)
     /\ UNCHANGED epochReady

(* While a handler runs or may start, no watchdog is sending.              *)
LEMMA HandlerAlone ==
  ASSUME SessionInv, sendMuFree \/ sending # "idle"
  PROVE  noSender(watchdogs)
  BY ZenonT(60) DEF SessionInv, SendMuInv, sendMuFree, noSender

(* watchRecoveryLocked with all others superseded.                         *)
LEMMA RecoveryAlone ==
  ASSUME NEW dogs \in [Watchdog \cup Waiter -> Goroutine], superseded(dogs), noSender(dogs)
  PROVE  /\ DogsInv(watchRecoveryLocked(dogs, FALSE), FALSE)
         /\ ~shutdown => \/ ~superseded(watchRecoveryLocked(dogs, FALSE))
                         \/ recoveryAttempts >= MaxRecoveryAttempts
         /\ \A w \in Watchdog : open(watchRecoveryLocked(dogs, FALSE), w)
              => watchRecoveryLocked(dogs, FALSE)[w].kind = "recovery"
<1>1. waitingOn("recovery", FALSE).pc = "waiting" /\ ~waitingOn("recovery", FALSE).closed
      /\ waitingOn("recovery", FALSE).kind = "recovery"
  BY DEF waitingOn
<1>2. CASE recoveryAttempts >= MaxRecoveryAttempts
  <2>1. watchRecoveryLocked(dogs, FALSE) = dogs
    BY <1>2 DEF watchRecoveryLocked
  <2>. QED BY <1>2, <2>1, SupersededInv, ZenonT(60) DEF superseded
<1>3. CASE ~(recoveryAttempts >= MaxRecoveryAttempts)
  <2> DEFINE armed == goWatchdog(dogs, "recovery", FALSE)
  <2>1. watchRecoveryLocked(dogs, FALSE) = armed
    BY <1>3 DEF watchRecoveryLocked
  <2>2. /\ DogsInv(armed, FALSE)
        /\ \A w \in Watchdog : open(armed, w) => armed[w] = waitingOn("recovery", FALSE)
        /\ ~shutdown => \E w \in Watchdog : armed[w] = waitingOn("recovery", FALSE)
    BY ArmedAlone, ZenonT(60)
  <2> HIDE DEF armed
  <2>3. ASSUME NEW w \in Watchdog, armed[w] = waitingOn("recovery", FALSE) PROVE open(armed, w)
    BY <2>3, <1>1, Zenon DEF open
  <2>. QED BY <2>1, <2>2, <2>3, <1>1, ZenonT(60) DEF superseded
<1>. QED BY <1>2, <1>3, ZenonT(60)

(* The goroutines after a handler's step.                                  *)
LEMMA HandlerKeepsDogs ==
  ASSUME SessionInv, WatchInv, sendMuFree \/ sending # "idle", handlerDogs
  PROVE  /\ DogsInv(watchdogs', epochReady')
         /\ watchCommitLocked /\ ~shutdown => watchesCommit(watchdogs')
<1> DEFINE shut == closeEpochReady(watchdogs)
           stale == forgetKeyPackages(closeEpochReady(watchdogs))
<1>1. /\ watchdogs \in [Watchdog \cup Waiter -> Goroutine] /\ noSender(watchdogs)
      /\ DogsInv(watchdogs, epochReady)
  BY HandlerAlone, ZenonT(60) DEF SessionInv, GoroutinesOK, WatchInv
<1>2. /\ superseded(shut) /\ superseded(stale)
      /\ shut \in [Watchdog \cup Waiter -> Goroutine]
      /\ \A w \in Watchdog : shut[w].pc = watchdogs[w].pc /\ stale[w].pc = watchdogs[w].pc
  BY <1>1, ClosedSupersedes, ZenonT(60)
<1> HIDE DEF shut, stale
<1>3. noSender(shut) /\ noSender(stale)
  BY <1>1, <1>2, ZenonT(60) DEF noSender
<1>4. ASSUME UNCHANGED watchVars PROVE DogsInv(watchdogs', epochReady')
  <2>1. watchdogs' = watchdogs /\ epochReady' = epochReady
    BY <1>4 DEF watchVars
  <2>. QED BY <1>1, <2>1
<1>5. ASSUME watchdogs' \in {shut, stale} PROVE DogsInv(watchdogs', epochReady')
  BY <1>2, <1>3, <1>5, SupersededInv, ZenonT(60)
<1>6. ASSUME watchDroppedSendLocked PROVE DogsInv(watchdogs', epochReady')
  <2>1. watchdogs' = watchRecoveryLocked(shut, FALSE) /\ epochReady' = FALSE
    BY <1>6 DEF watchDroppedSendLocked, shut
  <2>. QED BY <1>2, <1>3, <2>1, RecoveryAlone, ZenonT(60)
<1>7. ASSUME watchCommitLocked
      PROVE  /\ DogsInv(watchdogs', epochReady')
             /\ ~shutdown => watchesCommit(watchdogs')
  <2>1. watchdogs' = goWatchdog(shut, "commit", FALSE) /\ epochReady' = FALSE
    BY <1>7 DEF watchCommitLocked, shut
  <2>2. /\ DogsInv(watchdogs', epochReady')
        /\ ~shutdown => \E w \in Watchdog : watchdogs'[w] = waitingOn("commit", FALSE)
    BY <1>2, <1>3, <2>1, ArmedAlone, ZenonT(60)
  <2>3. /\ waitingOn("commit", FALSE).pc = "waiting" /\ ~waitingOn("commit", FALSE).closed
        /\ waitingOn("commit", FALSE).kind = "commit"
    BY DEF waitingOn
  <2>. QED BY <2>2, <2>3, ZenonT(60) DEF watchesCommit
<1>8. ASSUME sending = "recoverKpSend", UNCHANGED epochReady,
             watchdogs' = watchRecoveryLocked(watchdogs, epochReady)
      PROVE  DogsInv(watchdogs', epochReady')
  <2>1. superseded(watchdogs) /\ epochReady = FALSE
    BY <1>8, ZenonT(60) DEF WatchInv, SessionInv, SessionTypeOK
  <2>. QED BY <1>1, <1>8, <2>1, RecoveryAlone, ZenonT(60)
<1>9. \/ UNCHANGED watchVars \/ watchdogs' \in {shut, stale} \/ watchDroppedSendLocked
      \/ watchCommitLocked
      \/ /\ sending = "recoverKpSend"
         /\ watchdogs' = watchRecoveryLocked(watchdogs, epochReady)
         /\ UNCHANGED epochReady
  BY ZenonT(60) DEF handlerDogs, shut, stale
<1>10. DogsInv(watchdogs', epochReady')
  BY <1>4, <1>5, <1>6, <1>7, <1>8, <1>9, SMTT(30)
<1>. QED BY <1>7, <1>10

(* ... and to the commit it may have pending: it is gone, about to be      *)
(* sent, left to its watchdog, or given one.                               *)
handlerWatches ==
  /\ sendMuFree \/ sending # "idle"
  /\ handlerDogs
  /\ UNCHANGED shutdown
  /\ sending' = "recoverKpSend" => superseded(watchdogs') /\ ~epochReady'
  /\ \/ ~unconfirmed'
     \/ sending' \in {"commitSend", "drainCommitSend"}
     \/ /\ unconfirmed
        /\ sending \notin {"commitSend", "drainCommitSend"}
        /\ sending' \in {"idle", "readyV0Send"}
        /\ UNCHANGED watchVars
     \/ sending' = "idle" /\ watchCommitLocked

(* Activation leaves no pending epoch, and closes the channel or leaves it *)
(* alone.                                                                  *)
LEMMA ActivationDogs ==
  ASSUME NEW new, NEW grp, NEW v, NEW queue, activate(new, grp, v, queue)
  PROVE  /\ ~unconfirmed'
         /\ sending' \in {"idle", "drain"}
         /\ handlerDogs
<1>1. ~unconfirmed' /\ sending' \in {"idle", "drain"}
  BY DEF activate, clearPending, afterActivation, unconfirmed
<1>2. UNCHANGED watchVars \/ watchdogs' = closeEpochReady(watchdogs)
  BY DEF activate, signalEpochReadyLocked, watchVars
<1>. QED BY <1>1, <1>2, ZenonT(60) DEF handlerDogs

(* So does the tail of the commit and welcome handlers.                    *)
LEMMA ConfirmationDogs ==
  ASSUME NEW tid, NEW new, NEW grp, NEW queue, confirmTransition(tid, new, grp, queue)
  PROVE  sending' \in {"idle", "drain", "readySend"} /\ handlerDogs
<1>1. CASE tid = 0
  BY <1>1, ActivationDogs, ZenonT(60) DEF confirmTransition
<1>2. CASE tid # 0
  BY <1>2, ZenonT(60) DEF confirmTransition, recoveryVars, handlerDogs
<1>. QED BY <1>1, <1>2

(* The handlers of the gateway's events.                                   *)
LEMMA GatewayWatches ==
  ASSUME SessionInv, WatchInv, Gateway
  PROVE  handlerWatches
<1> USE DEF versionVars, epochVars, commitVars, mlsVars, recoveryVars
<1>f. ASSUME sendMuFree, UNCHANGED <<pendingEpoch, pendingCommitBytes, watchVars, shutdown>>,
             sending' \in {"idle", "readyV0Send"}
      PROVE  handlerWatches
  BY <1>f, SMTT(30) DEF handlerWatches, handlerDogs, unconfirmed, sendMuFree
<1>n. ASSUME sendMuFree, UNCHANGED shutdown, ~unconfirmed', sending' # "recoverKpSend", handlerDogs
      PROVE  handlerWatches
  BY <1>n, ZenonT(60) DEF handlerWatches
<1>1. ASSUME NEW v \in Version, OnSelectProtocolAck(v)
      PROVE  handlerWatches
  <2>1. /\ sendMuFree /\ UNCHANGED shutdown /\ pendingEpoch' = Nil /\ sending' # "recoverKpSend"
        /\ watchdogs' = forgetKeyPackages(closeEpochReady(watchdogs))
    BY <1>1 DEF OnSelectProtocolAck, forgetGroup, forgetClient
  <2>. QED BY <1>n, <2>1, ZenonT(60) DEF unconfirmed, handlerDogs
<1>2. ASSUME NEW v \in Version, OnDavePrepareEpoch(v)
      PROVE  handlerWatches
  <2>1. /\ sendMuFree /\ UNCHANGED shutdown /\ pendingEpoch' = Nil /\ sending' # "recoverKpSend"
        /\ watchdogs' = forgetKeyPackages(closeEpochReady(watchdogs))
    BY <1>2, SMTT(30) DEF OnDavePrepareEpoch, forgetGroup, forgetClient
  <2>. QED BY <1>n, <2>1, ZenonT(60) DEF unconfirmed, handlerDogs
<1>3. ASSUME NEW v \in Version, OnDavePrepareLaterEpoch(v)
      PROVE  handlerWatches
  BY <1>3, <1>f DEF OnDavePrepareLaterEpoch, sendMuFree
<1>4. ASSUME NEW tid \in TransitionID, NEW v \in Version, OnDavePrepareTransition(tid, v)
      PROVE  handlerWatches
  BY <1>4, <1>f, SMTT(30) DEF OnDavePrepareTransition
<1>5. ASSUME NEW v \in Version, SoleMemberActivates(v)
      PROVE  handlerWatches
  <2>1. ~unconfirmed' /\ sending' \in {"idle", "drain"} /\ handlerDogs
    BY <1>5, ActivationDogs, ZenonT(60) DEF SoleMemberActivates
  <2>. QED BY <1>5, <1>n, <2>1 DEF SoleMemberActivates, soleMemberTransition
<1>6. ASSUME NEW v \in Version, SoleMemberCreates(v)
      PROVE  handlerWatches
  <2>1. ~unconfirmed' /\ sending' \in {"idle", "drain"} /\ handlerDogs
    BY <1>6, ActivationDogs, ZenonT(60) DEF SoleMemberCreates
  <2>. QED BY <1>6, <1>n, <2>1 DEF SoleMemberCreates, soleMemberTransition
<1>c. group = Nil => ~pendingCommitBytes
  BY ZenonT(60) DEF SessionInv, EpochInv, RollbackPossible
<1>7. ASSUME NEW v \in Version, SoleMemberSendsKeyPackage(v)
      PROVE  handlerWatches
  <2>1. sendMuFree /\ UNCHANGED <<shutdown, pendingCommitBytes, watchVars>> /\ group = Nil
        /\ sending' = "soleKpSend"
    BY <1>7, SMTT(30) DEF SoleMemberSendsKeyPackage, soleMemberTransition
  <2>. QED BY <1>n, <1>c, <2>1 DEF handlerDogs, unconfirmed
<1>8. ASSUME NEW v \in Version, SoleMemberWithoutContext(v)
      PROVE  handlerWatches
  BY <1>8, <1>f DEF SoleMemberWithoutContext, soleMemberTransition, sendMuFree
<1>9. ASSUME NEW tid, ExecuteDowngrade(tid)
      PROVE  handlerWatches
  <2>1. /\ sendMuFree /\ UNCHANGED <<sending, shutdown>> /\ pendingEpoch' = Nil
        /\ watchdogs' = closeEpochReady(watchdogs)
    BY <1>9 DEF ExecuteDowngrade, forgetGroup, resetEpochReadyLocked
  <2>2. sending' # "recoverKpSend"
    BY <2>1 DEF sendMuFree
  <2>. QED BY <1>n, <2>1, <2>2, ZenonT(60) DEF handlerDogs, unconfirmed
<1>10. ASSUME NEW tid, OnDaveExecuteTransition(tid)
       PROVE  handlerWatches
  <2>1. CASE pendingEpoch # Nil
    <3>1. ~unconfirmed' /\ sending' \in {"idle", "drain"} /\ handlerDogs
      BY <1>10, <2>1, ActivationDogs, ZenonT(60) DEF OnDaveExecuteTransition
    <3>. QED BY <1>10, <1>n, <3>1 DEF OnDaveExecuteTransition
  <2>2. CASE pendingEpoch = Nil
    BY <1>10, <2>2, <1>f, SMTT(30) DEF OnDaveExecuteTransition, sendMuFree
  <2>. QED BY <2>1, <2>2, SMTT(30)
<1>11. CASE OnDaveMLSExternalSenderPackage
  <2>1. /\ sendMuFree /\ UNCHANGED <<shutdown, pendingEpoch, pendingCommitBytes, watchVars>>
        /\ \/ UNCHANGED sending
           \/ group = Nil /\ sending' = "createKpSend"
    BY <1>11 DEF OnDaveMLSExternalSenderPackage
  <2>2. CASE UNCHANGED sending
    BY <1>f, <2>1, <2>2, SMTT(30) DEF sendMuFree
  <2>3. CASE group = Nil /\ sending' = "createKpSend"
    BY <1>n, <1>c, <2>1, <2>3 DEF handlerDogs, unconfirmed
  <2>. QED BY <2>1, <2>2, <2>3, SMTT(30)
<1>12. ASSUME NEW part \in Payload, OnDaveMLSProposals(part)
       PROVE  handlerWatches
  <2>1. sendMuFree /\ UNCHANGED <<shutdown, watchVars>>
    BY <1>12, SMTT(30) DEF OnDaveMLSProposals
  <2>2. CASE pendingEpoch # Nil
    BY <1>12, <2>1, <2>2, <1>f, SMTT(30) DEF OnDaveMLSProposals, sendMuFree
  <2>3. CASE pendingEpoch = Nil
    <3>1. \/ sending' = "commitSend"
          \/ pendingEpoch' = pendingEpoch /\ sending' = "idle"
      BY <1>12, <2>3, SMTT(30) DEF OnDaveMLSProposals, processAndCommitProposalBatchLocked, commitProposalsLocked
    <3>. QED BY <2>1, <2>3, <3>1, SMTT(30) DEF handlerWatches, handlerDogs, unconfirmed
  <2>. QED BY <2>2, <2>3, SMTT(30)
<1>13. ASSUME NEW tid \in TransitionID, OwnCommitConfirmed(tid)
       PROVE  handlerWatches
  <2>1. sending' \in {"idle", "drain", "readySend"} /\ handlerDogs
    BY <1>13, ConfirmationDogs, ZenonT(60) DEF OwnCommitConfirmed
  <2>. QED BY <1>13, <1>n, <2>1, SMTT(30) DEF OwnCommitConfirmed, forgetCommit, unconfirmed
<1>14. ASSUME NEW tid \in TransitionID, NEW add, NEW remove, PeerCommitProcessed(tid, add, remove)
       PROVE  handlerWatches
  <2>1. sending' \in {"idle", "drain", "readySend"} /\ handlerDogs
    BY <1>14, ConfirmationDogs, ZenonT(60) DEF PeerCommitProcessed
  <2>. QED BY <1>14, <1>n, <2>1, ZenonT(60) DEF PeerCommitProcessed, forgetCommit, unconfirmed
<1>15. ASSUME NEW tid, NEW queue, NEW left, NEW hasGroupID, refuse(tid, queue, left, hasGroupID)
       PROVE  handlerWatches
  <2>1. sendMuFree /\ UNCHANGED <<shutdown, watchVars>> /\ sending' = "invalidSend"
        /\ pendingCommitBytes' = FALSE
    BY <1>15, SMTT(30) DEF refuse, forgetCommit
  <2>. QED BY <1>n, <2>1, SMTT(30) DEF handlerDogs, unconfirmed
<1>16. ASSUME NEW tid \in TransitionID, NEW members, WelcomeJoined(tid, members)
       PROVE  handlerWatches
  <2>1. sending' \in {"idle", "drain", "readySend"} /\ handlerDogs
    BY <1>16, ConfirmationDogs, ZenonT(60) DEF WelcomeJoined
  <2>. QED BY <1>16, <1>n, <2>1, SMTT(30) DEF WelcomeJoined, forgetCommit, unconfirmed
<1>17. ASSUME NEW tid, NEW add, NEW remove, NEW members, NEW twice,
              CommitUnusable(tid, add, remove) \/ WelcomeUnusable(tid, members, twice)
       PROVE  handlerWatches
  BY <1>15, <1>17, ZenonT(60) DEF CommitUnusable, WelcomeUnusable
<1>. QED BY <1>1, <1>2, <1>3, <1>4, <1>5, <1>6, <1>7, <1>8, <1>9, <1>10, <1>11, <1>12, <1>13,
            <1>14, <1>15, <1>16, <1>17, ZenonT(60) DEF Gateway, CommitRefused, WelcomeRefused

(* A handler after its callback.                                           *)
LEMMA HandlerContinuesWatches ==
  ASSUME SessionInv, WatchInv, HandlerContinues
  PROVE  handlerWatches
<1> USE DEF versionVars, epochVars, groupVars, clientVars, commitVars, mlsVars, recoveryVars
<1>n. ASSUME sending # "idle", UNCHANGED shutdown, ~unconfirmed', sending' # "recoverKpSend", handlerDogs
      PROVE  handlerWatches
  BY <1>n, ZenonT(60) DEF handlerWatches
<1>u. sending \in {"resetKpSend", "soleKpSend", "createKpSend", "drain", "readySend",
                   "invalidSend", "recoverKpSend"} => ~unconfirmed
  BY ZenonT(60) DEF WatchInv
<1>s. UNCHANGED <<pendingEpoch, pendingCommitBytes>> => (unconfirmed' <=> unconfirmed)
  BY DEF unconfirmed
<1>1. ASSUME NEW ok \in BOOLEAN, KeyPackageReturns(ok)
      PROVE  handlerWatches
  <2>1. /\ sending = "resetKpSend" /\ sending' = "idle" /\ handlerDogs
        /\ UNCHANGED <<shutdown, pendingEpoch, pendingCommitBytes>>
    BY <1>1 DEF KeyPackageReturns, handlerDogs
  <2>. QED BY <1>n, <1>u, <1>s, <2>1, SMTT(30)
<1>2. CASE ReadyV0Returns
  <2>1. /\ sending = "readyV0Send" /\ sending' = "idle"
        /\ UNCHANGED <<shutdown, pendingEpoch, pendingCommitBytes, watchVars>>
    BY <1>2 DEF ReadyV0Returns
  <2>. QED BY <1>s, <2>1, SMTT(30) DEF handlerWatches, handlerDogs
<1>3. ASSUME NEW ok \in BOOLEAN, SoleMemberKeyPackageReturns(ok)
      PROVE  handlerWatches
  <2>1. sending = "soleKpSend" /\ UNCHANGED <<shutdown, pendingCommitBytes>>
    BY <1>3 DEF SoleMemberKeyPackageReturns
  <2>2. CASE ok
    <3>1. ~unconfirmed' /\ sending' \in {"idle", "drain"} /\ handlerDogs
      BY <1>3, <2>2, ActivationDogs, ZenonT(60) DEF SoleMemberKeyPackageReturns
    <3>. QED BY <1>n, <2>1, <3>1
  <2>3. CASE ~ok
    <3>1. watchDroppedSendLocked /\ sending' = "idle" /\ UNCHANGED pendingEpoch
      BY <1>3, <2>3 DEF SoleMemberKeyPackageReturns
    <3>2. handlerDogs
      BY <3>1, ZenonT(60) DEF handlerDogs
    <3>. QED BY <1>n, <1>u, <1>s, <2>1, <3>1, <3>2, SMTT(30)
  <2>. QED BY <2>2, <2>3, SMTT(30)
<1>4. ASSUME NEW ok \in BOOLEAN, CreateKeyPackageReturns(ok)
      PROVE  handlerWatches
  <2>1. /\ sending = "createKpSend" /\ sending' = "idle" /\ handlerDogs
        /\ UNCHANGED <<shutdown, pendingEpoch, pendingCommitBytes>>
    BY <1>4, SMTT(30) DEF CreateKeyPackageReturns, handlerDogs
  <2>. QED BY <1>n, <1>u, <1>s, <2>1, SMTT(30)
<1>5. CASE drainProposalQueueLocked
  <2>1. /\ sending = "drain" /\ pendingEpoch = Nil /\ UNCHANGED <<shutdown, watchVars>>
        /\ \/ sending' = "drainCommitSend"
           \/ pendingEpoch' = pendingEpoch /\ sending' \in {"idle", "drain"}
    BY <1>5 DEF drainProposalQueueLocked, processAndCommitProposalBatchLocked,
                commitProposalsLocked, SessionInv, HandlerInv
  <2>. QED BY <2>1, SMTT(30) DEF handlerWatches, handlerDogs, unconfirmed
<1>6. ASSUME NEW ok \in BOOLEAN, CommitWelcomeReturns(ok)
      PROVE  handlerWatches
  <2>1. sending \in {"commitSend", "drainCommitSend"} /\ UNCHANGED shutdown
    BY <1>6 DEF CommitWelcomeReturns
  <2>2. CASE ok
    <3>1. sending' = "idle" /\ watchCommitLocked
      BY <1>6, <2>2, SMTT(30) DEF CommitWelcomeReturns
    <3>. QED BY <2>1, <3>1, SMTT(30) DEF handlerWatches, handlerDogs
  <2>3. CASE ~ok
    <3>1. /\ sending' \in {"drain", "idle"} /\ pendingEpoch' = Nil /\ watchDroppedSendLocked
      BY <1>6, <2>3, SMTT(30) DEF CommitWelcomeReturns, restorePreCommitStateLocked
    <3>. QED BY <1>n, <2>1, <3>1, SMTT(30) DEF handlerDogs, unconfirmed
  <2>. QED BY <2>2, <2>3, SMTT(30)
<1>7. ASSUME NEW ok \in BOOLEAN, ReadyReturns(ok)
      PROVE  handlerWatches
  <2>1. /\ sending = "readySend" /\ sending' = "idle" /\ handlerDogs
        /\ UNCHANGED <<shutdown, pendingEpoch, pendingCommitBytes>>
    BY <1>7, SMTT(30) DEF ReadyReturns, handlerDogs
  <2>. QED BY <1>n, <1>u, <1>s, <2>1, SMTT(30)
<1>8. CASE InvalidReturns
  <2>1. /\ sending = "invalidSend" /\ UNCHANGED shutdown /\ pendingEpoch' = Nil
        /\ ~epochReady' /\ watchdogs' = forgetKeyPackages(closeEpochReady(watchdogs))
    BY <1>8, SMTT(30) DEF InvalidReturns, invalidateMLSStateLocked, forgetGroup
  <2>2. superseded(watchdogs')
    BY <2>1, ClosedSupersedes, ZenonT(60) DEF SessionInv, GoroutinesOK
  <2>. QED BY <2>1, <2>2, ZenonT(60) DEF handlerWatches, handlerDogs, unconfirmed
<1>9. ASSUME NEW ok \in BOOLEAN, RecoverKeyPackageReturns(ok)
      PROVE  handlerWatches
  <2>1. /\ sending = "recoverKpSend" /\ sending' = "idle" /\ handlerDogs
        /\ UNCHANGED <<shutdown, pendingEpoch, pendingCommitBytes>>
    BY <1>9, SMTT(30) DEF RecoverKeyPackageReturns, handlerDogs
  <2>. QED BY <1>n, <1>u, <1>s, <2>1, SMTT(30)
<1>. QED BY <1>1, <1>2, <1>3, <1>4, <1>5, <1>6, <1>7, <1>8, <1>9, ZenonT(60) DEF HandlerContinues

(* So the handlers keep the invariant of the watchdogs.                    *)
LEMMA HandlerWatched ==
  ASSUME SessionInv, WatchInv, handlerWatches
  PROVE  WatchInv'
<1>1. /\ DogsInv(watchdogs', epochReady')
      /\ watchCommitLocked /\ ~shutdown => watchesCommit(watchdogs')
  BY HandlerKeepsDogs, ZenonT(60) DEF handlerWatches
<1>2. sending' = "recoverKpSend" => superseded(watchdogs') /\ ~epochReady'
  BY ZenonT(60) DEF handlerWatches
<1>3. CASE ~unconfirmed'
  BY <1>1, <1>2, <1>3, ZenonT(60) DEF WatchInv
<1>4. CASE sending' \in {"commitSend", "drainCommitSend"}
  BY <1>1, <1>4, SMTT(30) DEF WatchInv
<1>5. CASE /\ unconfirmed
           /\ sending \notin {"commitSend", "drainCommitSend"}
           /\ sending' \in {"idle", "readyV0Send"}
           /\ UNCHANGED watchVars
  <2>1. ~shutdown => watchesCommit(watchdogs)
    BY <1>5, ZenonT(60) DEF WatchInv
  <2>2. watchdogs' = watchdogs /\ (shutdown' <=> shutdown)
    BY <1>5, SMTT(30) DEF watchVars, handlerWatches
  <2>3. ~shutdown' => watchesCommit(watchdogs')
    BY <2>1, <2>2, SMTT(30)
  <2>. QED BY <1>1, <1>5, <2>3, SMTT(30) DEF WatchInv
<1>6. CASE sending' = "idle" /\ watchCommitLocked
  <2>1. ~shutdown' => watchesCommit(watchdogs')
    BY <1>1, <1>6, SMTT(30) DEF handlerWatches
  <2>. QED BY <1>1, <1>6, <2>1, SMTT(30) DEF WatchInv
<1>. QED BY <1>3, <1>4, <1>5, <1>6, ZenonT(60) DEF handlerWatches

-----------------------------------------------------------------------------
(* The invariant holds at first and is kept.                               *)
LEMMA WatchInvInit == Init => WatchInv
<1> SUFFICES ASSUME Init PROVE WatchInv
  BY SMTT(30)
<1>1. \A w \in Watchdog : watchdogs[w].pc = "none"
  BY DEF Init, idleWatchdog
<1>2. superseded(watchdogs) /\ noSender(watchdogs)
  BY <1>1 DEF superseded, noSender, open
<1>3. DogsInv(watchdogs, epochReady)
  BY <1>2, SupersededInv
<1>. QED BY <1>3 DEF Init, WatchInv, unconfirmed

(* Every step of the session keeps it.                                     *)
LEMMA WatchInvNext ==
  ASSUME SessionInv, WatchInv, [Next]_allVars
  PROVE  WatchInv'
<1>1. CASE Gateway
  BY <1>1, GatewayWatches, HandlerWatched
<1>2. CASE HandlerContinues
  BY <1>2, HandlerContinuesWatches, HandlerWatched, SMTT(30)
<1>3. CASE \E w \in Watchdog : WatchdogStep(w)
  BY <1>3, WatchdogStepWatched, SMTT(30)
<1>4. CASE Caller
  BY <1>4, CallerWatched, SMTT(30)
<1>5. CASE UNCHANGED allVars
  <2>1. UNCHANGED <<sending, pendingEpoch, pendingCommitBytes, epochReady, watchdogs, shutdown>>
    BY <1>5, SMTT(30) DEF allVars, vars, sessionVars, epochVars, mlsVars, commitVars, recoveryVars, watchVars
  <2>. QED BY <2>1, ZenonT(60) DEF WatchInv, unconfirmed
<1>. QED BY <1>1, <1>2, <1>3, <1>4, <1>5, ZenonT(60) DEF Next

(* With the invariant of the session it is inductive.                      *)
LEMMA WatchInvCorrect ==
  Spec => [](SessionInv /\ WatchInv)
<1>1. SessionInv /\ WatchInv /\ [Next]_allVars => (SessionInv /\ WatchInv)'
  BY WatchInvNext, SessionInvNext, SMTT(30)
<1>. QED BY <1>1, WatchInvInit, SessionInvInit, PTL DEF Spec

(* A timeout, a late confirmation, a reset and a retry may meet in any     *)
(* order: there is one watchdog at most on the current channel.            *)
THEOREM OneSupervisorCorrect ==
  Spec => []OneSupervisor
<1>1. WatchInv => OneSupervisor
  BY LiveIsOpen, ZenonT(60) DEF WatchInv, DogsInv, OneSupervisor
<1>. QED BY <1>1, WatchInvCorrect, PTL

(* A watchdog recovers no session whose epochReady has been signalled.     *)
THEOREM ReadyEpochCorrect ==
  Spec => []ReadyEpochNotRecovered
<1>1. ASSUME WatchInv, NEW w \in Watchdog, watchdogs[w].pc \in {"invalidSend", "kpSend"}
      PROVE  ~epochReady
  <2>1. open(watchdogs, w)
    BY <1>1, ZenonT(60) DEF WatchInv, DogsInv, open
  <2>. QED BY <2>1, <1>1, ZenonT(60) DEF WatchInv, DogsInv
<1>2. WatchInv => ReadyEpochNotRecovered
  BY <1>1, ZenonT(60) DEF ReadyEpochNotRecovered
<1>. QED BY <1>2, WatchInvCorrect, PTL

(* The key package a watchdog sends is one the current client has the      *)
(* private keys of, whatever handlers ran during its back-off.             *)
THEOREM KeyPackageCorrect ==
  Spec => []KeyPackageOfCurrentClient
<1>1. ASSUME WatchInv, NEW w \in Watchdog, watchdogs[w].pc = "kpSend"
      PROVE  watchdogs[w].kp = "current"
  <2>1. ~watchdogs[w].closed
    BY <1>1, ZenonT(60) DEF WatchInv, DogsInv
  <2>. QED BY <2>1, <1>1, ZenonT(60) DEF WatchInv, DogsInv
<1>2. WatchInv => KeyPackageOfCurrentClient
  BY <1>1, ZenonT(60) DEF KeyPackageOfCurrentClient
<1>. QED BY <1>2, WatchInvCorrect, PTL

(* A commit of ours that is not confirmed has a watchdog on an open        *)
(* channel, as long as the session is not closed.                          *)
THEOREM UnconfirmedCommitCorrect ==
  Spec => []UnconfirmedCommitWatched
<1>1. ASSUME WatchInv, sendMuFree, unconfirmed, ~shutdown
      PROVE  \E w \in Watchdog : live(w)
  <2>1. watchesCommit(watchdogs)
    BY <1>1 DEF WatchInv, sendMuFree
  <2>. QED BY <2>1, SMTT(30) DEF watchesCommit, live
<1>2. WatchInv => UnconfirmedCommitWatched
  BY <1>1, ZenonT(60) DEF UnconfirmedCommitWatched, unconfirmed
<1>. QED BY <1>2, WatchInvCorrect, PTL

-----------------------------------------------------------------------------
(* After Close no goroutine is started, nor does one begin a send.         *)
quietDogs(dogs, next) ==
  \A w \in Watchdog :
    /\ dogs[w].pc = "none" => next[w].pc = "none"
    /\ next[w].pc \in {"invalidSend", "kpSend"} => dogs[w].pc = next[w].pc

(* goWatchdog has seen shutdown, so a handler leaves them where they are.  *)
LEMMA HandlerQuiet ==
  ASSUME SessionInv, shutdown, handlerDogs
  PROVE  quietDogs(watchdogs, watchdogs')
<1> DEFINE shut == closeEpochReady(watchdogs)
           stale == forgetKeyPackages(closeEpochReady(watchdogs))
<1>1. \A dogs, kind, closed : goWatchdog(dogs, kind, closed) = dogs
  BY ZenonT(60) DEF goWatchdog
<1>2. \A dogs, closed : watchRecoveryLocked(dogs, closed) = dogs
  BY <1>1, ZenonT(60) DEF watchRecoveryLocked
<1>3. watchdogs' \in {watchdogs, shut, stale}
  BY <1>1, <1>2, ZenonT(60) DEF handlerDogs, watchVars, watchDroppedSendLocked, watchCommitLocked
<1>4. \A w \in Watchdog : shut[w].pc = watchdogs[w].pc /\ stale[w].pc = watchdogs[w].pc
  BY ClosedSupersedes, ZenonT(60) DEF SessionInv, GoroutinesOK
<1> HIDE DEF shut, stale
<1>. QED BY <1>3, <1>4, ZenonT(60) DEF quietDogs

(* A watchdog sees shutdown at its next lock.                              *)
LEMMA WatchdogQuiet ==
  ASSUME SessionInv, shutdown, NEW w \in Watchdog, WatchdogStep(w)
  PROVE  quietDogs(watchdogs, watchdogs')
<1>t. watchdogs \in [Watchdog \cup Waiter -> Goroutine] /\ watchdogs[w] \in Goroutine
  BY ZenonT(60) DEF SessionInv, GoroutinesOK
<1>o. ASSUME NEW dog, dog.pc \notin {"invalidSend", "kpSend"}, watchdogs[w].pc # "none",
             watchdogs' = [watchdogs EXCEPT ![w] = dog]
      PROVE  quietDogs(watchdogs, watchdogs')
  <2>1. watchdogs'[w] = dog /\ \A v \in Watchdog \ {w} : watchdogs'[v] = watchdogs[v]
    BY <1>o, <1>t, SMTT(30)
  <2>. QED BY <1>o, <2>1, ZenonT(60) DEF quietDogs
<1>p. ASSUME NEW pc, NEW dog, dog = [watchdogs[w] EXCEPT !.pc = pc]
      PROVE  dog.pc = pc /\ [watchdogs EXCEPT ![w].pc = pc] = [watchdogs EXCEPT ![w] = dog]
  BY <1>p, <1>t, SMTT(30) DEF Goroutine
<1>i. idleWatchdog.pc = "none"
  BY SMTT(30) DEF idleWatchdog
<1>1. CASE WatchdogStops(w)
  BY <1>1, <1>i, <1>o, ZenonT(60) DEF WatchdogStops
<1>2. CASE WatchdogTimesOut(w)
  <2> DEFINE dog == [watchdogs[w] EXCEPT !.pc = "fired"]
  <2>1. watchdogs' = [watchdogs EXCEPT ![w].pc = "fired"] /\ watchdogs[w].pc = "waiting"
    BY <1>2, SMTT(30) DEF WatchdogTimesOut
  <2>2. watchdogs' = [watchdogs EXCEPT ![w] = dog] /\ dog.pc = "fired"
    BY <2>1, <1>p, ZenonT(60)
  <2> HIDE DEF dog
  <2>. QED BY <1>o, <2>1, <2>2, ZenonT(60)
<1>3. CASE RecoverAfterTimeout(w)
  <2>1. watchdogs' = [watchdogs EXCEPT ![w] = idleWatchdog] /\ watchdogs[w].pc = "fired"
    BY <1>3, ZenonT(60) DEF RecoverAfterTimeout, noLongerWanted
  <2>. QED BY <2>1, <1>i, <1>o, ZenonT(60)
<1>4. CASE WatchdogInvalidReturns(w)
  <2> DEFINE dogs == forgetKeyPackages(closeEpochReady(watchdogs))
             next == [pc |-> "attempt", kind |-> "recovery", closed |-> FALSE,
                      tries |-> 0, kp |-> "current"]
  <2>1. watchdogs' = [dogs EXCEPT ![w] = next] /\ watchdogs[w].pc = "invalidSend"
    BY <1>4, ZenonT(60) DEF WatchdogInvalidReturns, invalidateMLSStateLocked
  <2>2. /\ dogs \in [Watchdog \cup Waiter -> Goroutine]
        /\ \A v \in Watchdog : dogs[v].pc = watchdogs[v].pc
    <3>1. GoroutinesOK(dogs)
      BY CloseKeeps, ForgetKeeps, ZenonT(60) DEF SessionInv
    <3>. QED BY <3>1, <1>t, ClosedSupersedes, ZenonT(60) DEF GoroutinesOK
  <2>3. next.pc = "attempt"
    BY SMTT(30)
  <2> HIDE DEF dogs, next
  <2>4. watchdogs'[w] = next /\ \A v \in Watchdog \ {w} : watchdogs'[v].pc = watchdogs[v].pc
    BY <2>1, <2>2, SMTT(30)
  <2>5. ASSUME NEW v \in Watchdog
        PROVE  /\ watchdogs[v].pc = "none" => watchdogs'[v].pc = "none"
               /\ watchdogs'[v].pc \in {"invalidSend", "kpSend"} => watchdogs[v].pc = watchdogs'[v].pc
    <3>1. CASE v = w
      BY <3>1, <2>1, <2>3, <2>4, SMTT(30)
    <3>2. CASE v # w
      BY <3>2, <2>4, ZenonT(60)
    <3>. QED BY <3>1, <3>2, SMTT(30)
  <2>. QED BY <2>5, ZenonT(60) DEF quietDogs
<1>5. CASE SendAttempt(w)
  <2> DEFINE dog == [watchdogs[w] EXCEPT !.pc = "finish"]
  <2>1. watchdogs' = [watchdogs EXCEPT ![w].pc = "finish"] /\ watchdogs[w].pc = "attempt"
    BY <1>5, SMTT(30) DEF SendAttempt
  <2>2. watchdogs' = [watchdogs EXCEPT ![w] = dog] /\ dog.pc = "finish"
    BY <2>1, <1>p, ZenonT(60)
  <2> HIDE DEF dog
  <2>. QED BY <1>o, <2>1, <2>2, ZenonT(60)
<1>6. ASSUME NEW result \in {"sent", "not ready", "failed"}, WatchdogKeyPackageReturns(w, result)
      PROVE  quietDogs(watchdogs, watchdogs')
  <2> DEFINE pc == IF result = "not ready" /\ watchdogs[w].tries + 1 < RetryMaxAttempts
                   THEN "backoff" ELSE "finish"
             tries == IF result = "not ready" THEN watchdogs[w].tries + 1 ELSE watchdogs[w].tries
             dog == [[watchdogs[w] EXCEPT !.pc = pc] EXCEPT !.tries = tries]
  <2>1. watchdogs' = [watchdogs EXCEPT ![w] = dog] /\ dog.pc = pc
    BY <1>6, <1>t, ZenonT(60) DEF WatchdogKeyPackageReturns, Goroutine
  <2>2. watchdogs[w].pc = "kpSend"
    BY <1>6, ZenonT(60) DEF WatchdogKeyPackageReturns
  <2>3. pc \in {"backoff", "finish"}
    BY ZenonT(60)
  <2> HIDE DEF pc, tries, dog
  <2>. QED BY <2>1, <2>2, <2>3, <1>o, ZenonT(60)
<1>7. CASE BackoffEnds(w)
  <2> DEFINE dog == [watchdogs[w] EXCEPT !.pc = "attempt"]
  <2>1. watchdogs' = [watchdogs EXCEPT ![w].pc = "attempt"] /\ watchdogs[w].pc = "backoff"
    BY <1>7, SMTT(30) DEF BackoffEnds
  <2>2. watchdogs' = [watchdogs EXCEPT ![w] = dog] /\ dog.pc = "attempt"
    BY <2>1, <1>p, ZenonT(60)
  <2> HIDE DEF dog
  <2>. QED BY <1>o, <2>1, <2>2, ZenonT(60)
<1>8. CASE BackoffSuperseded(w)
  <2> DEFINE dog == [watchdogs[w] EXCEPT !.pc = "finish"]
  <2>1. watchdogs' = [watchdogs EXCEPT ![w].pc = "finish"] /\ watchdogs[w].pc = "backoff"
    BY <1>8, SMTT(30) DEF BackoffSuperseded
  <2>2. watchdogs' = [watchdogs EXCEPT ![w] = dog] /\ dog.pc = "finish"
    BY <2>1, <1>p, ZenonT(60)
  <2> HIDE DEF dog
  <2>. QED BY <1>o, <2>1, <2>2, ZenonT(60)
<1>9. CASE FinishRecovery(w)
  <2>1. watchdogs' = [watchdogs EXCEPT ![w] = idleWatchdog] /\ watchdogs[w].pc = "finish"
    BY <1>9 DEF FinishRecovery
  <2>. QED BY <2>1, <1>i, <1>o, ZenonT(60)
<1>. QED BY <1>1, <1>2, <1>3, <1>4, <1>5, <1>6, <1>7, <1>8, <1>9, ZenonT(60) DEF WatchdogStep

(* Once Close has set shutdown, whatever step comes next starts no         *)
(* watchdog and no send of one: what WaitShutdown waits for only gets      *)
(* less.                                                                   *)
THEOREM QuietAfterCloseCorrect == Spec => QuietAfterClose
<1>1. ASSUME SessionInv, WatchInv, [Next]_allVars, shutdown
      PROVE  quietDogs(watchdogs, watchdogs')
  <2>1. CASE Gateway \/ HandlerContinues
    <3>1. handlerDogs
      BY <1>1, <2>1, GatewayWatches, HandlerContinuesWatches, ZenonT(60) DEF handlerWatches
    <3>. QED BY <1>1, <3>1, HandlerQuiet, SMTT(30)
  <2>2. CASE \E w \in Watchdog : WatchdogStep(w)
    BY <1>1, <2>2, WatchdogQuiet, SMTT(30)
  <2>3. CASE Caller
    <3>1. \A w \in Watchdog : watchdogs'[w] = watchdogs[w]
      BY <1>1, <2>3, CallerLeavesWatchdogs, SMTT(30)
    <3>. QED BY <3>1, ZenonT(60) DEF quietDogs
  <2>4. CASE UNCHANGED allVars
    <3>1. watchdogs' = watchdogs
      BY <2>4, SMTT(30) DEF allVars, vars, sessionVars, recoveryVars, watchVars
    <3>. QED BY <3>1, ZenonT(60) DEF quietDogs
  <2>. QED BY <1>1, <2>1, <2>2, <2>3, <2>4, ZenonT(60) DEF Next
<1>2. SessionInv /\ WatchInv /\ [Next]_allVars =>
        [shutdown => \A w \in Watchdog :
           /\ watchdogs[w].pc = "none" => watchdogs'[w].pc = "none"
           /\ watchdogs'[w].pc \in {"invalidSend", "kpSend"} =>
                watchdogs[w].pc = watchdogs'[w].pc]_vars
  BY <1>1, ZenonT(60) DEF quietDogs
<1>. QED BY <1>2, WatchInvCorrect, PTL DEF Spec, QuietAfterClose

-----------------------------------------------------------------------------
(* A call that stays E2EE.  What a handler does to the queue ...           *)
handlerQueues ==
  /\ protocolVersion' # 0
  /\ proposalQueue' # <<>> => pendingEpoch' # Nil \/ sending' \in {"drain", "invalidSend"}
  /\ sending' = "commitSend" => proposalQueue' = <<>>

(* ... and to a session without a group: it has one then, a key package is *)
(* out or about to be sent, nothing changes for it, or a watchdog is       *)
(* started.                                                                *)
handlerRejoins ==
  \/ group' # Nil
  \/ superseded(watchdogs') /\ sending' \in keyPackageToCome
  \/ /\ group = Nil
     /\ UNCHANGED <<watchVars, recoveryAttempts>>
     /\ \/ pendingKeyPackage' = TRUE
        \/ /\ UNCHANGED pendingKeyPackage
           /\ sending \in keyPackageToCome => sending' \in keyPackageToCome
  \/ watchDroppedSendLocked /\ UNCHANGED recoveryAttempts
  \/ /\ sending = "recoverKpSend"
     /\ watchdogs' = watchRecoveryLocked(watchdogs, epochReady)
     /\ UNCHANGED recoveryAttempts

(* That is enough for the invariant.                                       *)
LEMMA HandlerKeepsE2EE ==
  ASSUME SessionInv, WatchInv, E2EEInv, handlerWatches, handlerQueues, handlerRejoins
  PROVE  E2EEInv'
<1>1. /\ watchdogs \in [Watchdog \cup Waiter -> Goroutine] /\ noSender(watchdogs)
      /\ shutdown' = shutdown
  BY HandlerAlone, ZenonT(60) DEF SessionInv, GoroutinesOK, handlerWatches
<1> SUFFICES /\ \A w \in Watchdog : open(watchdogs', w) /\ watchdogs'[w].kind = "commit" => group' # Nil
             /\ group' = Nil /\ ~pendingKeyPackage' /\ ~shutdown'
                  => \/ sending' \in keyPackageToCome
                     \/ ~superseded(watchdogs')
                     \/ recoveryAttempts' >= MaxRecoveryAttempts
  BY ZenonT(60) DEF handlerQueues, E2EEInv
<1>2. CASE group' # Nil
  BY <1>2, ZenonT(60)
<1>3. CASE superseded(watchdogs') /\ sending' \in keyPackageToCome
  BY <1>3, ZenonT(60) DEF superseded
<1>4. CASE /\ group = Nil
           /\ UNCHANGED <<watchVars, recoveryAttempts>>
           /\ \/ pendingKeyPackage' = TRUE
              \/ /\ UNCHANGED pendingKeyPackage
                 /\ sending \in keyPackageToCome => sending' \in keyPackageToCome
  <2>1. watchdogs' = watchdogs /\ recoveryAttempts' = recoveryAttempts
    BY <1>4, SMTT(30) DEF watchVars
  <2>2. \A w \in Watchdog : open(watchdogs, w) /\ watchdogs[w].kind = "commit" => FALSE
    BY <1>4, ZenonT(60) DEF E2EEInv
  <2>3. ~pendingKeyPackage /\ ~shutdown => \/ sending \in keyPackageToCome
                                           \/ ~superseded(watchdogs)
                                           \/ recoveryAttempts >= MaxRecoveryAttempts
    BY <1>4, ZenonT(60) DEF E2EEInv
  <2>4. ~pendingKeyPackage' => /\ ~pendingKeyPackage
                               /\ sending \in keyPackageToCome => sending' \in keyPackageToCome
    BY <1>4
  <2>5. ~shutdown' => ~shutdown
    BY <1>1, SMTT(30)
  <2>. QED BY <2>1, <2>2, <2>3, <2>4, <2>5, ZenonT(60)
<1>5. ASSUME NEW dogs \in [Watchdog \cup Waiter -> Goroutine], superseded(dogs), noSender(dogs),
             watchdogs' = watchRecoveryLocked(dogs, FALSE), UNCHANGED recoveryAttempts
      PROVE  /\ \A w \in Watchdog : open(watchdogs', w) /\ watchdogs'[w].kind = "commit" => FALSE
             /\ ~shutdown' => \/ ~superseded(watchdogs')
                              \/ recoveryAttempts' >= MaxRecoveryAttempts
  <2>1. /\ \A w \in Watchdog : open(watchdogs', w) => watchdogs'[w].kind = "recovery"
        /\ ~shutdown => \/ ~superseded(watchdogs')
                        \/ recoveryAttempts >= MaxRecoveryAttempts
    BY <1>5, RecoveryAlone, ZenonT(60)
  <2>. QED BY <1>1, <1>5, <2>1, ZenonT(60)
<1>6. CASE watchDroppedSendLocked /\ UNCHANGED recoveryAttempts
  <2> DEFINE shut == closeEpochReady(watchdogs)
  <2>1. /\ superseded(shut) /\ shut \in [Watchdog \cup Waiter -> Goroutine]
        /\ \A w \in Watchdog : shut[w].pc = watchdogs[w].pc
    BY <1>1, ClosedSupersedes, ZenonT(60)
  <2>2. watchdogs' = watchRecoveryLocked(shut, FALSE)
    BY <1>6 DEF watchDroppedSendLocked
  <2> HIDE DEF shut
  <2>3. noSender(shut)
    BY <1>1, <2>1, ZenonT(60) DEF noSender
  <2>. QED BY <1>5, <1>6, <2>1, <2>2, <2>3, ZenonT(60)
<1>7. CASE /\ sending = "recoverKpSend"
           /\ watchdogs' = watchRecoveryLocked(watchdogs, epochReady)
           /\ UNCHANGED recoveryAttempts
  <2>1. superseded(watchdogs) /\ epochReady = FALSE
    BY <1>7, ZenonT(60) DEF WatchInv, SessionInv, SessionTypeOK
  <2>. QED BY <1>1, <1>5, <1>7, <2>1, ZenonT(60)
<1>. QED BY <1>2, <1>3, <1>4, <1>6, <1>7, ZenonT(60) DEF handlerRejoins

(* A step that leaves the group, the epochs, the queue and the watchdogs   *)
(* to themselves, and no callback that was to send a key package.          *)
LEMMA NothingRejoins ==
  ASSUME E2EEInv, sending \notin keyPackageToCome \cup {"drain"}, sending' # "commitSend",
         UNCHANGED <<group, pendingEpoch, proposalQueue, pendingKeyPackage, watchVars,
                     recoveryAttempts>>,
         protocolVersion' # 0
  PROVE  handlerQueues /\ handlerRejoins
<1>1. proposalQueue # <<>> => pendingEpoch # Nil
  BY ZenonT(60) DEF E2EEInv, keyPackageToCome
<1>. QED BY <1>1, ZenonT(60) DEF handlerQueues, handlerRejoins

(* Activation: what is queued is drained, and the group is there.          *)
LEMMA ActivationRejoins ==
  ASSUME NEW new, NEW grp, NEW v, NEW queue, activate(new, grp, v, queue),
         grp # Nil, protocolVersion' # 0, proposalQueue' = queue
  PROVE  handlerQueues /\ handlerRejoins
<1>1. group' # Nil /\ sending' = IF queue = <<>> THEN "idle" ELSE "drain"
  BY ZenonT(60) DEF activate, afterActivation
<1>. QED BY <1>1 DEF handlerQueues, handlerRejoins

(* So is it when the epoch is to be acknowledged first.                    *)
LEMMA ConfirmationRejoins ==
  ASSUME NEW tid, NEW new, NEW grp, NEW queue, confirmTransition(tid, new, grp, queue),
         new # Nil, grp # Nil, protocolVersion # 0, proposalQueue' = queue
  PROVE  handlerQueues /\ handlerRejoins
<1>1. CASE tid = 0
  <2>1. activate(new, grp, protocolVersion, queue) /\ protocolVersion' = protocolVersion
    BY <1>1, SMTT(30) DEF confirmTransition
  <2>. QED BY <2>1, ActivationRejoins, SMTT(30)
<1>2. CASE tid # 0
  <2>1. /\ pendingEpoch' = new /\ group' = grp /\ sending' = "readySend"
        /\ protocolVersion' = protocolVersion
    BY <1>2 DEF confirmTransition, versionVars
  <2>. QED BY <2>1, SMTT(30) DEF handlerQueues, handlerRejoins
<1>. QED BY <1>1, <1>2, SMTT(30)

(* A batch that is processed, and committed or not, leaves a group.        *)
LEMMA ProcessRejoins ==
  ASSUME SessionTypeOK, newSecret \in Secret, group # Nil, NEW b, NEW sendPoint, NEW done,
         processAndCommitProposalBatchLocked(b, sendPoint, done)
  PROVE  group' # Nil /\ epochOf(group') # Nil
<1> DEFINE g == processProposalBatchLocked(b)
<1>1. group \in Group /\ users \subseteq Peer
  BY ZenonT(60) DEF SessionTypeOK
<1>2. g \in Group
  BY <1>1, ProcessedType, SMTT(30)
<1>3. group' \in {g, Committed(g, g.add, g.remove)}
  BY ZenonT(60) DEF processAndCommitProposalBatchLocked, commitProposalsLocked
<1> HIDE DEF g
<1>4. g.add \in SUBSET Peer
  BY <1>2, SMTT(30) DEF Group
<1>5. Committed(g, g.add, g.remove) \in Group
  BY <1>2, <1>4, CommittedType, SMTT(30)
<1>. QED BY <1>2, <1>3, <1>5, EpochOfType, ZenonT(60)

(* The handlers of the gateway's events, in a call that stays E2EE.        *)
LEMMA GatewayRejoins ==
  ASSUME SessionInv, E2EEInv, 0 \notin Version, Gateway
  PROVE  handlerQueues /\ handlerRejoins
<1> USE DEF versionVars, inputVars, epochVars, clientVars, groupVars, commitVars, mlsVars, recoveryVars
<1>v. protocolVersion # 0 /\ \A v \in Version : v # 0
  BY ZenonT(60) DEF E2EEInv
<1>i. sendMuFree => sending \notin keyPackageToCome \cup {"drain"}
  BY SMTT(30) DEF sendMuFree, keyPackageToCome
<1>q. sendMuFree /\ pendingEpoch = Nil => proposalQueue = <<>>
  BY DEF E2EEInv, sendMuFree
<1>e. sendMuFree /\ pendingEpoch # Nil => group # Nil /\ keptGroup(group, pendingGroupID) = group
  BY ZenonT(60) DEF sendMuFree, SessionInv, EpochInv, PendingEpochIsTheGroups, keptGroup
<1>m. ASSUME mayMint(1)
      PROVE  /\ CreateGroupWithExternalSender # Nil
             /\ \A members \in SUBSET Member :
                  newGroup(members) # Nil /\ epochOf(newGroup(members)) # Nil
             /\ newSecret \in Secret
  <2>1. newSecret \in Secret
    BY <1>m, RoomToMint, SMTT(30) DEF SessionInv
  <2>2. \A members \in SUBSET Member : newGroup(members) \in Group
    BY <2>1, NewGroupType, SMTT(30)
  <2>3. {Self} \in SUBSET Member
    BY SMTT(30) DEF Member
  <2>. QED BY <2>1, <2>2, <2>3, EpochOfType, ZenonT(60) DEF CreateGroupWithExternalSender
<1>s. ASSUME NEW queue, sending' \in keyPackageToCome, queue = <<>>, proposalQueue' = queue,
             protocolVersion' # 0, superseded(watchdogs')
      PROVE  handlerQueues /\ handlerRejoins
  BY <1>s DEF handlerQueues, handlerRejoins, keyPackageToCome
<1>c. superseded(forgetKeyPackages(closeEpochReady(watchdogs)))
  BY ClosedSupersedes, ZenonT(60) DEF SessionInv, GoroutinesOK
<1>1. ASSUME NEW v \in Version, OnSelectProtocolAck(v)
      PROVE  handlerQueues /\ handlerRejoins
  <2>1. /\ protocolVersion' = v /\ proposalQueue' = <<>> /\ sending' = "resetKpSend"
        /\ watchdogs' = forgetKeyPackages(closeEpochReady(watchdogs))
    BY <1>1, <1>v, SMTT(30) DEF OnSelectProtocolAck, forgetClient
  <2>. QED BY <1>s, <1>c, <1>v, <2>1, SMTT(30) DEF keyPackageToCome
<1>2. ASSUME NEW v \in Version, OnDavePrepareEpoch(v)
      PROVE  handlerQueues /\ handlerRejoins
  <2>1. /\ protocolVersion' = v /\ proposalQueue' = <<>> /\ sending' = "resetKpSend"
        /\ watchdogs' = forgetKeyPackages(closeEpochReady(watchdogs))
    BY <1>2, SMTT(30) DEF OnDavePrepareEpoch, forgetClient
  <2>. QED BY <1>s, <1>c, <1>v, <2>1, SMTT(30) DEF keyPackageToCome
<1>3. ASSUME NEW v \in Version, OnDavePrepareLaterEpoch(v)
      PROVE  handlerQueues /\ handlerRejoins
  <2>1. /\ sendMuFree /\ protocolVersion' = v /\ sending' = sending
        /\ UNCHANGED <<group, pendingEpoch, proposalQueue, pendingKeyPackage, watchVars,
                       recoveryAttempts>>
    BY <1>3, SMTT(30) DEF OnDavePrepareLaterEpoch
  <2>2. sending' # "commitSend"
    BY <2>1, SMTT(30) DEF sendMuFree
  <2>. QED BY <1>v, <1>i, <2>1, <2>2, NothingRejoins, SMTT(30)
<1>4. ASSUME NEW tid \in TransitionID, NEW v \in Version, OnDavePrepareTransition(tid, v)
      PROVE  handlerQueues /\ handlerRejoins
  <2>1. /\ sendMuFree /\ protocolVersion' = v /\ sending' = "idle"
        /\ UNCHANGED <<group, pendingEpoch, proposalQueue, pendingKeyPackage, watchVars,
                       recoveryAttempts>>
    BY <1>4, <1>v, SMTT(30) DEF OnDavePrepareTransition
  <2>. QED BY <1>v, <1>i, <2>1, NothingRejoins, SMTT(30)
<1>5. ASSUME NEW v \in Version, SoleMemberActivates(v)
      PROVE  handlerQueues /\ handlerRejoins
  <2>1. /\ sendMuFree /\ group # Nil /\ protocolVersion' # 0 /\ proposalQueue' = proposalQueue
        /\ activate(IF pendingEpoch # Nil THEN pendingEpoch ELSE epochOf(group),
                    IF pendingEpoch # Nil THEN keptGroup(group, pendingGroupID) ELSE group,
                    v, proposalQueue)
    BY <1>5, <1>v, SMTT(30) DEF SoleMemberActivates, soleMemberTransition
  <2>2. (IF pendingEpoch # Nil THEN keptGroup(group, pendingGroupID) ELSE group) # Nil
    BY <1>e, <2>1, ZenonT(60)
  <2>. QED BY <2>1, <2>2, ActivationRejoins, ZenonT(60)
<1>6. ASSUME NEW v \in Version, SoleMemberCreates(v)
      PROVE  handlerQueues /\ handlerRejoins
  <2>1. /\ protocolVersion' = v /\ proposalQueue' = proposalQueue
        /\ CreateGroupWithExternalSender # Nil
        /\ activate(epochOf(CreateGroupWithExternalSender), CreateGroupWithExternalSender, v, proposalQueue)
    BY <1>6, <1>m, ZenonT(60) DEF SoleMemberCreates, soleMemberTransition
  <2>. QED BY <1>v, <2>1, ActivationRejoins, ZenonT(60)
<1>7. ASSUME NEW v \in Version, SoleMemberSendsKeyPackage(v)
      PROVE  handlerQueues /\ handlerRejoins
  <2>1. /\ sendMuFree /\ protocolVersion' = v /\ sending' = "soleKpSend" /\ group = Nil
        /\ UNCHANGED <<proposalQueue, watchVars, recoveryAttempts, pendingKeyPackage>>
    BY <1>7, SMTT(30) DEF SoleMemberSendsKeyPackage, soleMemberTransition
  <2>2. proposalQueue = <<>>
    BY <1>q, <1>e, <2>1, ZenonT(60)
  <2>. QED BY <1>v, <2>1, <2>2, SMTT(30) DEF handlerQueues, handlerRejoins, keyPackageToCome
<1>8. ASSUME NEW v \in Version, SoleMemberWithoutContext(v)
      PROVE  handlerQueues /\ handlerRejoins
  <2>1. /\ sendMuFree /\ protocolVersion' = v /\ sending' = sending
        /\ UNCHANGED <<group, pendingEpoch, proposalQueue, pendingKeyPackage, watchVars,
                       recoveryAttempts>>
    BY <1>8, SMTT(30) DEF SoleMemberWithoutContext, soleMemberTransition
  <2>2. sending' # "commitSend"
    BY <2>1, SMTT(30) DEF sendMuFree
  <2>. QED BY <1>v, <1>i, <2>1, <2>2, NothingRejoins, SMTT(30)
<1>9. ASSUME NEW tid, ExecuteDowngrade(tid)
      PROVE  handlerQueues /\ handlerRejoins
  BY <1>9, <1>v, ZenonT(60) DEF ExecuteDowngrade
<1>10. ASSUME NEW tid, OnDaveExecuteTransition(tid)
       PROVE  handlerQueues /\ handlerRejoins
  <2>1. /\ sendMuFree /\ protocolVersion' = protocolVersion
        /\ UNCHANGED <<proposalQueue, pendingKeyPackage>>
    BY <1>10, SMTT(30) DEF OnDaveExecuteTransition
  <2>2. CASE pendingEpoch # Nil
    <3>1. activate(pendingEpoch, group, protocolVersion, proposalQueue)
      BY <1>10, <1>e, <2>1, <2>2, ZenonT(60) DEF OnDaveExecuteTransition
    <3>. QED BY <1>v, <1>e, <2>1, <2>2, <3>1, ActivationRejoins, SMTT(30)
  <2>3. CASE pendingEpoch = Nil
    <3>1. UNCHANGED <<sending, group, pendingEpoch, watchVars, recoveryAttempts>>
      BY <1>10, <2>3, SMTT(30) DEF OnDaveExecuteTransition
    <3>2. sending' # "commitSend"
      BY <2>1, <3>1, SMTT(30) DEF sendMuFree
    <3>. QED BY <1>v, <1>i, <2>1, <3>1, <3>2, NothingRejoins, SMTT(30)
  <2>. QED BY <2>2, <2>3, SMTT(30)
<1>11. CASE OnDaveMLSExternalSenderPackage
  <2>1. /\ sendMuFree /\ mayMint(1) /\ protocolVersion' = protocolVersion
        /\ UNCHANGED <<pendingEpoch, proposalQueue, pendingKeyPackage, watchVars, recoveryAttempts>>
        /\ \/ UNCHANGED <<sending, group>>
           \/ group' = CreateGroupWithExternalSender /\ UNCHANGED sending
           \/ group = Nil /\ sending' = "createKpSend"
    BY <1>11, ZenonT(60) DEF OnDaveMLSExternalSenderPackage
  <2>2. sending # "commitSend"
    BY <2>1, SMTT(30) DEF sendMuFree
  <2>3. CASE UNCHANGED <<sending, group>>
    BY <1>v, <1>i, <2>1, <2>2, <2>3, NothingRejoins, SMTT(30)
  <2>q. proposalQueue # <<>> => pendingEpoch # Nil
    BY <1>q, <2>1, ZenonT(60)
  <2>4. CASE group' = CreateGroupWithExternalSender /\ UNCHANGED sending
    <3>1. group' # Nil
      BY <1>m, <2>1, <2>4, SMTT(30)
    <3>. QED BY <1>v, <2>1, <2>2, <2>4, <2>q, <3>1, SMTT(30) DEF handlerQueues, handlerRejoins
  <2>5. CASE group = Nil /\ sending' = "createKpSend"
    BY <1>v, <2>1, <2>5, <2>q, SMTT(30) DEF handlerQueues, handlerRejoins, keyPackageToCome
  <2>. QED BY <2>1, <2>3, <2>4, <2>5, SMTT(30)
<1>12. ASSUME NEW part \in Payload, OnDaveMLSProposals(part)
       PROVE  handlerQueues /\ handlerRejoins
  <2> DEFINE b == [payload |-> part, base |-> gatewayEpoch]
  <2>1. /\ sendMuFree /\ mayMint(1) /\ protocolVersion' = protocolVersion
        /\ UNCHANGED <<pendingKeyPackage, watchVars, recoveryAttempts>>
    BY <1>12, SMTT(30) DEF OnDaveMLSProposals
  <2>2. CASE pendingEpoch # Nil
    <3>1. UNCHANGED <<sending, group, pendingEpoch>>
      BY <1>12, <2>2, SMTT(30) DEF OnDaveMLSProposals
    <3>2. sending' # "commitSend"
      BY <2>1, <3>1, SMTT(30) DEF sendMuFree
    <3>. QED BY <1>v, <1>e, <2>1, <2>2, <3>1, <3>2, SMTT(30) DEF handlerQueues, handlerRejoins
  <2>3. CASE pendingEpoch = Nil
    <3>1. /\ processAndCommitProposalBatchLocked(b, "commitSend", "idle")
          /\ proposalQueue' = proposalQueue
      BY <1>12, <2>3, SMTT(30) DEF OnDaveMLSProposals
    <3>2. handlerQueues
      BY <1>q, <1>v, <2>1, <2>3, <3>1, ZenonT(60) DEF handlerQueues
    <3> HIDE DEF b
    <3>3. CASE group = Nil
      BY <1>i, <2>1, <3>1, <3>2, <3>3, SMTT(30) DEF handlerRejoins, processAndCommitProposalBatchLocked
    <3>4. CASE group # Nil
      <4>1. group' # Nil
        BY <1>m, <2>1, <3>1, <3>4, ProcessRejoins, SMTT(30) DEF SessionInv
      <4>. QED BY <3>2, <4>1, ZenonT(60) DEF handlerRejoins
    <3>. QED BY <3>3, <3>4, SMTT(30)
  <2>. QED BY <2>2, <2>3, SMTT(30)
<1>13. ASSUME NEW tid \in TransitionID, OwnCommitConfirmed(tid)
       PROVE  handlerQueues /\ handlerRejoins
  <2>1. /\ sendMuFree /\ pendingEpoch # Nil /\ proposalQueue' = proposalQueue
        /\ confirmTransition(tid, pendingEpoch, group, proposalQueue)
    BY <1>13, <1>e, ZenonT(60) DEF OwnCommitConfirmed
  <2>. QED BY <1>v, <1>e, <2>1, ConfirmationRejoins, SMTT(30)
<1>14. ASSUME NEW tid \in TransitionID, NEW add \in SUBSET Peer, NEW remove,
              PeerCommitProcessed(tid, add, remove)
       PROVE  handlerQueues /\ handlerRejoins
  <2> DEFINE next == Committed(restoredGroup, add, remove)
  <2>1. /\ mayMint(1) /\ restoredGroup # Nil /\ proposalQueue' = proposalQueue
        /\ confirmTransition(tid, epochOf(next), next, proposalQueue)
    BY <1>14, ZenonT(60) DEF PeerCommitProcessed, commitsCached
  <2>2. restoredGroup \in Group
    BY <2>1, ZenonT(60) DEF restoredGroup, SessionInv, SessionTypeOK
  <2>3. next \in Group
    BY <1>m, <2>1, <2>2, CommittedType, SMTT(30)
  <2> HIDE DEF next
  <2>4. next # Nil /\ epochOf(next) # Nil
    BY <2>3, EpochOfType, SMTT(30)
  <2>. QED BY <1>v, <2>1, <2>4, ConfirmationRejoins, ZenonT(60)
<1>15. ASSUME NEW tid, NEW queue, NEW left, NEW hasGroupID, refuse(tid, queue, left, hasGroupID),
              left = restoredGroup \/ left # Nil
       PROVE  handlerQueues /\ handlerRejoins
  <2>1. /\ sendMuFree /\ protocolVersion' = protocolVersion /\ sending' = "invalidSend"
        /\ group' = left
        /\ UNCHANGED <<watchVars, recoveryAttempts, pendingKeyPackage>>
    BY <1>15, SMTT(30) DEF refuse
  <2>2. group = Nil \/ group' # Nil
    BY <1>15, <2>1, ZenonT(60) DEF restoredGroup, SessionInv, EpochInv, RollbackPossible
  <2>. QED BY <1>v, <2>1, <2>2, SMTT(30) DEF handlerQueues, handlerRejoins, keyPackageToCome
<1>16. ASSUME NEW tid \in TransitionID, NEW peers \in SUBSET Peer,
              WelcomeJoined(tid, {Self} \cup peers)
       PROVE  handlerQueues /\ handlerRejoins
  <2> DEFINE joined == newGroup({Self} \cup peers)
  <2>1. /\ mayMint(1) /\ proposalQueue' = queueAfterWelcome
        /\ confirmTransition(tid, epochOf(joined), joined, queueAfterWelcome)
    BY <1>16, ZenonT(60) DEF WelcomeJoined
  <2>2. joined # Nil /\ epochOf(joined) # Nil
    BY <1>m, <2>1, SMTT(30) DEF Member
  <2> HIDE DEF joined
  <2>. QED BY <1>v, <2>1, <2>2, ConfirmationRejoins, ZenonT(60)
<1>17. ASSUME NEW tid, NEW add \in SUBSET Peer, NEW remove, CommitUnusable(tid, add, remove)
       PROVE  handlerQueues /\ handlerRejoins
  <2> DEFINE next == Committed(restoredGroup, add, remove)
  <2>1. /\ mayMint(1) /\ restoredGroup # Nil
        /\ refuse(tid, proposalQueue, next, restoredGroupID)
    BY <1>17, ZenonT(60) DEF CommitUnusable, commitsCached
  <2>2. restoredGroup \in Group
    BY <2>1, ZenonT(60) DEF restoredGroup, SessionInv, SessionTypeOK
  <2>3. next \in Group
    BY <1>m, <2>1, <2>2, CommittedType, SMTT(30)
  <2> HIDE DEF next
  <2>4. next # Nil
    BY <2>3, EpochOfType, SMTT(30)
  <2>. QED BY <1>15, <2>1, <2>4, ZenonT(60)
<1>18. ASSUME NEW tid, NEW peers \in SUBSET Peer, NEW twice \in SUBSET ({Self} \cup peers),
              WelcomeUnusable(tid, {Self} \cup peers, twice)
       PROVE  handlerQueues /\ handlerRejoins
  <2> DEFINE joined == [newGroup({Self} \cup peers) EXCEPT !.twice = twice]
  <2>1. /\ mayMint(1)
        /\ \/ refuse(tid, queueAfterWelcome, joined, TRUE)
           \/ refuse(tid, queueAfterWelcome, joined, restoredGroupID)
    BY <1>18, ZenonT(60) DEF WelcomeUnusable
  <2>2. joined \in Group
    BY <1>m, <2>1 DEF newGroup, Group, Member
  <2> HIDE DEF joined
  <2>3. joined # Nil
    BY <2>2, EpochOfType, SMTT(30)
  <2>. QED BY <1>15, <2>1, <2>3, ZenonT(60)
<1>. QED BY <1>1, <1>2, <1>3, <1>4, <1>5, <1>6, <1>7, <1>8, <1>9, <1>10, <1>11, <1>12, <1>13,
            <1>14, <1>15, <1>16, <1>17, <1>18, ZenonT(60) DEF Gateway, CommitRefused, WelcomeRefused

(* A handler after its callback.                                           *)
LEMMA HandlerContinuesRejoins ==
  ASSUME SessionInv, E2EEInv, HandlerContinues
  PROVE  handlerQueues /\ handlerRejoins
<1> USE DEF versionVars, inputVars, epochVars, clientVars, groupVars, commitVars, mlsVars, recoveryVars
<1>v. protocolVersion # 0
  BY ZenonT(60) DEF E2EEInv
<1>q. sending \notin {"drain", "invalidSend"} => (proposalQueue # <<>> => pendingEpoch # Nil)
  BY ZenonT(60) DEF E2EEInv
<1>u. ASSUME sending \notin {"drain", "invalidSend"}, sending' = "idle",
             UNCHANGED <<protocolVersion, proposalQueue, pendingEpoch>>
      PROVE  handlerQueues
  BY <1>u, <1>v, <1>q, SMTT(30) DEF handlerQueues
<1>m. ASSUME mayMint(1)
      PROVE  CreateGroupWithExternalSender # Nil /\ newSecret \in Secret
  <2>1. newSecret \in Secret
    BY <1>m, RoomToMint, SMTT(30) DEF SessionInv
  <2>2. {Self} \in SUBSET Member
    BY SMTT(30) DEF Member
  <2>3. CreateGroupWithExternalSender \in Group
    BY <2>1, <2>2, NewGroupType, SMTT(30) DEF CreateGroupWithExternalSender
  <2>. QED BY <2>1, <2>3, EpochOfType, SMTT(30)
<1>1. ASSUME NEW ok \in BOOLEAN, KeyPackageReturns(ok)
      PROVE  handlerQueues /\ handlerRejoins
  <2>1. handlerQueues
    BY <1>1, <1>u DEF KeyPackageReturns
  <2>2. CASE ok
    <3>1. pendingKeyPackage' = TRUE /\ UNCHANGED <<group, watchVars, recoveryAttempts>>
      BY <1>1, <2>2 DEF KeyPackageReturns
    <3>. QED BY <2>1, <3>1, ZenonT(60) DEF handlerRejoins
  <2>3. CASE ~ok
    BY <1>1, <2>1, <2>3, ZenonT(60) DEF KeyPackageReturns, handlerRejoins
  <2>. QED BY <2>2, <2>3, SMTT(30)
<1>2. CASE ReadyV0Returns
  <2>1. /\ sending = "readyV0Send" /\ sending' = "idle" /\ protocolVersion' = protocolVersion
        /\ UNCHANGED <<group, pendingEpoch, proposalQueue, pendingKeyPackage, watchVars,
                       recoveryAttempts>>
    BY <1>2, SMTT(30) DEF ReadyV0Returns
  <2>. QED BY <1>v, <2>1, NothingRejoins, SMTT(30) DEF keyPackageToCome
<1>3. ASSUME NEW ok \in BOOLEAN, SoleMemberKeyPackageReturns(ok)
      PROVE  handlerQueues /\ handlerRejoins
  <2>1. sending = "soleKpSend" /\ UNCHANGED <<protocolVersion, proposalQueue>>
    BY <1>3, SMTT(30) DEF SoleMemberKeyPackageReturns
  <2>2. CASE ok
    <3>1. activate(epochOf(CreateGroupWithExternalSender), CreateGroupWithExternalSender,
                   protocolVersion, proposalQueue)
      BY <1>3, <2>2, ZenonT(60) DEF SoleMemberKeyPackageReturns
    <3>2. mayMint(1)
      BY <2>1 DEF SessionInv, HandlerInv
    <3>. QED BY <1>v, <1>m, <2>1, <3>1, <3>2, ActivationRejoins, SMTT(30)
  <2>3. CASE ~ok
    <3>1. watchDroppedSendLocked /\ sending' = "idle" /\ UNCHANGED <<pendingEpoch, recoveryAttempts>>
      BY <1>3, <2>3, SMTT(30) DEF SoleMemberKeyPackageReturns
    <3>2. handlerQueues
      BY <1>u, <2>1, <3>1, SMTT(30)
    <3>. QED BY <3>1, <3>2, ZenonT(60) DEF handlerRejoins
  <2>. QED BY <2>2, <2>3, SMTT(30)
<1>4. ASSUME NEW ok \in BOOLEAN, CreateKeyPackageReturns(ok)
      PROVE  handlerQueues /\ handlerRejoins
  <2>1. handlerQueues
    BY <1>4, <1>u, SMTT(30) DEF CreateKeyPackageReturns
  <2>2. CASE ok
    <3>1. group' = CreateGroupWithExternalSender /\ mayMint(1)
      BY <1>4, <2>2, ZenonT(60) DEF CreateKeyPackageReturns, SessionInv, HandlerInv
    <3>. QED BY <1>m, <2>1, <3>1, SMTT(30) DEF handlerRejoins
  <2>3. CASE ~ok
    BY <1>4, <2>1, <2>3, ZenonT(60) DEF CreateKeyPackageReturns, handlerRejoins
  <2>. QED BY <2>2, <2>3, SMTT(30)
<1>5. CASE drainProposalQueueLocked
  <2> DEFINE done == IF Len(proposalQueue) = 1 THEN "idle" ELSE "drain"
  <2>1. /\ sending = "drain" /\ proposalQueue' = Tail(proposalQueue)
        /\ processAndCommitProposalBatchLocked(Head(proposalQueue), "drainCommitSend", done)
        /\ UNCHANGED <<protocolVersion, pendingKeyPackage, watchVars, recoveryAttempts>>
    BY <1>5, SMTT(30) DEF drainProposalQueueLocked
  <2>2. /\ proposalQueue \in Seq(Batch) /\ proposalQueue # <<>>
        /\ minted + 0 + Len(proposalQueue) <= MaxSecret
        /\ MaxSecret \in Nat /\ minted \in Nat /\ Len(proposalQueue) \in Nat
    BY <2>1, Bounds, SMTT(30) DEF SessionInv, HandlerInv, mayMint
  <2>3. done = "idle" => Tail(proposalQueue) = <<>>
    <3>1. Tail(proposalQueue) \in Seq(Batch) /\ Len(Tail(proposalQueue)) = Len(proposalQueue) - 1
      BY <2>2
    <3>2. done = "idle" => Len(Tail(proposalQueue)) = 0
      BY <2>2, <3>1, SMTT(30)
    <3>. QED BY <3>1, <3>2, SMTT(30)
  <2>4. mayMint(0) /\ newSecret \in Secret
    BY <2>1, <2>2 DEF mayMint, newSecret, Secret
  <2>5. done \in {"idle", "drain"}
    OBVIOUS
  <2> HIDE DEF done
  <2>6. \/ sending' = "drainCommitSend" /\ pendingEpoch' = epochOf(group') /\ group # Nil
        \/ sending' = done
    BY <2>1, ZenonT(60) DEF processAndCommitProposalBatchLocked, commitProposalsLocked
  <2>7. group # Nil => group' # Nil /\ epochOf(group') # Nil
    BY <2>1, <2>4, ProcessRejoins, ZenonT(60) DEF SessionInv
  <2>8. handlerQueues
    BY <1>v, <2>1, <2>3, <2>5, <2>6, <2>7, SMTT(30) DEF handlerQueues
  <2>9. CASE group = Nil
    <3>1. sending \notin keyPackageToCome
      BY <2>1, SMTT(30) DEF keyPackageToCome
    <3>. QED BY <2>1, <2>8, <2>9, <3>1, ZenonT(60) DEF handlerRejoins
  <2>10. CASE group # Nil
    BY <2>7, <2>8, <2>10, ZenonT(60) DEF handlerRejoins
  <2>. QED BY <2>9, <2>10, SMTT(30)
<1>6. ASSUME NEW ok \in BOOLEAN, CommitWelcomeReturns(ok)
      PROVE  handlerQueues /\ handlerRejoins
  <2>1. /\ sending \in {"commitSend", "drainCommitSend"}
        /\ UNCHANGED <<protocolVersion, proposalQueue, pendingKeyPackage, recoveryAttempts>>
    BY <1>6, SMTT(30) DEF CommitWelcomeReturns
  <2>2. pendingCommitBytes /\ group # Nil /\ preCommitGroupState # Nil
    BY <2>1, ZenonT(60) DEF SessionInv, HandlerInv, EpochInv, RollbackPossible
  <2>3. CASE ok
    <3>1. sending' = "idle" /\ UNCHANGED <<pendingEpoch, group>>
      BY <1>6, <2>3, SMTT(30) DEF CommitWelcomeReturns
    <3>2. handlerQueues
      BY <1>u, <2>1, <3>1, SMTT(30)
    <3>. QED BY <2>2, <3>1, <3>2, ZenonT(60) DEF handlerRejoins
  <2>4. CASE ~ok
    <3>1. /\ sending' = IF sending = "drainCommitSend" /\ proposalQueue # <<>> THEN "drain" ELSE "idle"
          /\ group' = preCommitGroupState
      BY <1>6, <2>2, <2>4, ZenonT(60) DEF CommitWelcomeReturns, restorePreCommitStateLocked, restoredGroup
    <3>2. sending = "commitSend" => proposalQueue = <<>>
      BY ZenonT(60) DEF E2EEInv
    <3>3. handlerQueues
      BY <1>v, <2>1, <3>1, <3>2, SMTT(30) DEF handlerQueues
    <3>. QED BY <2>2, <3>1, <3>3, ZenonT(60) DEF handlerRejoins
  <2>. QED BY <2>3, <2>4, SMTT(30)
<1>7. ASSUME NEW ok \in BOOLEAN, ReadyReturns(ok)
      PROVE  handlerQueues /\ handlerRejoins
  <2>1. /\ sending = "readySend" /\ sending' = "idle" /\ protocolVersion' = protocolVersion
        /\ UNCHANGED <<group, pendingEpoch, proposalQueue, pendingKeyPackage, recoveryAttempts>>
        /\ UNCHANGED watchVars \/ watchDroppedSendLocked
    BY <1>7, SMTT(30) DEF ReadyReturns
  <2>2. CASE UNCHANGED watchVars
    BY <1>v, <2>1, <2>2, NothingRejoins, SMTT(30) DEF keyPackageToCome
  <2>3. CASE watchDroppedSendLocked
    <3>1. handlerQueues
      BY <1>u, <2>1, SMTT(30)
    <3>. QED BY <2>1, <2>3, <3>1, ZenonT(60) DEF handlerRejoins
  <2>. QED BY <2>1, <2>2, <2>3, SMTT(30)
<1>8. CASE InvalidReturns
  <2>1. /\ sending' = "recoverKpSend" /\ proposalQueue' = <<>> /\ protocolVersion' = protocolVersion
        /\ watchdogs' = forgetKeyPackages(closeEpochReady(watchdogs))
    BY <1>8 DEF InvalidReturns, invalidateMLSStateLocked
  <2>2. superseded(watchdogs')
    BY <2>1, ClosedSupersedes, ZenonT(60) DEF SessionInv, GoroutinesOK
  <2>. QED BY <1>v, <2>1, <2>2, SMTT(30) DEF handlerQueues, handlerRejoins, keyPackageToCome
<1>9. ASSUME NEW ok \in BOOLEAN, RecoverKeyPackageReturns(ok)
      PROVE  handlerQueues /\ handlerRejoins
  <2>1. handlerQueues
    BY <1>9, <1>u, SMTT(30) DEF RecoverKeyPackageReturns
  <2>. QED BY <1>9, <2>1, ZenonT(60) DEF RecoverKeyPackageReturns, handlerRejoins
<1>. QED BY <1>1, <1>2, <1>3, <1>4, <1>5, <1>6, <1>7, <1>8, <1>9, ZenonT(60) DEF HandlerContinues

(* A watchdog that goes on leaves nobody alone: it still has its channel,  *)
(* had none open, was told to stop, or there is a group or no attempt left. *)
LEMMA StepKeepsE2EE ==
  ASSUME SessionInv, E2EEInv, NEW w \in Watchdog, NEW dog,
         watchdogs' = [watchdogs EXCEPT ![w] = dog],
         dog.pc # "none" /\ ~dog.closed /\ dog.kind = "commit"
           => open(watchdogs, w) /\ watchdogs[w].kind = "commit",
         UNCHANGED <<sending, protocolVersion, proposalQueue, pendingEpoch, group, shutdown>>,
         recoveryAttempts >= MaxRecoveryAttempts => recoveryAttempts' >= MaxRecoveryAttempts,
         \/ dog.pc # "none" /\ ~dog.closed
         \/ ~open(watchdogs, w) /\ UNCHANGED pendingKeyPackage
         \/ shutdown
         \/ group # Nil
         \/ recoveryAttempts' >= MaxRecoveryAttempts
  PROVE  E2EEInv'
<1>1. watchdogs'[w] = dog /\ \A v \in Watchdog \ {w} : watchdogs'[v] = watchdogs[v]
  BY ZenonT(60) DEF SessionInv, GoroutinesOK
<1>2. ASSUME NEW v \in Watchdog, open(watchdogs', v), watchdogs'[v].kind = "commit"
      PROVE  group' # Nil
  <2>1. open(watchdogs, v) /\ watchdogs[v].kind = "commit"
    <3>1. CASE v = w
      BY <1>1, <1>2, <3>1, ZenonT(60) DEF open
    <3>2. CASE v # w
      BY <1>1, <1>2, <3>2, ZenonT(60) DEF open
    <3>. QED BY <3>1, <3>2, ZenonT(60)
  <2>. QED BY <2>1, ZenonT(60) DEF E2EEInv
<1>3. ASSUME group' = Nil, ~pendingKeyPackage', ~shutdown'
      PROVE  \/ sending' \in keyPackageToCome
             \/ ~superseded(watchdogs')
             \/ recoveryAttempts' >= MaxRecoveryAttempts
  <2>1. CASE dog.pc # "none" /\ ~dog.closed
    BY <1>1, <2>1, ZenonT(60) DEF superseded, open
  <2>2. CASE ~open(watchdogs, w) /\ UNCHANGED pendingKeyPackage
    <3>1. ~pendingKeyPackage /\ ~shutdown /\ group = Nil
      BY <1>3, <2>2, ZenonT(60)
    <3>2. \/ sending \in keyPackageToCome
          \/ ~superseded(watchdogs)
          \/ recoveryAttempts >= MaxRecoveryAttempts
      BY <3>1, ZenonT(60) DEF E2EEInv
    <3>3. CASE ~superseded(watchdogs)
      <4>1. PICK v \in Watchdog : open(watchdogs, v)
        BY <3>3, ZenonT(60) DEF superseded
      <4>2. v # w
        BY <2>2, <4>1, ZenonT(60)
      <4>. QED BY <1>1, <4>1, <4>2, ZenonT(60) DEF superseded, open
    <3>. QED BY <3>2, <3>3, ZenonT(60)
  <2>3. CASE shutdown \/ group # Nil \/ recoveryAttempts' >= MaxRecoveryAttempts
    BY <1>3, <2>3, SMTT(30)
  <2>. QED BY <2>1, <2>2, <2>3, ZenonT(60)
<1>4. /\ protocolVersion' # 0
      /\ proposalQueue' # <<>> => pendingEpoch' # Nil \/ sending' \in {"drain", "invalidSend"}
      /\ sending' = "commitSend" => proposalQueue' = <<>>
  BY ZenonT(60) DEF E2EEInv
<1>. QED BY <1>2, <1>3, <1>4, ZenonT(60) DEF E2EEInv

(* The steps of a watchdog in a call that stays E2EE.                      *)
LEMMA WatchdogStepKeepsE2EE ==
  ASSUME SessionInv, WatchInv, E2EEInv, NEW w \in Watchdog, WatchdogStep(w)
  PROVE  E2EEInv'
<1> USE DEF versionVars, epochVars, clientVars, groupVars, commitVars, mlsVars
<1>t. watchdogs \in [Watchdog \cup Waiter -> Goroutine] /\ watchdogs[w] \in Goroutine
  BY ZenonT(60) DEF SessionInv, GoroutinesOK
<1>i. idleWatchdog.pc = "none"
  BY DEF idleWatchdog
<1>o. ASSUME NEW dog, dog.pc # "none", dog.closed = watchdogs[w].closed, watchdogs[w].pc # "none",
             dog.kind = watchdogs[w].kind, watchdogs' = [watchdogs EXCEPT ![w] = dog], quiet
      PROVE  E2EEInv'
  <2>1. dog.pc # "none" /\ ~dog.closed <=> open(watchdogs, w)
    BY <1>o, SMTT(30) DEF open
  <2>2. UNCHANGED <<sending, protocolVersion, proposalQueue, pendingEpoch, group, shutdown,
                    pendingKeyPackage, recoveryAttempts>>
    BY <1>o DEF quiet
  <2>. QED BY <1>o, <2>1, <2>2, StepKeepsE2EE, ZenonT(60)
<1>p. ASSUME NEW pc, NEW dog, dog = [watchdogs[w] EXCEPT !.pc = pc]
      PROVE  /\ dog.pc = pc /\ dog.kind = watchdogs[w].kind /\ dog.closed = watchdogs[w].closed
             /\ [watchdogs EXCEPT ![w].pc = pc] = [watchdogs EXCEPT ![w] = dog]
  BY <1>p, <1>t, SMTT(30) DEF Goroutine
<1>1. CASE WatchdogStops(w)
  <2>1. /\ watchdogs' = [watchdogs EXCEPT ![w] = idleWatchdog]
        /\ watchdogs[w].closed \/ shutdown
        /\ UNCHANGED <<sending, protocolVersion, proposalQueue, pendingEpoch, group, shutdown,
                       pendingKeyPackage, recoveryAttempts>>
    BY <1>1 DEF WatchdogStops, quiet
  <2>2. ~open(watchdogs, w) \/ shutdown
    BY <2>1, SMTT(30) DEF open
  <2>. QED BY <1>i, <2>1, <2>2, StepKeepsE2EE, ZenonT(60)
<1>2. CASE WatchdogTimesOut(w)
  <2> DEFINE dog == [watchdogs[w] EXCEPT !.pc = "fired"]
  <2>1. /\ watchdogs' = [watchdogs EXCEPT ![w] = dog] /\ dog.pc = "fired"
        /\ dog.kind = watchdogs[w].kind /\ dog.closed = watchdogs[w].closed
        /\ watchdogs[w].pc = "waiting" /\ quiet
    BY <1>2, <1>p, ZenonT(60) DEF WatchdogTimesOut
  <2> HIDE DEF dog
  <2>. QED BY <1>o, <2>1, ZenonT(60)
<1>3. CASE RecoverAfterTimeout(w)
  <2>1. /\ UNCHANGED <<sending, protocolVersion, proposalQueue, pendingEpoch, group, shutdown,
                       pendingKeyPackage>>
        /\ watchdogs[w].pc = "fired"
        /\ recoveryAttempts' = recoveryAttempts \/ recoveryAttempts' = recoveryAttempts + 1
    BY <1>3 DEF RecoverAfterTimeout
  <2>2. recoveryAttempts >= MaxRecoveryAttempts => recoveryAttempts' >= MaxRecoveryAttempts
    BY <2>1, RecoveryAssumption, SMTT(30) DEF SessionInv, SessionTypeOK
  <2>3. CASE noLongerWanted(w)
    <3>1. watchdogs' = [watchdogs EXCEPT ![w] = idleWatchdog]
      BY <1>3, <2>3, SMTT(30) DEF RecoverAfterTimeout
    <3>2. ~open(watchdogs, w) \/ shutdown \/ group # Nil
      BY <2>3, ZenonT(60) DEF noLongerWanted, open, E2EEInv
    <3>. QED BY <1>i, <2>1, <2>2, <3>1, <3>2, StepKeepsE2EE, ZenonT(60)
  <2>4. CASE ~noLongerWanted(w)
    <3> DEFINE dog == [watchdogs[w] EXCEPT !.pc = "invalidSend"]
    <3>1. /\ watchdogs' = [watchdogs EXCEPT ![w] = dog] /\ dog.pc = "invalidSend"
          /\ dog.kind = watchdogs[w].kind /\ dog.closed = watchdogs[w].closed
          /\ ~watchdogs[w].closed
      BY <1>3, <2>4, <1>p, ZenonT(60) DEF RecoverAfterTimeout, noLongerWanted
    <3> HIDE DEF dog
    <3>2. open(watchdogs, w)
      BY <2>1, <3>1, SMTT(30) DEF open
    <3>. QED BY <2>1, <2>2, <3>1, <3>2, StepKeepsE2EE, ZenonT(60)
  <2>. QED BY <2>3, <2>4
<1>4. CASE WatchdogInvalidReturns(w)
  <2> DEFINE dogs == forgetKeyPackages(closeEpochReady(watchdogs))
             next == [pc |-> "attempt", kind |-> "recovery", closed |-> FALSE,
                      tries |-> 0, kp |-> "current"]
  <2>1. /\ superseded(dogs) /\ dogs \in [Watchdog \cup Waiter -> Goroutine]
    <3>1. GoroutinesOK(dogs)
      BY CloseKeeps, ForgetKeeps, ZenonT(60) DEF SessionInv
    <3>. QED BY <3>1, <1>t, ClosedSupersedes, ZenonT(60) DEF GoroutinesOK
  <2>2. /\ watchdogs' = [dogs EXCEPT ![w] = next] /\ proposalQueue' = <<>>
        /\ UNCHANGED <<sending, protocolVersion>> /\ watchdogs[w].pc = "invalidSend"
    BY <1>4, ZenonT(60) DEF WatchdogInvalidReturns, invalidateMLSStateLocked
  <2>3. next.pc = "attempt" /\ ~next.closed /\ next.kind = "recovery"
    OBVIOUS
  <2> HIDE DEF dogs, next
  <2>4. watchdogs'[w] = next /\ \A v \in Watchdog \ {w} : watchdogs'[v] = dogs[v]
    BY <2>1, <2>2, ZenonT(60)
  <2>5. open(watchdogs', w)
    BY <2>3, <2>4, SMTT(30) DEF open
  <2>6. \A v \in Watchdog : open(watchdogs', v) => v = w
    BY <2>1, <2>4, ZenonT(60) DEF superseded, open
  <2>7. \A v \in Watchdog : open(watchdogs', v) /\ watchdogs'[v].kind = "commit" => FALSE
    BY <2>3, <2>4, <2>6, SMTT(30)
  <2>. QED BY <2>2, <2>5, <2>7, ZenonT(60) DEF E2EEInv, superseded
<1>5. CASE SendAttempt(w)
  <2> DEFINE pc == IF shutdown \/ watchdogs[w].closed \/ pendingKeyPackage THEN "finish" ELSE "kpSend"
             dog == [watchdogs[w] EXCEPT !.pc = pc]
  <2>1. watchdogs' = [watchdogs EXCEPT ![w].pc = pc] /\ watchdogs[w].pc = "attempt" /\ quiet
    BY <1>5, SMTT(30) DEF SendAttempt
  <2>2. pc # "none"
    OBVIOUS
  <2> HIDE DEF pc
  <2>3. /\ watchdogs' = [watchdogs EXCEPT ![w] = dog] /\ dog.pc = pc
        /\ dog.kind = watchdogs[w].kind /\ dog.closed = watchdogs[w].closed
    BY <2>1, <1>p, ZenonT(60)
  <2> HIDE DEF dog
  <2>. QED BY <1>o, <2>1, <2>2, <2>3, ZenonT(60)
<1>6. ASSUME NEW result \in {"sent", "not ready", "failed"}, WatchdogKeyPackageReturns(w, result)
      PROVE  E2EEInv'
  <2> DEFINE pc == IF result = "not ready" /\ watchdogs[w].tries + 1 < RetryMaxAttempts
                   THEN "backoff" ELSE "finish"
             tries == IF result = "not ready" THEN watchdogs[w].tries + 1 ELSE watchdogs[w].tries
             dog == [[watchdogs[w] EXCEPT !.pc = pc] EXCEPT !.tries = tries]
  <2>1. /\ dog.pc = pc /\ dog.kind = watchdogs[w].kind /\ dog.closed = watchdogs[w].closed
        /\ watchdogs[w].pc = "kpSend"
    BY <1>6, <1>t, ZenonT(60) DEF WatchdogKeyPackageReturns, Goroutine
  <2>2. watchdogs' = [watchdogs EXCEPT ![w] = dog]
    BY <1>6, <1>t, ZenonT(60) DEF WatchdogKeyPackageReturns, Goroutine
  <2>3. UNCHANGED <<sending, protocolVersion, proposalQueue, pendingEpoch, group, shutdown,
                    recoveryAttempts>>
    BY <1>6, ZenonT(60) DEF WatchdogKeyPackageReturns
  <2>4. pc # "none"
    BY ZenonT(60)
  <2> HIDE DEF pc, tries, dog
  <2>5. ~watchdogs[w].closed
    BY <2>1, ZenonT(60) DEF WatchInv, DogsInv
  <2>6. open(watchdogs, w)
    BY <2>1, <2>5, ZenonT(60) DEF open
  <2>. QED BY <2>1, <2>2, <2>3, <2>4, <2>5, <2>6, StepKeepsE2EE, ZenonT(60)
<1>7. CASE BackoffEnds(w)
  <2> DEFINE dog == [watchdogs[w] EXCEPT !.pc = "attempt"]
  <2>1. /\ watchdogs' = [watchdogs EXCEPT ![w] = dog] /\ dog.pc = "attempt"
        /\ dog.kind = watchdogs[w].kind /\ dog.closed = watchdogs[w].closed
        /\ watchdogs[w].pc = "backoff" /\ quiet
    BY <1>7, <1>p, ZenonT(60) DEF BackoffEnds
  <2> HIDE DEF dog
  <2>. QED BY <1>o, <2>1, ZenonT(60)
<1>8. CASE BackoffSuperseded(w)
  <2> DEFINE dog == [watchdogs[w] EXCEPT !.pc = "finish"]
  <2>1. /\ watchdogs' = [watchdogs EXCEPT ![w] = dog] /\ dog.pc = "finish"
        /\ dog.kind = watchdogs[w].kind /\ dog.closed = watchdogs[w].closed
        /\ watchdogs[w].pc = "backoff" /\ quiet
    BY <1>8, <1>p, ZenonT(60) DEF BackoffSuperseded
  <2> HIDE DEF dog
  <2>. QED BY <1>o, <2>1, ZenonT(60)
<1>9. CASE FinishRecovery(w)
  <2>1. /\ UNCHANGED <<sending, protocolVersion, proposalQueue, pendingEpoch, group, shutdown,
                       pendingKeyPackage, recoveryAttempts>>
        /\ watchdogs[w].pc = "finish"
    BY <1>9, ZenonT(60) DEF FinishRecovery, quiet
  <2>2. CASE /\ watchdogs' = [watchdogs EXCEPT ![w] = idleWatchdog]
             /\ shutdown \/ watchdogs[w].closed \/ recoveryAttempts >= MaxRecoveryAttempts
    <3>1. ~open(watchdogs, w) \/ shutdown \/ recoveryAttempts' >= MaxRecoveryAttempts
      BY <2>1, <2>2 DEF open
    <3>. QED BY <1>i, <2>1, <2>2, <3>1, StepKeepsE2EE, ZenonT(60)
  <2>3. CASE /\ watchdogs' = [watchdogs EXCEPT ![w] = waitingOn("recovery", epochReady)]
             /\ ~watchdogs[w].closed
    <3>1. open(watchdogs, w)
      BY <2>1, <2>3 DEF open
    <3>2. ~epochReady
      BY <3>1, ZenonT(60) DEF WatchInv, DogsInv
    <3>3. /\ waitingOn("recovery", epochReady).pc = "waiting"
          /\ waitingOn("recovery", epochReady).closed = epochReady
          /\ waitingOn("recovery", epochReady).kind = "recovery"
      BY DEF waitingOn
    <3>. QED BY <2>1, <2>3, <3>2, <3>3, StepKeepsE2EE, ZenonT(60)
  <2>. QED BY <1>9, <2>2, <2>3, ZenonT(60) DEF FinishRecovery
<1>. QED BY <1>1, <1>2, <1>3, <1>4, <1>5, <1>6, <1>7, <1>8, <1>9, ZenonT(60) DEF WatchdogStep

(* The calls of the client may create a group, never lose one.             *)
LEMMA CallerKeepsE2EE ==
  ASSUME SessionInv, E2EEInv, Caller
  PROVE  E2EEInv'
<1>1. /\ \A w \in Watchdog : watchdogs'[w] = watchdogs[w]
      /\ UNCHANGED <<sending, protocolVersion, pendingEpoch, proposalQueue, recoveryAttempts>>
      /\ ~pendingKeyPackage' => ~pendingKeyPackage
      /\ ~shutdown' => ~shutdown
      /\ group # Nil => group' = group
  BY CallerLeavesWatchdogs, SMTT(30)
<1>2. \A w \in Watchdog : open(watchdogs', w) <=> open(watchdogs, w)
  BY <1>1, ZenonT(60) DEF open
<1>3. superseded(watchdogs') <=> superseded(watchdogs)
  BY <1>2, ZenonT(60) DEF superseded
<1>4. ASSUME NEW w \in Watchdog, open(watchdogs', w), watchdogs'[w].kind = "commit"
      PROVE  group' # Nil
  <2>1. open(watchdogs, w) /\ watchdogs[w].kind = "commit"
    BY <1>1, <1>2, <1>4, ZenonT(60)
  <2>. QED BY <1>1, <2>1, ZenonT(60) DEF E2EEInv
<1>5. ASSUME group' = Nil, ~pendingKeyPackage', ~shutdown'
      PROVE  \/ sending' \in keyPackageToCome
             \/ ~superseded(watchdogs')
             \/ recoveryAttempts' >= MaxRecoveryAttempts
  <2>1. group = Nil /\ ~pendingKeyPackage /\ ~shutdown
    BY <1>1, <1>5, ZenonT(60)
  <2>. QED BY <1>1, <1>3, <2>1, ZenonT(60) DEF E2EEInv
<1>. QED BY <1>1, <1>4, <1>5, ZenonT(60) DEF E2EEInv

(* The beginning of a call in an E2EE channel satisfies the invariants.    *)
LEMMA ConnectedInvInit ==
  ASSUME 1 \in Version
  PROVE  Connected => SessionInv /\ WatchInv /\ E2EEInv
<1> SUFFICES ASSUME Connected PROVE SessionInv /\ WatchInv /\ E2EEInv
  BY SMTT(30)
<1>1. watchdogs \in [Watchdog \cup Waiter -> Goroutine] /\ \A w \in Watchdog : watchdogs[w].pc = "none"
  <2>1. idleWatchdog \in Goroutine /\ idleWatchdog.pc = "none"
    BY NewGoroutines, ZenonT(60) DEF idleWatchdog
  <2>2. watchdogs = [w \in Watchdog \cup Waiter |-> idleWatchdog]
    BY SMTT(30) DEF Connected
  <2> HIDE DEF idleWatchdog
  <2>. QED BY <2>1, <2>2, SMTT(30)
<1>2. SessionTypeOK
  <2>1. minted \in 0 .. MaxSecret /\ recoveryAttempts \in Nat /\ pendingTransitionID \in TransitionID
    BY SecretAssumption, TransitionAssumption, SMTT(30) DEF Connected
  <2>2. sending = "resetKpSend" /\ protocolVersion = 1 /\ sendProtocolVersion = 1
    BY DEF Connected
  <2>3. {transportOnly, plaintextRejected, channelID, externalSenderPackage, mlsClient,
         pendingKeyPackage, pendingGroupID, pendingCommitBytes, epochReady, degraded,
         shutdown} \subseteq BOOLEAN
    BY ZenonT(60) DEF Connected
  <2>4. /\ users \subseteq Peer /\ {activeEpoch, pendingEpoch} \subseteq {Nil}
        /\ {group, preCommitGroupState} \subseteq {Nil}
        /\ proposalQueue = <<>> /\ built = {}
    BY ZenonT(60) DEF Connected
  <2>. QED BY <1>1, <2>1, <2>2, <2>3, <2>4, EmptyQueue, ZenonT(60) DEF SessionTypeOK
<1>3. GoroutinesOK(watchdogs)
  BY <1>1 DEF GoroutinesOK
<1>4. SendMuInv
  BY <1>1 DEF SendMuInv
<1>5. HandlerInv /\ EpochInv
  BY ZenonT(60) DEF Connected, SendInit, HandlerInv, EpochInv, PendingEpochIsTheGroups,
     RollbackPossible, SendKeyOfActiveEpoch
<1>6. superseded(watchdogs) /\ noSender(watchdogs)
  BY <1>1, SMTT(30) DEF superseded, noSender, open
<1>7. WatchInv
  <2>1. DogsInv(watchdogs, epochReady)
    BY <1>6, SupersededInv, SMTT(30)
  <2>. QED BY <2>1, SMTT(30) DEF Connected, WatchInv, unconfirmed
<1>8. E2EEInv
  <2>1. /\ protocolVersion # 0 /\ proposalQueue = <<>> /\ sending \in keyPackageToCome
    BY DEF Connected, keyPackageToCome
  <2>. QED BY <1>6, <2>1, ZenonT(60) DEF E2EEInv, superseded
<1>. QED BY <1>2, <1>3, <1>4, <1>5, <1>7, <1>8, SMTT(30) DEF SessionInv

(* As long as the gateway announces no version 0 the call stays E2EE.      *)
LEMMA ConnectedInvCorrect ==
  ASSUME 1 \in Version, 0 \notin Version
  PROVE  ConnectedSpec => [](SessionInv /\ WatchInv /\ E2EEInv)
<1>1. ASSUME SessionInv, WatchInv, E2EEInv, [Next]_allVars
      PROVE  E2EEInv'
  <2>1. CASE Gateway \/ HandlerContinues
    <3>1. handlerWatches
      BY <1>1, <2>1, GatewayWatches, HandlerContinuesWatches, SMTT(30)
    <3>2. handlerQueues /\ handlerRejoins
      BY <1>1, <2>1, GatewayRejoins, HandlerContinuesRejoins, SMTT(30)
    <3>. QED BY <1>1, <3>1, <3>2, HandlerKeepsE2EE, SMTT(30)
  <2>2. CASE \E w \in Watchdog : WatchdogStep(w)
    BY <1>1, <2>2, WatchdogStepKeepsE2EE, SMTT(30)
  <2>3. CASE Caller
    BY <1>1, <2>3, CallerKeepsE2EE, SMTT(30)
  <2>4. CASE UNCHANGED allVars
    <3>1. UNCHANGED <<sending, protocolVersion, pendingEpoch, proposalQueue, group,
                      pendingKeyPackage, watchdogs, recoveryAttempts, shutdown>>
      BY <2>4, SMTT(30) DEF allVars, vars, sessionVars, versionVars, epochVars, mlsVars, groupVars,
                  clientVars, recoveryVars, watchVars
    <3>. QED BY <1>1, <3>1, ZenonT(60) DEF E2EEInv
  <2>. QED BY <1>1, <2>1, <2>2, <2>3, <2>4, ZenonT(60) DEF Next
<1>2. SessionInv /\ WatchInv /\ E2EEInv /\ [Next]_allVars => (SessionInv /\ WatchInv /\ E2EEInv)'
  BY <1>1, SessionInvNext, WatchInvNext
<1>. QED BY <1>2, ConnectedInvInit, PTL DEF ConnectedSpec

(* In a call that stays E2EE, no batch of proposals is left in             *)
(* proposalQueue with no pending epoch whose activation would drain it,    *)
(* whatever sends fail and whatever is rolled back or reset.               *)
THEOREM QueueCorrect ==
  ASSUME 1 \in Version, 0 \notin Version
  PROVE  ConnectedSpec => []QueueWaitsForPendingEpoch
<1>1. E2EEInv => QueueWaitsForPendingEpoch
  BY DEF E2EEInv, QueueWaitsForPendingEpoch, sendMuFree
<1>. QED BY <1>1, ConnectedInvCorrect, PTL

(* In such a call a session without a group whose key package the gateway  *)
(* never got has a watchdog on it until the attempts run out.              *)
THEOREM DroppedKeyPackageCorrect ==
  ASSUME 1 \in Version, 0 \notin Version
  PROVE  ConnectedSpec => []DroppedKeyPackageWatched
<1>1. ASSUME E2EEInv, sendMuFree, group = Nil, ~pendingKeyPackage, ~shutdown
      PROVE  (\E w \in Watchdog : live(w)) \/ recoveryAttempts >= MaxRecoveryAttempts
  <2>1. sending \notin keyPackageToCome
    BY <1>1 DEF sendMuFree, keyPackageToCome
  <2>. QED BY <1>1, <2>1, LiveIsOpen, ZenonT(60) DEF E2EEInv, superseded
<1>2. E2EEInv => DroppedKeyPackageWatched
  BY <1>1, ZenonT(60) DEF DroppedKeyPackageWatched
<1>. QED BY <1>2, ConnectedInvCorrect, PTL

=============================================================================
