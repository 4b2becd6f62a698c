-------------------------- MODULE CommitRaceProofs --------------------------
(***************************************************************************)
(* All sessions of a call follow one history of epochs, and a session that *)
(* has read its messages is in step with the gateway, for any number of    *)
(* sessions, guests and key packages.                                      *)
(***************************************************************************)
EXTENDS CommitRace, TLAPS

(* The facts about sequences the proofs use, and no others: what is in     *)
(* scope is carried by every obligation.                                   *)
LEMMA SeqEmpty ==
  ASSUME NEW S
  PROVE  /\ <<>> \in Seq(S) /\ Len(<<>>) = 0
         /\ \A q \in Seq(S) : q # <<>> => Len(q) \in Nat \ {0}
OBVIOUS

LEMMA SeqLen ==
  ASSUME NEW S, NEW q \in Seq(S)
  PROVE  Len(q) \in Nat /\ DOMAIN q = 1..Len(q) /\ q \in [1..Len(q) -> S]
OBVIOUS

LEMMA SeqElement ==
  ASSUME NEW S, NEW q \in Seq(S), NEW i \in 1..Len(q)
  PROVE  q[i] \in S
OBVIOUS

LEMMA SeqSubset ==
  ASSUME NEW S, NEW T, S \subseteq T, NEW q \in Seq(S)
  PROVE  q \in Seq(T)
OBVIOUS

LEMMA SeqHeadTail ==
  ASSUME NEW S, NEW q \in Seq(S), q # <<>>
  PROVE  /\ Head(q) \in S /\ Tail(q) \in Seq(S)
         /\ Len(Tail(q)) = Len(q) - 1
         /\ \A i \in 1..Len(Tail(q)) : Tail(q)[i] = q[i + 1]
OBVIOUS

LEMMA SeqAppend ==
  ASSUME NEW S, NEW q \in Seq(S), NEW e \in S
  PROVE  /\ Append(q, e) \in Seq(S)
         /\ Len(Append(q, e)) = Len(q) + 1
         /\ \A i \in 1..Len(q) : Append(q, e)[i] = q[i]
         /\ Append(q, e)[Len(q) + 1] = e
OBVIOUS

LEMMA SeqConcat ==
  ASSUME NEW S, NEW q \in Seq(S), NEW r \in Seq(S)
  PROVE  /\ q \o r \in Seq(S)
         /\ Len(q \o r) = Len(q) + Len(r)
         /\ \A i \in 1..(Len(q) + Len(r)) :
              (q \o r)[i] = IF i <= Len(q) THEN q[i] ELSE r[i - Len(q)]
OBVIOUS

LEMMA SeqConcatEmpty ==
  ASSUME NEW S, NEW q \in Seq(S)
  PROVE  <<>> \o q = q
OBVIOUS

-----------------------------------------------------------------------------
(* What travels, when A are the epochs announced.                          *)
Batch == [op : {"append", "revoke"}, proposal : Proposal]

Commit(A) == [type : {"commit"}, epoch : A, refs : SUBSET Proposal]

Proposed == [type : {"proposals"}, batch : Batch]

Announced(A) == [type : {"commit"}, tid : Nat \ {0}, commit : Commit(A)]

Welcomed(A) == [type : {"welcome"}, tid : Nat \ {0}, epoch : A, keyPackage : Nat]

Executed == [type : {"execute"}, tid : Nat \ {0}]

Message(A) == Proposed \cup Announced(A) \cup Welcomed(A) \cup Executed

Request ==
  Commit(Epoch) \cup [type : {"invalid"}] \cup [type : {"keyPackage"}, keyPackage : Nat]

SessionState ==
  [userID : Client, group : Group \cup {Nil}, activeEpoch : Epoch,
   pendingEpoch : Epoch \cup {Nil}, pendingCommit : Epoch \cup {Nil},
   preCommitGroupState : Group \cup {Nil}, proposalQueue : Seq(Batch),
   pendingTransitionID : Nat, keyPackage : Nat, watch : {"none", "commit", "recovery"},
   draining : BOOLEAN]

GatewayState ==
  [epoch : Epoch, proposals : SUBSET Proposal, member : [Client -> Nat], tid : Nat,
   prepared : Seq(Nat \ {0}), announced : SUBSET Epoch, guests : SUBSET Guest]

(* What a session keeps to, when A are the epochs announced: a commit of   *)
(* its own is on top of an announced epoch, and the transition it waits    *)
(* for was never prepared for that commit.                                 *)
historyInv(s, A) ==
  /\ s \in SessionState
  /\ s.activeEpoch \in A
  /\ s.pendingEpoch \in A \cup {s.pendingCommit, Nil}
  /\ s.pendingCommit = Nil /\ s.group # Nil => s.group.epoch \in A
  /\ s.pendingCommit # Nil =>
       /\ s.pendingEpoch = s.pendingCommit
       /\ s.group # Nil /\ s.group.epoch = s.pendingCommit
       /\ s.preCommitGroupState # Nil /\ s.preCommitGroupState.epoch \in A
  /\ s.group = Nil => s.pendingEpoch = Nil

sessionInv(s, A) ==
  /\ historyInv(s, A)
  /\ s.pendingTransitionID # 0 /\ ~s.draining /\ s.group # Nil =>
       s.pendingEpoch # Nil /\ s.pendingCommit = Nil

RaceInv ==
  /\ gateway \in GatewayState
  /\ gateway.epoch \in gateway.announced
  /\ client \in [Client -> SessionState]
  /\ \A c \in Client : sessionInv(client[c], gateway.announced)
  /\ toClient \in [Client -> Seq(Message(gateway.announced))]
  /\ toGateway \in [Client -> Seq(Request)]

-----------------------------------------------------------------------------
(* A session's own steps keep sessionInv, and send requests.               *)
keeps(result, A) == sessionInv(result.s, A) /\ result.out \in Seq(Request)

LEMMA NoRequest == <<>> \in Seq(Request)
BY SeqEmpty

(* A commit, of what s has cached, on top of an announced epoch.           *)
LEMMA CommitKeeps ==
  ASSUME NEW A \in SUBSET Epoch, NEW s, sessionInv(s, A), s.group # Nil, s.pendingEpoch = Nil
  PROVE  keeps(commitProposalsLocked(s), A)
<1> DEFINE e == Append(s.group.epoch, s.userID)
           r == commitProposalsLocked(s).s
           m == [type |-> "commit", epoch |-> e, refs |-> s.group.cached]
<1>1. s \in SessionState /\ s.group \in Group /\ e \in Epoch /\ groupAt(e) \in Group
  BY NilAssumption DEF sessionInv, historyInv, SessionState, Group, Epoch, groupAt
<1>2. e # Nil /\ groupAt(e) # Nil /\ s.pendingCommit = Nil /\ groupAt(e).epoch = e
  BY <1>1, NilAssumption, ZenonT(60) DEF sessionInv, historyInv, groupAt
<1>3. /\ r.group = groupAt(e) /\ r.pendingEpoch = e /\ r.pendingCommit = e
      /\ r.preCommitGroupState = s.group /\ r.activeEpoch = s.activeEpoch
      /\ r.pendingTransitionID = s.pendingTransitionID /\ r.draining = s.draining
      /\ r \in SessionState
  BY <1>1, ZenonT(60) DEF commitProposalsLocked, step, SessionState
<1>4. sessionInv(r, A)
  BY <1>2, <1>3 DEF sessionInv, historyInv
<1>5. m \in Request
  BY <1>1, ZenonT(60) DEF Request, Commit, Group
<1>6. commitProposalsLocked(s).out = <<m>>
  BY ZenonT(60) DEF commitProposalsLocked, step
<1>7. QED
  BY <1>4, <1>5, <1>6 DEF keeps

(* A batch of proposals, when no epoch is pending.                         *)
LEMMA ProcessKeeps ==
  ASSUME NEW A \in SUBSET Epoch, NEW s, sessionInv(s, A), s.pendingEpoch = Nil,
         NEW batch \in Batch
  PROVE  keeps(processAndCommitProposalBatchLocked(s, batch), A)
<1> DEFINE result == processAndCommitProposalBatchLocked(s, batch)
           p == batch.proposal
<1>1. /\ s \in SessionState /\ s.group \in Group \cup {Nil}
      /\ p \in Proposal /\ batch.op \in {"append", "revoke"}
  BY DEF sessionInv, historyInv, SessionState, Batch
<1>2. ASSUME result = step(s, <<>>)
      PROVE  keeps(result, A)
  BY <1>2, NoRequest DEF keeps, step
<1>3. ASSUME NEW cached \in SUBSET Proposal, s.group # Nil,
             NEW r, r = [s EXCEPT !.group.cached = cached]
      PROVE  sessionInv(r, A) /\ r.group # Nil /\ r.pendingEpoch = Nil
  <2> DEFINE g == [s.group EXCEPT !.cached = cached]
  <2>1. g \in Group /\ g.epoch = s.group.epoch
    BY <1>1, <1>3 DEF Group
  <2>2. g # Nil
    BY <2>1, NilAssumption
  <2>3. r = [s EXCEPT !.group = g]
    BY <1>3
  <2> HIDE DEF g
  <2>4. /\ r.group = g /\ r.pendingEpoch = s.pendingEpoch
        /\ r.pendingCommit = s.pendingCommit
        /\ r.preCommitGroupState = s.preCommitGroupState /\ r.activeEpoch = s.activeEpoch
        /\ r.pendingTransitionID = s.pendingTransitionID /\ r.draining = s.draining
        /\ r \in SessionState
    BY <1>1, <2>1, <2>3, ZenonT(60) DEF SessionState
  <2>5. QED
    BY <1>3, <2>1, <2>2, <2>4 DEF sessionInv, historyInv
<1>4. CASE s.group = Nil
  BY <1>2, <1>4 DEF processAndCommitProposalBatchLocked
<1>5. CASE s.group # Nil /\ batch.op = "revoke"
  <2> DEFINE r == [s EXCEPT !.group.cached = @ \ {p}]
  <2>1. sessionInv(r, A)
    BY <1>1, <1>3, <1>5 DEF Group
  <2>2. result = step(r, <<>>)
    BY <1>5 DEF processAndCommitProposalBatchLocked
  <2>3. QED
    BY <2>1, <2>2, NoRequest DEF keeps, step
<1>6. CASE s.group # Nil /\ batch.op = "append"
  <2> DEFINE r == [s EXCEPT !.group.cached = @ \cup {p}]
  <2>1. sessionInv(r, A) /\ r.group # Nil /\ r.pendingEpoch = Nil
    BY <1>1, <1>3, <1>6, ZenonT(60) DEF Group
  <2>2. \/ result = step(s, <<>>)
        \/ result = commitProposalsLocked(r)
    BY <1>6 DEF processAndCommitProposalBatchLocked
  <2> HIDE DEF r
  <2>3. QED
    BY <1>2, <2>1, <2>2, CommitKeeps
<1>7. QED
  BY <1>1, <1>4, <1>5, <1>6

(* A round of the drain, and the end of it.                                *)
LEMMA DrainKeeps ==
  ASSUME NEW A \in SUBSET Epoch, NEW s, sessionInv(s, A)
  PROVE  keeps(drainProposalQueueLocked(s), A) /\ keeps(executed(s), A)
<1>1. s \in SessionState /\ s.proposalQueue \in Seq(Batch)
  BY DEF sessionInv, historyInv, SessionState
<1>2. keeps(executed(s), A)
  <2> DEFINE r == [s EXCEPT !.pendingTransitionID = 0, !.draining = FALSE]
  <2>1. /\ r.group = s.group /\ r.pendingEpoch = s.pendingEpoch
        /\ r.pendingCommit = s.pendingCommit
        /\ r.preCommitGroupState = s.preCommitGroupState /\ r.activeEpoch = s.activeEpoch
        /\ r.pendingTransitionID = 0
        /\ r \in SessionState
    BY <1>1, ZenonT(60) DEF SessionState
  <2> HIDE DEF r
  <2>2. sessionInv(r, A)
    BY <2>1, ZenonT(60) DEF sessionInv, historyInv
  <2>3. QED
    BY <2>2, NoRequest DEF keeps, executed, step, r
<1>3. ASSUME s.proposalQueue # <<>>, s.pendingEpoch = Nil
      PROVE  keeps(drainProposalQueueLocked(s), A)
  <2> DEFINE r == [s EXCEPT !.proposalQueue = Tail(@)]
  <2>1. Tail(s.proposalQueue) \in Seq(Batch) /\ Head(s.proposalQueue) \in Batch
    BY <1>1, <1>3, SeqHeadTail
  <2>2. /\ r.group = s.group /\ r.pendingEpoch = s.pendingEpoch
        /\ r.pendingCommit = s.pendingCommit
        /\ r.preCommitGroupState = s.preCommitGroupState /\ r.activeEpoch = s.activeEpoch
        /\ r.pendingTransitionID = s.pendingTransitionID /\ r.draining = s.draining
        /\ r \in SessionState
    BY <1>1, <2>1, ZenonT(60) DEF SessionState
  <2>3. drainProposalQueueLocked(s) =
          processAndCommitProposalBatchLocked(r, Head(s.proposalQueue))
    BY <1>3 DEF drainProposalQueueLocked
  <2> HIDE DEF r
  <2>4. sessionInv(r, A)
    BY <2>2, ZenonT(60) DEF sessionInv, historyInv
  <2>5. QED
    BY <1>3, <2>1, <2>2, <2>3, <2>4, ProcessKeeps
<1>4. QED
  BY <1>2, <1>3 DEF drainProposalQueueLocked

LEMMA ProposalsKeep ==
  ASSUME NEW A \in SUBSET Epoch, NEW s, sessionInv(s, A), NEW batch \in Batch
  PROVE  keeps(OnDaveMLSProposals(s, batch), A)
<1>1. CASE s.pendingEpoch = Nil
  BY <1>1, ProcessKeeps DEF OnDaveMLSProposals
<1>2. CASE s.pendingEpoch # Nil
  <2> DEFINE r == [s EXCEPT !.proposalQueue = Append(@, batch)]
  <2>1. s \in SessionState /\ Append(s.proposalQueue, batch) \in Seq(Batch)
    BY DEF sessionInv, historyInv, SessionState
  <2>2. /\ r.group = s.group /\ r.pendingEpoch = s.pendingEpoch
        /\ r.pendingCommit = s.pendingCommit
        /\ r.preCommitGroupState = s.preCommitGroupState /\ r.activeEpoch = s.activeEpoch
        /\ r.pendingTransitionID = s.pendingTransitionID /\ r.draining = s.draining
        /\ r \in SessionState
    BY <2>1, ZenonT(60) DEF SessionState
  <2>3. OnDaveMLSProposals(s, batch) = step(r, <<>>)
    BY <1>2 DEF OnDaveMLSProposals
  <2> HIDE DEF r
  <2>4. sessionInv(r, A)
    BY <2>2, ZenonT(60) DEF sessionInv, historyInv
  <2>5. QED
    BY <2>3, <2>4, NoRequest DEF keeps, step
<1>3. QED
  BY <1>1, <1>2

(* The rollback leaves no commit of the session's own.                     *)
LEMMA RestoreKeeps ==
  ASSUME NEW A \in SUBSET Epoch, NEW s, historyInv(s, A),
         NEW r, r = restorePreCommitStateLocked(s)
  PROVE  /\ historyInv(r, A)
         /\ r.pendingCommit = Nil
         /\ r.group = confirmedGroup(s)
         /\ s.pendingCommit # Nil => r.pendingEpoch = Nil
         /\ s.pendingCommit = Nil => r = s
         /\ r.pendingTransitionID = s.pendingTransitionID
         /\ r.draining = s.draining
         /\ r.keyPackage = s.keyPackage
         /\ r.proposalQueue = s.proposalQueue
         /\ r.activeEpoch = s.activeEpoch
<1>1. s \in SessionState /\ s.preCommitGroupState \in Group \cup {Nil}
  BY DEF historyInv, SessionState
<1>2. CASE s.pendingCommit = Nil
  BY <1>2 DEF restorePreCommitStateLocked, confirmedGroup
<1>3. CASE s.pendingCommit # Nil
  <2>1. r = [[[[s EXCEPT !.group = s.preCommitGroupState] EXCEPT !.pendingEpoch = Nil]
                EXCEPT !.pendingCommit = Nil] EXCEPT !.preCommitGroupState = Nil]
    BY <1>3, ZenonT(60) DEF restorePreCommitStateLocked, forgetCommit
  <2>2. /\ r.group = s.preCommitGroupState /\ r.pendingEpoch = Nil
        /\ r.pendingCommit = Nil /\ r.preCommitGroupState = Nil
        /\ r.activeEpoch = s.activeEpoch
        /\ r.pendingTransitionID = s.pendingTransitionID /\ r.draining = s.draining
        /\ r.keyPackage = s.keyPackage
        /\ r.proposalQueue = s.proposalQueue
        /\ r \in SessionState
    BY <1>1, <2>1, ZenonT(60) DEF SessionState
  <2>3. QED
    BY <1>3, <2>2 DEF historyInv, confirmedGroup
<1>4. QED
  BY <1>2, <1>3

LEMMA InvalidateKeeps ==
  ASSUME NEW A \in SUBSET Epoch, NEW s, historyInv(s, A), NEW r, r = invalidate(s).s
  PROVE  /\ keeps(invalidate(s), A)
         /\ r.group = Nil
         /\ r.keyPackage = s.keyPackage + 1
         /\ r.proposalQueue = <<>>
         /\ r.draining = s.draining
<1>1. s \in SessionState /\ s.keyPackage + 1 \in Nat /\ <<>> \in Seq(Batch)
  BY SeqEmpty DEF historyInv, SessionState
<1>2. r = [[[[[[[s EXCEPT !.pendingCommit = Nil] EXCEPT !.preCommitGroupState = Nil]
               EXCEPT !.group = Nil] EXCEPT !.pendingEpoch = Nil]
               EXCEPT !.proposalQueue = <<>>] EXCEPT !.keyPackage = s.keyPackage + 1]
               EXCEPT !.watch = "recovery"]
  <2>1. forgetCommit(s).keyPackage = s.keyPackage
    BY <1>1, ZenonT(60) DEF forgetCommit, SessionState
  <2>2. QED
    BY <2>1, ZenonT(60) DEF invalidate, forgetCommit, step
<1>3. /\ r.group = Nil /\ r.pendingEpoch = Nil /\ r.pendingCommit = Nil
      /\ r.proposalQueue = <<>> /\ r.keyPackage = s.keyPackage + 1
      /\ r.activeEpoch = s.activeEpoch /\ r.draining = s.draining
      /\ r \in SessionState
  BY <1>1, <1>2, ZenonT(60) DEF SessionState
<1>4. sessionInv(r, A)
  BY <1>3 DEF sessionInv, historyInv
<1> DEFINE m == [type |-> "invalid"]
           k == [type |-> "keyPackage", keyPackage |-> s.keyPackage + 1]
<1>5. m \in Request /\ k \in Request
  BY <1>1, ZenonT(60) DEF Request
<1>6. invalidate(s).out = <<m, k>>
  BY DEF invalidate, step
<1>7. QED
  BY <1>3, <1>4, <1>5, <1>6 DEF keeps

(* A session that joins announced epoch e waits for its transition.        *)
LEMMA JoinedKeeps ==
  ASSUME NEW A \in SUBSET Epoch, NEW s, historyInv(s, A), s.pendingCommit = Nil,
         NEW e \in A, NEW r, r = joined(s, e)
  PROVE  /\ sessionInv(r, A)
         /\ r.group = groupAt(e) /\ r.group # Nil /\ r.group.epoch = e
         /\ r.pendingEpoch = e /\ r.pendingCommit = Nil
         /\ r.pendingTransitionID = s.pendingTransitionID
         /\ r.draining = s.draining
         /\ r.keyPackage = s.keyPackage
         /\ r.proposalQueue = s.proposalQueue
         /\ r.activeEpoch = s.activeEpoch
<1>1. s \in SessionState /\ e \in Epoch /\ groupAt(e) \in Group /\ groupAt(e).epoch = e
  BY DEF historyInv, Group, groupAt
<1>2. e # Nil /\ groupAt(e) # Nil
  BY <1>1, NilAssumption
<1>3. /\ r.group = groupAt(e) /\ r.pendingEpoch = e /\ r.pendingCommit = s.pendingCommit
      /\ r.activeEpoch = s.activeEpoch
      /\ r.pendingTransitionID = s.pendingTransitionID /\ r.draining = s.draining
      /\ r.keyPackage = s.keyPackage
      /\ r.proposalQueue = s.proposalQueue
      /\ r \in SessionState
  BY <1>1, ZenonT(60) DEF joined, SessionState
<1>4. QED
  BY <1>1, <1>2, <1>3 DEF sessionInv, historyInv

(* The two ways out of a commit or Welcome: the session rejoins with a new *)
(* key package, or waits in epoch e for transition tid.                    *)
invalidated(s, result) ==
  /\ result.s.group = Nil
  /\ result.s.keyPackage = s.keyPackage + 1
  /\ result.s.proposalQueue = <<>>
  /\ result.s.draining = s.draining
  /\ result.out = <<[type |-> "invalid"],
                    [type |-> "keyPackage", keyPackage |-> s.keyPackage + 1]>>

prepared(s, result, tid, e) ==
  /\ result.s.group # Nil
  /\ result.s.group.epoch = e
  /\ result.s.pendingEpoch = e
  /\ result.s.pendingCommit = Nil
  /\ result.s.pendingTransitionID = tid
  /\ result.s.draining = s.draining
  /\ result.s.keyPackage = s.keyPackage
  /\ result.s.proposalQueue \in {s.proposalQueue, <<>>}
  /\ result.out = <<>>

LEMMA InvalidateResult ==
  ASSUME NEW A \in SUBSET Epoch, NEW s, NEW base, historyInv(base, A),
         base.keyPackage = s.keyPackage, base.draining = s.draining
  PROVE  keeps(invalidate(base), A) /\ invalidated(s, invalidate(base))
<1>1. invalidate(base).out =
        <<[type |-> "invalid"], [type |-> "keyPackage", keyPackage |-> s.keyPackage + 1]>>
  BY DEF invalidate, step
<1>2. QED
  BY <1>1, InvalidateKeeps DEF invalidated

(* A commit the gateway announces.                                         *)
LEMMA CommitTransitionKeeps ==
  ASSUME NEW A \in SUBSET Epoch, NEW s, sessionInv(s, A), NEW tid \in Nat,
         NEW commit \in Commit(A), NEW result,
         result = OnDaveMLSPrepareCommitTransition(s, tid, commit)
  PROVE  /\ keeps(result, A)
         /\ \/ invalidated(s, result)
            \/ s.group # Nil /\ prepared(s, result, tid, commit.epoch)
<1> DEFINE p == [s EXCEPT !.pendingTransitionID = tid]
           base == restorePreCommitStateLocked(p)
<1>1. s \in SessionState /\ s.proposalQueue \in Seq(Batch) /\ commit.epoch \in A
  BY DEF sessionInv, historyInv, SessionState, Commit
<1>2. /\ p.group = s.group /\ p.pendingEpoch = s.pendingEpoch
      /\ p.pendingCommit = s.pendingCommit
      /\ p.preCommitGroupState = s.preCommitGroupState
      /\ p.activeEpoch = s.activeEpoch
      /\ p.pendingTransitionID = tid
      /\ p.draining = s.draining
      /\ p.keyPackage = s.keyPackage
      /\ p.proposalQueue = s.proposalQueue
      /\ p \in SessionState
  BY <1>1, ZenonT(60) DEF SessionState
<1>3. result = IF s.pendingEpoch # Nil /\ s.pendingCommit = commit.epoch
               THEN step(forgetCommit(p), <<>>)
               ELSE IF canProcess(base, commit) THEN step(joined(base, commit.epoch), <<>>)
               ELSE invalidate(base)
  BY DEF OnDaveMLSPrepareCommitTransition
<1> HIDE DEF p
<1>4. historyInv(p, A)
  BY <1>2, ZenonT(60) DEF sessionInv, historyInv
<1>5. /\ historyInv(base, A)
      /\ base.pendingCommit = Nil
      /\ base.group = confirmedGroup(p)
      /\ base.pendingTransitionID = tid
      /\ base.draining = s.draining
      /\ base.keyPackage = s.keyPackage
      /\ base.proposalQueue = s.proposalQueue
      /\ base.activeEpoch = s.activeEpoch
  BY <1>2, <1>4, RestoreKeeps
<1> HIDE DEF base
<1>6. CASE s.pendingEpoch # Nil /\ s.pendingCommit = commit.epoch
  <2> DEFINE r == forgetCommit(p)
  <2>1. commit.epoch # Nil
    BY <1>1, NilAssumption
  <2>2. p \in SessionState
    BY <1>2
  <2>3. /\ r.group = p.group /\ r.pendingEpoch = p.pendingEpoch
        /\ r.pendingCommit = Nil /\ r.activeEpoch = p.activeEpoch
        /\ r.pendingTransitionID = p.pendingTransitionID /\ r.draining = p.draining
        /\ r.keyPackage = p.keyPackage /\ r.proposalQueue = p.proposalQueue
        /\ r \in SessionState
    BY <2>2, ZenonT(60) DEF SessionState, forgetCommit
  <2>4. /\ s.group # Nil /\ s.group.epoch = commit.epoch /\ s.pendingEpoch = commit.epoch
        /\ s.activeEpoch \in A
    BY <1>6, <2>1 DEF sessionInv, historyInv
  <2> HIDE DEF r
  <2>5. sessionInv(r, A)
    BY <1>1, <1>2, <2>1, <2>3, <2>4, ZenonT(60) DEF sessionInv, historyInv
  <2>6. result = step(r, <<>>)
    BY <1>3, <1>6 DEF r
  <2>7. QED
    BY <1>2, <2>3, <2>4, <2>5, <2>6, NoRequest DEF keeps, prepared, step
<1>7. CASE /\ ~(s.pendingEpoch # Nil /\ s.pendingCommit = commit.epoch)
           /\ canProcess(base, commit)
  <2> DEFINE r == joined(base, commit.epoch)
  <2>1. result = step(r, <<>>)
    BY <1>3, <1>7
  <2>2. s.group # Nil
    BY <1>2, <1>4, <1>5, <1>7 DEF canProcess, confirmedGroup, historyInv
  <2>3. /\ sessionInv(r, A)
        /\ r.group # Nil /\ r.group.epoch = commit.epoch
        /\ r.pendingEpoch = commit.epoch /\ r.pendingCommit = Nil
        /\ r.pendingTransitionID = tid
        /\ r.draining = s.draining
        /\ r.keyPackage = s.keyPackage
        /\ r.proposalQueue = s.proposalQueue
    <3>1. /\ sessionInv(r, A)
          /\ r.group = groupAt(commit.epoch) /\ r.group # Nil
          /\ r.group.epoch = commit.epoch
          /\ r.pendingEpoch = commit.epoch /\ r.pendingCommit = Nil
          /\ r.pendingTransitionID = base.pendingTransitionID
          /\ r.draining = base.draining
          /\ r.keyPackage = base.keyPackage
          /\ r.proposalQueue = base.proposalQueue
          /\ r.activeEpoch = base.activeEpoch
      <4> DEFINE e == commit.epoch
      <4>1. historyInv(base, A) /\ base.pendingCommit = Nil /\ e \in A
        BY <1>1, <1>5
      <4> HIDE DEF e, r
      <4>2. r = joined(base, e)
        BY DEF r, e
      <4> HIDE DEF base
      <4>3. /\ sessionInv(r, A)
            /\ r.group = groupAt(e) /\ r.group # Nil /\ r.group.epoch = e
            /\ r.pendingEpoch = e /\ r.pendingCommit = Nil
            /\ r.pendingTransitionID = base.pendingTransitionID
            /\ r.draining = base.draining
            /\ r.keyPackage = base.keyPackage
            /\ r.proposalQueue = base.proposalQueue
            /\ r.activeEpoch = base.activeEpoch
        BY <4>1, <4>2, JoinedKeeps, SMTT(30)
      <4>4. QED
        BY <4>3, ZenonT(60) DEF e
    <3>2. QED
      BY <1>5, <3>1, ZenonT(60)
  <2> HIDE DEF r
  <2>4. QED
    BY <2>1, <2>2, <2>3, NoRequest DEF keeps, prepared, step
<1>8. CASE /\ ~(s.pendingEpoch # Nil /\ s.pendingCommit = commit.epoch)
           /\ ~canProcess(base, commit)
  <2>1. result = invalidate(base)
    BY <1>3, <1>8
  <2>2. QED
    BY <1>5, <2>1, InvalidateResult
<1>9. QED
  BY <1>6, <1>7, <1>8

(* A Welcome: one for the current key package is always joined.            *)
LEMMA WelcomeKeeps ==
  ASSUME NEW A \in SUBSET Epoch, NEW s, sessionInv(s, A), NEW tid \in Nat, NEW e \in A,
         NEW keyPackage, NEW result, result = OnDaveMLSWelcome(s, tid, e, keyPackage)
  PROVE  /\ keeps(result, A)
         /\ keyPackage # s.keyPackage => invalidated(s, result)
         /\ keyPackage = s.keyPackage => prepared(s, result, tid, e)
<1> DEFINE q == IF s.pendingCommit = Nil THEN s.proposalQueue ELSE <<>>
           p == [s EXCEPT !.pendingTransitionID = tid, !.proposalQueue = q]
           base == restorePreCommitStateLocked(p)
<1>1. s \in SessionState /\ q \in Seq(Batch) /\ q \in {s.proposalQueue, <<>>}
  BY SeqEmpty DEF sessionInv, historyInv, SessionState
<1>2. result = IF keyPackage = s.keyPackage THEN step(joined(base, e), <<>>)
               ELSE invalidate(base)
  BY DEF OnDaveMLSWelcome
<1> HIDE DEF q
<1>3. /\ p.group = s.group /\ p.pendingEpoch = s.pendingEpoch
      /\ p.pendingCommit = s.pendingCommit
      /\ p.preCommitGroupState = s.preCommitGroupState
      /\ p.activeEpoch = s.activeEpoch
      /\ p.pendingTransitionID = tid
      /\ p.draining = s.draining
      /\ p.keyPackage = s.keyPackage
      /\ p.proposalQueue = q
      /\ p \in SessionState
  BY <1>1, ZenonT(60) DEF SessionState
<1> HIDE DEF p
<1>4. historyInv(p, A)
  BY <1>3, ZenonT(60) DEF sessionInv, historyInv
<1>5. /\ historyInv(base, A)
      /\ base.pendingCommit = Nil
      /\ base.pendingTransitionID = tid
      /\ base.draining = s.draining
      /\ base.keyPackage = s.keyPackage
      /\ base.proposalQueue = q
  BY <1>3, <1>4, RestoreKeeps
<1> HIDE DEF base
<1>6. CASE keyPackage = s.keyPackage
  <2> DEFINE r == joined(base, e)
  <2>1. result = step(r, <<>>)
    BY <1>2, <1>6
  <2>2. /\ sessionInv(r, A)
        /\ r.group = groupAt(e) /\ r.group # Nil
        /\ r.group.epoch = e
        /\ r.pendingEpoch = e /\ r.pendingCommit = Nil
        /\ r.pendingTransitionID = base.pendingTransitionID
        /\ r.draining = base.draining
        /\ r.keyPackage = base.keyPackage
        /\ r.proposalQueue = base.proposalQueue
    BY <1>5, JoinedKeeps
  <2> HIDE DEF r
  <2>3. QED
    <3>1. result.s = r /\ result.out = <<>>
      BY <2>1 DEF step
    <3>2. keeps(result, A)
      BY <2>2, <3>1, NoRequest DEF keeps
    <3>3. prepared(s, result, tid, e)
      BY <1>1, <1>5, <2>2, <3>1, ZenonT(60) DEF prepared
    <3>4. QED
      BY <1>6, <3>2, <3>3
<1>7. CASE keyPackage # s.keyPackage
  BY <1>2, <1>5, <1>7, InvalidateResult
<1>8. QED
  BY <1>6, <1>7

(* What is executed is an announced epoch, never a commit of the session's *)
(* own that nobody confirmed.                                              *)
LEMMA ExecuteKeeps ==
  ASSUME NEW A \in SUBSET Epoch, NEW s, sessionInv(s, A), ~s.draining,
         NEW tid \in Nat \ {0}
  PROVE  keeps(OnDaveExecuteTransition(s, tid), A)
<1>1. CASE tid # s.pendingTransitionID
  BY <1>1, NoRequest DEF OnDaveExecuteTransition, keeps, step
<1>2. CASE tid = s.pendingTransitionID /\ s.pendingEpoch = Nil
  BY <1>2, DrainKeeps DEF OnDaveExecuteTransition, activatePendingEpochLocked
<1>3. CASE tid = s.pendingTransitionID /\ s.pendingEpoch # Nil
  <2> DEFINE r == [s EXCEPT !.activeEpoch = s.pendingEpoch, !.pendingEpoch = Nil,
                            !.watch = "none", !.draining = TRUE]
  <2>1. s.group # Nil /\ s.pendingCommit = Nil /\ s.pendingEpoch \in A
    BY <1>3 DEF sessionInv, historyInv
  <2>2. /\ r.group = s.group /\ r.pendingEpoch = Nil /\ r.pendingCommit = s.pendingCommit
        /\ r.preCommitGroupState = s.preCommitGroupState /\ r.activeEpoch = s.pendingEpoch
        /\ r.draining = TRUE
        /\ r \in SessionState
    <3>1. s \in SessionState /\ s.pendingEpoch \in Epoch
      BY <2>1 DEF sessionInv, historyInv
    <3>2. QED
      BY <3>1, ZenonT(60) DEF SessionState
  <2>3. OnDaveExecuteTransition(s, tid) = step(r, <<>>)
    BY <1>3 DEF OnDaveExecuteTransition, activatePendingEpochLocked
  <2> HIDE DEF r
  <2>4. sessionInv(r, A)
    BY <2>1, <2>2 DEF sessionInv, historyInv
  <2>5. QED
    BY <2>3, <2>4, NoRequest DEF keeps, step
<1>4. QED
  BY <1>1, <1>2, <1>3

(* The watchdog's step is void, or starts the session over.                *)
LEMMA TimeoutKeeps ==
  ASSUME NEW A \in SUBSET Epoch, NEW s, sessionInv(s, A), NEW result,
         result = recoverAfterTimeout(s)
  PROVE  /\ keeps(result, A)
         /\ \/ invalidated(s, result)
            \/ result = step([s EXCEPT !.watch = "none"], <<>>)
<1>1. CASE s.watch = "commit" /\ s.pendingEpoch = Nil
  <2> DEFINE r == [s EXCEPT !.watch = "none"]
  <2>1. s \in SessionState
    BY DEF sessionInv, historyInv
  <2>2. /\ r.group = s.group /\ r.pendingEpoch = s.pendingEpoch
        /\ r.pendingCommit = s.pendingCommit
        /\ r.preCommitGroupState = s.preCommitGroupState /\ r.activeEpoch = s.activeEpoch
        /\ r.pendingTransitionID = s.pendingTransitionID /\ r.draining = s.draining
        /\ r \in SessionState
    BY <2>1, ZenonT(60) DEF SessionState
  <2>3. result = step(r, <<>>)
    BY <1>1 DEF recoverAfterTimeout
  <2> HIDE DEF r
  <2>4. sessionInv(r, A)
    BY <2>2, ZenonT(60) DEF sessionInv, historyInv
  <2>5. QED
    BY <2>3, <2>4, NoRequest DEF keeps, step, r
<1>2. CASE ~(s.watch = "commit" /\ s.pendingEpoch = Nil)
  <2>1. result = invalidate(s)
    BY <1>2 DEF recoverAfterTimeout
  <2>2. QED
    BY <2>1, InvalidateResult DEF sessionInv
<1>3. QED
  BY <1>1, <1>2

-----------------------------------------------------------------------------
LEMMA MessageTypes ==
  ASSUME NEW A, NEW m \in Message(A)
  PROVE  /\ m.type \in {"proposals", "commit", "welcome", "execute"}
         /\ m.type = "proposals" => m.batch \in Batch
         /\ m.type = "commit" => m.tid \in Nat \ {0} /\ m.commit \in Commit(A)
         /\ m.type = "welcome" =>
              m.tid \in Nat \ {0} /\ m.epoch \in A /\ m.keyPackage \in Nat
         /\ m.type = "execute" => m.tid \in Nat \ {0}
BY SMTT(30) DEF Message, Proposed, Announced, Welcomed, Executed

LEMMA RequestTypes ==
  ASSUME NEW m \in Request
  PROVE  /\ m.type \in {"commit", "invalid", "keyPackage"}
         /\ m.type = "commit" => m \in Commit(Epoch)
         /\ m.type = "keyPackage" => m.keyPackage \in Nat
BY SMTT(30) DEF Request, Commit

(* The result of the handler of the first message of session c.            *)
received(c) ==
  LET msg == Head(toClient[c])
      s == client[c]
  IN CASE msg.type = "proposals" -> OnDaveMLSProposals(s, msg.batch)
       [] msg.type = "commit" -> OnDaveMLSPrepareCommitTransition(s, msg.tid, msg.commit)
       [] msg.type = "welcome" -> OnDaveMLSWelcome(s, msg.tid, msg.epoch, msg.keyPackage)
       [] msg.type = "execute" -> OnDaveExecuteTransition(s, msg.tid)

LEMMA ReceiveKeeps ==
  ASSUME RaceInv, NEW c \in Client, Receive(c)
  PROVE  /\ Head(toClient[c]) \in Message(gateway.announced)
         /\ keeps(received(c), gateway.announced)
         /\ clientStep(c, received(c), Tail(toClient[c]))
<1> DEFINE A == gateway.announced
           msg == Head(toClient[c])
           s == client[c]
<1>1. /\ A \in SUBSET Epoch /\ sessionInv(s, A) /\ ~s.draining
      /\ toClient[c] \in Seq(Message(A)) /\ toClient[c] # <<>>
  BY DEF RaceInv, GatewayState, Receive
<1>2. msg \in Message(A)
  BY <1>1, SeqHeadTail
<1>3. /\ msg.type \in {"proposals", "commit", "welcome", "execute"}
      /\ msg.type = "proposals" => msg.batch \in Batch
      /\ msg.type = "commit" => msg.tid \in Nat \ {0} /\ msg.commit \in Commit(A)
      /\ msg.type = "welcome" =>
           msg.tid \in Nat \ {0} /\ msg.epoch \in A /\ msg.keyPackage \in Nat
      /\ msg.type = "execute" => msg.tid \in Nat \ {0}
  BY <1>2, MessageTypes
<1>4. clientStep(c, received(c), Tail(toClient[c]))
  BY ZenonT(60) DEF Receive, received
<1> HIDE DEF A, msg, s
<1>5. CASE msg.type = "proposals"
  <2>1. received(c) = OnDaveMLSProposals(s, msg.batch)
    BY <1>5 DEF received, msg, s
  <2>2. QED
    BY <1>1, <1>2, <1>3, <1>4, <1>5, <2>1, ProposalsKeep DEF A, msg
<1>6. CASE msg.type = "commit"
  <2>1. received(c) = OnDaveMLSPrepareCommitTransition(s, msg.tid, msg.commit)
    BY <1>6 DEF received, msg, s
  <2>2. keeps(received(c), A)
    BY <1>1, <1>3, <1>6, <2>1, CommitTransitionKeeps
  <2>3. QED
    BY <1>2, <1>4, <2>2 DEF A, msg
<1>7. CASE msg.type = "welcome"
  <2>1. received(c) = OnDaveMLSWelcome(s, msg.tid, msg.epoch, msg.keyPackage)
    BY <1>7 DEF received, msg, s
  <2>2. keeps(received(c), A)
    BY <1>1, <1>3, <1>7, <2>1, WelcomeKeeps
  <2>3. QED
    BY <1>2, <1>4, <2>2 DEF A, msg
<1>8. CASE msg.type = "execute"
  <2>1. received(c) = OnDaveExecuteTransition(s, msg.tid)
    BY <1>8 DEF received, msg, s
  <2>2. keeps(received(c), A)
    BY <1>1, <1>3, <1>8, <2>1, ExecuteKeeps
  <2>3. QED
    BY <1>2, <1>4, <2>2 DEF A, msg
<1>9. QED
  BY <1>3, <1>5, <1>6, <1>7, <1>8

LEMMA ClientStepInv ==
  ASSUME RaceInv, NEW c \in Client, NEW result, keeps(result, gateway.announced),
         NEW msgs \in Seq(Message(gateway.announced)), clientStep(c, result, msgs)
  PROVE  RaceInv'
<1>1. gateway' = gateway
  BY DEF clientStep
<1>2. result.s \in SessionState /\ result.out \in Seq(Request)
  BY DEF keeps, sessionInv, historyInv
<1>3. client' \in [Client -> SessionState]
  BY <1>2 DEF clientStep, RaceInv
<1>4. \A d \in Client : sessionInv(client[d], gateway.announced)'
  BY <1>1 DEF clientStep, RaceInv, keeps
<1>5. (toClient \in [Client -> Seq(Message(gateway.announced))])'
  BY <1>1 DEF clientStep, RaceInv
<1>6. toGateway[c] \o result.out \in Seq(Request)
  BY <1>2, SeqConcat DEF RaceInv
<1>7. toGateway' \in [Client -> Seq(Request)]
  BY <1>6 DEF clientStep, RaceInv
<1>8. QED
  BY <1>1, <1>3, <1>4, <1>5, <1>7 DEF RaceInv

LEMMA ReceiveInv ==
  ASSUME RaceInv, NEW c \in Client, Receive(c)
  PROVE  RaceInv'
<1>1. /\ keeps(received(c), gateway.announced)
      /\ clientStep(c, received(c), Tail(toClient[c]))
  BY ReceiveKeeps
<1>2. Tail(toClient[c]) \in Seq(Message(gateway.announced))
  BY SeqHeadTail DEF RaceInv, Receive
<1>3. QED
  BY <1>1, <1>2, ClientStepInv

LEMMA OwnStepInv ==
  ASSUME RaceInv, NEW c \in Client, Timeout(c) \/ Drain(c)
  PROVE  RaceInv'
<1>1. /\ gateway.announced \in SUBSET Epoch /\ sessionInv(client[c], gateway.announced)
      /\ toClient[c] \in Seq(Message(gateway.announced))
  BY DEF RaceInv, GatewayState
<1>2. CASE Timeout(c)
  <2>1. keeps(recoverAfterTimeout(client[c]), gateway.announced)
    BY <1>1, TimeoutKeeps, ZenonT(60)
  <2>2. clientStep(c, recoverAfterTimeout(client[c]), toClient[c])
    BY <1>2 DEF Timeout
  <2>3. QED
    BY <1>1, <2>1, <2>2, ClientStepInv
<1>3. CASE Drain(c)
  <2>1. keeps(drainProposalQueueLocked(client[c]), gateway.announced)
    BY <1>1, DrainKeeps
  <2>2. clientStep(c, drainProposalQueueLocked(client[c]), toClient[c])
    BY <1>3 DEF Drain
  <2>3. QED
    BY <1>1, <2>1, <2>2, ClientStepInv
<1>4. QED
  BY <1>2, <1>3

(* The history only grows.                                                 *)
LEMMA HistoryGrows ==
  ASSUME NEW A \in SUBSET Epoch, NEW B \in SUBSET Epoch, A \subseteq B
  PROVE  /\ Message(A) \subseteq Message(B)
         /\ \A s : sessionInv(s, A) => sessionInv(s, B)
<1>1. Commit(A) \subseteq Commit(B)
  BY DEF Commit
<1>2. Announced(A) \subseteq Announced(B) /\ Welcomed(A) \subseteq Welcomed(B)
  BY <1>1 DEF Announced, Welcomed
<1>3. Message(A) \subseteq Message(B)
  BY <1>2, ZenonT(60) DEF Message
<1>4. ASSUME NEW s, sessionInv(s, A)
      PROVE  sessionInv(s, B)
  BY <1>4 DEF sessionInv, historyInv
<1>5. QED
  BY <1>3, <1>4

(* What a step of the gateway needs for RaceInv.                           *)
LEMMA GatewayStepInv ==
  ASSUME RaceInv, gateway' \in GatewayState, gateway'.epoch \in gateway'.announced,
         gateway.announced \subseteq gateway'.announced, UNCHANGED client,
         toClient' \in [Client -> Seq(Message(gateway'.announced))],
         toGateway' \in [Client -> Seq(Request)]
  PROVE  RaceInv'
<1>1. gateway.announced \in SUBSET Epoch /\ gateway'.announced \in SUBSET Epoch
  BY DEF RaceInv, GatewayState
<1>2. \A c \in Client : sessionInv(client[c], gateway'.announced)
  BY <1>1, HistoryGrows, ZenonT(60) DEF RaceInv
<1>3. QED
  BY <1>2 DEF RaceInv

LEMMA SendTo ==
  ASSUME NEW M, toClient \in [Client -> Seq(M)], NEW receivers, NEW msgs \in Seq(M)
  PROVE  sendTo(receivers, msgs) \in [Client -> Seq(M)]
<1>1. ASSUME NEW c \in Client
      PROVE  toClient[c] \o msgs \in Seq(M)
  BY SeqConcat
<1>2. QED
  BY <1>1 DEF sendTo

LEMMA ProposalTypes ==
  ASSUME RaceInv, NEW op \in {"add", "remove"}, NEW who \in Client \cup Guest,
         NEW keyPackage \in Nat
  PROVE  /\ proposal(op, who, keyPackage) \in Proposal
         /\ proposal(op, who, keyPackage).base = gateway.epoch
BY DEF RaceInv, GatewayState, proposal, Proposal

LEMMA MessageOfProposal ==
  ASSUME NEW op \in {"append", "revoke"}, NEW p \in Proposal, NEW A
  PROVE  /\ message(op, p) \in Message(A)
         /\ message(op, p).type = "proposals"
         /\ message(op, p).batch = [op |-> op, proposal |-> p]
<1>1. [op |-> op, proposal |-> p] \in Batch
  BY DEF Batch
<1>2. QED
  BY <1>1, ZenonT(60) DEF message, Message, Proposed

(* What accepting a commit does: the members it adds are welcomed, the     *)
(* others that stay are told of it.                                        *)
announcement(commit) == [type |-> "commit", tid |-> gateway.tid + 1, commit |-> commit]

welcomeTo(commit, keyPackage) ==
  [type |-> "welcome", tid |-> gateway.tid + 1, epoch |-> commit.epoch,
   keyPackage |-> keyPackage]

LEMMA AcceptFacts ==
  ASSUME RaceInv, NEW commit \in Commit(Epoch), accept(commit)
  PROVE  /\ gateway' \in GatewayState
         /\ gateway'.epoch = commit.epoch
         /\ gateway'.proposals = {}
         /\ gateway'.tid = gateway.tid + 1
         /\ gateway'.prepared = Append(gateway.prepared, gateway.tid + 1)
         /\ gateway'.announced = gateway.announced \cup {commit.epoch}
         /\ DOMAIN toClient' = Client
         /\ \A c \in Client :
              \/ \E p \in gateway.proposals :
                   /\ p.op = "add" /\ p.who = c
                   /\ gateway'.member[c] = p.keyPackage
                   /\ toClient'[c] = Append(toClient[c], welcomeTo(commit, p.keyPackage))
              \/ /\ gateway'.member[c] # gateway.member[c] => gateway'.member[c] = 0
                 /\ (\A p \in gateway.proposals : p.who # c) =>
                      gateway'.member[c] = gateway.member[c]
                 /\ toClient'[c] = IF gateway'.member[c] # 0
                                   THEN Append(toClient[c], announcement(commit))
                                   ELSE toClient[c]
<1> DEFINE added == {p \in gateway.proposals : p.op = "add" /\ p.who \in Client}
           removed == {p.who : p \in {q \in gateway.proposals : q.op = "remove"}}
           member == [c \in Client |->
             IF \E p \in added : p.who = c THEN (CHOOSE p \in added : p.who = c).keyPackage
             ELSE IF c \in removed THEN 0 ELSE gateway.member[c]]
<1>1. /\ gateway \in GatewayState /\ gateway.proposals \in SUBSET Proposal
      /\ gateway.member \in [Client -> Nat] /\ gateway.tid \in Nat
      /\ gateway.prepared \in Seq(Nat \ {0}) /\ gateway.announced \in SUBSET Epoch
      /\ commit.epoch \in Epoch
  BY DEF RaceInv, GatewayState, Commit
<1>2. /\ gateway' = [gateway EXCEPT !.epoch = commit.epoch, !.proposals = {},
                                    !.tid = gateway.tid + 1, !.member = member,
                                    !.announced = @ \cup {commit.epoch},
                                    !.prepared = Append(@, gateway.tid + 1)]
      /\ toClient' = [c \in Client |->
           IF \E p \in added : p.who = c THEN Append(toClient[c], welcomeTo(commit, member[c]))
           ELSE IF member[c] # 0 THEN Append(toClient[c], announcement(commit))
           ELSE toClient[c]]
  BY ZenonT(60) DEF accept, welcomeTo, announcement
<1>3. ASSUME NEW c \in Client, \E p \in added : p.who = c
      PROVE  \E p \in gateway.proposals :
               p.op = "add" /\ p.who = c /\ member[c] = p.keyPackage /\ p.keyPackage \in Nat
  <2>1. PICK p \in added : p.who = c /\ p = CHOOSE q \in added : q.who = c
    BY <1>3, ZenonT(60)
  <2>2. p \in Proposal /\ p \in gateway.proposals /\ p.op = "add"
    BY <1>1, <2>1
  <2>3. member[c] = p.keyPackage
    BY <1>3, <2>1, ZenonT(60)
  <2>4. p.keyPackage \in Nat
    BY <2>2 DEF Proposal
  <2>5. QED
    BY <2>1, <2>2, <2>3, <2>4, ZenonT(60)
<1>4. ASSUME NEW c \in Client, ~\E p \in added : p.who = c
      PROVE  /\ member[c] # gateway.member[c] => member[c] = 0
             /\ (\A p \in gateway.proposals : p.who # c) => member[c] = gateway.member[c]
             /\ member[c] \in Nat
  <2>1. member[c] = IF c \in removed THEN 0 ELSE gateway.member[c]
    BY <1>4, ZenonT(60)
  <2>2. QED
    BY <1>1, <2>1
<1>5. member \in [Client -> Nat]
  <2>1. \A c \in Client : member[c] \in Nat
    BY <1>3, <1>4, ZenonT(60)
  <2>2. QED
    BY <2>1, ZenonT(60)
<1> HIDE DEF added, removed, member
<1>6. /\ gateway'.epoch = commit.epoch /\ gateway'.proposals = {}
      /\ gateway'.tid = gateway.tid + 1 /\ gateway'.member = member
      /\ gateway'.announced = gateway.announced \cup {commit.epoch}
      /\ gateway'.prepared = Append(gateway.prepared, gateway.tid + 1)
      /\ gateway' \in GatewayState
  <2>1. /\ gateway.tid + 1 \in Nat
        /\ Append(gateway.prepared, gateway.tid + 1) \in Seq(Nat \ {0})
        /\ gateway.announced \cup {commit.epoch} \in SUBSET Epoch
    BY <1>1
  <2>2. /\ gateway'.epoch = commit.epoch /\ gateway'.proposals = {}
        /\ gateway'.tid = gateway.tid + 1 /\ gateway'.member = member
        /\ gateway'.announced = gateway.announced \cup {commit.epoch}
        /\ gateway'.prepared = Append(gateway.prepared, gateway.tid + 1)
    BY <1>1, <1>2, ZenonT(60) DEF GatewayState
  <2>3. gateway' \in GatewayState
    BY <1>1, <1>2, <1>5, <2>1, ZenonT(60) DEF GatewayState
  <2>4. QED
    BY <2>2, <2>3
<1>7. DOMAIN toClient' = Client
  BY <1>2
<1>8. ASSUME NEW c \in Client, \E p \in added : p.who = c
      PROVE  \E p \in gateway.proposals :
               /\ p.op = "add" /\ p.who = c
               /\ gateway'.member[c] = p.keyPackage
               /\ toClient'[c] = Append(toClient[c], welcomeTo(commit, p.keyPackage))
  <2>1. PICK p \in gateway.proposals : p.op = "add" /\ p.who = c /\ member[c] = p.keyPackage
    BY <1>3, <1>8
  <2>2. toClient'[c] = Append(toClient[c], welcomeTo(commit, member[c]))
    BY <1>2, <1>8, ZenonT(60)
  <2>3. QED
    BY <1>6, <2>1, <2>2
<1>9. ASSUME NEW c \in Client, ~\E p \in added : p.who = c
      PROVE  toClient'[c] = IF gateway'.member[c] # 0
                            THEN Append(toClient[c], announcement(commit))
                            ELSE toClient[c]
  BY <1>2, <1>6, <1>9, ZenonT(60)
<1>10. QED
  BY <1>4, <1>6, <1>7, <1>8, <1>9

LEMMA AcceptInv ==
  ASSUME RaceInv, NEW commit \in Commit(Epoch), accept(commit), UNCHANGED client,
         toGateway' \in [Client -> Seq(Request)]
  PROVE  RaceInv'
<1> DEFINE A == gateway.announced
           B == gateway'.announced
<1>1. /\ gateway' \in GatewayState /\ gateway'.epoch = commit.epoch
      /\ B = A \cup {commit.epoch} /\ DOMAIN toClient' = Client
      /\ \A c \in Client :
           \/ \E p \in gateway.proposals :
                toClient'[c] = Append(toClient[c], welcomeTo(commit, p.keyPackage))
           \/ toClient'[c] = Append(toClient[c], announcement(commit))
           \/ toClient'[c] = toClient[c]
  BY AcceptFacts, ZenonT(60)
<1>2. /\ A \in SUBSET Epoch /\ B \in SUBSET Epoch /\ A \subseteq B /\ commit.epoch \in B
      /\ gateway.tid + 1 \in Nat \ {0} /\ gateway.proposals \in SUBSET Proposal
  BY <1>1 DEF RaceInv, GatewayState
<1>3. commit \in Commit(B)
  BY <1>2 DEF Commit
<1>4. announcement(commit) \in Message(B)
  BY <1>2, <1>3, ZenonT(60) DEF announcement, Message, Announced
<1>5. \A p \in gateway.proposals : welcomeTo(commit, p.keyPackage) \in Message(B)
  <2>1. \A p \in gateway.proposals : p.keyPackage \in Nat
    BY <1>2 DEF Proposal
  <2>2. QED
    BY <1>2, <2>1, ZenonT(60) DEF welcomeTo, Message, Welcomed
<1>6. \A c \in Client : toClient[c] \in Seq(Message(B))
  BY <1>2, HistoryGrows, SeqSubset, ZenonT(60) DEF RaceInv
<1> HIDE DEF A, B
<1>7. ASSUME NEW c \in Client
      PROVE  toClient'[c] \in Seq(Message(B))
  <2>1. ASSUME NEW m \in Message(B)
        PROVE  Append(toClient[c], m) \in Seq(Message(B))
    BY <1>6, <1>7, SeqAppend
  <2>2. QED
    BY <1>1, <1>4, <1>5, <1>6, <1>7, <2>1, ZenonT(60)
<1>8. toClient' \in [Client -> Seq(Message(B))]
  <2>1. toClient' = [c \in Client |-> toClient'[c]]
    BY DEF accept
  <2>2. QED
    BY <1>7, <2>1, ZenonT(60)
<1>9. QED
  BY <1>1, <1>2, <1>8, GatewayStepInv, ZenonT(60) DEF A, B

LEMMA GatewayReceivesInv ==
  ASSUME RaceInv, NEW c \in Client, GatewayReceives(c)
  PROVE  RaceInv'
<1> DEFINE msg == Head(toGateway[c])
           A == gateway.announced
<1>1. /\ toGateway[c] \in Seq(Request) /\ toGateway[c] # <<>>
      /\ gateway \in GatewayState /\ A \in SUBSET Epoch
      /\ gateway.proposals \in SUBSET Proposal /\ gateway.epoch \in A
      /\ toClient \in [Client -> Seq(Message(A))]
  BY DEF RaceInv, GatewayReceives, GatewayState
<1>2. msg \in Request /\ Tail(toGateway[c]) \in Seq(Request)
  BY <1>1, SeqHeadTail
<1>3. /\ msg.type \in {"commit", "invalid", "keyPackage"}
      /\ msg.type = "commit" => msg \in Commit(Epoch)
      /\ msg.type = "keyPackage" => msg.keyPackage \in Nat
  BY <1>2, RequestTypes
<1>4. /\ toGateway' \in [Client -> Seq(Request)] /\ UNCHANGED client
  BY <1>2 DEF GatewayReceives, RaceInv
<1>5. ASSUME NEW P \in SUBSET Proposal, gateway' = [gateway EXCEPT !.proposals = P],
             NEW msgs \in Seq(Message(A)), toClient' = sendTo(Client, msgs)
      PROVE  RaceInv'
  <2>1. /\ gateway' \in GatewayState /\ gateway'.announced = A
        /\ gateway'.epoch = gateway.epoch
    BY <1>1, <1>5, ZenonT(60) DEF GatewayState
  <2>2. toClient' \in [Client -> Seq(Message(A))]
    BY <1>1, <1>5, SendTo
  <2> HIDE DEF A
  <2>3. QED
    BY <1>1, <1>4, <2>1, <2>2, GatewayStepInv DEF A
<1>6. ASSUME UNCHANGED <<gateway, toClient>>
      PROVE  RaceInv'
  BY <1>1, <1>4, <1>6, GatewayStepInv
<1>7. CASE msg.type = "commit"
  <2>1. GatewayReceivesCommit(c, msg)
    BY <1>7, ZenonT(60) DEF GatewayReceives
  <2>2. QED
    BY <1>3, <1>4, <1>6, <1>7, <2>1, AcceptInv DEF GatewayReceivesCommit
<1>8. CASE msg.type = "invalid"
  <2>1. GatewayReceivesInvalid(c)
    BY <1>8, ZenonT(60) DEF GatewayReceives
  <2> DEFINE p == proposal("remove", c, 0)
  <2>2. p \in Proposal /\ message("append", p) \in Message(A)
    BY ProposalTypes, MessageOfProposal, ZenonT(60)
  <2> HIDE DEF p
  <2>3. CASE propose(p)
    <3>1. /\ gateway.proposals \cup {p} \in SUBSET Proposal
          /\ <<message("append", p)>> \in Seq(Message(A))
      BY <1>1, <2>2
    <3>2. QED
      BY <1>5, <2>3, <3>1, ZenonT(60) DEF propose
  <2>4. QED
    BY <1>6, <2>1, <2>3 DEF GatewayReceivesInvalid, p
<1>9. CASE msg.type = "keyPackage"
  <2>1. GatewayReceivesKeyPackage(c, msg.keyPackage)
    BY <1>9, ZenonT(60) DEF GatewayReceives
  <2> DEFINE old == {p \in gateway.proposals : p.op = "add" /\ p.who = c}
             new == proposal("add", c, msg.keyPackage)
             revoked == IF old = {} THEN <<>>
                        ELSE <<message("revoke", CHOOSE p \in old : TRUE)>>
  <2>2. /\ gateway' = [gateway EXCEPT !.proposals = (@ \ old) \cup {new}]
        /\ toClient' = sendTo(Client, revoked \o <<message("append", new)>>)
    BY <2>1 DEF GatewayReceivesKeyPackage
  <2>3. new \in Proposal /\ message("append", new) \in Message(A)
    BY <1>3, <1>9, ProposalTypes, MessageOfProposal, ZenonT(60)
  <2>4. revoked \in Seq(Message(A))
    <3>1. CASE old = {}
      BY <3>1, SeqEmpty, ZenonT(60)
    <3>2. CASE old # {}
      <4> DEFINE q == CHOOSE p \in old : TRUE
      <4>1. q \in old
        BY <3>2, ZenonT(60)
      <4>2. q \in Proposal
        BY <1>1, <4>1
      <4>3. revoked = <<message("revoke", q)>>
        BY <3>2
      <4> HIDE DEF q, revoked
      <4>4. message("revoke", q) \in Message(A)
        BY <4>2, MessageOfProposal, ZenonT(60)
      <4>5. QED
        BY <4>3, <4>4
    <3>3. QED
      BY <3>1, <3>2
  <2> HIDE DEF old, new, revoked
  <2>5. /\ revoked \o <<message("append", new)>> \in Seq(Message(A))
        /\ (gateway.proposals \ old) \cup {new} \in SUBSET Proposal
    BY <1>1, <2>3, <2>4, SeqConcat
  <2>6. QED
    BY <1>5, <2>2, <2>5, ZenonT(60)
<1>10. QED
  BY <1>3, <1>7, <1>8, <1>9

LEMMA GatewayProposesInv ==
  ASSUME RaceInv, NEW g \in Guest, GatewayProposes(g)
  PROVE  RaceInv'
<1> DEFINE p == proposal("add", g, 0)
           A == gateway.announced
<1>1. /\ gateway' = [gateway EXCEPT !.proposals = @ \cup {p}, !.guests = @ \cup {g}]
      /\ toClient' = sendTo(Client, <<message("append", p)>>)
      /\ UNCHANGED <<client, toGateway>>
  BY DEF GatewayProposes
<1>2. p \in Proposal /\ message("append", p) \in Message(A)
  BY ProposalTypes, MessageOfProposal, ZenonT(60)
<1> HIDE DEF p
<1>3. /\ gateway' \in GatewayState /\ gateway'.announced = A /\ gateway'.epoch = gateway.epoch
      /\ gateway.epoch \in A
  BY <1>1, <1>2, ZenonT(60) DEF RaceInv, GatewayState
<1>4. toClient \in [Client -> Seq(Message(A))] /\ <<message("append", p)>> \in Seq(Message(A))
  BY <1>2 DEF RaceInv
<1>5. toClient' \in [Client -> Seq(Message(A))] /\ toGateway' \in [Client -> Seq(Request)]
  BY <1>1, <1>4, SendTo, ZenonT(60) DEF RaceInv
<1> HIDE DEF A
<1>6. QED
  BY <1>1, <1>3, <1>5, GatewayStepInv DEF A

LEMMA OtherMemberInv ==
  ASSUME RaceInv, OtherMemberCommits
  PROVE  RaceInv'
<1> DEFINE commit == [type |-> "commit", epoch |-> Append(gateway.epoch, Other),
                      refs |-> gateway.proposals]
<1>1. Append(gateway.epoch, Other) \in Epoch /\ gateway.proposals \in SUBSET Proposal
  BY DEF RaceInv, GatewayState, Epoch
<1>2. commit \in Commit(Epoch)
  BY <1>1 DEF Commit
<1>3. accept(commit) /\ UNCHANGED <<client, toGateway>>
  BY DEF OtherMemberCommits
<1> HIDE DEF commit
<1>4. QED
  BY <1>2, <1>3, AcceptInv DEF RaceInv

LEMMA GatewayExecutesInv ==
  ASSUME RaceInv, GatewayExecutes
  PROVE  RaceInv'
<1> DEFINE m == [type |-> "execute", tid |-> Head(gateway.prepared)]
           A == gateway.announced
<1>1. /\ gateway' = [gateway EXCEPT !.prepared = Tail(@)]
      /\ toClient' = sendTo({c \in Client : gateway.member[c] # 0}, <<m>>)
      /\ UNCHANGED <<client, toGateway>>
  BY DEF GatewayExecutes
<1>2. Head(gateway.prepared) \in Nat \ {0} /\ Tail(gateway.prepared) \in Seq(Nat \ {0})
  BY SeqHeadTail DEF RaceInv, GatewayState, GatewayExecutes
<1>3. m \in Message(A)
  BY <1>2, ZenonT(60) DEF Message, Executed
<1>4. /\ gateway' \in GatewayState /\ gateway'.announced = A /\ gateway'.epoch = gateway.epoch
      /\ gateway.epoch \in A
  BY <1>1, <1>2, ZenonT(60) DEF RaceInv, GatewayState
<1>5. toClient \in [Client -> Seq(Message(A))] /\ <<m>> \in Seq(Message(A))
  BY <1>3 DEF RaceInv
<1> HIDE DEF m
<1>6. toClient' \in [Client -> Seq(Message(A))] /\ toGateway' \in [Client -> Seq(Request)]
  BY <1>1, <1>5, SendTo, ZenonT(60) DEF RaceInv
<1> HIDE DEF A
<1>7. QED
  BY <1>1, <1>4, <1>6, GatewayStepInv DEF A

LEMMA RaceInvInit == RaceInit => RaceInv
<1> SUFFICES ASSUME RaceInit
             PROVE  RaceInv
  OBVIOUS
<1>1. <<>> \in Epoch /\ <<>> \in Seq(Batch) /\ <<>> \in Seq(Request)
      /\ <<>> \in Seq(Nat \ {0}) /\ <<>> \in Seq(Message({<<>>}))
  BY SeqEmpty DEF Epoch
<1>2. groupAt(<<>>) \in Group /\ groupAt(<<>>).epoch = <<>>
  BY <1>1 DEF Group, groupAt
<1>3. gateway \in GatewayState /\ gateway.announced = {<<>>} /\ gateway.epoch = <<>>
  BY <1>1 DEF RaceInit, GatewayState
<1>4. ASSUME NEW c \in Client
      PROVE  client[c] \in SessionState /\ sessionInv(client[c], {<<>>})
  <2>1. /\ client[c].userID = c /\ client[c].group = groupAt(<<>>)
        /\ client[c].activeEpoch = <<>> /\ client[c].pendingEpoch = Nil
        /\ client[c].pendingCommit = Nil /\ client[c].pendingTransitionID = 0
    BY <1>4 DEF RaceInit
  <2>2. client[c] \in SessionState
    BY <1>1, <1>2, <1>4 DEF RaceInit, SessionState
  <2>3. groupAt(<<>>) # Nil
    BY <1>2, NilAssumption
  <2>4. QED
    BY <1>2, <2>1, <2>2, <2>3 DEF sessionInv, historyInv
<1>5. client \in [Client -> SessionState]
  BY <1>4 DEF RaceInit
<1>6. QED
  BY <1>1, <1>3, <1>4, <1>5 DEF RaceInv, RaceInit

LEMMA RaceInvNext == RaceInv /\ [RaceNext]_raceVars => RaceInv'
<1> SUFFICES ASSUME RaceInv, [RaceNext]_raceVars
             PROVE  RaceInv'
  OBVIOUS
<1>1. ASSUME NEW c \in Client, Receive(c)
      PROVE  RaceInv'
  BY <1>1, ReceiveInv
<1>2. ASSUME NEW c \in Client, Timeout(c) \/ Drain(c)
      PROVE  RaceInv'
  BY <1>2, OwnStepInv
<1>3. ASSUME NEW c \in Client, GatewayReceives(c)
      PROVE  RaceInv'
  BY <1>3, GatewayReceivesInv
<1>4. ASSUME NEW g \in Guest, GatewayProposes(g)
      PROVE  RaceInv'
  BY <1>4, GatewayProposesInv
<1>5. CASE OtherMemberCommits
  BY <1>5, OtherMemberInv
<1>6. CASE GatewayExecutes
  BY <1>6, GatewayExecutesInv
<1>7. CASE UNCHANGED raceVars
  BY <1>7, ZenonT(60) DEF raceVars, RaceInv
<1>8. QED
  BY <1>1, <1>2, <1>3, <1>4, <1>5, <1>6, <1>7, ZenonT(60) DEF RaceNext

LEMMA RaceInvCorrect == RaceSpec => []RaceInv
BY RaceInvInit, RaceInvNext, PTL DEF RaceSpec

(* For any number of sessions, guests and lost commits: what a session     *)
(* sends with, is about to, and builds its commits on are epochs that the  *)
(* gateway announced, because the transition that executes is never one    *)
(* that was prepared for a commit of the session's own still unconfirmed.  *)
THEOREM OneHistoryCorrect == RaceSpec => []OneHistory
<1>1. RaceInv => OneHistory
  <2> SUFFICES ASSUME RaceInv, NEW c \in Client
               PROVE  LET s == client[c]
                      IN /\ s.activeEpoch \in gateway.announced
                         /\ s.pendingEpoch \in gateway.announced \cup {s.pendingCommit, Nil}
                         /\ confirmedGroup(s) # Nil =>
                              confirmedGroup(s).epoch \in gateway.announced
    BY ZenonT(60) DEF OneHistory
  <2> DEFINE s == client[c]
  <2>1. sessionInv(s, gateway.announced)
    BY DEF RaceInv
  <2> HIDE DEF s
  <2>2. /\ s.activeEpoch \in gateway.announced
        /\ s.pendingEpoch \in gateway.announced \cup {s.pendingCommit, Nil}
        /\ confirmedGroup(s) # Nil => confirmedGroup(s).epoch \in gateway.announced
    BY <2>1 DEF sessionInv, historyInv, confirmedGroup
  <2>3. QED
    BY <2>2 DEF s
<1>2. QED
  BY <1>1, RaceInvCorrect, PTL

-----------------------------------------------------------------------------
(* A message that takes the session it reaches to another epoch.           *)
moves(m) == m.type \in {"commit", "welcome"}

epochOf(m) == IF m.type = "commit" THEN m.commit.epoch ELSE m.epoch

(* The session is in the gateway's group, or is about to read that it is.  *)
inGroup(c) ==
  \/ client[c].group # Nil
  \/ \E i \in DOMAIN toClient[c] :
       /\ toClient[c][i].type = "welcome"
       /\ toClient[c][i].keyPackage = client[c].keyPackage

(* The last transition is executed after the i-th message.                 *)
toExecute(c, i) ==
  \/ \E k \in DOMAIN gateway.prepared : gateway.prepared[k] = gateway.tid
  \/ \E j \in DOMAIN toClient[c] :
       j > i /\ toClient[c][j].type = "execute" /\ toClient[c][j].tid = gateway.tid

(* Proposal p is among the messages after the i-th.                        *)
toPropose(c, p, i) ==
  \E j \in DOMAIN toClient[c] : j > i /\ toClient[c][j] = message("append", p)

(* The gateway's epoch is among the messages, and the last such.           *)
toFollow(c) ==
  \E i \in DOMAIN toClient[c] :
    /\ moves(toClient[c][i])
    /\ epochOf(toClient[c][i]) = gateway.epoch
    /\ toClient[c][i].tid = gateway.tid
    /\ \A j \in DOMAIN toClient[c] : j > i => ~moves(toClient[c][j])
    /\ toExecute(c, i)
    /\ \A p \in gateway.proposals : toPropose(c, p, i)

queued(s, p) ==
  /\ s.pendingEpoch # Nil \/ s.draining
  /\ \E k \in DOMAIN s.proposalQueue : s.proposalQueue[k] = [op |-> "append", proposal |-> p]

(* The session is in the gateway's epoch, or will be when it executes.     *)
upToDate(c) ==
  LET s == client[c]
  IN /\ s.group # Nil
     /\ \A j \in DOMAIN toClient[c] : ~moves(toClient[c][j])
     /\ confirmedGroup(s).epoch = gateway.epoch
     /\ \/ s.activeEpoch = gateway.epoch /\ (s.draining \/ s.pendingTransitionID = 0)
        \/ /\ ~s.draining
           /\ s.pendingTransitionID = gateway.tid
           /\ s.pendingEpoch = gateway.epoch
           /\ s.pendingCommit = Nil
           /\ toExecute(c, 0)
     /\ \A p \in gateway.proposals :
          toPropose(c, p, 0) \/ p \in confirmedGroup(s).cached \/ queued(s, p)

(* Request m came after key package k, when K is the last one.             *)
cameAfter(m, k, K) ==
  \/ m.type = "commit"
  \/ m.type = "invalid" /\ k < K
  \/ m.type = "keyPackage" /\ m.keyPackage \in (k + 1)..K

memberInv(c) ==
  /\ gateway.member[c] # 0
  /\ \A i \in DOMAIN toGateway[c] : toGateway[c][i].type = "commit"
  /\ \A p \in gateway.proposals : p.who # c

(* The key packages of session c, wherever they are.                       *)
keyPackageInv(c) ==
  /\ client[c].keyPackage \in Nat \ {0}
  /\ \A i \in DOMAIN toClient[c] :
       toClient[c][i].type = "welcome" =>
         toClient[c][i].keyPackage \in 1..client[c].keyPackage
  /\ \A i \in DOMAIN toGateway[c] :
       toGateway[c][i].type = "keyPackage" =>
         /\ toGateway[c][i].keyPackage \in 1..client[c].keyPackage
         /\ \A j \in DOMAIN toGateway[c] :
              j > i => cameAfter(toGateway[c][j], toGateway[c][i].keyPackage,
                                 client[c].keyPackage)
  /\ \A p \in gateway.proposals :
       p.who = c /\ p.op = "add" =>
         /\ p.keyPackage \in 1..client[c].keyPackage
         /\ \A j \in DOMAIN toGateway[c] :
              cameAfter(toGateway[c][j], p.keyPackage, client[c].keyPackage)

(* A revoked proposal never comes back.                                    *)
gone(p) ==
  /\ p \notin gateway.proposals
  /\ p.op = "add" /\ p.who \in Client
  /\ p.keyPackage <= client[p.who].keyPackage
  /\ \A j \in DOMAIN toGateway[p.who] :
       cameAfter(toGateway[p.who][j], p.keyPackage, client[p.who].keyPackage)

revokeInv(c) ==
  /\ \A i \in DOMAIN toClient[c] :
       toClient[c][i].type = "proposals" /\ toClient[c][i].batch.op = "revoke" =>
         gone(toClient[c][i].batch.proposal)
  /\ \A k \in DOMAIN client[c].proposalQueue :
       client[c].proposalQueue[k].op = "revoke" => gone(client[c].proposalQueue[k].proposal)

FollowInv ==
  /\ \A p \in gateway.proposals : p.base = gateway.epoch
  /\ \A c \in Client :
       /\ inGroup(c) => memberInv(c) /\ (toFollow(c) \/ upToDate(c))
       /\ keyPackageInv(c)
       /\ revokeInv(c)

-----------------------------------------------------------------------------
(* What a session does to a batch when no epoch is pending: a proposal of  *)
(* the epoch it is in is cached, and none is lost that is not revoked.     *)
processed(s, result, batch) ==
  /\ result.s.group # Nil
  /\ result.s.activeEpoch = s.activeEpoch
  /\ result.s.pendingTransitionID = s.pendingTransitionID
  /\ result.s.draining = s.draining
  /\ confirmedGroup(result.s).epoch = s.group.epoch
  /\ \A p \in s.group.cached :
       p \in confirmedGroup(result.s).cached \/ batch = [op |-> "revoke", proposal |-> p]
  /\ batch.op = "append" /\ batch.proposal.base = s.group.epoch =>
       batch.proposal \in confirmedGroup(result.s).cached

(* What no handler but an invalidation does.                               *)
quiet(s, result) ==
  /\ result.s.keyPackage = s.keyPackage
  /\ result.s.draining \in BOOLEAN
  /\ \A j \in DOMAIN result.out : result.out[j].type = "commit"

LEMMA ProcessResult ==
  ASSUME NEW A \in SUBSET Epoch, NEW s, sessionInv(s, A), s.pendingEpoch = Nil,
         NEW batch \in Batch, NEW result,
         result = processAndCommitProposalBatchLocked(s, batch)
  PROVE  /\ quiet(s, result)
         /\ result.s.proposalQueue = s.proposalQueue
         /\ s.group = Nil => result.s.group = Nil
         /\ s.group # Nil => processed(s, result, batch)
<1> DEFINE p == batch.proposal
<1>1. /\ s \in SessionState /\ s.group \in Group \cup {Nil} /\ s.pendingCommit = Nil
      /\ p \in Proposal /\ batch.op \in {"append", "revoke"} /\ s.draining \in BOOLEAN
      /\ batch = [op |-> batch.op, proposal |-> p]
  BY DEF sessionInv, historyInv, SessionState, Batch
<1>2. ASSUME result = step(s, <<>>),
             batch.op = "append" => s.group = Nil \/ p.base # s.group.epoch
      PROVE  /\ quiet(s, result)
             /\ result.s.proposalQueue = s.proposalQueue
             /\ s.group = Nil => result.s.group = Nil
             /\ s.group # Nil => processed(s, result, batch)
  BY <1>1, <1>2, SeqEmpty DEF quiet, processed, step, confirmedGroup
<1>3. ASSUME NEW cached \in SUBSET Proposal, s.group # Nil,
             NEW r, r = [s EXCEPT !.group.cached = cached]
      PROVE  /\ r \in SessionState /\ r.group \in Group /\ r.group # Nil
             /\ r.group.epoch = s.group.epoch /\ r.group.cached = cached
             /\ r.pendingCommit = Nil
             /\ r.activeEpoch = s.activeEpoch
             /\ r.pendingTransitionID = s.pendingTransitionID /\ r.draining = s.draining
             /\ r.keyPackage = s.keyPackage
             /\ r.proposalQueue = s.proposalQueue
  <2> DEFINE g == [s.group EXCEPT !.cached = cached]
  <2>1. g \in Group /\ g.epoch = s.group.epoch /\ g.cached = cached
    BY <1>1, <1>3 DEF Group
  <2>2. g # Nil
    BY <2>1, NilAssumption
  <2>3. r = [s EXCEPT !.group = g]
    BY <1>3
  <2> HIDE DEF g
  <2>4. /\ r.group = g /\ r.pendingCommit = s.pendingCommit
        /\ r.activeEpoch = s.activeEpoch
        /\ r.pendingTransitionID = s.pendingTransitionID /\ r.draining = s.draining
        /\ r.keyPackage = s.keyPackage
        /\ r.proposalQueue = s.proposalQueue
        /\ r \in SessionState
    BY <1>1, <2>1, <2>3, ZenonT(60) DEF SessionState
  <2>5. QED
    BY <1>1, <2>1, <2>2, <2>4, ZenonT(60)
<1>4. CASE s.group = Nil
  BY <1>2, <1>4 DEF processAndCommitProposalBatchLocked
<1>5. CASE s.group # Nil /\ batch.op = "revoke"
  <2> DEFINE cached == s.group.cached \ {p}
             r == [s EXCEPT !.group.cached = cached]
  <2>1. cached \in SUBSET Proposal
    BY <1>1, <1>5 DEF Group
  <2>2. result = step(r, <<>>)
    BY <1>5 DEF processAndCommitProposalBatchLocked
  <2> HIDE DEF r
  <2>3. /\ r \in SessionState /\ r.group \in Group /\ r.group # Nil
        /\ r.group.epoch = s.group.epoch /\ r.group.cached = cached
        /\ r.pendingCommit = Nil
        /\ r.activeEpoch = s.activeEpoch
        /\ r.pendingTransitionID = s.pendingTransitionID /\ r.draining = s.draining
        /\ r.keyPackage = s.keyPackage
        /\ r.proposalQueue = s.proposalQueue
    BY <1>3, <1>5, <2>1, ZenonT(60) DEF r
  <2>4. result.s = r /\ result.out = <<>>
    BY <2>2 DEF step
  <2>5. quiet(s, result)
    BY <1>1, <2>3, <2>4, SeqEmpty DEF quiet
  <2>6. processed(s, result, batch)
    BY <1>1, <1>5, <2>3, <2>4 DEF processed, confirmedGroup
  <2>7. QED
    BY <1>5, <2>3, <2>4, <2>5, <2>6
<1>6. CASE s.group # Nil /\ batch.op = "append" /\ p.base # s.group.epoch
  BY <1>2, <1>6 DEF processAndCommitProposalBatchLocked
<1>7. CASE s.group # Nil /\ batch.op = "append" /\ p.base = s.group.epoch
  <2> DEFINE cached == s.group.cached \cup {p}
             r == [s EXCEPT !.group.cached = cached]
             e == Append(r.group.epoch, r.userID)
             t == [r EXCEPT !.group = groupAt(e), !.pendingEpoch = e, !.pendingCommit = e,
                            !.preCommitGroupState = r.group, !.watch = "commit"]
             m == [type |-> "commit", epoch |-> e, refs |-> r.group.cached]
  <2>1. cached \in SUBSET Proposal
    BY <1>1, <1>7 DEF Group
  <2>2. result = step(t, <<m>>)
    BY <1>7 DEF processAndCommitProposalBatchLocked, commitProposalsLocked
  <2> HIDE DEF r
  <2>3. /\ r \in SessionState /\ r.group \in Group /\ r.group # Nil
        /\ r.group.epoch = s.group.epoch /\ r.group.cached = cached
        /\ r.pendingCommit = Nil
        /\ r.activeEpoch = s.activeEpoch
        /\ r.pendingTransitionID = s.pendingTransitionID /\ r.draining = s.draining
        /\ r.keyPackage = s.keyPackage
        /\ r.proposalQueue = s.proposalQueue
    BY <1>3, <1>7, <2>1, ZenonT(60) DEF r
  <2>4. e \in Epoch /\ groupAt(e) \in Group
    BY <2>3 DEF SessionState, Group, groupAt, Epoch
  <2>5. e # Nil /\ groupAt(e) # Nil
    BY <2>4, NilAssumption, ZenonT(60)
  <2> HIDE DEF e
  <2>6. /\ t.group = groupAt(e) /\ t.pendingCommit = e /\ t.preCommitGroupState = r.group
        /\ t.activeEpoch = r.activeEpoch
        /\ t.pendingTransitionID = r.pendingTransitionID /\ t.draining = r.draining
        /\ t.keyPackage = r.keyPackage
        /\ t.proposalQueue = r.proposalQueue
    BY <2>3, ZenonT(60) DEF SessionState
  <2>7. result.s = t /\ result.out = <<m>> /\ m.type = "commit"
    BY <2>2 DEF step
  <2> HIDE DEF t, m
  <2>8. quiet(s, result)
    BY <1>1, <2>3, <2>6, <2>7 DEF quiet
  <2>9. processed(s, result, batch)
    BY <1>1, <1>7, <2>3, <2>5, <2>6, <2>7 DEF processed, confirmedGroup
  <2>10. QED
    BY <1>7, <2>3, <2>6, <2>7, <2>8, <2>9
<1>8. QED
  BY <1>1, <1>4, <1>5, <1>6, <1>7, ZenonT(60)

-----------------------------------------------------------------------------
(* Steps of the sessions.                                                  *)
LEMMA ClientStepFacts ==
  ASSUME RaceInv, NEW c \in Client, NEW result, NEW msgs, clientStep(c, result, msgs)
  PROVE  /\ gateway' = gateway
         /\ client'[c] = result.s
         /\ toClient'[c] = msgs
         /\ toGateway'[c] = toGateway[c] \o result.out
         /\ \A d \in Client \ {c} :
              /\ client'[d] = client[d]
              /\ toClient'[d] = toClient[d]
              /\ toGateway'[d] = toGateway[d]
BY DEF clientStep, RaceInv

(* The requests a session has made, and the ones it makes now.             *)
LEMMA Requested ==
  ASSUME RaceInv, NEW c \in Client, NEW result, NEW msgs, clientStep(c, result, msgs),
         keeps(result, gateway.announced)
  PROVE  /\ \A i \in DOMAIN toGateway[c] :
              i \in DOMAIN toGateway'[c] /\ toGateway'[c][i] = toGateway[c][i]
         /\ \A i \in DOMAIN toGateway'[c] :
              \/ i \in DOMAIN toGateway[c] /\ toGateway'[c][i] = toGateway[c][i]
              \/ /\ i - Len(toGateway[c]) \in DOMAIN result.out
                 /\ toGateway'[c][i] = result.out[i - Len(toGateway[c])]
         /\ DOMAIN toGateway[c] = 1..Len(toGateway[c]) /\ Len(toGateway[c]) \in Nat
         /\ DOMAIN result.out = 1..Len(result.out) /\ Len(result.out) \in Nat
         /\ DOMAIN toGateway'[c] = 1..(Len(toGateway[c]) + Len(result.out))
<1> DEFINE q == toGateway[c]
           out == result.out
           new == toGateway'[c]
<1>1. new = q \o out /\ q \in Seq(Request) /\ out \in Seq(Request)
  BY ClientStepFacts DEF RaceInv, keeps
<1> HIDE DEF q, out, new
<1>2. /\ new \in Seq(Request) /\ Len(new) = Len(q) + Len(out)
      /\ \A i \in 1..(Len(q) + Len(out)) :
           new[i] = IF i <= Len(q) THEN q[i] ELSE out[i - Len(q)]
  BY <1>1, SeqConcat
<1>3. /\ Len(q) \in Nat /\ DOMAIN q = 1..Len(q)
      /\ Len(out) \in Nat /\ DOMAIN out = 1..Len(out)
      /\ DOMAIN new = 1..Len(new)
  BY <1>1, <1>2, SeqLen
<1>4. /\ \A i \in DOMAIN q : i \in DOMAIN new /\ new[i] = q[i]
      /\ \A i \in DOMAIN new :
           \/ i \in DOMAIN q /\ new[i] = q[i]
           \/ i - Len(q) \in DOMAIN out /\ new[i] = out[i - Len(q)]
  BY <1>2, <1>3
<1>5. QED
  BY <1>2, <1>3, <1>4, ZenonT(60) DEF q, out, new

(* Whatever a session requests next comes after its last key package.      *)
LEMMA RequestsComeAfter ==
  ASSUME RaceInv, NEW c \in Client, NEW result, NEW msgs, clientStep(c, result, msgs),
         keeps(result, gateway.announced),
         quiet(client[c], result) \/ invalidated(client[c], result),
         NEW k \in Nat, k <= client[c].keyPackage
  PROVE  /\ client'[c].keyPackage \in Nat /\ client[c].keyPackage \in Nat
         /\ client[c].keyPackage <= client'[c].keyPackage
         /\ \A m :
              cameAfter(m, k, client[c].keyPackage) => cameAfter(m, k, client'[c].keyPackage)
         /\ \A j \in DOMAIN result.out : cameAfter(result.out[j], k, client'[c].keyPackage)
<1>1. /\ client'[c] = result.s /\ client[c].keyPackage \in Nat
      /\ client'[c].keyPackage \in Nat
  <2>1. client'[c] = result.s
    BY ClientStepFacts, ZenonT(60)
  <2>2. client[c] \in SessionState /\ result.s \in SessionState
    BY DEF RaceInv, keeps, sessionInv, historyInv
  <2>3. QED
    BY <2>1, <2>2 DEF SessionState
<1>2. CASE quiet(client[c], result)
  <2>1. client'[c].keyPackage = client[c].keyPackage
    BY <1>1, <1>2 DEF quiet
  <2>2. QED
    BY <1>1, <1>2, <2>1 DEF quiet, cameAfter
<1>3. CASE invalidated(client[c], result)
  <2>1. client'[c].keyPackage = client[c].keyPackage + 1
    BY <1>1, <1>3 DEF invalidated
  <2>2. \A m : cameAfter(m, k, client[c].keyPackage) => cameAfter(m, k, client'[c].keyPackage)
    BY <1>1, <2>1 DEF cameAfter
  <2> DEFINE m == [type |-> "invalid"]
             n == [type |-> "keyPackage", keyPackage |-> client[c].keyPackage + 1]
  <2>3. result.out = <<m, n>>
    BY <1>3 DEF invalidated
  <2>4. ASSUME NEW x, x = m \/ x = n
        PROVE  cameAfter(x, k, client'[c].keyPackage)
    <3>1. CASE x = m
      <4>1. x.type = "invalid" /\ k < client'[c].keyPackage
        BY <1>1, <2>1, <3>1
      <4>2. QED
        BY <4>1 DEF cameAfter
    <3>2. CASE x = n
      <4>1. x.type = "keyPackage" /\ x.keyPackage \in (k + 1)..client'[c].keyPackage
        BY <1>1, <2>1, <3>2
      <4>2. QED
        BY <4>1 DEF cameAfter
    <3>3. QED
      BY <2>4, <3>1, <3>2
  <2> HIDE DEF m, n
  <2>5. \A j \in DOMAIN result.out : result.out[j] = m \/ result.out[j] = n
    BY <2>3
  <2>6. QED
    BY <1>1, <2>1, <2>2, <2>4, <2>5
<1>4. QED
  BY <1>2, <1>3

LEMMA GoneStays ==
  ASSUME RaceInv, NEW c \in Client, NEW result, NEW msgs, clientStep(c, result, msgs),
         keeps(result, gateway.announced),
         quiet(client[c], result) \/ invalidated(client[c], result),
         NEW p \in Proposal, gone(p)
  PROVE  gone(p)'
<1>1. /\ gateway' = gateway /\ p.keyPackage \in Nat
      /\ p.who \in Client /\ p.keyPackage <= client[p.who].keyPackage
  BY ClientStepFacts, ZenonT(60) DEF gone, Proposal
<1>2. CASE p.who = c
  <2>1. /\ client'[c].keyPackage \in Nat /\ client[c].keyPackage \in Nat
        /\ client[c].keyPackage <= client'[c].keyPackage
        /\ \A m :
             cameAfter(m, p.keyPackage, client[c].keyPackage) =>
               cameAfter(m, p.keyPackage, client'[c].keyPackage)
        /\ \A j \in DOMAIN result.out :
             cameAfter(result.out[j], p.keyPackage, client'[c].keyPackage)
    BY <1>1, <1>2, RequestsComeAfter
  <2>2. \A i \in DOMAIN toGateway'[c] :
          \/ i \in DOMAIN toGateway[c] /\ toGateway'[c][i] = toGateway[c][i]
          \/ /\ i - Len(toGateway[c]) \in DOMAIN result.out
             /\ toGateway'[c][i] = result.out[i - Len(toGateway[c])]
    BY Requested, ZenonT(60)
  <2>3. \A j \in DOMAIN toGateway[c] :
          cameAfter(toGateway[c][j], p.keyPackage, client[c].keyPackage)
    BY <1>2 DEF gone
  <2>4. \A i \in DOMAIN toGateway'[c] :
          cameAfter(toGateway'[c][i], p.keyPackage, client'[c].keyPackage)
    <3> SUFFICES ASSUME NEW i \in DOMAIN toGateway'[c]
                 PROVE  cameAfter(toGateway'[c][i], p.keyPackage, client'[c].keyPackage)
      OBVIOUS
    <3>1. CASE i \in DOMAIN toGateway[c] /\ toGateway'[c][i] = toGateway[c][i]
      BY <2>1, <2>3, <3>1
    <3>2. CASE /\ i - Len(toGateway[c]) \in DOMAIN result.out
               /\ toGateway'[c][i] = result.out[i - Len(toGateway[c])]
      BY <2>1, <3>2
    <3>3. QED
      BY <2>2, <3>1, <3>2
  <2>5. p.keyPackage <= client'[c].keyPackage
    BY <1>1, <1>2, <2>1
  <2>6. QED
    BY <1>1, <1>2, <2>4, <2>5 DEF gone
<1>3. CASE p.who # c
  <2>1. client'[p.who] = client[p.who] /\ toGateway'[p.who] = toGateway[p.who]
    <3>1. p.who \in Client \ {c}
      BY <1>1, <1>3
    <3>2. QED
      BY <3>1, ClientStepFacts, ZenonT(60)
  <2>2. QED
    BY <1>1, <2>1 DEF gone
<1>4. QED
  BY <1>2, <1>3

(* The proposals that messages and queues carry.                           *)
LEMMA CarriedProposals ==
  ASSUME RaceInv, NEW c \in Client
  PROVE  /\ \A i \in DOMAIN toClient[c] :
              /\ toClient[c][i] \in Message(gateway.announced)
              /\ toClient[c][i].type = "proposals" =>
                   toClient[c][i].batch \in Batch /\ toClient[c][i].batch.proposal \in Proposal
         /\ \A k \in DOMAIN client[c].proposalQueue :
              /\ client[c].proposalQueue[k] \in Batch
              /\ client[c].proposalQueue[k].proposal \in Proposal
         /\ gateway.proposals \in SUBSET Proposal
<1>1. \A b \in Batch : b.proposal \in Proposal
  BY DEF Batch
<1>2. ASSUME NEW i \in DOMAIN toClient[c]
      PROVE  toClient[c][i] \in Message(gateway.announced)
  BY <1>2 DEF RaceInv
<1>3. ASSUME NEW k \in DOMAIN client[c].proposalQueue
      PROVE  client[c].proposalQueue[k] \in Batch
  BY <1>3, SMTT(30) DEF RaceInv, SessionState
<1>4. gateway.proposals \in SUBSET Proposal
  BY DEF RaceInv, GatewayState
<1>5. QED
  BY <1>1, <1>2, <1>3, <1>4, MessageTypes

LEMMA KeyPackageInvStep ==
  ASSUME RaceInv, NEW c \in Client, keyPackageInv(c), NEW result, NEW msgs,
         clientStep(c, result, msgs), keeps(result, gateway.announced),
         quiet(client[c], result) \/ invalidated(client[c], result),
         \A i \in DOMAIN msgs : \E j \in DOMAIN toClient[c] : toClient[c][j] = msgs[i]
  PROVE  keyPackageInv(c)'
<1> DEFINE q == toGateway[c]
           new == toGateway'[c]
           K == client[c].keyPackage
<1>1. /\ gateway' = gateway /\ toClient'[c] = msgs /\ client'[c] = result.s
  BY DEF clientStep, RaceInv
<1>2. K \in Nat \ {0}
  BY DEF keyPackageInv
<1>3. /\ client'[c].keyPackage \in Nat /\ K <= client'[c].keyPackage
  BY <1>2, RequestsComeAfter
<1>4. ASSUME NEW k \in Nat, k <= K
      PROVE  /\ \A m :
                  cameAfter(m, k, client[c].keyPackage) =>
                    cameAfter(m, k, client'[c].keyPackage)
             /\ \A j \in DOMAIN result.out : cameAfter(result.out[j], k, client'[c].keyPackage)
  BY <1>4, RequestsComeAfter
<1>5. /\ \A i \in DOMAIN new :
           \/ i \in DOMAIN q /\ new[i] = q[i]
           \/ i - Len(q) \in DOMAIN result.out /\ new[i] = result.out[i - Len(q)]
      /\ DOMAIN q = 1..Len(q) /\ Len(q) \in Nat
      /\ DOMAIN result.out = 1..Len(result.out) /\ Len(result.out) \in Nat
      /\ DOMAIN new = 1..(Len(q) + Len(result.out))
  BY Requested, ZenonT(60)
<1>6. \A i \in DOMAIN toClient'[c] :
        toClient'[c][i].type = "welcome" =>
          toClient'[c][i].keyPackage \in 1..client'[c].keyPackage
  BY <1>1, <1>2, <1>3 DEF keyPackageInv
<1>7. ASSUME NEW i \in DOMAIN new, new[i].type = "keyPackage"
      PROVE  /\ new[i].keyPackage \in 1..client'[c].keyPackage
             /\ \A j \in DOMAIN new :
                  j > i => cameAfter(new[j], new[i].keyPackage, client'[c].keyPackage)
  <2>1. CASE i \in DOMAIN q /\ new[i] = q[i]
    <3> DEFINE k == q[i].keyPackage
    <3>1. /\ k \in 1..K
          /\ \A j \in DOMAIN q : j > i => cameAfter(q[j], k, client[c].keyPackage)
      BY <1>7, <2>1 DEF keyPackageInv
    <3> HIDE DEF k
    <3>2. ASSUME NEW j \in DOMAIN new, j > i
          PROVE  cameAfter(toGateway'[c][j], k, client'[c].keyPackage)
      <4>1. k \in Nat /\ k <= K
        BY <1>2, <3>1
      <4>2. CASE j \in DOMAIN q /\ new[j] = q[j]
        BY <1>4, <3>1, <3>2, <4>1, <4>2, ZenonT(60)
      <4>3. CASE j - Len(q) \in DOMAIN result.out /\ new[j] = result.out[j - Len(q)]
        BY <1>4, <4>1, <4>3
      <4>4. QED
        BY <1>5, <3>2, <4>2, <4>3, ZenonT(60)
    <3>3. QED
      BY <1>2, <1>3, <2>1, <3>1, <3>2, SMTT(30) DEF k
  <2>2. CASE i - Len(q) \in DOMAIN result.out /\ new[i] = result.out[i - Len(q)]
    <3>1. invalidated(client[c], result)
      BY <1>7, <2>2 DEF quiet
    <3>2. result.out = <<[type |-> "invalid"], [type |-> "keyPackage", keyPackage |-> K + 1]>>
      BY <3>1 DEF invalidated
    <3>3. i - Len(q) = 2 /\ Len(result.out) = 2 /\ new[i].keyPackage = K + 1
      BY <1>5, <1>7, <2>2, <3>2, SMTT(30)
    <3>4. client'[c].keyPackage = K + 1
      BY <1>1, <3>1 DEF invalidated
    <3>5. \A j \in DOMAIN new : ~(j > i)
      BY <1>5, <3>3
    <3>6. QED
      BY <1>2, <3>3, <3>4, <3>5
  <2>3. QED
    BY <1>5, <1>7, <2>1, <2>2, ZenonT(60)
<1>8. ASSUME NEW p \in gateway.proposals, p.who = c, p.op = "add"
      PROVE  /\ p.keyPackage \in 1..client'[c].keyPackage
             /\ \A j \in DOMAIN new :
                  cameAfter(toGateway'[c][j], p.keyPackage, client'[c].keyPackage)
  <2> DEFINE k == p.keyPackage
  <2>1. /\ k \in 1..K
        /\ \A j \in DOMAIN q : cameAfter(q[j], k, client[c].keyPackage)
    BY <1>8 DEF keyPackageInv
  <2>2. k \in Nat /\ k <= K
    BY <1>2, <2>1
  <2>3. ASSUME NEW x, x = k, NEW j \in DOMAIN new
        PROVE  cameAfter(toGateway'[c][j], x, client'[c].keyPackage)
    <3>1. CASE j \in DOMAIN q /\ new[j] = q[j]
      BY <1>4, <2>1, <2>2, <2>3, <3>1
    <3>2. CASE j - Len(q) \in DOMAIN result.out /\ new[j] = result.out[j - Len(q)]
      BY <1>4, <2>2, <2>3, <3>2
    <3>3. QED
      BY <1>5, <2>3, <3>1, <3>2, ZenonT(60)
  <2>4. QED
    BY <1>2, <1>3, <2>1, <2>3
<1>9. QED
  BY <1>1, <1>2, <1>3, <1>6, <1>7, <1>8 DEF keyPackageInv

(* What a step of session c needs for FollowInv: that it stays in step, if *)
(* it stays in the group.                                                  *)
LEMMA ClientStepFollow ==
  ASSUME RaceInv, FollowInv, NEW c \in Client, NEW result, NEW msgs,
         clientStep(c, result, msgs), keeps(result, gateway.announced),
         quiet(client[c], result) \/ invalidated(client[c], result),
         \A i \in DOMAIN msgs : \E j \in DOMAIN toClient[c] : toClient[c][j] = msgs[i],
         \A k \in DOMAIN result.s.proposalQueue :
           result.s.proposalQueue[k].op = "revoke" =>
             gone(result.s.proposalQueue[k].proposal),
         quiet(client[c], result) /\ inGroup(c)' =>
           inGroup(c) /\ (toFollow(c)' \/ upToDate(c)')
  PROVE  FollowInv'
<1>1. gateway' = gateway /\ toClient'[c] = msgs /\ client'[c] = result.s
  BY DEF clientStep, RaceInv
<1>2. \A p \in Proposal : gone(p) => gone(p)'
  BY GoneStays
<1>3. ASSUME inGroup(c)'
      PROVE  memberInv(c)' /\ (toFollow(c)' \/ upToDate(c)')
  <2>1. ~invalidated(client[c], result)
    <3> SUFFICES ASSUME invalidated(client[c], result)
                 PROVE  FALSE
      OBVIOUS
    <3>1. client'[c].group = Nil /\ client'[c].keyPackage = client[c].keyPackage + 1
      BY <1>1, ZenonT(60) DEF invalidated
    <3>2. PICK i \in DOMAIN toClient'[c] :
            /\ toClient'[c][i].type = "welcome"
            /\ toClient'[c][i].keyPackage = client'[c].keyPackage
      BY <1>3, <3>1 DEF inGroup
    <3>3. PICK j \in DOMAIN toClient[c] : toClient[c][j] = toClient'[c][i]
      BY <1>1, <3>2, ZenonT(60)
    <3>4. /\ client[c].keyPackage \in Nat
          /\ toClient[c][j].keyPackage \in 1..client[c].keyPackage
      <4>1. keyPackageInv(c)
        BY Zenon DEF FollowInv
      <4>2. toClient[c][j].type = "welcome"
        BY <3>2, <3>3, Zenon
      <4>3. /\ client[c].keyPackage \in Nat \ {0}
            /\ toClient[c][j].keyPackage \in 1..client[c].keyPackage
        BY <4>1, <4>2, Zenon DEF keyPackageInv
      <4>. QED BY <4>3
    <3>5. QED
      BY <3>1, <3>2, <3>3, <3>4
  <2>2. /\ quiet(client[c], result)
        /\ inGroup(c) /\ (toFollow(c)' \/ upToDate(c)')
    BY <1>3, <2>1
  <2>3. memberInv(c)
    BY <2>2 DEF FollowInv
  <2>4. \A i \in DOMAIN toGateway'[c] :
          \/ i \in DOMAIN toGateway[c] /\ toGateway'[c][i] = toGateway[c][i]
          \/ /\ i - Len(toGateway[c]) \in DOMAIN result.out
             /\ toGateway'[c][i] = result.out[i - Len(toGateway[c])]
    BY Requested, ZenonT(60)
  <2>5. \A i \in DOMAIN toGateway'[c] : toGateway'[c][i].type = "commit"
    BY <2>2, <2>3, <2>4 DEF memberInv, quiet
  <2>6. memberInv(c)'
    BY <1>1, <2>3, <2>5, ZenonT(60) DEF memberInv
  <2>7. QED
    BY <2>2, <2>6
<1>4. keyPackageInv(c)'
  BY KeyPackageInvStep, ZenonT(60) DEF FollowInv
<1>5. revokeInv(c)'
  <2>1. ASSUME NEW i \in DOMAIN msgs, msgs[i].type = "proposals", msgs[i].batch.op = "revoke"
        PROVE  gone(msgs[i].batch.proposal)'
    <3>1. PICK j \in DOMAIN toClient[c] : toClient[c][j] = msgs[i]
      BY <2>1
    <3>2. gone(msgs[i].batch.proposal) /\ msgs[i].batch.proposal \in Proposal
      BY <2>1, <3>1, CarriedProposals, ZenonT(60) DEF FollowInv, revokeInv
    <3>3. QED
      BY <1>2, <3>2
  <2>2. ASSUME NEW k \in DOMAIN result.s.proposalQueue,
               result.s.proposalQueue[k].op = "revoke"
        PROVE  gone(result.s.proposalQueue[k].proposal)'
    <3>1. result.s.proposalQueue \in Seq(Batch)
      BY DEF keeps, sessionInv, historyInv, SessionState
    <3>2. result.s.proposalQueue[k] \in Batch
      BY <2>2, <3>1
    <3>3. result.s.proposalQueue[k].proposal \in Proposal
      BY <3>2, ZenonT(60) DEF Batch
    <3>4. QED
      BY <1>2, <2>2, <3>3, SMTT(30)
  <2>3. QED
    BY <1>1, <2>1, <2>2 DEF revokeInv
<1>6. ASSUME NEW d \in Client, d # c
      PROVE  /\ inGroup(d)' => memberInv(d)' /\ (toFollow(d)' \/ upToDate(d)')
             /\ keyPackageInv(d)'
             /\ revokeInv(d)'
  <2>1. /\ client'[d] = client[d] /\ toClient'[d] = toClient[d]
        /\ toGateway'[d] = toGateway[d]
    BY <1>6, ZenonT(60) DEF clientStep, RaceInv
  <2>2. /\ inGroup(d) => memberInv(d) /\ (toFollow(d) \/ upToDate(d))
        /\ keyPackageInv(d) /\ revokeInv(d)
    BY DEF FollowInv
  <2>3. /\ inGroup(d)' = inGroup(d) /\ memberInv(d)' = memberInv(d)
        /\ keyPackageInv(d)' = keyPackageInv(d)
    BY <1>1, <2>1, ZenonT(60) DEF inGroup, memberInv, keyPackageInv
  <2>4. /\ \A i : toExecute(d, i)' <=> toExecute(d, i)
        /\ \A p, i : toPropose(d, p, i)' <=> toPropose(d, p, i)
    BY <1>1, <2>1, ZenonT(60) DEF toExecute, toPropose, message
  <2>5. toFollow(d) => toFollow(d)'
    BY <1>1, <2>1, <2>4, ZenonT(60) DEF toFollow, moves, epochOf
  <2>6. upToDate(d) => upToDate(d)'
    <3>1. /\ confirmedGroup(client'[d]) = confirmedGroup(client[d])
          /\ \A p : queued(client'[d], p) <=> queued(client[d], p)
      BY <2>1, ZenonT(60)
    <3>2. QED
      BY <1>1, <2>1, <2>4, <3>1, ZenonT(60) DEF upToDate, moves
  <2>7. revokeInv(d)'
    BY <1>2, <2>1, <2>2, CarriedProposals, ZenonT(60) DEF revokeInv
  <2>8. QED
    BY <2>2, <2>3, <2>5, <2>6, <2>7, ZenonT(60)
<1>7. \A p \in gateway'.proposals : p.base = gateway'.epoch
  BY <1>1, ZenonT(60) DEF FollowInv
<1>8. ASSUME NEW d \in Client
      PROVE  /\ inGroup(d)' => memberInv(d)' /\ (toFollow(d)' \/ upToDate(d)')
             /\ keyPackageInv(d)'
             /\ revokeInv(d)'
  BY <1>3, <1>4, <1>5, <1>6
<1>9. QED
  BY <1>7, <1>8, ZenonT(60) DEF FollowInv

(* Reading the first message.                                              *)
LEMMA TailFacts ==
  ASSUME RaceInv, NEW c \in Client, toClient[c] # <<>>, NEW t, t = Tail(toClient[c])
  PROVE  /\ 1 \in DOMAIN toClient[c] /\ Head(toClient[c]) = toClient[c][1]
         /\ \A i \in DOMAIN toClient[c] :
              /\ i \in Nat \ {0}
              /\ i > 1 => i - 1 \in DOMAIN t /\ t[i - 1] = toClient[c][i]
         /\ \A i \in DOMAIN t :
              /\ i \in Nat \ {0}
              /\ i + 1 \in DOMAIN toClient[c] /\ t[i] = toClient[c][i + 1]
<1> DEFINE q == toClient[c]
           M == Message(gateway.announced)
<1>1. q \in Seq(M) /\ q # <<>>
  BY DEF RaceInv
<1> HIDE DEF q, M
<1>2. t \in Seq(M) /\ Len(t) = Len(q) - 1 /\ \A i \in 1..Len(t) : t[i] = q[i + 1]
  BY <1>1, SeqHeadTail DEF q
<1>3. /\ Len(q) \in Nat /\ DOMAIN q = 1..Len(q) /\ Len(q) > 0
      /\ DOMAIN t = 1..Len(t) /\ Head(q) = q[1]
  BY <1>1, <1>2, SeqLen, SeqEmpty
<1>4. /\ 1 \in DOMAIN q /\ Head(q) = q[1]
      /\ \A i \in DOMAIN q :
           /\ i \in Nat \ {0}
           /\ i > 1 => i - 1 \in DOMAIN t /\ t[i - 1] = q[i]
      /\ \A i \in DOMAIN t :
           /\ i \in Nat \ {0}
           /\ i + 1 \in DOMAIN q /\ t[i] = q[i + 1]
  BY <1>2, <1>3
<1>5. QED
  BY <1>4, ZenonT(60) DEF q

LEMMA TailFollows ==
  ASSUME RaceInv, NEW c \in Client, toClient[c] # <<>>, gateway' = gateway,
         toClient'[c] = Tail(toClient[c]), NEW msg, msg = Head(toClient[c])
  PROVE  /\ toExecute(c, 0) =>
              toExecute(c, 0)' \/ (msg.type = "execute" /\ msg.tid = gateway.tid)
         /\ \A p : toPropose(c, p, 0) => toPropose(c, p, 0)' \/ msg = message("append", p)
         /\ toFollow(c) =>
              \/ toFollow(c)'
              \/ /\ moves(msg) /\ epochOf(msg) = gateway.epoch /\ msg.tid = gateway.tid
                 /\ \A j \in DOMAIN toClient'[c] : ~moves(toClient'[c][j])
                 /\ toExecute(c, 0)'
                 /\ \A p \in gateway.proposals : toPropose(c, p, 0)'
<1> DEFINE q == toClient[c]
           t == toClient'[c]
<1>1. /\ 1 \in DOMAIN q /\ msg = q[1]
      /\ \A i \in DOMAIN q :
           /\ i \in Nat \ {0}
           /\ i > 1 => i - 1 \in DOMAIN t /\ t[i - 1] = q[i]
      /\ \A i \in DOMAIN t :
           /\ i \in Nat \ {0}
           /\ i + 1 \in DOMAIN q /\ t[i] = q[i + 1]
  BY TailFacts, ZenonT(60)
<1>2. ASSUME NEW i \in Nat \ {0}
      PROVE  /\ toExecute(c, i) => toExecute(c, i - 1)'
             /\ \A p : toPropose(c, p, i) => toPropose(c, p, i - 1)'
  <2>1. ASSUME NEW j \in DOMAIN q, j > i
        PROVE  j - 1 \in DOMAIN t /\ j - 1 > i - 1 /\ t[j - 1] = q[j]
    BY <1>1, <1>2, <2>1
  <2>2. toExecute(c, i) => toExecute(c, i - 1)'
    BY <2>1 DEF toExecute
  <2>3. ASSUME NEW p, toPropose(c, p, i)
        PROVE  toPropose(c, p, i - 1)'
    <3>1. PICK j \in DOMAIN q : j > i /\ q[j] = message("append", p)
      BY <2>3 DEF toPropose
    <3>2. QED
      BY <2>1, <3>1 DEF toPropose
  <2>4. QED
    BY <2>2, <2>3
<1>3. ASSUME NEW j \in DOMAIN q, j # 1
      PROVE  j - 1 \in DOMAIN t /\ j - 1 > 0 /\ t[j - 1] = q[j]
  BY <1>1, <1>3
<1>4. toExecute(c, 0) => toExecute(c, 0)' \/ (msg.type = "execute" /\ msg.tid = gateway.tid)
  <2>1. CASE \E k \in DOMAIN gateway.prepared : gateway.prepared[k] = gateway.tid
    BY <2>1 DEF toExecute
  <2>2. ASSUME NEW j \in DOMAIN q, q[j].type = "execute", q[j].tid = gateway.tid, j # 1
        PROVE  toExecute(c, 0)'
    BY <1>3, <2>2, ZenonT(60) DEF toExecute
  <2>3. QED
    BY <1>1, <2>1, <2>2, ZenonT(60) DEF toExecute
<1>5. ASSUME NEW p, toPropose(c, p, 0)
      PROVE  toPropose(c, p, 0)' \/ msg = message("append", p)
  <2>1. PICK j \in DOMAIN q : j > 0 /\ q[j] = message("append", p)
    BY <1>5 DEF toPropose
  <2>2. QED
    BY <1>1, <1>3, <2>1, ZenonT(60) DEF toPropose
<1>6. ASSUME toFollow(c), ~toFollow(c)'
      PROVE  /\ moves(msg) /\ epochOf(msg) = gateway.epoch /\ msg.tid = gateway.tid
             /\ \A j \in DOMAIN t : ~moves(t[j])
             /\ toExecute(c, 0)'
             /\ \A p \in gateway.proposals : toPropose(c, p, 0)'
  <2>1. PICK i \in DOMAIN q :
          /\ moves(q[i]) /\ epochOf(q[i]) = gateway.epoch /\ q[i].tid = gateway.tid
          /\ \A j \in DOMAIN q : j > i => ~moves(q[j])
          /\ toExecute(c, i)
          /\ \A p \in gateway.proposals : toPropose(c, p, i)
    BY <1>6 DEF toFollow
  <2>2. i \in Nat \ {0} /\ toExecute(c, i - 1)'
        /\ \A p \in gateway.proposals : toPropose(c, p, i - 1)'
    BY <1>1, <1>2, <2>1
  <2>3. \A j \in DOMAIN t : j > i - 1 => ~moves(t[j])
    BY <1>1, <2>1, <2>2
  <2>4. i = 1
    <3> SUFFICES ASSUME i # 1
                 PROVE  FALSE
      OBVIOUS
    <3>1. i - 1 \in DOMAIN t /\ t[i - 1] = q[i]
      BY <1>3, <2>1
    <3>2. toFollow(c)'
      <4> DEFINE k == i - 1
      <4>1. /\ k \in DOMAIN t /\ moves(t[k]) /\ epochOf(t[k]) = gateway'.epoch
            /\ t[k].tid = gateway'.tid
            /\ \A j \in DOMAIN t : j > k => ~moves(t[j])
            /\ toExecute(c, k)'
            /\ \A p \in gateway'.proposals : toPropose(c, p, k)'
        BY <2>1, <2>2, <2>3, <3>1
      <4> HIDE DEF k
      <4>2. QED
        BY <4>1, ZenonT(60) DEF toFollow, moves, epochOf
    <3>3. QED
      BY <1>6, <3>2
  <2>5. \A j \in DOMAIN t : j > 0
    BY <1>1
  <2>6. QED
    BY <1>1, <2>1, <2>2, <2>3, <2>4, <2>5, SMTT(30)
<1>7. QED
  BY <1>4, <1>5, <1>6

(* What ClientStepFollow asks of a Receive, whatever the message.          *)
LEMMA ReceiveFacts ==
  ASSUME RaceInv, NEW c \in Client, Receive(c)
  PROVE  /\ clientStep(c, received(c), Tail(toClient[c]))
         /\ keeps(received(c), gateway.announced)
         /\ gateway' = gateway /\ toClient[c] # <<>> /\ ~client[c].draining
         /\ toClient'[c] = Tail(toClient[c]) /\ client'[c] = received(c).s
         /\ 1 \in DOMAIN toClient[c] /\ Head(toClient[c]) = toClient[c][1]
         /\ Head(toClient[c]) \in Message(gateway.announced)
         /\ sessionInv(client[c], gateway.announced)
         /\ gateway.announced \in SUBSET Epoch
         /\ gateway.epoch \in Epoch /\ gateway.epoch # Nil
         /\ \A i \in DOMAIN Tail(toClient[c]) :
              \E j \in DOMAIN toClient[c] : toClient[c][j] = Tail(toClient[c])[i]
<1>1. /\ clientStep(c, received(c), Tail(toClient[c]))
      /\ keeps(received(c), gateway.announced)
      /\ Head(toClient[c]) \in Message(gateway.announced)
  BY ReceiveKeeps
<1>2. gateway' = gateway /\ toClient'[c] = Tail(toClient[c]) /\ client'[c] = received(c).s
  BY <1>1 DEF clientStep, RaceInv
<1>3. /\ toClient[c] # <<>> /\ ~client[c].draining
      /\ sessionInv(client[c], gateway.announced) /\ gateway.announced \in SUBSET Epoch
      /\ gateway.epoch \in Epoch /\ gateway.epoch # Nil
  BY NilAssumption DEF Receive, RaceInv, GatewayState
<1>4. /\ 1 \in DOMAIN toClient[c] /\ Head(toClient[c]) = toClient[c][1]
      /\ \A i \in DOMAIN Tail(toClient[c]) :
           i + 1 \in DOMAIN toClient[c] /\ Tail(toClient[c])[i] = toClient[c][i + 1]
  <2> SUFFICES ASSUME NEW t, t = Tail(toClient[c])
               PROVE  /\ 1 \in DOMAIN toClient[c] /\ Head(toClient[c]) = toClient[c][1]
                      /\ \A i \in DOMAIN t :
                           i + 1 \in DOMAIN toClient[c] /\ t[i] = toClient[c][i + 1]
    BY ZenonT(60)
  <2>1. QED
    BY <1>3, TailFacts
<1>5. QED
  BY <1>1, <1>2, <1>3, <1>4

LEMMA ReceiveProposalsFollow ==
  ASSUME RaceInv, FollowInv, NEW c \in Client, Receive(c),
         Head(toClient[c]).type = "proposals"
  PROVE  FollowInv'
<1> DEFINE A == gateway.announced
           s == client[c]
           msg == Head(toClient[c])
           batch == msg.batch
           result == received(c)
           r == result.s
<1>1. /\ clientStep(c, result, Tail(toClient[c]))
      /\ keeps(result, A)
      /\ gateway' = gateway /\ toClient[c] # <<>> /\ ~s.draining
      /\ toClient'[c] = Tail(toClient[c]) /\ client'[c] = r
      /\ msg \in Message(A) /\ sessionInv(s, A) /\ A \in SUBSET Epoch
      /\ gateway.epoch # Nil
      /\ 1 \in DOMAIN toClient[c] /\ msg = toClient[c][1]
      /\ \A i \in DOMAIN Tail(toClient[c]) :
           \E j \in DOMAIN toClient[c] : toClient[c][j] = Tail(toClient[c])[i]
  BY ReceiveFacts
<1>2. batch \in Batch
  BY <1>1, MessageTypes
<1>3. result = OnDaveMLSProposals(s, batch)
  BY DEF received
<1>4. ~moves(msg)
  BY ZenonT(60) DEF moves
<1>5. batch.op = "revoke" => gone(batch.proposal)
  BY <1>1 DEF FollowInv, revokeInv
<1>6. /\ \A p : toPropose(c, p, 0) => toPropose(c, p, 0)' \/ msg = message("append", p)
      /\ toExecute(c, 0) => toExecute(c, 0)'
      /\ toFollow(c) => toFollow(c)'
  BY <1>1, <1>4, TailFollows, ZenonT(60)
<1>7. \A p : msg = message("append", p) => batch = [op |-> "append", proposal |-> p]
  BY DEF message
<1>8. inGroup(c)' /\ r.keyPackage = s.keyPackage /\ (s.group = Nil => r.group = Nil) =>
        inGroup(c)
  BY <1>1 DEF inGroup
<1> HIDE DEF s, msg, batch, result, r, A
<1>9. CASE s.pendingEpoch # Nil
  <2>1. s \in SessionState /\ s.proposalQueue \in Seq(Batch) /\ s.draining = FALSE
    BY <1>1, ZenonT(60) DEF sessionInv, historyInv, SessionState
  <2>2. result.out = <<>> /\ r = [s EXCEPT !.proposalQueue = Append(@, batch)]
    BY <1>3, <1>9 DEF OnDaveMLSProposals, step, r
  <2>3. /\ r.group = s.group /\ r.pendingEpoch = s.pendingEpoch
        /\ r.pendingCommit = s.pendingCommit
        /\ r.preCommitGroupState = s.preCommitGroupState /\ r.activeEpoch = s.activeEpoch
        /\ r.pendingTransitionID = s.pendingTransitionID /\ r.draining = s.draining
        /\ r.keyPackage = s.keyPackage
        /\ r.proposalQueue = Append(s.proposalQueue, batch)
    BY <2>1, <2>2, ZenonT(60) DEF SessionState
  <2>4. /\ \A k \in DOMAIN s.proposalQueue :
             k \in DOMAIN r.proposalQueue /\ r.proposalQueue[k] = s.proposalQueue[k]
        /\ \A k \in DOMAIN r.proposalQueue :
             \/ k \in DOMAIN s.proposalQueue /\ r.proposalQueue[k] = s.proposalQueue[k]
             \/ r.proposalQueue[k] = batch
        /\ \E k \in DOMAIN r.proposalQueue : r.proposalQueue[k] = batch
    BY <1>2, <2>1, <2>3, SeqAppend, SeqLen
  <2>5. quiet(s, result)
    <3>1. DOMAIN result.out = {}
      BY <2>2
    <3>2. result.s.keyPackage = s.keyPackage /\ result.s.draining = FALSE
      BY <2>1, <2>3, ZenonT(60) DEF r
    <3>3. QED
      BY <3>1, <3>2, ZenonT(60) DEF quiet
  <2>6. \A k \in DOMAIN r.proposalQueue :
          r.proposalQueue[k].op = "revoke" => gone(r.proposalQueue[k].proposal)
    BY <1>5, <2>4 DEF FollowInv, revokeInv, s
  <2>7. confirmedGroup(r) = confirmedGroup(s)
    BY <2>3 DEF confirmedGroup
  <2>8. \A p : queued(s, p) \/ msg = message("append", p) => queued(r, p)
    BY <1>7, <1>9, <2>3, <2>4 DEF queued
  <2>9. upToDate(c) => upToDate(c)'
    <3> SUFFICES ASSUME upToDate(c)
                 PROVE  upToDate(c)'
      OBVIOUS
    <3>1. /\ r.group # Nil
          /\ confirmedGroup(r).epoch = gateway.epoch
          /\ \/ r.activeEpoch = gateway.epoch /\ (r.draining \/ r.pendingTransitionID = 0)
             \/ /\ ~r.draining
                /\ r.pendingTransitionID = gateway.tid
                /\ r.pendingEpoch = gateway.epoch
                /\ r.pendingCommit = Nil
                /\ toExecute(c, 0)'
          /\ \A p \in gateway.proposals :
               toPropose(c, p, 0)' \/ p \in confirmedGroup(r).cached \/ queued(r, p)
      BY <1>6, <2>3, <2>7, <2>8, ZenonT(60) DEF upToDate, s
    <3>2. \A j \in DOMAIN toClient'[c] : ~moves(toClient'[c][j])
      BY <1>1, ZenonT(60) DEF upToDate
    <3>3. QED
      BY <1>1, <3>1, <3>2, ZenonT(60) DEF upToDate, moves, confirmedGroup, queued
  <2>10. quiet(s, result) /\ inGroup(c)' => inGroup(c) /\ (toFollow(c)' \/ upToDate(c)')
    BY <1>6, <1>8, <2>3, <2>9 DEF FollowInv
  <2>11. QED
    BY <1>1, <2>5, <2>6, <2>10, ClientStepFollow, ZenonT(60) DEF s, r, A
<1>10. CASE s.pendingEpoch = Nil
  <2>1. result = processAndCommitProposalBatchLocked(s, batch)
    BY <1>3, <1>10 DEF OnDaveMLSProposals
  <2>2. /\ quiet(s, result) /\ r.proposalQueue = s.proposalQueue
        /\ s.group = Nil => r.group = Nil
        /\ s.group # Nil => processed(s, result, batch)
    BY <1>1, <1>2, <1>10, <2>1, ProcessResult, ZenonT(60) DEF r
  <2>3. s.pendingCommit = Nil
    BY <1>1, <1>10, ZenonT(60) DEF sessionInv, historyInv
  <2>4. \A k \in DOMAIN r.proposalQueue :
          r.proposalQueue[k].op = "revoke" => gone(r.proposalQueue[k].proposal)
    BY <2>2, ZenonT(60) DEF FollowInv, revokeInv, s
  <2>5. upToDate(c) => upToDate(c)'
    <3> SUFFICES ASSUME upToDate(c)
                 PROVE  upToDate(c)'
      OBVIOUS
    <3>1. /\ s.group # Nil /\ confirmedGroup(s) = s.group /\ s.group.epoch = gateway.epoch
          /\ s.activeEpoch = gateway.epoch /\ s.pendingTransitionID = 0
          /\ \A p \in gateway.proposals : toPropose(c, p, 0) \/ p \in s.group.cached
      BY <1>1, <1>10, <2>3, ZenonT(60) DEF upToDate, s, confirmedGroup, queued
    <3>2. processed(s, result, batch)
      BY <2>2, <3>1, ZenonT(60)
    <3>3. /\ r.group # Nil /\ confirmedGroup(r).epoch = gateway.epoch
          /\ r.activeEpoch = gateway.epoch /\ r.pendingTransitionID = 0
      BY <3>1, <3>2, ZenonT(60) DEF processed, r
    <3>4. ASSUME NEW p \in gateway.proposals
          PROVE  toPropose(c, p, 0)' \/ p \in confirmedGroup(r).cached
      <4>1. p.base = gateway.epoch /\ ~gone(p)
        BY <3>4 DEF FollowInv, gone
      <4>2. CASE p \in s.group.cached
        <5>1. batch # [op |-> "revoke", proposal |-> p]
          BY <1>5, <4>1
        <5>2. QED
          BY <3>2, <4>2, <5>1 DEF processed, r
      <4>3. CASE msg = message("append", p)
        <5>1. batch.op = "append" /\ batch.proposal = p
          BY <1>7, <4>3, SMTT(30)
        <5>2. QED
          BY <3>1, <3>2, <4>1, <5>1, ZenonT(60) DEF processed, r
      <4>4. QED
        BY <1>6, <3>1, <3>4, <4>2, <4>3, ZenonT(60)
    <3>5. \A j \in DOMAIN toClient'[c] : ~moves(toClient'[c][j])
      BY <1>1, ZenonT(60) DEF upToDate
    <3>6. QED
      BY <1>1, <3>3, <3>4, <3>5, ZenonT(60) DEF upToDate, moves, confirmedGroup
  <2>6. quiet(s, result) /\ inGroup(c)' => inGroup(c) /\ (toFollow(c)' \/ upToDate(c)')
    BY <1>6, <1>8, <2>2, <2>5 DEF FollowInv, quiet, r
  <2>7. QED
    BY <1>1, <2>2, <2>4, <2>6, ClientStepFollow, ZenonT(60) DEF s, r, A
<1>11. QED
  BY <1>9, <1>10, ZenonT(60)

(* A commit or a welcome: it is the last one if the session is in the      *)
(* group, or there is one behind it that is.                               *)
LEMMA ReceiveMoveFollow ==
  ASSUME RaceInv, FollowInv, NEW c \in Client, Receive(c), moves(Head(toClient[c]))
  PROVE  FollowInv'
<1> DEFINE A == gateway.announced
           s == client[c]
           msg == Head(toClient[c])
           result == received(c)
           r == result.s
<1>1. /\ clientStep(c, result, Tail(toClient[c]))
      /\ keeps(result, A)
      /\ gateway' = gateway /\ toClient[c] # <<>> /\ ~s.draining
      /\ toClient'[c] = Tail(toClient[c]) /\ client'[c] = r
      /\ msg \in Message(A) /\ sessionInv(s, A) /\ A \in SUBSET Epoch
      /\ 1 \in DOMAIN toClient[c] /\ msg = toClient[c][1]
      /\ \A i \in DOMAIN Tail(toClient[c]) :
           \E j \in DOMAIN toClient[c] : toClient[c][j] = Tail(toClient[c])[i]
  BY ReceiveFacts, ZenonT(60)
<1>2. /\ msg.type \in {"commit", "welcome"}
      /\ msg.type = "commit" => msg.tid \in Nat /\ msg.commit \in Commit(A)
      /\ msg.type = "welcome" => msg.tid \in Nat /\ msg.epoch \in A
  BY <1>1, MessageTypes, ZenonT(60) DEF moves
<1>3. ASSUME ~invalidated(s, result)
      PROVE  inGroup(c) /\ prepared(s, result, msg.tid, epochOf(msg))
  <2>1. CASE msg.type = "commit"
    <3>1. result = OnDaveMLSPrepareCommitTransition(s, msg.tid, msg.commit)
      BY <2>1 DEF received
    <3>2. s.group # Nil /\ prepared(s, result, msg.tid, msg.commit.epoch)
      BY <1>1, <1>2, <1>3, <2>1, <3>1, CommitTransitionKeeps, ZenonT(60)
    <3>3. QED
      BY <2>1, <3>2 DEF inGroup, epochOf
  <2>2. CASE msg.type = "welcome"
    <3>1. result = OnDaveMLSWelcome(s, msg.tid, msg.epoch, msg.keyPackage)
      BY <2>2 DEF received
    <3>2. msg.keyPackage = s.keyPackage /\ prepared(s, result, msg.tid, msg.epoch)
      <4>1. A \in SUBSET Epoch /\ sessionInv(s, A) /\ msg.tid \in Nat /\ msg.epoch \in A
        BY <1>1, <1>2, <2>2, ZenonT(60)
      <4>2. /\ msg.keyPackage # s.keyPackage => invalidated(s, result)
            /\ msg.keyPackage = s.keyPackage => prepared(s, result, msg.tid, msg.epoch)
        BY <3>1, <4>1, WelcomeKeeps, ZenonT(60)
      <4>3. QED
        BY <1>3, <4>2, ZenonT(60)
    <3>3. inGroup(c)
      BY <1>1, <2>2, <3>2, ZenonT(60) DEF inGroup
    <3>4. QED
      BY <2>2, <3>2, <3>3 DEF epochOf
  <2>3. QED
    BY <1>2, <2>1, <2>2
<1>4. moves(msg)
  OBVIOUS
<1>5. ~upToDate(c)
  BY <1>1, <1>4, ZenonT(60) DEF upToDate
<1>6. toFollow(c) =>
        \/ toFollow(c)'
        \/ /\ epochOf(msg) = gateway.epoch /\ msg.tid = gateway.tid
           /\ \A j \in DOMAIN toClient'[c] : ~moves(toClient'[c][j])
           /\ toExecute(c, 0)'
           /\ \A p \in gateway.proposals : toPropose(c, p, 0)'
  BY <1>1, TailFollows, ZenonT(60)
<1> HIDE DEF s, msg, result, r, A
<1>7. quiet(s, result) \/ invalidated(s, result)
  <2>1. ASSUME prepared(s, result, msg.tid, epochOf(msg))
        PROVE  quiet(s, result)
    <3>1. DOMAIN result.out = {} /\ result.s.keyPackage = s.keyPackage
      BY <2>1 DEF prepared
    <3>2. result.s.draining \in BOOLEAN
      BY <1>1, ZenonT(60) DEF keeps, sessionInv, historyInv, SessionState
    <3>3. QED
      BY <3>1, <3>2 DEF quiet
  <2>2. QED
    BY <1>3, <2>1
<1>8. \A k \in DOMAIN r.proposalQueue :
        r.proposalQueue[k].op = "revoke" => gone(r.proposalQueue[k].proposal)
  <2>1. r.proposalQueue = s.proposalQueue \/ DOMAIN r.proposalQueue = {}
    BY <1>3 DEF prepared, invalidated, r
  <2>2. QED
    BY <2>1 DEF FollowInv, revokeInv, s
<1>9. ASSUME quiet(s, result)
      PROVE  inGroup(c) /\ (toFollow(c)' \/ upToDate(c)')
  <2>1. ~invalidated(s, result)
    <3> SUFFICES ASSUME invalidated(s, result)
                 PROVE  FALSE
      OBVIOUS
    <3>1. s.keyPackage \in Nat
      BY <1>1 DEF sessionInv, historyInv, SessionState
    <3>2. QED
      BY <1>9, <3>1 DEF quiet, invalidated
  <2>2. inGroup(c) /\ prepared(s, result, msg.tid, epochOf(msg))
    BY <1>3, <2>1
  <2>3. toFollow(c)
    BY <1>5, <2>2 DEF FollowInv
  <2>4. ASSUME epochOf(msg) = gateway.epoch, msg.tid = gateway.tid,
               \A j \in DOMAIN toClient'[c] : ~moves(toClient'[c][j]),
               toExecute(c, 0)', \A p \in gateway.proposals : toPropose(c, p, 0)'
        PROVE  upToDate(c)'
    <3>1. /\ r.group # Nil /\ r.group.epoch = gateway.epoch
          /\ r.pendingEpoch = gateway.epoch /\ r.pendingCommit = Nil
          /\ r.pendingTransitionID = gateway.tid /\ ~r.draining
      BY <1>1, <2>2, <2>4 DEF prepared, r
    <3>2. confirmedGroup(r) = r.group
      BY <3>1 DEF confirmedGroup
    <3>3. QED
      BY <1>1, <2>4, <3>1, <3>2, ZenonT(60) DEF upToDate, moves, confirmedGroup
  <2>5. QED
    BY <1>6, <2>2, <2>3, <2>4, ZenonT(60)
<1>10. QED
  BY <1>1, <1>7, <1>8, <1>9, ClientStepFollow, ZenonT(60) DEF s, r, A

LEMMA ReceiveExecuteFollow ==
  ASSUME RaceInv, FollowInv, NEW c \in Client, Receive(c), Head(toClient[c]).type = "execute"
  PROVE  FollowInv'
<1> DEFINE A == gateway.announced
           s == client[c]
           msg == Head(toClient[c])
           result == received(c)
           r == result.s
<1>1. /\ clientStep(c, result, Tail(toClient[c]))
      /\ keeps(result, A)
      /\ gateway' = gateway /\ toClient[c] # <<>> /\ ~s.draining
      /\ toClient'[c] = Tail(toClient[c]) /\ client'[c] = r
      /\ msg \in Message(A) /\ sessionInv(s, A) /\ A \in SUBSET Epoch
      /\ gateway.epoch # Nil
      /\ \A i \in DOMAIN Tail(toClient[c]) :
           \E j \in DOMAIN toClient[c] : toClient[c][j] = Tail(toClient[c])[i]
  BY ReceiveFacts, ZenonT(60)
<1>2. msg.tid \in Nat \ {0} /\ s \in SessionState
  BY <1>1, MessageTypes, ZenonT(60) DEF sessionInv, historyInv
<1>3. result = OnDaveExecuteTransition(s, msg.tid)
  BY DEF received
<1>4. ~moves(msg) /\ \A p : msg # message("append", p)
  BY DEF moves, message
<1>5. /\ \A p : toPropose(c, p, 0) => toPropose(c, p, 0)'
      /\ toExecute(c, 0) => toExecute(c, 0)' \/ msg.tid = gateway.tid
      /\ toFollow(c) => toFollow(c)'
  BY <1>1, <1>4, TailFollows, ZenonT(60)
<1>6. inGroup(c)' /\ r.keyPackage = s.keyPackage /\ r.group = s.group => inGroup(c)
  BY <1>1, ZenonT(60) DEF inGroup
<1> HIDE DEF s, msg, result, r, A
<1>7. ASSUME r.keyPackage = s.keyPackage, r.group = s.group,
             r.proposalQueue = s.proposalQueue, result.out = <<>>, r.draining \in BOOLEAN,
             upToDate(c) => upToDate(c)'
      PROVE  FollowInv'
  <2>1. quiet(s, result)
    BY <1>7 DEF quiet, r
  <2>2. \A k \in DOMAIN r.proposalQueue :
          r.proposalQueue[k].op = "revoke" => gone(r.proposalQueue[k].proposal)
    BY <1>7, ZenonT(60) DEF FollowInv, revokeInv, s
  <2>3. inGroup(c)' => inGroup(c) /\ (toFollow(c)' \/ upToDate(c)')
    BY <1>5, <1>6, <1>7 DEF FollowInv
  <2>4. QED
    BY <1>1, <2>1, <2>2, <2>3, ClientStepFollow, ZenonT(60) DEF s, r, A
<1>8. upToDate(c) => \A j \in DOMAIN toClient'[c] : ~moves(toClient'[c][j])
  BY <1>1, ZenonT(60) DEF upToDate
<1>9. CASE msg.tid # s.pendingTransitionID
  <2>1. r = s /\ result.out = <<>>
    BY <1>3, <1>9 DEF OnDaveExecuteTransition, step, r
  <2>2. ASSUME upToDate(c)
        PROVE  upToDate(c)'
    <3>1. /\ s.group # Nil
          /\ confirmedGroup(s).epoch = gateway.epoch
          /\ \/ s.activeEpoch = gateway.epoch /\ (s.draining \/ s.pendingTransitionID = 0)
             \/ /\ ~s.draining
                /\ s.pendingTransitionID = gateway.tid
                /\ s.pendingEpoch = gateway.epoch
                /\ s.pendingCommit = Nil
                /\ toExecute(c, 0)'
          /\ \A p \in gateway.proposals :
               toPropose(c, p, 0)' \/ p \in confirmedGroup(s).cached \/ queued(s, p)
      BY <1>5, <1>9, <2>2, ZenonT(60) DEF upToDate, s
    <3>2. QED
      <4>1. /\ r.group # Nil
            /\ confirmedGroup(r).epoch = gateway.epoch
            /\ \/ r.activeEpoch = gateway.epoch /\ (r.draining \/ r.pendingTransitionID = 0)
               \/ /\ ~r.draining
                  /\ r.pendingTransitionID = gateway.tid
                  /\ r.pendingEpoch = gateway.epoch
                  /\ r.pendingCommit = Nil
                  /\ toExecute(c, 0)'
            /\ \A p \in gateway.proposals :
                 toPropose(c, p, 0)' \/ p \in confirmedGroup(r).cached \/ queued(r, p)
        BY <2>1, <3>1
      <4>2. QED
        BY <1>1, <1>8, <2>2, <4>1, ZenonT(60) DEF upToDate, moves, confirmedGroup, queued
  <2>3. r.draining \in BOOLEAN
    BY <1>2, <2>1 DEF SessionState
  <2>4. QED
    BY <1>7, <2>1, <2>2, <2>3
<1>10. CASE msg.tid = s.pendingTransitionID /\ s.pendingEpoch = Nil
  <2>1. r = [s EXCEPT !.pendingTransitionID = 0, !.draining = FALSE] /\ result.out = <<>>
    BY <1>3, <1>10 DEF OnDaveExecuteTransition, activatePendingEpochLocked, executed, step, r
  <2>2. /\ r.group = s.group /\ r.proposalQueue = s.proposalQueue
        /\ r.keyPackage = s.keyPackage /\ r.draining = FALSE
    BY <1>2, <2>1, ZenonT(60) DEF SessionState
  <2>3. ~upToDate(c)
    BY <1>1, <1>2, <1>10, ZenonT(60) DEF upToDate, s
  <2>4. QED
    BY <1>7, <2>1, <2>2, <2>3
<1>11. CASE msg.tid = s.pendingTransitionID /\ s.pendingEpoch # Nil
  <2>1. /\ r = [s EXCEPT !.activeEpoch = s.pendingEpoch, !.pendingEpoch = Nil,
                         !.watch = "none", !.draining = TRUE]
        /\ result.out = <<>>
    BY <1>3, <1>11 DEF OnDaveExecuteTransition, activatePendingEpochLocked, step, r
  <2>2. /\ r.group = s.group /\ r.proposalQueue = s.proposalQueue
        /\ r.keyPackage = s.keyPackage /\ r.draining = TRUE
        /\ r.activeEpoch = s.pendingEpoch /\ r.pendingCommit = s.pendingCommit
        /\ r.preCommitGroupState = s.preCommitGroupState
    BY <1>2, <2>1, ZenonT(60) DEF SessionState
  <2>3. ASSUME upToDate(c)
        PROVE  upToDate(c)'
    <3>1. /\ s.group # Nil
          /\ confirmedGroup(s).epoch = gateway.epoch
          /\ s.pendingEpoch = gateway.epoch
          /\ \A p \in gateway.proposals :
               toPropose(c, p, 0)' \/ p \in confirmedGroup(s).cached \/ queued(s, p)
      BY <1>1, <1>2, <1>5, <1>11, <2>3, ZenonT(60) DEF upToDate, s
    <3>2. confirmedGroup(r) = confirmedGroup(s) /\ \A p : queued(s, p) => queued(r, p)
      BY <2>2 DEF confirmedGroup, queued
    <3>3. /\ r.group # Nil /\ confirmedGroup(r).epoch = gateway.epoch
          /\ r.activeEpoch = gateway.epoch /\ r.draining
          /\ \A p \in gateway.proposals :
               toPropose(c, p, 0)' \/ p \in confirmedGroup(r).cached \/ queued(r, p)
      BY <2>2, <3>1, <3>2
    <3>4. QED
      BY <1>1, <1>8, <2>3, <3>3, ZenonT(60) DEF upToDate, moves, confirmedGroup, queued
  <2>4. QED
    BY <1>7, <2>1, <2>2, <2>3
<1>12. QED
  BY <1>9, <1>10, <1>11

LEMMA ReceiveFollow ==
  ASSUME RaceInv, FollowInv, NEW c \in Client, Receive(c)
  PROVE  FollowInv'
<1>1. Head(toClient[c]).type \in {"proposals", "commit", "welcome", "execute"}
  BY ReceiveFacts, MessageTypes, ZenonT(60)
<1>2. QED
  BY <1>1, ReceiveProposalsFollow, ReceiveMoveFollow, ReceiveExecuteFollow, ZenonT(60) DEF moves

-----------------------------------------------------------------------------
(* What a session is to read does not change in its own steps.             *)
LEMMA SameMessages ==
  ASSUME NEW c \in Client, gateway' = gateway, toClient'[c] = toClient[c]
  PROVE  /\ toFollow(c) => toFollow(c)'
         /\ toExecute(c, 0) => toExecute(c, 0)'
         /\ \A p : toPropose(c, p, 0) => toPropose(c, p, 0)'
         /\ upToDate(c) => \A j \in DOMAIN toClient'[c] : ~moves(toClient'[c][j])
         /\ inGroup(c)' /\ client'[c].keyPackage = client[c].keyPackage
              /\ (client[c].group = Nil => client'[c].group = Nil) => inGroup(c)
<1>1. /\ \A i : toExecute(c, i)' <=> toExecute(c, i)
      /\ \A p, i : toPropose(c, p, i)' <=> toPropose(c, p, i)
  BY ZenonT(60) DEF toExecute, toPropose, message
<1>2. toFollow(c) => toFollow(c)'
  BY <1>1, ZenonT(60) DEF toFollow, moves, epochOf
<1>3. upToDate(c) => \A j \in DOMAIN toClient'[c] : ~moves(toClient'[c][j])
  BY DEF upToDate
<1>4. inGroup(c)' /\ client'[c].keyPackage = client[c].keyPackage
        /\ (client[c].group = Nil => client'[c].group = Nil) => inGroup(c)
  BY DEF inGroup
<1>5. QED
  BY <1>1, <1>2, <1>3, <1>4

LEMMA TimeoutFollow ==
  ASSUME RaceInv, FollowInv, NEW c \in Client, Timeout(c)
  PROVE  FollowInv'
<1> DEFINE A == gateway.announced
           s == client[c]
           result == recoverAfterTimeout(s)
           r == result.s
<1>1. /\ sessionInv(s, A) /\ A \in SUBSET Epoch /\ s \in SessionState
  BY ZenonT(60) DEF RaceInv, GatewayState, sessionInv, historyInv
<1>2. clientStep(c, result, toClient[c])
  BY DEF Timeout
<1>3. /\ keeps(result, A)
      /\ invalidated(s, result) \/ result = step([s EXCEPT !.watch = "none"], <<>>)
  BY <1>1, TimeoutKeeps
<1>4. gateway' = gateway /\ toClient'[c] = toClient[c] /\ client'[c] = r
  BY <1>2, ClientStepFacts, ZenonT(60)
<1>5. /\ toFollow(c) => toFollow(c)'
      /\ toExecute(c, 0) => toExecute(c, 0)'
      /\ \A p : toPropose(c, p, 0) => toPropose(c, p, 0)'
      /\ upToDate(c) => \A j \in DOMAIN toClient'[c] : ~moves(toClient'[c][j])
      /\ inGroup(c)' /\ r.keyPackage = s.keyPackage /\ (s.group = Nil => r.group = Nil) =>
           inGroup(c)
  BY <1>4, SameMessages
<1>6. \A i \in DOMAIN toClient[c] :
        \E j \in DOMAIN toClient[c] : toClient[c][j] = toClient[c][i]
  OBVIOUS
<1> HIDE DEF A, s, result, r
<1>7. CASE invalidated(s, result)
  <2>1. ~quiet(s, result)
    <3>1. s.keyPackage \in Nat
      BY <1>1 DEF SessionState
    <3>2. QED
      BY <1>7, <3>1 DEF quiet, invalidated
  <2>2. DOMAIN r.proposalQueue = {}
    BY <1>7 DEF invalidated, r
  <2>3. QED
    BY <1>2, <1>3, <1>6, <1>7, <2>1, <2>2, ClientStepFollow, ZenonT(60) DEF s, r, A
<1>8. CASE result = step([s EXCEPT !.watch = "none"], <<>>)
  <2>1. r = [s EXCEPT !.watch = "none"] /\ result.out = <<>>
    BY <1>8 DEF step, r
  <2>2. /\ r.group = s.group /\ r.pendingEpoch = s.pendingEpoch
        /\ r.pendingCommit = s.pendingCommit
        /\ r.preCommitGroupState = s.preCommitGroupState /\ r.activeEpoch = s.activeEpoch
        /\ r.pendingTransitionID = s.pendingTransitionID /\ r.draining = s.draining
        /\ r.keyPackage = s.keyPackage /\ r.proposalQueue = s.proposalQueue
        /\ s.draining \in BOOLEAN
    BY <1>1, <2>1, ZenonT(60) DEF SessionState
  <2>3. quiet(s, result)
    BY <2>1, <2>2, SMTT(30) DEF quiet, r
  <2>4. \A k \in DOMAIN r.proposalQueue :
          r.proposalQueue[k].op = "revoke" => gone(r.proposalQueue[k].proposal)
    BY <2>2 DEF FollowInv, revokeInv, s
  <2>5. ASSUME upToDate(c)
        PROVE  upToDate(c)'
    <3>1. confirmedGroup(r) = confirmedGroup(s) /\ \A p : queued(s, p) => queued(r, p)
      BY <2>2 DEF confirmedGroup, queued
    <3>2. /\ r.group # Nil
          /\ confirmedGroup(r).epoch = gateway.epoch
          /\ \/ r.activeEpoch = gateway.epoch /\ (r.draining \/ r.pendingTransitionID = 0)
             \/ /\ ~r.draining
                /\ r.pendingTransitionID = gateway.tid
                /\ r.pendingEpoch = gateway.epoch
                /\ r.pendingCommit = Nil
                /\ toExecute(c, 0)'
          /\ \A p \in gateway.proposals :
               toPropose(c, p, 0)' \/ p \in confirmedGroup(r).cached \/ queued(r, p)
      BY <1>5, <2>2, <2>5, <3>1, ZenonT(60) DEF upToDate, s
    <3>3. \A j \in DOMAIN toClient'[c] : ~moves(toClient'[c][j])
      BY <1>5, <2>5
    <3>4. QED
      BY <1>4, <3>2, <3>3, ZenonT(60) DEF upToDate, moves, confirmedGroup, queued
  <2>6. inGroup(c)' => inGroup(c) /\ (toFollow(c)' \/ upToDate(c)')
    BY <1>5, <2>2, <2>5, ZenonT(60) DEF FollowInv
  <2>7. QED
    BY <1>2, <1>3, <1>6, <2>3, <2>4, <2>6, ClientStepFollow, ZenonT(60) DEF s, r, A
<1>9. QED
  BY <1>3, <1>7, <1>8

(* A round of the drain takes the first batch of the queue.                *)
LEMMA DrainRound ==
  ASSUME NEW A \in SUBSET Epoch, NEW s, sessionInv(s, A), s.proposalQueue # <<>>,
         s.pendingEpoch = Nil, NEW result, result = drainProposalQueueLocked(s),
         NEW batch, batch = Head(s.proposalQueue)
  PROVE  /\ batch \in Batch
         /\ quiet(s, result)
         /\ result.s.proposalQueue = Tail(s.proposalQueue)
         /\ s.group = Nil => result.s.group = Nil
         /\ s.group # Nil => processed(s, result, batch)
<1> DEFINE r == [s EXCEPT !.proposalQueue = Tail(@)]
<1>1. s \in SessionState /\ s.proposalQueue \in Seq(Batch)
  BY DEF sessionInv, historyInv, SessionState
<1>2. Tail(s.proposalQueue) \in Seq(Batch) /\ batch \in Batch
  BY <1>1, SeqHeadTail
<1>3. /\ r.group = s.group /\ r.pendingEpoch = s.pendingEpoch
      /\ r.pendingCommit = s.pendingCommit
      /\ r.preCommitGroupState = s.preCommitGroupState /\ r.activeEpoch = s.activeEpoch
      /\ r.pendingTransitionID = s.pendingTransitionID /\ r.draining = s.draining
      /\ r.keyPackage = s.keyPackage /\ r.proposalQueue = Tail(s.proposalQueue)
      /\ r \in SessionState
  BY <1>1, <1>2, ZenonT(60) DEF SessionState
<1>4. result = processAndCommitProposalBatchLocked(r, batch)
  BY DEF drainProposalQueueLocked
<1> HIDE DEF r
<1>5. sessionInv(r, A)
  BY <1>3, ZenonT(60) DEF sessionInv, historyInv
<1>6. /\ quiet(r, result)
      /\ result.s.proposalQueue = r.proposalQueue
      /\ r.group = Nil => result.s.group = Nil
      /\ r.group # Nil => processed(r, result, batch)
  BY <1>2, <1>3, <1>4, <1>5, ProcessResult
<1>7. QED
  BY <1>2, <1>3, <1>6 DEF quiet, processed

LEMMA DrainFollow ==
  ASSUME RaceInv, FollowInv, NEW c \in Client, Drain(c)
  PROVE  FollowInv'
<1> DEFINE A == gateway.announced
           s == client[c]
           result == drainProposalQueueLocked(s)
           r == result.s
           batch == Head(s.proposalQueue)
<1>1. /\ sessionInv(s, A) /\ A \in SUBSET Epoch /\ s \in SessionState /\ s.draining
      /\ s.proposalQueue \in Seq(Batch)
  BY ZenonT(60) DEF RaceInv, GatewayState, sessionInv, historyInv, Drain, SessionState
<1>2. clientStep(c, result, toClient[c])
  BY SMTT(30) DEF Drain
<1>3. keeps(result, A)
  BY <1>1, DrainKeeps
<1>4. gateway' = gateway /\ toClient'[c] = toClient[c] /\ client'[c] = r
  BY <1>2, ClientStepFacts, ZenonT(60)
<1>5. /\ toFollow(c) => toFollow(c)'
      /\ \A p : toPropose(c, p, 0) => toPropose(c, p, 0)'
      /\ upToDate(c) => \A j \in DOMAIN toClient'[c] : ~moves(toClient'[c][j])
      /\ inGroup(c)' /\ r.keyPackage = s.keyPackage /\ (s.group = Nil => r.group = Nil) =>
           inGroup(c)
  BY <1>4, SameMessages, ZenonT(60)
<1>6. \A i \in DOMAIN toClient[c] :
        \E j \in DOMAIN toClient[c] : toClient[c][j] = toClient[c][i]
  OBVIOUS
<1>7. upToDate(c) =>
        /\ s.group # Nil
        /\ confirmedGroup(s).epoch = gateway.epoch
        /\ s.activeEpoch = gateway.epoch
        /\ \A p \in gateway.proposals :
             toPropose(c, p, 0) \/ p \in confirmedGroup(s).cached \/ queued(s, p)
  BY <1>1, ZenonT(60) DEF upToDate
<1>8. \A k \in DOMAIN s.proposalQueue :
        s.proposalQueue[k].op = "revoke" => gone(s.proposalQueue[k].proposal)
  BY DEF FollowInv, revokeInv
<1> HIDE DEF A, s, result, r, batch
<1>9. ASSUME quiet(s, result), s.group = Nil => r.group = Nil,
             \A k \in DOMAIN r.proposalQueue :
               \E j \in DOMAIN s.proposalQueue : r.proposalQueue[k] = s.proposalQueue[j],
             upToDate(c) =>
               /\ r.group # Nil /\ confirmedGroup(r).epoch = gateway.epoch
               /\ r.activeEpoch = gateway.epoch /\ (r.draining \/ r.pendingTransitionID = 0)
               /\ \A p \in gateway.proposals :
                    toPropose(c, p, 0) \/ p \in confirmedGroup(r).cached \/ queued(r, p)
      PROVE  FollowInv'
  <2>1. \A k \in DOMAIN r.proposalQueue :
          r.proposalQueue[k].op = "revoke" => gone(r.proposalQueue[k].proposal)
    BY <1>8, <1>9, ZenonT(60)
  <2>2. ASSUME upToDate(c)
        PROVE  upToDate(c)'
    <3>1. /\ r.group # Nil /\ confirmedGroup(r).epoch = gateway.epoch
          /\ r.activeEpoch = gateway.epoch /\ (r.draining \/ r.pendingTransitionID = 0)
          /\ \A p \in gateway.proposals :
               toPropose(c, p, 0)' \/ p \in confirmedGroup(r).cached \/ queued(r, p)
          /\ \A j \in DOMAIN toClient'[c] : ~moves(toClient'[c][j])
      BY <1>5, <1>9, <2>2, ZenonT(60)
    <3>2. QED
      BY <1>4, <3>1, ZenonT(60) DEF upToDate, moves, confirmedGroup, queued
  <2>3. r.keyPackage = s.keyPackage
    BY <1>9 DEF quiet, r
  <2>4. inGroup(c)' => inGroup(c) /\ (toFollow(c)' \/ upToDate(c)')
    BY <1>5, <1>9, <2>2, <2>3, ZenonT(60) DEF FollowInv
  <2>5. QED
    BY <1>2, <1>3, <1>6, <1>9, <2>1, <2>4, ClientStepFollow, ZenonT(60) DEF s, r, A
<1>10. CASE s.proposalQueue # <<>> /\ s.pendingEpoch = Nil
  <2>1. /\ batch \in Batch
        /\ quiet(s, result)
        /\ r.proposalQueue = Tail(s.proposalQueue)
        /\ s.group = Nil => r.group = Nil
        /\ s.group # Nil => processed(s, result, batch)
    BY <1>1, <1>10, DrainRound, ZenonT(60) DEF r, result, batch
  <2>2. /\ 1 \in DOMAIN s.proposalQueue /\ batch = s.proposalQueue[1]
        /\ \A k \in DOMAIN r.proposalQueue :
             k + 1 \in DOMAIN s.proposalQueue /\ r.proposalQueue[k] = s.proposalQueue[k + 1]
        /\ \A k \in DOMAIN s.proposalQueue :
             k = 1 \/ (k - 1 \in DOMAIN r.proposalQueue
                         /\ r.proposalQueue[k - 1] = s.proposalQueue[k])
    <3> DEFINE q == s.proposalQueue
               t == r.proposalQueue
    <3>1. q \in Seq(Batch) /\ q # <<>> /\ t = Tail(q) /\ batch = Head(q)
      BY <1>1, <1>10, <2>1 DEF batch
    <3> HIDE DEF q, t
    <3>2. t \in Seq(Batch) /\ Len(t) = Len(q) - 1 /\ \A i \in 1..Len(t) : t[i] = q[i + 1]
      BY <3>1, SeqHeadTail
    <3>3. /\ Len(q) \in Nat /\ DOMAIN q = 1..Len(q) /\ Len(q) > 0
          /\ DOMAIN t = 1..Len(t) /\ batch = q[1]
      BY <3>1, <3>2, SeqLen, SeqEmpty
    <3>4. /\ 1 \in DOMAIN q /\ batch = q[1]
          /\ \A k \in DOMAIN t : k + 1 \in DOMAIN q /\ t[k] = q[k + 1]
          /\ \A k \in DOMAIN q : k = 1 \/ (k - 1 \in DOMAIN t /\ t[k - 1] = q[k])
      BY <3>2, <3>3
    <3>5. QED
      BY <3>4, ZenonT(60) DEF q, t
  <2>3. ASSUME upToDate(c)
        PROVE  /\ r.group # Nil /\ confirmedGroup(r).epoch = gateway.epoch
               /\ r.activeEpoch = gateway.epoch /\ r.draining
               /\ \A p \in gateway.proposals :
                    toPropose(c, p, 0) \/ p \in confirmedGroup(r).cached \/ queued(r, p)
    <3>1. s.pendingCommit = Nil
      BY <1>1, <1>10, ZenonT(60) DEF sessionInv, historyInv
    <3>2. /\ s.group # Nil /\ confirmedGroup(s) = s.group /\ s.group.epoch = gateway.epoch
          /\ s.activeEpoch = gateway.epoch
      BY <1>7, <2>3, <3>1 DEF confirmedGroup
    <3>3. processed(s, result, batch)
      BY <2>1, <3>2, ZenonT(60)
    <3>4. /\ r.group # Nil /\ confirmedGroup(r).epoch = gateway.epoch
          /\ r.activeEpoch = gateway.epoch /\ r.draining
      BY <1>1, <3>2, <3>3, ZenonT(60) DEF processed, r
    <3>5. ASSUME NEW p \in gateway.proposals
          PROVE  toPropose(c, p, 0) \/ p \in confirmedGroup(r).cached \/ queued(r, p)
      <4>1. p.base = gateway.epoch /\ ~gone(p)
        BY <3>5, ZenonT(60) DEF FollowInv, gone
      <4>2. CASE p \in s.group.cached
        <5>1. batch # [op |-> "revoke", proposal |-> p]
          BY <1>8, <2>2, <4>1
        <5>2. QED
          BY <3>3, <4>2, <5>1, ZenonT(60) DEF processed, r
      <4>3. CASE queued(s, p)
        <5>1. PICK k \in DOMAIN s.proposalQueue :
                s.proposalQueue[k] = [op |-> "append", proposal |-> p]
          BY <4>3, ZenonT(60) DEF queued
        <5>2. CASE k = 1
          <6>1. batch.op = "append" /\ batch.proposal = p
            BY <2>2, <5>1, <5>2, SMTT(30)
          <6>2. QED
            BY <3>2, <3>3, <4>1, <6>1, ZenonT(60) DEF processed, r
        <5>3. CASE k # 1
          BY <2>2, <3>4, <5>1, <5>3, ZenonT(60) DEF queued
        <5>4. QED
          BY <5>2, <5>3, ZenonT(60)
      <4>4. QED
        BY <1>7, <2>3, <3>2, <3>5, <4>2, <4>3, ZenonT(60)
    <3>6. QED
      BY <3>4, <3>5, ZenonT(60)
  <2>4. \A k \in DOMAIN r.proposalQueue :
          \E j \in DOMAIN s.proposalQueue : r.proposalQueue[k] = s.proposalQueue[j]
    BY <2>2, ZenonT(60)
  <2>5. QED
    BY <1>9, <2>1, <2>3, <2>4, ZenonT(60)
<1>11. CASE s.proposalQueue = <<>> \/ s.pendingEpoch # Nil
  <2>1. r = [s EXCEPT !.pendingTransitionID = 0, !.draining = FALSE] /\ result.out = <<>>
    BY <1>11 DEF drainProposalQueueLocked, executed, step, r, result
  <2>2. /\ r.group = s.group /\ r.pendingEpoch = s.pendingEpoch
        /\ r.pendingCommit = s.pendingCommit
        /\ r.preCommitGroupState = s.preCommitGroupState /\ r.activeEpoch = s.activeEpoch
        /\ r.pendingTransitionID = 0 /\ r.draining = FALSE
        /\ r.keyPackage = s.keyPackage /\ r.proposalQueue = s.proposalQueue
    BY <1>1, <2>1, ZenonT(60) DEF SessionState
  <2>3. quiet(s, result)
    BY <2>1, <2>2, SMTT(30) DEF quiet, r
  <2>4. confirmedGroup(r) = confirmedGroup(s) /\ \A p : queued(s, p) => queued(r, p)
    <3>1. confirmedGroup(r) = confirmedGroup(s)
      BY <2>2 DEF confirmedGroup
    <3>2. s.proposalQueue = <<>> => DOMAIN s.proposalQueue = {}
      OBVIOUS
    <3>3. QED
      BY <1>11, <2>2, <3>1, <3>2, ZenonT(60) DEF queued
  <2>5. QED
    BY <1>7, <1>9, <2>2, <2>3, <2>4
<1>12. QED
  BY <1>10, <1>11, ZenonT(60)

-----------------------------------------------------------------------------
(* The gateway's steps: a connection q grows by the messages of S, or n    *)
(* requests are taken from it.                                             *)
grown(q, new, S) ==
  /\ \A i \in DOMAIN q : i \in DOMAIN new /\ new[i] = q[i]
  /\ \A i \in DOMAIN new :
       /\ i \in Nat \ {0}
       /\ i \in DOMAIN q \/ (new[i] \in S /\ \A j \in DOMAIN q : i > j)
  /\ \A m \in S : \E i \in DOMAIN new : new[i] = m /\ \A j \in DOMAIN q : i > j

taken(q, new, n) ==
  \A i \in DOMAIN new : i \in Nat \ {0} /\ i + n \in DOMAIN q /\ new[i] = q[i + n]

LEMMA LaterStaysLater == \A i, j, n \in Nat : j > i => j + n > i + n
BY SMTT(30)

LEMMA RangeBounded == \A n \in Nat : \A i \in 1..n : i <= n
BY SMTT(30)

LEMMA GrownConcat ==
  ASSUME NEW M, NEW q \in Seq(M), NEW msgs \in Seq(M), NEW S,
         \A k \in DOMAIN msgs : msgs[k] \in S,
         \A m \in S : \E k \in DOMAIN msgs : msgs[k] = m,
         NEW new, new = q \o msgs
  PROVE  grown(q, new, S)
<1>1. /\ new \in Seq(M) /\ Len(new) = Len(q) + Len(msgs)
      /\ \A i \in 1..(Len(q) + Len(msgs)) :
           new[i] = IF i <= Len(q) THEN q[i] ELSE msgs[i - Len(q)]
  BY SeqConcat
<1>2. /\ Len(q) \in Nat /\ DOMAIN q = 1..Len(q) /\ Len(msgs) \in Nat
      /\ DOMAIN msgs = 1..Len(msgs) /\ DOMAIN new = 1..(Len(q) + Len(msgs))
  BY <1>1, SeqLen
<1>3. \A i \in DOMAIN q : i \in DOMAIN new /\ new[i] = q[i]
  BY <1>1, <1>2
<1>4. ASSUME NEW i \in DOMAIN new
      PROVE  /\ i \in Nat \ {0}
             /\ i \in DOMAIN q \/ (new[i] \in S /\ \A j \in DOMAIN q : i > j)
  <2>1. CASE i <= Len(q)
    BY <1>2, <1>4, <2>1
  <2>2. CASE i > Len(q)
    <3>1. i - Len(q) \in DOMAIN msgs /\ new[i] = msgs[i - Len(q)]
      BY <1>1, <1>2, <1>4, <2>2
    <3>2. QED
      BY <1>2, <1>4, <2>2, <3>1
  <2>3. QED
    BY <1>2, <1>4, <2>1, <2>2
<1>5. ASSUME NEW m \in S
      PROVE  \E i \in DOMAIN new : new[i] = m /\ \A j \in DOMAIN q : i > j
  <2>1. PICK k \in DOMAIN msgs : msgs[k] = m
    BY <1>5
  <2>2. Len(q) + k \in DOMAIN new /\ new[Len(q) + k] = m /\ \A j \in DOMAIN q : Len(q) + k > j
    BY <1>1, <1>2, <2>1
  <2>3. QED
    BY <2>2
<1>6. QED
  BY <1>3, <1>4, <1>5, ZenonT(60) DEF grown

LEMMA GrownAppend ==
  ASSUME NEW M, NEW q \in Seq(M), NEW m \in M, NEW new, new = Append(q, m)
  PROVE  grown(q, new, {m})
<1>1. /\ Len(q) \in Nat /\ DOMAIN q = 1..Len(q) /\ DOMAIN new = 1..(Len(q) + 1)
      /\ \A i \in 1..Len(q) : new[i] = q[i]
      /\ new[Len(q) + 1] = m
  BY SeqAppend, SeqLen
<1>2. \A i \in DOMAIN new :
        i \in Nat \ {0} /\ (i \in DOMAIN q \/ (new[i] \in {m} /\ \A j \in DOMAIN q : i > j))
  BY <1>1
<1>3. Len(q) + 1 \in DOMAIN new /\ new[Len(q) + 1] = m /\ \A j \in DOMAIN q : Len(q) + 1 > j
  BY <1>1
<1>4. QED
  BY <1>1, <1>2, <1>3 DEF grown

LEMMA GrownNot ==
  ASSUME NEW M, NEW q \in Seq(M)
  PROVE  grown(q, q, {})
<1>1. Len(q) \in Nat /\ DOMAIN q = 1..Len(q)
  BY SeqLen
<1>2. QED
  BY <1>1 DEF grown

LEMMA TakenTail ==
  ASSUME NEW M, NEW q \in Seq(M), q # <<>>, NEW new, new = Tail(q)
  PROVE  taken(q, new, 1) /\ 1 \in DOMAIN q /\ Head(q) = q[1]
<1>1. new \in Seq(M) /\ Len(new) = Len(q) - 1 /\ \A i \in 1..Len(new) : new[i] = q[i + 1]
  BY SeqHeadTail
<1>2. /\ Len(q) \in Nat /\ DOMAIN q = 1..Len(q) /\ Len(q) > 0
      /\ DOMAIN new = 1..Len(new) /\ Head(q) = q[1]
  BY <1>1, SeqLen, SeqEmpty
<1>3. QED
  BY <1>1, <1>2 DEF taken

LEMMA TakenNot ==
  ASSUME NEW M, NEW q \in Seq(M)
  PROVE  taken(q, q, 0)
<1>1. Len(q) \in Nat /\ DOMAIN q = 1..Len(q)
  BY SeqLen
<1>2. QED
  BY <1>1 DEF taken

(* Messages that move no one leave a session where it was, if they hold    *)
(* the proposals that are new, and the execution that is.                  *)
LEMMA GrownFollows ==
  ASSUME NEW d \in Client, NEW S, grown(toClient[d], toClient'[d], S),
         \A m \in S : ~moves(m),
         client'[d] = client[d], gateway'.epoch = gateway.epoch, gateway'.tid = gateway.tid,
         \A p \in gateway'.proposals \ gateway.proposals : message("append", p) \in S,
         \A k \in DOMAIN gateway.prepared :
           gateway.prepared[k] = gateway.tid =>
             \/ \E j \in DOMAIN gateway'.prepared : gateway'.prepared[j] = gateway.tid
             \/ \E m \in S : m.type = "execute" /\ m.tid = gateway.tid
  PROVE  /\ toFollow(d) => toFollow(d)'
         /\ upToDate(d) => upToDate(d)'
<1> DEFINE q == toClient[d]
           new == toClient'[d]
<1>1. /\ \A i \in DOMAIN q : i \in DOMAIN new /\ new[i] = q[i] /\ i \in Nat \ {0}
      /\ \A i \in DOMAIN new :
           /\ i \in Nat \ {0}
           /\ i \in DOMAIN q \/ (new[i] \in S /\ \A j \in DOMAIN q : i > j)
      /\ \A m \in S : \E i \in DOMAIN new : new[i] = m /\ \A j \in DOMAIN q : i > j
  BY ZenonT(60) DEF grown
<1>2. \A i \in DOMAIN new : moves(new[i]) => i \in DOMAIN q
  BY <1>1, ZenonT(60)
<1>3. ASSUME NEW i, i = 0 \/ i \in DOMAIN q
      PROVE  /\ toExecute(d, i) => toExecute(d, i)'
             /\ \A p : toPropose(d, p, i) => toPropose(d, p, i)'
             /\ \A p \in gateway'.proposals \ gateway.proposals : toPropose(d, p, i)'
  <2>1. \A p : toPropose(d, p, i) => toPropose(d, p, i)'
    BY <1>1, ZenonT(60) DEF toPropose, message
  <2>2. \A m \in S : \E j \in DOMAIN new : new[j] = m /\ j > i
    BY <1>1, <1>3
  <2>3. \A p \in gateway'.proposals \ gateway.proposals : toPropose(d, p, i)'
    BY <2>2, ZenonT(60) DEF toPropose, message
  <2>4. ASSUME toExecute(d, i)
        PROVE  toExecute(d, i)'
    <3>1. CASE \E k \in DOMAIN gateway.prepared : gateway.prepared[k] = gateway.tid
      BY <2>2, <3>1, ZenonT(60) DEF toExecute
    <3>2. CASE \E j \in DOMAIN q : j > i /\ q[j].type = "execute" /\ q[j].tid = gateway.tid
      BY <1>1, <3>2 DEF toExecute
    <3>3. QED
      BY <2>4, <3>1, <3>2, ZenonT(60) DEF toExecute
  <2>5. QED
    BY <2>1, <2>3, <2>4
<1>4. ASSUME toFollow(d)
      PROVE  toFollow(d)'
  <2>1. PICK i \in DOMAIN q :
          /\ moves(q[i]) /\ epochOf(q[i]) = gateway.epoch /\ q[i].tid = gateway.tid
          /\ \A j \in DOMAIN q : j > i => ~moves(q[j])
          /\ toExecute(d, i)
          /\ \A p \in gateway.proposals : toPropose(d, p, i)
    BY <1>4, ZenonT(60) DEF toFollow
  <2>2. /\ i \in DOMAIN new /\ moves(new[i]) /\ epochOf(new[i]) = gateway'.epoch
        /\ new[i].tid = gateway'.tid
        /\ \A j \in DOMAIN new : j > i => ~moves(new[j])
        /\ toExecute(d, i)'
    BY <1>1, <1>2, <1>3, <2>1, ZenonT(60)
  <2>3. \A p \in gateway'.proposals : toPropose(d, p, i)'
    BY <1>3, <2>1, ZenonT(60)
  <2>4. QED
    BY <2>2, <2>3, ZenonT(60) DEF toFollow, moves, epochOf
<1>5. ASSUME upToDate(d)
      PROVE  upToDate(d)'
  <2> DEFINE s == client[d]
  <2>1. /\ s.group # Nil
        /\ \A j \in DOMAIN q : ~moves(q[j])
        /\ confirmedGroup(s).epoch = gateway'.epoch
        /\ \/ s.activeEpoch = gateway'.epoch /\ (s.draining \/ s.pendingTransitionID = 0)
           \/ /\ ~s.draining
              /\ s.pendingTransitionID = gateway'.tid
              /\ s.pendingEpoch = gateway'.epoch
              /\ s.pendingCommit = Nil
              /\ toExecute(d, 0)'
        /\ \A p \in gateway'.proposals :
             toPropose(d, p, 0)' \/ p \in confirmedGroup(s).cached \/ queued(s, p)
    BY <1>3, <1>5, ZenonT(60) DEF upToDate
  <2>2. \A j \in DOMAIN new : ~moves(new[j])
    BY <1>1, <1>2, <2>1, ZenonT(60)
  <2>3. QED
    BY <2>1, <2>2, ZenonT(60) DEF upToDate, moves, confirmedGroup, queued
<1>6. QED
  BY <1>4, <1>5, ZenonT(60)

(* What a step of the gateway has to leave true.                           *)
LEMMA GatewayStepFollow ==
  ASSUME RaceInv, FollowInv, client' = client,
         \A d \in Client : \E n \in Nat : taken(toGateway[d], toGateway'[d], n),
         \A p \in gateway'.proposals : p.base = gateway'.epoch,
         \A d \in Client : inGroup(d)' => memberInv(d)' /\ (toFollow(d)' \/ upToDate(d)'),
         \A p : gone(p) => p \notin gateway'.proposals,
         \A d \in Client : \A i \in DOMAIN toClient'[d] :
           \/ \E j \in DOMAIN toClient[d] : toClient[d][j] = toClient'[d][i]
           \/ /\ toClient'[d][i].type = "welcome" =>
                   toClient'[d][i].keyPackage \in 1..client[d].keyPackage
              /\ toClient'[d][i].type = "proposals" /\ toClient'[d][i].batch.op = "revoke" =>
                   \A p : p = toClient'[d][i].batch.proposal => gone(p)',
         \A p \in gateway'.proposals \ gateway.proposals :
           p.op = "add" /\ p.who \in Client =>
             /\ p.keyPackage \in 1..client[p.who].keyPackage
             /\ \A j \in DOMAIN toGateway'[p.who] :
                  cameAfter(toGateway'[p.who][j], p.keyPackage, client[p.who].keyPackage)
  PROVE  FollowInv'
<1>1. ASSUME NEW p, gone(p)
      PROVE  gone(p)'
  <2>1. /\ p \notin gateway'.proposals /\ p.op = "add" /\ p.who \in Client
        /\ p.keyPackage <= client[p.who].keyPackage
    BY <1>1, ZenonT(60) DEF gone
  <2>2. \A j \in DOMAIN toGateway'[p.who] :
          cameAfter(toGateway'[p.who][j], p.keyPackage, client[p.who].keyPackage)
    BY <1>1, <2>1 DEF gone, taken
  <2>3. QED
    BY <2>1, <2>2, ZenonT(60) DEF gone, cameAfter
<1>2. ASSUME NEW d \in Client
      PROVE  keyPackageInv(d)'
  <2> DEFINE K == client[d].keyPackage
             q == toGateway[d]
             new == toGateway'[d]
  <2>1. /\ K \in Nat \ {0}
        /\ \A i \in DOMAIN toClient[d] :
             toClient[d][i].type = "welcome" => toClient[d][i].keyPackage \in 1..K
        /\ \A i \in DOMAIN q :
             q[i].type = "keyPackage" =>
               /\ q[i].keyPackage \in 1..K
               /\ \A j \in DOMAIN q : j > i => cameAfter(q[j], q[i].keyPackage, K)
        /\ \A p \in gateway.proposals :
             p.who = d /\ p.op = "add" =>
               /\ p.keyPackage \in 1..K
               /\ \A j \in DOMAIN q : cameAfter(q[j], p.keyPackage, K)
    BY ZenonT(60) DEF FollowInv, keyPackageInv
  <2>2. PICK n \in Nat :
          \A i \in DOMAIN new : i \in Nat /\ i + n \in DOMAIN q /\ new[i] = q[i + n]
    BY ZenonT(60) DEF taken
  <2>3. \A i \in DOMAIN toClient'[d] :
          toClient'[d][i].type = "welcome" => toClient'[d][i].keyPackage \in 1..K
    BY <2>1, ZenonT(60)
  <2> HIDE DEF q, new, K
  <2>4. \A i, j \in DOMAIN new : j > i => j + n > i + n
    BY <2>2, LaterStaysLater, ZenonT(60)
  <2>5. \A i \in DOMAIN new :
          new[i].type = "keyPackage" =>
            /\ new[i].keyPackage \in 1..K
            /\ \A j \in DOMAIN new : j > i => cameAfter(new[j], new[i].keyPackage, K)
    BY <2>1, <2>2, <2>4, ZenonT(60)
  <2>6. \A p \in gateway'.proposals :
          p.who = d /\ p.op = "add" =>
            /\ p.keyPackage \in 1..K
            /\ \A j \in DOMAIN new : cameAfter(new[j], p.keyPackage, K)
    <3> SUFFICES ASSUME NEW p \in gateway'.proposals, p.who = d, p.op = "add"
                 PROVE  /\ p.keyPackage \in 1..K
                        /\ \A j \in DOMAIN new : cameAfter(new[j], p.keyPackage, K)
      BY ZenonT(60)
    <3>1. CASE p \in gateway.proposals
      BY <2>1, <2>2, <3>1, ZenonT(60)
    <3>2. CASE p \notin gateway.proposals
      BY <3>2, Zenon DEF new, K
    <3>3. QED
      BY <3>1, <3>2, ZenonT(60)
  <2>7. QED
    BY <2>1, <2>3, <2>5, <2>6, ZenonT(60) DEF keyPackageInv, new, K, cameAfter
<1>3. ASSUME NEW d \in Client
      PROVE  revokeInv(d)'
  <2>1. ASSUME NEW i \in DOMAIN toClient'[d], toClient'[d][i].type = "proposals",
               toClient'[d][i].batch.op = "revoke", NEW p, p = toClient'[d][i].batch.proposal
        PROVE  gone(p)'
    <3>1. ASSUME NEW j \in DOMAIN toClient[d], toClient[d][j] = toClient'[d][i]
          PROVE  gone(p)
      BY <2>1, <3>1, ZenonT(60) DEF FollowInv, revokeInv
    <3>2. QED
      BY <1>1, <2>1, <3>1, ZenonT(60)
  <2>2. ASSUME NEW k \in DOMAIN client[d].proposalQueue,
               client[d].proposalQueue[k].op = "revoke",
               NEW p, p = client[d].proposalQueue[k].proposal
        PROVE  gone(p)'
    <3>1. gone(p)
      BY <2>2, ZenonT(60) DEF FollowInv, revokeInv
    <3>2. QED
      BY <1>1, <3>1, ZenonT(60)
  <2>3. QED
    BY <2>1, <2>2, ZenonT(60) DEF revokeInv, gone, cameAfter
<1>4. QED
  BY <1>2, <1>3, ZenonT(60) DEF FollowInv

(* A step of the gateway that moves no one, and sends S to the members.    *)
LEMMA GatewaySendsFollow ==
  ASSUME RaceInv, FollowInv, client' = client,
         \A d \in Client : \E n \in Nat : taken(toGateway[d], toGateway'[d], n),
         gateway'.epoch = gateway.epoch, gateway'.tid = gateway.tid,
         gateway'.member = gateway.member,
         NEW S, \A m \in S : ~moves(m),
         \A d \in Client :
           \/ grown(toClient[d], toClient'[d], S)
           \/ gateway.member[d] = 0 /\ toClient'[d] = toClient[d],
         \A p \in gateway'.proposals \ gateway.proposals :
           /\ message("append", p) \in S
           /\ p.base = gateway.epoch
           /\ \A d \in Client : inGroup(d) => p.who # d
           /\ p.op = "add" /\ p.who \in Client =>
                /\ p.keyPackage \in 1..client[p.who].keyPackage
                /\ \A j \in DOMAIN toGateway'[p.who] :
                     cameAfter(toGateway'[p.who][j], p.keyPackage, client[p.who].keyPackage),
         \A k \in DOMAIN gateway.prepared :
           gateway.prepared[k] = gateway.tid =>
             \/ \E j \in DOMAIN gateway'.prepared : gateway'.prepared[j] = gateway.tid
             \/ \E m \in S : m.type = "execute" /\ m.tid = gateway.tid,
         \A p : gone(p) => p \notin gateway'.proposals,
         \A m \in S : m.type = "proposals" /\ m.batch.op = "revoke" =>
           \A p : p = m.batch.proposal => gone(p)'
  PROVE  FollowInv'
<1>1. \A d \in Client : \A i \in DOMAIN toClient'[d] :
        \/ \E j \in DOMAIN toClient[d] : toClient[d][j] = toClient'[d][i]
        \/ toClient'[d][i] \in S
  BY ZenonT(60) DEF grown
<1>2. \A m \in S : m.type # "welcome"
  BY ZenonT(60) DEF moves
<1>3. ASSUME NEW d \in Client, inGroup(d)'
      PROVE  inGroup(d)
  BY <1>1, <1>2, <1>3, ZenonT(60) DEF inGroup
<1>4. ASSUME NEW d \in Client, inGroup(d)'
      PROVE  memberInv(d)' /\ (toFollow(d)' \/ upToDate(d)')
  <2>1. inGroup(d) /\ memberInv(d) /\ (toFollow(d) \/ upToDate(d))
    BY <1>3, <1>4, ZenonT(60) DEF FollowInv
  <2>2. memberInv(d)'
    <3>1. gateway'.member[d] # 0
      BY <2>1, ZenonT(60) DEF memberInv
    <3>2. \A i \in DOMAIN toGateway'[d] : toGateway'[d][i].type = "commit"
      <4>1. \A i \in DOMAIN toGateway'[d] :
              \E j \in DOMAIN toGateway[d] : toGateway'[d][i] = toGateway[d][j]
        BY ZenonT(60) DEF taken
      <4>2. QED
        BY <2>1, <4>1, ZenonT(60) DEF memberInv
    <3>3. \A p \in gateway'.proposals : p.who # d
      BY <2>1, ZenonT(60) DEF memberInv
    <3>4. QED
      BY <3>1, <3>2, <3>3, ZenonT(60) DEF memberInv
  <2>3. grown(toClient[d], toClient'[d], S)
    BY <2>1, ZenonT(60) DEF memberInv
  <2>4. (toFollow(d) => toFollow(d)') /\ (upToDate(d) => upToDate(d)')
    BY <2>3, GrownFollows, ZenonT(60)
  <2>5. QED
    BY <2>1, <2>2, <2>4, ZenonT(60)
<1>5. \A p \in gateway'.proposals : p.base = gateway'.epoch
  BY ZenonT(60) DEF FollowInv
<1>6. \A d \in Client : \A i \in DOMAIN toClient'[d] :
        \/ \E j \in DOMAIN toClient[d] : toClient[d][j] = toClient'[d][i]
        \/ /\ toClient'[d][i].type = "welcome" =>
                toClient'[d][i].keyPackage \in 1..client[d].keyPackage
           /\ toClient'[d][i].type = "proposals" /\ toClient'[d][i].batch.op = "revoke" =>
                \A p : p = toClient'[d][i].batch.proposal => gone(p)'
  <2> SUFFICES ASSUME NEW d \in Client, NEW i \in DOMAIN toClient'[d],
                      toClient'[d][i] \in S, NEW p,
                      toClient'[d][i].type = "proposals", toClient'[d][i].batch.op = "revoke",
                      p = toClient'[d][i].batch.proposal
               PROVE  gone(p)'
    BY <1>1, <1>2, ZenonT(60)
  <2>1. QED
    BY ZenonT(60)
<1>7. \A p \in gateway'.proposals \ gateway.proposals :
        p.op = "add" /\ p.who \in Client =>
          /\ p.keyPackage \in 1..client[p.who].keyPackage
          /\ \A j \in DOMAIN toGateway'[p.who] :
               cameAfter(toGateway'[p.who][j], p.keyPackage, client[p.who].keyPackage)
  BY ZenonT(60)
<1>8. QED
  BY <1>4, <1>5, <1>6, <1>7, GatewayStepFollow, ZenonT(60)

LEMMA SentOne ==
  ASSUME RaceInv, NEW m \in Message(gateway.announced), NEW receivers,
         toClient' = sendTo(receivers, <<m>>), NEW d \in Client
  PROVE  \/ grown(toClient[d], toClient'[d], {m})
         \/ d \notin receivers /\ toClient'[d] = toClient[d]
<1> DEFINE M == Message(gateway.announced)
<1>1. toClient[d] \in Seq(M) /\ <<m>> \in Seq(M)
  BY DEF RaceInv
<1>2. toClient'[d] = IF d \in receivers THEN toClient[d] \o <<m>> ELSE toClient[d]
  BY DEF sendTo
<1>3. DOMAIN <<m>> = {1} /\ <<m>>[1] = m
  OBVIOUS
<1> HIDE DEF M
<1>4. CASE d \in receivers
  <2>1. ASSUME NEW new, new = toClient[d] \o <<m>>
        PROVE  grown(toClient[d], new, {m})
    BY <1>1, <1>3, <2>1, GrownConcat, ZenonT(60)
  <2>2. QED
    BY <1>2, <1>4, <2>1, ZenonT(60)
<1>5. QED
  BY <1>2, <1>4, ZenonT(60)

LEMMA NothingTaken ==
  ASSUME RaceInv, toGateway' = toGateway
  PROVE  \A d \in Client : \E n \in Nat : taken(toGateway[d], toGateway'[d], n)
<1> SUFFICES ASSUME NEW d \in Client
             PROVE  taken(toGateway[d], toGateway'[d], 0)
  OBVIOUS
<1>1. toGateway[d] \in Seq(Request)
  BY DEF RaceInv
<1>2. taken(toGateway[d], toGateway[d], 0)
  BY <1>1, TakenNot
<1>3. QED
  BY <1>2

(* One more proposal, sent to all.                                         *)
LEMMA ProposeFollow ==
  ASSUME RaceInv, FollowInv, client' = client,
         \A d \in Client : \E n \in Nat : taken(toGateway[d], toGateway'[d], n),
         NEW p \in Proposal, p.base = gateway.epoch,
         \A d \in Client : inGroup(d) => p.who # d,
         p.op = "add" => p.who \notin Client,
         gateway'.epoch = gateway.epoch, gateway'.tid = gateway.tid,
         gateway'.member = gateway.member, gateway'.prepared = gateway.prepared,
         gateway'.proposals = gateway.proposals \cup {p},
         toClient' = sendTo(Client, <<message("append", p)>>)
  PROVE  FollowInv'
<1> DEFINE m == message("append", p)
<1>1. /\ m \in Message(gateway.announced)
      /\ m.type = "proposals" /\ m.batch = [op |-> "append", proposal |-> p]
  BY MessageOfProposal, ZenonT(60)
<1>2. m = message("append", p)
  BY ZenonT(60)
<1> HIDE DEF m
<1>3. \A d \in Client : grown(toClient[d], toClient'[d], {m})
  BY <1>1, <1>2, SentOne, ZenonT(60)
<1>4. ~moves(m) /\ m.batch.op # "revoke"
  BY <1>1, SMTT(30) DEF moves
<1>5. \A x : gone(x) => x \notin gateway'.proposals
  BY DEF gone
<1> DEFINE S == {m}
<1>6. /\ \A x \in S : ~moves(x)
      /\ \A d \in Client : grown(toClient[d], toClient'[d], S)
      /\ \A x \in gateway'.proposals \ gateway.proposals :
           /\ message("append", x) \in S
           /\ x.base = gateway.epoch
           /\ \A d \in Client : inGroup(d) => x.who # d
           /\ ~(x.op = "add" /\ x.who \in Client)
      /\ \A x \in S : ~(x.type = "proposals" /\ x.batch.op = "revoke")
  BY <1>2, <1>3, <1>4, ZenonT(60)
<1> HIDE DEF S
<1>7. QED
  BY <1>5, <1>6, GatewaySendsFollow, ZenonT(60)

LEMMA GatewayProposesFollow ==
  ASSUME RaceInv, FollowInv, NEW g \in Guest, GatewayProposes(g)
  PROVE  FollowInv'
<1> DEFINE p == proposal("add", g, 0)
<1>1. /\ gateway' = [gateway EXCEPT !.proposals = @ \cup {p}, !.guests = @ \cup {g}]
      /\ toClient' = sendTo(Client, <<message("append", p)>>)
      /\ client' = client /\ toGateway' = toGateway
  BY ZenonT(60) DEF GatewayProposes
<1>2. p \in Proposal /\ p.base = gateway.epoch /\ p.who = g
  BY ProposalTypes DEF proposal
<1> HIDE DEF p
<1>3. /\ gateway'.epoch = gateway.epoch /\ gateway'.tid = gateway.tid
      /\ gateway'.member = gateway.member /\ gateway'.prepared = gateway.prepared
      /\ gateway'.proposals = gateway.proposals \cup {p}
  BY <1>1 DEF RaceInv, GatewayState
<1>4. g \notin Client
  BY RaceAssumption
<1>5. \A d \in Client : \E n \in Nat : taken(toGateway[d], toGateway'[d], n)
  BY <1>1, NothingTaken
<1>6. QED
  BY <1>1, <1>2, <1>3, <1>4, <1>5, ProposeFollow, ZenonT(60)

LEMMA GatewayExecutesFollow ==
  ASSUME RaceInv, FollowInv, GatewayExecutes
  PROVE  FollowInv'
<1> DEFINE m == [type |-> "execute", tid |-> Head(gateway.prepared)]
           members == {c \in Client : gateway.member[c] # 0}
           q == gateway.prepared
           new == gateway'.prepared
<1>1. /\ gateway' = [gateway EXCEPT !.prepared = Tail(@)]
      /\ toClient' = sendTo(members, <<m>>)
      /\ client' = client /\ toGateway' = toGateway /\ q # <<>>
  BY DEF GatewayExecutes
<1>2. q \in Seq(Nat \ {0}) /\ Head(q) \in Nat \ {0}
  BY <1>1, SeqHeadTail DEF RaceInv, GatewayState
<1>3. m \in Message(gateway.announced) /\ m.type = "execute" /\ m.tid = Head(q)
  BY <1>2, ZenonT(60) DEF Message, Executed
<1>4. /\ gateway'.epoch = gateway.epoch /\ gateway'.tid = gateway.tid
      /\ gateway'.member = gateway.member /\ new = Tail(q)
      /\ gateway'.proposals = gateway.proposals
  BY <1>1 DEF RaceInv, GatewayState
<1> HIDE DEF m, q, new, members
<1>5. \A d \in Client :
        \/ grown(toClient[d], toClient'[d], {m})
        \/ gateway.member[d] = 0 /\ toClient'[d] = toClient[d]
  <2>1. \A d \in Client :
          \/ grown(toClient[d], toClient'[d], {m})
          \/ d \notin members /\ toClient'[d] = toClient[d]
    BY <1>1, <1>3, SentOne, ZenonT(60)
  <2>2. QED
    BY <2>1 DEF members
<1>6. ASSUME NEW k \in DOMAIN q
      PROVE  q[k] = m.tid \/ \E j \in DOMAIN new : new[j] = q[k]
  <2>1. /\ new \in Seq(Nat \ {0}) /\ Len(new) = Len(q) - 1
        /\ \A i \in 1..Len(new) : new[i] = q[i + 1]
    BY <1>1, <1>2, <1>4, SeqHeadTail
  <2>2. /\ Len(q) \in Nat /\ DOMAIN q = 1..Len(q) /\ DOMAIN new = 1..Len(new) /\ Head(q) = q[1]
    BY <1>1, <1>2, <2>1, SeqLen
  <2>3. k = 1 \/ (k - 1 \in DOMAIN new /\ new[k - 1] = q[k])
    BY <1>6, <2>1, <2>2
  <2>4. QED
    BY <1>3, <2>2, <2>3
<1>7. \A x : gone(x) => x \notin gateway'.proposals
  BY <1>4 DEF gone
<1>8. \A d \in Client : \E n \in Nat : taken(toGateway[d], toGateway'[d], n)
  BY <1>1, NothingTaken, ZenonT(60)
<1> DEFINE S == {m}
<1>9. /\ \A x \in S : ~moves(x)
      /\ \A x \in S : x.type # "proposals"
      /\ \A d \in Client :
           \/ grown(toClient[d], toClient'[d], S)
           \/ gateway.member[d] = 0 /\ toClient'[d] = toClient[d]
      /\ \A k \in DOMAIN q :
           q[k] = gateway.tid =>
             \/ \E j \in DOMAIN new : new[j] = gateway.tid
             \/ \E x \in S : x.type = "execute" /\ x.tid = gateway.tid
  BY <1>3, <1>5, <1>6, ZenonT(60) DEF moves
<1> HIDE DEF S
<1>10. QED
  BY <1>1, <1>4, <1>7, <1>8, <1>9, GatewaySendsFollow, ZenonT(60) DEF q, new

LEMMA GatewayReceivesInvalidFollow ==
  ASSUME RaceInv, FollowInv, NEW c \in Client, client' = client,
         \A d \in Client : \E n \in Nat : taken(toGateway[d], toGateway'[d], n),
         NEW i \in DOMAIN toGateway[c], toGateway[c][i].type # "commit",
         propose(proposal("remove", c, 0))
  PROVE  FollowInv'
<1> DEFINE p == proposal("remove", c, 0)
<1>1. /\ gateway' = [gateway EXCEPT !.proposals = @ \cup {p}]
      /\ toClient' = sendTo(Client, <<message("append", p)>>)
  BY ZenonT(60) DEF propose
<1>2. p \in Proposal /\ p.base = gateway.epoch /\ p.who = c /\ p.op = "remove"
  BY ProposalTypes DEF proposal
<1> HIDE DEF p
<1>3. /\ gateway'.epoch = gateway.epoch /\ gateway'.tid = gateway.tid
      /\ gateway'.member = gateway.member /\ gateway'.prepared = gateway.prepared
      /\ gateway'.proposals = gateway.proposals \cup {p}
  BY <1>1, ZenonT(60) DEF RaceInv, GatewayState
<1>4. ~inGroup(c)
  BY DEF FollowInv, memberInv
<1>5. QED
  BY <1>1, <1>2, <1>3, <1>4, ProposeFollow, ZenonT(60)

(* A key package: the proposal to add its sender takes the place of the    *)
(* one for an earlier key package.                                         *)
LEMMA GatewayReceivesKeyPackageFollow ==
  ASSUME RaceInv, FollowInv, NEW c \in Client, client' = client,
         \A d \in Client : \E n \in Nat : taken(toGateway[d], toGateway'[d], n),
         1 \in DOMAIN toGateway[c], taken(toGateway[c], toGateway'[c], 1),
         toGateway[c][1].type = "keyPackage", NEW k \in Nat, k = toGateway[c][1].keyPackage,
         GatewayReceivesKeyPackage(c, k)
  PROVE  FollowInv'
<1> DEFINE A == gateway.announced
           K == client[c].keyPackage
           old == {p \in gateway.proposals : p.op = "add" /\ p.who = c}
           new == proposal("add", c, k)
           oldP == CHOOSE p \in old : TRUE
           revoked == IF old = {} THEN <<>> ELSE <<message("revoke", oldP)>>
           m == message("append", new)
           S == IF old = {} THEN {m} ELSE {m, message("revoke", oldP)}
<1>1. /\ gateway' = [gateway EXCEPT !.proposals = (@ \ old) \cup {new}]
      /\ toClient' = sendTo(Client, revoked \o <<m>>)
  BY DEF GatewayReceivesKeyPackage
<1>2. /\ new \in Proposal /\ new.base = gateway.epoch /\ new.who = c /\ new.op = "add"
      /\ new.keyPackage = k
  BY ProposalTypes, ZenonT(60) DEF proposal
<1>3. gateway.proposals \in SUBSET Proposal
  BY ZenonT(60) DEF RaceInv, GatewayState
<1>4. old # {} => oldP \in old /\ oldP \in Proposal
  <2>1. old # {} => oldP \in old
    BY ZenonT(60)
  <2> HIDE DEF oldP
  <2>2. QED
    BY <1>3, <2>1
<1> HIDE DEF new, oldP
<1>5. /\ gateway'.epoch = gateway.epoch /\ gateway'.tid = gateway.tid
      /\ gateway'.member = gateway.member /\ gateway'.prepared = gateway.prepared
      /\ gateway'.proposals = (gateway.proposals \ old) \cup {new}
  BY <1>1, ZenonT(60) DEF RaceInv, GatewayState
<1>6. ~inGroup(c)
  BY DEF FollowInv, memberInv
<1>7. /\ K \in Nat \ {0} /\ k \in 1..K
      /\ \A j \in DOMAIN toGateway[c] : j > 1 => cameAfter(toGateway[c][j], k, K)
      /\ \A p \in old :
           /\ p.keyPackage \in 1..K
           /\ \A j \in DOMAIN toGateway[c] : cameAfter(toGateway[c][j], p.keyPackage, K)
  BY ZenonT(60) DEF FollowInv, keyPackageInv
<1>8. \A j \in DOMAIN toGateway'[c] :
        /\ cameAfter(toGateway'[c][j], k, K)
        /\ \A p \in old : cameAfter(toGateway'[c][j], p.keyPackage, K)
  <2>1. \A j \in DOMAIN toGateway'[c] :
          \E i \in DOMAIN toGateway[c] : i > 1 /\ toGateway'[c][j] = toGateway[c][i]
    <3> SUFFICES ASSUME NEW j \in DOMAIN toGateway'[c]
                 PROVE  /\ j + 1 > 1 /\ j + 1 \in DOMAIN toGateway[c]
                        /\ toGateway'[c][j] = toGateway[c][j + 1]
      BY ZenonT(60)
    <3>1. QED
      BY DEF taken
  <2>2. QED
    BY <1>7, <2>1, ZenonT(60)
<1>9. k > 0 /\ \A p \in old : p.keyPackage # k
  BY <1>7, SMTT(30) DEF cameAfter
<1>10. ASSUME NEW p, gone(p)
       PROVE  p \notin gateway'.proposals
  <2>1. p \notin gateway.proposals
    BY <1>10, ZenonT(60) DEF gone
  <2>2. ASSUME p = new
        PROVE  FALSE
    <3>1. cameAfter(toGateway[c][1], k, K)
      BY <1>2, <1>10, <2>2, ZenonT(60) DEF gone
    <3>2. QED
      BY <1>7, <3>1, SMTT(30) DEF cameAfter
  <2>3. QED
    BY <1>5, <2>1, <2>2, ZenonT(60)
<1>11. ASSUME NEW p \in old
       PROVE  gone(p)'
  <2>1. p # new
    BY <1>2, <1>9, <1>11, ZenonT(60)
  <2>2. /\ p \notin gateway'.proposals /\ p.op = "add" /\ p.who = c
        /\ p.keyPackage <= K
    <3>1. /\ p \notin gateway'.proposals /\ p.op = "add" /\ p.who = c
          /\ K \in Nat /\ p.keyPackage \in 1..K
      BY <1>5, <1>7, <1>11, <2>1, ZenonT(60)
    <3>2. QED
      BY <3>1, RangeBounded, ZenonT(60)
  <2>3. \A j \in DOMAIN toGateway'[c] : cameAfter(toGateway'[c][j], p.keyPackage, K)
    BY <1>8
  <2>4. QED
    BY <2>2, <2>3, ZenonT(60) DEF gone, cameAfter, K
<1>12. /\ m \in Message(A) /\ m.type = "proposals"
       /\ m.batch = [op |-> "append", proposal |-> new]
  BY <1>2, MessageOfProposal, ZenonT(60)
<1>13. old # {} =>
         /\ message("revoke", oldP) \in Message(A)
         /\ message("revoke", oldP).type = "proposals"
         /\ message("revoke", oldP).batch = [op |-> "revoke", proposal |-> oldP]
  BY <1>4, MessageOfProposal, ZenonT(60)
<1>14. /\ \A x \in S : x.type = "proposals"
       /\ \A x \in S : x.batch.op = "revoke" => x.batch.proposal \in old
       /\ m \in S
  <2>1. \A x \in S : x = m \/ (old # {} /\ x = message("revoke", oldP))
    BY ZenonT(60)
  <2>2. m \in S
    BY ZenonT(60)
  <2>3. m.batch.op # "revoke"
    BY <1>12
  <2>4. ASSUME NEW x \in S, x # m
        PROVE  x.type = "proposals" /\ x.batch.proposal \in old
    <3>1. /\ x.type = "proposals" /\ oldP \in old
          /\ x.batch = [op |-> "revoke", proposal |-> oldP]
      BY <1>4, <1>13, <2>1, <2>4, ZenonT(60)
    <3>2. QED
      BY <3>1
  <2>5. QED
    BY <1>12, <2>2, <2>3, <2>4, ZenonT(60)
<1>15. ASSUME NEW d \in Client
       PROVE  grown(toClient[d], toClient'[d], S)
  <2> DEFINE msgs == revoked \o <<m>>
             M == Message(A)
  <2>1. toClient[d] \in Seq(M) /\ toClient'[d] = toClient[d] \o msgs
    BY <1>1, ZenonT(60) DEF RaceInv, sendTo
  <2>2. /\ msgs \in Seq(M)
        /\ \A i \in DOMAIN msgs : msgs[i] \in S
        /\ \A x \in S : \E i \in DOMAIN msgs : msgs[i] = x
    <3> DEFINE r == message("revoke", oldP)
    <3> HIDE DEF m
    <3>1. CASE old = {}
      <4>1. msgs = <<>> \o <<m>> /\ S = {m}
        BY <3>1, ZenonT(60)
      <4> HIDE DEF msgs, S
      <4>2. <<>> \in Seq(M) /\ <<m>> \in Seq(M)
        BY <1>12, SeqEmpty DEF m
      <4>3. msgs = <<m>>
        BY <4>1, <4>2, SeqConcatEmpty, ZenonT(60)
      <4>4. QED
        BY <4>1, <4>2, <4>3, SMTT(30)
    <3>2. CASE old # {}
      <4>0. r \in M
        BY <1>13, <3>2, ZenonT(60)
      <4>1. msgs = <<r>> \o <<m>> /\ S = {m, r}
        BY <3>2, ZenonT(60)
      <4>2. m \in M
        BY <1>12, ZenonT(60) DEF m
      <4> HIDE DEF msgs, S, r, M
      <4>3. <<r>> \in Seq(M) /\ <<m>> \in Seq(M) /\ Len(<<r>>) = 1 /\ Len(<<m>>) = 1
        BY <4>0, <4>2, SMTT(30)
      <4>4. msgs \in Seq(M) /\ Len(msgs) = 2 /\ msgs[1] = r /\ msgs[2] = m
        BY <4>1, <4>3, SeqConcat
      <4>5. DOMAIN msgs = {1, 2}
        BY <4>4, SeqLen
      <4>6. QED
        BY <4>1, <4>4, <4>5, ZenonT(60)
    <3>3. QED
      BY <3>1, <3>2, ZenonT(60)
  <2> HIDE DEF msgs, S, M
  <2>3. ASSUME NEW x, x = toClient[d] \o msgs
        PROVE  grown(toClient[d], x, S)
    BY <2>1, <2>2, <2>3, GrownConcat, ZenonT(60)
  <2>4. QED
    BY <2>1, <2>3, ZenonT(60)
<1>16. /\ \A x \in S : ~moves(x)
       /\ \A x \in S : x.type = "proposals" /\ x.batch.op = "revoke" =>
            \A p : p = x.batch.proposal => gone(p)'
  BY <1>11, <1>14, ZenonT(60) DEF moves
<1>17. \A p \in gateway'.proposals \ gateway.proposals :
         /\ message("append", p) \in S
         /\ p.base = gateway.epoch
         /\ \A d \in Client : inGroup(d) => p.who # d
         /\ p.op = "add" /\ p.who \in Client =>
              /\ p.keyPackage \in 1..client[p.who].keyPackage
              /\ \A j \in DOMAIN toGateway'[p.who] :
                   cameAfter(toGateway'[p.who][j], p.keyPackage, client[p.who].keyPackage)
  <2>1. gateway'.proposals \ gateway.proposals \subseteq {new}
    BY <1>5, ZenonT(60)
  <2> HIDE DEF S
  <2>2. QED
    BY <1>2, <1>6, <1>7, <1>8, <1>14, <2>1, ZenonT(60)
<1> HIDE DEF S, old, K, A, m
<1>18. /\ \A d \in Client :
            \/ grown(toClient[d], toClient'[d], S)
            \/ gateway.member[d] = 0 /\ toClient'[d] = toClient[d]
       /\ \A p : gone(p) => p \notin gateway'.proposals
       /\ \A i \in DOMAIN gateway.prepared :
            gateway.prepared[i] = gateway.tid =>
              \E j \in DOMAIN gateway'.prepared : gateway'.prepared[j] = gateway.tid
  BY <1>5, <1>10, <1>15, ZenonT(60)
<1>19. QED
  BY <1>5, <1>16, <1>17, <1>18, GatewaySendsFollow, ZenonT(60)

(* A commit is accepted: every session in the group, or now welcomed to    *)
(* it, is told, and nothing it is told after moves it.                     *)
LEMMA AcceptFollow ==
  ASSUME RaceInv, FollowInv, client' = client,
         \A d \in Client : \E n \in Nat : taken(toGateway[d], toGateway'[d], n),
         NEW commit \in Commit(Epoch), accept(commit)
  PROVE  FollowInv'
<1> DEFINE B == gateway'.announced
<1>1. /\ gateway'.epoch = commit.epoch
      /\ gateway'.proposals = {}
      /\ gateway'.tid = gateway.tid + 1
      /\ gateway'.prepared = Append(gateway.prepared, gateway.tid + 1)
      /\ B = gateway.announced \cup {commit.epoch}
  BY AcceptFacts, ZenonT(60)
<1>2. \A d \in Client :
        \/ \E p \in gateway.proposals :
             /\ p.op = "add" /\ p.who = d
             /\ gateway'.member[d] = p.keyPackage
             /\ toClient'[d] = Append(toClient[d], welcomeTo(commit, p.keyPackage))
        \/ /\ (\A p \in gateway.proposals : p.who # d) =>
                gateway'.member[d] = gateway.member[d]
           /\ toClient'[d] = IF gateway'.member[d] # 0
                             THEN Append(toClient[d], announcement(commit))
                             ELSE toClient[d]
  BY AcceptFacts, ZenonT(60)
<1> HIDE DEF B
<1>3. \E k \in DOMAIN gateway'.prepared : gateway'.prepared[k] = gateway'.tid
  <2>1. gateway.prepared \in Seq(Nat \ {0}) /\ gateway.tid + 1 \in Nat \ {0}
    BY DEF RaceInv, GatewayState
  <2>2. /\ DOMAIN gateway'.prepared = 1..(Len(gateway.prepared) + 1)
        /\ gateway'.prepared[Len(gateway.prepared) + 1] = gateway'.tid
        /\ Len(gateway.prepared) \in Nat
    BY <1>1, <2>1, SeqAppend, SeqLen, SMTT(30)
  <2>3. QED
    BY <2>2
<1>4. ASSUME NEW d \in Client, NEW m, toClient'[d] = Append(toClient[d], m), moves(m),
             epochOf(m) = commit.epoch, m.tid = gateway.tid + 1
      PROVE  grown(toClient[d], toClient'[d], {m}) /\ toFollow(d)'
  <2>1. /\ toClient[d] \in Seq(Message(gateway.announced) \cup {m})
        /\ m \in Message(gateway.announced) \cup {m}
    BY SeqSubset DEF RaceInv
  <2>2. ASSUME NEW x, x = Append(toClient[d], m)
        PROVE  grown(toClient[d], x, {m})
    BY <2>1, <2>2, GrownAppend, ZenonT(60)
  <2>3. grown(toClient[d], toClient'[d], {m})
    BY <1>4, <2>2, ZenonT(60)
  <2>4. PICK i \in DOMAIN toClient'[d] :
          toClient'[d][i] = m /\ \A j \in DOMAIN toClient'[d] : ~(j > i)
    <3>1. /\ Len(toClient[d]) \in Nat
          /\ DOMAIN toClient'[d] = 1..(Len(toClient[d]) + 1)
          /\ toClient'[d][Len(toClient[d]) + 1] = m
      BY <1>4, <2>1, SeqAppend, SeqLen, SMTT(30)
    <3>2. QED
      BY <3>1
  <2>5. /\ moves(toClient'[d][i]) /\ epochOf(toClient'[d][i]) = gateway'.epoch
        /\ toClient'[d][i].tid = gateway'.tid
        /\ \A j \in DOMAIN toClient'[d] : j > i => ~moves(toClient'[d][j])
        /\ \A p \in gateway'.proposals : FALSE
    BY <1>1, <1>4, <2>4, ZenonT(60)
  <2>6. toExecute(d, i)'
    BY <1>3 DEF toExecute
  <2>7. toFollow(d)'
    BY <2>5, <2>6, ZenonT(60) DEF toFollow, moves, epochOf, toExecute
  <2>8. QED
    BY <2>3, <2>7, ZenonT(60)
<1>5. ASSUME NEW d \in Client
      PROVE  \/ /\ toClient'[d] = toClient[d]
                /\ ~inGroup(d)'
             \/ \E m :
                  /\ grown(toClient[d], toClient'[d], {m})
                  /\ moves(m)
                  /\ m.type = "welcome" => m.keyPackage \in 1..client[d].keyPackage
                  /\ inGroup(d)' => memberInv(d)' /\ toFollow(d)'
  <2>1. ASSUME NEW p \in gateway.proposals, p.op = "add", p.who = d,
               gateway'.member[d] = p.keyPackage,
               toClient'[d] = Append(toClient[d], welcomeTo(commit, p.keyPackage))
        PROVE  \E m :
                 /\ grown(toClient[d], toClient'[d], {m})
                 /\ moves(m)
                 /\ m.type = "welcome" => m.keyPackage \in 1..client[d].keyPackage
                 /\ inGroup(d)' => memberInv(d)' /\ toFollow(d)'
    <3> DEFINE m == welcomeTo(commit, p.keyPackage)
    <3>1. /\ moves(m) /\ epochOf(m) = commit.epoch /\ m.tid = gateway.tid + 1
          /\ m.type = "welcome" /\ m.keyPackage = p.keyPackage
      BY DEF moves, epochOf, welcomeTo
    <3>2. toClient'[d] = Append(toClient[d], m)
      BY <2>1
    <3> HIDE DEF m
    <3>3. grown(toClient[d], toClient'[d], {m}) /\ toFollow(d)'
      BY <1>4, <3>1, <3>2, ZenonT(60)
    <3>4. /\ p.keyPackage \in 1..client[d].keyPackage /\ client[d].keyPackage \in Nat
          /\ \A j \in DOMAIN toGateway[d] :
               cameAfter(toGateway[d][j], p.keyPackage, client[d].keyPackage)
      BY <2>1, ZenonT(60) DEF FollowInv, keyPackageInv
    <3>5. ASSUME inGroup(d)'
          PROVE  memberInv(d)'
      <4>1. ~inGroup(d)
        BY <2>1 DEF FollowInv, memberInv
      <4>2. p.keyPackage = client[d].keyPackage
        <5>1. client[d].group = Nil
          BY <4>1, ZenonT(60) DEF inGroup
        <5>2. PICK i \in DOMAIN toClient'[d] :
                /\ toClient'[d][i].type = "welcome"
                /\ toClient'[d][i].keyPackage = client[d].keyPackage
          BY <3>5, <5>1 DEF inGroup
        <5>3. i \notin DOMAIN toClient[d]
          BY <3>3, <4>1, <5>2, ZenonT(60) DEF grown, inGroup
        <5>4. QED
          BY <3>1, <3>3, <5>2, <5>3, ZenonT(60) DEF grown
      <4>3. \A j \in DOMAIN toGateway[d] : toGateway[d][j].type = "commit"
        BY <3>4, <4>2 DEF cameAfter
      <4>4. \A j \in DOMAIN toGateway'[d] : toGateway'[d][j].type = "commit"
        BY <4>3, SMTT(30) DEF taken
      <4>5. QED
        BY <1>1, <2>1, <3>4, <4>4, SMTT(30) DEF memberInv
    <3>6. QED
      BY <3>1, <3>3, <3>4, <3>5, ZenonT(60)
  <2>2. ASSUME (\A p \in gateway.proposals : p.who # d) =>
                 gateway'.member[d] = gateway.member[d],
               toClient'[d] = IF gateway'.member[d] # 0
                              THEN Append(toClient[d], announcement(commit))
                              ELSE toClient[d]
        PROVE  \/ /\ toClient'[d] = toClient[d]
                  /\ ~inGroup(d)'
               \/ \E m :
                    /\ grown(toClient[d], toClient'[d], {m})
                    /\ moves(m)
                    /\ m.type = "welcome" => m.keyPackage \in 1..client[d].keyPackage
                    /\ inGroup(d)' => memberInv(d)' /\ toFollow(d)'
    <3>1. inGroup(d) => gateway'.member[d] # 0
      BY <2>2, SMTT(30) DEF FollowInv, memberInv
    <3>2. CASE gateway'.member[d] = 0
      <4>1. toClient'[d] = toClient[d] /\ ~inGroup(d)
        BY <2>2, <3>1, <3>2, ZenonT(60)
      <4>2. QED
        BY <4>1, ZenonT(60) DEF inGroup
    <3>3. CASE gateway'.member[d] # 0
      <4> DEFINE m == announcement(commit)
      <4>1. /\ moves(m) /\ epochOf(m) = commit.epoch /\ m.tid = gateway.tid + 1
            /\ m.type = "commit"
        BY DEF moves, epochOf, announcement
      <4>2. toClient'[d] = Append(toClient[d], m)
        BY <2>2, <3>3
      <4> HIDE DEF m
      <4>3. grown(toClient[d], toClient'[d], {m}) /\ toFollow(d)'
        BY <1>4, <4>1, <4>2, ZenonT(60)
      <4>4. inGroup(d)' => inGroup(d)
        BY <4>1, <4>3, ZenonT(60) DEF grown, inGroup
      <4>5. ASSUME inGroup(d)
            PROVE  memberInv(d)'
        <5>1. \A j \in DOMAIN toGateway[d] : toGateway[d][j].type = "commit"
          BY <4>5, ZenonT(60) DEF FollowInv, memberInv
        <5>2. \A j \in DOMAIN toGateway'[d] : toGateway'[d][j].type = "commit"
          BY <5>1 DEF taken
        <5>3. QED
          BY <1>1, <3>3, <5>2, ZenonT(60) DEF memberInv
      <4>6. QED
        BY <4>1, <4>3, <4>4, <4>5, ZenonT(60)
    <3>4. QED
      BY <3>2, <3>3, ZenonT(60)
  <2>3. QED
    BY <1>2, <2>1, <2>2, ZenonT(60)
<1>6. \A d \in Client : inGroup(d)' => memberInv(d)' /\ toFollow(d)'
  BY <1>5, ZenonT(60)
<1>7. \A d \in Client : \A i \in DOMAIN toClient'[d] :
        \/ \E j \in DOMAIN toClient[d] : toClient[d][j] = toClient'[d][i]
        \/ /\ toClient'[d][i].type = "welcome" =>
                toClient'[d][i].keyPackage \in 1..client[d].keyPackage
           /\ toClient'[d][i].type # "proposals"
  <2> SUFFICES ASSUME NEW d \in Client, NEW i \in DOMAIN toClient'[d],
                      ~ \E j \in DOMAIN toClient[d] : toClient[d][j] = toClient'[d][i]
               PROVE  /\ toClient'[d][i].type = "welcome" =>
                           toClient'[d][i].keyPackage \in 1..client[d].keyPackage
                      /\ toClient'[d][i].type # "proposals"
    OBVIOUS
  <2>1. PICK m :
          /\ grown(toClient[d], toClient'[d], {m})
          /\ moves(m)
          /\ m.type = "welcome" => m.keyPackage \in 1..client[d].keyPackage
    BY <1>5, ZenonT(60)
  <2>2. toClient'[d][i] = m
    BY <2>1, ZenonT(60) DEF grown
  <2>3. QED
    BY <2>1, <2>2, ZenonT(60) DEF moves
<1>8. /\ \A p \in gateway'.proposals : FALSE
      /\ \A p : p \notin gateway'.proposals
  BY <1>1, ZenonT(60)
<1>9. QED
  BY <1>6, <1>7, <1>8, GatewayStepFollow, ZenonT(60)

LEMMA OtherMemberFollow ==
  ASSUME RaceInv, FollowInv, OtherMemberCommits
  PROVE  FollowInv'
<1> DEFINE commit == [type |-> "commit", epoch |-> Append(gateway.epoch, Other),
                      refs |-> gateway.proposals]
<1>1. Append(gateway.epoch, Other) \in Epoch /\ gateway.proposals \in SUBSET Proposal
  BY DEF RaceInv, GatewayState, Epoch
<1>2. commit \in Commit(Epoch)
  BY <1>1, ZenonT(60) DEF Commit
<1>3. accept(commit) /\ client' = client /\ toGateway' = toGateway
  BY DEF OtherMemberCommits
<1>4. \A d \in Client : \E n \in Nat : taken(toGateway[d], toGateway'[d], n)
  BY <1>3, NothingTaken
<1> HIDE DEF commit
<1>5. QED
  BY <1>2, <1>3, <1>4, AcceptFollow, ZenonT(60)

(* Nothing is sent.                                                        *)
LEMMA NothingSentFollow ==
  ASSUME RaceInv, FollowInv, client' = client, gateway' = gateway, toClient' = toClient,
         \A d \in Client : \E n \in Nat : taken(toGateway[d], toGateway'[d], n)
  PROVE  FollowInv'
<1>1. ASSUME NEW d \in Client
      PROVE  grown(toClient[d], toClient'[d], {})
  <2>1. toClient[d] \in Seq(Message(gateway.announced))
    BY DEF RaceInv
  <2>2. grown(toClient[d], toClient[d], {})
    BY <2>1, GrownNot, ZenonT(60)
  <2>3. QED
    BY <2>2, ZenonT(60)
<1>2. \A p : gone(p) => p \notin gateway'.proposals
  BY DEF gone
<1>3. /\ gateway'.proposals \ gateway.proposals = {}
      /\ gateway'.epoch = gateway.epoch /\ gateway'.tid = gateway.tid
      /\ gateway'.member = gateway.member /\ gateway'.prepared = gateway.prepared
  OBVIOUS
<1> DEFINE S == {}
<1>4. /\ \A m \in S : FALSE
      /\ \A d \in Client : grown(toClient[d], toClient'[d], S)
  BY <1>1
<1> HIDE DEF S
<1>5. QED
  BY <1>2, <1>3, <1>4, GatewaySendsFollow, ZenonT(60)

LEMMA GatewayReceivesFollow ==
  ASSUME RaceInv, FollowInv, NEW c \in Client, GatewayReceives(c)
  PROVE  FollowInv'
<1> DEFINE msg == Head(toGateway[c])
<1>1. /\ toGateway[c] \in Seq(Request) /\ toGateway[c] # <<>>
      /\ client' = client /\ toGateway'[c] = Tail(toGateway[c])
      /\ \A d \in Client \ {c} : toGateway'[d] = toGateway[d] /\ toGateway[d] \in Seq(Request)
  BY DEF RaceInv, GatewayReceives
<1>2. msg \in Request
  BY <1>1, SeqHeadTail
<1>3. /\ msg.type \in {"commit", "invalid", "keyPackage"}
      /\ msg.type = "commit" => msg \in Commit(Epoch)
      /\ msg.type = "keyPackage" => msg.keyPackage \in Nat
  BY <1>2, RequestTypes
<1>4. /\ taken(toGateway[c], toGateway'[c], 1)
      /\ 1 \in DOMAIN toGateway[c] /\ msg = toGateway[c][1]
  <2>1. ASSUME NEW new, new = Tail(toGateway[c])
        PROVE  /\ taken(toGateway[c], new, 1)
               /\ 1 \in DOMAIN toGateway[c] /\ msg = toGateway[c][1]
    BY <1>1, <2>1, TakenTail, ZenonT(60)
  <2>2. QED
    BY <1>1, <2>1, ZenonT(60)
<1>5. \A d \in Client : \E n \in Nat : taken(toGateway[d], toGateway'[d], n)
  <2>1. \A d \in Client \ {c} : taken(toGateway[d], toGateway[d], 0)
    BY <1>1, TakenNot, ZenonT(60)
  <2>2. QED
    BY <1>1, <1>4, <2>1, ZenonT(60)
<1>6. ASSUME gateway' = gateway, toClient' = toClient
      PROVE  FollowInv'
  BY <1>1, <1>5, <1>6, NothingSentFollow, ZenonT(60)
<1> HIDE DEF msg
<1>7. CASE msg.type = "commit"
  <2>1. GatewayReceivesCommit(c, msg)
    BY <1>7, ZenonT(60) DEF GatewayReceives, msg
  <2>2. QED
    BY <1>1, <1>3, <1>5, <1>6, <1>7, <2>1, AcceptFollow, ZenonT(60) DEF GatewayReceivesCommit
<1>8. CASE msg.type = "invalid"
  <2>1. GatewayReceivesInvalid(c)
    BY <1>8, ZenonT(60) DEF GatewayReceives, msg
  <2>2. CASE propose(proposal("remove", c, 0))
    BY <1>1, <1>4, <1>5, <1>8, <2>2, GatewayReceivesInvalidFollow, ZenonT(60)
  <2>3. QED
    BY <1>6, <2>1, <2>2 DEF GatewayReceivesInvalid
<1>9. CASE msg.type = "keyPackage"
  <2>1. GatewayReceivesKeyPackage(c, msg.keyPackage)
    BY <1>9, ZenonT(60) DEF GatewayReceives, msg
  <2>2. QED
    BY <1>1, <1>3, <1>4, <1>5, <1>9, <2>1, GatewayReceivesKeyPackageFollow, ZenonT(60)
<1>10. QED
  BY <1>3, <1>7, <1>8, <1>9, ZenonT(60)

-----------------------------------------------------------------------------
LEMMA FollowInvInit == RaceInit => FollowInv
<1> SUFFICES ASSUME RaceInit
             PROVE  FollowInv
  OBVIOUS
<1>1. /\ gateway.epoch = <<>> /\ gateway.proposals = {}
      /\ \A c \in Client :
           /\ gateway.member[c] = 1
           /\ DOMAIN toClient[c] = {} /\ DOMAIN toGateway[c] = {}
           /\ DOMAIN client[c].proposalQueue = {}
           /\ client[c].keyPackage = 1 /\ client[c].group = groupAt(<<>>)
           /\ client[c].activeEpoch = <<>> /\ client[c].pendingTransitionID = 0
           /\ client[c].pendingCommit = Nil
  BY DEF RaceInit
<1>2. groupAt(<<>>) # Nil /\ groupAt(<<>>).epoch = <<>>
  <2>1. groupAt(<<>>) \in Group /\ groupAt(<<>>).epoch = <<>>
    BY SeqEmpty DEF Group, groupAt, Epoch
  <2>2. QED
    BY <2>1, NilAssumption
<1>3. ASSUME NEW c \in Client
      PROVE  memberInv(c) /\ upToDate(c) /\ keyPackageInv(c) /\ revokeInv(c)
  <2>0. /\ gateway.proposals = {} /\ gateway.member[c] = 1
        /\ DOMAIN toClient[c] = {} /\ DOMAIN toGateway[c] = {}
        /\ DOMAIN client[c].proposalQueue = {} /\ client[c].keyPackage = 1
    BY <1>1, ZenonT(60)
  <2>1. memberInv(c) /\ keyPackageInv(c) /\ revokeInv(c)
    <3>1. memberInv(c)
      BY <2>0 DEF memberInv
    <3>2. keyPackageInv(c)
      BY <2>0 DEF keyPackageInv
    <3>3. revokeInv(c)
      BY <2>0, ZenonT(60) DEF revokeInv
    <3>4. QED
      BY <3>1, <3>2, <3>3, ZenonT(60)
  <2>2. confirmedGroup(client[c]) = groupAt(<<>>)
    BY <1>1, ZenonT(60) DEF confirmedGroup
  <2>3. upToDate(c)
    BY <1>1, <1>2, <2>2, ZenonT(60) DEF upToDate
  <2>4. QED
    BY <2>1, <2>3
<1>4. QED
  BY <1>1, <1>3, ZenonT(60) DEF FollowInv

LEMMA FollowInvNext == RaceInv /\ FollowInv /\ [RaceNext]_raceVars => FollowInv'
<1> SUFFICES ASSUME RaceInv, FollowInv, [RaceNext]_raceVars
             PROVE  FollowInv'
  OBVIOUS
<1>1. ASSUME NEW c \in Client, Receive(c)
      PROVE  FollowInv'
  BY <1>1, ReceiveFollow, ZenonT(60)
<1>2. ASSUME NEW c \in Client, Timeout(c)
      PROVE  FollowInv'
  BY <1>2, TimeoutFollow
<1>3. ASSUME NEW c \in Client, Drain(c)
      PROVE  FollowInv'
  BY <1>3, DrainFollow
<1>4. ASSUME NEW c \in Client, GatewayReceives(c)
      PROVE  FollowInv'
  BY <1>4, GatewayReceivesFollow
<1>5. ASSUME NEW g \in Guest, GatewayProposes(g)
      PROVE  FollowInv'
  BY <1>5, GatewayProposesFollow
<1>6. CASE OtherMemberCommits
  BY <1>6, OtherMemberFollow
<1>7. CASE GatewayExecutes
  BY <1>7, GatewayExecutesFollow, ZenonT(60)
<1>8. CASE UNCHANGED raceVars
  <2>1. /\ client' = client /\ gateway' = gateway
        /\ toClient' = toClient /\ toGateway' = toGateway
    BY <1>8 DEF raceVars
  <2>2. QED
    BY <2>1, NothingTaken, NothingSentFollow
<1>9. QED
  BY <1>1, <1>2, <1>3, <1>4, <1>5, <1>6, <1>7, <1>8, ZenonT(60) DEF RaceNext

LEMMA FollowInvCorrect == RaceSpec => []FollowInv
BY RaceInvCorrect, FollowInvInit, FollowInvNext, PTL DEF RaceSpec

(* For any number of sessions, guests and lost commits: a session that has *)
(* a group and has read everything is in the epoch of the gateway's group, *)
(* with its proposals cached or queued, and once no transition is waiting  *)
(* it sends with that epoch's keys.  A batch that OnDaveMLSProposals queues*)
(* behind a pending epoch is not lost, and a rollback loses nothing.       *)
THEOREM InStepWhenQuietCorrect == RaceSpec => []InStepWhenQuiet
<1>1. FollowInv => InStepWhenQuiet
  <2> SUFFICES ASSUME FollowInv, NEW c \in Client, toClient[c] = <<>>,
                      client[c].group # Nil, ~client[c].draining
               PROVE  LET s == client[c]
                          waiting == IF s.pendingEpoch = Nil THEN {}
                                     ELSE {s.proposalQueue[k].proposal :
                                             k \in DOMAIN s.proposalQueue}
                      IN /\ confirmedGroup(s).epoch = gateway.epoch
                         /\ gateway.proposals \subseteq confirmedGroup(s).cached \cup waiting
                         /\ gateway.prepared = <<>> => s.activeEpoch = gateway.epoch
    BY ZenonT(60) DEF InStepWhenQuiet
  <2> DEFINE s == client[c]
             waiting == IF s.pendingEpoch = Nil THEN {}
                        ELSE {s.proposalQueue[k].proposal : k \in DOMAIN s.proposalQueue}
  <2>1. DOMAIN toClient[c] = {}
    OBVIOUS
  <2>2. ~toFollow(c) /\ \A p : ~toPropose(c, p, 0)
    BY <2>1, ZenonT(60) DEF toFollow, toPropose
  <2>3. upToDate(c)
    BY <2>2, ZenonT(60) DEF FollowInv, inGroup
  <2>4. gateway.prepared = <<>> => ~toExecute(c, 0)
    <3>1. gateway.prepared = <<>> => DOMAIN gateway.prepared = {}
      OBVIOUS
    <3>2. QED
      BY <2>1, <3>1 DEF toExecute
  <2>5. /\ confirmedGroup(s).epoch = gateway.epoch
        /\ gateway.prepared = <<>> => s.activeEpoch = gateway.epoch
        /\ \A p \in gateway.proposals : p \in confirmedGroup(s).cached \/ queued(s, p)
    BY <2>2, <2>3, <2>4, ZenonT(60) DEF upToDate
  <2>6. ASSUME NEW p, queued(s, p)
        PROVE  p \in waiting
    <3>1. s.pendingEpoch # Nil
      BY <2>6, ZenonT(60) DEF queued
    <3>2. PICK k \in DOMAIN s.proposalQueue :
            s.proposalQueue[k] = [op |-> "append", proposal |-> p]
      BY <2>6, ZenonT(60) DEF queued
    <3>3. QED
      BY <3>1, <3>2
  <2> HIDE DEF waiting
  <2>7. gateway.proposals \subseteq confirmedGroup(s).cached \cup waiting
    BY <2>5, <2>6
  <2>8. QED
    BY <2>5, <2>7, ZenonT(60) DEF waiting
<1>2. QED
  BY <1>1, FollowInvCorrect, PTL
=============================================================================
