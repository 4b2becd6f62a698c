----------------------------- MODULE CommitRace -----------------------------
(***************************************************************************)
(* Several sessions in one call: each commits the proposals it receives,   *)
(* the voice gateway picks one commit per epoch, and the others roll back  *)
(* (session/session.go, mls.go).  Session looks at one of them under a     *)
(* gateway that may send anything; here the gateway keeps to protocol.md,  *)
(* messages to and from it arrive in order, and no send fails, so that     *)
(* what the sessions agree on can be stated.                               *)
(*                                                                         *)
(* An epoch is the sequence of the members whose commits led to it from    *)
(* the epoch <<>> in which the group starts, established: a session makes  *)
(* one commit on an epoch, for it leaves the epoch when that one loses.    *)
(* Members that are not ours commit whenever they like.                    *)
(* ready_for_transition is left out: the gateway executes a transition     *)
(* when all are ready or after a timeout, so at any time.                  *)
(***************************************************************************)
EXTENDS Integers, Sequences

CONSTANTS Client,       \* our sessions
          Guest,        \* users the gateway proposes to add, each once
          Nil,
          MaxKeyPackage \* bound: key packages a session makes, one per reset

ASSUME RaceAssumption == MaxKeyPackage \in Nat /\ Client \cap Guest = {}

VARIABLES client,               \* the state of each session
          gateway,              \* the state of the gateway
          toClient, toGateway   \* the connections

raceVars == <<client, gateway, toClient, toGateway>>

Other == "other"        \* some member that is not one of our sessions

Epoch == Seq(Client \cup {Other})

Proposal ==
  [op : {"add", "remove"}, who : Client \cup Guest, keyPackage : Nat, base : Epoch]

Group == [epoch : Epoch, cached : SUBSET Proposal]

ASSUME NilAssumption == Nil \notin Epoch \cup Group

(* A group: its epoch and the proposals cached for it.                     *)
groupAt(e) == [epoch |-> e, cached |-> {}]

(* A commit made on epoch e.                                               *)
madeOn(commit, e) == \E author \in Client \cup {Other} : commit.epoch = Append(e, author)

(* Queues a message, or several, for every client that receives it.        *)
sendTo(receivers, msgs) ==
  [c \in Client |-> IF c \in receivers THEN toClient[c] \o msgs ELSE toClient[c]]

-----------------------------------------------------------------------------
(* A session.  A step takes the state s to another and sends messages.     *)
step(s, out) == [s |-> s, out |-> out]

(* commitProposalsLocked: a commit of what is cached, and its snapshot.    *)
commitProposalsLocked(s) ==
  LET e == Append(s.group.epoch, s.userID)
  IN step([s EXCEPT !.group = groupAt(e), !.pendingEpoch = e, !.pendingCommit = e,
                    !.preCommitGroupState = s.group, !.watch = "commit"],
          <<[type |-> "commit", epoch |-> e, refs |-> s.group.cached]>>)

(* A batch of one proposal: mls-go refuses it outside of its epoch, and a  *)
(* revocation is followed by no commit.                                    *)
processAndCommitProposalBatchLocked(s, batch) ==
  CASE s.group = Nil -> step(s, <<>>)
    [] s.group # Nil /\ batch.op = "revoke" ->
         step([s EXCEPT !.group.cached = @ \ {batch.proposal}], <<>>)
    [] s.group # Nil /\ batch.op = "append" ->
         IF batch.proposal.base # s.group.epoch THEN step(s, <<>>)
         ELSE commitProposalsLocked([s EXCEPT !.group.cached = @ \cup {batch.proposal}])

(* The end of OnDaveExecuteTransition, which forgets the transition.       *)
executed(s) == step([s EXCEPT !.pendingTransitionID = 0, !.draining = FALSE], <<>>)

\* mutant: what was queued behind the epoch stays there.
drainProposalQueueLocked_not(s) == executed(s)

(* A round of the loop, or its end: mu is released while a round sends.    *)
drainProposalQueueLocked(s) ==
  IF s.proposalQueue # <<>> /\ s.pendingEpoch = Nil
  THEN processAndCommitProposalBatchLocked([s EXCEPT !.proposalQueue = Tail(@)],
                                           Head(s.proposalQueue))
  ELSE executed(s)

OnDaveMLSProposals(s, batch) ==
  IF s.pendingEpoch # Nil
  THEN step([s EXCEPT !.proposalQueue = Append(@, batch)], <<>>)
  ELSE processAndCommitProposalBatchLocked(s, batch)

forgetCommit(s) == [s EXCEPT !.pendingCommit = Nil, !.preCommitGroupState = Nil]

(* The rollback, if there is a commit of our own to roll back.             *)
restorePreCommitStateLocked(s) ==
  IF s.pendingCommit = Nil THEN s
  ELSE forgetCommit([s EXCEPT !.group = s.preCommitGroupState, !.pendingEpoch = Nil])

(* invalidateAndResendKeyPackageLocked and the invalid_commit_welcome      *)
(* before it.                                                              *)
invalidate(s) ==
  step([forgetCommit(s) EXCEPT !.group = Nil, !.pendingEpoch = Nil, !.proposalQueue = <<>>,
                               !.keyPackage = @ + 1, !.watch = "recovery"],
       <<[type |-> "invalid"], [type |-> "keyPackage", keyPackage |-> s.keyPackage + 1]>>)

joined(s, e) == [s EXCEPT !.group = groupAt(e), !.pendingEpoch = e]

canProcess(s, commit) ==
  /\ s.group # Nil
  /\ madeOn(commit, s.group.epoch)
  /\ commit.refs \subseteq s.group.cached

(* Our own commit is there already; any other is processed from the state  *)
(* before ours.                                                            *)
OnDaveMLSPrepareCommitTransition(s, tid, commit) ==
  LET prepared == [s EXCEPT !.pendingTransitionID = tid]
      base == restorePreCommitStateLocked(prepared)
  IN IF s.pendingEpoch # Nil /\ s.pendingCommit = commit.epoch
     THEN step(forgetCommit(prepared), <<>>)
     ELSE IF canProcess(base, commit) THEN step(joined(base, commit.epoch), <<>>)
     ELSE invalidate(base)

(* mls-go joins with the private key of the last key package only: every   *)
(* invalidation makes a new client.                                        *)
OnDaveMLSWelcome(s, tid, e, keyPackage) ==
  LET prepared == [s EXCEPT !.pendingTransitionID = tid,
                            !.proposalQueue = IF s.pendingCommit = Nil THEN @ ELSE <<>>]
      base == restorePreCommitStateLocked(prepared)
  IN IF keyPackage = s.keyPackage THEN step(joined(base, e), <<>>)
     ELSE invalidate(base)

(* activatePendingEpochLocked wakes the watchdogs and drains the queue.    *)
activatePendingEpochLocked(s) ==
  IF s.pendingEpoch = Nil THEN executed(s)
  ELSE step([s EXCEPT !.activeEpoch = s.pendingEpoch, !.pendingEpoch = Nil,
                      !.watch = "none", !.draining = TRUE], <<>>)

\* mutant: the transition that was prepared is not looked at.
OnDaveExecuteTransition_any(s, tid) == activatePendingEpochLocked(s)

OnDaveExecuteTransition(s, tid) ==
  IF tid # s.pendingTransitionID THEN step(s, <<>>) ELSE activatePendingEpochLocked(s)

(* The watchdog of a commit, if an epoch is still pending, or of an        *)
(* earlier recovery.                                                       *)
recoverAfterTimeout(s) ==
  IF s.watch = "commit" /\ s.pendingEpoch = Nil
  THEN step([s EXCEPT !.watch = "none"], <<>>)
  ELSE invalidate(s)

(* The step of client c, whose input msgs are left for later.              *)
clientStep(c, result, msgs) ==
  /\ result.s.keyPackage <= MaxKeyPackage
  /\ client' = [client EXCEPT ![c] = result.s]
  /\ toGateway' = [toGateway EXCEPT ![c] = @ \o result.out]
  /\ toClient' = [toClient EXCEPT ![c] = msgs]
  /\ UNCHANGED gateway

(* sendMu keeps the next message, and the watchdog, waiting for the drain. *)
Receive(c) ==
  /\ ~client[c].draining
  /\ toClient[c] # <<>>
  /\ LET msg == Head(toClient[c])
         s == client[c]
     IN clientStep(c,
          CASE msg.type = "proposals" -> OnDaveMLSProposals(s, msg.batch)
            [] msg.type = "commit" ->
                 OnDaveMLSPrepareCommitTransition(s, msg.tid, msg.commit)
            [] msg.type = "welcome" ->
                 OnDaveMLSWelcome(s, msg.tid, msg.epoch, msg.keyPackage)
            [] msg.type = "execute" -> OnDaveExecuteTransition(s, msg.tid),
          Tail(toClient[c]))

Timeout(c) ==
  /\ ~client[c].draining
  /\ client[c].watch # "none"
  /\ clientStep(c, recoverAfterTimeout(client[c]), toClient[c])

Drain(c) ==
  /\ client[c].draining
  /\ clientStep(c, drainProposalQueueLocked(client[c]), toClient[c])

-----------------------------------------------------------------------------
(* The gateway: the epoch of its group, the proposals of that epoch, the   *)
(* key package each of our sessions is in the group with (0: it is not),   *)
(* and the transitions announced and not executed.                         *)
proposal(op, who, keyPackage) ==
  [op |-> op, who |-> who, keyPackage |-> keyPackage, base |-> gateway.epoch]

message(op, p) == [type |-> "proposals", batch |-> [op |-> op, proposal |-> p]]

propose(p) ==
  /\ gateway' = [gateway EXCEPT !.proposals = @ \cup {p}]
  /\ toClient' = sendTo(Client, <<message("append", p)>>)

(* A commit is accepted, announced to the members that remain, and those   *)
(* it adds are welcomed.                                                   *)
accept(commit) ==
  LET added == {p \in gateway.proposals : p.op = "add" /\ p.who \in Client}
      removed == {p.who : p \in {q \in gateway.proposals : q.op = "remove"}}
      tid == gateway.tid + 1
      member == [c \in Client |->
        IF \E p \in added : p.who = c THEN (CHOOSE p \in added : p.who = c).keyPackage
        ELSE IF c \in removed THEN 0 ELSE gateway.member[c]]
      announce == [type |-> "commit", tid |-> tid, commit |-> commit]
      welcome(c) == [type |-> "welcome", tid |-> tid, epoch |-> commit.epoch,
                     keyPackage |-> member[c]]
  IN /\ gateway' = [gateway EXCEPT !.epoch = commit.epoch, !.proposals = {}, !.tid = tid,
                                   !.member = member,
                                   !.announced = @ \cup {commit.epoch},
                                   !.prepared = Append(@, tid)]
     /\ toClient' = [c \in Client |->
          IF \E p \in added : p.who = c THEN Append(toClient[c], welcome(c))
          ELSE IF member[c] # 0 THEN Append(toClient[c], announce) ELSE toClient[c]]

(* "It references all unrevoked proposals broadcast in the epoch", and it  *)
(* is a member's that does not leave.                                      *)
GatewayAccepts(c, commit) ==
  /\ madeOn(commit, gateway.epoch)
  /\ commit.refs = gateway.proposals
  /\ gateway.member[c] # 0
  /\ \A p \in gateway.proposals : ~(p.op = "remove" /\ p.who = c)

GatewayReceivesCommit(c, commit) ==
  IF GatewayAccepts(c, commit) THEN accept(commit) ELSE UNCHANGED <<gateway, toClient>>

(* "The voice gateway broadcasts a proposal to remove the flagging member" *)
GatewayReceivesInvalid(c) ==
  IF gateway.member[c] # 0 THEN propose(proposal("remove", c, 0))
  ELSE UNCHANGED <<gateway, toClient>>

(* "it broadcasts an add proposal", for the last key package only: the one *)
(* proposal there can be for an earlier one is revoked.                    *)
GatewayReceivesKeyPackage(c, keyPackage) ==
  LET old == {p \in gateway.proposals : p.op = "add" /\ p.who = c}
      new == proposal("add", c, keyPackage)
      revoked == IF old = {} THEN <<>> ELSE <<message("revoke", CHOOSE p \in old : TRUE)>>
  IN /\ gateway' = [gateway EXCEPT !.proposals = (@ \ old) \cup {new}]
     /\ toClient' = sendTo(Client, revoked \o <<message("append", new)>>)

GatewayReceives(c) ==
  /\ toGateway[c] # <<>>
  /\ LET msg == Head(toGateway[c])
     IN CASE msg.type = "commit" -> GatewayReceivesCommit(c, msg)
          [] msg.type = "invalid" -> GatewayReceivesInvalid(c)
          [] msg.type = "keyPackage" -> GatewayReceivesKeyPackage(c, msg.keyPackage)
  /\ toGateway' = [toGateway EXCEPT ![c] = Tail(@)]
  /\ UNCHANGED client

GatewayProposes(g) ==
  /\ g \notin gateway.guests
  /\ LET p == proposal("add", g, 0)
     IN /\ gateway' = [gateway EXCEPT !.proposals = @ \cup {p}, !.guests = @ \cup {g}]
        /\ toClient' = sendTo(Client, <<message("append", p)>>)
  /\ UNCHANGED <<client, toGateway>>

(* The commit of a member that is not ours is the first to arrive.         *)
OtherMemberCommits ==
  /\ gateway.proposals # {}
  /\ accept([type |-> "commit", epoch |-> Append(gateway.epoch, Other),
             refs |-> gateway.proposals])
  /\ UNCHANGED <<client, toGateway>>

GatewayExecutes ==
  /\ gateway.prepared # <<>>
  /\ gateway' = [gateway EXCEPT !.prepared = Tail(@)]
  /\ toClient' = sendTo({c \in Client : gateway.member[c] # 0},
                        <<[type |-> "execute", tid |-> Head(gateway.prepared)]>>)
  /\ UNCHANGED <<client, toGateway>>

-----------------------------------------------------------------------------
RaceInit ==
  /\ client = [c \in Client |->
       [userID |-> c, group |-> groupAt(<<>>), activeEpoch |-> <<>>, pendingEpoch |-> Nil,
        pendingCommit |-> Nil, preCommitGroupState |-> Nil, proposalQueue |-> <<>>,
        pendingTransitionID |-> 0, keyPackage |-> 1, watch |-> "none",
        draining |-> FALSE]]
  /\ gateway = [epoch |-> <<>>, proposals |-> {}, member |-> [c \in Client |-> 1], tid |-> 0,
                prepared |-> <<>>, announced |-> {<<>>}, guests |-> {}]
  /\ toClient = [c \in Client |-> <<>>]
  /\ toGateway = [c \in Client |-> <<>>]

RaceNext ==
  \/ \E c \in Client : Receive(c) \/ Timeout(c) \/ Drain(c) \/ GatewayReceives(c)
  \/ \E g \in Guest : GatewayProposes(g)
  \/ OtherMemberCommits
  \/ GatewayExecutes

RaceSpec == RaceInit /\ [][RaceNext]_raceVars

-----------------------------------------------------------------------------
(* The state a session would return to if its own commit lost.             *)
confirmedGroup(s) == IF s.pendingCommit = Nil THEN s.group ELSE s.preCommitGroupState

(* No session leaves the history the gateway announced: what it encrypts   *)
(* with, what it is about to, and what it builds its commits on are epochs *)
(* every other member has too, whichever commits lost on the way.          *)
OneHistory ==
  \A c \in Client :
    LET s == client[c]
    IN /\ s.activeEpoch \in gateway.announced
       /\ s.pendingEpoch \in gateway.announced \cup {s.pendingCommit, Nil}
       /\ confirmedGroup(s) # Nil => confirmedGroup(s).epoch \in gateway.announced

(* A session that has a group and has read all its messages is in the      *)
(* gateway's epoch, with every proposal of it cached, or queued if an      *)
(* epoch is pending, and once the transition is executed it sends with its *)
(* keys.                                                                   *)
InStepWhenQuiet ==
  \A c \in Client :
    LET s == client[c]
        queued == IF s.pendingEpoch = Nil THEN {}
                  ELSE {s.proposalQueue[k].proposal : k \in DOMAIN s.proposalQueue}
    IN toClient[c] = <<>> /\ s.group # Nil /\ ~s.draining =>
         /\ confirmedGroup(s).epoch = gateway.epoch
         /\ gateway.proposals \subseteq confirmedGroup(s).cached \cup queued
         /\ gateway.prepared = <<>> => s.activeEpoch = gateway.epoch

(* "All clients must process any valid proposals they receive": a commit   *)
(* the gateway announces to a session in its group references proposals    *)
(* the session was sent before, so the session can process it.             *)
ValidCommitProcessed ==
  \A c \in Client :
    LET msg == Head(toClient[c])
        s == client[c]
    IN toClient[c] # <<>> /\ ~s.draining =>
         (msg.type = "commit" /\ s.group # Nil =>
           \/ s.pendingCommit = msg.commit.epoch
           \/ canProcess(restorePreCommitStateLocked(s), msg.commit))
=============================================================================
