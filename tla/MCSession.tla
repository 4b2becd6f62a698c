----------------------------- MODULE MCSession ------------------------------
EXTENDS Session

MCKey == 1 .. MaxSecret
payload(op, add, remove, broken) ==
  [op |-> op, add |-> add, remove |-> remove, broken |-> broken]

MCPayload == {payload("append", {add}, {}, FALSE) : add \in Peer}
       \cup {payload("append", {}, {remove}, FALSE) : remove \in Peer}

AllPayload == MCPayload \cup {payload(op, {add}, {}, broken) :
                op \in {"append", "revoke", "unknown"}, add \in Peer, broken \in BOOLEAN}
              \cup {payload("append", {}, {Self}, FALSE)}

AddPayload == {payload("append", {add}, {}, FALSE) : add \in Peer}

(* A call in an E2EE channel: the channel and its users are known, and     *)
(* select_protocol_ack has just announced version 1.                       *)
Connected ==
  /\ SendInit
  /\ sending = "resetKpSend"
  /\ protocolVersion = 1 /\ sendProtocolVersion = 1
  /\ transportOnly = FALSE /\ plaintextRejected = FALSE
  /\ users = Peer /\ channelID = TRUE /\ externalSenderPackage = FALSE
  /\ pendingTransitionID = 0
  /\ activeEpoch = Nil /\ pendingEpoch = Nil
  /\ mlsClient = TRUE /\ pendingKeyPackage = FALSE
  /\ group = Nil /\ pendingGroupID = FALSE /\ minted = 0
  /\ pendingCommitBytes = FALSE /\ preCommitGroupState = Nil
  /\ proposalQueue = <<>>
  /\ epochReady = FALSE /\ recoveryAttempts = 0 /\ degraded = FALSE
  /\ shutdown = FALSE
  /\ watchdogs = [w \in Watchdog \cup Waiter |-> idleWatchdog]
  /\ built = {}

ConnectedSpec == Connected /\ [][Next]_allVars
PromptSpec == ConnectedSpec /\ Fairness
=============================================================================
