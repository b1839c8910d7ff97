------------------------------- MODULE Wallet -------------------------------
(***************************************************************************)
(* The wallet's transactions.  A Cosmos account has one sequence number,   *)
(* so every broadcast of the process goes through one chain of promises    *)
(* (broadcastSerialized): payments, reports and fee-granted session starts *)
(* alike.  A broadcast signs with the number its endpoint shows, is        *)
(* repeated for some errors, possibly on the next endpoint, and settles.   *)
(*                                                                         *)
(*   line    the promise chain: requests not yet settled, oldest first     *)
(*   tx      the calls of signAndBroadcastRetry and broadcastWithFeeGrant  *)
(*   ledger  the wallet's transactions on the chain, in order              *)
(*   rpc     _activeRpcIdx, the endpoint of the next client                *)
(*                                                                         *)
(* The managed client itself is left out: only forceReconnect reads it,    *)
(* and drops it first.  Delays between retries are left out.               *)
(***************************************************************************)
EXTENDS Integers, Sequences

CONSTANTS
  Txs,         \* broadcasts ever requested, one transaction each
  Granted,     \* those paid by a fee grant
  Rpcs,        \* number of endpoints in RPC_LIST
  Down,        \* endpoints no client can be created for
  Dead,        \* endpoints that accept a client and answer no query
  MaxRetries,  \* maxRetries (3; 2 for reports)
  Faults       \* what may go wrong beyond dead endpoints and refusals

Endpoints == 0..(Rpcs - 1)

\* lag:    an endpoint signs with a number it has not updated yet
\* lost:   a transaction lands but its broadcast ends in an error
ASSUME WalletAssumption ==
  /\ Rpcs \in Nat \ {0} /\ MaxRetries \in Nat
  /\ Granted \subseteq Txs
  /\ Down \subseteq Endpoints /\ Dead \subseteq Endpoints /\ Down # Endpoints
  /\ Faults \subseteq {"lag", "lost"}

VARIABLES line, tx, ledger, rpc
wallet == <<line, tx, ledger, rpc>>

Tx == [pc : {"idle", "queued", "signed", "retry", "done", "failed"},
       tries : 0..MaxRetries, at : Endpoints, seq : Nat,
       err : {"none", "mismatch", "query", "refused", "lost"}]

WalletTypeOK ==
  /\ line \in Seq(Txs)
  /\ tx \in [Txs -> Tx]
  /\ ledger \in Seq([tx : Txs, ok : BOOLEAN])
  /\ rpc \in Endpoints

WalletInit ==
  /\ line = <<>> /\ ledger = <<>> /\ rpc = 0
  /\ tx = [t \in Txs |-> [pc |-> "idle", tries |-> 0, at |-> 0, seq |-> 0, err |-> "none"]]

---------------------------------------------------------------------------
(* Endpoints. *)

\* createFreshClient: the first endpoint from i on that takes a client.
FirstUp(i) ==
  LET step == CHOOSE k \in Endpoints :
                /\ (i + k) % Rpcs \notin Down
                /\ \A j \in 0..(k - 1) : (i + j) % Rpcs \in Down
  IN (i + step) % Rpcs

\* forceReconnect moves on by one before it looks.
NextRpc(i) == FirstUp((i + 1) % Rpcs)

\* A caller makes itself a client, outside the chain of broadcasts.
CreateClient == rpc' = FirstUp(rpc) /\ UNCHANGED <<line, tx, ledger>>

---------------------------------------------------------------------------
(* One broadcast. *)

\* A call joins the chain in the moment it is made, with the client it was given.
Request(t, at) ==
  /\ tx[t].pc = "idle"
  /\ tx' = [tx EXCEPT ![t] = [@ EXCEPT !.pc = "queued", !.at = at]]
  /\ line' = Append(line, t)
  /\ UNCHANGED <<ledger, rpc>>

\* Mutant: fee-granted broadcasts take a mutex of their own.
Turn_OwnMutex(t) ==
  line # <<>> /\ (Head(line) = t \/ (t \in Granted /\ \E i \in DOMAIN line : line[i] = t))

Turn(t) == line # <<>> /\ Head(line) = t

\* signAndBroadcast fetches the account's sequence number and signs with it.
Numbers == {Len(ledger)} \cup (IF "lag" \in Faults /\ ledger # <<>> THEN {Len(ledger) - 1} ELSE {})

Sign(t) ==
  /\ Turn(t) /\ tx[t].pc \in {"queued", "retry"}
  /\ \E n \in Numbers :
       tx' = [tx EXCEPT ![t] = [@ EXCEPT !.pc = "signed", !.seq = n]]
  /\ UNCHANGED <<line, ledger, rpc>>

\* Mutant: a failed broadcast leaves the chain rejected.
Settle_Poisons(t, pc, err) ==
  /\ tx' = [tx EXCEPT ![t] = [@ EXCEPT !.pc = pc, !.err = err]]
  /\ line' = IF pc = "failed" THEN line ELSE Tail(line)
  /\ UNCHANGED rpc

Settle(t, pc, err) ==
  /\ tx' = [tx EXCEPT ![t] = [@ EXCEPT !.pc = pc, !.err = err]]
  /\ line' = Tail(line)
  /\ UNCHANGED rpc

\* Which errors are worth another attempt, and which of those a new endpoint.
Retryable(t, err) == err = "mismatch" \/ (err = "query" /\ t \notin Granted)
Reconnects(t, err) == err = "query" \/ t \in Granted

Again(t, err) ==
  LET next == IF Reconnects(t, err) THEN NextRpc(rpc) ELSE tx[t].at IN
  /\ tx' = [tx EXCEPT ![t] = [pc |-> "retry", tries |-> @.tries + 1, at |-> next,
                              seq |-> @.seq, err |-> err]]
  /\ rpc' = IF Reconnects(t, err) THEN next ELSE rpc
  /\ UNCHANGED line

Errs(t, err) ==
  IF tx[t].tries < MaxRetries /\ Retryable(t, err)
  THEN Again(t, err)
  ELSE Settle(t, "failed", err)

Answers(t) == tx[t].pc = "signed" /\ Turn(t) /\ tx[t].at \notin Dead
Fits(t) == tx[t].seq = Len(ledger)
Enters(t, ok) == ledger' = Append(ledger, [tx |-> t, ok |-> ok])

\* The transaction is included and its result comes back.
Land(t) == Answers(t) /\ Fits(t) /\ Enters(t, TRUE) /\ Settle(t, "done", "none")

\* It is included, but the wait for its inclusion ends in an error.
LandUnseen(t) ==
  /\ "lost" \in Faults
  /\ Answers(t) /\ Fits(t) /\ Enters(t, TRUE) /\ Errs(t, "lost")

\* It is refused when checked, or included with a code other than zero.
Refuse(t) ==
  /\ Answers(t) /\ Fits(t)
  /\ UNCHANGED ledger \/ Enters(t, FALSE)
  /\ Errs(t, "refused")

\* "account sequence mismatch": the number signed with is not the next one.
Mismatch(t) == Answers(t) /\ ~Fits(t) /\ Errs(t, "mismatch") /\ UNCHANGED ledger

\* "Query failed": the endpoint answers nothing.
QueryFails(t) ==
  /\ Turn(t) /\ tx[t].pc = "signed" /\ tx[t].at \in Dead
  /\ Errs(t, "query") /\ UNCHANGED ledger

Broadcast(t) ==
  Sign(t) \/ Land(t) \/ LandUnseen(t) \/ Refuse(t) \/ Mismatch(t) \/ QueryFails(t)

---------------------------------------------------------------------------
(* Properties. *)

Settled(t) == tx[t].pc \in {"done", "failed"}
Times(t) == {i \in 1..Len(ledger) : ledger[i].tx = t}

\* The promise chain of broadcastSerialized: while a signed transaction of this
\* wallet awaits its verdict no other one of this wallet may land, or its number is taken.
SignatureHolds ==
  [][\A t \in Txs : tx[t].pc = "signed" /\ tx'[t].pc = "signed" => ledger' = ledger]_wallet

\* The retries of signAndBroadcastRetry never make a transaction land twice, also
\* when a landed one was reported as failed.
LandsOnce == \A t \in Txs : \A i, j \in Times(t) : i = j

\* A dead endpoint never sinks a broadcast: by rotating, a retried one reaches
\* an endpoint that answers before its attempts run out.
ReachesLive ==
  \A t \in Txs \ Granted : tx[t].pc = "failed" => tx[t].err # "query"

\* What the chain of broadcasts promises those who call it, in one formula.
BroadcastsHold == []LandsOnce /\ SignatureHolds

\* One failed broadcast does not poison the chain: every request settles.
EveryoneServed == \A t \in Txs : (tx[t].pc = "queued") ~> Settled(t)
=============================================================================
