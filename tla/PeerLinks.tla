------------------------------- MODULE PeerLinks -------------------------------
(***************************************************************************)
(* The WebRTC connections two pods keep to each other: the connection      *)
(* manager of each pod has one entry for the other pod, one pending        *)
(* promise, and a timer for every peer it created that has not settled.    *)
(*                                                                         *)
(* The peer object is simple-peer's: an initiator offers, a responder      *)
(* answers the offer it was given, and two peers connect when each holds   *)
(* the description of the other.  Offers and answers travel through the    *)
(* orchestrator, in order.  Candidates are left out: to the peer they are  *)
(* meant for they belong to its description.                               *)
(*                                                                         *)
(* The close event a destroyed peer still raises finds another entry, or   *)
(* none, and does nothing.                                                 *)
(***************************************************************************)
EXTENDS Integers, FiniteSets, Sequences

CONSTANTS Low, High,     (* the pods, in the order of their ids             *)
          Calls,         (* calls of connect()                              *)
          MaxRetries,    (* MAX_CONNECT_RETRIES                             *)
          MaxPeers,      (* bound: peers that matter at the same time       *)
          MaxFaults      (* bound: lost messages, lost links, disconnects   *)

ASSUME LinkAssumption ==
  /\ Low # High
  /\ MaxRetries \in Nat /\ MaxPeers \in Nat /\ MaxFaults \in Nat

VARIABLES
  peer,              (* every peer                                          *)
  entry,             (* connections: the entry for the other pod, or 0      *)
  pending,           (* pendingConnections: the peer whose promise it is    *)
  timers,            (* peers whose connection timer runs                   *)
  call,              (* connect() calls                                     *)
  wire,              (* signalling messages under way to each pod           *)
  faults             (* bound                                               *)

vars == <<peer, entry, pending, timers, call, wire, faults>>

Pods == {Low, High}
Other(p) == IF p = Low THEN High ELSE Low
Peers == 1 .. MaxPeers

(* closed: destroyed, failed, closed or not created yet.                   *)
(* remote is the peer whose description it was given.                      *)
Peer == [pod : Pods, state : {"connecting", "connected", "closed"},
         initiator : BOOLEAN, signalled : BOOLEAN, remote : Peers \cup {0}]
Call == [pc : {"idle", "waiting", "pausing", "resolved", "failed"}, pod : Pods,
         attempt : 0 .. MaxRetries, peer : Peers \cup {0}]
Message == [type : {"offer", "answer"}, from : Peers]

Unused == [pod |-> Low, state |-> "closed", initiator |-> FALSE, signalled |-> FALSE, remote |-> 0]

Init ==
  /\ peer = [x \in Peers |-> Unused]
  /\ entry = [p \in Pods |-> 0]
  /\ pending = [p \in Pods |-> 0]
  /\ timers = {}
  /\ call = [c \in Calls |-> [pc |-> "idle", pod |-> Low, attempt |-> 0, peer |-> 0]]
  /\ wire = [p \in Pods |-> <<>>]
  /\ faults = 0

State(x) == peer[x].state
Live(x) == State(x) \in {"connecting", "connected"}

(* The entry of p, or its pending promise, as a set of peers. *)
Entry(p)   == {entry[p]} \ {0}
Pending(p) == {pending[p]} \ {0}

Connected(p) == \E x \in Entry(p) : State(x) = "connected"

(* Calls whose promise is that of a peer in S. *)
Waiting(S) == {c \in Calls : call[c].pc = "waiting" /\ call[c].peer \in S}

-----------------------------------------------------------------------------
(* createPeer and destroyPeer *)

(* The peers afterwards: those in gone are closed, x (if any) is new. *)
PeersWith(gone, x, new) ==
  [y \in Peers |-> IF y = x THEN new
                   ELSE IF y \in gone THEN [peer[y] EXCEPT !.state = "closed"] ELSE peer[y]]

(* Promises are rejected: their calls throw ("was destroyed" and errors of *)
(* the peer are not retried).                                              *)
Reject(S) ==
  call' = [c \in Calls |-> IF c \in Waiting(S) THEN [call[c] EXCEPT !.pc = "failed"] ELSE call[c]]

(* Mutant: the promise is forgotten with its timer. *)
DestroyQuietly(p) ==
  /\ peer' = PeersWith(Entry(p), 0, Unused)
  /\ entry' = [entry EXCEPT ![p] = 0]
  /\ pending' = [pending EXCEPT ![p] = 0]
  /\ timers' = timers \ Pending(p)
  /\ UNCHANGED call

(* destroyPeer: the entry's peer is destroyed, the pending promise         *)
(* rejected and its timer cleared.                                         *)
Destroy(p) ==
  /\ peer' = PeersWith(Entry(p), 0, Unused)
  /\ entry' = [entry EXCEPT ![p] = 0]
  /\ pending' = [pending EXCEPT ![p] = 0]
  /\ timers' = timers \ Pending(p)
  /\ Reject(Pending(p))

(* Nothing refers to the peer: the number stands for a new one. *)
Free(x) ==
  /\ ~ Live(x) /\ x \notin timers /\ \A p \in Pods : pending[p] # x
  /\ \A p \in Pods : \A i \in DOMAIN wire[p] : wire[p][i].from # x
  /\ \A y \in Peers : Live(y) => peer[y].remote # x

(* Mutant: the peer is not destroyed before it is replaced. *)
CreateOver(p, x, new, gone, cleared) ==
  /\ Free(x) /\ \A y \in Peers : y < x => ~ Free(y)
  /\ peer' = PeersWith({}, x, new)
  /\ entry' = [entry EXCEPT ![p] = x]
  /\ pending' = [pending EXCEPT ![p] = x]
  /\ timers' = (timers \ cleared) \cup {x}

(* createPeer, after destroyPeer has closed the peers in gone and cleared  *)
(* the promises in cleared.  A promise that is pending otherwise is        *)
(* overwritten, its timer runs on.                                         *)
Create(p, x, new, gone, cleared) ==
  /\ Free(x) /\ \A y \in Peers : y < x => ~ Free(y)
  /\ peer' = PeersWith(gone, x, new)
  /\ entry' = [entry EXCEPT ![p] = x]
  /\ pending' = [pending EXCEPT ![p] = x]
  /\ timers' = (timers \ cleared) \cup {x}

Initiator(p) == [Unused EXCEPT !.pod = p, !.state = "connecting", !.initiator = TRUE]
Responder(p) == [Unused EXCEPT !.pod = p, !.state = "connecting"]

-----------------------------------------------------------------------------
(* connect() *)

(* Mutant: a connection that is being made counts as one. *)
ConnectToAny(c, p) ==
  /\ call[c].pc = "idle" /\ Entry(p) # {}
  /\ call' = [call EXCEPT ![c] = [@ EXCEPT !.pc = "resolved", !.pod = p]]
  /\ UNCHANGED <<peer, entry, pending, timers, wire, faults>>

ConnectAtOnce(c, p) ==
  /\ call[c].pc = "idle" /\ Connected(p)
  /\ call' = [call EXCEPT ![c] = [@ EXCEPT !.pc = "resolved", !.pod = p]]
  /\ UNCHANGED <<peer, entry, pending, timers, wire, faults>>

(* An entry that is not connected is destroyed, be it that of another call *)
(* or the answer to an offer.                                              *)
Connect(c, p, x) ==
  LET cleared == IF Entry(p) = {} THEN {} ELSE Pending(p) IN
  /\ call[c].pc = "idle" /\ ~ Connected(p)
  /\ Create(p, x, Initiator(p), Entry(p), cleared)
  /\ call' = [d \in Calls |->
                IF d = c THEN [pc |-> "waiting", pod |-> p, attempt |-> 0, peer |-> x]
                ELSE IF d \in Waiting(cleared) THEN [call[d] EXCEPT !.pc = "failed"]
                ELSE call[d]]
  /\ UNCHANGED <<wire, faults>>

(* The next attempt, after the pause. *)
Retry(c, x) ==
  LET p == call[c].pod IN
  /\ call[c].pc = "pausing"
  /\ Create(p, x, Initiator(p), Entry(p), Pending(p))
  /\ call' = [d \in Calls |->
                IF d = c THEN [call[c] EXCEPT !.pc = "waiting", !.attempt = @ + 1, !.peer = x]
                ELSE IF d \in Waiting(Pending(p)) THEN [call[d] EXCEPT !.pc = "failed"]
                ELSE call[d]]
  /\ UNCHANGED <<wire, faults>>

(* The last attempt's error is thrown. *)
MayRetry(c) == call[c].attempt < MaxRetries

(* The timer of x acts on whatever is the pod's entry now.  If the promise *)
(* of x is the pending one, destroyPeer has rejected it before the timer's *)
(* own error, which alone is retried.                                      *)
TimerFires(x) ==
  LET p == peer[x].pod
      timedOut == Waiting({x} \ Pending(p))
  IN
  /\ x \in timers /\ State(x) # "connected"
  /\ timers' = timers \ ({x} \cup Pending(p))
  /\ peer' = PeersWith(Entry(p) \cup {x}, 0, Unused)
  /\ entry' = [entry EXCEPT ![p] = 0]
  /\ pending' = [pending EXCEPT ![p] = 0]
  /\ call' = [c \in Calls |->
                IF c \in timedOut /\ MayRetry(c)
                THEN [call[c] EXCEPT !.pc = "pausing"]
                ELSE IF c \in timedOut \cup Waiting(Pending(p))
                THEN [call[c] EXCEPT !.pc = "failed"]
                ELSE call[c]]
  /\ UNCHANGED <<wire, faults>>

(* disconnect, and peer-gone of a pod that has an entry. *)
Disconnect(p) ==
  /\ faults < MaxFaults /\ faults' = faults + 1
  /\ Destroy(p)
  /\ UNCHANGED wire

-----------------------------------------------------------------------------
(* Signalling *)

(* A peer emits its offer, or its answer to the offer it was given. *)
Signal(x) ==
  /\ State(x) = "connecting" /\ ~ peer[x].signalled
  /\ peer[x].initiator \/ peer[x].remote # 0
  /\ peer' = [peer EXCEPT ![x].signalled = TRUE]
  /\ wire' = [wire EXCEPT ![Other(peer[x].pod)] =
                Append(@, [type |-> IF peer[x].initiator THEN "offer" ELSE "answer", from |-> x])]
  /\ UNCHANGED <<entry, pending, timers, call, faults>>

Take(p) ==
  /\ wire[p] # <<>>
  /\ wire' = [wire EXCEPT ![p] = Tail(@)]

Lose(p) ==
  /\ faults < MaxFaults /\ faults' = faults + 1
  /\ Take(p)
  /\ UNCHANGED <<peer, entry, pending, timers, call>>

(* A peer is given a description: an initiator that has offered waits for  *)
(* an answer and takes any.                                                *)
Accepts(x, type) ==
  /\ type = "answer" /\ peer[x].initiator /\ peer[x].signalled
  /\ State(x) = "connecting" /\ peer[x].remote = 0

(* Mutant: an offer replaces every peer. *)
RenegotiatesAlways(p, m) == m.type = "offer" /\ \E x \in Entry(p) : TRUE

(* An offer meets a peer that is not connected, and this pod yields: it is *)
(* the higher one, or its own peer is a responder.                         *)
Renegotiates(p, m) ==
  m.type = "offer" /\ \E x \in Entry(p) : State(x) # "connected"

(* The lower pod keeps its own attempt. *)
Ignores(p, m) ==
  /\ Renegotiates(p, m) /\ p = Low
  /\ \E x \in Entry(p) : peer[x].initiator

HandleIgnored(p) ==
  /\ Take(p) /\ Ignores(p, Head(wire[p]))
  /\ UNCHANGED <<peer, entry, pending, timers, call, faults>>

(* No entry, or one that yields: a new responder is given the message.  A  *)
(* stray answer makes one too, and is an error to it (raised later).       *)
HandleAsResponder(p, x) ==
  LET m == Head(wire[p])
      yields == Renegotiates(p, m)
      cleared == IF yields THEN Pending(p) ELSE {}
  IN
  /\ Take(p) /\ ~ Ignores(p, m)
  /\ yields \/ Entry(p) = {}
  /\ Create(p, x, IF m.type = "offer" THEN [Responder(p) EXCEPT !.remote = m.from]
                  ELSE Responder(p), Entry(p), cleared)
  /\ Reject(cleared)
  /\ UNCHANGED faults

(* The peer takes the message, or fails; a connected one may answer a new  *)
(* offer.                                                                  *)
HandleByPeer(p) ==
  LET m == Head(wire[p])
      x == entry[p]
  IN
  /\ wire[p] # <<>> /\ ~ Renegotiates(p, m) /\ Entry(p) # {}
  /\ \/ /\ Accepts(x, m.type) /\ Take(p)
        /\ peer' = [peer EXCEPT ![x].remote = m.from]
        /\ UNCHANGED <<entry, pending, timers, call>>
     \/ /\ ~ Accepts(x, m.type) /\ Take(p)
        /\ Destroy(p)
     \/ /\ m.type = "offer"
        /\ wire' = [wire EXCEPT ![p] = Tail(@),
                                ![Other(p)] = Append(@, [type |-> "answer", from |-> x])]
        /\ UNCHANGED <<peer, entry, pending, timers, call>>
  /\ UNCHANGED faults

-----------------------------------------------------------------------------
(* Events of peers *)

(* Each holds the description of the other. *)
Paired(x, y) == Live(x) /\ Live(y) /\ peer[x].remote = y /\ peer[y].remote = x

PeerConnects(x) ==
  LET p == peer[x].pod IN
  /\ State(x) = "connecting" /\ \E y \in Peers : Paired(x, y)
  /\ peer' = [peer EXCEPT ![x].state = "connected"]
  /\ timers' = timers \ Pending(p)
  /\ pending' = [pending EXCEPT ![p] = 0]
  /\ call' = [c \in Calls |-> IF c \in Waiting(Pending(p))
                              THEN [call[c] EXCEPT !.pc = "resolved"] ELSE call[c]]
  /\ UNCHANGED <<entry, wire, faults>>

(* The other end is gone, or the network fails. *)
LinkFails(x) ==
  /\ Live(x)
  /\ \/ \E y \in Peers : peer[x].remote = y /\ State(y) = "closed"
        /\ UNCHANGED faults
     \/ faults < MaxFaults /\ faults' = faults + 1

(* 'error', also of a responder that was given an answer: the promise is   *)
(* rejected and the entry destroyed.                                       *)
PeerErrs(x) ==
  /\ \/ LinkFails(x)
     \/ /\ State(x) = "connecting" /\ ~ peer[x].initiator /\ peer[x].remote = 0
        /\ UNCHANGED faults
  /\ entry[peer[x].pod] = x
  /\ Destroy(peer[x].pod)
  /\ UNCHANGED wire

(* 'close' without an error, of a peer whose channel was open: the entry   *)
(* goes; promise and timer stay if the peer had not raised 'connect' yet.  *)
PeerCloses(x) ==
  /\ LinkFails(x) /\ \E y \in Peers : peer[x].remote = y /\ peer[y].remote = x
  /\ peer' = [peer EXCEPT ![x].state = "closed"]
  /\ entry' = [p \in Pods |-> IF entry[p] = x THEN 0 ELSE entry[p]]
  /\ UNCHANGED <<pending, timers, call, wire>>

-----------------------------------------------------------------------------
ConnectStep(c) == \E x \in Peers : Retry(c, x) \/ \E p \in Pods : Connect(c, p, x)

Handle(p) ==
  \/ HandleIgnored(p) \/ HandleByPeer(p)
  \/ \E x \in Peers : HandleAsResponder(p, x)

Next ==
  \/ \E c \in Calls : ConnectStep(c) \/ \E p \in Pods : ConnectAtOnce(c, p)
  \/ \E p \in Pods : Handle(p) \/ Lose(p) \/ Disconnect(p)
  \/ \E x \in Peers : \/ TimerFires(x) \/ Signal(x) \/ PeerConnects(x)
                      \/ PeerErrs(x) \/ PeerCloses(x)

Spec == Init /\ [][Next]_vars

(* Timers run out, a pause ends; nothing is asked of the network. *)
Fairness ==
  /\ \A x \in Peers : WF_vars(TimerFires(x))
  /\ \A c \in Calls : WF_vars(\E x \in Peers : Retry(c, x))

FairSpec == Spec /\ Fairness

-----------------------------------------------------------------------------
TypeOK ==
  /\ peer \in [Peers -> Peer]
  /\ entry \in [Pods -> Peers \cup {0}]
  /\ pending \in [Pods -> Peers \cup {0}]
  /\ timers \in SUBSET Peers
  /\ call \in [Calls -> Call]
  /\ wire \in [Pods -> Seq(Message)]
  /\ faults \in 0 .. MaxFaults

(* No peer leaks: whatever offers, calls, errors and timers do to the      *)
(* entry, a peer that is alive is its pod's entry (so each pod has one at  *)
(* most, and somebody can close it).                                       *)
LivePeersAreMapped ==
  \A x \in Peers : Live(x) => entry[peer[x].pod] = x

(* Nobody hangs: a peer that is still connecting and a call that waits     *)
(* have a timer running, though one pending promise per pod is remembered  *)
(* and closing peers leave theirs behind.                                  *)
UnsettledHasTimer ==
  /\ \A x \in Peers : State(x) = "connecting" => x \in timers
  /\ \A c \in Calls : call[c].pc = "waiting" => call[c].peer \in timers

PeersSafe == TypeOK /\ LivePeersAreMapped /\ UnsettledHasTimer

(* connect() resolves with a connection that works: a promise is settled   *)
(* by whichever peer connects, and it is never the promise of a call to    *)
(* another pod, or of a peer that has been replaced meanwhile.             *)
ResolvedIsConnected ==
  [][\A c \in Calls :
       call[c].pc # "resolved" =>
         (call[c].pc = "resolved" => Connected(call[c].pod))']_vars

(* A connection that works is not torn down by offers, answers to others   *)
(* or further calls: only by disconnect, a failure of its own, a message   *)
(* its peer cannot take, or what a peer that closed while it connected     *)
(* leaves behind (its timer, or the retry after it).                       *)
ConnectedIsKept ==
  [][\A p \in Pods :
       Connected(p) /\ entry'[p] # entry[p] =>
         \/ Disconnect(p) \/ PeerErrs(entry[p]) \/ PeerCloses(entry[p]) \/ HandleByPeer(p)
         \/ \E x \in Peers \ Entry(p) : State(x) = "closed" /\ TimerFires(x)
         \/ \E c \in Calls, x \in Peers : Retry(c, x)]_vars

(* Every connect() settles. *)
CallsSettle ==
  \A c \in Calls : call[c].pc = "waiting" ~> call[c].pc \in {"resolved", "failed"}

(* What the code's comments say and the code does not keep (README); TLC    *)
(* refutes each, and no run is kept of them.                               *)

(* The glare rule, as its comment has it: when both pods have initiated    *)
(* and the offers have been delivered, exactly one side has kept its role. *)
GlareLeavesOneInitiator ==
  ~ /\ \A p \in Pods : wire[p] = <<>>
    /\ \A p \in Pods : \E x \in Entry(p) :
         State(x) = "connecting" /\ peer[x].initiator /\ peer[x].signalled

(* connect(), as its comment has it: an attempt that timed out is retried. *)
TimeoutIsRetried ==
  [][\A x \in Peers : TimerFires(x) =>
       \A c \in Waiting({x}) : MayRetry(c) => call'[c].pc = "pausing"]_vars

=============================================================================
