---------------------------- MODULE PeerLinksProofs ----------------------------
(***************************************************************************)
(* Proofs about PeerLinks, for any calls, retries, peers and faults: its   *)
(* types, that no peer leaks, and that nobody waits without a timer.       *)
(***************************************************************************)
EXTENDS PeerLinks, TLAPS

(* A pending promise is one of the pod's own peers: what destroyPeer and   *)
(* the timers clear never belongs to the other pod.                        *)
PendingIsOwn == \A p \in Pods : pending[p] # 0 => peer[pending[p]].pod = p

(* An entry is one of the pod's own peers, and alive: its number is not    *)
(* given to a new peer.                                                    *)
EntryIsOwn == \A p \in Pods : entry[p] # 0 => peer[entry[p]].pod = p /\ Live(entry[p])

(* A call pauses only when it has an attempt left. *)
PausesRetry == \A c \in Calls : call[c].pc = "pausing" => call[c].attempt < MaxRetries

(* The inductive invariant. *)
LinkInvariant ==
  /\ TypeOK
  /\ LivePeersAreMapped /\ UnsettledHasTimer
  /\ PendingIsOwn /\ EntryIsOwn /\ PausesRetry

-----------------------------------------------------------------------------
(* Operators *)

(* PeersWith without a new peer. *)
LEMMA ClosedTypes ==
  ASSUME peer \in [Peers -> Peer], NEW gone \in SUBSET Peers
  PROVE  /\ PeersWith(gone, 0, Unused) \in [Peers -> Peer]
         /\ \A y \in Peers :
              /\ PeersWith(gone, 0, Unused)[y].pod = peer[y].pod
              /\ y \in gone => PeersWith(gone, 0, Unused)[y].state = "closed"
              /\ y \notin gone => PeersWith(gone, 0, Unused)[y] = peer[y]
BY DEF PeersWith, Peer, Peers

(* PeersWith with a new peer keeps the type, and every peer but the new one its pod. *)
LEMMA PeersWithTypes ==
  ASSUME peer \in [Peers -> Peer], NEW gone \in SUBSET Peers,
         NEW x \in Peers, NEW new \in Peer
  PROVE  /\ PeersWith(gone, x, new) \in [Peers -> Peer]
         /\ \A y \in Peers :
              /\ y = x => PeersWith(gone, x, new)[y] = new
              /\ y # x => /\ PeersWith(gone, x, new)[y].pod = peer[y].pod
                          /\ y \in gone => PeersWith(gone, x, new)[y].state = "closed"
                          /\ y \notin gone => PeersWith(gone, x, new)[y] = peer[y]
BY DEF PeersWith, Peer

LEMMA NewPeers ==
  ASSUME NEW p \in Pods
  PROVE  /\ Unused \in Peer
         /\ Initiator(p) \in Peer /\ Initiator(p).pod = p /\ Initiator(p).state = "connecting"
         /\ Responder(p) \in Peer /\ Responder(p).pod = p /\ Responder(p).state = "connecting"
         /\ \A y \in Peers : LET r == [Responder(p) EXCEPT !.remote = y]
                             IN  r \in Peer /\ r.pod = p /\ r.state = "connecting"
BY DEF Unused, Initiator, Responder, Peer, Pods, Peers

LEMMA Ends ==
  ASSUME TypeOK, NEW p \in Pods
  PROVE  Entry(p) \in SUBSET Peers /\ Pending(p) \in SUBSET Peers
BY DEF TypeOK, Entry, Pending, Peers

(* A peer of this pod that is alive is its entry. *)
LEMMA EntryIsAlone ==
  ASSUME LinkInvariant, NEW p \in Pods, NEW y \in Peers, peer[y].pod = p, Live(y)
  PROVE  y \in Entry(p)
BY DEF LinkInvariant, LivePeersAreMapped, Entry, Peers

-----------------------------------------------------------------------------
(* The two ways in which entries change *)

(* What the pod's entry, promise and timers have become when its peers in  *)
(* gone are closed and the promises in cleared are settled.                *)
Dropped(p, gone, cleared) ==
  /\ peer' = PeersWith(gone, 0, Unused)
  /\ entry' = [entry EXCEPT ![p] = 0]
  /\ pending' = [pending EXCEPT ![p] = 0]
  /\ timers' = timers \ cleared

(* The calls keep their types, and those that wait have waited before and  *)
(* not for a promise in cleared.                                           *)
Settled(cleared) ==
  /\ call' \in [Calls -> Call] /\ PausesRetry'
  /\ \A c \in Calls : call'[c].pc = "waiting" => call'[c] = call[c] /\ call[c].peer \notin cleared

LEMMA DropKeeps ==
  ASSUME LinkInvariant, NEW p \in Pods, NEW gone \in SUBSET Peers, NEW cleared \in SUBSET Peers,
         Dropped(p, gone, cleared), Settled(cleared),
         Entry(p) \subseteq gone,
         \A y \in cleared \cup gone : peer[y].pod = p,
         wire' \in [Pods -> Seq(Message)], faults' \in 0 .. MaxFaults
  PROVE  LinkInvariant'
<1>1. peer \in [Peers -> Peer] /\ Unused \in Peer /\ 0 \notin Peers
  BY NewPeers DEF LinkInvariant, TypeOK, Peers
<1>2. peer' \in [Peers -> Peer] /\ \A y \in Peers :
        /\ peer'[y].pod = peer[y].pod
        /\ y \in gone => peer'[y].state = "closed"
        /\ y \notin gone => peer'[y] = peer[y]
  <2>1. /\ PeersWith(gone, 0, Unused) \in [Peers -> Peer]
        /\ \A y \in Peers :
             /\ PeersWith(gone, 0, Unused)[y].pod = peer[y].pod
             /\ y \in gone => PeersWith(gone, 0, Unused)[y].state = "closed"
             /\ y \notin gone => PeersWith(gone, 0, Unused)[y] = peer[y]
    BY <1>1, ClosedTypes
  <2>2. peer' = PeersWith(gone, 0, Unused)
    BY DEF Dropped
  <2>. QED BY <1>1, <2>1, <2>2
<1>3. TypeOK'
  BY <1>2 DEF LinkInvariant, TypeOK, Dropped, Settled
<1>4. \A y \in Peers : Live(y)' => Live(y) /\ peer[y].pod # p
  BY <1>2, EntryIsAlone DEF Live, State
<1>5. LivePeersAreMapped'
  BY <1>2, <1>4 DEF LinkInvariant, LivePeersAreMapped, Dropped, TypeOK, Peer
<1>6. UnsettledHasTimer'
  <2>1. ASSUME NEW y \in Peers, State(y)' = "connecting" PROVE y \in timers'
    <3>1. y \notin gone /\ State(y) = "connecting"
      BY <1>2, <2>1 DEF State
    <3>2. peer[y].pod # p
      BY <1>4, <2>1 DEF Live
    <3>. QED BY <3>1, <3>2 DEF LinkInvariant, UnsettledHasTimer, Dropped
  <2>2. ASSUME NEW c \in Calls, call'[c].pc = "waiting" PROVE call'[c].peer \in timers'
    BY <2>2 DEF Settled, Dropped, LinkInvariant, UnsettledHasTimer
  <2>. QED BY <2>1, <2>2 DEF UnsettledHasTimer
<1>7. ASSUME NEW q \in Pods, q # p
      PROVE  /\ pending'[q] = pending[q] /\ pending[q] \in Peers \cup {0}
             /\ entry'[q] = entry[q] /\ entry[q] \in Peers \cup {0}
  BY <1>7 DEF LinkInvariant, TypeOK, Dropped
<1>8. pending'[p] = 0 /\ entry'[p] = 0
  BY DEF LinkInvariant, TypeOK, Dropped
<1>9. PendingIsOwn'
  BY <1>2, <1>7, <1>8 DEF LinkInvariant, PendingIsOwn
<1>10. EntryIsOwn'
  <2>1. ASSUME NEW q \in Pods, entry'[q] # 0
        PROVE  peer'[entry'[q]].pod = q /\ peer'[entry'[q]].state \in {"connecting", "connected"}
    <3>1. q # p /\ entry'[q] = entry[q] /\ entry[q] \in Peers
      BY <2>1, <1>7, <1>8
    <3>2. peer[entry[q]].pod = q /\ Live(entry[q])
      BY <2>1, <3>1 DEF LinkInvariant, EntryIsOwn
    <3>3. entry[q] \notin gone
      BY <3>1, <3>2
    <3>. QED BY <3>1, <3>2, <3>3, <1>2 DEF Live, State
  <2>. QED BY <2>1 DEF EntryIsOwn, Live, State
<1>. QED BY <1>3, <1>5, <1>6, <1>9, <1>10 DEF LinkInvariant, Settled

LEMMA CreateKeeps ==
  ASSUME LinkInvariant, NEW p \in Pods, NEW x \in Peers, NEW new \in Peer,
         new.pod = p, new.state = "connecting",
         NEW cleared \in SUBSET Pending(p), Create(p, x, new, Entry(p), cleared),
         call' \in [Calls -> Call], PausesRetry',
         \A c \in Calls : call'[c].pc = "waiting" =>
           call'[c].peer = x \/ (call'[c] = call[c] /\ call[c].peer \notin cleared),
         wire' \in [Pods -> Seq(Message)], faults' \in 0 .. MaxFaults
  PROVE  LinkInvariant'
<1>1. peer \in [Peers -> Peer] /\ 0 \notin Peers /\ TypeOK
  BY DEF LinkInvariant, TypeOK, Peers
<1>2. Entry(p) \in SUBSET Peers
  BY <1>1, Ends
<1>3. peer' \in [Peers -> Peer] /\ peer'[x] = new /\ \A y \in Peers \ {x} :
        /\ peer'[y].pod = peer[y].pod
        /\ y \in Entry(p) => peer'[y].state = "closed"
        /\ y \notin Entry(p) => peer'[y] = peer[y]
  <2>1. /\ PeersWith(Entry(p), x, new) \in [Peers -> Peer]
        /\ PeersWith(Entry(p), x, new)[x] = new
        /\ \A y \in Peers :
             y # x => /\ PeersWith(Entry(p), x, new)[y].pod = peer[y].pod
                      /\ y \in Entry(p) => PeersWith(Entry(p), x, new)[y].state = "closed"
                      /\ y \notin Entry(p) => PeersWith(Entry(p), x, new)[y] = peer[y]
    BY <1>1, <1>2, PeersWithTypes
  <2>2. peer' = PeersWith(Entry(p), x, new)
    BY DEF Create
  <2>. QED BY <2>1, <2>2
<1>4. /\ entry' = [entry EXCEPT ![p] = x] /\ pending' = [pending EXCEPT ![p] = x]
      /\ timers' = (timers \ cleared) \cup {x}
      /\ x \notin timers /\ \A q \in Pods : pending[q] # x
      /\ ~ Live(x)
  BY DEF Create, Free
<1>5. TypeOK'
  BY <1>1, <1>3, <1>4 DEF TypeOK
<1>6. \A y \in Peers \ {x} : Live(y)' => Live(y) /\ peer[y].pod # p
  BY <1>3, EntryIsAlone DEF Live, State
<1>7. LivePeersAreMapped'
  <2>1. ASSUME NEW y \in Peers, Live(y)' PROVE entry'[peer'[y].pod] = y
    <3>1. CASE y = x
      BY <3>1, <1>1, <1>3, <1>4 DEF TypeOK
    <3>2. CASE y # x
      BY <3>2, <2>1, <1>1, <1>3, <1>4, <1>6 DEF LinkInvariant, LivePeersAreMapped, TypeOK, Peer
    <3>. QED BY <3>1, <3>2
  <2>. QED BY <2>1 DEF LivePeersAreMapped
<1>8. UnsettledHasTimer'
  <2>1. ASSUME NEW y \in Peers, State(y)' = "connecting" PROVE y \in timers'
    <3>1. CASE y = x
      BY <3>1, <1>4
    <3>2. CASE y # x
      <4>1. Live(y) /\ peer[y].pod # p /\ State(y) = "connecting"
        BY <3>2, <2>1, <1>3, <1>6 DEF Live, State
      <4>2. y \notin cleared
        BY <4>1 DEF LinkInvariant, PendingIsOwn, Pending
      <4>. QED BY <4>1, <4>2, <1>4 DEF LinkInvariant, UnsettledHasTimer
    <3>. QED BY <3>1, <3>2
  <2>2. ASSUME NEW c \in Calls, call'[c].pc = "waiting" PROVE call'[c].peer \in timers'
    BY <2>2, <1>4 DEF LinkInvariant, UnsettledHasTimer
  <2>. QED BY <2>1, <2>2 DEF UnsettledHasTimer
<1>9. ASSUME NEW q \in Pods, q # p
      PROVE  /\ pending'[q] = pending[q] /\ pending[q] \in (Peers \cup {0}) \ {x}
             /\ entry'[q] = entry[q] /\ entry[q] \in Peers \cup {0}
  BY <1>9, <1>1, <1>4 DEF TypeOK
<1>10. pending'[p] = x /\ entry'[p] = x
  BY <1>1, <1>4 DEF TypeOK
<1>11. PendingIsOwn'
  BY <1>3, <1>9, <1>10 DEF LinkInvariant, PendingIsOwn
<1>12. EntryIsOwn'
  <2>1. ASSUME NEW q \in Pods, entry'[q] # 0
        PROVE  peer'[entry'[q]].pod = q /\ peer'[entry'[q]].state \in {"connecting", "connected"}
    <3>1. CASE q = p
      BY <3>1, <1>3, <1>10
    <3>2. CASE q # p
      <4>1. entry'[q] = entry[q] /\ entry[q] \in Peers
        BY <3>2, <2>1, <1>9
      <4>2. peer[entry[q]].pod = q /\ Live(entry[q])
        BY <4>1, <2>1 DEF LinkInvariant, EntryIsOwn
      <4>3. entry[q] # x
        BY <4>2, <1>4
      <4>4. entry[q] \notin Entry(p)
        BY <3>2, <4>2 DEF LinkInvariant, EntryIsOwn, Entry
      <4>. QED BY <4>1, <4>2, <4>3, <4>4, <1>3 DEF Live, State
    <3>. QED BY <3>1, <3>2
  <2>. QED BY <2>1 DEF EntryIsOwn, Live, State
<1>. QED BY <1>5, <1>7, <1>8, <1>11, <1>12 DEF LinkInvariant

-----------------------------------------------------------------------------
(* Steps that touch no entry *)

LEMMA Types ==
  ASSUME LinkInvariant
  PROVE  /\ peer \in [Peers -> Peer] /\ entry \in [Pods -> Peers \cup {0}]
         /\ pending \in [Pods -> Peers \cup {0}] /\ timers \in SUBSET Peers
         /\ call \in [Calls -> Call] /\ wire \in [Pods -> Seq(Message)]
         /\ faults \in 0 .. MaxFaults /\ MaxFaults \in Nat /\ MaxRetries \in Nat
         /\ (faults < MaxFaults => faults + 1 \in 0 .. MaxFaults)
BY LinkAssumption DEF LinkInvariant, TypeOK

(* What a call may become. *)
LEMMA CallTypes ==
  ASSUME NEW r \in Call
  PROVE  /\ \A pc \in {"pausing", "resolved", "failed"} : [r EXCEPT !.pc = pc] \in Call
         /\ \A pc \in {"pausing", "resolved", "failed"} :
              [r EXCEPT !.pc = pc].pc = pc /\ [r EXCEPT !.pc = pc].attempt = r.attempt
         /\ \A p \in Pods : [r EXCEPT !.pc = "resolved", !.pod = p] \in Call
BY DEF Call

(* A peer's descriptions may change, and its state where it keeps its      *)
(* timer or needs none any more.                                           *)
LEMMA QuietKeeps ==
  ASSUME LinkInvariant, peer' \in [Peers -> Peer],
         \A y \in Peers : peer'[y].pod = peer[y].pod /\ peer'[y].state = peer[y].state,
         UNCHANGED <<entry, pending, timers>>,
         call' \in [Calls -> Call], PausesRetry',
         \A c \in Calls : call'[c].pc = "waiting" => call'[c] = call[c],
         wire' \in [Pods -> Seq(Message)], faults' \in 0 .. MaxFaults
  PROVE  LinkInvariant'
<1>1. TypeOK'
  BY DEF LinkInvariant, TypeOK
<1>2. LivePeersAreMapped' /\ UnsettledHasTimer'
  BY DEF LinkInvariant, LivePeersAreMapped, UnsettledHasTimer, Live, State
<1>3. PendingIsOwn'
  BY Types DEF LinkInvariant, PendingIsOwn
<1>4. ASSUME NEW p \in Pods, entry'[p] # 0
      PROVE  peer'[entry'[p]].pod = p /\ peer'[entry'[p]].state \in {"connecting", "connected"}
  <2>1. entry[p] \in Peers /\ entry'[p] = entry[p]
    BY <1>4, Types
  <2>2. peer[entry[p]].pod = p /\ peer[entry[p]].state \in {"connecting", "connected"}
    BY <1>4, <2>1 DEF LinkInvariant, EntryIsOwn, Live, State
  <2>. QED BY <2>1, <2>2
<1>5. EntryIsOwn'
  BY <1>4 DEF EntryIsOwn, Live, State
<1>. QED BY <1>1, <1>2, <1>3, <1>5 DEF LinkInvariant

(* Taking a message off the wire. *)
LEMMA TakeTypes ==
  ASSUME LinkInvariant, NEW p \in Pods, Take(p)
  PROVE  Head(wire[p]) \in Message /\ wire' \in [Pods -> Seq(Message)]
<1>1. wire[p] \in Seq(Message) /\ wire[p] # <<>>
  BY Types DEF Take
<1>2. Head(wire[p]) \in Message /\ Tail(wire[p]) \in Seq(Message)
  BY <1>1
<1>. QED BY <1>2, Types DEF Take

LEMMA RejectSettles ==
  ASSUME LinkInvariant, NEW S, Reject(S)
  PROVE  Settled(S)
<1>1. \A c \in Calls : call[c] \in Call /\ [call[c] EXCEPT !.pc = "failed"] \in Call
                       /\ [call[c] EXCEPT !.pc = "failed"].pc = "failed"
  BY Types, CallTypes
<1>2. call' \in [Calls -> Call]
  BY <1>1 DEF Reject
<1>3. \A c \in Calls : call'[c].pc = "waiting" => call'[c] = call[c] /\ call[c].peer \notin S
  BY <1>1 DEF Reject, Waiting
<1>4. PausesRetry'
  BY <1>1 DEF Reject, LinkInvariant, PausesRetry
<1>. QED BY <1>2, <1>3, <1>4 DEF Settled

(* Whom destroyPeer concerns. *)
LEMMA Own ==
  ASSUME LinkInvariant, NEW p \in Pods
  PROVE  \A y \in Pending(p) \cup Entry(p) : peer[y].pod = p
BY DEF LinkInvariant, PendingIsOwn, EntryIsOwn, Pending, Entry

LEMMA DestroyKeeps ==
  ASSUME LinkInvariant, NEW p \in Pods, Destroy(p),
         wire' \in [Pods -> Seq(Message)], faults' \in 0 .. MaxFaults
  PROVE  LinkInvariant'
<1>1. Entry(p) \in SUBSET Peers /\ Pending(p) \in SUBSET Peers
  BY Ends DEF LinkInvariant
<1>2. Dropped(p, Entry(p), Pending(p)) /\ Settled(Pending(p))
  BY RejectSettles DEF Destroy, Dropped
<1>. QED BY <1>1, <1>2, Own, DropKeeps

-----------------------------------------------------------------------------
(* The steps *)

LEMMA ConnectKeeps ==
  ASSUME LinkInvariant, NEW c \in Calls, NEW p \in Pods, NEW x \in Peers, Connect(c, p, x)
  PROVE  LinkInvariant'
<1> DEFINE cleared == IF Entry(p) = {} THEN {} ELSE Pending(p)
<1>1. cleared \in SUBSET Pending(p)
  OBVIOUS
<1>2. Create(p, x, Initiator(p), Entry(p), cleared)
  BY DEF Connect
<1>3. call' = [d \in Calls |->
                 IF d = c THEN [pc |-> "waiting", pod |-> p, attempt |-> 0, peer |-> x]
                 ELSE IF d \in Waiting(cleared) THEN [call[d] EXCEPT !.pc = "failed"]
                 ELSE call[d]]
  BY DEF Connect
<1> HIDE DEF cleared
<1>4. \A d \in Calls : /\ call[d] \in Call /\ [call[d] EXCEPT !.pc = "failed"] \in Call
                       /\ [call[d] EXCEPT !.pc = "failed"].pc = "failed"
  BY Types, CallTypes
<1>5. [pc |-> "waiting", pod |-> p, attempt |-> 0, peer |-> x] \in Call
  BY Types DEF Call
<1>6. call' \in [Calls -> Call] /\ PausesRetry'
  BY <1>3, <1>4, <1>5 DEF LinkInvariant, PausesRetry
<1>7. \A d \in Calls : call'[d].pc = "waiting" =>
        call'[d].peer = x \/ (call'[d] = call[d] /\ call[d].peer \notin cleared)
  BY <1>3, <1>4 DEF Waiting
<1>8. wire' \in [Pods -> Seq(Message)] /\ faults' \in 0 .. MaxFaults
  BY Types DEF Connect
<1>. QED BY <1>1, <1>2, <1>6, <1>7, <1>8, NewPeers, CreateKeeps

LEMMA RetryKeeps ==
  ASSUME LinkInvariant, NEW c \in Calls, NEW x \in Peers, Retry(c, x)
  PROVE  LinkInvariant'
<1> DEFINE p == call[c].pod
<1>1. p \in Pods
  BY Types DEF Call
<1>2. Create(p, x, Initiator(p), Entry(p), Pending(p))
  BY DEF Retry
<1>3. call' = [d \in Calls |->
                 IF d = c THEN [call[c] EXCEPT !.pc = "waiting", !.attempt = @ + 1, !.peer = x]
                 ELSE IF d \in Waiting(Pending(p)) THEN [call[d] EXCEPT !.pc = "failed"]
                 ELSE call[d]]
  BY DEF Retry
<1>4. [call[c] EXCEPT !.pc = "waiting", !.attempt = @ + 1, !.peer = x] \in Call
  <2>1. call[c].attempt < MaxRetries
    BY DEF Retry, LinkInvariant, PausesRetry
  <2>2. call[c].attempt + 1 \in 0 .. MaxRetries
    BY <2>1, Types DEF Call
  <2>. QED BY <2>2, Types DEF Call
<1> HIDE DEF p
<1>5. \A d \in Calls : /\ call[d] \in Call /\ [call[d] EXCEPT !.pc = "failed"] \in Call
                       /\ [call[d] EXCEPT !.pc = "failed"].pc = "failed"
  BY Types, CallTypes
<1>6. /\ [call[c] EXCEPT !.pc = "waiting", !.attempt = @ + 1, !.peer = x].pc = "waiting"
      /\ [call[c] EXCEPT !.pc = "waiting", !.attempt = @ + 1, !.peer = x].peer = x
  BY <1>5 DEF Call
<1>7. call' \in [Calls -> Call] /\ PausesRetry'
  BY <1>3, <1>4, <1>5, <1>6 DEF LinkInvariant, PausesRetry
<1>8. \A d \in Calls : call'[d].pc = "waiting" =>
        call'[d].peer = x \/ (call'[d] = call[d] /\ call[d].peer \notin Pending(p))
  BY <1>3, <1>5, <1>6 DEF Waiting
<1>9. wire' \in [Pods -> Seq(Message)] /\ faults' \in 0 .. MaxFaults
  BY Types DEF Retry
<1>. QED BY <1>1, <1>2, <1>7, <1>8, <1>9, NewPeers, CreateKeeps

LEMMA AtOnceKeeps ==
  ASSUME LinkInvariant, NEW c \in Calls, NEW p \in Pods, ConnectAtOnce(c, p)
  PROVE  LinkInvariant'
<1>1. [call[c] EXCEPT !.pc = "resolved", !.pod = p] \in Call
  BY Types, CallTypes
<1>2. [call[c] EXCEPT !.pc = "resolved", !.pod = p].pc = "resolved"
  BY Types DEF Call
<1>3. call' = [call EXCEPT ![c] = [call[c] EXCEPT !.pc = "resolved", !.pod = p]]
  BY DEF ConnectAtOnce
<1>4. call' \in [Calls -> Call]
  BY <1>1, <1>3, Types
<1>5. \A d \in Calls : call'[d] = call[d] \/ call'[d].pc = "resolved"
  BY <1>2, <1>3, Types
<1>6. PausesRetry' /\ \A d \in Calls : call'[d].pc = "waiting" => call'[d] = call[d]
  BY <1>5 DEF LinkInvariant, PausesRetry
<1>. QED BY <1>4, <1>6, Types, QuietKeeps DEF ConnectAtOnce

LEMMA TimerKeeps ==
  ASSUME LinkInvariant, NEW x \in Peers, TimerFires(x)
  PROVE  LinkInvariant'
<1> DEFINE p == peer[x].pod
           cleared == {x} \cup Pending(p)
           timedOut == Waiting({x} \ Pending(p))
<1>1. p \in Pods
  BY Types DEF Peer
<1>2. Entry(p) \cup {x} \in SUBSET Peers /\ cleared \in SUBSET Peers
  BY <1>1, Ends DEF LinkInvariant
<1>3. \A y \in cleared \cup (Entry(p) \cup {x}) : peer[y].pod = p
  BY <1>1, Own
<1>4. Dropped(p, Entry(p) \cup {x}, cleared)
  BY DEF TimerFires, Dropped
<1>5. call' = [c \in Calls |->
                 IF c \in timedOut /\ MayRetry(c)
                 THEN [call[c] EXCEPT !.pc = "pausing"]
                 ELSE IF c \in timedOut \cup Waiting(Pending(p))
                 THEN [call[c] EXCEPT !.pc = "failed"]
                 ELSE call[c]]
  BY DEF TimerFires
<1>6. \A c \in Waiting(cleared) : c \in timedOut \/ c \in Waiting(Pending(p))
  BY DEF Waiting
<1>7. Settled(cleared)
  <2>1. ASSUME NEW c \in Calls
        PROVE  /\ call[c] \in Call
               /\ [call[c] EXCEPT !.pc = "pausing"] \in Call
               /\ [call[c] EXCEPT !.pc = "pausing"].pc = "pausing"
               /\ [call[c] EXCEPT !.pc = "pausing"].attempt = call[c].attempt
               /\ [call[c] EXCEPT !.pc = "failed"] \in Call
               /\ [call[c] EXCEPT !.pc = "failed"].pc = "failed"
    <3>1. call[c] \in Call
      BY Types
    <3>. QED BY <3>1, CallTypes
  <2> HIDE DEF p, timedOut, cleared
  <2>2. call' \in [Calls -> Call]
    BY <1>5, <2>1
  <2>3. PausesRetry'
    BY <1>5, <2>1 DEF LinkInvariant, PausesRetry, MayRetry
  <2>4. ASSUME NEW c \in Calls, call'[c].pc = "waiting"
        PROVE  call'[c] = call[c] /\ c \notin Waiting(cleared)
    BY <1>5, <1>6, <2>1, <2>4
  <2>5. \A c \in Calls : call'[c].pc = "waiting" =>
          call'[c] = call[c] /\ call[c].peer \notin cleared
    BY <2>4 DEF Waiting
  <2>. QED BY <2>2, <2>3, <2>5 DEF Settled
<1>8. wire' \in [Pods -> Seq(Message)] /\ faults' \in 0 .. MaxFaults
  BY Types DEF TimerFires
<1> HIDE DEF p, cleared
<1>. QED BY <1>1, <1>2, <1>3, <1>4, <1>7, <1>8, DropKeeps

LEMMA SignalKeeps ==
  ASSUME LinkInvariant, NEW x \in Peers, Signal(x)
  PROVE  LinkInvariant'
<1>1. peer' \in [Peers -> Peer] /\ \A y \in Peers : /\ peer'[y].pod = peer[y].pod
                                                  /\ peer'[y].state = peer[y].state
  <2>1. peer \in [Peers -> Peer]
    BY Types
  <2>2. peer' = [peer EXCEPT ![x].signalled = TRUE]
    BY DEF Signal
  <2>. QED BY <2>1, <2>2 DEF Peer
<1>2. Other(peer[x].pod) \in Pods
  BY DEF Other, Pods
<1>3. [type |-> IF peer[x].initiator THEN "offer" ELSE "answer", from |-> x] \in Message
  BY DEF Message
<1>4. wire' \in [Pods -> Seq(Message)]
  BY <1>2, <1>3, Types DEF Signal
<1>5. PausesRetry'
  BY DEF Signal, LinkInvariant, PausesRetry
<1>. QED BY <1>1, <1>4, <1>5, Types, QuietKeeps DEF Signal

LEMMA LoseKeeps ==
  ASSUME LinkInvariant, NEW p \in Pods, Lose(p)
  PROVE  LinkInvariant'
<1>1. wire' \in [Pods -> Seq(Message)]
  BY TakeTypes DEF Lose
<1>2. PausesRetry' /\ faults' \in 0 .. MaxFaults
  BY Types DEF Lose, LinkInvariant, PausesRetry
<1>. QED BY <1>1, <1>2, Types, QuietKeeps DEF Lose

LEMMA HandleKeeps ==
  ASSUME LinkInvariant, NEW p \in Pods, Handle(p)
  PROVE  LinkInvariant'
<1>1. CASE HandleIgnored(p)
  <2>1. wire' \in [Pods -> Seq(Message)]
    BY <1>1, TakeTypes DEF HandleIgnored
  <2>2. PausesRetry'
    BY <1>1 DEF HandleIgnored, LinkInvariant, PausesRetry
  <2>. QED BY <1>1, <2>1, <2>2, Types, QuietKeeps DEF HandleIgnored
<1>2. ASSUME NEW x \in Peers, HandleAsResponder(p, x) PROVE LinkInvariant'
  <2> DEFINE m == Head(wire[p])
             cleared == IF Renegotiates(p, m) THEN Pending(p) ELSE {}
             new == IF m.type = "offer" THEN [Responder(p) EXCEPT !.remote = m.from]
                    ELSE Responder(p)
  <2>1. Take(p) /\ Create(p, x, new, Entry(p), cleared) /\ Reject(cleared)
        /\ UNCHANGED faults
    BY <1>2 DEF HandleAsResponder
  <2>2. m.from \in Peers /\ wire' \in [Pods -> Seq(Message)]
    BY <2>1, TakeTypes DEF Message
  <2>3. cleared \in SUBSET Pending(p)
    OBVIOUS
  <2> HIDE DEF m, cleared
  <2>4. new \in Peer /\ new.pod = p /\ new.state = "connecting"
    BY <2>2, NewPeers
  <2> HIDE DEF new
  <2>5. Settled(cleared)
    BY <2>1, RejectSettles
  <2>6. \A c \in Calls : call'[c].pc = "waiting" =>
          call'[c].peer = x \/ (call'[c] = call[c] /\ call[c].peer \notin cleared)
    BY <2>5 DEF Settled
  <2>7. call' \in [Calls -> Call] /\ PausesRetry'
    BY <2>5 DEF Settled
  <2>. QED BY <2>1, <2>2, <2>3, <2>4, <2>6, <2>7, Types, CreateKeeps
<1>3. CASE HandleByPeer(p)
  <2> DEFINE m == Head(wire[p])
             x == entry[p]
  <2>1. x \in Peers
    BY <1>3, Types DEF HandleByPeer, Entry
  <2>2. CASE Accepts(x, m.type) /\ Take(p) /\ peer' = [peer EXCEPT ![x].remote = m.from]
             /\ UNCHANGED <<entry, pending, timers, call>>
    <3>1. m.from \in Peers /\ wire' \in [Pods -> Seq(Message)]
      BY <2>2, TakeTypes DEF Message
    <3>2. peer' = [peer EXCEPT ![x].remote = m.from]
      BY <2>2
    <3> HIDE DEF m, x
    <3>3. peer' \in [Peers -> Peer] /\ \A y \in Peers : /\ peer'[y].pod = peer[y].pod
                                                      /\ peer'[y].state = peer[y].state
      <4> DEFINE given == [peer[x] EXCEPT !.remote = m.from]
      <4>1. peer[x] \in Peer
        BY <2>1, Types
      <4>2. given \in Peer /\ given.pod = peer[x].pod /\ given.state = peer[x].state
        BY <3>1, <4>1 DEF Peer
      <4>3. peer' = [peer EXCEPT ![x] = given]
        BY <3>2
      <4> HIDE DEF given
      <4>. QED BY <2>1, <4>2, <4>3, Types
    <3>4. PausesRetry' /\ faults' \in 0 .. MaxFaults
      BY <1>3, <2>2, Types DEF HandleByPeer, LinkInvariant, PausesRetry
    <3>. QED BY <2>2, <3>1, <3>3, <3>4, Types, QuietKeeps
  <2>3. CASE Take(p) /\ Destroy(p)
    BY <1>3, <2>3, TakeTypes, Types, DestroyKeeps DEF HandleByPeer
  <2>4. CASE /\ wire' = [wire EXCEPT ![p] = Tail(@),
                                     ![Other(p)] = Append(@, [type |-> "answer", from |-> x])]
             /\ UNCHANGED <<peer, entry, pending, timers, call>>
    <3>1. Other(p) \in Pods /\ Other(p) # p
      BY LinkAssumption DEF Other, Pods
    <3>2. [type |-> "answer", from |-> x] \in Message
      BY <2>1 DEF Message
    <3>3. wire[p] \in Seq(Message) /\ wire[p] # <<>> /\ wire[Other(p)] \in Seq(Message)
      BY <1>3, <3>1, Types DEF HandleByPeer
    <3>4. /\ Tail(wire[p]) \in Seq(Message)
          /\ Append(wire[Other(p)], [type |-> "answer", from |-> x]) \in Seq(Message)
      BY <3>2, <3>3
    <3>5. wire' \in [Pods -> Seq(Message)]
      BY <2>4, <3>1, <3>4, Types
    <3>6. PausesRetry' /\ faults' \in 0 .. MaxFaults
      BY <1>3, <2>4, Types DEF HandleByPeer, LinkInvariant, PausesRetry
    <3>. QED BY <2>4, <3>5, <3>6, Types, QuietKeeps
  <2>. QED BY <1>3, <2>2, <2>3, <2>4 DEF HandleByPeer
<1>. QED BY <1>1, <1>2, <1>3 DEF Handle

LEMMA PeerConnectsKeeps ==
  ASSUME LinkInvariant, NEW x \in Peers, PeerConnects(x)
  PROVE  LinkInvariant'
<1> DEFINE p == peer[x].pod
<1>1. p \in Pods /\ State(x) = "connecting" /\ entry[p] = x
  BY Types DEF Peer, PeerConnects, LinkInvariant, LivePeersAreMapped, Live
<1>2. peer' \in [Peers -> Peer] /\ peer'[x].state = "connected"
      /\ \A y \in Peers : peer'[y].pod = peer[y].pod /\ (y # x => peer'[y] = peer[y])
  BY Types DEF PeerConnects, Peer
<1>3. /\ timers' = timers \ Pending(p) /\ pending' = [pending EXCEPT ![p] = 0]
      /\ UNCHANGED <<entry, wire, faults>>
      /\ call' = [c \in Calls |-> IF c \in Waiting(Pending(p))
                                  THEN [call[c] EXCEPT !.pc = "resolved"] ELSE call[c]]
  BY DEF PeerConnects
<1>4. Settled(Pending(p))
  <2>1. \A c \in Calls : call[c] \in Call /\ [call[c] EXCEPT !.pc = "resolved"] \in Call
                         /\ [call[c] EXCEPT !.pc = "resolved"].pc = "resolved"
    BY Types, CallTypes
  <2> HIDE DEF p
  <2>2. call' \in [Calls -> Call]
    BY <1>3, <2>1
  <2>3. PausesRetry'
    BY <1>3, <2>1 DEF LinkInvariant, PausesRetry
  <2>4. \A c \in Calls : call'[c].pc = "waiting" =>
          call'[c] = call[c] /\ call[c].peer \notin Pending(p)
    BY <1>3, <2>1 DEF Waiting
  <2>. QED BY <2>2, <2>3, <2>4 DEF Settled
<1> HIDE DEF p
<1>5. TypeOK'
  BY <1>1, <1>2, <1>3, <1>4, Types DEF TypeOK, Settled
<1>6. \A y \in Peers : Live(y)' => Live(y)
  BY <1>1, <1>2 DEF Live, State
<1>7. LivePeersAreMapped'
  BY <1>2, <1>3, <1>6 DEF LinkInvariant, LivePeersAreMapped
<1>8. UnsettledHasTimer'
  <2>1. ASSUME NEW y \in Peers, State(y)' = "connecting" PROVE y \in timers'
    <3>1. y # x /\ State(y) = "connecting"
      BY <2>1, <1>2 DEF State
    <3>2. peer[y].pod # p
      BY <1>1, <3>1 DEF LinkInvariant, LivePeersAreMapped, Live
    <3>3. y \notin Pending(p)
      BY <1>1, <3>2, Own
    <3>. QED BY <1>3, <3>1, <3>3 DEF LinkInvariant, UnsettledHasTimer
  <2>2. ASSUME NEW c \in Calls, call'[c].pc = "waiting" PROVE call'[c].peer \in timers'
    <3>1. call'[c] = call[c] /\ call[c].peer \notin Pending(p)
      BY <2>2, <1>4 DEF Settled
    <3>2. call[c].peer \in timers
      BY <2>2, <3>1 DEF LinkInvariant, UnsettledHasTimer
    <3>. QED BY <1>3, <3>1, <3>2
  <2>. QED BY <2>1, <2>2 DEF UnsettledHasTimer
<1>9. PendingIsOwn'
  <2>1. \A q \in Pods : pending'[q] = IF q = p THEN 0 ELSE pending[q]
    BY <1>3, Types
  <2>. QED BY <1>2, <2>1, Types DEF LinkInvariant, PendingIsOwn
<1>10. ASSUME NEW q \in Pods, entry'[q] # 0
       PROVE  peer'[entry'[q]].pod = q /\ peer'[entry'[q]].state \in {"connecting", "connected"}
  <2>1. entry'[q] = entry[q] /\ entry[q] \in Peers
    BY <1>3, <1>10, Types
  <2>2. peer[entry[q]].pod = q /\ peer[entry[q]].state \in {"connecting", "connected"}
    BY <1>10, <2>1 DEF LinkInvariant, EntryIsOwn, Live, State
  <2>. QED BY <2>1, <2>2, <1>2
<1>11. EntryIsOwn'
  BY <1>10 DEF EntryIsOwn, Live, State
<1>. QED BY <1>4, <1>5, <1>7, <1>8, <1>9, <1>11 DEF LinkInvariant, Settled

LEMMA PeerClosesKeeps ==
  ASSUME LinkInvariant, NEW x \in Peers, PeerCloses(x)
  PROVE  LinkInvariant'
<1>1. /\ peer' = [peer EXCEPT ![x].state = "closed"]
      /\ entry' = [p \in Pods |-> IF entry[p] = x THEN 0 ELSE entry[p]]
      /\ UNCHANGED <<pending, timers, call, wire>>
      /\ faults' \in 0 .. MaxFaults
  BY Types DEF PeerCloses, LinkFails
<1>2. peer' \in [Peers -> Peer] /\ peer'[x].state = "closed"
      /\ \A y \in Peers : peer'[y].pod = peer[y].pod /\ (y # x => peer'[y] = peer[y])
  BY <1>1, Types DEF Peer
<1>3. TypeOK'
  BY <1>1, <1>2, Types DEF TypeOK
<1>4. \A y \in Peers : Live(y)' => Live(y) /\ y # x
  BY <1>2 DEF Live, State
<1>5. LivePeersAreMapped'
  BY <1>1, <1>2, <1>4, Types DEF LinkInvariant, LivePeersAreMapped, Peer
<1>6. UnsettledHasTimer'
  BY <1>1, <1>2 DEF LinkInvariant, UnsettledHasTimer, State
<1>7. PendingIsOwn' /\ PausesRetry'
  BY <1>1, <1>2, Types DEF LinkInvariant, PendingIsOwn, PausesRetry
<1>8. ASSUME NEW q \in Pods, entry'[q] # 0
      PROVE  peer'[entry'[q]].pod = q /\ peer'[entry'[q]].state \in {"connecting", "connected"}
  <2>1. entry'[q] = entry[q] /\ entry[q] \in Peers /\ entry[q] # x
    BY <1>1, <1>8, Types
  <2>2. peer[entry[q]].pod = q /\ peer[entry[q]].state \in {"connecting", "connected"}
    BY <1>8, <2>1 DEF LinkInvariant, EntryIsOwn, Live, State
  <2>. QED BY <2>1, <2>2, <1>2
<1>9. EntryIsOwn'
  BY <1>8 DEF EntryIsOwn, Live, State
<1>. QED BY <1>3, <1>5, <1>6, <1>7, <1>9 DEF LinkInvariant

-----------------------------------------------------------------------------
LEMMA Initially == Init => LinkInvariant
<1> SUFFICES ASSUME Init PROVE LinkInvariant
  OBVIOUS
<1>1. Unused \in Peer /\ Unused.state = "closed"
  BY DEF Unused, Peer, Pods
<1>2. TypeOK
  BY <1>1, LinkAssumption DEF Init, TypeOK, Call, Pods
<1>3. \A x \in Peers : State(x) = "closed"
  BY <1>1 DEF Init, State
<1>4. LivePeersAreMapped /\ UnsettledHasTimer /\ PausesRetry
  BY <1>3 DEF Init, LivePeersAreMapped, UnsettledHasTimer, PausesRetry, Live
<1>5. PendingIsOwn /\ EntryIsOwn
  BY DEF Init, PendingIsOwn, EntryIsOwn
<1>. QED BY <1>2, <1>4, <1>5 DEF LinkInvariant

LEMMA Inductive == LinkInvariant /\ [Next]_vars => LinkInvariant'
<1> SUFFICES ASSUME LinkInvariant, [Next]_vars PROVE LinkInvariant'
  OBVIOUS
<1>1. ASSUME NEW c \in Calls, ConnectStep(c) PROVE LinkInvariant'
  BY <1>1, ConnectKeeps, RetryKeeps DEF ConnectStep
<1>2. ASSUME NEW c \in Calls, NEW p \in Pods, ConnectAtOnce(c, p) PROVE LinkInvariant'
  BY <1>2, AtOnceKeeps
<1>3. ASSUME NEW p \in Pods, Handle(p) PROVE LinkInvariant'
  BY <1>3, HandleKeeps
<1>4. ASSUME NEW p \in Pods, Lose(p) PROVE LinkInvariant'
  BY <1>4, LoseKeeps
<1>5. ASSUME NEW p \in Pods, Disconnect(p) PROVE LinkInvariant'
  BY <1>5, Types, DestroyKeeps DEF Disconnect
<1>6. ASSUME NEW x \in Peers, TimerFires(x) PROVE LinkInvariant'
  BY <1>6, TimerKeeps
<1>7. ASSUME NEW x \in Peers, Signal(x) PROVE LinkInvariant'
  BY <1>7, SignalKeeps
<1>8. ASSUME NEW x \in Peers, PeerConnects(x) PROVE LinkInvariant'
  BY <1>8, PeerConnectsKeeps
<1>9. ASSUME NEW x \in Peers, PeerErrs(x) PROVE LinkInvariant'
  <2>1. peer[x].pod \in Pods /\ Destroy(peer[x].pod) /\ UNCHANGED wire
    BY <1>9, Types DEF PeerErrs, Peer
  <2>2. faults' \in 0 .. MaxFaults
    BY <1>9, Types DEF PeerErrs, LinkFails
  <2>. QED BY <2>1, <2>2, Types, DestroyKeeps
<1>10. ASSUME NEW x \in Peers, PeerCloses(x) PROVE LinkInvariant'
  BY <1>10, PeerClosesKeeps
<1>11. CASE UNCHANGED vars
  <2>1. PausesRetry'
    BY <1>11 DEF vars, LinkInvariant, PausesRetry
  <2>. QED BY <1>11, <2>1, Types, QuietKeeps DEF vars
<1>. QED BY <1>1, <1>2, <1>3, <1>4, <1>5, <1>6, <1>7, <1>8, <1>9, <1>10, <1>11 DEF Next

LEMMA Invariantly == Spec => []LinkInvariant
BY Initially, Inductive, PTL DEF Spec

(* Peers, entries, promises, calls and messages keep their types; a call   *)
(* never makes more attempts than connect() allows.                        *)
THEOREM TypeCorrect == Spec => []TypeOK
<1>1. LinkInvariant => TypeOK
  BY DEF LinkInvariant
<1>. QED BY <1>1, Invariantly, PTL

(* However offers, answers, calls, errors, closes and timers interleave on *)
(* the entry, no live peer is lost from the map of connections.            *)
THEOREM NoPeerLeaks == Spec => []LivePeersAreMapped
<1>1. LinkInvariant => LivePeersAreMapped
  BY DEF LinkInvariant
<1>. QED BY <1>1, Invariantly, PTL

(* A connecting peer and a waiting call always have a running timer,       *)
(* though entries are replaced, promises overwritten and timers cleared by *)
(* others.                                                                 *)
THEOREM NobodyHangs == Spec => []UnsettledHasTimer
<1>1. LinkInvariant => UnsettledHasTimer
  BY DEF LinkInvariant
<1>. QED BY <1>1, Invariantly, PTL

(* Peers, calls and messages keep their types, no live peer is lost from   *)
(* the map, and nobody waits without a timer.                              *)
THEOREM PeersAreSafe == Spec => []PeersSafe
BY TypeCorrect, NoPeerLeaks, NobodyHangs, PTL DEF PeersSafe

-----------------------------------------------------------------------------
(* Working connections *)

(* What may replace the entry of a pod whose connection works. *)
MayReplace(p) ==
  \/ Disconnect(p) \/ PeerErrs(entry[p]) \/ PeerCloses(entry[p]) \/ HandleByPeer(p)
  \/ \E x \in Peers \ Entry(p) : State(x) = "closed" /\ TimerFires(x)
  \/ \E c \in Calls, x \in Peers : Retry(c, x)

(* A new peer is the entry of its own pod only. *)
LEMMA CreateIsLocal ==
  ASSUME LinkInvariant, NEW p \in Pods, NEW q \in Pods, q # p, NEW x, NEW new, NEW gone,
         NEW cleared, Create(q, x, new, gone, cleared)
  PROVE  entry'[p] = entry[p]
BY Types DEF Create

(* A pod has one entry: while it is connected, no other peer of it is, and *)
(* no peer that is connecting or was asked to yield.                       *)
LEMMA ConnectedEntry ==
  ASSUME LinkInvariant, NEW p \in Pods, Connected(p)
  PROVE  /\ entry[p] \in Peers /\ Entry(p) = {entry[p]} /\ State(entry[p]) = "connected"
         /\ \A x \in Peers \ Entry(p) : peer[x].pod = p => State(x) = "closed"
<1>1. Entry(p) = {entry[p]} /\ entry[p] \in Peers /\ State(entry[p]) = "connected"
  BY Types DEF Connected, Entry
<1>2. ASSUME NEW x \in Peers \ Entry(p), peer[x].pod = p PROVE State(x) = "closed"
  <2>1. ~ Live(x)
    BY <1>2, EntryIsAlone
  <2>2. State(x) \in {"connecting", "connected", "closed"}
    BY Types DEF State, Peer
  <2>. QED BY <2>1, <2>2 DEF Live
<1>. QED BY <1>1, <1>2

(* A timer that takes a working connection down belongs to a peer that has *)
(* closed before: the entry's own timer does not fire once it is connected.*)
LEMMA TimerReplaces ==
  ASSUME LinkInvariant, NEW p \in Pods, Connected(p), entry'[p] # entry[p],
         NEW x \in Peers, TimerFires(x)
  PROVE  x \notin Entry(p) /\ State(x) = "closed"
<1>1. entry' = [entry EXCEPT ![peer[x].pod] = 0] /\ State(x) # "connected"
  BY DEF TimerFires
<1>2. peer[x].pod = p
  BY <1>1, Types
<1>3. x \notin Entry(p)
  BY <1>1, ConnectedEntry
<1>. QED BY <1>2, <1>3, ConnectedEntry

(* A message replaces a working connection only if its own peer cannot     *)
(* take it: an offer is renegotiated with peers that are not connected.    *)
LEMMA HandleReplaces ==
  ASSUME LinkInvariant, NEW p \in Pods, Connected(p), entry'[p] # entry[p],
         NEW q \in Pods, Handle(q)
  PROVE  HandleByPeer(p)
<1>1. ~ HandleIgnored(q)
  BY DEF HandleIgnored
<1>2. ASSUME NEW x \in Peers, HandleAsResponder(q, x) PROVE FALSE
  <2>1. PICK new, cleared : Create(q, x, new, Entry(q), cleared)
    BY <1>2 DEF HandleAsResponder
  <2>2. q = p
    BY <2>1, CreateIsLocal
  <2>3. ~ Renegotiates(p, Head(wire[p]))
    BY ConnectedEntry DEF Renegotiates
  <2>. QED BY <1>2, <2>2, <2>3, ConnectedEntry DEF HandleAsResponder
<1>3. HandleByPeer(q)
  BY <1>1, <1>2 DEF Handle
<1>4. entry' = entry \/ entry' = [entry EXCEPT ![q] = 0]
  BY <1>3 DEF HandleByPeer, Destroy
<1>5. q = p
  BY <1>4, Types
<1>. QED BY <1>3, <1>5

LEMMA OnlyTheseReplace ==
  ASSUME LinkInvariant, [Next]_vars, NEW p \in Pods, Connected(p), entry'[p] # entry[p]
  PROVE  MayReplace(p)
<1>1. ASSUME NEW c \in Calls, NEW x \in Peers, NEW q \in Pods, Connect(c, q, x) PROVE FALSE
  <2>1. PICK cleared : Create(q, x, Initiator(q), Entry(q), cleared)
    BY <1>1 DEF Connect
  <2>2. q # p
    BY <1>1 DEF Connect
  <2>. QED BY <2>1, <2>2, CreateIsLocal
<1>2. ASSUME NEW c \in Calls, ConnectStep(c) PROVE MayReplace(p)
  BY <1>1, <1>2 DEF ConnectStep, MayReplace
<1>3. ASSUME NEW q \in Pods, Handle(q) PROVE MayReplace(p)
  BY <1>3, HandleReplaces DEF MayReplace
<1>4. ASSUME NEW q \in Pods, Disconnect(q) PROVE MayReplace(p)
  <2>1. q = p
    BY <1>4, Types DEF Disconnect, Destroy
  <2>. QED BY <1>4, <2>1 DEF MayReplace
<1>5. ASSUME NEW x \in Peers, TimerFires(x) PROVE MayReplace(p)
  BY <1>5, TimerReplaces DEF MayReplace
<1>6. ASSUME NEW x \in Peers, PeerErrs(x) PROVE MayReplace(p)
  <2>1. entry[peer[x].pod] = x /\ entry' = [entry EXCEPT ![peer[x].pod] = 0]
    BY <1>6 DEF PeerErrs, Destroy
  <2>2. x = entry[p]
    BY <2>1, Types
  <2>3. PeerErrs(entry[p])
    BY <1>6, <2>2
  <2>. QED BY <2>3 DEF MayReplace
<1>7. ASSUME NEW x \in Peers, PeerCloses(x) PROVE MayReplace(p)
  <2>1. entry' = [q \in Pods |-> IF entry[q] = x THEN 0 ELSE entry[q]]
    BY <1>7 DEF PeerCloses
  <2>2. x = entry[p]
    BY <2>1
  <2>3. PeerCloses(entry[p])
    BY <1>7, <2>2
  <2>. QED BY <2>3 DEF MayReplace
<1>8. ASSUME NEW q \in Pods, Lose(q) PROVE FALSE
  BY <1>8 DEF Lose
<1>9. ASSUME NEW c \in Calls, NEW q \in Pods, ConnectAtOnce(c, q) PROVE FALSE
  BY <1>9 DEF ConnectAtOnce
<1>10. ASSUME NEW x \in Peers, Signal(x) \/ PeerConnects(x) PROVE FALSE
  BY <1>10 DEF Signal, PeerConnects
<1>11. ~ UNCHANGED vars
  BY DEF vars
<1>. QED
  BY <1>2, <1>3, <1>4, <1>5, <1>6, <1>7, <1>8, <1>9, <1>10, <1>11 DEF Next

(* A connection that works outlives other calls, late and lost offers and  *)
(* the answers to others: it ends by disconnect, by its own failure or a   *)
(* message its peer cannot take, or by what a peer that closed while it    *)
(* connected has left behind.                                              *)
THEOREM ConnectionsAreKept == Spec => ConnectedIsKept
<1>1. LinkInvariant /\ [Next]_vars =>
        [\A p \in Pods : Connected(p) /\ entry'[p] # entry[p] => MayReplace(p)]_vars
  BY OnlyTheseReplace
<1>2. LinkInvariant /\ [Next]_vars =>
        [\A p \in Pods :
           Connected(p) /\ entry'[p] # entry[p] =>
             \/ Disconnect(p) \/ PeerErrs(entry[p]) \/ PeerCloses(entry[p]) \/ HandleByPeer(p)
             \/ \E x \in Peers \ Entry(p) : State(x) = "closed" /\ TimerFires(x)
             \/ \E c \in Calls, x \in Peers : Retry(c, x)]_vars
  BY <1>1 DEF MayReplace
<1>. QED BY <1>2, Invariantly, PTL DEF Spec, ConnectedIsKept

-----------------------------------------------------------------------------
(* What connect() resolves with *)

(* A call waits for a peer of its own pod. *)
WaitsOnOwn == \A c \in Calls : call[c].pc = "waiting" => peer[call[c].peer].pod = call[c].pod

(* The peers after a new one was made. *)
LEMMA Created ==
  ASSUME LinkInvariant, NEW p \in Pods, NEW x \in Peers, NEW new \in Peer, NEW cleared,
         Create(p, x, new, Entry(p), cleared)
  PROVE  /\ peer'[x] = new /\ x \notin timers
         /\ \A y \in Peers : y # x => peer'[y].pod = peer[y].pod
<1>1. peer' = PeersWith(Entry(p), x, new) /\ x \notin timers
  BY DEF Create, Free
<1>2. peer \in [Peers -> Peer]
  BY Types
<1>3. Entry(p) \in SUBSET Peers
  BY Ends DEF LinkInvariant
<1>4. /\ PeersWith(Entry(p), x, new) \in [Peers -> Peer]
      /\ \A y \in Peers :
           /\ y = x => PeersWith(Entry(p), x, new)[y] = new
           /\ y # x => /\ PeersWith(Entry(p), x, new)[y].pod = peer[y].pod
                       /\ y \in Entry(p) => PeersWith(Entry(p), x, new)[y].state = "closed"
                       /\ y \notin Entry(p) => PeersWith(Entry(p), x, new)[y] = peer[y]
  BY <1>2, <1>3, PeersWithTypes
<1>. QED BY <1>1, <1>4

(* A peer whose timer runs keeps its number, and its pod. *)
LEMMA PodsStay ==
  ASSUME LinkInvariant, [Next]_vars, NEW y \in timers
  PROVE  peer'[y].pod = peer[y].pod
<1>1. y \in Peers /\ peer[y] \in Peer
  BY Types
<1>2. ASSUME NEW gone \in SUBSET Peers, peer' = PeersWith(gone, 0, Unused)
      PROVE  peer'[y].pod = peer[y].pod
  BY <1>1, <1>2, Types, ClosedTypes
<1>3. ASSUME NEW p \in Pods, NEW x \in Peers, NEW cleared, NEW new \in Peer,
             Create(p, x, new, Entry(p), cleared)
      PROVE  peer'[y].pod = peer[y].pod
  BY <1>1, <1>3, Created
<1>4. ASSUME NEW p \in Pods, Destroy(p) PROVE peer'[y].pod = peer[y].pod
  BY <1>2, <1>4, Ends DEF Destroy, LinkInvariant
<1>5. ASSUME NEW c \in Calls, ConnectStep(c) PROVE peer'[y].pod = peer[y].pod
  <2>1. call[c].pod \in Pods
    BY Types DEF Call
  <2>. QED BY <1>3, <1>5, <2>1, NewPeers DEF ConnectStep, Connect, Retry
<1>6. ASSUME NEW p \in Pods, Handle(p) PROVE peer'[y].pod = peer[y].pod
  <2>1. CASE HandleIgnored(p)
    BY <2>1 DEF HandleIgnored
  <2>2. CASE HandleByPeer(p)
    <3>1. \/ peer' = peer \/ Destroy(p)
          \/ peer' = [peer EXCEPT ![entry[p]].remote = Head(wire[p]).from]
      BY <2>2 DEF HandleByPeer
    <3>2. CASE peer' = [peer EXCEPT ![entry[p]].remote = Head(wire[p]).from]
      BY <1>1, <3>2, Types DEF Peer
    <3>. QED BY <1>4, <3>1, <3>2
  <2>3. ASSUME NEW x \in Peers, HandleAsResponder(p, x) PROVE peer'[y].pod = peer[y].pod
    <3>1. Head(wire[p]) \in Message
      BY <2>3, TakeTypes DEF HandleAsResponder
    <3>2. Head(wire[p]).from \in Peers
      BY <3>1 DEF Message
    <3>3. PICK new \in Peer : \E cleared : Create(p, x, new, Entry(p), cleared)
      BY <2>3, <3>2, NewPeers DEF HandleAsResponder
    <3>. QED BY <1>3, <3>3
  <2>. QED BY <1>6, <2>1, <2>2, <2>3 DEF Handle
<1>7. ASSUME NEW x \in Peers, TimerFires(x) PROVE peer'[y].pod = peer[y].pod
  <2>1. peer[x].pod \in Pods
    BY Types DEF Peer
  <2>2. Entry(peer[x].pod) \cup {x} \in SUBSET Peers
    BY <2>1, Ends DEF LinkInvariant
  <2>. QED BY <1>2, <1>7, <2>2 DEF TimerFires
<1>8. ASSUME NEW x \in Peers, Signal(x) \/ PeerConnects(x) \/ PeerCloses(x)
      PROVE  peer'[y].pod = peer[y].pod
  <2>1. \/ peer' = [peer EXCEPT ![x].signalled = TRUE]
        \/ peer' = [peer EXCEPT ![x].state = "connected"]
        \/ peer' = [peer EXCEPT ![x].state = "closed"]
    BY <1>8 DEF Signal, PeerConnects, PeerCloses
  <2>2. /\ [peer[x] EXCEPT !.signalled = TRUE].pod = peer[x].pod
        /\ [peer[x] EXCEPT !.state = "connected"].pod = peer[x].pod
        /\ [peer[x] EXCEPT !.state = "closed"].pod = peer[x].pod
    BY Types DEF Peer
  <2>3. peer' \in {[peer EXCEPT ![x] = r] : r \in {[peer[x] EXCEPT !.signalled = TRUE],
                      [peer[x] EXCEPT !.state = "connected"], [peer[x] EXCEPT !.state = "closed"]}}
    BY <2>1, Types
  <2>. QED BY <1>1, <2>2, <2>3, Types
<1>9. ASSUME NEW x \in Peers, PeerErrs(x) PROVE peer'[y].pod = peer[y].pod
  BY <1>4, <1>9, Types DEF PeerErrs, Peer
<1>10. ASSUME peer' = peer PROVE peer'[y].pod = peer[y].pod
  BY <1>10
<1>11. ASSUME NEW p \in Pods, Disconnect(p) PROVE peer'[y].pod = peer[y].pod
  BY <1>4, <1>11 DEF Disconnect
<1>12. /\ \A p \in Pods : Lose(p) => peer' = peer
       /\ \A c \in Calls, p \in Pods : ConnectAtOnce(c, p) => peer' = peer
       /\ UNCHANGED vars => peer' = peer
  BY DEF Lose, ConnectAtOnce, vars
<1>. QED
  BY <1>5, <1>6, <1>7, <1>8, <1>9, <1>10, <1>11, <1>12 DEF Next

(* A call that starts to wait does so for a new peer of its pod. *)
LEMMA NewWaiter ==
  ASSUME LinkInvariant, NEW c \in Calls, NEW x \in Peers,
         Retry(c, x) \/ \E p \in Pods : Connect(c, p, x)
  PROVE  /\ call'[c].pc = "waiting" /\ peer'[call'[c].peer].pod = call'[c].pod
         /\ \A d \in Calls \ {c} : call'[d] = call[d] \/ call'[d].pc = "failed"
<1>1. \A d \in Calls : /\ call[d] \in Call
                       /\ [call[d] EXCEPT !.pc = "failed"].pc = "failed"
  BY Types, CallTypes
<1>2. ASSUME NEW p \in Pods, NEW cleared, Create(p, x, Initiator(p), Entry(p), cleared)
      PROVE  peer'[x].pod = p
  BY <1>2, Created, NewPeers
<1>3. ASSUME NEW p \in Pods, Connect(c, p, x)
      PROVE  /\ call'[c].pc = "waiting" /\ peer'[call'[c].peer].pod = call'[c].pod
             /\ \A d \in Calls \ {c} : call'[d] = call[d] \/ call'[d].pc = "failed"
  <2>1. call'[c] = [pc |-> "waiting", pod |-> p, attempt |-> 0, peer |-> x]
    BY <1>3 DEF Connect
  <2>2. peer'[x].pod = p
    BY <1>2, <1>3 DEF Connect
  <2>3. \A d \in Calls \ {c} : call'[d] = call[d] \/ call'[d].pc = "failed"
    BY <1>1, <1>3 DEF Connect
  <2>. QED BY <2>1, <2>2, <2>3
<1>4. ASSUME Retry(c, x)
      PROVE  /\ call'[c].pc = "waiting" /\ peer'[call'[c].peer].pod = call'[c].pod
             /\ \A d \in Calls \ {c} : call'[d] = call[d] \/ call'[d].pc = "failed"
  <2>1. call'[c] = [call[c] EXCEPT !.pc = "waiting", !.attempt = @ + 1, !.peer = x]
    BY <1>4 DEF Retry
  <2>2. call[c] \in Call /\ call[c].pod \in Pods
    BY <1>1 DEF Call
  <2>3. call'[c].pc = "waiting" /\ call'[c].peer = x /\ call'[c].pod = call[c].pod
    BY <2>1, <2>2 DEF Call
  <2>4. peer'[x].pod = call[c].pod
    BY <1>2, <1>4, <2>2 DEF Retry
  <2>5. \A d \in Calls \ {c} : call'[d] = call[d] \/ call'[d].pc = "failed"
    BY <1>1, <1>4 DEF Retry
  <2>. QED BY <2>3, <2>4, <2>5
<1>. QED BY <1>3, <1>4

(* What other steps do to the calls: whoever resolves is a call that finds *)
(* a connection, or one that waits for the promise of the pod whose peer   *)
(* connects.                                                               *)
LEMMA CallsStay ==
  ASSUME LinkInvariant, [Next]_vars, NEW c \in Calls
  PROVE  \/ call'[c] = call[c]
         \/ call'[c].pc \in {"pausing", "failed"}
         \/ call'[c].pc = "waiting" /\ peer'[call'[c].peer].pod = call'[c].pod
         \/ \E p \in Pods : ConnectAtOnce(c, p)
         \/ /\ call'[c] = [call[c] EXCEPT !.pc = "resolved"]
            /\ \E x \in Peers : PeerConnects(x) /\ c \in Waiting(Pending(peer[x].pod))
<1> DEFINE Fine == \/ call'[c] = call[c]
                   \/ call'[c].pc \in {"pausing", "failed"}
                   \/ call'[c].pc = "waiting" /\ peer'[call'[c].peer].pod = call'[c].pod
                   \/ \E p \in Pods : ConnectAtOnce(c, p)
                   \/ /\ call'[c] = [call[c] EXCEPT !.pc = "resolved"]
                      /\ \E x \in Peers : PeerConnects(x) /\ c \in Waiting(Pending(peer[x].pod))
<1>1. /\ call[c] \in Call
      /\ [call[c] EXCEPT !.pc = "failed"].pc = "failed"
      /\ [call[c] EXCEPT !.pc = "pausing"].pc = "pausing"
  BY Types, CallTypes
<1>2. ASSUME NEW S, Reject(S) PROVE Fine
  BY <1>1, <1>2 DEF Reject
<1>3. ASSUME NEW p \in Pods, Destroy(p) PROVE Fine
  BY <1>2, <1>3 DEF Destroy
<1>4. ASSUME NEW d \in Calls, ConnectStep(d) PROVE Fine
  <2>1. PICK x \in Peers : Retry(d, x) \/ \E p \in Pods : Connect(d, p, x)
    BY <1>4 DEF ConnectStep
  <2>2. /\ call'[d].pc = "waiting" /\ peer'[call'[d].peer].pod = call'[d].pod
        /\ \A e \in Calls \ {d} : call'[e] = call[e] \/ call'[e].pc = "failed"
    BY <2>1, NewWaiter
  <2>. QED BY <2>2
<1>5. ASSUME NEW d \in Calls, NEW p \in Pods, ConnectAtOnce(d, p) PROVE Fine
  BY <1>5, Types DEF ConnectAtOnce
<1>6. ASSUME NEW p \in Pods, Handle(p) PROVE Fine
  <2>1. CASE HandleIgnored(p)
    BY <2>1 DEF HandleIgnored
  <2>2. CASE HandleByPeer(p)
    <3>1. call' = call \/ Destroy(p)
      BY <2>2 DEF HandleByPeer
    <3>. QED BY <1>3, <3>1
  <2>3. ASSUME NEW x \in Peers, HandleAsResponder(p, x) PROVE Fine
    BY <1>2, <2>3 DEF HandleAsResponder
  <2>. QED BY <1>6, <2>1, <2>2, <2>3 DEF Handle
<1>7. ASSUME NEW x \in Peers, TimerFires(x) PROVE Fine
  BY <1>1, <1>7 DEF TimerFires
<1>8. ASSUME NEW x \in Peers, PeerConnects(x) PROVE Fine
  BY <1>8 DEF PeerConnects
<1>9. ASSUME NEW x \in Peers, PeerErrs(x) PROVE Fine
  BY <1>3, <1>9, Types DEF PeerErrs, Peer
<1>10. /\ \A x \in Peers : Signal(x) \/ PeerCloses(x) => call' = call
       /\ \A p \in Pods : Lose(p) => call' = call
       /\ \A p \in Pods : Disconnect(p) => Destroy(p)
       /\ UNCHANGED vars => call' = call
  BY DEF Signal, PeerCloses, Lose, Disconnect, vars
<1>11. Fine
  BY <1>3, <1>4, <1>5, <1>6, <1>7, <1>8, <1>9, <1>10 DEF Next
<1>. QED BY <1>11

LEMMA WaitsOnOwnStays == LinkInvariant /\ WaitsOnOwn /\ [Next]_vars => WaitsOnOwn'
<1> SUFFICES ASSUME LinkInvariant, WaitsOnOwn, [Next]_vars,
                    NEW c \in Calls, call'[c].pc = "waiting"
             PROVE  peer'[call'[c].peer].pod = call'[c].pod
  BY DEF WaitsOnOwn
<1>1. CASE call'[c] = call[c]
  <2>1. call[c].peer \in timers /\ peer[call[c].peer].pod = call[c].pod
    BY <1>1 DEF LinkInvariant, UnsettledHasTimer, WaitsOnOwn
  <2>2. peer'[call[c].peer].pod = peer[call[c].peer].pod
    BY <2>1, PodsStay
  <2>. QED BY <1>1, <2>1, <2>2
<1>2. \A p \in Pods : ConnectAtOnce(c, p) => call'[c].pc # "waiting"
  BY Types DEF ConnectAtOnce, Call
<1>3. [call[c] EXCEPT !.pc = "resolved"].pc # "waiting"
  BY Types, CallTypes
<1>. QED BY <1>1, <1>2, <1>3, CallsStay

LEMMA WaitsAlways == Spec => [](LinkInvariant /\ WaitsOnOwn)
<1>1. Init => WaitsOnOwn
  BY DEF Init, WaitsOnOwn
<1>. QED BY <1>1, Initially, Inductive, WaitsOnOwnStays, PTL DEF Spec

LEMMA ResolvesConnected ==
  ASSUME LinkInvariant, WaitsOnOwn, [Next]_vars, NEW c \in Calls,
         call[c].pc # "resolved", call'[c].pc = "resolved"
  PROVE  \E x \in {entry'[call'[c].pod]} \ {0} : peer'[x].state = "connected"
<1>1. ASSUME NEW p \in Pods, ConnectAtOnce(c, p)
      PROVE  \E x \in {entry'[call'[c].pod]} \ {0} : peer'[x].state = "connected"
  <2>1. call'[c].pod = p /\ UNCHANGED <<peer, entry>> /\ Connected(p)
    BY <1>1, Types DEF ConnectAtOnce, Call
  <2>. QED BY <2>1 DEF Connected, Entry, State
<1>2. ASSUME NEW x \in Peers, PeerConnects(x), c \in Waiting(Pending(peer[x].pod)),
             call'[c] = [call[c] EXCEPT !.pc = "resolved"]
      PROVE  \E z \in {entry'[call'[c].pod]} \ {0} : peer'[z].state = "connected"
  <2> DEFINE p == peer[x].pod
  <2>1. p \in Pods /\ x # 0
    BY Types DEF Peer, Peers
  <2>2. /\ peer'[x].state = "connected" /\ entry' = entry /\ entry[p] = x
    BY <1>2, Types DEF PeerConnects, LinkInvariant, LivePeersAreMapped, Live, Peer
  <2>3. call[c].pod = p
    <3>1. call[c].pc = "waiting" /\ call[c].peer \in Pending(p)
      BY <1>2 DEF Waiting
    <3>2. peer[call[c].peer].pod = p
      BY <2>1, <3>1, Own
    <3>. QED BY <3>1, <3>2 DEF WaitsOnOwn
  <2>4. call'[c].pod = p
    BY <1>2, <2>3, Types DEF Call
  <2>. QED BY <2>1, <2>2, <2>4
<1>. QED BY <1>1, <1>2, CallsStay

(* A call resolves only when its pod has a connection that works, though   *)
(* promises are overwritten and settled by other peers than those they     *)
(* were made for.                                                          *)
THEOREM CallsGetConnections == Spec => ResolvedIsConnected
<1>1. LinkInvariant /\ WaitsOnOwn /\ [Next]_vars =>
        [\A c \in Calls :
           call[c].pc # "resolved" =>
             (call[c].pc = "resolved" => Connected(call[c].pod))']_vars
  BY ResolvesConnected DEF Connected, Entry, State
<1>. QED BY <1>1, WaitsAlways, PTL DEF Spec, ResolvedIsConnected

=============================================================================
