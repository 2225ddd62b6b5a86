----------------------------- MODULE P2PBridge -----------------------------
(***************************************************************************)
(* The P2P handles of the C interface (p2p_bridge.cpp) and the WebRTC      *)
(* adapter behind each (webrtc_adapter.cpp).                               *)
(*                                                                         *)
(* The application uses a handle from one thread, which is named like the  *)
(* handle: it makes offers, accepts offers and answers, closes, destroys.  *)
(* libwebrtc has one signaling thread for all its peers: it keeps the      *)
(* promises that a call waits for, and reports the states of links and     *)
(* channels.  Both kinds of thread tell the application of a state, in its *)
(* callback, and the callback may itself call the bridge (CallbackAsks).   *)
(*                                                                         *)
(* What is sent over a channel, the counters and the text of the codes are *)
(* left out; a code is good or it is not.                                  *)
(***************************************************************************)
EXTENDS Naturals

CONSTANTS
  Handles,       \* the handles, and the application's threads that use them
  CallbackAsks,  \* does the state callback call the bridge, dw_p2p_get_info say?
  Asked,         \* which calls the application makes with each handle
  MaxCalls       \* how many, creations aside; bounds the model

Nobody == "nobody"
Operations == {"offer", "accept", "answer", "close", "destroy"}

ASSUME BridgeAssumption ==
  /\ Nobody \notin Handles
  /\ CallbackAsks \in BOOLEAN
  /\ Asked \in [Handles -> SUBSET Operations]
  /\ MaxCalls \in [Handles -> Nat]

VARIABLES
  registry,   \* g_registry
  regMtx,     \* the owner of g_registry_mtx, if it is held over several steps
  adapter,    \* WebrtcAdapter, of every handle
  peer,       \* the PeerConnection of every handle, as libwebrtc has it
  call,       \* what each application thread is doing
  signaling,  \* what libwebrtc's thread is doing
  codes,      \* the codes that were returned: had its peer all candidates?
  undefined,  \* what nobody may do has happened, and the model ends
  calls       \* counts the calls

peerVars == <<adapter, peer>>
vars == <<registry, regMtx, adapter, peer, call, signaling, codes, undefined, calls>>

-----------------------------------------------------------------------------
\* WAIT_ANSWER is declared too; nothing ever sets it.
States == {"NEW", "CONNECTING", "CONNECTED", "FAILED", "CLOSED"}

\* A promise: nobody waits, not kept yet, kept with a value or an exception.
Promises == {"none", "fresh", "value", "exception"}

NewAdapter == [state |-> "NEW", sdp |-> "none", set |-> "none", ice |-> FALSE]

\* What was asked of the peer and is not answered; whether it gathers
\* candidates; its link and its channel.
NoPeer == [open |-> FALSE, asked |-> {}, local |-> FALSE, remote |-> FALSE,
           gathers |-> "no", link |-> "new", channel |-> "none"]
NewPeer == [NoPeer EXCEPT !.open = TRUE]

Idle == [op |-> "none", pc |-> "idle"]
Quiet == [h |-> Nobody, pc |-> "idle"]

Init ==
  /\ registry = {} /\ regMtx = Nobody
  /\ adapter = [h \in Handles |-> NewAdapter]
  /\ peer = [h \in Handles |-> NoPeer]
  /\ call = [h \in Handles |-> Idle]
  /\ signaling = Quiet
  /\ codes = {} /\ undefined = "no"
  /\ calls = [h \in Handles |-> 0]

-----------------------------------------------------------------------------
(* Calls begin.                                                            *)

Goes(h, pc) == call' = [call EXCEPT ![h].pc = pc]
Returns(h) == call' = [call EXCEPT ![h] = Idle]

Enters(h) ==
  /\ call[h].pc = "idle" /\ undefined = "no" /\ regMtx = Nobody
  /\ UNCHANGED <<peer, signaling, codes, undefined>>

Create(h) ==
  /\ Enters(h) /\ h \notin registry
  /\ registry' = registry \cup {h}
  /\ adapter' = [adapter EXCEPT ![h] = NewAdapter]
  /\ UNCHANGED <<regMtx, call, calls>>

Calls(h, op, pc) ==
  /\ Enters(h) /\ h \in registry /\ op \in Asked[h]
  /\ calls[h] < MaxCalls[h] /\ calls' = [calls EXCEPT ![h] = @ + 1]
  /\ call' = [call EXCEPT ![h] = [op |-> op, pc |-> pc]]
  /\ UNCHANGED <<registry, adapter>>

\* find_entry gives the mutex up before the entry is used.
Uses(h, op, pc) == Calls(h, op, pc) /\ UNCHANGED regMtx
GenerateOffer(h) == Uses(h, "offer", "reset")
AcceptOffer(h) == Uses(h, "accept", "reset")
AcceptAnswer(h) == Uses(h, "answer", "decode")
Close(h) == Uses(h, "close", "close")

DestroyUnlocked(h) == Uses(h, "destroy", "close")  \* mutant: without the mutex
\* dw_p2p_destroy keeps the mutex to its end.
Destroy(h) == Calls(h, "destroy", "close") /\ regMtx' = h

-----------------------------------------------------------------------------
(* The steps of a call.                                                    *)

Runs(h, pc) == undefined = "no" /\ call[h].pc = pc
CallFrame == UNCHANGED <<registry, regMtx, signaling, codes, undefined, calls>>

\* RTCPeerConnection::Close is carried out by the signaling thread.
CanClose(h) == peer[h].open => signaling.pc = "idle"

\* emit_state: the new state is stored; the callback is another step.
Emits(h, state) == adapter' = [adapter EXCEPT ![h].state = state]

\* What is asked of the peer gets a promise; CreateOffer and CreateAnswer have
\* one, SetRemoteDescription and SetLocalDescription the other.
SetStale(ad, which) == ad  \* mutant: with the promise of the call before
Set(ad, which) == [ad EXCEPT ![which] = "fresh"]
Promise(what) == IF what = "create" THEN "sdp" ELSE "set"
Asks(h, ad, pr, what) ==
  /\ adapter' = [adapter EXCEPT ![h] = Set(ad, Promise(what))]
  /\ peer' = [peer EXCEPT ![h] = [pr EXCEPT !.asked = @ \cup {what}]]
  /\ Goes(h, IF what = "create" THEN "waitSdp" ELSE "waitSet")

\* reset_internal: nobody is told that the state is NEW again.
ResetInternalState(h) == adapter[h]  \* mutant: the state of the old one stays
ResetInternal(h) == [adapter[h] EXCEPT !.state = "NEW"]
ResetAdapterIce(h) ==  \* mutant: ice_done_ stays
  [NewAdapter EXCEPT !.state = ResetInternal(h).state, !.ice = adapter[h].ice]
ResetAdapter(h) == [NewAdapter EXCEPT !.state = ResetInternal(h).state]

\* generate_offer and accept_offer begin with reset_internal; then the code is
\* decoded, a peer created and what is waited for is reset.
Signal(h) ==
  /\ Runs(h, "reset") /\ CanClose(h)
  /\ \/ /\ adapter' = [adapter EXCEPT ![h] = ResetInternal(h)]
        /\ peer' = [peer EXCEPT ![h] = NoPeer]
        /\ Returns(h)
     \/ Asks(h, ResetAdapter(h), NewPeer,
             IF call[h].op = "offer" THEN "create" ELSE "setRemote")
  /\ CallFrame

\* accept_answer decodes the code, and needs a peer.
Answer(h) ==
  /\ Runs(h, "decode")
  /\ \/ Returns(h) /\ UNCHANGED peerVars
     \/ /\ peer[h].open
        /\ Asks(h, adapter[h], peer[h], "setRemote")
  /\ CallFrame

\* The description has ten seconds, and is set when it is there.
WaitSdpForever(h) ==  \* mutant: it has no limit
  /\ Runs(h, "waitSdp") /\ adapter[h].sdp = "value"
  /\ Asks(h, [adapter[h] EXCEPT !.sdp = "none"], peer[h], "setLocal")
  /\ CallFrame
WaitSdp(h) ==
  /\ Runs(h, "waitSdp")
  /\ \/ /\ adapter[h].sdp = "value"
        /\ Asks(h, [adapter[h] EXCEPT !.sdp = "none"], peer[h], "setLocal")
     \/ /\ adapter[h].sdp # "value"
        /\ Emits(h, "FAILED") /\ Goes(h, "tell") /\ UNCHANGED peer
  /\ CallFrame

\* To set a description has no limit.  What follows depends on which it was;
\* adding the candidates of a code may fail as well.
WaitSet(h) ==
  LET kept == adapter[h].set
      got == [adapter[h] EXCEPT !.set = "none"]
      Got(ad) == adapter' = [adapter EXCEPT ![h] = ad] /\ UNCHANGED peer
  IN /\ Runs(h, "waitSet") /\ kept \in {"value", "exception"}
     /\ \/ Returns(h) /\ Got(got)
        \/ /\ kept = "value" /\ call[h].op = "answer"
           /\ Goes(h, "tell") /\ Got([got EXCEPT !.state = "CONNECTING"])
        \/ /\ kept = "value" /\ call[h].op # "answer" /\ peer[h].local
           /\ Goes(h, "waitIce") /\ Got(got)
        \/ /\ kept = "value" /\ call[h].op = "accept" /\ ~peer[h].local
           /\ Asks(h, got, peer[h], "create")
     /\ CallFrame

\* Fifteen seconds for the candidates, then the code is made of them.
WaitIce(h) ==
  /\ Runs(h, "waitIce")
  /\ \/ /\ adapter[h].ice
        /\ codes' = codes \cup {peer[h].gathers = "over"}
        /\ Returns(h) /\ UNCHANGED adapter
     \/ /\ ~adapter[h].ice
        /\ Emits(h, "FAILED") /\ Goes(h, "tell") /\ UNCHANGED codes
  /\ UNCHANGED <<registry, regMtx, peer, signaling, undefined, calls>>

\* close, also from the destructor; one that is CLOSED is left as it is.
Closes(h) ==
  /\ Runs(h, "close")
  /\ \/ /\ adapter[h].state = "CLOSED"
        /\ IF call[h].op = "destroy" THEN Goes(h, "observers") ELSE Returns(h)
        /\ UNCHANGED peerVars
     \/ /\ adapter[h].state # "CLOSED" /\ CanClose(h)
        /\ peer' = [peer EXCEPT ![h] = NoPeer]
        /\ Emits(h, "CLOSED") /\ Goes(h, "tell")
  /\ CallFrame

\* The application's callback runs in the thread that has stored the state.
CallbackReturns == CallbackAsks => regMtx = Nobody
Tell(h) ==
  /\ Runs(h, "tell") /\ CallbackReturns
  /\ IF call[h].op = "destroy" THEN Goes(h, "observers") ELSE Returns(h)
  /\ CallFrame /\ UNCHANGED peerVars

\* The rest of the destructor frees the observers and then lets go of the
\* peer, which may still be open.
FreeObservers(h) ==
  /\ Runs(h, "observers")
  /\ undefined' = IF signaling.h = h THEN "observer" ELSE "no"
  /\ Goes(h, "release")
  /\ UNCHANGED <<registry, regMtx, peerVars, signaling, codes, calls>>
Release(h) ==
  /\ Runs(h, "release") /\ CanClose(h)
  /\ peer' = [peer EXCEPT ![h] = NoPeer]
  /\ registry' = registry \ {h} /\ regMtx' = Nobody
  /\ Returns(h)
  /\ UNCHANGED <<adapter, signaling, codes, undefined, calls>>

-----------------------------------------------------------------------------
(* The signaling thread.                                                   *)

Serves(h) == undefined = "no" /\ signaling.pc = "idle" /\ peer[h].open
ServeFrame == UNCHANGED <<registry, regMtx, call, codes, calls>>

\* set_value or set_exception.
Keeps(h, promise, how) ==
  /\ adapter' = [adapter EXCEPT ![h][promise] = how]
  /\ undefined' = IF adapter[h][promise] = "fresh" THEN "no" ELSE "promise"

\* The description is there; or there is none, which is only logged.
SdpArrives(h) ==
  /\ Serves(h) /\ "create" \in peer[h].asked
  /\ peer' = [peer EXCEPT ![h].asked = @ \ {"create"}]
  /\ \/ Keeps(h, "sdp", "value")
     \/ UNCHANGED <<adapter, undefined>>
  /\ ServeFrame /\ UNCHANGED signaling

\* A description is set.  The local one starts the gathering.
SetArrives(h, which) ==
  LET left == peer[h].asked \ {which}
      Becomes(pr) == peer' = [peer EXCEPT ![h] = pr]
  IN /\ Serves(h) /\ which \in peer[h].asked
     /\ \/ /\ Keeps(h, "set", "value")
           /\ Becomes(IF which = "setLocal"
                      THEN [peer[h] EXCEPT !.asked = left, !.local = TRUE, !.gathers = "runs"]
                      ELSE [peer[h] EXCEPT !.asked = left, !.remote = TRUE])
        \/ Keeps(h, "set", "exception") /\ Becomes([peer[h] EXCEPT !.asked = left])
     /\ ServeFrame /\ UNCHANGED signaling

OnIceGatheringState(h) ==
  /\ Serves(h) /\ peer[h].gathers = "runs"
  /\ peer' = [peer EXCEPT ![h].gathers = "over"]
  /\ adapter' = [adapter EXCEPT ![h].ice = TRUE]
  /\ ServeFrame /\ UNCHANGED <<signaling, undefined>>

\* An event that calls an observer, which emits a state.
Observed(h, state) ==
  IF call[h].pc = "release"
  THEN undefined' = "observer" /\ UNCHANGED <<adapter, signaling>>
  ELSE /\ Emits(h, state)
       /\ signaling' = [h |-> h, pc |-> "tell"]
       /\ UNCHANGED undefined

\* The states of a link, and what the observer makes of them.
Reported == [connecting |-> "CONNECTING", connected |-> "CONNECTED",
             disconnected |-> "CLOSED", failed |-> "FAILED"]
LinkNext ==
  [new |-> {"connecting"}, connecting |-> {"connected", "failed"},
   connected |-> {"disconnected"}, disconnected |-> {"connected", "failed"},
   failed |-> {}]
OnPeerConnectionState(h) ==
  /\ Serves(h) /\ peer[h].local /\ peer[h].remote
  /\ \E link \in LinkNext[peer[h].link] :
       /\ peer' = [peer EXCEPT ![h].link = link]
       /\ Observed(h, Reported[link])
  /\ ServeFrame

\* A channel of the other side's: it is taken, opens and closes.
OnStateChange(h) ==
  /\ Serves(h) /\ peer[h].link = "connected"
  /\ \/ /\ peer[h].channel = "none"
        /\ peer' = [peer EXCEPT ![h].channel = "open"]
        /\ Observed(h, "CONNECTED")
     \/ /\ peer[h].channel = "open"
        /\ peer' = [peer EXCEPT ![h].channel = "none"]
        /\ Observed(h, "CLOSED")
  /\ ServeFrame

SignalingTells ==
  /\ undefined = "no" /\ signaling.pc = "tell" /\ CallbackReturns
  /\ signaling' = Quiet
  /\ UNCHANGED <<registry, regMtx, adapter, peer, call, codes, undefined, calls>>

-----------------------------------------------------------------------------
Begin(h) ==
  \/ Create(h) \/ GenerateOffer(h) \/ AcceptOffer(h) \/ AcceptAnswer(h)
  \/ Close(h) \/ Destroy(h)
CallStep(h) ==
  \/ Signal(h) \/ Answer(h) \/ WaitSdp(h) \/ WaitSet(h) \/ WaitIce(h) \/ Closes(h)
  \/ Tell(h) \/ FreeObservers(h) \/ Release(h)
SetAnswer(h) == SetArrives(h, "setRemote") \/ SetArrives(h, "setLocal")
Event(h) ==
  SdpArrives(h) \/ OnIceGatheringState(h) \/ OnPeerConnectionState(h) \/ OnStateChange(h)

Next ==
  \/ \E h \in Handles : Begin(h) \/ CallStep(h) \/ SetAnswer(h) \/ Event(h)
  \/ SignalingTells
Spec == Init /\ [][Next]_vars

\* The threads run, whoever waits for the registry's mutex or for the
\* signaling thread gets it, and libwebrtc answers when a description is set:
\* nothing limits that wait.
Fairness ==
  /\ \A h \in Handles : SF_vars(CallStep(h)) /\ SF_vars(SetAnswer(h))
  /\ WF_vars(SignalingTells)
FairSpec == Spec /\ Fairness

-----------------------------------------------------------------------------
(* Properties.                                                             *)

Pcs == {"idle", "reset", "decode", "waitSdp", "waitSet", "waitIce", "close",
        "tell", "observers", "release"}

\* A peer belongs to a handle that is there, and so does what the signaling
\* thread is at; the mutex is held over steps by a destroy only.
TypeOK ==
  /\ registry \subseteq Handles /\ regMtx \in Handles \cup {Nobody}
  /\ adapter \in [Handles -> [state : States, sdp : Promises, set : Promises,
                              ice : BOOLEAN]]
  /\ call \in [Handles -> [op : Operations \cup {"none"}, pc : Pcs]]
  /\ signaling \in [h : Handles \cup {Nobody}, pc : {"idle", "tell"}]
  /\ codes \subseteq BOOLEAN /\ undefined \in {"no", "promise", "observer"}
  /\ \A h \in Handles : peer[h].open => h \in registry
  /\ signaling.pc = "tell" => signaling.h \in registry
  /\ regMtx # Nobody <=> \E h \in Handles : call[h].op = "destroy"

\* A code has all the candidates of the peer it was made for, also when a
\* handle makes a second one (ice_done_, candidates_).
CodeIsWhole == FALSE \notin codes

\* No promise is kept twice, which would throw in libwebrtc's thread: each
\* wait has a promise of its own, and a peer that is closed keeps none.
PromiseKeptOnce == undefined # "promise"

\* The bridge reports a connection only of a peer that is still open: close
\* and a new offer end what the old peer says.
ConnectedIsLive ==
  \A h \in registry : adapter[h].state = "CONNECTED" => peer[h].open

\* Every call returns, whatever the other handles' threads do.
CallsReturn ==
  \A h \in Handles : call[h].pc # "idle" ~> (call[h].pc = "idle" \/ undefined # "no")

=============================================================================
