--------------------------- MODULE P2PBridgeProofs ---------------------------
(***************************************************************************)
(* What the bridge promises for every number of handles and calls: no      *)
(* promise is kept twice, a code is whole, a connection that is reported   *)
(* has a peer.                                                             *)
(***************************************************************************)
EXTENDS P2PBridge, TLAPS

AdapterType == [state : States, sdp : Promises, set : Promises, ice : BOOLEAN]
Links == {"new", "connecting", "connected", "disconnected", "failed"}
PeerType ==
  [open : BOOLEAN, asked : SUBSET {"create", "setRemote", "setLocal"},
   local : BOOLEAN, remote : BOOLEAN, gathers : {"no", "runs", "over"},
   link : Links, channel : {"none", "open"}]
CallType == [op : Operations \cup {"none"}, pc : Pcs]

FieldsOK ==
  /\ registry \subseteq Handles /\ regMtx \in Handles \cup {Nobody}
  /\ adapter \in [Handles -> AdapterType]
  /\ peer \in [Handles -> PeerType]
  /\ call \in [Handles -> CallType]
  /\ signaling \in [h : Handles \cup {Nobody}, pc : {"idle", "tell"}]
  /\ undefined \in {"no", "promise", "observer"}

Waiting == {"waitSdp", "waitSet", "waitIce"}
Sets == {"setRemote", "setLocal"}

\* The mutex is its owner's, who destroys; a call and a peer belong to a handle
\* that is there, and what is waited for to a peer that is open.
Owns(h) ==
  /\ call[h].op = "destroy" <=> regMtx = h
  /\ call[h].pc \in {"observers", "release"} => call[h].op = "destroy"
  /\ call[h].op = "destroy" => call[h].pc \in {"close", "tell", "observers", "release"}
  /\ call[h].op = "none" <=> call[h].pc = "idle"
  /\ call[h].pc # "idle" => h \in registry
  /\ peer[h].open => h \in registry
  /\ call[h].pc \in Waiting => peer[h].open

\* What is asked of a peer has a promise that is not kept yet, and that of a
\* description that is set has its caller waiting.
AsksOnce(h) ==
  /\ "create" \in peer[h].asked => adapter[h].sdp = "fresh"
  /\ "setRemote" \in peer[h].asked \/ "setLocal" \in peer[h].asked =>
       adapter[h].set = "fresh" /\ call[h].pc = "waitSet"
  /\ ~("setRemote" \in peer[h].asked /\ "setLocal" \in peer[h].asked)
  /\ peer[h].asked # {} => peer[h].open

\* A peer gathers once, after its local description is set.
Gathers(h) ==
  /\ call[h].pc = "waitSdp" \/ "setLocal" \in peer[h].asked => ~peer[h].local
  /\ ~peer[h].local => peer[h].gathers = "no"
  /\ peer[h].open /\ adapter[h].ice => peer[h].gathers = "over"

Live(h) == h \in registry /\ adapter[h].state = "CONNECTED" => peer[h].open

HandleInv(h) == Owns(h) /\ AsksOnce(h) /\ Gathers(h) /\ Live(h)

\* What the signaling thread is at belongs to a peer that is open.
SignalingInv == signaling.pc = "tell" => signaling.h \in Handles /\ peer[signaling.h].open

IInv ==
  /\ FieldsOK /\ SignalingInv
  /\ codes \subseteq {TRUE} /\ undefined # "promise"
  /\ \A h \in Handles : HandleInv(h)

-----------------------------------------------------------------------------
LEMMA NewTypes ==
  /\ NewAdapter \in AdapterType /\ NoPeer \in PeerType /\ NewPeer \in PeerType
  /\ Idle \in CallType
  /\ ~NoPeer.open /\ NewPeer.open
  /\ \A p \in {NoPeer, NewPeer} : p.asked = {} /\ ~p.local /\ p.gathers = "no"
<1>1. NewAdapter \in AdapterType /\ Idle \in CallType
  BY DEF NewAdapter, AdapterType, States, Promises, Idle, CallType, Operations, Pcs
<1>2. NoPeer \in PeerType /\ ~NoPeer.open /\ NoPeer.asked = {} /\ ~NoPeer.local
      /\ NoPeer.gathers = "no"
  BY DEF NoPeer, PeerType, Links
<1>3. NewPeer \in PeerType /\ NewPeer.open /\ NewPeer.asked = {} /\ ~NewPeer.local
      /\ NewPeer.gathers = "no"
  BY <1>2 DEF NewPeer, PeerType
<1> QED
  BY <1>1, <1>2, <1>3

\* What a step of one handle does to the others.
Touches(h) ==
  /\ \A g \in Handles \ {h} :
       /\ adapter'[g] = adapter[g] /\ peer'[g] = peer[g] /\ call'[g] = call[g]
       /\ g \in registry' <=> g \in registry
  /\ regMtx' = regMtx \/ (regMtx \in {h, Nobody} /\ regMtx' \in {h, Nobody})

\* A step of one handle keeps the invariant if it keeps it for its own.
LEMMA Frame ==
  ASSUME IInv, NEW h \in Handles, Touches(h), FieldsOK', HandleInv(h)',
         \/ signaling' = signaling /\ (peer[h].open /\ ~peer'[h].open => signaling.pc = "idle")
         \/ signaling'.pc = "idle"
         \/ signaling'.h = h /\ peer'[h].open,
         codes' \subseteq {TRUE}, undefined' # "promise"
  PROVE  IInv'
<1>1. ASSUME NEW g \in Handles, g # h PROVE HandleInv(g)'
  <2>1. /\ adapter'[g] = adapter[g] /\ peer'[g] = peer[g] /\ call'[g] = call[g]
        /\ g \in registry' <=> g \in registry
        /\ regMtx' = g <=> regMtx = g
        /\ HandleInv(g)
    BY <1>1, BridgeAssumption DEF Touches, IInv
  <2>2. Owns(g)'
    BY <2>1 DEF Owns, HandleInv
  <2>3. AsksOnce(g)' /\ Gathers(g)' /\ Live(g)'
    BY <2>1 DEF AsksOnce, Gathers, Live, HandleInv
  <2> QED
    BY <2>2, <2>3 DEF HandleInv
<1>2. SignalingInv'
  <2>1. CASE signaling' = signaling /\ (peer[h].open /\ ~peer'[h].open => signaling.pc = "idle")
    BY <2>1 DEF SignalingInv, IInv, Touches
  <2>2. CASE signaling'.pc = "idle" \/ (signaling'.h = h /\ peer'[h].open)
    BY <2>2 DEF SignalingInv
  <2> QED
    BY <2>1, <2>2
<1> QED
  BY <1>1, <1>2 DEF IInv

LEMMA InvInit == Init => IInv
<1> SUFFICES ASSUME Init PROVE IInv
  OBVIOUS
<1>1. FieldsOK
  BY NewTypes DEF Init, FieldsOK, Quiet
<1>2. ASSUME NEW h \in Handles PROVE HandleInv(h)
  <2>1. /\ call[h].op = "none" /\ call[h].pc = "idle" /\ regMtx # h
        /\ ~peer[h].open /\ peer[h].asked = {} /\ peer[h].gathers = "no" /\ h \notin registry
    BY NewTypes, BridgeAssumption DEF Init, Idle
  <2> QED
    BY <2>1 DEF HandleInv, Owns, AsksOnce, Gathers, Live, Waiting
<1> QED
  BY <1>1, <1>2 DEF IInv, Init, SignalingInv, Quiet

-----------------------------------------------------------------------------
(* Calls begin.                                                            *)

LEMMA BeginStep ==
  ASSUME IInv, NEW h \in Handles, Begin(h)
  PROVE  IInv'
<1> USE DEF FieldsOK
<1>1. HandleInv(h) /\ FieldsOK /\ codes \subseteq {TRUE} /\ undefined # "promise"
  BY DEF IInv
<1>2. CASE Create(h)
  <2>1. /\ call[h].pc = "idle" /\ regMtx = Nobody /\ h \notin registry
        /\ UNCHANGED <<peer, signaling, codes, undefined, call, regMtx>>
        /\ registry' = registry \cup {h}
        /\ adapter' = [adapter EXCEPT ![h] = NewAdapter]
    BY <1>2 DEF Create, Enters
  <2>2. Touches(h) /\ FieldsOK'
    BY <1>1, <2>1, NewTypes DEF Touches
  <2>3. adapter'[h] = NewAdapter /\ NewAdapter.state = "NEW"
    BY <1>1, <2>1 DEF NewAdapter
  <2>4. ~peer[h].open /\ h \in registry'
    BY <1>1, <2>1 DEF HandleInv, Owns
  <2>5. peer[h].asked = {}
    BY <1>1, <2>4 DEF HandleInv, AsksOnce
  <2> QED
    BY <1>1, <2>1, <2>2, <2>3, <2>4, <2>5, Frame
    DEF HandleInv, Owns, AsksOnce, Gathers, Live, Waiting
<1>3. ASSUME NEW op \in Operations, NEW pc \in {"reset", "decode", "close"},
             Calls(h, op, pc),
             \/ op # "destroy" /\ UNCHANGED regMtx
             \/ op = "destroy" /\ pc = "close" /\ regMtx' = h
      PROVE  IInv'
  <2>1. /\ call[h].pc = "idle" /\ regMtx = Nobody /\ h \in registry
        /\ UNCHANGED <<peer, signaling, codes, undefined, registry, adapter>>
        /\ call' = [call EXCEPT ![h] = [op |-> op, pc |-> pc]]
    BY <1>3 DEF Calls, Enters
  <2>2. [op |-> op, pc |-> pc] \in CallType
    BY DEF CallType, Pcs
  <2>3. Touches(h) /\ FieldsOK'
    BY <1>1, <1>3, <2>1, <2>2 DEF Touches
  <2>4. call'[h].op = op /\ call'[h].pc = pc
    BY <1>1, <2>1
  <2>5. op # "none"
    BY DEF Operations
  <2>6. Owns(h)'
    BY <1>1, <1>3, <2>1, <2>4, <2>5, BridgeAssumption DEF HandleInv, Owns, Waiting
  <2>7. AsksOnce(h)' /\ Gathers(h)' /\ Live(h)'
    BY <1>1, <2>1, <2>4 DEF HandleInv, AsksOnce, Gathers, Live
  <2> QED
    BY <1>1, <2>1, <2>3, <2>6, <2>7, Frame DEF HandleInv
<1>4. ASSUME NEW op \in {"offer", "accept", "answer", "close"},
             NEW pc \in {"reset", "decode", "close"}, Uses(h, op, pc)
      PROVE  IInv'
  <2>1. op \in Operations /\ op # "destroy"
    BY DEF Operations
  <2> QED
    BY <1>3, <1>4, <2>1 DEF Uses
<1>5. CASE Destroy(h)
  <2>1. Calls(h, "destroy", "close") /\ regMtx' = h /\ "destroy" \in Operations
    BY <1>5 DEF Destroy, Operations
  <2> QED
    BY <1>3, <2>1
<1> QED
  BY <1>2, <1>4, <1>5
  DEF Begin, GenerateOffer, AcceptOffer, AcceptAnswer, Close

-----------------------------------------------------------------------------
(* The steps of a call.                                                    *)

LEMMA SignalStep ==
  ASSUME IInv, NEW h \in Handles, Signal(h)
  PROVE  IInv'
<1> USE DEF FieldsOK
<1>1. HandleInv(h) /\ FieldsOK /\ codes \subseteq {TRUE} /\ undefined # "promise"
  BY DEF IInv
<1>2. /\ call[h].pc = "reset" /\ CanClose(h)
      /\ UNCHANGED <<registry, regMtx, signaling, codes, undefined, calls>>
  BY DEF Signal, Runs, CallFrame
<1>3. CASE /\ adapter' = [adapter EXCEPT ![h] = ResetInternal(h)]
           /\ peer' = [peer EXCEPT ![h] = NoPeer]
           /\ Returns(h)
  <2>1. ResetInternal(h) \in AdapterType /\ ResetInternal(h).state = "NEW"
    BY <1>1 DEF ResetInternal, AdapterType, States
  <2>2. Touches(h) /\ FieldsOK'
    BY <1>1, <1>2, <1>3, <2>1, NewTypes DEF Touches, Returns
  <2>3. adapter'[h].state = "NEW" /\ peer'[h] = NoPeer /\ call'[h] = Idle
    BY <1>1, <1>3, <2>1 DEF Returns
  <2>4. Idle.pc = "idle" /\ Idle.op = "none"
    BY DEF Idle
  <2>5. Owns(h)'
    BY <1>1, <1>2, <2>3, <2>4, NewTypes DEF HandleInv, Owns, Waiting
  <2>6. AsksOnce(h)' /\ Gathers(h)' /\ Live(h)'
    BY <2>3, <2>4, NewTypes DEF AsksOnce, Gathers, Live
  <2> QED
    BY <1>1, <1>2, <2>2, <2>5, <2>6, Frame DEF HandleInv, CanClose
<1>4. CASE Asks(h, ResetAdapter(h), NewPeer,
                IF call[h].op = "offer" THEN "create" ELSE "setRemote")
  <2> DEFINE what == IF call[h].op = "offer" THEN "create" ELSE "setRemote"
  <2>1. /\ ResetAdapter(h) \in AdapterType /\ ResetAdapter(h).state = "NEW"
        /\ ~ResetAdapter(h).ice
    BY <1>1, NewTypes DEF ResetAdapter, ResetInternal, NewAdapter, AdapterType, States
  <2> DEFINE ad == Set(ResetAdapter(h), Promise(what))
  <2>2. /\ ad \in AdapterType /\ ad.state = "NEW" /\ ~ad.ice
        /\ what = "create" => ad.sdp = "fresh"
        /\ what = "setRemote" => ad.set = "fresh"
    BY <2>1 DEF Set, Promise, AdapterType, Promises
  <2> DEFINE pr == [NewPeer EXCEPT !.asked = @ \cup {what}]
  <2>3. pr \in PeerType /\ pr.open /\ pr.asked = {what} /\ ~pr.local /\ pr.gathers = "no"
    BY NewTypes DEF PeerType
  <2> DEFINE pc == IF what = "create" THEN "waitSdp" ELSE "waitSet"
  <2>4. /\ adapter' = [adapter EXCEPT ![h] = ad] /\ peer' = [peer EXCEPT ![h] = pr]
        /\ call' = [call EXCEPT ![h].pc = pc]
    BY <1>4 DEF Asks, Goes
  <2>5. what \in {"create", "setRemote"} /\ pc \in Pcs
    BY DEF Pcs
  <2> HIDE DEF ad, pr, what, pc
  <2>6. call'[h].pc = pc /\ call'[h].op = call[h].op /\ adapter'[h] = ad /\ peer'[h] = pr
    BY <1>1, <2>4 DEF CallType
  <2>7. Touches(h)
    BY <1>1, <1>2, <2>4 DEF Touches
  <2>8. FieldsOK'
    BY <1>1, <1>2, <2>2, <2>3, <2>4, <2>5 DEF CallType
  <2>9. Owns(h)'
    BY <1>1, <1>2, <2>3, <2>5, <2>6 DEF HandleInv, Owns, Waiting, pc
  <2>10. AsksOnce(h)' /\ Gathers(h)' /\ Live(h)'
    BY <2>2, <2>3, <2>5, <2>6 DEF AsksOnce, Gathers, Live, pc
  <2> QED
    BY <1>1, <1>2, <2>3, <2>6, <2>7, <2>8, <2>9, <2>10, Frame DEF HandleInv
<1> QED
  BY <1>3, <1>4 DEF Signal

\* A description or a candidate that fails, a timeout, or the next thing asked:
\* a step of a call that asks for something keeps the invariant.
LEMMA AsksStep ==
  ASSUME IInv, NEW h \in Handles, NEW ad \in AdapterType,
         NEW what \in {"create", "setRemote", "setLocal"},
         Asks(h, ad, peer[h], what), CallFrame,
         peer[h].open, call[h].pc \in {"decode", "waitSdp", "waitSet"},
         call[h].op # "destroy",
         what \in Sets => /\ "setRemote" \notin peer[h].asked
                          /\ "setLocal" \notin peer[h].asked
                          /\ ad.sdp = adapter[h].sdp \/ "create" \notin peer[h].asked,
         what = "create" => "setLocal" \notin peer[h].asked /\ "setRemote" \notin peer[h].asked,
         what # "setRemote" => ~peer[h].local,
         ad.ice = adapter[h].ice, ad.state = adapter[h].state
  PROVE  IInv'
<1> USE DEF FieldsOK
<1>1. HandleInv(h) /\ FieldsOK /\ codes \subseteq {TRUE} /\ undefined # "promise"
  BY DEF IInv
<1> DEFINE set == Set(ad, Promise(what))
           pr == [peer[h] EXCEPT !.asked = @ \cup {what}]
           pc == IF what = "create" THEN "waitSdp" ELSE "waitSet"
<1>2. /\ set \in AdapterType /\ set.state = ad.state /\ set.ice = ad.ice
      /\ what = "create" => set.sdp = "fresh"
      /\ what # "create" => set.set = "fresh" /\ set.sdp = ad.sdp
  BY DEF Set, Promise, AdapterType, Promises
<1>3. /\ pr \in PeerType /\ pr.open /\ pr.asked = peer[h].asked \cup {what}
      /\ pr.local = peer[h].local /\ pr.gathers = peer[h].gathers
  BY <1>1 DEF PeerType
<1>4. /\ adapter' = [adapter EXCEPT ![h] = set] /\ peer' = [peer EXCEPT ![h] = pr]
      /\ call' = [call EXCEPT ![h].pc = pc]
      /\ UNCHANGED <<registry, regMtx, signaling, codes, undefined>>
  BY DEF Asks, Goes, CallFrame
<1>5. pc \in Pcs
  BY DEF Pcs
<1> HIDE DEF set, pr, pc
<1>6. call'[h].pc = pc /\ call'[h].op = call[h].op /\ adapter'[h] = set /\ peer'[h] = pr
  BY <1>1, <1>4 DEF CallType
<1>7. Touches(h)
  BY <1>1, <1>4 DEF Touches
<1>8. FieldsOK'
  BY <1>1, <1>2, <1>3, <1>4, <1>5 DEF CallType
<1>9. Owns(h)'
  BY <1>1, <1>3, <1>4, <1>6 DEF HandleInv, Owns, Waiting, pc
<1>10. AsksOnce(h)' 
  BY <1>1, <1>2, <1>3, <1>6 DEF HandleInv, AsksOnce, pc, Sets
<1>11. Gathers(h)' /\ Live(h)'
  BY <1>1, <1>2, <1>3, <1>4, <1>6 DEF HandleInv, Gathers, AsksOnce, Live, pc, Sets
<1> QED
  BY <1>1, <1>3, <1>4, <1>6, <1>7, <1>8, <1>9, <1>10, <1>11, Frame DEF HandleInv

\* A step of a call that asks for nothing.
LEMMA GoesOnStep ==
  ASSUME IInv, NEW h \in Handles, NEW ad \in AdapterType, NEW c \in CallType,
         adapter' = [adapter EXCEPT ![h] = ad], call' = [call EXCEPT ![h] = c],
         UNCHANGED <<registry, regMtx, peer, signaling>>,
         codes' \subseteq {TRUE}, undefined' # "promise", undefined' \in {"no", "observer"},
         call[h].pc # "idle", call[h].op # "destroy",
         \/ c = Idle
         \/ c.op = call[h].op /\ c.pc = "tell"
         \/ c.op = call[h].op /\ c.pc = "waitIce" /\ peer[h].open,
         peer[h].asked \cap Sets = {},
         "create" \in peer[h].asked => ad.sdp = "fresh",
         ad.ice = adapter[h].ice,
         ad.state \in {adapter[h].state, "FAILED", "CONNECTING"}
  PROVE  IInv'
<1> USE DEF FieldsOK
<1>1. HandleInv(h) /\ FieldsOK
  BY DEF IInv
<1>2. call'[h] = c /\ adapter'[h] = ad /\ peer'[h] = peer[h]
  BY <1>1
<1>3. Touches(h) /\ FieldsOK'
  BY <1>1 DEF Touches
<1>4. Idle.op = "none" /\ Idle.pc = "idle"
  BY DEF Idle
<1>5. Owns(h)'
  BY <1>1, <1>2, <1>4 DEF HandleInv, Owns, Waiting
<1>6. AsksOnce(h)' /\ Gathers(h)' /\ Live(h)'
  BY <1>1, <1>2, <1>4 DEF HandleInv, AsksOnce, Gathers, Live, Sets
<1> QED
  BY <1>1, <1>2, <1>3, <1>5, <1>6, Frame DEF HandleInv

LEMMA AnswerStep ==
  ASSUME IInv, NEW h \in Handles, Answer(h)
  PROVE  IInv'
<1>1. HandleInv(h) /\ FieldsOK /\ codes \subseteq {TRUE} /\ undefined # "promise"
  BY DEF IInv
<1>2. call[h].pc = "decode" /\ call[h].op # "destroy"
  BY <1>1 DEF Answer, Runs, HandleInv, Owns
<1>3. /\ "setRemote" \notin peer[h].asked /\ "setLocal" \notin peer[h].asked
      /\ adapter[h] \in AdapterType
  BY <1>1, <1>2 DEF HandleInv, AsksOnce, FieldsOK
<1>4. CASE Returns(h) /\ UNCHANGED peerVars
  <2>1. adapter' = [adapter EXCEPT ![h] = adapter[h]] /\ peer' = peer
    BY <1>1, <1>4 DEF peerVars, FieldsOK
  <2> QED
    BY <1>1, <1>2, <1>3, <1>4, <2>1, NewTypes, GoesOnStep
    DEF Answer, Returns, CallFrame, HandleInv, AsksOnce, Sets, Runs
<1>5. CASE peer[h].open /\ Asks(h, adapter[h], peer[h], "setRemote")
  BY <1>1, <1>2, <1>3, <1>5, AsksStep DEF Answer, Sets
<1> QED
  BY <1>4, <1>5 DEF Answer

LEMMA WaitSdpStep ==
  ASSUME IInv, NEW h \in Handles, WaitSdp(h)
  PROVE  IInv'
<1>1. HandleInv(h) /\ FieldsOK /\ codes \subseteq {TRUE} /\ undefined # "promise"
  BY DEF IInv
<1>2. /\ call[h].pc = "waitSdp" /\ call[h].op # "destroy" /\ peer[h].open
      /\ "setRemote" \notin peer[h].asked /\ "setLocal" \notin peer[h].asked
      /\ ~peer[h].local
  BY <1>1 DEF WaitSdp, Runs, HandleInv, Owns, AsksOnce, Gathers, Waiting
<1>3. CASE /\ adapter[h].sdp = "value"
           /\ Asks(h, [adapter[h] EXCEPT !.sdp = "none"], peer[h], "setLocal")
  <2> DEFINE ad == [adapter[h] EXCEPT !.sdp = "none"]
  <2>1. ad \in AdapterType /\ ad.ice = adapter[h].ice /\ ad.state = adapter[h].state
    BY <1>1 DEF FieldsOK, AdapterType, Promises
  <2>2. "create" \notin peer[h].asked
    BY <1>1, <1>3 DEF HandleInv, AsksOnce
  <2>3. Asks(h, ad, peer[h], "setLocal")
    BY <1>3
  <2> HIDE DEF ad
  <2> QED
    BY <1>2, <2>1, <2>2, <2>3, AsksStep DEF WaitSdp
<1>4. CASE Emits(h, "FAILED") /\ Goes(h, "tell") /\ UNCHANGED peer
  <2> DEFINE ad == [adapter[h] EXCEPT !.state = "FAILED"]
             c == [call[h] EXCEPT !.pc = "tell"]
  <2>1. /\ ad \in AdapterType /\ ad.ice = adapter[h].ice /\ ad.state = "FAILED"
        /\ ad.sdp = adapter[h].sdp
    BY <1>1 DEF FieldsOK, AdapterType, States
  <2>2. c \in CallType /\ c.op = call[h].op /\ c.pc = "tell"
    BY <1>1 DEF FieldsOK, CallType, Pcs
  <2>3. adapter' = [adapter EXCEPT ![h] = ad] /\ call' = [call EXCEPT ![h] = c]
    BY <1>1, <1>4 DEF Emits, Goes, FieldsOK
  <2> HIDE DEF ad, c
  <2> QED
    BY <1>1, <1>2, <1>4, <2>1, <2>2, <2>3, GoesOnStep
    DEF WaitSdp, CallFrame, Sets, HandleInv, AsksOnce, Runs
<1> QED
  BY <1>3, <1>4 DEF WaitSdp

LEMMA WaitSetStep ==
  ASSUME IInv, NEW h \in Handles, WaitSet(h)
  PROVE  IInv'
<1>1. HandleInv(h) /\ FieldsOK /\ codes \subseteq {TRUE} /\ undefined # "promise"
  BY DEF IInv
<1>2. /\ call[h].pc = "waitSet" /\ call[h].op # "destroy" /\ peer[h].open
      /\ adapter[h].set # "fresh" /\ undefined = "no"
      /\ "setRemote" \notin peer[h].asked /\ "setLocal" \notin peer[h].asked
  BY <1>1 DEF WaitSet, Runs, HandleInv, Owns, AsksOnce, Waiting
<1> DEFINE got == [adapter[h] EXCEPT !.set = "none"]
<1>3. /\ got \in AdapterType /\ got.ice = adapter[h].ice /\ got.state = adapter[h].state
      /\ got.sdp = adapter[h].sdp
  BY <1>1 DEF FieldsOK, AdapterType, Promises
<1>4. CallFrame
  BY DEF WaitSet
<1>5. ASSUME NEW ad \in AdapterType, NEW c \in CallType,
             adapter' = [adapter EXCEPT ![h] = ad], call' = [call EXCEPT ![h] = c],
             UNCHANGED peer, ad.sdp = adapter[h].sdp, ad.ice = adapter[h].ice,
             ad.state \in {adapter[h].state, "FAILED", "CONNECTING"},
             c = Idle \/ (c.op = call[h].op /\ c.pc \in {"tell", "waitIce"})
      PROVE  IInv'
  BY <1>1, <1>2, <1>4, <1>5, GoesOnStep DEF CallFrame, Sets, HandleInv, AsksOnce
<1>6. CASE Returns(h) /\ adapter' = [adapter EXCEPT ![h] = got] /\ UNCHANGED peer
  BY <1>3, <1>5, <1>6, NewTypes DEF Returns
<1>7. CASE /\ Goes(h, "tell") /\ UNCHANGED peer
           /\ adapter' = [adapter EXCEPT ![h] = [got EXCEPT !.state = "CONNECTING"]]
  <2> DEFINE ad == [got EXCEPT !.state = "CONNECTING"]
             c == [call[h] EXCEPT !.pc = "tell"]
  <2>1. /\ ad \in AdapterType /\ ad.ice = adapter[h].ice /\ ad.state = "CONNECTING"
        /\ ad.sdp = adapter[h].sdp
    BY <1>1, <1>3 DEF FieldsOK, AdapterType, States
  <2>2. c \in CallType /\ c.op = call[h].op /\ c.pc = "tell"
    BY <1>1 DEF FieldsOK, CallType, Pcs
  <2>3. adapter' = [adapter EXCEPT ![h] = ad] /\ call' = [call EXCEPT ![h] = c]
    BY <1>1, <1>7 DEF Goes, FieldsOK
  <2> HIDE DEF ad, c
  <2> QED
    BY <1>5, <1>7, <2>1, <2>2, <2>3
<1>8. CASE Goes(h, "waitIce") /\ adapter' = [adapter EXCEPT ![h] = got] /\ UNCHANGED peer
  <2> DEFINE c == [call[h] EXCEPT !.pc = "waitIce"]
  <2>1. c \in CallType /\ c.op = call[h].op /\ c.pc = "waitIce"
    BY <1>1 DEF FieldsOK, CallType, Pcs
  <2>2. call' = [call EXCEPT ![h] = c]
    BY <1>1, <1>8 DEF Goes, FieldsOK
  <2> HIDE DEF c, got
  <2> QED
    BY <1>3, <1>5, <1>8, <2>1, <2>2
<1>9. CASE ~peer[h].local /\ Asks(h, got, peer[h], "create")
  <2> HIDE DEF got
  <2> QED
    BY <1>2, <1>3, <1>4, <1>9, AsksStep DEF Sets
<1> QED
  BY <1>6, <1>7, <1>8, <1>9 DEF WaitSet

LEMMA WaitIceStep ==
  ASSUME IInv, NEW h \in Handles, WaitIce(h)
  PROVE  IInv'
<1>1. HandleInv(h) /\ FieldsOK /\ codes \subseteq {TRUE} /\ undefined # "promise"
  BY DEF IInv
<1>2. /\ call[h].pc = "waitIce" /\ call[h].op # "destroy" /\ peer[h].open
      /\ peer[h].asked \cap Sets = {}
      /\ UNCHANGED <<registry, regMtx, peer, signaling, undefined, calls>>
  BY <1>1 DEF WaitIce, Runs, HandleInv, Owns, AsksOnce, Waiting, Sets
<1>3. CASE /\ adapter[h].ice /\ codes' = codes \cup {peer[h].gathers = "over"}
           /\ Returns(h) /\ UNCHANGED adapter
  <2>1. adapter' = [adapter EXCEPT ![h] = adapter[h]] /\ adapter[h] \in AdapterType
    BY <1>1, <1>3 DEF FieldsOK
  <2>2. (peer[h].gathers = "over") = TRUE
    BY <1>1, <1>2, <1>3 DEF HandleInv, Gathers
  <2>3. codes' \subseteq {TRUE}
    BY <1>1, <1>3, <2>2, Zenon
  <2> QED
    BY <1>1, <1>2, <1>3, <2>1, <2>3, NewTypes, GoesOnStep
    DEF Returns, HandleInv, AsksOnce, FieldsOK
<1>4. CASE Emits(h, "FAILED") /\ Goes(h, "tell") /\ UNCHANGED codes
  <2> DEFINE ad == [adapter[h] EXCEPT !.state = "FAILED"]
             c == [call[h] EXCEPT !.pc = "tell"]
  <2>1. /\ ad \in AdapterType /\ ad.ice = adapter[h].ice /\ ad.state = "FAILED"
        /\ ad.sdp = adapter[h].sdp
    BY <1>1 DEF FieldsOK, AdapterType, States
  <2>2. c \in CallType /\ c.op = call[h].op /\ c.pc = "tell"
    BY <1>1 DEF FieldsOK, CallType, Pcs
  <2>3. adapter' = [adapter EXCEPT ![h] = ad] /\ call' = [call EXCEPT ![h] = c]
    BY <1>1, <1>4 DEF Emits, Goes, FieldsOK
  <2>4. undefined' # "promise" /\ undefined' \in {"no", "observer"}
    BY <1>1, <1>2 DEF FieldsOK
  <2> HIDE DEF ad, c
  <2> QED
    BY <1>1, <1>2, <1>4, <2>1, <2>2, <2>3, <2>4, GoesOnStep DEF HandleInv, AsksOnce
<1> QED
  BY <1>3, <1>4 DEF WaitIce

\* close: the peer is gone, and the state CLOSED.
LEMMA ClosesStep ==
  ASSUME IInv, NEW h \in Handles, Closes(h)
  PROVE  IInv'
<1> USE DEF FieldsOK
<1>1. HandleInv(h) /\ FieldsOK /\ codes \subseteq {TRUE} /\ undefined # "promise"
  BY DEF IInv
<1>2. /\ call[h].pc = "close" /\ UNCHANGED <<registry, regMtx, signaling, codes, undefined>>
  BY DEF Closes, Runs, CallFrame
<1> DEFINE To(pc) == [call[h] EXCEPT !.pc = pc]
<1>3. \A pc \in {"observers", "tell"} :
        To(pc) \in CallType /\ To(pc).op = call[h].op /\ To(pc).pc = pc
  BY <1>1 DEF CallType, Pcs
<1>4. Idle.op = "none" /\ Idle.pc = "idle"
  BY DEF Idle
<1>5. \E c \in CallType :
        /\ call' = [call EXCEPT ![h] = c]
        /\ \/ c = Idle /\ call[h].op # "destroy"
           \/ c.op = call[h].op /\ c.pc = "observers" /\ call[h].op = "destroy"
           \/ c.op = call[h].op /\ c.pc = "tell"
  <2>1. CASE Returns(h) /\ call[h].op # "destroy"
    BY <2>1, NewTypes DEF Returns
  <2>2. CASE Goes(h, "observers") /\ call[h].op = "destroy"
    BY <1>1, <1>3, <2>2 DEF Goes
  <2>3. CASE Goes(h, "tell")
    BY <1>1, <1>3, <2>3 DEF Goes
  <2> QED
    BY <2>1, <2>2, <2>3 DEF Closes
<1>6. PICK c \in CallType :
        /\ call' = [call EXCEPT ![h] = c]
        /\ \/ c = Idle /\ call[h].op # "destroy"
           \/ c.op = call[h].op /\ c.pc = "observers" /\ call[h].op = "destroy"
           \/ c.op = call[h].op /\ c.pc = "tell"
  BY <1>5
<1> HIDE DEF To
<1>7. call'[h] = c
  BY <1>1, <1>6
<1>8. CASE adapter[h].state = "CLOSED" /\ UNCHANGED peerVars
  <2>1. Touches(h) /\ FieldsOK'
    BY <1>1, <1>2, <1>6, <1>8 DEF Touches, peerVars
  <2>2. Owns(h)'
    BY <1>1, <1>2, <1>4, <1>6, <1>7, <1>8 DEF HandleInv, Owns, Waiting, peerVars
  <2>3. AsksOnce(h)' /\ Gathers(h)' /\ Live(h)'
    BY <1>1, <1>2, <1>4, <1>6, <1>7, <1>8 DEF HandleInv, AsksOnce, Gathers, Live, peerVars
  <2> QED
    BY <1>1, <1>2, <1>8, <2>1, <2>2, <2>3, Frame DEF HandleInv, peerVars
<1>9. CASE /\ CanClose(h) /\ peer' = [peer EXCEPT ![h] = NoPeer] /\ Emits(h, "CLOSED")
  <2> DEFINE ad == [adapter[h] EXCEPT !.state = "CLOSED"]
  <2>1. ad \in AdapterType /\ ad.state = "CLOSED"
    BY <1>1 DEF AdapterType, States
  <2>2. adapter' = [adapter EXCEPT ![h] = ad]
    BY <1>1, <1>9 DEF Emits
  <2> HIDE DEF ad
  <2>3. Touches(h) /\ FieldsOK'
    BY <1>1, <1>2, <1>6, <1>9, <2>1, <2>2, NewTypes DEF Touches
  <2>4. adapter'[h].state = "CLOSED" /\ peer'[h] = NoPeer
    BY <1>1, <1>9, <2>1, <2>2
  <2>5. Owns(h)'
    BY <1>1, <1>2, <1>4, <1>6, <1>7, <2>4, NewTypes DEF HandleInv, Owns, Waiting
  <2>6. AsksOnce(h)' /\ Gathers(h)' /\ Live(h)'
    BY <1>4, <1>6, <1>7, <2>4, NewTypes DEF AsksOnce, Gathers, Live
  <2> QED
    BY <1>1, <1>2, <1>9, <2>3, <2>5, <2>6, Frame DEF HandleInv, CanClose
<1> QED
  BY <1>8, <1>9 DEF Closes

LEMMA TellStep ==
  ASSUME IInv, NEW h \in Handles, Tell(h)
  PROVE  IInv'
<1> USE DEF FieldsOK
<1>1. HandleInv(h) /\ FieldsOK /\ codes \subseteq {TRUE} /\ undefined # "promise"
  BY DEF IInv
<1>2. /\ call[h].pc = "tell"
      /\ UNCHANGED <<registry, regMtx, signaling, codes, undefined, adapter, peer>>
  BY DEF Tell, Runs, CallFrame, peerVars
<1> DEFINE c == IF call[h].op = "destroy" THEN [call[h] EXCEPT !.pc = "observers"] ELSE Idle
<1>3. Idle.op = "none" /\ Idle.pc = "idle"
  BY DEF Idle
<1>4. /\ c \in CallType
      /\ call[h].op = "destroy" => c.op = "destroy" /\ c.pc = "observers"
      /\ call[h].op # "destroy" => c.op = "none" /\ c.pc = "idle"
  BY <1>1, <1>3, NewTypes DEF CallType, Pcs
<1>5. call' = [call EXCEPT ![h] = c]
  BY <1>1 DEF Tell, Goes, Returns
<1> HIDE DEF c
<1>6. call'[h] = c
  BY <1>1, <1>5
<1>7. Touches(h) /\ FieldsOK'
  BY <1>1, <1>2, <1>4, <1>5 DEF Touches
<1>8. Owns(h)'
  BY <1>1, <1>2, <1>4, <1>6 DEF HandleInv, Owns, Waiting
<1>9. AsksOnce(h)' /\ Gathers(h)' /\ Live(h)'
  BY <1>1, <1>2, <1>4, <1>6 DEF HandleInv, AsksOnce, Gathers, Live
<1> QED
  BY <1>1, <1>2, <1>7, <1>8, <1>9, Frame DEF HandleInv

LEMMA FreeObserversStep ==
  ASSUME IInv, NEW h \in Handles, FreeObservers(h)
  PROVE  IInv'
<1> USE DEF FieldsOK
<1>1. HandleInv(h) /\ FieldsOK /\ codes \subseteq {TRUE} /\ undefined # "promise"
  BY DEF IInv
<1>2. /\ call[h].pc = "observers" /\ undefined' \in {"no", "observer"}
      /\ UNCHANGED <<registry, regMtx, adapter, peer, signaling, codes>>
      /\ call' = [call EXCEPT ![h].pc = "release"]
  BY DEF FreeObservers, Runs, Goes, peerVars
<1>3. call'[h].op = call[h].op /\ call'[h].pc = "release"
  BY <1>1, <1>2 DEF CallType
<1>4. Touches(h)
  BY <1>1, <1>2 DEF Touches
<1>5. FieldsOK'
  BY <1>1, <1>2 DEF CallType, Pcs
<1>6. Owns(h)'
  BY <1>1, <1>2, <1>3 DEF HandleInv, Owns, Waiting
<1>7. AsksOnce(h)' /\ Gathers(h)' /\ Live(h)'
  BY <1>1, <1>2, <1>3 DEF HandleInv, AsksOnce, Gathers, Live
<1> QED
  BY <1>1, <1>2, <1>4, <1>5, <1>6, <1>7, Frame DEF HandleInv

LEMMA ReleaseStep ==
  ASSUME IInv, NEW h \in Handles, Release(h)
  PROVE  IInv'
<1> USE DEF FieldsOK
<1>1. HandleInv(h) /\ FieldsOK /\ codes \subseteq {TRUE} /\ undefined # "promise"
  BY DEF IInv
<1>2. /\ regMtx = h /\ CanClose(h) /\ regMtx' = Nobody /\ registry' = registry \ {h}
      /\ peer' = [peer EXCEPT ![h] = NoPeer] /\ call' = [call EXCEPT ![h] = Idle]
      /\ UNCHANGED <<adapter, signaling, codes, undefined>>
  BY <1>1 DEF Release, Runs, Returns, HandleInv, Owns
<1>3. peer'[h] = NoPeer /\ call'[h] = Idle /\ Idle.op = "none" /\ Idle.pc = "idle"
  BY <1>1, <1>2 DEF Idle
<1>4. Touches(h)
  BY <1>1, <1>2 DEF Touches
<1>5. FieldsOK'
  BY <1>1, <1>2, NewTypes
<1>6. Owns(h)'
  BY <1>2, <1>3, NewTypes, BridgeAssumption DEF Owns, Waiting
<1>7. AsksOnce(h)' /\ Gathers(h)' /\ Live(h)'
  BY <1>2, <1>3, NewTypes DEF AsksOnce, Gathers, Live
<1> QED
  BY <1>1, <1>2, <1>4, <1>5, <1>6, <1>7, Frame DEF HandleInv, CanClose

-----------------------------------------------------------------------------
(* The signaling thread.                                                   *)

\* An event changes the adapter and the peer of one handle, which stays open.
LEMMA EventFrame ==
  ASSUME IInv, NEW h \in Handles, Serves(h), ServeFrame,
         NEW ad \in AdapterType, NEW p \in PeerType,
         adapter' = [adapter EXCEPT ![h] = ad], peer' = [peer EXCEPT ![h] = p], p.open,
         p.asked \subseteq peer[h].asked,
         "create" \in p.asked => ad.sdp = "fresh",
         "setRemote" \in p.asked \/ "setLocal" \in p.asked => ad.set = "fresh",
         call[h].pc = "waitSdp" \/ "setLocal" \in p.asked => ~p.local,
         ~p.local => p.gathers = "no",
         ad.ice => p.gathers = "over",
         signaling' = signaling \/ signaling' = [h |-> h, pc |-> "tell"],
         undefined' \in {"no", "observer"}
  PROVE  IInv'
<1>1. HandleInv(h) /\ FieldsOK /\ codes \subseteq {TRUE} /\ peer[h].open
  BY DEF IInv, Serves
<1>2. UNCHANGED <<registry, regMtx, call, codes>>
  BY DEF ServeFrame
<1>3. adapter'[h] = ad /\ peer'[h] = p
  BY <1>1 DEF FieldsOK
<1>4. Touches(h)
  BY <1>1, <1>2 DEF Touches, FieldsOK
<1>5. FieldsOK'
  BY <1>1, <1>2 DEF FieldsOK
<1>6. Owns(h)'
  BY <1>1, <1>2, <1>3 DEF HandleInv, Owns
<1>7. AsksOnce(h)' /\ Gathers(h)' /\ Live(h)'
  BY <1>1, <1>2, <1>3 DEF HandleInv, AsksOnce, Gathers, Live
<1>8. \/ signaling' = signaling /\ (peer[h].open /\ ~peer'[h].open => signaling.pc = "idle")
      \/ signaling'.h = h /\ peer'[h].open
  BY <1>3
<1>9. HandleInv(h)' /\ codes' \subseteq {TRUE} /\ undefined' # "promise"
  BY <1>1, <1>2, <1>6, <1>7 DEF HandleInv
<1> QED
  BY <1>4, <1>5, <1>8, <1>9, Frame

LEMMA SdpArrivesStep ==
  ASSUME IInv, NEW h \in Handles, SdpArrives(h)
  PROVE  IInv'
<1>1. HandleInv(h) /\ FieldsOK /\ peer[h].open
  BY DEF IInv, SdpArrives, Serves
<1> DEFINE p == [peer[h] EXCEPT !.asked = @ \ {"create"}]
           ad == [adapter[h] EXCEPT !.sdp = "value"]
<1>2. /\ p \in PeerType /\ p.open /\ p.asked = peer[h].asked \ {"create"}
      /\ p.local = peer[h].local /\ p.gathers = peer[h].gathers
  BY <1>1 DEF FieldsOK, PeerType
<1>3. peer' = [peer EXCEPT ![h] = p]
  BY <1>1 DEF SdpArrives, FieldsOK
<1>4. ad \in AdapterType /\ ad.set = adapter[h].set /\ ad.ice = adapter[h].ice
  BY <1>1 DEF FieldsOK, AdapterType, Promises
<1>5. adapter[h].sdp = "fresh" /\ adapter[h] \in AdapterType /\ undefined = "no"
  BY <1>1 DEF SdpArrives, Serves, HandleInv, AsksOnce, FieldsOK
<1>6. /\ adapter' = [adapter EXCEPT ![h] = ad] \/ adapter' = [adapter EXCEPT ![h] = adapter[h]]
      /\ undefined' = "no"
  BY <1>1, <1>5 DEF SdpArrives, Keeps, FieldsOK
<1> HIDE DEF p, ad
<1>7. /\ Serves(h) /\ ServeFrame /\ signaling' = signaling
      /\ p.asked \subseteq peer[h].asked /\ "create" \notin p.asked
      /\ undefined' \in {"no", "observer"}
  BY <1>2, <1>6 DEF SdpArrives
<1>8. /\ "setRemote" \in p.asked \/ "setLocal" \in p.asked => adapter[h].set = "fresh"
      /\ call[h].pc = "waitSdp" \/ "setLocal" \in p.asked => ~p.local
      /\ ~p.local => p.gathers = "no"
      /\ adapter[h].ice => p.gathers = "over"
  BY <1>1, <1>2 DEF HandleInv, AsksOnce, Gathers
<1>9. CASE adapter' = [adapter EXCEPT ![h] = ad]
  BY <1>2, <1>3, <1>4, <1>7, <1>8, <1>9, EventFrame
<1>10. CASE adapter' = [adapter EXCEPT ![h] = adapter[h]]
  BY <1>2, <1>3, <1>5, <1>7, <1>8, <1>10, EventFrame
<1> QED
  BY <1>6, <1>9, <1>10

LEMMA SetArrivesStep ==
  ASSUME IInv, NEW h \in Handles, NEW which \in Sets, SetArrives(h, which)
  PROVE  IInv'
<1>1. HandleInv(h) /\ FieldsOK /\ peer[h].open
  BY DEF IInv, SetArrives, Serves
<1>2. /\ adapter[h].set = "fresh" /\ undefined = "no" /\ which \in peer[h].asked
      /\ call[h].pc = "waitSet" /\ Serves(h) /\ ServeFrame /\ signaling' = signaling
  BY <1>1 DEF SetArrives, Serves, HandleInv, AsksOnce, Sets
<1> DEFINE left == peer[h].asked \ {which}
           quiet == [peer[h] EXCEPT !.asked = left]
           remote == [peer[h] EXCEPT !.asked = left, !.remote = TRUE]
           local == [peer[h] EXCEPT !.asked = left, !.local = TRUE, !.gathers = "runs"]
           Kept(how) == [adapter[h] EXCEPT !.set = how]
<1>3. \A how \in {"value", "exception"} :
        /\ Kept(how) \in AdapterType /\ Kept(how).sdp = adapter[h].sdp
        /\ Kept(how).ice = adapter[h].ice
  BY <1>1 DEF FieldsOK, AdapterType, Promises
<1>4. /\ quiet \in PeerType /\ quiet.open /\ quiet.asked = left
      /\ remote \in PeerType /\ remote.open /\ remote.asked = left
      /\ local \in PeerType /\ local.open /\ local.asked = left
  BY <1>1 DEF FieldsOK, PeerType
<1>5. /\ quiet.local = peer[h].local /\ quiet.gathers = peer[h].gathers
      /\ remote.local = peer[h].local /\ remote.gathers = peer[h].gathers
      /\ local.local /\ local.gathers = "runs"
  BY <1>1 DEF FieldsOK, PeerType
<1>6. "setRemote" \notin left /\ "setLocal" \notin left
  BY <1>1, <1>2 DEF HandleInv, AsksOnce, Sets
<1>7. ASSUME NEW how \in {"value", "exception"}, Keeps(h, "set", how)
      PROVE  adapter' = [adapter EXCEPT ![h] = Kept(how)] /\ undefined' = "no"
  BY <1>1, <1>2, <1>7 DEF Keeps, FieldsOK
<1>8. \/ \E how \in {"value", "exception"}, p \in {quiet, remote} :
           Keeps(h, "set", how) /\ peer' = [peer EXCEPT ![h] = p]
      \/ which = "setLocal" /\ Keeps(h, "set", "value") /\ peer' = [peer EXCEPT ![h] = local]
  <2>1. \/ /\ Keeps(h, "set", "value")
           /\ peer' = [peer EXCEPT ![h] = IF which = "setLocal" THEN local ELSE remote]
        \/ Keeps(h, "set", "exception") /\ peer' = [peer EXCEPT ![h] = quiet]
    BY DEF SetArrives
  <2> HIDE DEF quiet, remote, local
  <2> QED
    BY <2>1
<1> HIDE DEF quiet, remote, local, Kept, left
<1>9. ASSUME NEW how \in {"value", "exception"}, NEW p \in {quiet, remote},
             Keeps(h, "set", how), peer' = [peer EXCEPT ![h] = p]
      PROVE  IInv'
  <2>1. p \in PeerType /\ p.open /\ p.asked = left /\ p.local = peer[h].local
        /\ p.gathers = peer[h].gathers
    BY <1>4, <1>5
  <2>2. left \subseteq peer[h].asked
    BY DEF left
  <2> QED
    BY ZenonT(30), <1>1, <1>2, <1>3, <1>6, <1>7, <1>9, <2>1, <2>2, EventFrame
    DEF HandleInv, AsksOnce, Gathers
<1>10. CASE which = "setLocal" /\ Keeps(h, "set", "value") /\ peer' = [peer EXCEPT ![h] = local]
  <2>1. ~peer[h].local /\ ~adapter[h].ice /\ left \subseteq peer[h].asked
    BY <1>1, <1>2, <1>10 DEF HandleInv, Gathers, left
  <2>2. call[h].pc # "waitSdp"
    BY <1>2
  <2> QED
    BY <1>1, <1>2, <1>3, <1>4, <1>5, <1>6, <1>7, <1>10, <2>1, <2>2, EventFrame
    DEF HandleInv, AsksOnce, Gathers
<1> QED
  BY <1>8, <1>9, <1>10

LEMMA OnIceStep ==
  ASSUME IInv, NEW h \in Handles, OnIceGatheringState(h)
  PROVE  IInv'
<1>1. HandleInv(h) /\ FieldsOK /\ peer[h].open /\ undefined = "no" /\ peer[h].gathers = "runs"
  BY DEF IInv, OnIceGatheringState, Serves
<1> DEFINE p == [peer[h] EXCEPT !.gathers = "over"]
           ad == [adapter[h] EXCEPT !.ice = TRUE]
<1>2. /\ p \in PeerType /\ p.open /\ p.asked = peer[h].asked
      /\ p.local = peer[h].local /\ p.gathers = "over"
  BY <1>1 DEF FieldsOK, PeerType
<1>3. ad \in AdapterType /\ ad.set = adapter[h].set /\ ad.sdp = adapter[h].sdp
  BY <1>1 DEF FieldsOK, AdapterType
<1>4. adapter' = [adapter EXCEPT ![h] = ad] /\ peer' = [peer EXCEPT ![h] = p]
  BY <1>1 DEF OnIceGatheringState, FieldsOK
<1> HIDE DEF p, ad
<1>5. peer[h].local
  BY <1>1 DEF HandleInv, Gathers
<1>6. /\ Serves(h) /\ ServeFrame /\ signaling' = signaling
      /\ undefined' \in {"no", "observer"}
  BY <1>1 DEF OnIceGatheringState
<1>7. /\ p.asked \subseteq peer[h].asked
      /\ "create" \in p.asked => ad.sdp = "fresh"
      /\ "setRemote" \in p.asked \/ "setLocal" \in p.asked => ad.set = "fresh"
      /\ call[h].pc = "waitSdp" \/ "setLocal" \in p.asked => ~p.local
      /\ ~p.local => p.gathers = "no"
  BY <1>1, <1>2, <1>3, <1>5 DEF HandleInv, AsksOnce, Gathers
<1> QED
  BY <1>2, <1>3, <1>4, <1>6, <1>7, EventFrame

\* The states of a link and a channel, which the application is told of.
LEMMA ObservedStep ==
  ASSUME IInv, NEW h \in Handles, Serves(h), ServeFrame, NEW p \in PeerType,
         peer' = [peer EXCEPT ![h] = p], p.open,
         p.asked = peer[h].asked, p.local = peer[h].local, p.gathers = peer[h].gathers,
         NEW state \in States, Observed(h, state)
  PROVE  IInv'
<1>1. HandleInv(h) /\ FieldsOK /\ peer[h].open /\ undefined = "no"
  BY DEF IInv, Serves
<1> DEFINE ad == [adapter[h] EXCEPT !.state = state]
<1>2. /\ ad \in AdapterType /\ ad.set = adapter[h].set /\ ad.sdp = adapter[h].sdp
      /\ ad.ice = adapter[h].ice
  BY <1>1 DEF FieldsOK, AdapterType
<1>3. /\ adapter' = [adapter EXCEPT ![h] = ad] \/ adapter' = [adapter EXCEPT ![h] = adapter[h]]
      /\ undefined' \in {"no", "observer"}
      /\ signaling' = signaling \/ signaling' = [h |-> h, pc |-> "tell"]
  BY <1>1 DEF Observed, Emits, FieldsOK
<1> HIDE DEF ad
<1>4. /\ p.asked \subseteq peer[h].asked
      /\ "create" \in p.asked => adapter[h].sdp = "fresh"
      /\ "setRemote" \in p.asked \/ "setLocal" \in p.asked => adapter[h].set = "fresh"
      /\ call[h].pc = "waitSdp" \/ "setLocal" \in p.asked => ~p.local
      /\ ~p.local => p.gathers = "no"
      /\ adapter[h].ice => p.gathers = "over"
      /\ adapter[h] \in AdapterType
  BY <1>1 DEF HandleInv, AsksOnce, Gathers, FieldsOK
<1>5. CASE adapter' = [adapter EXCEPT ![h] = ad]
  BY <1>2, <1>3, <1>4, <1>5, EventFrame
<1>6. CASE adapter' = [adapter EXCEPT ![h] = adapter[h]]
  BY <1>3, <1>4, <1>6, EventFrame
<1> QED
  BY <1>3, <1>5, <1>6

LEMMA OnPeerConnectionStep ==
  ASSUME IInv, NEW h \in Handles, OnPeerConnectionState(h)
  PROVE  IInv'
<1>1. FieldsOK
  BY DEF IInv
<1>2. PICK link \in LinkNext[peer[h].link] :
        peer' = [peer EXCEPT ![h].link = link] /\ Observed(h, Reported[link])
  BY DEF OnPeerConnectionState
<1> DEFINE p == [peer[h] EXCEPT !.link = link]
<1>3. link \in Links \ {"new"} /\ Reported[link] \in States
  BY <1>1 DEF FieldsOK, PeerType, LinkNext, Links, Reported, States
<1>4. /\ p \in PeerType /\ p.open = peer[h].open /\ p.asked = peer[h].asked
      /\ p.local = peer[h].local /\ p.gathers = peer[h].gathers
  BY <1>1, <1>3 DEF FieldsOK, PeerType
<1>5. peer' = [peer EXCEPT ![h] = p]
  BY <1>1, <1>2 DEF FieldsOK
<1> HIDE DEF p
<1> QED
  BY <1>2, <1>3, <1>4, <1>5, ObservedStep DEF OnPeerConnectionState, Serves

LEMMA OnStateChangeStep ==
  ASSUME IInv, NEW h \in Handles, OnStateChange(h)
  PROVE  IInv'
<1>1. FieldsOK
  BY DEF IInv
<1>2. PICK channel \in {"none", "open"}, state \in {"CONNECTED", "CLOSED"} :
        peer' = [peer EXCEPT ![h].channel = channel] /\ Observed(h, state)
  BY DEF OnStateChange
<1> DEFINE p == [peer[h] EXCEPT !.channel = channel]
<1>3. state \in States
  BY DEF States
<1>4. /\ p \in PeerType /\ p.open = peer[h].open /\ p.asked = peer[h].asked
      /\ p.local = peer[h].local /\ p.gathers = peer[h].gathers
  BY <1>1 DEF FieldsOK, PeerType
<1>5. peer' = [peer EXCEPT ![h] = p]
  BY <1>1, <1>2 DEF FieldsOK
<1> HIDE DEF p
<1> QED
  BY <1>2, <1>3, <1>4, <1>5, ObservedStep DEF OnStateChange, Serves

-----------------------------------------------------------------------------
(* The theorems.                                                           *)

LEMMA InvStep == IInv /\ [Next]_vars => IInv'
<1> SUFFICES ASSUME IInv, [Next]_vars PROVE IInv'
  OBVIOUS
<1>1. ASSUME NEW h \in Handles, CallStep(h) PROVE IInv'
  BY <1>1, SignalStep, AnswerStep, WaitSdpStep, WaitSetStep, WaitIceStep, ClosesStep,
     TellStep, FreeObserversStep, ReleaseStep
  DEF CallStep
<1>2. ASSUME NEW h \in Handles, SetAnswer(h) \/ Event(h) PROVE IInv'
  BY <1>2, SdpArrivesStep, SetArrivesStep, OnIceStep, OnPeerConnectionStep,
     OnStateChangeStep
  DEF SetAnswer, Event, Sets
<1>3. CASE SignalingTells
  <2>1. /\ UNCHANGED <<registry, regMtx, adapter, peer, call, codes, undefined>>
        /\ signaling' = Quiet /\ Quiet.pc = "idle"
        /\ signaling' \in [h : Handles \cup {Nobody}, pc : {"idle", "tell"}]
    BY <1>3 DEF SignalingTells, Quiet
  <2> QED
    BY <2>1 DEF IInv, FieldsOK, SignalingInv, HandleInv, Owns, AsksOnce, Gathers, Live
<1>4. CASE UNCHANGED vars
  BY <1>4 DEF vars, IInv, FieldsOK, SignalingInv, HandleInv, Owns, AsksOnce, Gathers, Live
<1> QED
  BY <1>1, <1>2, <1>3, <1>4, BeginStep DEF Next

\* The inductive invariant holds in every reachable state.
THEOREM Invariant == Spec => []IInv
BY InvInit, InvStep, PTL DEF Spec

\* Every variable has its type; a peer, and what the signaling thread is at,
\* belong to a handle that is there, and only a destroy keeps the mutex.
THEOREM TypeCorrect == Spec => []TypeOK
<1>1. IInv => TypeOK
  <2> SUFFICES ASSUME IInv PROVE TypeOK
    OBVIOUS
  <2>1. codes \subseteq BOOLEAN
    BY DEF IInv
  <2>2. \A h \in Handles : peer[h].open => h \in registry
    BY DEF IInv, HandleInv, Owns
  <2>3. signaling.pc = "tell" => signaling.h \in registry
    BY <2>2 DEF IInv, SignalingInv
  <2>4. regMtx # Nobody <=> \E h \in Handles : call[h].op = "destroy"
    BY BridgeAssumption DEF IInv, HandleInv, Owns, FieldsOK
  <2> QED
    BY <2>1, <2>2, <2>3, <2>4 DEF TypeOK, IInv, FieldsOK, AdapterType, CallType
<1> QED
  BY <1>1, Invariant, PTL

\* A code that generate_offer and accept_offer return has all the candidates of
\* its peer, whatever the handle was used for before.
THEOREM CodesAreWhole == Spec => []CodeIsWhole
<1>1. IInv => CodeIsWhole
  BY DEF IInv, CodeIsWhole
<1> QED
  BY <1>1, Invariant, PTL

\* libwebrtc's thread never keeps a promise that was kept, or that nobody made,
\* though a call gives up on the one for the description.
THEOREM PromisesKeptOnce == Spec => []PromiseKeptOnce
<1>1. IInv => PromiseKeptOnce
  BY DEF IInv, PromiseKeptOnce
<1> QED
  BY <1>1, Invariant, PTL

\* A handle says CONNECTED only while it has an open peer.
THEOREM ConnectionsAreLive == Spec => []ConnectedIsLive
<1>1. IInv => ConnectedIsLive
  BY DEF IInv, FieldsOK, HandleInv, Live, ConnectedIsLive
<1> QED
  BY <1>1, Invariant, PTL
=============================================================================
