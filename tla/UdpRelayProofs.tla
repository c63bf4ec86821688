--------------------------- MODULE UdpRelayProofs ---------------------------
(***************************************************************************)
(* Proofs about UdpRelay, for any number of callers, of session ids and of *)
(* sessions opened, and for any traffic.                                   *)
(***************************************************************************)
EXTENDS UdpRelay, ProtocolProofs

(* What the steps need to know of the types. *)
Typed ==
    /\ dgrams \in Seq(Inbound \cup {Garbage})
    /\ client \in {"alive", "closing", "gone"}
    /\ loop \in {"read", "dispatch", "done"}
    /\ loop = "dispatch" => loop_msg \in Inbound
    /\ next_id \in 0 .. IdMod - 1
    /\ opened \in Nat
    /\ sessions \in [0 .. IdMod - 1 -> Handles \cup {None}]
    /\ st \in [Handles -> {"none", "allocated", "live", "dropping"}]
    /\ id \in [Handles -> 0 .. IdMod - 1]
    /\ rx \in [Handles -> Seq(Inbound)]
    /\ defrag \in [Handles -> DefraggerState]
    /\ DOMAIN ret = Handles

(* What session h holds is of its own id. *)
Owns(h) ==
    /\ \A k \in DOMAIN rx[h] : rx[h][k].session_id = id[h]
    /\ HoldsOnly(defrag[h], id[h])
    /\ \A k \in DOMAIN ret[h] : ret[h][k].session_id = id[h]

(* A handle that is reused for a new session holds nothing of the old one. *)
OwnInv ==
    \A h \in Handles :
      /\ Owns(h)
      /\ st[h] = "none" => rx[h] = << >> /\ defrag[h] = NewDefragger /\ ret[h] = << >>

(* Before the ids wrap around, those in use are distinct and behind        *)
(* next_id, and every session handed out is in the map.                    *)
IdsInv ==
    opened <= IdMod =>
      /\ next_id = IF opened + 1 < IdMod THEN opened + 1 ELSE opened + 1 - IdMod
      /\ \A h \in Handles : opened < IdMod /\ st[h] # "none" => id[h] \in 1 .. opened
      /\ \A g, h \in Handles : st[g] # "none" /\ st[h] # "none" /\ id[g] = id[h] => g = h
      /\ MgrAlive => \A h \in Handles : st[h] \in {"live", "dropping"} => sessions[id[h]] = h

IInv == Typed /\ NoStaleEntry /\ OwnInv /\ IdsInv

-----------------------------------------------------------------------------

(* The wrapping increment of next_id. *)
LEMMA NextId ==
    ASSUME NEW i \in 0 .. IdMod - 1
    PROVE  (i + 1) % IdMod = IF i + 1 < IdMod THEN i + 1 ELSE 0
  BY RelayAssumption, SMTT(30)

LEMMA IInvInit == Init => IInv
<1> SUFFICES ASSUME Init PROVE IInv
  OBVIOUS
<1>1. NewDefragger \in DefraggerState /\ DOMAIN NewDefragger.frags = {}
  BY NewDefraggerType
<1>2. Typed
  BY <1>1, RelayAssumption DEF Init, Typed
<1>3. NoStaleEntry /\ IdsInv
  BY RelayAssumption DEF Init, NoStaleEntry, IdsInv
<1>4. OwnInv
  BY <1>1 DEF Init, OwnInv, Owns, HoldsOnly
<1>5. QED
  BY <1>2, <1>3, <1>4 DEF IInv

(* A step of RecvMsg, on the session it is taken for. *)
LEMMA RecvMsgFacts ==
    ASSUME Typed, OwnInv, NEW h \in Handles, RecvMsg(h)
    PROVE  /\ rx' = [rx EXCEPT ![h] = Tail(@)] /\ rx[h] # << >>
           /\ defrag' \in [Handles -> DefraggerState]
           /\ \A g \in Handles : g # h => defrag'[g] = defrag[g] /\ ret'[g] = ret[g]
           /\ DOMAIN ret' = Handles
           /\ HoldsOnly(defrag'[h], id[h])
           /\ \A k \in DOMAIN ret'[h] : ret'[h][k].session_id = id[h]
<1> DEFINE m == Head(rx[h])
           fed == Feed(defrag[h], m)
<1>1. rx[h] \in Seq(Inbound) /\ rx[h] # << >> /\ m \in Inbound /\ m = rx[h][1] /\ 1 \in DOMAIN rx[h]
  BY DEF RecvMsg, Typed
<1>2. m \in UdpMessage /\ m.session_id = id[h]
  BY <1>1, RelayAssumption DEF OwnInv, Owns
<1> HIDE DEF m
<1>a. defrag[h] \in DefraggerState /\ HoldsOnly(defrag[h], m.session_id)
  BY <1>2 DEF Typed, OwnInv, Owns
<1>3. /\ fed[1] \in DefraggerState /\ HoldsOnly(fed[1], id[h])
      /\ \A k \in DOMAIN fed[2] : fed[2][k].session_id = id[h]
  BY <1>2, <1>a, FeedSession
<1>4. defrag' = [defrag EXCEPT ![h] = fed[1]] /\ (ret' = ret \/ ret' = [ret EXCEPT ![h] = fed[2]])
  BY DEF RecvMsg, m
<1> HIDE DEF fed
<1>5. \A k \in DOMAIN ret'[h] : ret'[h][k].session_id = id[h]
  BY <1>3, <1>4, SMTT(30) DEF Typed, OwnInv, Owns
<1>6. QED
  BY <1>1, <1>3, <1>4, <1>5 DEF Typed, RecvMsg

(* The manager is not revived once its last Arc is gone. *)
LEMMA ManagerStaysFreed == Typed /\ [Next]_vars /\ MgrAlive' => MgrAlive
<1> SUFFICES ASSUME Typed, [Next]_vars, MgrAlive', ~MgrAlive PROVE FALSE
  OBVIOUS
<1> USE DEF MgrAlive, Typed, task
<1>1. client = "gone" /\ loop # "dispatch" /\ \A h \in Handles : st[h] # "dropping"
  OBVIOUS
<1>2. ASSUME NEW h \in Handles, DropSession(h) PROVE FALSE
  BY <1>1, <1>2 DEF DropSession, Freed
<1>3. CASE ReadDatagram
  BY <1>1, <1>3 DEF ReadDatagram
<1>4. ASSUME NEW h \in Handles, Register(h) PROVE FALSE
  BY <1>1, <1>4, Zenon DEF Register
<1>5. QED
  BY <1>1, <1>2, <1>3, <1>4
  DEF Next, LoopStep, RecvStep, Arrive, PeerCloses, DropClient, ReleaseManager, Dispatch,
      ReadError, AllocateId, Recv, RecvMsg, RecvClosed, RecvCancelled, RemoveSession, vars

LEMMA TypedStep == Typed /\ OwnInv /\ [Next]_vars => Typed'
<1> SUFFICES ASSUME Typed, OwnInv, [Next]_vars PROVE Typed'
  OBVIOUS
<1> USE DEF Typed, quic, task, ids, reader
<1>0. NewDefragger \in DefraggerState
  BY NewDefraggerType
<1>1. ASSUME NEW x \in Inbound \cup {Garbage}, Arrive(x) PROVE Typed'
  BY <1>1 DEF Arrive
<1>2. CASE PeerCloses \/ DropClient \/ ReleaseManager \/ ReadError
  BY <1>2 DEF PeerCloses, DropClient, ReleaseManager, ReadError
<1>3. CASE ReadDatagram
  <2>1. Head(dgrams) \in Inbound \cup {Garbage} /\ Tail(dgrams) \in Seq(Inbound \cup {Garbage})
    BY <1>3 DEF ReadDatagram
  <2>2. QED
    BY <1>3, <2>1 DEF ReadDatagram
<1>4. CASE Dispatch
  <2> DEFINE h == sessions[loop_msg.session_id]
  <2>1. rx' = rx \/ (h \in Handles /\ rx' = [rx EXCEPT ![h] = Append(@, loop_msg)])
    <3>1. loop_msg \in Inbound /\ loop_msg.session_id \in 0 .. IdMod - 1
      BY <1>4, RelayAssumption DEF Dispatch, UdpMessage
    <3>2. QED
      BY <1>4, <3>1 DEF Dispatch, Owner
  <2> HIDE DEF h
  <2>2. rx' \in [Handles -> Seq(Inbound)]
    <3>1. h \in Handles => Append(rx[h], loop_msg) \in Seq(Inbound)
      BY <1>4 DEF Dispatch
    <3>2. QED
      BY <2>1, <3>1, Zenon
  <2>3. QED
    BY <1>4, <2>2, Zenon DEF Dispatch
<1>5. ASSUME NEW h \in Handles, AllocateId(h) PROVE Typed'
  <2>1. next_id' \in 0 .. IdMod - 1 /\ opened' \in Nat
    BY <1>5, NextId, RelayAssumption DEF AllocateId
  <2>2. /\ st' \in [Handles -> {"none", "allocated", "live", "dropping"}]
        /\ id' \in [Handles -> 0 .. IdMod - 1]
    BY <1>5 DEF AllocateId
  <2>3. QED
    BY <1>5, <2>1, <2>2 DEF AllocateId
<1>6. ASSUME NEW h \in Handles, Register(h) PROVE Typed'
  BY <1>6 DEF Register
<1>7. ASSUME NEW h \in Handles, Recv(h) \/ RecvClosed(h) \/ RecvCancelled(h) PROVE Typed'
  BY <1>7, Zenon DEF Recv, RecvClosed, RecvCancelled
<1>8. ASSUME NEW h \in Handles, RecvMsg(h) PROVE Typed'
  <2>1. rx' \in [Handles -> Seq(Inbound)]
    <3>1. Tail(rx[h]) \in Seq(Inbound)
      BY <1>8 DEF RecvMsg
    <3>2. rx' = [rx EXCEPT ![h] = Tail(rx[h])]
      BY <1>8, RecvMsgFacts
    <3>3. QED
      BY <3>1, <3>2
  <2>2. QED
    BY <1>8, <2>1, RecvMsgFacts, Zenon DEF RecvMsg
<1>9. ASSUME NEW h \in Handles, DropSession(h) \/ RemoveSession(h) PROVE Typed'
  <2>1. CASE UNCHANGED reader
    BY <1>9, <2>1, Zenon DEF DropSession, RemoveSession, Freed
  <2>2. CASE Freed(h)
    <3>1. /\ st' \in [Handles -> {"none", "allocated", "live", "dropping"}]
          /\ rx' \in [Handles -> Seq(Inbound)] /\ DOMAIN ret' = Handles
          /\ defrag' \in [Handles -> DefraggerState]
      BY <1>0, <2>2 DEF Freed
    <3>2. sessions' \in [0 .. IdMod - 1 -> Handles \cup {None}]
      BY <1>9, Zenon DEF DropSession, RemoveSession
    <3>3. QED
      BY <1>9, <3>1, <3>2 DEF DropSession, RemoveSession
  <2>3. QED
    BY <1>9, <2>1, <2>2, Zenon DEF DropSession, RemoveSession
<1>10. CASE UNCHANGED vars
  BY <1>10 DEF vars
<1>11. QED
  BY <1>1, <1>2, <1>3, <1>4, <1>5, <1>6, <1>7, <1>8, <1>9, <1>10, ZenonT(40)
  DEF Next, LoopStep, RecvStep

(* The map refers to no session that is gone. *)
LEMMA EntriesStep == Typed /\ NoStaleEntry /\ [Next]_vars => NoStaleEntry'
<1> SUFFICES ASSUME Typed, NoStaleEntry, [Next]_vars, MgrAlive', MgrAlive,
                    NEW i \in DOMAIN sessions', sessions'[i] # None
             PROVE  st'[sessions'[i]] \in {"live", "dropping"} /\ id'[sessions'[i]] = i
  BY ManagerStaysFreed, Zenon DEF NoStaleEntry
<1> DEFINE Kept == st'[sessions'[i]] \in {"live", "dropping"} /\ id'[sessions'[i]] = i
<1> USE RelayAssumption DEF Typed, NoStaleEntry, ids, reader
<1>1. CASE UNCHANGED <<sessions, st, id>>
  BY <1>1
<1>2. ASSUME NEW h \in Handles, AllocateId(h) PROVE Kept
  BY <1>2 DEF AllocateId
<1>3. ASSUME NEW h \in Handles, Register(h) PROVE Kept
  BY <1>3 DEF Register
<1>4. ASSUME NEW h \in Handles, DropSession(h) PROVE Kept
  <2>1. st' = [st EXCEPT ![h] = "dropping"] /\ sessions' = sessions /\ id' = id
    BY <1>4 DEF DropSession
  <2>2. QED
    BY <2>1
<1>5. ASSUME NEW h \in Handles, RemoveSession(h) PROVE Kept
  BY <1>5 DEF RemoveSession, Freed
<1>6. QED
  BY <1>1, <1>2, <1>3, <1>4, <1>5, Zenon
  DEF Next, LoopStep, RecvStep, Arrive, PeerCloses, DropClient, ReleaseManager, ReadDatagram,
      Dispatch, ReadError, Recv, RecvMsg, RecvClosed, RecvCancelled, vars

(* Dispatch queues a message for the session whose id it carries. *)
LEMMA DispatchFacts ==
    ASSUME Typed, NoStaleEntry, Dispatch
    PROVE  rx' = rx \/ \E h \in Handles :
             /\ rx' = [rx EXCEPT ![h] = Append(rx[h], loop_msg)]
             /\ loop_msg.session_id = id[h] /\ st[h] # "none"
<1> DEFINE i == loop_msg.session_id
<1>1. loop_msg \in Inbound /\ i \in 0 .. IdMod - 1
  BY RelayAssumption DEF Typed, Dispatch, UdpMessage
<1>2. MgrAlive
  BY DEF MgrAlive, Dispatch
<1>3. CASE sessions[i] # None /\ st[sessions[i]] # "none" /\ HasRoom(sessions[i])
  <2>1. sessions[i] \in Handles /\ id[sessions[i]] = i
    BY <1>1, <1>2, <1>3 DEF Typed, NoStaleEntry
  <2>2. rx' = [rx EXCEPT ![sessions[i]] = Append(rx[sessions[i]], loop_msg)]
    BY <1>3 DEF Dispatch, Owner
  <2>3. QED
    BY <1>3, <2>1, <2>2, Zenon
<1>4. QED
  BY <1>3 DEF Dispatch, Owner

(* No session is given what belongs to another. *)
LEMMA OwnStep == Typed /\ NoStaleEntry /\ OwnInv /\ [Next]_vars => OwnInv'
<1> SUFFICES ASSUME Typed, NoStaleEntry, OwnInv, [Next]_vars, NEW g \in Handles
             PROVE  /\ Owns(g)'
                    /\ st'[g] = "none" => rx'[g] = << >> /\ defrag'[g] = NewDefragger
                                            /\ ret'[g] = << >>
  BY DEF OwnInv
<1> DEFINE Own == /\ Owns(g)'
                  /\ st'[g] = "none" => rx'[g] = << >> /\ defrag'[g] = NewDefragger
                                          /\ ret'[g] = << >>
<1>0. DOMAIN NewDefragger.frags = {}
  BY SMTT(30) DEF NewDefragger
<1>r. ASSUME NEW h \in Handles, RecvMsg(h)
      PROVE  /\ rx' = [rx EXCEPT ![h] = Tail(@)] /\ rx[h] # << >>
             /\ \A f \in Handles : f # h => defrag'[f] = defrag[f] /\ ret'[f] = ret[f]
             /\ HoldsOnly(defrag'[h], id[h])
             /\ \A k \in DOMAIN ret'[h] : ret'[h][k].session_id = id[h]
  BY <1>r, RecvMsgFacts, Zenon
<1>s. ASSUME id' = id, rx'[g] = rx[g], defrag'[g] = defrag[g], ret'[g] = ret[g],
             st'[g] = "none" => st[g] = "none"
      PROVE  Own
  BY <1>s DEF OwnInv, Owns, HoldsOnly
<1>f. ASSUME rx'[g] = << >>, defrag'[g] = NewDefragger, ret'[g] = << >> PROVE Own
  BY <1>0, <1>f DEF Owns, HoldsOnly
<1> USE DEF Typed, OwnInv, Owns, HoldsOnly, ids, reader
<1>1. CASE UNCHANGED <<st, id, rx, defrag, ret>>
  BY <1>1
<1>2. ASSUME NEW h \in Handles, AllocateId(h) PROVE Own
  BY <1>0, <1>2 DEF AllocateId
<1>3. ASSUME NEW h \in Handles, Register(h) PROVE Own
  BY <1>3, Zenon DEF Register
<1>4. CASE Dispatch
  <2>1. CASE rx' = rx
    BY <1>4, <2>1 DEF Dispatch
  <2>2. ASSUME NEW h \in Handles, rx' = [rx EXCEPT ![h] = Append(rx[h], loop_msg)],
               loop_msg.session_id = id[h], st[h] # "none"
        PROVE  Own
    <3>1. \A k \in DOMAIN rx'[h] : rx'[h][k].session_id = id[h]
      BY <2>2, SMTT(30)
    <3>2. QED
      BY <1>4, <2>2, <3>1, Zenon DEF Dispatch
  <2>3. QED
    BY <1>4, <2>1, <2>2, DispatchFacts, Zenon
<1>5. ASSUME NEW h \in Handles, RecvMsg(h) PROVE Own
  <2>1. id' = id /\ st' = st
    BY <1>5, Zenon DEF RecvMsg
  <2>2. CASE g = h
    <3>1. rx'[h] = Tail(rx[h]) /\ rx[h] # << >> /\ rx[h] \in Seq(Inbound)
      BY <1>5, <1>r, ZenonT(40)
    <3>2. \A k \in DOMAIN rx'[h] : rx'[h][k].session_id = id[h]
      BY <3>1
    <3>3. st[h] # "none"
      BY <3>1
    <3>4. HoldsOnly(defrag'[h], id[h]) /\ \A k \in DOMAIN ret'[h] : ret'[h][k].session_id = id[h]
      BY <1>5, <1>r, Zenon
    <3>5. QED
      BY <2>1, <2>2, <3>2, <3>3, <3>4, Zenon
  <2>3. CASE g # h
    <3>1. rx'[g] = rx[g] /\ defrag'[g] = defrag[g] /\ ret'[g] = ret[g]
      BY <1>5, <1>r, <2>3, ZenonT(40)
    <3>2. QED
      BY <1>s, <2>1, <3>1, Zenon
  <2>4. QED
    BY <2>2, <2>3, Zenon
<1>6. ASSUME NEW h \in Handles, DropSession(h) \/ RemoveSession(h) PROVE Own
  <2>1. id' = id
    BY <1>6, Zenon DEF DropSession, RemoveSession
  <2>2. CASE UNCHANGED reader /\ st' = [st EXCEPT ![h] = "dropping"]
    <3>1. st'[g] = "none" => st[g] = "none"
      BY <2>2, Zenon
    <3>2. QED
      BY <1>s, <2>1, <2>2, <3>1, Zenon
  <2>3. CASE Freed(h)
    <3>1. CASE g = h
      <4>1. rx'[g] = << >> /\ defrag'[g] = NewDefragger /\ ret'[g] = << >>
        BY <2>3, <3>1, Zenon DEF Freed
      <4>2. QED
        BY <1>f, <4>1, Zenon
    <3>2. CASE g # h
      <4>1. /\ rx'[g] = rx[g] /\ defrag'[g] = defrag[g] /\ ret'[g] = ret[g]
            /\ st'[g] = st[g]
        BY <2>3, <3>2, Zenon DEF Freed
      <4>2. QED
        BY <1>s, <2>1, <4>1, ZenonT(40)
    <3>3. QED
      BY <3>1, <3>2, Zenon
  <2>4. QED
    BY <1>6, <2>2, <2>3, Zenon DEF DropSession, RemoveSession
<1>7. QED
  BY <1>1, <1>2, <1>3, <1>4, <1>5, <1>6, Zenon
  DEF Next, LoopStep, RecvStep, Arrive, PeerCloses, DropClient, ReleaseManager, ReadDatagram,
      ReadError, Recv, RecvClosed, RecvCancelled, vars

(* Ids stay distinct until they wrap around. *)
LEMMA IdsStep == Typed /\ IdsInv /\ [Next]_vars => IdsInv'
<1> SUFFICES ASSUME Typed, IdsInv, [Next]_vars PROVE IdsInv'
  OBVIOUS
<1>0. MgrAlive' => MgrAlive
  BY ManagerStaysFreed, Zenon
<1> USE RelayAssumption DEF Typed, IdsInv, ids, reader
<1>1. CASE UNCHANGED <<ids, sessions, st, id>>
  BY <1>0, <1>1, Zenon
<1>2. ASSUME NEW h \in Handles, AllocateId(h) PROVE IdsInv'
  <2>1. /\ id' = [id EXCEPT ![h] = next_id] /\ opened' = opened + 1 /\ sessions' = sessions
        /\ st[h] = "none" /\ st' = [st EXCEPT ![h] = "allocated"]
    BY <1>2 DEF AllocateId
  <2>2. next_id' = IF next_id + 1 < IdMod THEN next_id + 1 ELSE 0
    BY <1>2, NextId, Zenon DEF AllocateId
  <2> SUFFICES ASSUME opened + 1 <= IdMod PROVE IdsInv'
    BY <2>1
  <2>3. next_id' = IF opened' + 1 < IdMod THEN opened' + 1 ELSE opened' + 1 - IdMod
    BY <2>1, <2>2, SMTT(30)
  <2>4. \A g \in Handles : opened' < IdMod /\ st'[g] # "none" => id'[g] \in 1 .. opened'
    BY <2>1, SMTT(30)
  <2>5. \A f, g \in Handles : st'[f] # "none" /\ st'[g] # "none" /\ id'[f] = id'[g] => f = g
    <3>1. next_id \notin 1 .. opened
      OBVIOUS
    <3>2. QED
      BY <2>1, <3>1
  <2>6. MgrAlive' => \A g \in Handles : st'[g] \in {"live", "dropping"} => sessions'[id'[g]] = g
    BY <1>0, <2>1, SMTT(30)
  <2>7. QED
    BY <2>3, <2>4, <2>5, <2>6, ZenonT(40)
<1>3. ASSUME NEW h \in Handles, Register(h) PROVE IdsInv'
  <2>1. /\ sessions' = [sessions EXCEPT ![id[h]] = h] /\ st[h] = "allocated"
        /\ st' = [st EXCEPT ![h] = "live"] /\ UNCHANGED <<ids, id>>
    BY <1>3 DEF Register
  <2>2. QED
    BY <1>0, <2>1, Zenon
<1>4. ASSUME NEW h \in Handles, DropSession(h) PROVE IdsInv'
  <2>1. st[h] = "live" /\ UNCHANGED <<ids, id, sessions>>
    BY <1>4 DEF DropSession
  <2>2. \E v \in {"none", "dropping"} : st' = [st EXCEPT ![h] = v]
    BY <1>4 DEF DropSession, Freed
  <2>3. QED
    BY <1>0, <2>1, <2>2
<1>5. ASSUME NEW h \in Handles, RemoveSession(h) PROVE IdsInv'
  <2>1. /\ sessions' = [sessions EXCEPT ![id[h]] = None] /\ st[h] = "dropping"
        /\ st' = [st EXCEPT ![h] = "none"] /\ UNCHANGED <<ids, id>>
    BY <1>5 DEF RemoveSession, Freed
  <2>2. QED
    BY <1>0, <2>1
<1>6. QED
  BY <1>1, <1>2, <1>3, <1>4, <1>5, Zenon
  DEF Next, LoopStep, RecvStep, Arrive, PeerCloses, DropClient, ReleaseManager, ReadDatagram,
      Dispatch, ReadError, Recv, RecvMsg, RecvClosed, RecvCancelled, vars

LEMMA IInvAlways == Spec => []IInv
<1>1. IInv /\ [Next]_vars => IInv'
  BY TypedStep, EntriesStep, OwnStep, IdsStep, Zenon DEF IInv
<1>2. QED
  BY <1>1, IInvInit, PTL DEF Spec

-----------------------------------------------------------------------------

(* Every step keeps the types, what recv returns included. *)
LEMMA TypeStep == IInv /\ TypeOK /\ [Next]_vars => TypeOK'
<1> SUFFICES ASSUME IInv, TypeOK, [Next]_vars PROVE TypeOK'
  OBVIOUS
<1>t. Typed /\ OwnInv /\ Typed'
  BY TypedStep, Zenon DEF IInv
<1> DEFINE Rest == /\ closed' \in BOOLEAN
                   /\ arrived' \in 0 .. MaxDatagrams
                   /\ loop_msg' \in Inbound \cup {None}
                   /\ opened' \in 0 .. MaxSessions
                   /\ \A g \in Handles : Len(rx'[g]) <= ChanSize
                   /\ recv' \in [Handles -> {"idle", "waiting", "failed"}]
                   /\ ret' \in [Handles -> Seq(UdpMessage)]
<1>r. Rest => TypeOK'
  <2>1. \A m \in Inbound : m # None
    BY RelayAssumption, NoneAssumption, Zenon
  <2>2. QED
    BY <1>t, <2>1 DEF Typed, TypeOK
<1> USE RelayAssumption DEF TypeOK, quic, task, ids, reader
<1>1. ASSUME NEW x \in Inbound \cup {Garbage}, Arrive(x) PROVE Rest
  BY <1>1, SMTT(30) DEF Arrive
<1>2. ASSUME PeerCloses \/ DropClient \/ ReleaseManager \/ ReadError PROVE Rest
  BY <1>2, Zenon DEF PeerCloses, DropClient, ReleaseManager, ReadError
<1>3. ASSUME ReadDatagram PROVE Rest
  <2>1. Head(dgrams) \in Inbound \cup {Garbage}
    BY <1>3 DEF ReadDatagram
  <2>2. loop_msg' \in Inbound \cup {None}
    <3>1. loop_msg' = loop_msg \/ (Head(dgrams) # Garbage /\ loop_msg' = Head(dgrams))
      BY <1>3 DEF ReadDatagram
    <3>2. QED
      BY <2>1, <3>1
  <2>3. UNCHANGED <<closed, arrived, opened, rx, recv, ret>>
    BY <1>3 DEF ReadDatagram
  <2>4. QED
    BY <2>2, <2>3
<1>4. ASSUME Dispatch PROVE Rest
  <2> DEFINE h == Owner(loop_msg)
  <2>1. \/ rx' = rx
        \/ Len(rx[h]) < ChanSize /\ rx' = [rx EXCEPT ![h] = Append(rx[h], loop_msg)]
    BY <1>4, Zenon DEF Dispatch, HasRoom
  <2> HIDE DEF h
  <2>2. loop_msg \in Inbound
    BY <1>4, <1>t, Zenon DEF Dispatch, Typed
  <2>3. \A g \in Handles : Len(rx'[g]) <= ChanSize
    <3> TAKE g \in Handles
    <3>1. rx[g] \in Seq(Inbound) /\ Len(rx[g]) <= ChanSize
      OBVIOUS
    <3>2. CASE rx'[g] = rx[g]
      BY <3>1, <3>2
    <3>3. CASE rx'[g] # rx[g]
      <4>1. Len(rx[g]) < ChanSize /\ rx'[g] = Append(rx[g], loop_msg)
        BY <2>1, <3>3
      <4>2. Len(rx'[g]) = Len(rx[g]) + 1 /\ Len(rx[g]) \in Nat
        BY <2>2, <3>1, <4>1
      <4>3. QED
        BY <4>1, <4>2
    <3>4. QED
      BY <3>2, <3>3
  <2>4. loop_msg' = None /\ UNCHANGED <<closed, arrived, opened, recv, ret>>
    BY <1>4 DEF Dispatch
  <2>5. QED
    BY <2>3, <2>4, Zenon
<1>5. ASSUME NEW h \in Handles, AllocateId(h) PROVE Rest
  BY <1>5 DEF AllocateId
<1>6. ASSUME NEW h \in Handles, Register(h) PROVE Rest
  BY <1>6 DEF Register
<1>7. ASSUME NEW h \in Handles, Recv(h) \/ RecvClosed(h) \/ RecvCancelled(h) PROVE Rest
  BY <1>7, Zenon DEF Recv, RecvClosed, RecvCancelled
<1>8. ASSUME NEW h \in Handles, RecvMsg(h) PROVE Rest
  <2> DEFINE m   == Head(rx[h])
             fed == Feed(defrag[h], m)
  <2>1. /\ rx[h] \in Seq(Inbound) /\ rx[h] # << >> /\ rx' = [rx EXCEPT ![h] = Tail(rx[h])]
        /\ defrag[h] \in DefraggerState
    BY <1>8 DEF RecvMsg
  <2>2. m \in UdpMessage
    BY <2>1, SMTT(30)
  <2>3. fed[2] \in Seq(UdpMessage)
    BY <2>1, <2>2, FeedType, Zenon
  <2>4. \/ UNCHANGED <<recv, ret>>
        \/ recv' = [recv EXCEPT ![h] = "idle"] /\ ret' = [ret EXCEPT ![h] = fed[2]]
    BY <1>8, Zenon DEF RecvMsg
  <2> HIDE DEF m, fed
  <2>5. recv' \in [Handles -> {"idle", "waiting", "failed"}] /\ ret' \in [Handles -> Seq(UdpMessage)]
    BY <2>3, <2>4, Zenon
  <2>6. \A g \in Handles : Len(rx'[g]) <= ChanSize
    <3>1. Len(Tail(rx[h])) <= ChanSize
      BY <2>1, SMTT(30)
    <3>2. QED
      BY <2>1, <3>1
  <2>7. QED
    BY <1>8, <2>5, <2>6, Zenon DEF RecvMsg
<1>9. ASSUME NEW h \in Handles, DropSession(h) \/ RemoveSession(h) PROVE Rest
  <2>1. UNCHANGED reader \/ Freed(h)
    BY <1>9, Zenon DEF DropSession, RemoveSession
  <2>2. UNCHANGED <<closed, arrived, loop_msg, opened>>
    BY <1>9 DEF DropSession, RemoveSession
  <2>3. CASE UNCHANGED reader
    BY <2>2, <2>3, Zenon
  <2>4. CASE Freed(h)
    <3>1. /\ rx' = [rx EXCEPT ![h] = << >>] /\ recv' = [recv EXCEPT ![h] = "idle"]
          /\ ret' = [ret EXCEPT ![h] = << >>]
      BY <2>4 DEF Freed
    <3>2. \A g \in Handles : Len(rx'[g]) <= ChanSize
      BY <3>1
    <3>3. ret' \in [Handles -> Seq(UdpMessage)]
      BY <3>1
    <3>4. recv' \in [Handles -> {"idle", "waiting", "failed"}]
      BY <3>1
    <3>5. QED
      BY <2>2, <3>2, <3>3, <3>4, Zenon
  <2>5. QED
    BY <2>1, <2>3, <2>4, Zenon
<1>10. ASSUME UNCHANGED vars PROVE Rest
  BY <1>10, Zenon DEF vars
<1>11. Rest
  BY <1>1, <1>2, <1>3, <1>4, <1>5, <1>6, <1>7, <1>8, <1>9, <1>10, ZenonT(40)
  DEF Next, LoopStep, RecvStep
<1>12. QED
  BY <1>r, <1>11

(* Theorem: every variable keeps its type, what recv returns is always a   *)
(* message, and dispatch never lets a queue grow past SESSION_CHAN_SIZE.   *)
THEOREM TypeCorrect == Spec => []TypeOK
<1>1. Init => TypeOK
  <2>1. NewDefragger \in DefraggerState
    BY NewDefraggerType
  <2> SUFFICES ASSUME Init PROVE TypeOK
    OBVIOUS
  <2>2. next_id \in 0 .. IdMod - 1 /\ id \in [Handles -> 0 .. IdMod - 1]
    BY RelayAssumption DEF Init
  <2>3. /\ rx \in [Handles -> Seq(Inbound)] /\ \A h \in Handles : Len(rx[h]) <= ChanSize
        /\ ret \in [Handles -> Seq(UdpMessage)]
    BY RelayAssumption DEF Init
  <2>4. defrag \in [Handles -> DefraggerState]
    BY <2>1 DEF Init
  <2>5. /\ arrived \in 0 .. MaxDatagrams /\ opened \in 0 .. MaxSessions
        /\ dgrams \in Seq(Inbound \cup {Garbage})
    BY RelayAssumption DEF Init
  <2>6. QED
    BY <2>2, <2>3, <2>4, <2>5, Zenon DEF Init, TypeOK
<1>2. QED
  BY <1>1, TypeStep, IInvAlways, PTL DEF Spec

(* Theorem: what dispatch queues for a session, what its Defragger holds   *)
(* and what recv returned carries its id, and until next_id has wrapped    *)
(* around no other session has that id, however sessions are opened and    *)
(* dropped while the loop dispatches.                                      *)
THEOREM SessionsAreSeparate == Spec => []OnlyOwnTraffic
<1>1. IInv => OnlyOwnTraffic
  <2> SUFFICES ASSUME IInv, NEW h \in Handles, NEW m \in Held(h)
               PROVE  /\ m.session_id = id[h]
                      /\ opened <= IdMod =>
                           \A g \in Handles : st[g] # "none" /\ id[g] = m.session_id => g = h
    BY Zenon DEF OnlyOwnTraffic
  <2>1. m.session_id = id[h]
    BY DEF IInv, OwnInv, Owns, HoldsOnly, Held, Range
  <2>2. st[h] # "none"
    <3>1. DOMAIN NewDefragger.frags = {}
      BY NewDefraggerType
    <3>2. SUFFICES ASSUME rx[h] = << >>, defrag[h] = NewDefragger, ret[h] = << >> PROVE FALSE
      BY Zenon DEF IInv, OwnInv
    <3>3. QED
      BY <3>1, <3>2 DEF Held, Range
  <2>3. \A g \in Handles : opened <= IdMod /\ st[g] # "none" /\ id[g] = id[h] => g = h
    BY <2>2, Zenon DEF IInv, IdsInv
  <2>4. QED
    BY <2>1, <2>3, Zenon
<1>2. QED
  BY <1>1, IInvAlways, PTL

(* Theorem: while fewer sessions have been opened than there are ids, one  *)
(* that its caller holds is in the map, under any interleaving of          *)
(* new_session and of Drop for UdpSession.                                 *)
THEOREM SessionsAreReachable == Spec => []LiveIsRegistered
<1>1. IInv => LiveIsRegistered
  BY DEF IInv, IdsInv, LiveIsRegistered
<1>2. QED
  BY <1>1, IInvAlways, PTL

(* Theorem: the map keeps no entry of a session that has been dropped,     *)
(* also when a dropped session and a new one share an id.                  *)
THEOREM MapDoesNotLeak == Spec => []NoStaleEntry
<1>1. IInv => NoStaleEntry
  BY DEF IInv
<1>2. QED
  BY <1>1, IInvAlways, PTL
=============================================================================
