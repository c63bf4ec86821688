------------------------------ MODULE UdpRelay ------------------------------
(***************************************************************************)
(* The UDP relay of one connection (udp.rs, client.rs): the                *)
(* UdpSessionManager, its receive_loop task, the sessions handed to        *)
(* callers on any thread, and the drop of the HysteriaClient that owns it  *)
(* all. Sessions and the loop only hold Weak references to the manager; a  *)
(* session's queue is closed when its Sender leaves the map or the map is  *)
(* freed with the manager.                                                 *)
(***************************************************************************)
EXTENDS Fragmentation, FiniteSets

CONSTANTS
    Handles,      \* places callers keep a UdpSession in
    IdMod,        \* number of values of a u32 session id (2^32)
    ChanSize,     \* SESSION_CHAN_SIZE
    Inbound,      \* messages the server may send
    Garbage,      \* a datagram UdpMessage::parse rejects
    MaxDatagrams, \* bound on the number of datagrams that arrive
    MaxSessions   \* bound on the number of sessions opened

ASSUME RelayAssumption ==
    /\ IdMod \in Nat \ {0, 1} /\ ChanSize \in Nat \ {0}
    /\ {MaxDatagrams, MaxSessions} \subseteq Nat
    /\ Inbound \subseteq {m \in UdpMessage : m.session_id < IdMod}
    /\ Garbage \notin UdpMessage /\ Garbage # None
    /\ None \notin Handles

VARIABLES
    closed,    \* the QUIC connection is closed, by whichever side
    client,    \* HysteriaClient: alive, closing (in drop), gone
    dgrams,    \* datagrams quinn has buffered
    arrived,   \* number of datagrams so far
    loop,      \* receive_loop: read, dispatch (manager upgraded), done
    loop_msg,  \* the message being dispatched
    next_id,
    opened,    \* history: number of ids handed out
    sessions,  \* the map: whose Sender is stored under an id
    st,        \* a session: none, allocated, live, dropping
    id, rx, defrag,
    recv,      \* its recv: idle, waiting, or failed (returned the error)
    ret        \* the last message its recv returned, as << >> or <<m>>

quic == <<closed, dgrams, arrived>>
task == <<loop, loop_msg>>
ids == <<next_id, opened>>
reader == <<rx, defrag, recv, ret>>
vars == <<quic, client, task, ids, sessions, st, id, reader>>

Init ==
    /\ closed = FALSE
    /\ client = "alive"
    /\ dgrams = << >>
    /\ arrived = 0
    /\ loop = "read"
    /\ loop_msg = None
    /\ next_id = 1
    /\ opened = 0
    /\ sessions = [i \in 0 .. IdMod - 1 |-> None]
    /\ st = [h \in Handles |-> "none"]
    /\ id = [h \in Handles |-> 0]
    /\ rx = [h \in Handles |-> << >>]
    /\ defrag = [h \in Handles |-> NewDefragger]
    /\ recv = [h \in Handles |-> "idle"]
    /\ ret = [h \in Handles |-> << >>]

MgrAlive_bug_StrongSessions ==
    client # "gone" \/ loop = "dispatch" \/ \E h \in Handles : st[h] \in {"live", "dropping"}

(* Someone holds an Arc of the manager: its client, or an upgraded Weak. *)
MgrAlive == client # "gone" \/ loop = "dispatch" \/ \E h \in Handles : st[h] = "dropping"

HasSender(h) == MgrAlive /\ \E i \in DOMAIN sessions : sessions[i] = h

-----------------------------------------------------------------------------
(* new_session: the id is taken by an atomic fetch_add, the Sender is      *)
(* inserted under the lock.                                                *)

AllocateId_bug_LoadOnly(h) ==
    /\ client = "alive" /\ st[h] = "none" /\ opened < MaxSessions
    /\ id' = [id EXCEPT ![h] = next_id]
    /\ next_id' = IF \E g \in Handles : st[g] = "allocated" THEN (next_id + 1) % IdMod ELSE next_id
    /\ opened' = opened + 1
    /\ st' = [st EXCEPT ![h] = "allocated"]
    /\ UNCHANGED <<quic, client, task, sessions, reader>>

AllocateId(h) ==
    /\ client = "alive" /\ st[h] = "none" /\ opened < MaxSessions
    /\ id' = [id EXCEPT ![h] = next_id]
    /\ next_id' = (next_id + 1) % IdMod
    /\ opened' = opened + 1
    /\ st' = [st EXCEPT ![h] = "allocated"]
    /\ UNCHANGED <<quic, client, task, sessions, reader>>

Register(h) ==
    /\ st[h] = "allocated"
    /\ sessions' = [sessions EXCEPT ![id[h]] = h]
    /\ st' = [st EXCEPT ![h] = "live"]
    /\ UNCHANGED <<quic, client, task, ids, id, reader>>

-----------------------------------------------------------------------------
(* The connection and its owner.                                           *)

Arrive(x) ==
    /\ ~closed /\ arrived < MaxDatagrams
    /\ dgrams' = Append(dgrams, x)
    /\ arrived' = arrived + 1
    /\ UNCHANGED <<closed, client, task, ids, sessions, st, id, reader>>

(* The peer closes the connection, or it times out. *)
PeerCloses ==
    /\ ~closed
    /\ closed' = TRUE
    /\ UNCHANGED <<dgrams, arrived, client, task, ids, sessions, st, id, reader>>

DropClient_bug_NotClosed ==
    /\ client = "alive" /\ \A h \in Handles : st[h] # "allocated"
    /\ client' = "closing"
    /\ UNCHANGED <<quic, task, ids, sessions, st, id, reader>>

(* Drop for HysteriaClient: no call that borrows the client is running.    *)
DropClient ==
    /\ client = "alive" /\ \A h \in Handles : st[h] # "allocated"
    /\ closed' = TRUE
    /\ client' = "closing"
    /\ UNCHANGED <<dgrams, arrived, task, ids, sessions, st, id, reader>>

(* Its fields are dropped after that, its Arc of the manager among them. *)
ReleaseManager ==
    /\ client = "closing"
    /\ client' = "gone"
    /\ UNCHANGED <<quic, task, ids, sessions, st, id, reader>>

-----------------------------------------------------------------------------
(* receive_loop: read_datagram returns buffered datagrams before an error. *)

ReadDatagram ==
    /\ loop = "read" /\ dgrams # << >>
    /\ dgrams' = Tail(dgrams)
    /\ IF Head(dgrams) = Garbage
       THEN UNCHANGED task
       ELSE IF MgrAlive THEN loop' = "dispatch" /\ loop_msg' = Head(dgrams)
                        ELSE loop' = "done" /\ UNCHANGED loop_msg
    /\ UNCHANGED <<closed, arrived, client, ids, sessions, st, id, reader>>

Owner_bug_ByPacketId(m) == sessions[m.packet_id % IdMod]

(* Whose Sender is stored for the session that m names. *)
Owner(m) == sessions[m.session_id]

HasRoom_bug_Unbounded(h) == TRUE

HasRoom(h) == Len(rx[h]) < ChanSize

(* dispatch and the release of the upgraded Arc. An unknown session, a     *)
(* full queue or a receiver that is gone drops the message.                *)
Dispatch ==
    /\ loop = "dispatch"
    /\ LET h == Owner(loop_msg)
       IN  IF h # None /\ st[h] # "none" /\ HasRoom(h)
           THEN rx' = [rx EXCEPT ![h] = Append(@, loop_msg)]
           ELSE UNCHANGED rx
    /\ loop' = "read"
    /\ loop_msg' = None
    /\ UNCHANGED <<quic, client, ids, sessions, st, id, defrag, recv, ret>>

ReadError ==
    /\ loop = "read" /\ dgrams = << >> /\ closed
    /\ loop' = "done"
    /\ UNCHANGED <<quic, client, loop_msg, ids, sessions, st, id, reader>>

-----------------------------------------------------------------------------
(* UdpSession: recv takes &mut self, so a session has one reader, and it   *)
(* is dropped only when no recv is running.                                *)

Recv(h) ==
    /\ st[h] = "live" /\ recv[h] # "waiting"
    /\ recv' = [recv EXCEPT ![h] = "waiting"]
    /\ UNCHANGED <<quic, client, task, ids, sessions, st, id, rx, defrag, ret>>

RecvMsg(h) ==
    /\ recv[h] = "waiting" /\ rx[h] # << >>
    /\ rx' = [rx EXCEPT ![h] = Tail(@)]
    /\ LET fed == Feed(defrag[h], Head(rx[h]))
       IN  /\ defrag' = [defrag EXCEPT ![h] = fed[1]]
           /\ IF fed[2] = << >>
              THEN UNCHANGED <<recv, ret>>
              ELSE /\ recv' = [recv EXCEPT ![h] = "idle"]
                   /\ ret' = [ret EXCEPT ![h] = fed[2]]
    /\ UNCHANGED <<quic, client, task, ids, sessions, st, id>>

(* The queue is empty and its last Sender is gone. *)
RecvClosed(h) ==
    /\ recv[h] = "waiting" /\ rx[h] = << >> /\ ~HasSender(h)
    /\ recv' = [recv EXCEPT ![h] = "failed"]
    /\ UNCHANGED <<quic, client, task, ids, sessions, st, id, rx, defrag, ret>>

(* The caller drops the future of recv, in a select! or on a timeout. *)
RecvCancelled(h) ==
    /\ recv[h] = "waiting"
    /\ recv' = [recv EXCEPT ![h] = "idle"]
    /\ UNCHANGED <<quic, client, task, ids, sessions, st, id, rx, defrag, ret>>

(* The fields of the session are dropped, its queue and Defragger too. *)
Freed(h) ==
    /\ st' = [st EXCEPT ![h] = "none"]
    /\ rx' = [rx EXCEPT ![h] = << >>]
    /\ defrag' = [defrag EXCEPT ![h] = NewDefragger]
    /\ recv' = [recv EXCEPT ![h] = "idle"]
    /\ ret' = [ret EXCEPT ![h] = << >>]

(* Drop for UdpSession: upgrade the Weak, ... *)
DropSession(h) ==
    /\ st[h] = "live" /\ recv[h] # "waiting"
    /\ IF MgrAlive THEN st' = [st EXCEPT ![h] = "dropping"] /\ UNCHANGED reader
                   ELSE Freed(h)
    /\ UNCHANGED <<quic, client, task, ids, sessions, id>>

RemoveSession_bug_Kept(h) ==
    /\ st[h] = "dropping"
    /\ Freed(h)
    /\ UNCHANGED <<quic, client, task, ids, sessions, id>>

(* ... remove the id under the lock, and release the upgraded Arc. *)
RemoveSession(h) ==
    /\ st[h] = "dropping"
    /\ sessions' = [sessions EXCEPT ![id[h]] = None]
    /\ Freed(h)
    /\ UNCHANGED <<quic, client, task, ids, id>>

-----------------------------------------------------------------------------

LoopStep == ReadDatagram \/ Dispatch \/ ReadError

RecvStep(h) == RecvMsg(h) \/ RecvClosed(h)

Next ==
    \/ \E x \in Inbound \cup {Garbage} : Arrive(x)
    \/ PeerCloses \/ DropClient \/ ReleaseManager
    \/ LoopStep
    \/ \E h \in Handles :
         \/ AllocateId(h) \/ Register(h)
         \/ Recv(h) \/ RecvStep(h) \/ RecvCancelled(h)
         \/ DropSession(h) \/ RemoveSession(h)

(* tokio polls a task that has been woken, and a thread inside a           *)
(* synchronous call finishes it. Nothing makes a peer send or close, or a  *)
(* caller open, cancel or drop.                                            *)
Fairness ==
    /\ WF_vars(LoopStep)
    /\ WF_vars(ReleaseManager)
    /\ \A h \in Handles : /\ WF_vars(Register(h))
                          /\ WF_vars(RecvStep(h))
                          /\ WF_vars(RemoveSession(h))

Spec == Init /\ [][Next]_vars /\ Fairness

-----------------------------------------------------------------------------

(* Every variable has its type, and no queue exceeds ChanSize. *)
TypeOK ==
    /\ closed \in BOOLEAN
    /\ client \in {"alive", "closing", "gone"}
    /\ dgrams \in Seq(Inbound \cup {Garbage})
    /\ arrived \in 0 .. MaxDatagrams
    /\ loop \in {"read", "dispatch", "done"}
    /\ loop_msg \in Inbound \cup {None}
    /\ loop = "dispatch" => loop_msg # None
    /\ next_id \in 0 .. IdMod - 1
    /\ opened \in 0 .. MaxSessions
    /\ sessions \in [0 .. IdMod - 1 -> Handles \cup {None}]
    /\ st \in [Handles -> {"none", "allocated", "live", "dropping"}]
    /\ id \in [Handles -> 0 .. IdMod - 1]
    /\ rx \in [Handles -> Seq(Inbound)]
    /\ \A h \in Handles : Len(rx[h]) <= ChanSize
    /\ defrag \in [Handles -> DefraggerState]
    /\ recv \in [Handles -> {"idle", "waiting", "failed"}]
    /\ ret \in [Handles -> Seq(UdpMessage)]

(* What session h has been given: queued, half reassembled, or returned.   *)
Held(h) == (Range(rx[h]) \cup Range(defrag[h].frags) \cup Range(ret[h])) \ {None}

(* A session is only ever given messages of its own id, also when a        *)
(* packet_id agrees with that of another session, and, until the u32 of    *)
(* next_id has wrapped around, that id names no other session: what it is  *)
(* given is its own. After the wrap-around a new session may have the id   *)
(* of a live one and takes over its entry, so that the replies to the      *)
(* older session reach the newer; there only the id is sure to match.      *)
OnlyOwnTraffic ==
    \A h \in Handles : \A m \in Held(h) :
      /\ m.session_id = id[h]
      /\ opened <= IdMod =>
           \A g \in Handles : st[g] # "none" /\ id[g] = m.session_id => g = h

(* As long as the ids have not wrapped around, a session that its caller   *)
(* still holds can be reached by the loop, whatever other sessions are     *)
(* opened and dropped concurrently.                                        *)
LiveIsRegistered ==
    opened <= IdMod /\ MgrAlive =>
      \A h \in Handles : st[h] = "live" => sessions[id[h]] = h

(* The map does not keep a Sender of a session that has been dropped, so   *)
(* opening and dropping sessions does not grow it.                         *)
NoStaleEntry ==
    MgrAlive => \A i \in DOMAIN sessions : sessions[i] # None =>
      st[sessions[i]] \in {"live", "dropping"} /\ id[sessions[i]] = i

(* Dropping the client ends the receive_loop task (client.rs:101-105).     *)
LoopEnds == client = "closing" ~> loop = "done"

(* Dropping the client ends a recv that is waiting on one of its sessions. *)
RecvEndsWithClient ==
    \A h \in Handles :
      client = "gone" /\ recv[h] = "waiting" ~> recv[h] # "waiting"

(* udp.rs:154 says that recv returns an error once the connection is       *)
(* closed: a waiting recv does not wait on a closed connection for ever.   *)
RecvEndsWithConnection ==
    \A h \in Handles : closed /\ recv[h] = "waiting" ~> recv[h] # "waiting"
=============================================================================
