------------------------------ MODULE Reconnect ------------------------------
(***************************************************************************)
(* ReconnectableClient (reconnect.rs) shared by several tasks. The tokio   *)
(* Mutex around State is fair: lock() queues, and the first in the queue   *)
(* enters when the mutex is free. current() keeps it locked while connect  *)
(* is awaited; every other critical section ends before the next await, so *)
(* it is one step. A HysteriaClient closes its connection when its last    *)
(* Arc is dropped (client.rs), and every await may be the last one of a    *)
(* cancelled call.                                                         *)
(***************************************************************************)
EXTENDS Naturals, Sequences, Vectors

CONSTANTS
    Callers,   \* tasks that share the client
    MaxConns,  \* bound on the connections made
    None       \* Option::None

Conns == 1 .. MaxConns

ASSUME ReconnectAssumption == MaxConns \in Nat /\ None \notin Conns /\ None \notin Callers

VARIABLES
    client, count, closed, \* State
    conn,                  \* each connection: unborn, open, closed
    lock,                  \* who holds the mutex across an await
    queue,                 \* who waits for it
    pc,                    \* idle, lock (queued), dial (in connect), open (in tcp_connect)
    op,                    \* the method called: tcp_connect, udp, invalidate, close
    goal,                  \* the critical section waited for: current, invalidate, close
    mine, fresh,           \* Arcs held: `client` and the retry's temporary
    result,                \* what the last call returned
    late,                  \* history: the call began after close
    dials                  \* history: connects the call began

state == <<client, count, closed>>
call == <<op, goal, late>>
vars == <<state, conn, lock, queue, pc, call, mine, fresh, result, dials>>

Init ==
    /\ client = None /\ count = 0 /\ closed = FALSE
    /\ conn = [i \in Conns |-> "unborn"]
    /\ lock = None
    /\ queue = << >>
    /\ pc = [c \in Callers |-> "idle"]
    /\ op = [c \in Callers |-> "udp"]
    /\ goal = [c \in Callers |-> "current"]
    /\ mine = [c \in Callers |-> None]
    /\ fresh = [c \in Callers |-> None]
    /\ result = [c \in Callers |-> "none"]
    /\ late = [c \in Callers |-> FALSE]
    /\ dials = [c \in Callers |-> 0]

-----------------------------------------------------------------------------

(* conn0 after a step, with the connections closed whose last Arc it       *)
(* dropped (Drop for HysteriaClient). Read after the other variables.      *)
ConnsAfter(conn0) ==
    [i \in Conns |->
       IF conn0[i] = "open" /\ client' # i
            /\ \A c \in Callers : mine'[c] # i /\ fresh'[c] # i
       THEN "closed" ELSE conn0[i]]

Usable(i) == i # None /\ conn[i] = "open"

(* c is inside the mutex. *)
Enters(c) == lock = None /\ queue # << >> /\ Head(queue) = c

Goto(c, l) == pc' = [pc EXCEPT ![c] = l]

(* The call ends; its Arcs are dropped. *)
Return(c, r) ==
    /\ Goto(c, "idle")
    /\ result' = [result EXCEPT ![c] = r]
    /\ mine' = [mine EXCEPT ![c] = None]
    /\ fresh' = [fresh EXCEPT ![c] = None]

(* current() returned connection i: tcp_connect goes on to open a stream,  *)
(* udp opens its session at once or finds that the server has no UDP.      *)
GotCurrent(c, i) ==
    IF op[c] = "tcp_connect"
    THEN /\ Goto(c, "open")
         /\ IF mine[c] = None
            THEN mine' = [mine EXCEPT ![c] = i] /\ UNCHANGED fresh
            ELSE fresh' = [fresh EXCEPT ![c] = i] /\ UNCHANGED mine
         /\ UNCHANGED result
    ELSE \E r \in {"ok", "err"} : Return(c, r)

-----------------------------------------------------------------------------

Call(c, o) ==
    /\ pc[c] = "idle"
    /\ op' = [op EXCEPT ![c] = o]
    /\ goal' = [goal EXCEPT ![c] = IF o \in {"tcp_connect", "udp"} THEN "current" ELSE o]
    /\ late' = [late EXCEPT ![c] = closed]
    /\ result' = [result EXCEPT ![c] = "none"]
    /\ dials' = [dials EXCEPT ![c] = 0]
    /\ queue' = Append(queue, c)
    /\ Goto(c, "lock")
    /\ UNCHANGED <<state, conn, lock, mine, fresh>>

(* current(): the client has been closed. *)
CurrentClosed(c) ==
    /\ Enters(c) /\ goal[c] = "current" /\ closed
    /\ queue' = Tail(queue)
    /\ Return(c, "err")
    /\ UNCHANGED <<state, lock, call, dials>>
    /\ conn' = ConnsAfter(conn)

CurrentLive_bug_GuardKept(c) ==
    /\ Enters(c) /\ goal[c] = "current" /\ ~closed /\ Usable(client)
    /\ queue' = Tail(queue)
    /\ GotCurrent(c, client)
    /\ lock' = IF op[c] = "tcp_connect" THEN c ELSE None
    /\ UNCHANGED <<state, call, dials>>
    /\ conn' = ConnsAfter(conn)

(* current(): the connection at hand is not known to be dead. *)
CurrentLive(c) ==
    /\ Enters(c) /\ goal[c] = "current" /\ ~closed /\ Usable(client)
    /\ queue' = Tail(queue)
    /\ GotCurrent(c, client)
    /\ UNCHANGED <<state, lock, call, dials>>
    /\ conn' = ConnsAfter(conn)

CurrentStale_bug_GuardDropped(c) ==
    /\ Enters(c) /\ goal[c] = "current" /\ ~closed /\ ~Usable(client)
    /\ queue' = Tail(queue)
    /\ Goto(c, "dial")
    /\ dials' = [dials EXCEPT ![c] = @ + 1]
    /\ UNCHANGED <<state, conn, call, mine, fresh, result, lock>>

CurrentStale_bug_ClosedIgnored(c) ==
    /\ Enters(c) /\ goal[c] = "current" /\ ~Usable(client)
    /\ queue' = Tail(queue)
    /\ lock' = c
    /\ Goto(c, "dial")
    /\ dials' = [dials EXCEPT ![c] = @ + 1]
    /\ UNCHANGED <<state, conn, call, mine, fresh, result>>

(* current(): connect is awaited with the mutex locked. *)
CurrentStale(c) ==
    /\ Enters(c) /\ goal[c] = "current" /\ ~closed /\ ~Usable(client)
    /\ queue' = Tail(queue)
    /\ lock' = c
    /\ Goto(c, "dial")
    /\ dials' = [dials EXCEPT ![c] = @ + 1]
    /\ UNCHANGED <<state, conn, call, mine, fresh, result>>

DialOk_bug_CountedTwice(c) ==
    /\ pc[c] = "dial" /\ count < MaxConns
    /\ client' = count + 1
    /\ count' = count + 2
    /\ lock' = None
    /\ GotCurrent(c, count + 1)
    /\ UNCHANGED <<closed, queue, call, dials>>
    /\ conn' = ConnsAfter([conn EXCEPT ![count + 1] = "open"])

DialOk(c) ==
    /\ pc[c] = "dial" /\ count < MaxConns
    /\ client' = count + 1
    /\ count' = count + 1
    /\ lock' = None
    /\ GotCurrent(c, count + 1)
    /\ UNCHANGED <<closed, queue, call, dials>>
    /\ conn' = ConnsAfter([conn EXCEPT ![count + 1] = "open"])

(* connect fails: State keeps whatever client it had. *)
DialFails(c) ==
    /\ pc[c] = "dial"
    /\ lock' = None
    /\ Return(c, "err")
    /\ UNCHANGED <<state, queue, call, dials>>
    /\ conn' = ConnsAfter(conn)

-----------------------------------------------------------------------------
(* tcp_connect, after current().                                           *)

InUse(c) == IF fresh[c] # None THEN fresh[c] ELSE mine[c]

OpenOk(c) ==
    /\ pc[c] = "open" /\ conn[InUse(c)] = "open"
    /\ Return(c, "ok")
    /\ UNCHANGED <<state, lock, queue, call, dials>>
    /\ conn' = ConnsAfter(conn)

OpenRetries_bug_NoLimit(c) ==
    /\ pc[c] = "open" /\ conn[InUse(c)] = "closed"
    /\ goal' = [goal EXCEPT ![c] = "invalidate"]
    /\ queue' = Append(queue, c)
    /\ Goto(c, "lock")
    /\ UNCHANGED <<state, conn, lock, op, late, mine, fresh, result, dials>>

(* The first attempt failed and the connection has a close reason. *)
OpenRetries(c) ==
    /\ pc[c] = "open" /\ fresh[c] = None /\ conn[mine[c]] = "closed"
    /\ goal' = [goal EXCEPT ![c] = "invalidate"]
    /\ queue' = Append(queue, c)
    /\ Goto(c, "lock")
    /\ UNCHANGED <<state, conn, lock, op, late, mine, fresh, result, dials>>

(* The stream failed on a live connection, or the retry failed. *)
OpenFails(c) ==
    /\ pc[c] = "open" /\ (fresh[c] # None \/ conn[mine[c]] = "open")
    /\ Return(c, "err")
    /\ UNCHANGED <<state, lock, queue, call, dials>>
    /\ conn' = ConnsAfter(conn)

(* invalidate(), for the retry of tcp_connect, which goes on to current(). *)
RetryInvalidates(c) ==
    /\ Enters(c) /\ goal[c] = "invalidate" /\ op[c] = "tcp_connect"
    /\ client' = None
    /\ goal' = [goal EXCEPT ![c] = "current"]
    /\ queue' = Append(Tail(queue), c)
    /\ UNCHANGED <<count, closed, lock, pc, op, late, mine, fresh, result, dials>>
    /\ conn' = ConnsAfter(conn)

Invalidate(c) ==
    /\ Enters(c) /\ goal[c] = "invalidate" /\ op[c] = "invalidate"
    /\ client' = None
    /\ queue' = Tail(queue)
    /\ Return(c, "ok")
    /\ UNCHANGED <<count, closed, lock, call, dials>>
    /\ conn' = ConnsAfter(conn)

Close_bug_ClientKept(c) ==
    /\ Enters(c) /\ goal[c] = "close"
    /\ closed' = TRUE
    /\ queue' = Tail(queue)
    /\ Return(c, "ok")
    /\ UNCHANGED <<client, count, lock, call, dials>>
    /\ conn' = ConnsAfter(conn)

Close(c) ==
    /\ Enters(c) /\ goal[c] = "close"
    /\ closed' = TRUE
    /\ client' = None
    /\ queue' = Tail(queue)
    /\ Return(c, "ok")
    /\ UNCHANGED <<count, lock, call, dials>>
    /\ conn' = ConnsAfter(conn)

-----------------------------------------------------------------------------

(* A queue in which c stands at most once, after c has left it. *)
Without(q, c) ==
    IF \E k \in 1 .. Len(q) : q[k] = c
    THEN RemoveNth(q, CHOOSE k \in 1 .. Len(q) : q[k] = c)
    ELSE q

(* The caller drops the future of a call at one of its awaits. *)
Cancel(c) ==
    /\ pc[c] # "idle"
    /\ queue' = Without(queue, c)
    /\ lock' = IF lock = c THEN None ELSE lock
    /\ Return(c, "none")
    /\ UNCHANGED <<state, call, dials>>
    /\ conn' = ConnsAfter(conn)

(* The server closes connection i, or it times out. *)
PeerCloses(i) ==
    /\ conn[i] = "open"
    /\ conn' = [conn EXCEPT ![i] = "closed"]
    /\ UNCHANGED <<state, lock, queue, pc, call, mine, fresh, result, dials>>

Step(c) ==
    \/ CurrentClosed(c) \/ CurrentLive(c) \/ CurrentStale(c)
    \/ DialOk(c) \/ DialFails(c)
    \/ OpenOk(c) \/ OpenRetries(c) \/ OpenFails(c)
    \/ RetryInvalidates(c) \/ Invalidate(c) \/ Close(c)

Methods == {"tcp_connect", "udp", "invalidate", "close"}

Next ==
    \/ \E c \in Callers : (\E o \in Methods : Call(c, o)) \/ Step(c) \/ Cancel(c)
    \/ \E i \in Conns : PeerCloses(i)

(* A task that can run is polled. For DialOk, DialFails, OpenOk, OpenRetries *)
(* and OpenFails this assumes that the server answers or the connection      *)
(* dies: reconnect.rs itself has no timeout.                                 *)
Fairness == \A c \in Callers : WF_vars(Step(c))

Spec == Init /\ [][Next]_vars /\ Fairness

-----------------------------------------------------------------------------

(* Every variable has its type. *)
TypeOK ==
    /\ client \in Conns \cup {None}
    /\ count \in 0 .. MaxConns
    /\ closed \in BOOLEAN
    /\ conn \in [Conns -> {"unborn", "open", "closed"}]
    /\ lock \in Callers \cup {None}
    /\ queue \in Seq(Callers)
    /\ pc \in [Callers -> {"idle", "lock", "dial", "open"}]
    /\ op \in [Callers -> Methods]
    /\ goal \in [Callers -> {"current", "invalidate", "close"}]
    /\ mine \in [Callers -> Conns \cup {None}]
    /\ fresh \in [Callers -> Conns \cup {None}]
    /\ result \in [Callers -> {"none", "ok", "err"}]
    /\ late \in [Callers -> BOOLEAN]
    /\ dials \in [Callers -> Nat]

(* Once close has run no connection is stored and none is being made, not  *)
(* even by a call that was dialling or retrying when close was called.     *)
ClosedIsFinal == closed => client = None /\ \A c \in Callers : pc[c] # "dial"

(* reconnect.rs:101: tcp_connect and udp, called after close, fail.        *)
CallsAfterCloseFail ==
    \A c \in Callers : late[c] /\ op[c] \in {"tcp_connect", "udp"} => result[c] # "ok"

(* After close, when the calls that were under way have ended, no          *)
(* connection is left open behind the caller's back.                       *)
CloseReleasesAll ==
    closed /\ (\A c \in Callers : pc[c] = "idle") => \A i \in Conns : conn[i] # "open"

(* Callers that find the connection dead together do not each dial: at     *)
(* most one connect runs, and only while no usable connection is stored.   *)
OneDialAtATime ==
    \A c \in Callers : pc[c] = "dial" =>
      ~Usable(client) /\ \A e \in Callers : pc[e] = "dial" => e = c

(* "reconnecting once": a tcp_connect dials at most twice, udp once.       *)
ReconnectsOnce ==
    \A c \in Callers : dials[c] <= IF op[c] = "tcp_connect" THEN 2 ELSE 1

(* Every call returns: no caller waits for a mutex that is never released. *)
EveryCallReturns == \A c \in Callers : pc[c] # "idle" ~> pc[c] = "idle"

SlotState ==
    IF client = None THEN "empty" ELSE IF conn[client] = "open" THEN "live" ELSE "dead"

Slot == INSTANCE ConnectionSlot WITH slot <- SlotState

(* To its callers the shared client is the ConnectionSlot.                 *)
ImplementsSlot == Slot!SlotSpec

(* reconnect.rs:85, "If the connection died, drop it": the retry of one    *)
(* caller drops no connection that is alive, such as the one another       *)
(* caller's retry has just made.                                           *)
RetryDropsOnlyDead ==
    [][\A c \in Callers : RetryInvalidates(c) => ~Usable(client)]_vars
=============================================================================
