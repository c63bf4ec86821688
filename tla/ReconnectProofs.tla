-------------------------- MODULE ReconnectProofs ---------------------------
(***************************************************************************)
(* Proofs about Reconnect, for any number of callers and connections.      *)
(***************************************************************************)
EXTENDS Reconnect, TLAPS

(* What the queue's operators return. *)
LEMMA Members ==
    ASSUME NEW S, NEW s \in Seq(S)
    PROVE  Len(s) \in Nat /\ \A i \in 1 .. Len(s) : s[i] \in S
  OBVIOUS

LEMMA Parts ==
    ASSUME NEW S, NEW s \in Seq(S), NEW i \in 1 .. Len(s) + 1, NEW j \in 0 .. Len(s), i <= j + 1
    PROVE  /\ SubSeq(s, i, j) \in Seq(S)
           /\ Len(SubSeq(s, i, j)) = j - i + 1
           /\ \A k \in 1 .. j - i + 1 : SubSeq(s, i, j)[k] = s[i + k - 1]
  OBVIOUS

LEMMA Joined ==
    ASSUME NEW S, NEW s \in Seq(S), NEW t \in Seq(S)
    PROVE  /\ s \o t \in Seq(S)
           /\ Len(s \o t) = Len(s) + Len(t)
           /\ \A i \in 1 .. Len(s) + Len(t) : (s \o t)[i] = IF i <= Len(s) THEN s[i] ELSE t[i - Len(s)]
  OBVIOUS

LEMMA Longer ==
    ASSUME NEW S, NEW s \in Seq(S), NEW e \in S
    PROVE  /\ Append(s, e) \in Seq(S)
           /\ Len(Append(s, e)) = Len(s) + 1
           /\ \A i \in 1 .. Len(s) : Append(s, e)[i] = s[i]
           /\ Append(s, e)[Len(s) + 1] = e
  OBVIOUS

LEMMA Shorter ==
    ASSUME NEW S, NEW s \in Seq(S), s # << >>
    PROVE  /\ Len(s) \in Nat \ {0}
           /\ Head(s) = s[1] /\ Head(s) \in S
           /\ Tail(s) \in Seq(S)
           /\ Len(Tail(s)) = Len(s) - 1
           /\ \A i \in 1 .. Len(s) - 1 : Tail(s)[i] = s[i + 1]
  OBVIOUS

(* Leaving the queue keeps it a queue. *)
LEMMA WithoutType ==
    ASSUME NEW S, NEW q \in Seq(S), NEW e
    PROVE  Without(q, e) \in Seq(S)
<1>1. CASE \E i \in 1 .. Len(q) : q[i] = e
  <2> DEFINE k == CHOOSE i \in 1 .. Len(q) : q[i] = e
  <2>1. k \in 1 .. Len(q)
    BY <1>1
  <2> HIDE DEF k
  <2>2. SubSeq(q, 1, k - 1) \in Seq(S) /\ SubSeq(q, k + 1, Len(q)) \in Seq(S)
    <3>1. \A i \in 1 .. Len(q) : q[i] \in S
      BY Members
    <3>2. 1 \in 1 .. Len(q) + 1 /\ k - 1 \in 0 .. Len(q)
      BY <2>1, Members
    <3>3. k + 1 \in 1 .. Len(q) + 1 /\ Len(q) \in 0 .. Len(q)
      BY <2>1, Members
    <3>4. QED
      BY <3>1, <3>2, <3>3, Parts
  <2>3. QED
    BY <1>1, <2>2, Joined DEF Without, RemoveNth, k
<1>2. CASE ~ \E i \in 1 .. Len(q) : q[i] = e
  BY <1>2 DEF Without
<1>3. QED
  BY <1>1, <1>2

-----------------------------------------------------------------------------

(* Whoever dials holds the mutex, and no one closed the client or stored a *)
(* usable connection in the meantime.                                      *)
DialInv ==
    /\ \A c \in Callers : pc[c] = "dial" <=> lock = c
    /\ lock # None => ~closed /\ ~Usable(client)
    /\ closed => client = None

(* Every open connection has an owner, and a call that is over owns none.  *)
OwnerInv ==
    /\ \A c \in Callers : pc[c] = "idle" => mine[c] = None /\ fresh[c] = None
    /\ \A i \in Conns : conn[i] = "open" =>
         client = i \/ \E c \in Callers : mine[c] = i \/ fresh[c] = i

(* A call that began after close gets nowhere. *)
LateInv ==
    /\ \A c \in Callers : late[c] => closed /\ pc[c] # "dial" /\ pc[c] # "open"
    /\ \A c \in Callers : goal[c] = "close" => op[c] = "close"
    /\ CallsAfterCloseFail

(* The queue holds callers that wait for the mutex, each once. *)
QueueInv ==
    /\ \A k \in 1 .. Len(queue) : pc[queue[k]] = "lock"
    /\ \A j, k \in 1 .. Len(queue) : queue[j] = queue[k] => j = k

(* How often a call has dialled, by the phase it is in: before its first   *)
(* connection it holds none, for the retry it holds the dead one.          *)
DialsInv ==
    \A c \in Callers :
      /\ op[c] # "tcp_connect" => mine[c] = None
      /\ pc[c] = "lock" => fresh[c] = None /\ dials[c] <= IF mine[c] = None THEN 0 ELSE 1
      /\ pc[c] = "dial" => fresh[c] = None /\ dials[c] <= IF mine[c] = None THEN 1 ELSE 2
      /\ pc[c] = "open" => mine[c] # None /\ (fresh[c] = None => dials[c] <= 1)
      /\ dials[c] <= IF op[c] = "tcp_connect" THEN 2 ELSE 1

IInv == TypeOK /\ DialInv /\ OwnerInv /\ LateInv /\ QueueInv /\ DialsInv

USE ReconnectAssumption

LEMMA InitIInv == Init => IInv
<1> SUFFICES ASSUME Init PROVE IInv
  OBVIOUS
<1>1. TypeOK
  <2>1. queue \in Seq(Callers)
    BY DEF Init
  <2>2. count \in 0 .. MaxConns
    BY DEF Init
  <2>3. QED
    BY <2>1, <2>2, Zenon DEF Init, TypeOK, Methods
<1>2. DialInv /\ OwnerInv /\ LateInv /\ DialsInv
  BY DEF Init, DialInv, OwnerInv, LateInv, DialsInv, CallsAfterCloseFail, Usable
<1>3. QueueInv
  BY DEF Init, QueueInv
<1>4. QED
  BY <1>1, <1>2, <1>3 DEF IInv

(* What a caller does with the connection that current() returned. *)
LEMMA GotCurrentType ==
    ASSUME TypeOK, NEW c \in Callers, NEW i \in Conns, GotCurrent(c, i)
    PROVE  /\ pc' \in [Callers -> {"idle", "lock", "dial", "open"}]
           /\ mine' \in [Callers -> Conns \cup {None}]
           /\ fresh' \in [Callers -> Conns \cup {None}]
           /\ result' \in [Callers -> {"none", "ok", "err"}]
<1>1. CASE op[c] = "tcp_connect"
  <2>1. /\ pc' = [pc EXCEPT ![c] = "open"]
        /\ result' = result
        /\ \/ mine' = [mine EXCEPT ![c] = i] /\ fresh' = fresh
           \/ fresh' = [fresh EXCEPT ![c] = i] /\ mine' = mine
    BY <1>1 DEF GotCurrent, Goto
  <2>2. CASE mine' = [mine EXCEPT ![c] = i] /\ fresh' = fresh
    BY <2>1, <2>2 DEF TypeOK
  <2>3. CASE fresh' = [fresh EXCEPT ![c] = i] /\ mine' = mine
    BY <2>1, <2>3 DEF TypeOK
  <2>4. QED
    BY <2>1, <2>2, <2>3
<1>2. CASE op[c] # "tcp_connect"
  <2>1. PICK r \in {"ok", "err"} : Return(c, r)
    BY <1>2, Zenon DEF GotCurrent
  <2>2. QED
    BY <2>1 DEF Return, Goto, TypeOK
<1>3. QED
  BY <1>1, <1>2

LEMMA NextConn == ASSUME TypeOK, count < MaxConns PROVE count + 1 \in Conns
  BY ReconnectAssumption DEF TypeOK, Conns

(* Each step keeps the types. *)
LEMMA TypeStep == TypeOK /\ [Next]_vars => TypeOK'
<1> SUFFICES ASSUME TypeOK, [Next]_vars PROVE TypeOK'
  OBVIOUS
<1> USE DEF TypeOK, Goto, Return, state, call
<1>q. queue # << >> => Tail(queue) \in Seq(Callers)
  BY Shorter
<1>1. ASSUME NEW c \in Callers, NEW o \in Methods, Call(c, o) PROVE TypeOK'
  BY <1>1, Longer DEF Call, Methods
<1>2. ASSUME NEW c \in Callers, CurrentClosed(c) PROVE TypeOK'
  BY <1>2, <1>q DEF CurrentClosed, Enters, ConnsAfter
<1>3. ASSUME NEW c \in Callers, CurrentLive(c) PROVE TypeOK'
  BY <1>3, <1>q, GotCurrentType DEF CurrentLive, Enters, ConnsAfter, Usable
<1>4. ASSUME NEW c \in Callers, CurrentStale(c) PROVE TypeOK'
  BY <1>4, <1>q DEF CurrentStale, Enters
<1>5. ASSUME NEW c \in Callers, DialOk(c) PROVE TypeOK'
  <2>1. count + 1 \in Conns
    BY <1>5, NextConn, Zenon DEF DialOk
  <2>2. QED
    BY <1>5, <2>1, GotCurrentType DEF DialOk, ConnsAfter, Conns
<1>6. ASSUME NEW c \in Callers, DialFails(c) PROVE TypeOK'
  BY <1>6 DEF DialFails, ConnsAfter
<1>7. ASSUME NEW c \in Callers, OpenOk(c) PROVE TypeOK'
  BY <1>7 DEF OpenOk, ConnsAfter
<1>8. ASSUME NEW c \in Callers, OpenRetries(c) PROVE TypeOK'
  BY <1>8, Longer DEF OpenRetries
<1>9. ASSUME NEW c \in Callers, OpenFails(c) PROVE TypeOK'
  BY <1>9 DEF OpenFails, ConnsAfter
<1>10. ASSUME NEW c \in Callers, RetryInvalidates(c) PROVE TypeOK'
  BY <1>10, <1>q, Longer DEF RetryInvalidates, Enters, ConnsAfter
<1>11. ASSUME NEW c \in Callers, Invalidate(c) PROVE TypeOK'
  BY <1>11, <1>q DEF Invalidate, Enters, ConnsAfter
<1>12. ASSUME NEW c \in Callers, Close(c) PROVE TypeOK'
  BY <1>12, <1>q DEF Close, Enters, ConnsAfter
<1>13. ASSUME NEW c \in Callers, Cancel(c) PROVE TypeOK'
  BY <1>13, WithoutType DEF Cancel, ConnsAfter
<1>14. ASSUME NEW i \in Conns, PeerCloses(i) PROVE TypeOK'
  BY <1>14 DEF PeerCloses
<1>15. CASE UNCHANGED vars
  BY <1>15 DEF vars
<1>16. QED
  BY <1>1, <1>2, <1>3, <1>4, <1>5, <1>6, <1>7, <1>8, <1>9, <1>10, <1>11, <1>12,
     <1>13, <1>14, <1>15 DEF Next, Step

-----------------------------------------------------------------------------

(* Dropping Arcs closes connections and opens none; a connection that is   *)
(* stored afterwards is not closed by it, one that stays open has an owner.*)
LEMMA ConnsAfterFacts ==
    ASSUME NEW c0, conn' = ConnsAfter(c0)
    PROVE  \A i \in Conns :
             /\ conn'[i] = "open" => /\ c0[i] = "open"
                                     /\ \/ client' = i
                                        \/ \E c \in Callers : mine'[c] = i \/ fresh'[c] = i
             /\ client' = i => conn'[i] = c0[i]
BY Zenon DEF ConnsAfter

(* Each step keeps the dialler's claim on the mutex. *)
LEMMA DialStep == TypeOK /\ DialInv /\ [Next]_vars => DialInv'
<1> SUFFICES ASSUME TypeOK, DialInv, [Next]_vars PROVE DialInv'
  OBVIOUS
<1> USE DEF TypeOK, DialInv, Usable, Goto, Return, state, call
<1>1. ASSUME NEW c \in Callers, NEW o \in Methods, Call(c, o) PROVE DialInv'
  BY <1>1 DEF Call
<1>2. ASSUME NEW c \in Callers, CurrentClosed(c) PROVE DialInv'
  BY <1>2, ConnsAfterFacts DEF CurrentClosed, Enters
<1>3. ASSUME NEW c \in Callers, CurrentLive(c) PROVE DialInv'
  BY <1>3, ConnsAfterFacts DEF CurrentLive, Enters, GotCurrent
<1>4. ASSUME NEW c \in Callers, CurrentStale(c) PROVE DialInv'
  BY <1>4, ConnsAfterFacts DEF CurrentStale, Enters
<1>5. ASSUME NEW c \in Callers, DialOk(c) PROVE DialInv'
  <2>1. \A e \in Callers : pc'[e] # "dial"
    <3>1. CASE op[c] = "tcp_connect"
      BY <1>5, <3>1 DEF DialOk, GotCurrent
    <3>2. CASE op[c] # "tcp_connect"
      <4>1. PICK r \in {"ok", "err"} : Return(c, r)
        BY <1>5, <3>2 DEF DialOk, GotCurrent
      <4>2. QED
        BY <1>5, <4>1 DEF DialOk
    <3>3. QED
      BY <3>1, <3>2
  <2>2. lock' = None /\ ~closed'
    BY <1>5 DEF DialOk
  <2>3. QED
    BY <2>1, <2>2
<1>6. ASSUME NEW c \in Callers, DialFails(c) PROVE DialInv'
  BY <1>6, ConnsAfterFacts DEF DialFails
<1>7. ASSUME NEW c \in Callers, OpenOk(c) PROVE DialInv'
  BY <1>7, ConnsAfterFacts DEF OpenOk
<1>8. ASSUME NEW c \in Callers, OpenRetries(c) PROVE DialInv'
  BY <1>8, ConnsAfterFacts DEF OpenRetries
<1>9. ASSUME NEW c \in Callers, OpenFails(c) PROVE DialInv'
  BY <1>9, ConnsAfterFacts DEF OpenFails
<1>10. ASSUME NEW c \in Callers, RetryInvalidates(c) PROVE DialInv'
  BY <1>10, ConnsAfterFacts DEF RetryInvalidates, Enters
<1>11. ASSUME NEW c \in Callers, Invalidate(c) PROVE DialInv'
  BY <1>11, ConnsAfterFacts DEF Invalidate, Enters
<1>12. ASSUME NEW c \in Callers, Close(c) PROVE DialInv'
  BY <1>12, ConnsAfterFacts DEF Close, Enters
<1>13. ASSUME NEW c \in Callers, Cancel(c) PROVE DialInv'
  BY <1>13, ConnsAfterFacts DEF Cancel
<1>14. ASSUME NEW i \in Conns, PeerCloses(i) PROVE DialInv'
  BY <1>14 DEF PeerCloses
<1>15. CASE UNCHANGED vars
  BY <1>15, Zenon DEF vars
<1>16. QED
  BY <1>1, <1>2, <1>3, <1>4, <1>5, <1>6, <1>7, <1>8, <1>9, <1>10, <1>11, <1>12, <1>13, <1>14, <1>15
     DEF Next, Step

(* Each step keeps the owners of the open connections. *)
LEMMA OwnerStep == TypeOK /\ OwnerInv /\ [Next]_vars => OwnerInv'
<1> SUFFICES ASSUME TypeOK, OwnerInv, [Next]_vars PROVE OwnerInv'
  OBVIOUS
<1> USE DEF TypeOK, OwnerInv, Goto, Return, state, call
<1>1. ASSUME NEW c \in Callers, NEW o \in Methods, Call(c, o) PROVE OwnerInv'
  BY <1>1 DEF Call
<1>2. ASSUME NEW c \in Callers, CurrentClosed(c) PROVE OwnerInv'
  BY <1>2, ConnsAfterFacts DEF CurrentClosed, Enters
<1>3. ASSUME NEW c \in Callers, CurrentLive(c) PROVE OwnerInv'
  BY <1>3, ConnsAfterFacts DEF CurrentLive, Enters, GotCurrent
<1>4. ASSUME NEW c \in Callers, CurrentStale(c) PROVE OwnerInv'
  BY <1>4, ConnsAfterFacts DEF CurrentStale, Enters
<1>5. ASSUME NEW c \in Callers, DialOk(c) PROVE OwnerInv'
  <2>1. \A e \in Callers : pc'[e] = "idle" => mine'[e] = None /\ fresh'[e] = None
    <3>1. CASE op[c] = "tcp_connect"
      BY <1>5, <3>1 DEF DialOk, GotCurrent
    <3>2. CASE op[c] # "tcp_connect"
      <4>1. PICK r \in {"ok", "err"} : Return(c, r)
        BY <1>5, <3>2 DEF DialOk, GotCurrent
      <4>2. QED
        BY <1>5, <4>1 DEF DialOk
    <3>3. QED
      BY <3>1, <3>2
  <2>2. conn' = ConnsAfter([conn EXCEPT ![count + 1] = "open"])
    BY <1>5 DEF DialOk
  <2>3. QED
    BY <2>1, <2>2, ConnsAfterFacts, Zenon
<1>6. ASSUME NEW c \in Callers, DialFails(c) PROVE OwnerInv'
  BY <1>6, ConnsAfterFacts DEF DialFails
<1>7. ASSUME NEW c \in Callers, OpenOk(c) PROVE OwnerInv'
  BY <1>7, ConnsAfterFacts DEF OpenOk
<1>8. ASSUME NEW c \in Callers, OpenRetries(c) PROVE OwnerInv'
  BY <1>8, ConnsAfterFacts DEF OpenRetries
<1>9. ASSUME NEW c \in Callers, OpenFails(c) PROVE OwnerInv'
  BY <1>9, ConnsAfterFacts DEF OpenFails
<1>10. ASSUME NEW c \in Callers, RetryInvalidates(c) PROVE OwnerInv'
  BY <1>10, ConnsAfterFacts DEF RetryInvalidates, Enters
<1>11. ASSUME NEW c \in Callers, Invalidate(c) PROVE OwnerInv'
  BY <1>11, ConnsAfterFacts DEF Invalidate, Enters
<1>12. ASSUME NEW c \in Callers, Close(c) PROVE OwnerInv'
  BY <1>12, ConnsAfterFacts DEF Close, Enters
<1>13. ASSUME NEW c \in Callers, Cancel(c) PROVE OwnerInv'
  BY <1>13, ConnsAfterFacts DEF Cancel
<1>14. ASSUME NEW i \in Conns, PeerCloses(i) PROVE OwnerInv'
  BY <1>14 DEF PeerCloses
<1>15. CASE UNCHANGED vars
  BY <1>15 DEF vars
<1>16. QED
  BY <1>1, <1>2, <1>3, <1>4, <1>5, <1>6, <1>7, <1>8, <1>9, <1>10, <1>11, <1>12, <1>13, <1>14, <1>15
     DEF Next, Step

(* Removing the k-th element moves the later ones up. *)
LEMMA RemoveNthElements ==
    ASSUME NEW S, NEW q \in Seq(S), NEW k \in 1 .. Len(q)
    PROVE  /\ Len(RemoveNth(q, k)) = Len(q) - 1
           /\ \A i \in 1 .. Len(q) - 1 : RemoveNth(q, k)[i] = IF i < k THEN q[i] ELSE q[i + 1]
<1> DEFINE a == SubSeq(q, 1, k - 1)
           b == SubSeq(q, k + 1, Len(q))
<1>1. \A i \in 1 .. Len(q) : q[i] \in S
  BY Members
<1>2. Len(q) \in Nat /\ k \in Nat
  BY Members
<1>3. a \in Seq(S) /\ Len(a) = k - 1 /\ \A i \in 1 .. Len(a) : a[i] = q[i]
  <2>1. 1 \in 1 .. Len(q) + 1 /\ k - 1 \in 0 .. Len(q)
    BY <1>2
  <2> QED
    BY <1>1, <1>2, <2>1, Parts
<1>4. b \in Seq(S) /\ Len(b) = Len(q) - k /\ \A i \in 1 .. Len(b) : b[i] = q[k + i]
  <2>1. k + 1 \in 1 .. Len(q) + 1 /\ Len(q) \in 0 .. Len(q)
    BY <1>2
  <2> QED
    BY <1>1, <1>2, <2>1, Parts
<1>5. RemoveNth(q, k) = a \o b
  BY DEF RemoveNth
<1> HIDE DEF a, b
<1>6. /\ Len(a \o b) = Len(a) + Len(b)
      /\ \A i \in 1 .. Len(a) + Len(b) : (a \o b)[i] = IF i <= Len(a) THEN a[i] ELSE b[i - Len(a)]
  <2>1. a \in Seq(S) /\ b \in Seq(S)
    BY <1>3, <1>4, Zenon
  <2> QED
    BY <2>1, Joined, Zenon
<1>7. Len(a) + Len(b) = Len(q) - 1
  BY <1>2, <1>3, <1>4
<1>8. ASSUME NEW i \in 1 .. Len(q) - 1
      PROVE  (a \o b)[i] = IF i < k THEN q[i] ELSE q[i + 1]
  <2>1. CASE i < k
    BY <1>2, <1>3, <1>6, <1>7, <2>1
  <2>2. CASE ~(i < k)
    <3>1. i - Len(a) \in 1 .. Len(b) /\ ~(i <= Len(a)) /\ k + (i - Len(a)) = i + 1
      BY <1>2, <1>3, <1>4, <2>2
    <3> QED
      BY <1>4, <1>6, <1>7, <2>2, <3>1, Zenon
  <2> QED
    BY <2>1, <2>2, Zenon
<1> QED
  BY <1>5, <1>6, <1>7, <1>8, Zenon

EachOnce(q) == \A j, k \in 1 .. Len(q) : q[j] = q[k] => j = k

TakenFrom(u, q, e) == \A j \in 1 .. Len(u) : u[j] # e /\ \E k \in 1 .. Len(q) : u[j] = q[k]

(* Leaving the queue keeps the others in it, each once. *)
LEMMA WithoutElements ==
    ASSUME NEW S, NEW q \in Seq(S), NEW e, EachOnce(q)
    PROVE  TakenFrom(Without(q, e), q, e) /\ EachOnce(Without(q, e))
<1> USE DEF TakenFrom, EachOnce
<1>1. CASE \E i \in 1 .. Len(q) : q[i] = e
  <2> DEFINE k == CHOOSE i \in 1 .. Len(q) : q[i] = e
             w == RemoveNth(q, k)
  <2>1. k \in 1 .. Len(q) /\ q[k] = e
    BY <1>1
  <2>2. Without(q, e) = w
    BY <1>1 DEF Without
  <2> HIDE DEF k
  <2>3. Len(w) = Len(q) - 1 /\ \A i \in 1 .. Len(q) - 1 : w[i] = IF i < k THEN q[i] ELSE q[i + 1]
    BY <2>1, RemoveNthElements
  <2> HIDE DEF w
  <2>4. Len(q) \in Nat /\ k \in Nat
    BY <2>1, Members
  <2>5. ASSUME NEW j \in 1 .. Len(w) PROVE w[j] # e /\ \E i \in 1 .. Len(q) : w[j] = q[i]
    <3>1. j \in 1 .. Len(q) - 1
      BY <2>3
    <3>2. PICK i \in {j, j + 1} : i \in 1 .. Len(q) /\ i # k /\ w[j] = q[i]
      BY <2>3, <2>4, <3>1
    <3> QED
      BY <2>1, <3>2, Zenon
  <2>6. \A i, j \in 1 .. Len(w) : w[i] = w[j] => i = j
    BY <2>1, <2>3, <2>4
  <2> QED
    BY <2>2, <2>5, <2>6, Zenon
<1>2. CASE ~ \E i \in 1 .. Len(q) : q[i] = e
  BY <1>2 DEF Without
<1>3. QED
  BY <1>1, <1>2

(* The step of a caller that enters takes it, and only it, off the queue.  *)
LEMMA EntersFacts ==
    ASSUME TypeOK, QueueInv, NEW c \in Callers, Enters(c)
    PROVE  /\ Tail(queue) \in Seq(Callers)
           /\ pc[c] = "lock"
           /\ \A k \in 1 .. Len(Tail(queue)) : Tail(queue)[k] # c /\ pc[Tail(queue)[k]] = "lock"
           /\ \A j, k \in 1 .. Len(Tail(queue)) : Tail(queue)[j] = Tail(queue)[k] => j = k
<1>1. /\ queue \in Seq(Callers) /\ queue # << >> /\ queue[1] = c
      /\ Len(queue) \in Nat /\ 1 \in 1 .. Len(queue)
  BY Shorter DEF Enters, TypeOK
<1>2. /\ Tail(queue) \in Seq(Callers) /\ Len(Tail(queue)) = Len(queue) - 1
      /\ \A k \in 1 .. Len(Tail(queue)) : Tail(queue)[k] = queue[k + 1]
  BY <1>1, Shorter
<1> DEFINE t == Tail(queue)
<1> HIDE DEF t
<1>3. \A k \in 1 .. Len(t) : k + 1 \in 1 .. Len(queue) /\ t[k] = queue[k + 1]
  BY <1>1, <1>2 DEF t
<1>4. \A k \in 1 .. Len(t) : t[k] # c /\ pc[t[k]] = "lock"
  BY <1>1, <1>3 DEF QueueInv
<1>5. \A j, k \in 1 .. Len(t) : t[j] = t[k] => j = k
  BY <1>1, <1>3 DEF QueueInv
<1> QED
  BY <1>1, <1>2, <1>4, <1>5 DEF t, QueueInv

(* Joining the queue, for a caller that is not in it. *)
LEMMA AppendFacts ==
    ASSUME NEW q \in Seq(Callers), NEW c \in Callers,
           \A k \in 1 .. Len(q) : q[k] # c,
           \A j, k \in 1 .. Len(q) : q[j] = q[k] => j = k
    PROVE  /\ \A k \in 1 .. Len(Append(q, c)) :
                Append(q, c)[k] = c \/ \E j \in 1 .. Len(q) : Append(q, c)[k] = q[j]
           /\ \A j, k \in 1 .. Len(Append(q, c)) : Append(q, c)[j] = Append(q, c)[k] => j = k
<1> DEFINE a == Append(q, c)
<1>1. /\ Len(q) \in Nat /\ Len(a) = Len(q) + 1 /\ a[Len(q) + 1] = c
      /\ \A k \in 1 .. Len(q) : a[k] = q[k]
  BY Longer, Members
<1> HIDE DEF a
<1>2. \A k \in 1 .. Len(a) : a[k] = c \/ \E j \in 1 .. Len(q) : a[k] = q[j]
  BY <1>1
<1>3. \A j, k \in 1 .. Len(a) : a[j] = a[k] => j = k
  BY <1>1
<1> QED
  BY <1>2, <1>3 DEF a

(* Each step keeps the queue. *)
LEMMA QueueStep == TypeOK /\ QueueInv /\ [Next]_vars => QueueInv'
<1> SUFFICES ASSUME TypeOK, QueueInv, [Next]_vars PROVE QueueInv'
  OBVIOUS
<1> USE DEF Goto, Return, state, call
<1>e. ASSUME NEW c \in Callers, Enters(c), queue' = Tail(queue),
             \A e \in Callers : e # c => pc'[e] = pc[e]
      PROVE  QueueInv'
  <2>1. \A k \in 1 .. Len(Tail(queue)) : Tail(queue)[k] \in Callers
    BY <1>e, EntersFacts, Members
  <2> QED
    BY <1>e, <2>1, EntersFacts, Zenon DEF QueueInv
<1>l. ASSUME NEW c \in Callers, pc[c] # "lock", queue' = queue,
             \A e \in Callers : e # c => pc'[e] = pc[e]
      PROVE  QueueInv'
  <2>1. \A k \in 1 .. Len(queue) : queue[k] \in Callers
    BY Members DEF TypeOK
  <2> QED
    BY <1>l, <2>1 DEF QueueInv
<1>a. ASSUME NEW c \in Callers, pc[c] # "lock", queue' = Append(queue, c), pc' = [pc EXCEPT ![c] = "lock"]
      PROVE  QueueInv'
  <2>1. \A k \in 1 .. Len(queue) : queue[k] \in Callers /\ queue[k] # c
    BY <1>a, Members DEF TypeOK, QueueInv
  <2>2. /\ \A k \in 1 .. Len(queue') : queue'[k] = c \/ \E j \in 1 .. Len(queue) : queue'[k] = queue[j]
        /\ \A j, k \in 1 .. Len(queue') : queue'[j] = queue'[k] => j = k
    BY <1>a, <2>1, AppendFacts DEF TypeOK, QueueInv
  <2>3. pc'[c] = "lock" /\ \A j \in 1 .. Len(queue) : pc'[queue[j]] = "lock"
    BY <1>a, <2>1 DEF TypeOK, QueueInv
  <2> QED
    BY <2>2, <2>3 DEF QueueInv
<1>1. ASSUME NEW c \in Callers, NEW o \in Methods, Call(c, o) PROVE QueueInv'
  BY <1>1, <1>a, Zenon DEF Call
<1>2. ASSUME NEW c \in Callers, CurrentClosed(c) \/ CurrentStale(c) \/ Invalidate(c) \/ Close(c)
      PROVE  QueueInv'
  BY <1>2, <1>e, Zenon DEF CurrentClosed, CurrentStale, Invalidate, Close, TypeOK
<1>3. ASSUME NEW c \in Callers, NEW i, GotCurrent(c, i) PROVE \A e \in Callers : e # c => pc'[e] = pc[e]
  BY <1>3 DEF GotCurrent, TypeOK
<1>4. ASSUME NEW c \in Callers, CurrentLive(c) PROVE QueueInv'
  BY <1>4, <1>3, <1>e DEF CurrentLive
<1>5. ASSUME NEW c \in Callers, DialOk(c) PROVE QueueInv'
  BY <1>5, <1>3, <1>l DEF DialOk
<1>6. ASSUME NEW c \in Callers, DialFails(c) \/ OpenOk(c) \/ OpenFails(c) PROVE QueueInv'
  BY <1>6, <1>l, Zenon DEF DialFails, OpenOk, OpenFails, TypeOK
<1>7. ASSUME NEW c \in Callers, OpenRetries(c) PROVE QueueInv'
  BY <1>7, <1>a, Zenon DEF OpenRetries
<1>8. ASSUME NEW c \in Callers, RetryInvalidates(c) PROVE QueueInv'
  <2>1. Enters(c) /\ queue' = Append(Tail(queue), c) /\ pc' = pc
    BY <1>8 DEF RetryInvalidates
  <2>2. /\ Tail(queue) \in Seq(Callers) /\ pc[c] = "lock"
        /\ \A k \in 1 .. Len(Tail(queue)) : Tail(queue)[k] # c /\ pc[Tail(queue)[k]] = "lock"
        /\ \A j, k \in 1 .. Len(Tail(queue)) : Tail(queue)[j] = Tail(queue)[k] => j = k
    BY <2>1, EntersFacts, Zenon
  <2>3. /\ \A k \in 1 .. Len(queue') :
             queue'[k] = c \/ \E j \in 1 .. Len(Tail(queue)) : queue'[k] = Tail(queue)[j]
        /\ \A j, k \in 1 .. Len(queue') : queue'[j] = queue'[k] => j = k
    BY <2>1, <2>2, AppendFacts
  <2>4. \A k \in 1 .. Len(queue') : pc[queue'[k]] = "lock"
    BY <2>2, <2>3
  <2> QED
    BY <2>1, <2>3, <2>4, Zenon DEF QueueInv
<1>9. ASSUME NEW c \in Callers, Cancel(c) PROVE QueueInv'
  <2>1. queue' = Without(queue, c) /\ \A e \in Callers : e # c => pc'[e] = pc[e]
    BY <1>9 DEF Cancel, TypeOK
  <2>2. /\ \A j \in 1 .. Len(queue') : queue'[j] # c /\ \E k \in 1 .. Len(queue) : queue'[j] = queue[k]
        /\ \A j, k \in 1 .. Len(queue') : queue'[j] = queue'[k] => j = k
    <3>1. queue \in Seq(Callers) /\ EachOnce(queue)
      BY Zenon DEF TypeOK, QueueInv, EachOnce
    <3>2. TakenFrom(Without(queue, c), queue, c) /\ EachOnce(Without(queue, c))
      BY <3>1, WithoutElements, Zenon
    <3> QED
      BY <2>1, <3>2, Zenon DEF TakenFrom, EachOnce
  <2>3. \A k \in 1 .. Len(queue) : queue[k] \in Callers
    BY Members DEF TypeOK
  <2> QED
    BY <2>1, <2>2, <2>3 DEF QueueInv
<1>10. CASE UNCHANGED <<queue, pc>>
  BY <1>10 DEF QueueInv
<1>11. ASSUME NEW i \in Conns, PeerCloses(i) PROVE QueueInv'
  BY <1>10, <1>11 DEF PeerCloses
<1>12. CASE UNCHANGED vars
  BY <1>10, <1>12 DEF vars
<1> QED
  BY <1>1, <1>2, <1>4, <1>5, <1>6, <1>7, <1>8, <1>9, <1>11, <1>12 DEF Next, Step

(* Each step keeps count of the dials. *)
LEMMA DialsStep == TypeOK /\ QueueInv /\ OwnerInv /\ DialsInv /\ [Next]_vars => DialsInv'
<1> SUFFICES ASSUME TypeOK, QueueInv, OwnerInv, DialsInv, [Next]_vars PROVE DialsInv'
  OBVIOUS
<1> USE DEF TypeOK, DialsInv, Goto, Return, state, call
<1>e. ASSUME NEW c \in Callers, Enters(c) PROVE pc[c] = "lock"
  BY <1>e, EntersFacts
<1>1. ASSUME NEW c \in Callers, NEW o \in Methods, Call(c, o) PROVE DialsInv'
  BY <1>1 DEF Call, OwnerInv
<1>2. ASSUME NEW c \in Callers, CurrentClosed(c) \/ Invalidate(c) \/ Close(c) PROVE DialsInv'
  BY <1>2, <1>e DEF CurrentClosed, Invalidate, Close
<1>3. ASSUME NEW c \in Callers, CurrentStale(c) PROVE DialsInv'
  BY <1>3, <1>e DEF CurrentStale
<1>4. ASSUME NEW c \in Callers, NEW i \in Conns, GotCurrent(c, i), UNCHANGED <<op, dials>>,
             pc[c] \in {"lock", "dial"}
      PROVE  DialsInv'
  <2>1. CASE op[c] = "tcp_connect" /\ mine[c] = None
    BY <1>4, <2>1 DEF GotCurrent
  <2>2. CASE op[c] = "tcp_connect" /\ mine[c] # None
    BY <1>4, <2>2 DEF GotCurrent
  <2>3. CASE op[c] # "tcp_connect"
    <3>1. PICK r \in {"ok", "err"} : Return(c, r)
      BY <1>4, <2>3, Zenon DEF GotCurrent
    <3> QED
      BY <1>4, <3>1
  <2> QED
    BY <2>1, <2>2, <2>3
<1>5. ASSUME NEW c \in Callers, CurrentLive(c) PROVE DialsInv'
  BY <1>5, <1>e, <1>4 DEF CurrentLive, Usable
<1>6. ASSUME NEW c \in Callers, DialOk(c) PROVE DialsInv'
  <2>1. count + 1 \in Conns
    BY <1>6, NextConn, Zenon DEF DialOk
  <2> QED
    BY <1>6, <1>4, <2>1 DEF DialOk
<1>7. ASSUME NEW c \in Callers, DialFails(c) \/ OpenOk(c) \/ OpenFails(c) \/ Cancel(c) PROVE DialsInv'
  <2>1. CASE Cancel(c)
    BY <2>1 DEF Cancel
  <2>2. CASE DialFails(c)
    BY <2>2 DEF DialFails
  <2>3. CASE OpenOk(c) \/ OpenFails(c)
    BY <2>3 DEF OpenOk, OpenFails
  <2> QED
    BY <1>7, <2>1, <2>2, <2>3
<1>8. ASSUME NEW c \in Callers, OpenRetries(c) PROVE DialsInv'
  BY <1>8 DEF OpenRetries
<1>9. CASE UNCHANGED <<pc, op, mine, fresh, dials>>
  BY <1>9
<1>10. ASSUME NEW c \in Callers, RetryInvalidates(c) PROVE DialsInv'
  BY <1>9, <1>10 DEF RetryInvalidates
<1>11. ASSUME NEW i \in Conns, PeerCloses(i) PROVE DialsInv'
  BY <1>9, <1>11 DEF PeerCloses
<1>12. CASE UNCHANGED vars
  BY <1>9, <1>12 DEF vars
<1> QED
  BY <1>1, <1>2, <1>3, <1>5, <1>6, <1>7, <1>8, <1>10, <1>11, <1>12, Zenon DEF Next, Step

(* Each step keeps a late call from getting anywhere. *)
LEMMA LateStep == TypeOK /\ DialInv /\ LateInv /\ [Next]_vars => LateInv'
<1> SUFFICES ASSUME TypeOK, DialInv, LateInv, [Next]_vars PROVE LateInv'
  OBVIOUS
<1> USE DEF TypeOK, LateInv, DialInv, CallsAfterCloseFail, Goto, Return, state, call
<1>1. ASSUME NEW c \in Callers, NEW o \in Methods, Call(c, o) PROVE LateInv'
  BY <1>1 DEF Call
<1>2. ASSUME NEW c \in Callers, CurrentClosed(c) PROVE LateInv'
  BY <1>2 DEF CurrentClosed, Enters
<1>3. ASSUME NEW c \in Callers, CurrentLive(c) PROVE LateInv'
  BY <1>3 DEF CurrentLive, Enters, GotCurrent
<1>4. ASSUME NEW c \in Callers, CurrentStale(c) PROVE LateInv'
  BY <1>4 DEF CurrentStale, Enters
<1>5. ASSUME NEW c \in Callers, DialOk(c) PROVE LateInv'
  BY <1>5 DEF DialOk, GotCurrent
<1>6. ASSUME NEW c \in Callers, DialFails(c) PROVE LateInv'
  BY <1>6 DEF DialFails
<1>7. ASSUME NEW c \in Callers, OpenOk(c) PROVE LateInv'
  BY <1>7 DEF OpenOk
<1>8. ASSUME NEW c \in Callers, OpenRetries(c) PROVE LateInv'
  BY <1>8 DEF OpenRetries
<1>9. ASSUME NEW c \in Callers, OpenFails(c) PROVE LateInv'
  BY <1>9 DEF OpenFails
<1>10. ASSUME NEW c \in Callers, RetryInvalidates(c) PROVE LateInv'
  BY <1>10 DEF RetryInvalidates, Enters
<1>11. ASSUME NEW c \in Callers, Invalidate(c) PROVE LateInv'
  BY <1>11 DEF Invalidate, Enters
<1>12. ASSUME NEW c \in Callers, Close(c) PROVE LateInv'
  BY <1>12 DEF Close, Enters
<1>13. ASSUME NEW c \in Callers, Cancel(c) PROVE LateInv'
  BY <1>13 DEF Cancel
<1>14. ASSUME NEW i \in Conns, PeerCloses(i) PROVE LateInv'
  BY <1>14 DEF PeerCloses
<1>15. CASE UNCHANGED vars
  BY <1>15 DEF vars
<1>16. QED
  BY <1>1, <1>2, <1>3, <1>4, <1>5, <1>6, <1>7, <1>8, <1>9, <1>10, <1>11, <1>12, <1>13, <1>14, <1>15, Zenon
     DEF Next, Step

-----------------------------------------------------------------------------

LEMMA IInvStep == IInv /\ [Next]_vars => IInv'
BY TypeStep, DialStep, OwnerStep, LateStep, QueueStep, DialsStep DEF IInv

(* Every variable of the shared client keeps its type, for any number of   *)
(* callers of reconnect.rs.                                                *)
THEOREM TypeCorrect == Spec => []TypeOK
<1>1. IInv => TypeOK
  BY DEF IInv
<1>2. QED
  BY InitIInv, IInvStep, <1>1, PTL DEF Spec

(* close() is final: afterwards current() neither stores a connection nor  *)
(* has one under way.                                                      *)
THEOREM CloseIsFinal == Spec => []ClosedIsFinal
<1>1. IInv => ClosedIsFinal
  BY DEF IInv, TypeOK, DialInv, ClosedIsFinal
<1>2. QED
  BY InitIInv, IInvStep, <1>1, PTL DEF Spec

(* A tcp_connect or udp that is called after close() returns an error.     *)
THEOREM NoCallSucceedsAfterClose == Spec => []CallsAfterCloseFail
<1>1. IInv => CallsAfterCloseFail
  BY DEF IInv, LateInv
<1>2. QED
  BY InitIInv, IInvStep, <1>1, PTL DEF Spec

(* After close(), when no call is under way, every connection is closed.   *)
THEOREM NoConnectionLeaks == Spec => []CloseReleasesAll
<1>1. IInv => CloseReleasesAll
  BY DEF IInv, DialInv, OwnerInv, CloseReleasesAll, Conns
<1>2. QED
  BY InitIInv, IInvStep, <1>1, PTL DEF Spec

(* current() dials for one caller at a time, and never over a usable       *)
(* connection.                                                             *)
THEOREM SingleDialler == Spec => []OneDialAtATime
<1>1. IInv => OneDialAtATime
  BY DEF IInv, TypeOK, DialInv, OneDialAtATime
<1>2. QED
  BY InitIInv, IInvStep, <1>1, PTL DEF Spec

(* "reconnecting once" (reconnect.rs:78), for any number of callers that   *)
(* lose the connection to each other.                                      *)
THEOREM DialsAtMostTwice == Spec => []ReconnectsOnce
<1>1. IInv => ReconnectsOnce
  BY DEF IInv, DialsInv, ReconnectsOnce
<1>2. QED
  BY InitIInv, IInvStep, <1>1, PTL DEF Spec

-----------------------------------------------------------------------------

(* Each step of the shared client is a step of the slot, or a stutter. *)
LEMMA SlotStep == IInv /\ [Next]_vars => [Slot!SlotNext]_(Slot!svars)
<1> SUFFICES ASSUME IInv, [Next]_vars PROVE [Slot!SlotNext]_(Slot!svars)
  BY Zenon
<1> USE DEF IInv, TypeOK, DialInv, Slot!svars, Slot!SlotNext, state
<1>s. ASSUME UNCHANGED state, conn' = ConnsAfter(conn) PROVE UNCHANGED Slot!svars
  <2>1. \A i \in Conns : client' = i => conn'[i] = conn[i]
    BY <1>s, Zenon DEF ConnsAfter
  <2>2. client \in Conns => conn'[client] = conn[client]
    BY <1>s, <2>1
  <2> QED
    BY <1>s, <2>2, Zenon DEF SlotState
<1>u. ASSUME UNCHANGED state, UNCHANGED conn PROVE UNCHANGED Slot!svars
  BY <1>u DEF SlotState
<1>f. ASSUME client' = None, UNCHANGED <<count, closed>> PROVE [Slot!SlotNext]_(Slot!svars)
  BY <1>f DEF SlotState, Slot!Forget
<1>1. ASSUME NEW c \in Callers, NEW o \in Methods, Call(c, o) PROVE UNCHANGED Slot!svars
  BY <1>1, <1>u DEF Call
<1>2. ASSUME NEW c \in Callers, CurrentClosed(c) \/ CurrentLive(c) \/ CurrentStale(c)
      PROVE  UNCHANGED Slot!svars
  BY <1>2, <1>s, <1>u DEF CurrentClosed, CurrentLive, CurrentStale
<1>3. ASSUME NEW c \in Callers, DialOk(c) PROVE Slot!Connect
  <2>1. ~closed /\ SlotState # "live"
    BY <1>3 DEF DialOk, SlotState, Usable
  <2>2. client' = count + 1 /\ count' = count + 1 /\ closed' = closed
    BY <1>3 DEF DialOk
  <2>3. count + 1 \in Conns
    BY <1>3, NextConn, Zenon DEF DialOk
  <2>4. conn'[count + 1] = "open"
    <3> DEFINE c0 == [conn EXCEPT ![count + 1] = "open"]
    <3>1. conn' = ConnsAfter(c0) /\ c0[count + 1] = "open"
      BY <1>3, <2>3 DEF DialOk
    <3> HIDE DEF c0
    <3>2. \A i \in Conns : client' = i => conn'[i] = c0[i]
      BY <3>1, Zenon DEF ConnsAfter
    <3>3. QED
      BY <2>2, <2>3, <3>1, <3>2, Zenon
  <2>5. QED
    BY <2>1, <2>2, <2>3, <2>4, Zenon DEF SlotState, Slot!Connect
<1>4. ASSUME NEW c \in Callers,
             DialFails(c) \/ OpenOk(c) \/ OpenRetries(c) \/ OpenFails(c) \/ Cancel(c)
      PROVE  UNCHANGED Slot!svars
  BY <1>4, <1>s, <1>u DEF DialFails, OpenOk, OpenRetries, OpenFails, Cancel
<1>5. ASSUME NEW c \in Callers, RetryInvalidates(c) \/ Invalidate(c)
      PROVE  [Slot!SlotNext]_(Slot!svars)
  BY <1>5, <1>f DEF RetryInvalidates, Invalidate
<1>6. ASSUME NEW c \in Callers, Close(c) PROVE [Slot!SlotNext]_(Slot!svars)
  BY <1>6, Zenon DEF Close, SlotState, Slot!CloseForEver
<1>7. ASSUME NEW i \in Conns, PeerCloses(i) PROVE [Slot!SlotNext]_(Slot!svars)
  BY <1>7 DEF PeerCloses, SlotState, Slot!Die
<1>8. CASE UNCHANGED vars
  BY <1>8, <1>u DEF vars
<1>9. QED
  BY <1>1, <1>2, <1>3, <1>4, <1>5, <1>6, <1>7, <1>8 DEF Next, Step

(* To its callers the shared client is the ConnectionSlot: whatever they   *)
(* do together, the connection that reconnect.rs stores is replaced only   *)
(* when it is missing or dead, and never after close().                    *)
THEOREM SlotRefinement == Spec => ImplementsSlot
<1>1. Init => Slot!SlotInit
  BY DEF Init, Slot!SlotInit, SlotState
<1>2. QED
  BY <1>1, InitIInv, IInvStep, SlotStep, PTL DEF Spec, ImplementsSlot, Slot!SlotSpec

=============================================================================
