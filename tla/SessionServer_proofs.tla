-------------------------- MODULE SessionServer_proofs --------------------------
(***************************************************************************)
(* Proofs about the sessions of the server, for any number of sessions, of *)
(* callback threads that send to them, and of messages.                    *)
(***************************************************************************)
EXTENDS SessionServer, SequenceTheorems, TLAPS

-----------------------------------------------------------------------------
(* Types *)

LEMMA AppendedNumber ==
  ASSUME NEW q \in Seq(Nat), NEW n \in Nat
  PROVE  /\ Append(q, n) \in Seq(Nat)
         /\ Append(q, n) # <<>>
<1>1. Append(q, n) \in Seq(Nat)
  OBVIOUS
<1>2. Append(q, n) # <<>>
  BY AppendProperties
<1>3. QED
  BY <1>1, <1>2

LEMMA SendTyped ==
  ASSUME TypeOK, NEW s \in Sessions, SendMessage(s)
  PROVE  /\ message_queue' \in [Sessions -> Seq(Nat)]
         /\ is_writing' \in [Sessions -> BOOLEAN]
         /\ current_write_message' \in [Sessions -> Nat]
         /\ sent' \in [Sessions -> Nat]
         /\ written' \in [Sessions -> Nat]
<1> USE DEF TypeOK
<1> DEFINE queue == Append(message_queue[s], sent[s] + 1)
<1>1. /\ queue \in Seq(Nat) /\ queue # <<>>
      /\ Head(queue) \in Nat /\ Tail(queue) \in Seq(Nat)
  <2>1. message_queue[s] \in Seq(Nat) /\ sent[s] + 1 \in Nat
    OBVIOUS
  <2>2. queue \in Seq(Nat) /\ queue # <<>>
    BY <2>1, AppendedNumber DEF queue
  <2> HIDE DEF queue
  <2>3. QED
    BY <2>2, HeadTailProperties
<1> HIDE DEF queue
<1>2. sent[s] + 1 \in Nat
  OBVIOUS
<1>3. \/ /\ message_queue' = [message_queue EXCEPT ![s] = queue]
         /\ UNCHANGED <<is_writing, current_write_message>>
      \/ /\ is_writing' = [is_writing EXCEPT ![s] = TRUE]
         /\ current_write_message' = [current_write_message EXCEPT ![s] = Head(queue)]
         /\ message_queue' = [message_queue EXCEPT ![s] = Tail(queue)]
  BY DEF SendMessage, queue
<1>4. sent' = [sent EXCEPT ![s] = @ + 1] /\ UNCHANGED written
  BY DEF SendMessage
<1>5. QED
  BY <1>1, <1>2, <1>3, <1>4

IoStates == [op : {"accept", "peek", "destroy"}, session : Sessions] \cup {Idle}

LEMMA WaitsTyped ==
  ASSUME NEW s \in Sessions, NEW op \in {"accept", "peek", "destroy"}, Waits(op, s)
  PROVE  io' \in IoStates
BY DEF Waits, IoStates

LEMMA LocksTyped ==
  ASSUME NEW s, NEW op, Locks(op, s)
  PROVE  io' \in IoStates
BY DEF Locks, IoStates

LEMMA DropTyped ==
  ASSUME TypeOK, NEW s \in Sessions, NEW h, NEW more \in SUBSET {"accept", "read", "write"},
         DropHandler(s, h, more)
  PROVE  /\ handlers' \in [Sessions -> SUBSET {"accept", "read", "write"}]
         /\ pending' \in SUBSET Sessions
         /\ io' \in IoStates
<1>1. handlers' \in [Sessions -> SUBSET {"accept", "read", "write"}]
  BY DEF TypeOK, DropHandler
<1>2. pending' \in SUBSET Sessions
  BY DEF TypeOK, DropHandler, Destroyed
<1>3. io' \in IoStates
  BY WaitsTyped, LocksTyped DEF TypeOK, IoStates, DropHandler, Destroyed
<1>4. QED
  BY <1>1, <1>2, <1>3

LEMMA PeekTyped ==
  ASSUME TypeOK, NEW s \in Sessions, NEW rest \in SUBSET Sessions, Peek(s, rest)
  PROVE  /\ message_queue' \in [Sessions -> Seq(Nat)]
         /\ is_writing' \in [Sessions -> BOOLEAN]
         /\ current_write_message' \in [Sessions -> Nat]
         /\ sent' \in [Sessions -> Nat]
         /\ written' \in [Sessions -> Nat]
         /\ handlers' \in [Sessions -> SUBSET {"accept", "read", "write"}]
         /\ pending' \in SUBSET Sessions
<1>1. CASE UNCHANGED <<handlers, writerVars>> /\ pending' \in {rest, rest \cup {s}}
  BY <1>1 DEF TypeOK, writerVars
<1>2. CASE /\ SendMessage(s) /\ pending' = rest
           /\ handlers' = [handlers EXCEPT ![s] = @ \cup {"write"}]
  BY <1>2, SendTyped DEF TypeOK
<1>3. QED
  BY <1>1, <1>2 DEF Peek

\* Every variable keeps its type.
THEOREM SessionsTypeCorrect == Spec => []TypeOK
<1>1. Init => TypeOK
  BY DEF Init, TypeOK, ServerStates, Links
<1>2. TypeOK /\ [Next]_vars => TypeOK'
  <2> SUFFICES ASSUME TypeOK, [Next]_vars PROVE TypeOK'
    OBVIOUS
  <2> USE DEF ServerStates, Links
  <2>1. CASE UNCHANGED vars
    BY <2>1 DEF TypeOK, vars, serverVars, writerVars
  <2>2. ASSUME NEW s \in Sessions, IoStep(s) PROVE TypeOK'
    <3>1. CASE OnWrite(s)
      <4>1. \/ DropHandler(s, "write", {}) \/ DropHandler(s, "write", {"write"})
        BY <3>1 DEF OnWrite
      <4>2. /\ handlers' \in [Sessions -> SUBSET {"accept", "read", "write"}]
            /\ pending' \in SUBSET Sessions /\ io' \in IoStates
        BY <4>1, DropTyped
      <4>3. written' \in [Sessions -> Nat]
        BY <3>1 DEF OnWrite, TypeOK
      <4>4. CASE message_queue[s] = <<>>
        <5>1. is_writing' = [is_writing EXCEPT ![s] = FALSE]
              /\ UNCHANGED <<message_queue, current_write_message>>
          BY <3>1, <4>4 DEF OnWrite
        <5>2. QED
          BY <3>1, <4>2, <4>3, <5>1 DEF OnWrite, TypeOK, serverVars, IoStates
      <4>5. CASE message_queue[s] # <<>>
        <5>1. Head(message_queue[s]) \in Nat /\ Tail(message_queue[s]) \in Seq(Nat)
          BY <4>5, HeadTailProperties DEF TypeOK
        <5>2. /\ current_write_message' = [current_write_message EXCEPT ![s] = Head(message_queue[s])]
              /\ message_queue' = [message_queue EXCEPT ![s] = Tail(message_queue[s])]
              /\ UNCHANGED is_writing
          BY <3>1, <4>5 DEF OnWrite
        <5>3. current_write_message' \in [Sessions -> Nat]
          BY <5>1, <5>2 DEF TypeOK
        <5>4. message_queue' \in [Sessions -> Seq(Nat)]
          BY <5>1, <5>2 DEF TypeOK
        <5>5. QED
          BY <3>1, <4>2, <4>3, <5>2, <5>3, <5>4 DEF OnWrite, TypeOK, serverVars, IoStates
      <4>6. QED
        BY <4>4, <4>5
    <3>2. CASE OnWriteError(s)
      BY <3>2, DropTyped DEF OnWriteError, TypeOK, serverVars, IoStates
    <3>3. CASE HandleAccept(s)
      BY <3>3, LocksTyped DEF HandleAccept, TypeOK, writerVars, IoStates
    <3>4. CASE OnAccept(s)
      BY <3>4, SendTyped, DropTyped DEF OnAccept, TypeOK, serverVars, IoStates
    <3>5. CASE OnAcceptError(s)
      BY <3>5, DropTyped DEF OnAcceptError, TypeOK, serverVars, writerVars, IoStates
    <3>6. CASE OnReadRequest(s)
      BY <3>6, SendTyped, DropTyped DEF OnReadRequest, TypeOK, serverVars, IoStates
    <3>7. CASE OnReadPeek(s)
      <4>1. pending \in SUBSET Sessions /\ Peek(s, pending)
        BY <3>7 DEF TypeOK, OnReadPeek
      <4>2. io' \in IoStates
        BY <3>7, LocksTyped DEF OnReadPeek
      <4>3. QED
        BY <3>7, <4>1, <4>2, PeekTyped DEF OnReadPeek, TypeOK, serverVars, IoStates
    <3>8. CASE OnReadError(s)
      BY <3>8, DropTyped DEF OnReadError, TypeOK, serverVars, writerVars, IoStates
    <3>9. CASE EndDestroy(s)
      BY <3>9, LocksTyped DEF EndDestroy, TypeOK, serverVars, writerVars, IoStates
    <3>10. CASE WaitForMutex(s)
      BY <3>10, WaitsTyped DEF WaitForMutex, TypeOK, serverVars, writerVars, IoStates
    <3>11. QED
      BY <2>2, <3>1, <3>2, <3>3, <3>4, <3>5, <3>6, <3>7, <3>8, <3>9, <3>10 DEF IoStep, Write
  <2>3. ASSUME NEW s \in Sessions, Disconnect(s) PROVE TypeOK'
    BY <2>3 DEF Disconnect, TypeOK, serverVars, writerVars
  <2>4. ASSUME NEW t \in Threads, ThreadStep(t) PROVE TypeOK'
    <3>1. ASSUME NEW s \in Sessions, Notify(t, s) PROVE TypeOK'
      BY <3>1 DEF Notify, TypeOK, serverVars, writerVars
    <3>2. CASE Wake(t)
      <4>1. waking[t] \in Sessions /\ pending \in SUBSET Sessions /\ Peek(waking[t], pending)
        BY <3>2 DEF TypeOK, Wake
      <4>2. QED
        BY <3>2, <4>1, PeekTyped DEF Wake, TypeOK, serverVars
    <3>3. QED
      BY <2>4, <3>1, <3>2 DEF ThreadStep
  <2>5. CASE Stop
    BY <2>5 DEF Stop, StopBegin, CloseOne, ClearOne, ClearEnd, StopIo, TypeOK, writerVars
  <2>6. QED
    BY <2>1, <2>2, <2>3, <2>4, <2>5 DEF Next
<1>3. QED
  BY <1>1, <1>2, PTL DEF Spec

-----------------------------------------------------------------------------
(* What a step does to the writing of one session *)

StillWriting(s) ==
  /\ message_queue'[s] = message_queue[s]
  /\ is_writing'[s] = is_writing[s]
  /\ current_write_message'[s] = current_write_message[s]
  /\ sent'[s] = sent[s]
  /\ written'[s] = written[s]
  /\ "write" \in handlers'[s] <=> "write" \in handlers[s]
  /\ \/ link'[s] \in {link[s], "closed"}
     \/ link[s] = "none" /\ link'[s] = "upgrade"

Sends(s) ==
  /\ SendMessage(s)
  /\ "write" \in handlers'[s]
  /\ \/ link[s] \in {"open", "closed"} /\ link'[s] = link[s]
     \/ link[s] = "upgrade" /\ link'[s] = "open"

WritesOn(s) ==
  /\ link[s] = "open" /\ link'[s] = "open"
  /\ "write" \in handlers[s]
  /\ sent'[s] = sent[s]
  /\ written'[s] = current_write_message[s]
  /\ \/ /\ message_queue[s] = <<>> /\ message_queue'[s] = <<>>
        /\ is_writing'[s] = FALSE /\ "write" \notin handlers'[s]
     \/ /\ message_queue[s] # <<>>
        /\ message_queue'[s] = Tail(message_queue[s])
        /\ current_write_message'[s] = Head(message_queue[s])
        /\ is_writing'[s] = is_writing[s] /\ "write" \in handlers'[s]

Fails(s) ==
  /\ link[s] = "closed" /\ link'[s] = "closed"
  /\ message_queue'[s] = message_queue[s]
  /\ sent'[s] = sent[s]
  /\ written'[s] = written[s]
  /\ is_writing'[s] = FALSE /\ "write" \notin handlers'[s]

\* Only who was connected waits for quotes or is woken.
WaitersConnected ==
  /\ \A s \in pending : link[s] \in {"open", "closed"}
  /\ \A t \in Threads : waking[t] \in Sessions => link[waking[t]] \in {"open", "closed"}

\* Sending to one session leaves the others alone.
LEMMA SendsOne ==
  ASSUME TypeOK, NEW s \in Sessions, NEW r \in Sessions, r # s, SendMessage(r)
  PROVE  /\ message_queue'[s] = message_queue[s]
         /\ is_writing'[s] = is_writing[s]
         /\ current_write_message'[s] = current_write_message[s]
         /\ sent'[s] = sent[s]
         /\ written'[s] = written[s]
BY DEF TypeOK, SendMessage

LEMMA PeekOfOne ==
  ASSUME TypeOK, NEW s \in Sessions, NEW r \in Sessions, NEW rest, Peek(r, rest),
         link[r] \in {"open", "closed"}, UNCHANGED link
  PROVE  StillWriting(s) \/ Sends(s)
<1>1. CASE UNCHANGED <<handlers, writerVars>>
  BY <1>1 DEF StillWriting, writerVars
<1>2. CASE /\ SendMessage(r)
           /\ handlers' = [handlers EXCEPT ![r] = @ \cup {"write"}]
  <2>1. CASE r = s
    BY <1>2, <2>1 DEF Sends, TypeOK
  <2>2. CASE r # s
    BY <1>2, <2>2, SendsOne DEF StillWriting, TypeOK
  <2>3. QED
    BY <2>1, <2>2
<1>3. QED
  BY <1>1, <1>2 DEF Peek

LEMMA StepOfOneSession ==
  ASSUME TypeOK, WaitersConnected, [Next]_vars, NEW s \in Sessions,
         "write" \in handlers[s] => link[s] # "none"
  PROVE  StillWriting(s) \/ Sends(s) \/ WritesOn(s) \/ Fails(s)
<1>1. CASE UNCHANGED vars
  BY <1>1 DEF vars, writerVars, StillWriting
<1>2. ASSUME NEW r \in Sessions, IoStep(r)
      PROVE  StillWriting(s) \/ Sends(s) \/ WritesOn(s) \/ Fails(s)
  <2>1. CASE OnWrite(r)
    <3>1. CASE r = s
      BY <2>1, <3>1 DEF OnWrite, DropHandler, TypeOK, WritesOn
    <3>2. CASE r # s
      BY <2>1, <3>2 DEF OnWrite, DropHandler, TypeOK, StillWriting
    <3>3. QED
      BY <3>1, <3>2
  <2>2. CASE OnWriteError(r)
    <3>1. CASE r = s
      BY <2>2, <3>1 DEF OnWriteError, DropHandler, TypeOK, Fails
    <3>2. CASE r # s
      BY <2>2, <3>2 DEF OnWriteError, DropHandler, TypeOK, StillWriting
    <3>3. QED
      BY <3>1, <3>2
  <2>3. CASE HandleAccept(r)
    BY <2>3 DEF HandleAccept, TypeOK, StillWriting, writerVars
  <2>4. CASE OnAccept(r)
    <3>1. CASE r = s
      BY <2>4, <3>1 DEF OnAccept, DropHandler, TypeOK, Sends
    <3>2. CASE r # s
      BY <2>4, <3>2, SendsOne DEF OnAccept, DropHandler, TypeOK, StillWriting
    <3>3. QED
      BY <3>1, <3>2
  <2>5. CASE OnAcceptError(r) \/ OnReadError(r)
    <3>1. UNCHANGED <<link, writerVars>>
      BY <2>5 DEF OnAcceptError, OnReadError
    <3>2. \E h \in {"accept", "read"} : handlers' = [handlers EXCEPT ![r] = (@ \ {h}) \cup {}]
      BY <2>5 DEF OnAcceptError, OnReadError, DropHandler
    <3>3. "write" \in handlers'[s] <=> "write" \in handlers[s]
      BY <3>2 DEF TypeOK
    <3>4. QED
      BY <3>1, <3>3 DEF StillWriting, writerVars
  <2>6. CASE OnReadRequest(r)
    <3>1. CASE r = s
      BY <2>6, <3>1 DEF OnReadRequest, DropHandler, TypeOK, Sends
    <3>2. CASE r # s
      BY <2>6, <3>2, SendsOne DEF OnReadRequest, DropHandler, TypeOK, StillWriting
    <3>3. QED
      BY <3>1, <3>2
  <2>7. CASE OnReadPeek(r)
    BY <2>7, PeekOfOne DEF OnReadPeek
  <2>8. CASE EndDestroy(r) \/ WaitForMutex(r)
    BY <2>8 DEF EndDestroy, WaitForMutex, StillWriting, writerVars
  <2>9. QED
    BY <1>2, <2>1, <2>2, <2>3, <2>4, <2>5, <2>6, <2>7, <2>8 DEF IoStep, Write
<1>3. ASSUME NEW r \in Sessions, Disconnect(r) PROVE StillWriting(s)
  BY <1>3 DEF Disconnect, TypeOK, StillWriting, writerVars
<1>4. ASSUME NEW t \in Threads, ThreadStep(t) PROVE StillWriting(s) \/ Sends(s)
  <2>1. ASSUME NEW r \in Sessions, Notify(t, r) PROVE StillWriting(s)
    BY <2>1 DEF Notify, StillWriting, writerVars
  <2>2. CASE Wake(t)
    <3>1. waking[t] \in Sessions /\ link[waking[t]] \in {"open", "closed"}
      BY <2>2 DEF Wake, TypeOK, WaitersConnected
    <3>2. QED
      BY <2>2, <3>1, PeekOfOne DEF Wake
  <2>3. QED
    BY <1>4, <2>1, <2>2 DEF ThreadStep
<1>5. CASE Stop
  BY <1>5 DEF Stop, StopBegin, CloseOne, ClearOne, ClearEnd, StopIo, TypeOK,
              StillWriting, writerVars
<1>6. QED
  BY <1>1, <1>2, <1>3, <1>4, <1>5 DEF Next

-----------------------------------------------------------------------------
(* The inductive invariant of the write queue *)

\* The flag, the operation under way and the queue of a session agree, and
\* nothing is sent before the handshake is over.
Writing(s) ==
  /\ is_writing[s] <=> "write" \in handlers[s]
  /\ ~is_writing[s] /\ message_queue[s] # <<>> => link[s] = "closed"
  /\ link[s] \in {"none", "upgrade"} =>
       ~is_writing[s] /\ sent[s] = 0 /\ written[s] = 0 /\ message_queue[s] = <<>>

BeingWritten(s) == IF is_writing[s] THEN 1 ELSE 0

\* The queue is a gapless end of what was sent; the message being written comes
\* right before it, and what was written comes before both.
Gapless(s) ==
  /\ \A n \in 1 .. Len(message_queue[s]) :
       message_queue[s][n] + Len(message_queue[s]) = sent[s] + n
  /\ is_writing[s] => current_write_message[s] + Len(message_queue[s]) = sent[s]
  /\ written[s] + Len(message_queue[s]) + BeingWritten(s) <= sent[s]
  /\ link[s] = "open" =>
       written[s] + Len(message_queue[s]) + BeingWritten(s) = sent[s]

WriterInv ==
  /\ TypeOK
  /\ WaitersConnected
  /\ \A s \in Sessions : Writing(s) /\ Gapless(s)

LEMMA WaitersStayConnected ==
  ASSUME TypeOK, WaitersConnected, [Next]_vars
  PROVE  WaitersConnected'
<1> DEFINE Connected == {"open", "closed"}
<1>1. CASE UNCHANGED vars
  BY <1>1 DEF vars, WaitersConnected
<1>2. ASSUME NEW r \in Sessions, link' \in {link, [link EXCEPT ![r] = "closed"]},
             pending' \subseteq pending, UNCHANGED waking
      PROVE  WaitersConnected'
  BY <1>2 DEF TypeOK, WaitersConnected
<1>3. ASSUME NEW r \in Sessions, NEW h, NEW more, DropHandler(r, h, more),
             UNCHANGED <<link, waking>>
      PROVE  WaitersConnected'
  <2>1. pending' \subseteq pending
    BY <1>3 DEF DropHandler, Destroyed
  <2>2. QED
    BY <1>3, <2>1 DEF WaitersConnected
<1>4. ASSUME NEW r \in Sessions, Peek(r, pending), link[r] \in Connected,
             UNCHANGED link, \A t \in Threads : waking'[t] \in {waking[t], NoSession}
      PROVE  WaitersConnected'
  <2>1. pending' \subseteq pending \cup {r}
    BY <1>4 DEF Peek
  <2>2. \A s \in pending' : link'[s] \in Connected
    BY <1>4, <2>1 DEF WaitersConnected
  <2>3. \A t \in Threads : waking'[t] \in Sessions => link'[waking'[t]] \in Connected
    BY <1>4, NoSessionAssumption DEF WaitersConnected
  <2>4. QED
    BY <2>2, <2>3 DEF WaitersConnected
<1>5. ASSUME NEW r \in Sessions, IoStep(r) PROVE WaitersConnected'
  <2>1. CASE OnWrite(r) \/ OnWriteError(r) \/ OnAcceptError(r) \/ OnReadError(r) \/ OnReadRequest(r)
    <3>1. UNCHANGED <<link, waking>> /\ \E h, more : DropHandler(r, h, more)
      BY <2>1 DEF OnWrite, OnWriteError, OnAcceptError, OnReadError, OnReadRequest
    <3>2. QED
      BY <1>3, <3>1
  <2>2. CASE HandleAccept(r)
    BY <2>2 DEF HandleAccept, TypeOK, WaitersConnected
  <2>3. CASE OnAccept(r)
    <3>1. pending' \subseteq pending /\ UNCHANGED waking
      BY <2>3 DEF OnAccept, DropHandler, Destroyed
    <3>2. link' = [link EXCEPT ![r] = "open"]
      BY <2>3 DEF OnAccept
    <3>3. QED
      BY <3>1, <3>2 DEF TypeOK, WaitersConnected
  <2>4. CASE OnReadPeek(r)
    BY <1>4, <2>4 DEF OnReadPeek
  <2>5. CASE EndDestroy(r) \/ WaitForMutex(r)
    BY <2>5 DEF EndDestroy, WaitForMutex, WaitersConnected
  <2>6. QED
    BY <1>5, <2>1, <2>2, <2>3, <2>4, <2>5 DEF IoStep, Write
<1>6. ASSUME NEW r \in Sessions, Disconnect(r) PROVE WaitersConnected'
  BY <1>2, <1>6 DEF Disconnect
<1>7. ASSUME NEW t \in Threads, ThreadStep(t) PROVE WaitersConnected'
  <2>1. ASSUME NEW r \in Sessions, Notify(t, r) PROVE WaitersConnected'
    BY <2>1 DEF Notify, TypeOK, WaitersConnected
  <2>2. CASE Wake(t)
    <3>1. waking[t] \in Sessions /\ link[waking[t]] \in Connected
      BY <2>2 DEF Wake, TypeOK, WaitersConnected
    <3>2. \A u \in Threads : waking'[u] \in {waking[u], NoSession}
      BY <2>2 DEF Wake, TypeOK
    <3>3. QED
      BY <1>4, <2>2, <3>1, <3>2 DEF Wake
  <2>3. QED
    BY <1>7, <2>1, <2>2 DEF ThreadStep
<1>8. CASE Stop
  <2>1. ASSUME NEW r \in Sessions, CloseOne(r) PROVE WaitersConnected'
    BY <1>2, <2>1 DEF CloseOne
  <2>2. CASE StopBegin \/ (\E r \in Sessions : ClearOne(r)) \/ ClearEnd \/ StopIo
    BY <2>2 DEF StopBegin, ClearOne, ClearEnd, StopIo, WaitersConnected
  <2>3. QED
    BY <1>8, <2>1, <2>2 DEF Stop
<1>9. QED
  BY <1>1, <1>5, <1>6, <1>7, <1>8 DEF Next

\* Facts about the numbers in a queue.
LEMMA AppendNext ==
  ASSUME NEW q \in Seq(Nat), NEW m \in Nat,
         \A n \in 1 .. Len(q) : q[n] + Len(q) = m + n
  PROVE  LET Q == Append(q, m + 1) IN
         /\ Q \in Seq(Nat) /\ Q # <<>> /\ Len(Q) = Len(q) + 1
         /\ \A n \in 1 .. Len(Q) : Q[n] + Len(Q) = m + 1 + n
<1> DEFINE Q == Append(q, m + 1)
<1>1. Q \in Seq(Nat) /\ Q # <<>>
  BY AppendedNumber
<1>2. Len(Q) = Len(q) + 1 /\ Len(q) \in Nat
  OBVIOUS
<1>3. ASSUME NEW n \in 1 .. Len(Q) PROVE Q[n] + Len(Q) = m + 1 + n
  <2>1. CASE n \in 1 .. Len(q)
    <3>1. Q[n] = q[n] /\ q[n] \in Nat
      BY <2>1
    <3>2. q[n] + Len(q) = m + n
      BY <2>1
    <3>3. n \in Nat /\ Q[n] = q[n] /\ Len(Q) = Len(q) + 1
      BY <1>2, <2>1, <3>1
    <3> HIDE DEF Q
    <3> DEFINE a == q[n]
    <3> DEFINE l == Len(q)
    <3>4. a \in Nat /\ l \in Nat /\ a + l = m + n
      BY <1>2, <3>1, <3>2
    <3>5. Q[n] = a /\ Len(Q) = l + 1
      BY <3>3
    <3> HIDE DEF a, l
    <3>6. a + (l + 1) = m + 1 + n
      BY <3>3, <3>4
    <3>7. QED
      BY <3>5, <3>6
  <2>2. CASE n = Len(q) + 1
    <3>1. Q[n] = m + 1
      BY <2>2
    <3> HIDE DEF Q
    <3>2. QED
      BY <1>2, <2>2, <3>1
  <2>3. n \in 1 .. Len(q) \/ n = Len(q) + 1
    BY <1>2
  <2>4. QED
    BY <2>1, <2>2, <2>3
<1>4. QED
  BY <1>1, <1>2, <1>3

LEMMA TakeFront ==
  ASSUME NEW Q \in Seq(Nat), Q # <<>>, NEW m \in Nat,
         \A n \in 1 .. Len(Q) : Q[n] + Len(Q) = m + n
  PROVE  /\ Head(Q) \in Nat /\ Tail(Q) \in Seq(Nat)
         /\ Len(Tail(Q)) + 1 = Len(Q)
         /\ Head(Q) + Len(Tail(Q)) = m
         /\ \A n \in 1 .. Len(Tail(Q)) : Tail(Q)[n] + Len(Tail(Q)) = m + n
<1>1. Head(Q) \in Nat /\ Tail(Q) \in Seq(Nat) /\ Head(Q) = Q[1]
  BY HeadTailProperties
<1>2. Len(Q) \in Nat /\ Len(Q) # 0 /\ Len(Tail(Q)) = Len(Q) - 1
  BY HeadTailProperties, EmptySeq
<1>3. Q[1] + Len(Q) = m + 1
  BY <1>2
<1>4. ASSUME NEW n \in 1 .. Len(Tail(Q)) PROVE Tail(Q)[n] + Len(Tail(Q)) = m + n
  <2>1. n + 1 \in 1 .. Len(Q) /\ n \in Nat
    BY <1>2
  <2>2. Tail(Q)[n] = Q[n + 1] /\ Q[n + 1] \in Nat
    BY <2>1, <1>1, HeadTailProperties
  <2>3. Q[n + 1] + Len(Q) = m + (n + 1)
    BY <2>1
  <2> DEFINE a == Q[n + 1]
  <2> DEFINE l == Len(Q)
  <2>4. a \in Nat /\ l \in Nat /\ n \in Nat /\ a + l = m + (n + 1)
    BY <1>2, <2>1, <2>2, <2>3
  <2>5. Tail(Q)[n] = a /\ Len(Tail(Q)) = l - 1
    BY <1>2, <2>2
  <2> HIDE DEF a, l
  <2>6. a + (l - 1) = m + n
    BY <2>4
  <2>7. QED
    BY <2>5, <2>6
<1>5. QED
  BY <1>1, <1>2, <1>3, <1>4

\* Sending keeps both parts of the invariant ...
LEMMA SendsKeeps ==
  ASSUME TypeOK, NEW s \in Sessions, Writing(s), Gapless(s), Sends(s)
  PROVE  Writing(s)' /\ Gapless(s)'
<1> DEFINE q == message_queue[s]
           m == sent[s]
           Q == Append(q, m + 1)
<1>1. q \in Seq(Nat) /\ m \in Nat /\ written[s] \in Nat /\ current_write_message[s] \in Nat
      /\ is_writing[s] \in BOOLEAN /\ Len(q) \in Nat
  BY DEF TypeOK
<1>2. /\ Q \in Seq(Nat) /\ Q # <<>> /\ Len(Q) = Len(q) + 1
      /\ \A n \in 1 .. Len(Q) : Q[n] + Len(Q) = m + 1 + n
  <2>1. \A n \in 1 .. Len(q) : q[n] + Len(q) = m + n
    BY DEF Gapless
  <2> HIDE DEF q, m
  <2>2. QED
    BY <1>1, <2>1, AppendNext
<1>3. sent'[s] = m + 1 /\ written'[s] = written[s] /\ "write" \in handlers'[s]
  BY DEF Sends, SendMessage, TypeOK
<1>4. link[s] \in {"upgrade", "open", "closed"} /\ link'[s] \in {"open", "closed"}
      /\ (link'[s] = "open" => link[s] \in {"upgrade", "open"})
  BY DEF Sends
<1>5. CASE is_writing[s]
  <2>1. is_writing'[s] /\ message_queue'[s] = Q /\ current_write_message'[s] = current_write_message[s]
    BY <1>5 DEF Sends, SendMessage, TypeOK
  <2>2. link[s] # "upgrade"
    BY <1>5 DEF Writing
  <2>3. Writing(s)'
    BY <1>3, <1>4, <2>1 DEF Writing
  <2>4. /\ current_write_message[s] + Len(q) = m
        /\ written[s] + Len(q) + 1 <= m
        /\ link[s] = "open" => written[s] + Len(q) + 1 = m
    BY <1>5 DEF Gapless, BeingWritten
  <2> HIDE DEF q, m, Q
  <2>5. /\ current_write_message[s] + Len(Q) = m + 1
        /\ written[s] + Len(Q) + 1 <= m + 1
        /\ link'[s] = "open" => written[s] + Len(Q) + 1 = m + 1
    <3> DEFINE c == current_write_message[s]
               w == written[s]
               l == Len(q)
    <3>1. c \in Nat /\ w \in Nat /\ l \in Nat /\ m \in Nat /\ Len(Q) = l + 1
      BY <1>1, <1>2
    <3>2. /\ c + l = m /\ w + l + 1 <= m
          /\ link'[s] = "open" => w + l + 1 = m
      BY <1>4, <2>2, <2>4
    <3> HIDE DEF c, w, l
    <3>3. /\ c + (l + 1) = m + 1 /\ w + (l + 1) + 1 <= m + 1
          /\ link'[s] = "open" => w + (l + 1) + 1 = m + 1
      BY <3>1, <3>2
    <3>4. QED
      BY <3>1, <3>3 DEF c, w
  <2>6. Gapless(s)'
    BY <1>2, <1>3, <2>1, <2>5 DEF Gapless, BeingWritten
  <2>7. QED
    BY <2>3, <2>6
<1>6. CASE ~is_writing[s]
  <2>1. is_writing'[s] /\ message_queue'[s] = Tail(Q) /\ current_write_message'[s] = Head(Q)
    BY <1>6 DEF Sends, SendMessage, TypeOK
  <2>2. Writing(s)'
    BY <1>3, <1>4, <2>1 DEF Writing
  <2>3. /\ written[s] + Len(q) <= m
        /\ link[s] = "open" => written[s] + Len(q) = m
        /\ link[s] = "upgrade" => written[s] = 0 /\ m = 0 /\ Len(q) = 0
    BY <1>1, <1>6 DEF Gapless, BeingWritten, Writing
  <2> HIDE DEF q, m, Q
  <2>4. /\ Head(Q) \in Nat /\ Tail(Q) \in Seq(Nat)
        /\ Len(Tail(Q)) + 1 = Len(Q)
        /\ Head(Q) + Len(Tail(Q)) = m + 1
        /\ \A n \in 1 .. Len(Tail(Q)) : Tail(Q)[n] + Len(Tail(Q)) = m + 1 + n
    <3>1. m + 1 \in Nat
      BY <1>1
    <3>2. Q \in Seq(Nat) /\ Q # <<>> /\ \A n \in 1 .. Len(Q) : Q[n] + Len(Q) = (m + 1) + n
      BY <1>2
    <3>3. QED
      BY <3>1, <3>2, TakeFront
  <2>5. /\ written[s] + Len(Tail(Q)) + 1 <= m + 1
        /\ link'[s] = "open" => written[s] + Len(Tail(Q)) + 1 = m + 1
    <3>1. Len(Tail(Q)) = Len(q)
      <4>1. Len(Tail(Q)) \in Nat
        BY <2>4
      <4>2. QED
        BY <1>1, <1>2, <2>4, <4>1
    <3> DEFINE w == written[s]
               l == Len(q)
    <3>2. w \in Nat /\ l \in Nat /\ m \in Nat /\ w + l <= m
      BY <1>1, <2>3
    <3>3. link'[s] = "open" => w + l = m
      BY <1>4, <2>3
    <3> HIDE DEF w, l
    <3>4. w + l + 1 <= m + 1 /\ (link'[s] = "open" => w + l + 1 = m + 1)
      BY <3>2, <3>3
    <3>5. QED
      BY <3>1, <3>4 DEF w, l
  <2>6. Gapless(s)'
    BY <1>3, <2>1, <2>4, <2>5 DEF Gapless, BeingWritten
  <2>7. QED
    BY <2>2, <2>6
<1>7. QED
  BY <1>1, <1>5, <1>6

\* ... and so does the end of a write, with the next one started ...
LEMMA WritesOnKeeps ==
  ASSUME TypeOK, NEW s \in Sessions, Writing(s), Gapless(s), WritesOn(s)
  PROVE  Writing(s)' /\ Gapless(s)'
<1> DEFINE q == message_queue[s]
           m == sent[s]
           c == current_write_message[s]
<1>1. q \in Seq(Nat) /\ m \in Nat /\ c \in Nat /\ Len(q) \in Nat
  BY DEF TypeOK
<1>2. is_writing[s] /\ c + Len(q) = m
  BY DEF WritesOn, Writing, Gapless
<1>3. sent'[s] = m /\ written'[s] = c /\ link'[s] = "open"
  BY DEF WritesOn
<1>4. CASE q = <<>>
  <2>1. message_queue'[s] = <<>> /\ ~is_writing'[s] /\ "write" \notin handlers'[s]
    BY <1>4 DEF WritesOn
  <2>2. Len(<<>>) = 0 /\ c = m
    BY <1>1, <1>2, <1>4
  <2>3. Writing(s)'
    BY <1>3, <2>1 DEF Writing
  <2> HIDE DEF q, m, c
  <2>4. Gapless(s)'
    BY <1>1, <1>3, <2>1, <2>2 DEF Gapless, BeingWritten
  <2>5. QED
    BY <2>3, <2>4
<1>5. CASE q # <<>>
  <2>1. /\ message_queue'[s] = Tail(q) /\ current_write_message'[s] = Head(q)
        /\ is_writing'[s] = is_writing[s] /\ "write" \in handlers'[s]
    BY <1>5 DEF WritesOn
  <2>2. Writing(s)'
    BY <1>2, <1>3, <2>1 DEF Writing
  <2>3. \A n \in 1 .. Len(q) : q[n] + Len(q) = m + n
    BY DEF Gapless
  <2> HIDE DEF q, m, c
  <2>4. /\ Head(q) \in Nat /\ Tail(q) \in Seq(Nat)
        /\ Len(Tail(q)) + 1 = Len(q)
        /\ Head(q) + Len(Tail(q)) = m
        /\ \A n \in 1 .. Len(Tail(q)) : Tail(q)[n] + Len(Tail(q)) = m + n
    BY <1>1, <1>5, <2>3, TakeFront
  <2>5. c + Len(Tail(q)) + 1 = m
    <3>1. Len(Tail(q)) \in Nat
      BY <2>4
    <3>2. QED
      BY <1>1, <1>2, <2>4, <3>1
  <2>6. Gapless(s)'
    BY <1>1, <1>2, <1>3, <2>1, <2>4, <2>5 DEF Gapless, BeingWritten
  <2>7. QED
    BY <2>2, <2>6
<1>6. QED
  BY <1>4, <1>5

\* ... and a failed write.
LEMMA FailsKeeps ==
  ASSUME TypeOK, NEW s \in Sessions, Writing(s), Gapless(s), Fails(s)
  PROVE  Writing(s)' /\ Gapless(s)'
<1>1. Writing(s)'
  BY DEF Writing, Fails
<1>2. written[s] \in Nat /\ Len(message_queue[s]) \in Nat /\ sent[s] \in Nat
  BY DEF TypeOK
<1>3. written[s] + Len(message_queue[s]) <= sent[s]
  BY <1>2 DEF Gapless, BeingWritten
<1>4. Gapless(s)'
  BY <1>2, <1>3 DEF Gapless, BeingWritten, Fails
<1>5. QED
  BY <1>1, <1>4

LEMMA StillWritingKeeps ==
  ASSUME TypeOK, NEW s \in Sessions, Writing(s), Gapless(s), StillWriting(s)
  PROVE  Writing(s)' /\ Gapless(s)'
<1>1. Writing(s)'
  BY DEF Writing, StillWriting
<1>2. link'[s] = "open" => link[s] = "open"
  BY DEF StillWriting
<1>3. Gapless(s)'
  BY <1>2 DEF Gapless, BeingWritten, StillWriting
<1>4. QED
  BY <1>1, <1>3

THEOREM WriterInvariant == Spec => []WriterInv
<1>1. Init => WriterInv
  <2> SUFFICES ASSUME Init PROVE WriterInv
    OBVIOUS
  <2>1. TypeOK
    BY DEF Init, TypeOK, ServerStates, Links
  <2>2. WaitersConnected
    BY NoSessionAssumption DEF Init, WaitersConnected
  <2>3. ASSUME NEW s \in Sessions PROVE Writing(s) /\ Gapless(s)
    BY DEF Init, Writing, Gapless, BeingWritten
  <2>4. QED
    BY <2>1, <2>2, <2>3 DEF WriterInv
<1>2. WriterInv /\ TypeOK' /\ [Next]_vars => WriterInv'
  <2> SUFFICES ASSUME WriterInv, TypeOK', [Next]_vars PROVE WriterInv'
    OBVIOUS
  <2>1. TypeOK /\ WaitersConnected /\ \A s \in Sessions : Writing(s) /\ Gapless(s)
    BY DEF WriterInv
  <2>2. WaitersConnected'
    BY <2>1, WaitersStayConnected
  <2>3. ASSUME NEW s \in Sessions PROVE Writing(s)' /\ Gapless(s)'
    <3>1. Writing(s) /\ Gapless(s)
      BY <2>1
    <3>2. "write" \in handlers[s] => link[s] # "none"
      BY <3>1 DEF Writing
    <3>3. StillWriting(s) \/ Sends(s) \/ WritesOn(s) \/ Fails(s)
      BY <2>1, <3>2, StepOfOneSession
    <3>4. QED
      BY <2>1, <3>1, <3>3, StillWritingKeeps, SendsKeeps, WritesOnKeeps, FailsKeeps
  <2>4. QED
    BY <2>2, <2>3 DEF WriterInv
<1>3. QED
  BY <1>1, <1>2, SessionsTypeCorrect, PTL DEF Spec

\* The flag and the operation under way agree: SessionServer!WriterIsWriting.
THEOREM SessionsWriterIsWriting == Spec => []WriterIsWriting
<1>1. WriterInv => WriterIsWriting
  BY DEF WriterInv, Writing, WriterIsWriting
<1>2. QED
  BY <1>1, WriterInvariant, PTL

\* Messages reach the client in the order and without the gaps in which they
\* were sent, whatever threads send them: SessionServer!InOrder.
THEOREM SessionsInOrder == Spec => []InOrder
<1>1. WriterInv => InOrder
  <2> SUFFICES ASSUME WriterInv, NEW s \in Sessions
               PROVE  LET rest == Unwritten(s) IN
                      /\ \A n \in DOMAIN rest : rest[n] + Len(rest) = sent[s] + n
                      /\ written[s] + Len(rest) <= sent[s]
                      /\ link[s] = "open" => written[s] + Len(rest) = sent[s]
    BY DEF InOrder
  <2> DEFINE q == message_queue[s]
             c == current_write_message[s]
             m == sent[s]
  <2>1. q \in Seq(Nat) /\ c \in Nat /\ m \in Nat /\ written[s] \in Nat /\ Len(q) \in Nat
        /\ is_writing[s] \in BOOLEAN
    BY DEF WriterInv, TypeOK
  <2>2. Gapless(s)
    BY DEF WriterInv
  <2>3. CASE ~is_writing[s]
    <3>1. Unwritten(s) = q
      BY <2>3 DEF Unwritten
    <3>2. /\ \A n \in 1 .. Len(q) : q[n] + Len(q) = m + n
          /\ written[s] + Len(q) + 0 <= m
          /\ link[s] = "open" => written[s] + Len(q) + 0 = m
      BY <2>2, <2>3 DEF Gapless, BeingWritten
    <3>3. DOMAIN q = 1 .. Len(q)
      BY <2>1
    <3> HIDE DEF q
    <3>4. /\ written[s] + Len(q) <= m
          /\ link[s] = "open" => written[s] + Len(q) = m
      BY <2>1, <3>2
    <3>5. \A n \in DOMAIN q : q[n] + Len(q) = m + n
      BY <3>2, <3>3
    <3>6. QED
      BY <3>1, <3>4, <3>5
  <2>4. CASE is_writing[s]
    <3> DEFINE rest == <<c>> \o q
    <3>1. Unwritten(s) = rest
      BY <2>4 DEF Unwritten
    <3>2. c + Len(q) = m /\ \A n \in 1 .. Len(q) : q[n] + Len(q) = m + n
      BY <2>2, <2>4 DEF Gapless
    <3>3. /\ written[s] + Len(q) + 1 <= m
          /\ link[s] = "open" => written[s] + Len(q) + 1 = m
      BY <2>2, <2>4 DEF Gapless, BeingWritten
    <3> HIDE DEF q, c, m
    <3>4. /\ rest \in Seq(Nat) /\ Len(rest) = Len(q) + 1 /\ rest[1] = c
          /\ \A n \in 1 .. Len(q) : rest[n + 1] = q[n]
      BY <2>1, ConcatProperties
    <3> HIDE DEF rest
    <3>5. ASSUME NEW n \in 1 .. Len(rest) PROVE rest[n] + Len(rest) = m + n
      <4>1. CASE n = 1
        BY <2>1, <3>2, <3>4, <4>1
      <4>2. CASE n # 1
        <5>1. n \in Nat /\ n - 1 \in 1 .. Len(q) /\ (n - 1) + 1 = n
          BY <2>1, <3>4, <4>2
        <5>2. rest[n] = q[n - 1] /\ q[n - 1] \in Nat
          <6>1. rest[(n - 1) + 1] = q[n - 1]
            BY <3>4, <5>1
          <6>2. q[n - 1] \in Nat
            BY <2>1, <5>1
          <6>3. QED
            BY <5>1, <6>1, <6>2
        <5>3. q[n - 1] + Len(q) = m + (n - 1)
          BY <3>2, <5>1
        <5> DEFINE a == q[n - 1]
                   l == Len(q)
        <5>4. a \in Nat /\ l \in Nat /\ a + l = m + (n - 1) /\ rest[n] = a /\ Len(rest) = l + 1
          BY <2>1, <3>4, <5>2, <5>3
        <5> HIDE DEF a, l
        <5>5. a + (l + 1) = m + n
          BY <2>1, <5>1, <5>4
        <5>6. QED
          BY <5>4, <5>5
      <4>3. QED
        BY <4>1, <4>2
    <3>6. DOMAIN rest = 1 .. Len(rest)
      BY <3>4
    <3>7. /\ written[s] + Len(rest) <= m
          /\ link[s] = "open" => written[s] + Len(rest) = m
      BY <2>1, <3>3, <3>4
    <3>8. \A n \in DOMAIN rest : rest[n] + Len(rest) = sent[s] + n
      BY <3>5, <3>6 DEF m
    <3>9. QED
      BY <3>1, <3>7, <3>8 DEF m
  <2>5. QED
    BY <2>1, <2>3, <2>4
<1>2. QED
  BY <1>1, WriterInvariant, PTL

-----------------------------------------------------------------------------
(* Reading, and the end of a session *)

\* A session whose connection is not closed has its handler and, as long as the
\* server runs, is in the table.  Whoever stop() drops from the table keeps the
\* handler, even if it could not be closed.
ReadingInv ==
  \A s \in Sessions :
    /\ link[s] \in {"upgrade", "open"} => s \in table \/ server # "running"
    /\ link[s] = "upgrade" => "accept" \in handlers[s]
    /\ link[s] = "open" => "read" \in handlers[s]

\* What no handler and no table refers to waits for nothing, unless its
\* destructor waits for the mutex.
GoneInv ==
  \A s \in Sessions :
    /\ handlers[s] = {} /\ s \notin table
    /\ ~BeingDestroyed(s) /\ server # "stuck"
    => s \notin pending

LEMMA HandlersOnly ==
  ASSUME TypeOK, ReadingInv, UNCHANGED <<serverVars, link>>,
         \A s \in Sessions : /\ link[s] = "upgrade" => "accept" \in handlers'[s]
                             /\ link[s] = "open" => "read" \in handlers'[s]
  PROVE  ReadingInv'
<1>1. server' = server /\ table' = table /\ link' = link
  BY DEF serverVars
<1>2. ASSUME NEW s \in Sessions
      PROVE  /\ link'[s] \in {"upgrade", "open"} => s \in table' \/ server' # "running"
             /\ link'[s] = "upgrade" => "accept" \in handlers'[s]
             /\ link'[s] = "open" => "read" \in handlers'[s]
  <2>1. link'[s] \in {"upgrade", "open"} => s \in table' \/ server' # "running"
    BY <1>1 DEF ReadingInv
  <2>2. /\ link'[s] = "upgrade" => "accept" \in handlers'[s]
        /\ link'[s] = "open" => "read" \in handlers'[s]
    BY <1>1
  <2>3. QED
    BY <2>1, <2>2
<1>3. QED
  BY <1>2 DEF ReadingInv

LEMMA ReadingKept ==
  ASSUME TypeOK, ReadingInv, [Next]_vars
  PROVE  ReadingInv'
<1>1. CASE UNCHANGED vars
  BY <1>1 DEF vars, serverVars, ReadingInv
<1>2. ASSUME NEW r \in Sessions, NEW h, NEW more, DropHandler(r, h, more),
             UNCHANGED <<serverVars, link>>,
             h = "accept" => link[r] = "closed",
             h = "read" => link[r] = "closed" \/ "read" \in more
      PROVE  ReadingInv'
  <2>1. handlers' = [handlers EXCEPT ![r] = (@ \ {h}) \cup more]
    BY <1>2 DEF DropHandler
  <2>2. \A s \in Sessions : /\ link[s] = "upgrade" => "accept" \in handlers'[s]
                            /\ link[s] = "open" => "read" \in handlers'[s]
    BY <1>2, <2>1 DEF TypeOK, ReadingInv
  <2>3. QED
    BY <1>2, <2>2, HandlersOnly
<1>3. ASSUME NEW r \in Sessions, NEW rest, Peek(r, rest), UNCHANGED <<serverVars, link>>
      PROVE  ReadingInv'
  <2>1. \A s \in Sessions : handlers[s] \subseteq handlers'[s]
    BY <1>3 DEF Peek, TypeOK
  <2>2. \A s \in Sessions : /\ link[s] = "upgrade" => "accept" \in handlers'[s]
                            /\ link[s] = "open" => "read" \in handlers'[s]
    BY <2>1 DEF ReadingInv
  <2>3. QED
    BY <1>3, <2>2, HandlersOnly
<1>4. ASSUME NEW r \in Sessions, IoStep(r) PROVE ReadingInv'
  <2>1. CASE OnWrite(r)
    <3>1. \E more : DropHandler(r, "write", more) /\ UNCHANGED <<serverVars, link>>
      BY <2>1 DEF OnWrite
    <3>2. QED
      BY <1>2, <3>1
  <2>2. CASE OnWriteError(r)
    BY <1>2, <2>2 DEF OnWriteError
  <2>3. CASE HandleAccept(r)
    BY <2>3 DEF HandleAccept, TypeOK, ReadingInv
  <2>4. CASE OnAccept(r)
    <3>1. /\ link[r] = "upgrade" /\ link' = [link EXCEPT ![r] = "open"]
          /\ handlers' = [handlers EXCEPT ![r] = (@ \ {"accept"}) \cup {"read", "write"}]
          /\ UNCHANGED <<server, table>>
      BY <2>4 DEF OnAccept, DropHandler, serverVars
    <3>2. QED
      BY <3>1 DEF TypeOK, ReadingInv
  <2>5. CASE OnAcceptError(r)
    BY <1>2, <2>5 DEF OnAcceptError
  <2>6. CASE OnReadRequest(r)
    BY <1>2, <2>6 DEF OnReadRequest
  <2>7. CASE OnReadPeek(r)
    BY <1>3, <2>7 DEF OnReadPeek
  <2>8. CASE OnReadError(r)
    BY <1>2, <2>8 DEF OnReadError
  <2>9. CASE EndDestroy(r) \/ WaitForMutex(r)
    BY <2>9 DEF EndDestroy, WaitForMutex, ReadingInv, serverVars
  <2>10. QED
    BY <1>4, <2>1, <2>2, <2>3, <2>4, <2>5, <2>6, <2>7, <2>8, <2>9 DEF IoStep, Write
<1>5. ASSUME NEW r \in Sessions, link' \in {link, [link EXCEPT ![r] = "closed"]},
             UNCHANGED <<server, table, handlers>>
      PROVE  ReadingInv'
  <2>1. \A s \in Sessions : link'[s] = link[s] \/ link'[s] = "closed"
    BY <1>5 DEF TypeOK
  <2>2. QED
    BY <1>5, <2>1 DEF ReadingInv
<1>6. ASSUME NEW r \in Sessions, Disconnect(r) PROVE ReadingInv'
  BY <1>5, <1>6 DEF Disconnect, serverVars
<1>7. ASSUME NEW t \in Threads, ThreadStep(t) PROVE ReadingInv'
  <2>1. ASSUME NEW r \in Sessions, Notify(t, r) PROVE ReadingInv'
    BY <2>1 DEF Notify, ReadingInv, serverVars
  <2>2. CASE Wake(t)
    <3>1. waking[t] \in Sessions /\ Peek(waking[t], pending) /\ UNCHANGED <<serverVars, link>>
      BY <2>2 DEF Wake, TypeOK
    <3>2. QED
      BY <1>3, <3>1
  <2>3. QED
    BY <1>7, <2>1, <2>2 DEF ThreadStep
<1>8. CASE Stop
  <2>1. ASSUME NEW r \in Sessions, CloseOne(r) PROVE ReadingInv'
    <3>1. /\ link' \in {link, [link EXCEPT ![r] = "closed"]}
          /\ UNCHANGED <<server, table, handlers>>
      BY <2>1 DEF CloseOne
    <3>2. QED
      BY <1>5, <3>1
  <2>2. CASE StopBegin \/ (\E r \in Sessions : ClearOne(r)) \/ ClearEnd \/ StopIo
    <3>1. server' # "running" /\ UNCHANGED <<link, handlers>>
      BY <2>2 DEF StopBegin, ClearOne, ClearEnd, StopIo
    <3>2. QED
      BY <3>1 DEF ReadingInv
  <2>3. QED
    BY <1>8, <2>1, <2>2 DEF Stop
<1>9. QED
  BY <1>1, <1>4, <1>6, <1>7, <1>8 DEF Next

\* An open session reads and is known: SessionServer!OpenSessionReads.
THEOREM SessionsOpenSessionReads == Spec => []OpenSessionReads
<1>1. Init => ReadingInv
  BY DEF Init, ReadingInv
<1>2. TypeOK /\ ReadingInv /\ [Next]_vars => ReadingInv'
  BY ReadingKept
<1>3. ReadingInv => OpenSessionReads
  BY DEF ReadingInv, OpenSessionReads
<1>4. QED
  BY <1>1, <1>2, <1>3, SessionsTypeCorrect, PTL DEF Spec

\* The io thread does one thing at a time: nobody else's destructor ends where
\* it locks or begins to wait.
LEMMA OneDestroyed ==
  ASSUME NEW s \in Sessions, NEW r \in Sessions, NEW op,
         Locks(op, r) \/ io = Idle, op # "destroy" \/ s # r
  PROVE  ~BeingDestroyed(s)
BY DEF Locks, Idle, BeingDestroyed

LEMMA GoneKept ==
  ASSUME TypeOK, GoneInv, [Next]_vars
  PROVE  GoneInv'
<1>1. CASE UNCHANGED vars
  BY <1>1 DEF vars, serverVars, GoneInv, BeingDestroyed
<1>2. ASSUME NEW r \in Sessions, NEW h, NEW more, IoFree, DropHandler(r, h, more),
             UNCHANGED serverVars
      PROVE  GoneInv'
  <2> SUFFICES ASSUME NEW s \in Sessions, handlers'[s] = {}, s \notin table',
                      ~BeingDestroyed(s)', server' # "stuck"
               PROVE  s \notin pending'
    BY DEF GoneInv
  <2>1. server' = server /\ table' = table
    BY <1>2 DEF serverVars
  <2>2. pending' \subseteq pending
    BY <1>2 DEF DropHandler, Destroyed
  <2>3. CASE s = r
    BY <1>2, <2>1, <2>3 DEF DropHandler, Destroyed, Waits, BeingDestroyed
  <2>4. CASE s # r
    <3>1. handlers'[s] = handlers[s]
      BY <1>2, <2>4 DEF DropHandler, TypeOK
    <3>2. ~BeingDestroyed(s)
      BY <1>2, <2>4, OneDestroyed DEF IoFree
    <3>3. QED
      BY <2>1, <2>2, <3>1, <3>2 DEF GoneInv
  <2>5. QED
    BY <2>3, <2>4
<1>3. ASSUME NEW r \in Sessions, Peek(r, pending), r \in table \/ handlers[r] # {},
             UNCHANGED serverVars,
             \A s \in Sessions : BeingDestroyed(s) => BeingDestroyed(s)'
      PROVE  GoneInv'
  <2>1. pending' \subseteq pending \cup {r}
    BY <1>3 DEF Peek
  <2>2. \A s \in Sessions : handlers[s] \subseteq handlers'[s]
    BY <1>3 DEF Peek, TypeOK
  <2>3. QED
    BY <1>3, <2>1, <2>2 DEF GoneInv, serverVars
<1>4. ASSUME NEW r \in Sessions, IoStep(r) PROVE GoneInv'
  <2>1. CASE OnWrite(r) \/ OnWriteError(r) \/ OnAccept(r) \/ OnAcceptError(r)
             \/ OnReadRequest(r) \/ OnReadError(r)
    <3>1. IoFree /\ UNCHANGED serverVars /\ \E h, more : DropHandler(r, h, more)
      BY <2>1 DEF OnWrite, OnWriteError, OnAccept, OnAcceptError, OnReadRequest, OnReadError
    <3>2. QED
      BY <1>2, <3>1
  <2>2. CASE HandleAccept(r)
    <3>1. \A s \in Sessions : ~BeingDestroyed(s)
      BY <2>2, OneDestroyed DEF HandleAccept
    <3>2. QED
      BY <2>2, <3>1 DEF HandleAccept, TypeOK, GoneInv
  <2>3. CASE OnReadPeek(r)
    <3>1. \A s \in Sessions : ~BeingDestroyed(s)
      BY <2>3, OneDestroyed DEF OnReadPeek
    <3>2. QED
      BY <1>3, <2>3, <3>1 DEF OnReadPeek
  <2>4. CASE EndDestroy(r)
    <3> SUFFICES ASSUME NEW s \in Sessions, s # r, handlers'[s] = {}, s \notin table',
                        server' # "stuck"
                 PROVE  s \notin pending'
      BY <2>4 DEF EndDestroy, GoneInv
    <3>1. ~BeingDestroyed(s)
      BY <2>4, OneDestroyed DEF EndDestroy
    <3>2. QED
      BY <2>4, <3>1 DEF EndDestroy, GoneInv, serverVars
  <2>5. CASE WaitForMutex(r)
    <3>1. \A s \in Sessions : ~BeingDestroyed(s)
      BY <2>5 DEF WaitForMutex, IoFree, Idle, BeingDestroyed
    <3>2. QED
      BY <2>5, <3>1 DEF WaitForMutex, GoneInv, serverVars
  <2>6. QED
    BY <1>4, <2>1, <2>2, <2>3, <2>4, <2>5 DEF IoStep, Write
<1>5. ASSUME NEW r \in Sessions, Disconnect(r) PROVE GoneInv'
  BY <1>5 DEF Disconnect, GoneInv, serverVars, BeingDestroyed
<1>6. ASSUME NEW t \in Threads, ThreadStep(t) PROVE GoneInv'
  <2>1. ASSUME NEW r \in Sessions, Notify(t, r) PROVE GoneInv'
    BY <2>1 DEF Notify, GoneInv, serverVars, BeingDestroyed
  <2>2. CASE Wake(t)
    <3>1. /\ waking[t] \in Sessions /\ Peek(waking[t], pending) /\ UNCHANGED serverVars
          /\ UNCHANGED io
      BY <2>2 DEF Wake, TypeOK
    <3>2. CASE waking[t] \in table
      BY <1>3, <3>1, <3>2 DEF BeingDestroyed
    <3>3. CASE waking[t] \notin table
      BY <3>1, <3>3 DEF Peek, GoneInv, serverVars, BeingDestroyed
    <3>4. QED
      BY <3>2, <3>3
  <2>3. QED
    BY <1>6, <2>1, <2>2 DEF ThreadStep
<1>7. CASE Stop
  <2>1. ASSUME NEW r \in Sessions, ClearOne(r) PROVE GoneInv'
    BY <2>1 DEF ClearOne, GoneInv, BeingDestroyed
  <2>2. CASE StopBegin \/ (\E r \in Sessions : CloseOne(r)) \/ ClearEnd \/ StopIo
    BY <2>2 DEF StopBegin, CloseOne, ClearEnd, StopIo, GoneInv, BeingDestroyed
  <2>3. QED
    BY <1>7, <2>1, <2>2 DEF Stop
<1>8. QED
  BY <1>1, <1>4, <1>5, <1>6, <1>7 DEF Next

\* A destroyed session waits for nothing: SessionServer!GoneForGood.
THEOREM SessionsGoneForGood == Spec => []GoneForGood
<1>1. Init => GoneInv
  BY DEF Init, GoneInv
<1>2. TypeOK /\ GoneInv /\ [Next]_vars => GoneInv'
  BY GoneKept
<1>3. GoneInv => GoneForGood
  BY DEF GoneInv, GoneForGood
<1>4. QED
  BY <1>1, <1>2, <1>3, SessionsTypeCorrect, PTL DEF Spec

================================================================================
