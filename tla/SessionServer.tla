----------------------------- MODULE SessionServer -----------------------------
(***************************************************************************)
(* The WebSocket sessions of the server (src/src/market_data_server.cpp):  *)
(* accepting, the read loop and the write queue of each session, the table *)
(* sessions_, and stop().                                                  *)
(*                                                                         *)
(* Threads.  The io thread accepts and runs the handlers On... of all      *)
(* sessions, one at a time: while one of them waits for sessions_mutex_    *)
(* no other runs.  The callback threads of CTP connections send to         *)
(* sessions whose peek is pending.  The main thread runs stop().           *)
(*                                                                         *)
(* Lifetime.  A session lives while something refers to it: the table, or  *)
(* a handler that Asio has still to run.  Its destructor is a part of the  *)
(* step that drops the last reference.                                     *)
(*                                                                         *)
(* Messages are numbered in the order in which send_message() gets them.   *)
(***************************************************************************)
EXTENDS Naturals, Sequences

CONSTANTS
  Sessions,           \* WebSocketSession objects, each made at most once
  Threads,            \* callback threads
  NoSession

ASSUME NoSessionAssumption == NoSession \notin Sessions

VARIABLES
  server,             \* how far stop() is
  closing,            \* sessions stop() has still to close
  table,              \* sessions_
  pending,            \* pending_peek_sessions_
  io,                 \* what the io thread waits for sessions_mutex_ to do
  link,               \* external: the TCP connection under each session
  handlers,           \* session -> its operations whose handler has to run
  message_queue, is_writing, current_write_message,
  sent,               \* session -> messages send_message() was called with
  written,            \* session -> the last message that was written
  waking              \* callback thread -> the session it is to peek for

writerVars == <<message_queue, is_writing, current_write_message, sent, written>>
serverVars == <<server, closing, table>>
vars == <<serverVars, pending, io, link, handlers, writerVars, waking>>

\* "closing": stop() closes the sessions and clears the table, and holds
\* sessions_mutex_.  "cleared": it has released it.  "stopped": the io thread
\* has ended.  "stuck": it waits for the mutex it holds.
ServerStates == {"running", "closing", "cleared", "stopped", "stuck"}

\* "none": not accepted.  "upgrade": in the WebSocket handshake.
Links == {"none", "upgrade", "open", "closed"}

\* The io thread waits for nothing.
Idle == [op |-> "none", session |-> NoSession]

TypeOK ==
  /\ server \in ServerStates
  /\ closing \in SUBSET Sessions
  /\ table \in SUBSET Sessions
  /\ pending \in SUBSET Sessions
  /\ io \in [op : {"accept", "peek", "destroy"}, session : Sessions] \cup {Idle}
  /\ link \in [Sessions -> Links]
  /\ handlers \in [Sessions -> SUBSET {"accept", "read", "write"}]
  /\ message_queue \in [Sessions -> Seq(Nat)]
  /\ is_writing \in [Sessions -> BOOLEAN]
  /\ current_write_message \in [Sessions -> Nat]
  /\ sent \in [Sessions -> Nat]
  /\ written \in [Sessions -> Nat]
  /\ waking \in [Threads -> Sessions \cup {NoSession}]

Init ==
  /\ server = "running"
  /\ closing = {} /\ table = {} /\ pending = {} /\ io = Idle
  /\ link = [s \in Sessions |-> "none"]
  /\ handlers = [s \in Sessions |-> {}]
  /\ message_queue = [s \in Sessions |-> <<>>]
  /\ is_writing = [s \in Sessions |-> FALSE]
  /\ current_write_message = [s \in Sessions |-> 0]
  /\ sent = [s \in Sessions |-> 0]
  /\ written = [s \in Sessions |-> 0]
  /\ waking = [t \in Threads |-> NoSession]

\* sessions_mutex_ is free.
Unlocked == server \in {"running", "cleared", "stopped"}

\* The io thread takes the next handler.
IoFree == server # "stopped" /\ io = Idle

\* It does op for s under sessions_mutex_, at once or after it waited ...
Locks(op, s) ==
  /\ server # "stopped" /\ Unlocked
  /\ io \in {Idle, [op |-> op, session |-> s]}
  /\ io' = Idle

\* ... for stop(), which holds it.
Waits(op, s) == ~Unlocked /\ io' = [op |-> op, session |-> s]

-----------------------------------------------------------------------------
(* The write queue; every step of it is taken under write_mutex_ *)

\* Variant: every message is written at once.
SendMessageAtOnce(s) ==
  /\ sent' = [sent EXCEPT ![s] = @ + 1]
  /\ is_writing' = [is_writing EXCEPT ![s] = TRUE]
  /\ current_write_message' = [current_write_message EXCEPT ![s] = sent[s] + 1]
  /\ UNCHANGED <<message_queue, written>>

\* send_message().  Whoever finds nobody writing starts with the front of the
\* queue, which after a failed write is not the message it brings.
SendMessage(s) ==
  LET queue == Append(message_queue[s], sent[s] + 1) IN
  /\ sent' = [sent EXCEPT ![s] = @ + 1]
  /\ \/ /\ is_writing[s]
        /\ message_queue' = [message_queue EXCEPT ![s] = queue]
        /\ UNCHANGED <<is_writing, current_write_message>>
     \/ /\ ~is_writing[s]
        /\ is_writing' = [is_writing EXCEPT ![s] = TRUE]
        /\ current_write_message' = [current_write_message EXCEPT ![s] = Head(queue)]
        /\ message_queue' = [message_queue EXCEPT ![s] = Tail(queue)]
  /\ UNCHANGED written

\* The destructor calls remove_session(), which forgets the pending peek.
\* (The table does not have the session any more: it would refer to it.)
Destroyed(s) ==
  \/ Locks("destroy", s) /\ pending' = pending \ {s}
  \/ Waits("destroy", s) /\ UNCHANGED pending

\* Variant: the pending peek outlives the session.
DropHandlerOnly(s, h, more) ==
  /\ handlers' = [handlers EXCEPT ![s] = (@ \ {h}) \cup more]
  /\ UNCHANGED <<pending, io>>

\* Handler h of s has run and has started the operations in more; with the
\* last reference the session is destroyed, on the io thread.
DropHandler(s, h, more) ==
  /\ handlers' = [handlers EXCEPT ![s] = (@ \ {h}) \cup more]
  /\ IF handlers'[s] = {} /\ s \notin table THEN Destroyed(s) ELSE UNCHANGED <<pending, io>>

\* The io thread gets the mutex for remove_session().
EndDestroy(s) ==
  /\ io = [op |-> "destroy", session |-> s]
  /\ Locks("destroy", s)
  /\ pending' = pending \ {s}
  /\ UNCHANGED <<serverVars, link, handlers, writerVars, waking>>

\* Variant: what was queued meanwhile waits for the next send_message().
OnWriteOnce(s) ==
  /\ IoFree
  /\ "write" \in handlers[s] /\ link[s] = "open"
  /\ written' = [written EXCEPT ![s] = current_write_message[s]]
  /\ is_writing' = [is_writing EXCEPT ![s] = FALSE]
  /\ DropHandler(s, "write", {})
  /\ UNCHANGED <<serverVars, link, message_queue, current_write_message, sent, waking>>

\* on_write() without error, and start_write() for what was queued meanwhile.
OnWrite(s) ==
  /\ IoFree
  /\ "write" \in handlers[s]
  /\ link[s] = "open"
  /\ written' = [written EXCEPT ![s] = current_write_message[s]]
  /\ \/ /\ message_queue[s] = <<>>
        /\ is_writing' = [is_writing EXCEPT ![s] = FALSE]
        /\ DropHandler(s, "write", {})
        /\ UNCHANGED <<message_queue, current_write_message>>
     \/ /\ message_queue[s] # <<>>
        /\ current_write_message' = [current_write_message EXCEPT ![s] = Head(message_queue[s])]
        /\ message_queue' = [message_queue EXCEPT ![s] = Tail(@)]
        /\ DropHandler(s, "write", {"write"})
        /\ UNCHANGED is_writing
  /\ UNCHANGED <<serverVars, link, sent, waking>>

\* Variant: the flag is left as it was.
OnWriteErrorKeepingFlag(s) ==
  /\ IoFree
  /\ "write" \in handlers[s] /\ link[s] = "closed"
  /\ DropHandler(s, "write", {})
  /\ UNCHANGED <<serverVars, link, writerVars, waking>>

\* on_write() with an error: the message is lost, the queue stays.
OnWriteError(s) ==
  /\ IoFree
  /\ "write" \in handlers[s]
  /\ link[s] = "closed"
  /\ is_writing' = [is_writing EXCEPT ![s] = FALSE]
  /\ DropHandler(s, "write", {})
  /\ UNCHANGED <<serverVars, link, message_queue, current_write_message, sent, written, waking>>

-----------------------------------------------------------------------------
(* Accepting and reading, on the io thread *)

\* handle_accept(): the session is made and entered, its handshake started.
HandleAccept(s) ==
  /\ link[s] = "none"
  /\ Locks("accept", s)
  /\ table' = table \cup {s}
  /\ link' = [link EXCEPT ![s] = "upgrade"]
  /\ handlers' = [handlers EXCEPT ![s] = {"accept"}]
  /\ UNCHANGED <<server, closing, pending, writerVars, waking>>

\* External: the handshake succeeds, and on_accept() sends the welcome message
\* and starts to read.
OnAccept(s) ==
  /\ IoFree
  /\ "accept" \in handlers[s]
  /\ link[s] = "upgrade"
  /\ link' = [link EXCEPT ![s] = "open"]
  /\ SendMessage(s)
  /\ DropHandler(s, "accept", {"read", "write"})
  /\ UNCHANGED <<serverVars, waking>>

OnAcceptError(s) ==
  /\ IoFree
  /\ "accept" \in handlers[s]
  /\ link[s] = "closed"
  /\ DropHandler(s, "accept", {})
  /\ UNCHANGED <<serverVars, link, writerVars, waking>>

\* Variant: an answered request is the last one that is read.
OnReadRequestLast(s) ==
  /\ IoFree
  /\ "read" \in handlers[s] /\ link[s] = "open"
  /\ SendMessage(s)
  /\ DropHandler(s, "read", {"write"})
  /\ UNCHANGED <<serverVars, link, waking>>

\* on_read() of a request that is answered at once, and the next do_read().
OnReadRequest(s) ==
  /\ IoFree
  /\ "read" \in handlers[s]
  /\ link[s] = "open"
  /\ SendMessage(s)
  /\ DropHandler(s, "read", {"read", "write"})
  /\ UNCHANGED <<serverVars, link, waking>>

\* What handle_peek_message() comes to for s, under sessions_mutex_: nothing,
\* an answer, or a place among those that wait.  rest is what else waits.
Peek(s, rest) ==
  \/ /\ pending' = rest
     /\ UNCHANGED <<handlers, writerVars>>
  \/ /\ s \in table
     /\ SendMessage(s)
     /\ handlers' = [handlers EXCEPT ![s] = @ \cup {"write"}]
     /\ pending' = rest
  \/ /\ s \in table
     /\ pending' = rest \cup {s}
     /\ UNCHANGED <<handlers, writerVars>>

\* on_read() of a peek_message, and the next do_read().
OnReadPeek(s) ==
  /\ "read" \in handlers[s]
  /\ link[s] = "open" \/ (link[s] = "closed" /\ io.op = "peek")
  /\ Locks("peek", s)
  /\ Peek(s, pending)
  /\ UNCHANGED <<serverVars, link, waking>>

\* add_session() and handle_peek_message() find sessions_mutex_ taken.
WaitForMutex(s) ==
  /\ IoFree
  /\ \/ link[s] = "none" /\ Waits("accept", s)
     \/ "read" \in handlers[s] /\ link[s] = "open" /\ Waits("peek", s)
  /\ UNCHANGED <<serverVars, pending, link, handlers, writerVars, waking>>

\* on_read() with an error, or of a close frame: nothing is read any more.
OnReadError(s) ==
  /\ IoFree
  /\ "read" \in handlers[s]
  /\ link[s] = "closed"
  /\ DropHandler(s, "read", {})
  /\ UNCHANGED <<serverVars, link, writerVars, waking>>

\* External: the client closes, or its connection is lost or times out.
Disconnect(s) ==
  /\ link[s] \in {"upgrade", "open"}
  /\ link' = [link EXCEPT ![s] = "closed"]
  /\ UNCHANGED <<serverVars, pending, io, handlers, writerVars, waking>>

-----------------------------------------------------------------------------
(* Callback threads *)

\* notify_pending_sessions() takes a session out of the pending ones ...
Notify(t, s) ==
  /\ waking[t] = NoSession
  /\ s \in pending
  /\ pending' = pending \ {s}
  /\ waking' = [waking EXCEPT ![t] = s]
  /\ UNCHANGED <<serverVars, io, link, handlers, writerVars>>

\* ... and peeks for it, after it may have come to its end.
Wake(t) ==
  /\ Unlocked
  /\ waking[t] # NoSession
  /\ Peek(waking[t], pending)
  /\ waking' = [waking EXCEPT ![t] = NoSession]
  /\ UNCHANGED <<serverVars, io, link>>

-----------------------------------------------------------------------------
(* stop(), on the main thread *)

StopBegin ==
  /\ server = "running"
  /\ server' = "closing"
  /\ closing' = table
  /\ UNCHANGED <<table, pending, io, link, handlers, writerVars, waking>>

\* Variant: close() reports an end of its own.
CloseOneAborting(s) ==
  /\ server = "closing"
  /\ s \in closing
  /\ closing' = closing \ {s}
  /\ link' = [link EXCEPT ![s] = "aborted"]
  /\ UNCHANGED <<server, table, pending, io, handlers, writerVars, waking>>

\* close(): the closing handshake, in which the main thread may stay for ever,
\* or an error, which is logged and leaves the connection as it is.
CloseOne(s) ==
  /\ server = "closing"
  /\ s \in closing
  /\ closing' = closing \ {s}
  /\ link' \in {link, [link EXCEPT ![s] = "closed"]}
  /\ UNCHANGED <<server, table, pending, io, handlers, writerVars, waking>>

\* sessions_.clear().  A session without a handler is destroyed here, and its
\* remove_session() takes sessions_mutex_ again.
ClearOne(s) ==
  /\ server = "closing"
  /\ closing = {}
  /\ s \in table
  /\ table' = table \ {s}
  /\ server' = IF handlers[s] = {} THEN "stuck" ELSE "closing"
  /\ UNCHANGED <<closing, pending, io, link, handlers, writerVars, waking>>

ClearEnd ==
  /\ server = "closing"
  /\ closing = {} /\ table = {}
  /\ server' = "cleared"
  /\ UNCHANGED <<closing, table, pending, io, link, handlers, writerVars, waking>>

\* ioc_.stop() and the end of the io thread, which ends the handler it is in:
\* no handler runs any more.
StopIo ==
  /\ server = "cleared"
  /\ io = Idle
  /\ server' = "stopped"
  /\ UNCHANGED <<closing, table, pending, io, link, handlers, writerVars, waking>>

-----------------------------------------------------------------------------

Write(s) == OnWrite(s) \/ OnWriteError(s)

IoStep(s) ==
  \/ Write(s)
  \/ HandleAccept(s)
  \/ OnAccept(s)
  \/ OnAcceptError(s)
  \/ OnReadRequest(s)
  \/ OnReadPeek(s)
  \/ OnReadError(s)
  \/ EndDestroy(s)
  \/ WaitForMutex(s)

ThreadStep(t) == Wake(t) \/ \E s \in Sessions : Notify(t, s)

Stop ==
  \/ StopBegin
  \/ \E s \in Sessions : CloseOne(s) \/ ClearOne(s)
  \/ ClearEnd
  \/ StopIo

Next ==
  \/ \E s \in Sessions : IoStep(s) \/ Disconnect(s)
  \/ \E t \in Threads : ThreadStep(t)
  \/ Stop

Spec == Init /\ [][Next]_vars

-----------------------------------------------------------------------------
(* Properties *)

\* What of s has still to be written, in this order.
Unwritten(s) ==
  IF is_writing[s] THEN <<current_write_message[s]>> \o message_queue[s] ELSE message_queue[s]

\* The io thread and all callback threads send to one session, and one of them
\* at a time writes: what is unwritten is a gapless end of what was sent, and
\* on an open connection it begins where the client's copy ends.  Nothing is
\* overtaken, written twice or lost before the connection is, and what a failed
\* write left in the queue is never written out of its turn.
InOrder ==
  \A s \in Sessions :
    LET rest == Unwritten(s) IN
    /\ \A n \in DOMAIN rest : rest[n] + Len(rest) = sent[s] + n
    /\ written[s] + Len(rest) <= sent[s]
    /\ link[s] = "open" => written[s] + Len(rest) = sent[s]

\* is_writing_ is set exactly while an async_write of the session is under way
\* (Beast allows one at a time), and a queue that nobody writes is one of a
\* connection that is gone.
WriterIsWriting ==
  \A s \in Sessions :
    /\ is_writing[s] <=> "write" \in handlers[s]
    /\ ~is_writing[s] /\ message_queue[s] # <<>> => link[s] = "closed"

\* While its connection is open a session goes on reading, whatever it is asked
\* and whoever writes to it; and it is known to the server unless that stops.
OpenSessionReads ==
  \A s \in Sessions : link[s] = "open" =>
    /\ "read" \in handlers[s]
    /\ s \in table \/ server # "running"

\* The io thread is in the destructor of s, and waits for the mutex.
BeingDestroyed(s) == io = [op |-> "destroy", session |-> s]

\* A session that was destroyed waits for no quote: no callback thread is led
\* to peek for it by a stale entry, although one may have taken it from the
\* pending ones before.  (Its destructor may have to wait for the mutex, or be
\* stuck with stop() for ever.)
GoneForGood ==
  \A s \in Sessions :
    /\ link[s] = "closed" /\ handlers[s] = {} /\ s \notin table
    /\ ~BeingDestroyed(s) /\ server # "stuck"
    => s \notin pending

================================================================================
