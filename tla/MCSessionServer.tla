--------------------------- MODULE MCSessionServer ---------------------------
(***************************************************************************)
(* SessionServer with a bound for TLC.                                     *)
(*   MaxMessages  nobody sends to a session that was sent that many        *)
(***************************************************************************)
EXTENDS SessionServer, TLC

CONSTANT MaxMessages

Room(s) == sent[s] < MaxMessages

MCNext ==
  \/ \E s \in Sessions :
       \/ Room(s) /\ (OnAccept(s) \/ OnReadRequest(s) \/ OnReadPeek(s))
       \/ HandleAccept(s)
       \/ EndDestroy(s)
       \/ WaitForMutex(s)
       \/ OnAcceptError(s)
       \/ OnReadError(s)
       \/ Write(s)
       \/ Disconnect(s)
  \/ \E t \in Threads :
       \/ waking[t] \in Sessions /\ Room(waking[t]) /\ Wake(t)
       \/ \E s \in Sessions : Notify(t, s)
  \/ Stop

MCSpec == Init /\ [][MCNext]_vars

\* The io thread runs the handlers of writes, unless it waits for a mutex.
\* Nothing is assumed of clients, callback threads or the thread that stops the
\* server, which may stay in a close(), or get stuck, with sessions_mutex_ held.
FairSpec == MCSpec /\ \A s \in Sessions : WF_vars(Write(s))

\* All that is sent to a session is written, unless its connection ends before,
\* or stop() ends or blocks the io thread: no message is left in the queue with
\* nobody to write it.  (Because of MaxMessages nobody sends for ever.)
Delivered ==
  \A s \in Sessions :
    written[s] < sent[s] ~>
      \/ written[s] = sent[s]
      \/ link[s] = "closed"
      \/ ~IoFree
=============================================================================
