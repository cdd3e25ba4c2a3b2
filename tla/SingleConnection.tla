--------------------------- MODULE SingleConnection ---------------------------
(***************************************************************************)
(* The server with one CTP connection and no dispatcher                    *)
(* (src/src/market_data_server.cpp, the branches without                   *)
(* use_multi_ctp_mode_, and MarketDataSpi).                                *)
(*                                                                         *)
(* Threads.  Sessions subscribe on the io thread, under subscribers_mutex_ *)
(* from the first look at instrument_subscribers_ to the call of the API.  *)
(* The thread of the API runs MarketDataSpi: OnFrontConnected() logs in,   *)
(* every other callback only logs, so that what the front answers is a     *)
(* step of the front alone.                                                *)
(*                                                                         *)
(* remove_session() takes nothing out of instrument_subscribers_: it looks *)
(* for the session in sessions_, which refers to no session that is being  *)
(* destroyed.                                                              *)
(***************************************************************************)
EXTENDS Naturals, Sequences, FiniteSets

CONSTANTS Instruments, Sessions

ASSUME InstrumentsFinite == IsFiniteSet(Instruments)

VARIABLES
  ctp_logged_in,            \* ctp_logged_in_, and ctp_connected_ with it
  logging_in,               \* how far ctp_login() is, on the API's thread
  instrument_subscribers,   \* instrument -> sessions
  front,                    \* external: the API's session with the front
  connects,                 \* external: how often it has been connected
  requests,                 \* external: requests the front has not handled
  streams,                  \* external: what the front sends quotes of
  asked,                    \* external: what the API was told to subscribe in
                            \* this session and not told to unsubscribe since
  faulted                   \* instruments something went wrong for: see Settle

gateway == <<ctp_logged_in, logging_in, instrument_subscribers>>
external == <<front, connects, requests, streams, asked, faulted>>
vars == <<gateway, external>>

\* "connected": not logged in yet.  "refused": its login was.
Fronts == {"never", "connected", "logged_in", "refused", "down"}

Login == <<"login">>
Sub(i) == <<"subscribe", i>>
Unsub(i) == <<"unsubscribe", i>>
Request == {Login} \cup {Sub(i) : i \in Instruments} \cup {Unsub(i) : i \in Instruments}

Requested(r) == \E n \in DOMAIN requests : requests[n] = r
Pending(i) == Requested(Sub(i)) \/ Requested(Unsub(i))
Wanted(i) == instrument_subscribers[i] # {}
Connected == front \in {"connected", "logged_in", "refused"}

TypeOK ==
  /\ ctp_logged_in \in BOOLEAN
  /\ logging_in \in {"no", "request", "flag"}
  /\ instrument_subscribers \in [Instruments -> SUBSET Sessions]
  /\ front \in Fronts
  /\ connects \in Nat
  /\ requests \in Seq(Request)
  /\ streams \in SUBSET Instruments
  /\ asked \in SUBSET Instruments
  /\ faulted \in SUBSET Instruments

Init ==
  /\ ctp_logged_in = FALSE
  /\ logging_in = "no"
  /\ instrument_subscribers = [i \in Instruments |-> {}]
  /\ front = "never"
  /\ connects = 0
  /\ requests = <<>>
  /\ streams = {} /\ asked = {} /\ faulted = {}

-----------------------------------------------------------------------------
(* The session with the front *)

\* OnFrontConnected(), which goes on to ctp_login().
OnFrontConnected ==
  /\ front \in {"never", "down"}
  /\ logging_in = "no"
  /\ front' = "connected"
  /\ connects' = connects + 1
  /\ logging_in' = "request"
  /\ UNCHANGED <<ctp_logged_in, instrument_subscribers, requests, streams, asked, faulted>>

\* Variant: what ReqUserLogin() returns is not looked at.
CtpLoginUnchecked ==
  /\ logging_in = "request"
  /\ logging_in' = "flag"
  /\ \/ Connected /\ requests' = Append(requests, Login)
     \/ UNCHANGED requests
  /\ UNCHANGED <<ctp_logged_in, instrument_subscribers, front, connects, streams, asked, faulted>>

\* Variant: a request that cannot be made is to be repeated.
CtpLoginRepeating ==
  /\ logging_in = "request"
  /\ \/ Connected /\ requests' = Append(requests, Login) /\ logging_in' = "flag"
     \/ logging_in' = "repeat" /\ UNCHANGED requests
  /\ UNCHANGED <<ctp_logged_in, instrument_subscribers, front, connects, streams, asked, faulted>>

\* ctp_login(): the request, ...
CtpLogin ==
  /\ logging_in = "request"
  /\ \/ Connected /\ requests' = Append(requests, Login) /\ logging_in' = "flag"
     \/ logging_in' = "no" /\ UNCHANGED requests
  /\ UNCHANGED <<ctp_logged_in, instrument_subscribers, front, connects, streams, asked, faulted>>

\* ... and the flag, which tells that a login was requested.
CtpLoginSent ==
  /\ logging_in = "flag"
  /\ logging_in' = "no"
  /\ ctp_logged_in' = TRUE
  /\ UNCHANGED <<instrument_subscribers, external>>

\* The session is lost, with its requests and streams.  OnFrontDisconnected()
\* only logs: the flag stays.
OnFrontDisconnected ==
  /\ Connected
  /\ front' = "down"
  /\ requests' = <<>> /\ streams' = {} /\ asked' = {}
  /\ faulted' = {i \in Instruments : Wanted(i)}
  /\ UNCHANGED <<gateway, connects>>

-----------------------------------------------------------------------------
(* What the front does with the requests, in their order *)

Handle(r) ==
  /\ requests # <<>> /\ Head(requests) = r
  /\ requests' = Tail(requests)
  /\ UNCHANGED <<gateway, connects, asked>>

LoginHandled ==
  /\ Handle(Login)
  /\ front' \in {"logged_in", "refused"}
  /\ UNCHANGED <<streams, faulted>>

Subscribed(i) ==
  /\ Handle(Sub(i))
  /\ front = "logged_in"
  /\ streams' = streams \cup {i}
  /\ UNCHANGED <<front, faulted>>

Unsubscribed(i) ==
  /\ Handle(Unsub(i))
  /\ front = "logged_in"
  /\ streams' = streams \ {i}
  /\ UNCHANGED <<front, faulted>>

\* An error, as for everything that comes before the login.
Refused(i) ==
  /\ Handle(Sub(i)) \/ Handle(Unsub(i))
  /\ faulted' = faulted \cup {i}
  /\ UNCHANGED <<front, streams>>

-----------------------------------------------------------------------------
(* Sessions, on the io thread *)

\* SubscribeMarketData() or UnSubscribeMarketData(): r is sent, or it is not
\* and nothing but the log knows.
Call(r, i, nowAsked) ==
  \/ /\ Connected
     /\ requests' = Append(requests, r)
     /\ asked' = nowAsked
     /\ UNCHANGED faulted
  \/ /\ faulted' = faulted \cup {i}
     /\ UNCHANGED <<requests, asked>>

\* Before the flag is set nothing is asked of the API.
NoCall(i) ==
  /\ faulted' = faulted \cup {i}
  /\ UNCHANGED <<requests, asked>>

\* subscribe_instrument().  A sole subscriber that subscribes again has the
\* request made again.
SubscribeInstrument(s, i) ==
  /\ instrument_subscribers' = [instrument_subscribers EXCEPT ![i] = @ \cup {s}]
  /\ \/ /\ instrument_subscribers'[i] # {s}
        /\ UNCHANGED <<requests, asked, faulted>>
     \/ /\ instrument_subscribers'[i] = {s}
        /\ IF ctp_logged_in THEN Call(Sub(i), i, asked \cup {i}) ELSE NoCall(i)
  /\ UNCHANGED <<ctp_logged_in, logging_in, front, connects, streams>>

\* Variant: whoever leaves has the instrument unsubscribed.
UnsubscribeInstrumentForAll(s, i) ==
  /\ s \in instrument_subscribers[i]
  /\ instrument_subscribers' = [instrument_subscribers EXCEPT ![i] = @ \ {s}]
  /\ IF ctp_logged_in THEN Call(Unsub(i), i, asked \ {i}) ELSE NoCall(i)
  /\ UNCHANGED <<ctp_logged_in, logging_in, front, connects, streams>>

\* Variant: the entry of the instrument goes with the first who leaves.
UnsubscribeInstrumentEntry(s, i) ==
  /\ s \in instrument_subscribers[i]
  /\ instrument_subscribers' = [instrument_subscribers EXCEPT ![i] = {}]
  /\ IF ctp_logged_in THEN Call(Unsub(i), i, asked \ {i}) ELSE NoCall(i)
  /\ UNCHANGED <<ctp_logged_in, logging_in, front, connects, streams>>

\* unsubscribe_instrument().  It does nothing for who has not subscribed.
UnsubscribeInstrument(s, i) ==
  /\ s \in instrument_subscribers[i]
  /\ instrument_subscribers' = [instrument_subscribers EXCEPT ![i] = @ \ {s}]
  /\ \/ /\ instrument_subscribers'[i] # {}
        /\ UNCHANGED <<requests, asked, faulted>>
     \/ /\ instrument_subscribers'[i] = {}
        /\ IF ctp_logged_in THEN Call(Unsub(i), i, asked \ {i}) ELSE NoCall(i)
  /\ UNCHANGED <<ctp_logged_in, logging_in, front, connects, streams>>

-----------------------------------------------------------------------------

ApiStep == OnFrontConnected \/ CtpLogin \/ CtpLoginSent \/ OnFrontDisconnected

FrontStep(i) == Subscribed(i) \/ Unsubscribed(i) \/ Refused(i)

SessionStep(s, i) == SubscribeInstrument(s, i) \/ UnsubscribeInstrument(s, i)

Next ==
  \/ ApiStep
  \/ LoginHandled
  \/ \E i \in Instruments : FrontStep(i) \/ \E s \in Sessions : SessionStep(s, i)

Spec == Init /\ [][Next]_vars

-----------------------------------------------------------------------------
(* Properties *)

\* The flag is set when the login is sent, not when it is answered.  That is
\* enough the first time: no request is made in the first session that the
\* front could come to before the login.  (In a later session it is not: the
\* flag of the one before is still set.)
LoginGoesFirst ==
  connects <= 1 =>
    \A n \in DOMAIN requests : requests[n] # Login =>
      \/ front \in {"logged_in", "refused"}
      \/ \E m \in 1 .. n - 1 : requests[m] = Login

\* Where no call failed, nothing was refused, and the instrument was neither
\* subscribed before the login was sent nor wanted when a session was lost, the
\* front comes to stream exactly what somebody wants: subscribing and leaving
\* sessions, in any order, on whatever the front has not answered yet.
StreamsFollowWishes ==
  \A i \in Instruments :
    i \notin faulted /\ ~Pending(i) => (i \in streams <=> Wanted(i))

-----------------------------------------------------------------------------
(* What the sessions see of it *)

\* Served is what was asked for in this session and is not known to be refused.
ServiceOf(i) ==
  IF ~Wanted(i) THEN "none"
  ELSE IF i \in asked /\ (i \in streams \/ Requested(Sub(i))) THEN "serving"
  ELSE "failed"

Service == INSTANCE SubscriptionService WITH
  Connections <- {"ctp"},
  Capacity <- Cardinality(Instruments),
  wanted <- instrument_subscribers,
  service <- [i \in Instruments |-> ServiceOf(i)],
  carried <- [c \in {"ctp"} |-> asked]

\* One connection and no dispatcher are the same service: an instrument is asked
\* for with its first subscriber and dropped with the last, and what is refused
\* or lost fails, although the program keeps no record of any of it.
ServiceSpec == Service!Spec

================================================================================
