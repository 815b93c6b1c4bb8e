----------------------------- MODULE WebTransport -----------------------------
(***************************************************************************)
(* A WebTransport session: the QUIC client of webtransport.cpp, its queue  *)
(* of events, and the classes of webtransport_polyfill.cpp.                *)
(*                                                                         *)
(* processEvents() runs once in a frame: it reads the socket, advances the *)
(* handshake, retries blocked writes, notices the end of the connection,   *)
(* and gives the events that it collected to the script, whose callbacks   *)
(* may use the session again.  quiche and the server are external: they    *)
(* deliver what the server sends on a stream in order, and take as much of *)
(* what is written as they like.                                           *)
(*                                                                         *)
(* A stream carries a header (a signal and a session id), units of         *)
(* payload, counted from 1, and an end.                                    *)
(***************************************************************************)
EXTENDS Integers, Sequences, SequencesExt

CONSTANTS
    ClientBidi,   \* Bidirectional streams the script may create
    ClientUni,    \* Unidirectional streams the script may create
    ServerBidi,   \* Bidirectional streams the server may open
    ServerUni,    \* Unidirectional streams the server may open
    MaxUnits      \* Bound: units of payload in each direction of a stream

Client == ClientBidi \cup ClientUni
Server == ServerBidi \cup ServerUni
Stream == Client \cup Server
Readable == Stream \ ClientUni
Writable == Stream \ ServerUni

ASSUME StreamAssumption ==
    /\ Client \cap Server = {} /\ ClientBidi \cap ClientUni = {}
    /\ ServerBidi \cap ServerUni = {}
    /\ IsFiniteSet(Stream)      \* the id of a stream has 62 bits
ASSUME UnitsAssumption == MaxUnits \in Nat

VARIABLES
    pc,           \* "js": the rest of the frame, "stopped", or processEvents():
                  \*    "pump", "handshake", "writes", "closure", "dispatch"
    conn,         \* quiche: "open", "closing" (or draining), "closed"
    established,  \* the QUIC handshake is complete
    h3,           \* "none", "failed", "open" or "freed"
    answer,       \* what has arrived on the CONNECT stream: "none", "ok", "refused",
                  \*    or "ended": after "ok", the end of the stream, or a reset
    wtReady, failed,
    owned,        \* the session is in g_sessions
    teardown,     \* it is in toTeardown
    events,       \* g_events
    sent,         \* sent[s]: units of s that have arrived, with those of the header
    ended,        \* the streams whose end has arrived
    arrived,      \* arrived[s]: what of them waits in quiche
    early,        \* streams on which something arrived before wtReady
    lost,         \* those of them that the HTTP/3 layer has drained
    streams,      \* Session::streams, for each stream
    shut,         \* the streams that the script has aborted
    wire,         \* wire[s]: what quiche has taken of stream s
    ready, closed,  \* the promises: "pending", "resolved", "rejected"
    lastError,    \* there was an error
    listed,       \* the session is in the map of the polyfill
    got,          \* got[s]: the payload that the readable of s was given
    readable,     \* readable[s]: "none", "open", "closed", "errored"
    writer,       \* writer[s]: likewise
    written,      \* written[s]: units that write() has accepted
    late          \* late[s]: of these, after close()

connVars   == <<conn, established, h3, answer, wtReady, failed>>
ownVars    == <<owned, teardown>>
serverVars == <<sent, ended, arrived, early, lost>>
streamVars == <<streams, shut, wire>>
promiseVars == <<ready, closed, lastError, listed>>
readVars   == <<got, readable>>
writeVars  == <<writer, written, late>>
vars == <<pc, connVars, ownVars, events, serverVars, streamVars, promiseVars, readVars, writeVars>>

Header  == 2         \* varints: the signal and the session id
Nothing == [units |-> <<>>, end |-> "none"]
Up(n)   == [i \in 1 .. n |-> i]

(* StreamState.  header: units of it that were read or written; out: what  *)
(* waits to be sent, with units of the header as 0.                        *)
NoStream == [tracked |-> FALSE]
NewStream(outgoing) ==
    [tracked |-> TRUE, outgoing |-> outgoing, announced |-> FALSE,
     header  |-> IF outgoing THEN Header ELSE 0,
     out     |-> IF outgoing THEN [i \in 1 .. Header |-> 0] ELSE <<>>,
     outFin  |-> FALSE, finSent |-> FALSE, sendError |-> FALSE]

Init ==
    /\ pc = "js"
    /\ conn = "open" /\ established = FALSE /\ h3 = "none" /\ answer = "none"
    /\ wtReady = FALSE /\ failed = FALSE
    /\ owned = TRUE /\ teardown = FALSE /\ events = <<>>
    /\ sent = [s \in Readable |-> 0] /\ ended = {}
    /\ arrived = [s \in Readable |-> Nothing] /\ early = {} /\ lost = {}
    /\ streams = [s \in Stream |-> NoStream] /\ shut = {}
    /\ wire = [s \in Writable |-> <<>>]
    /\ ready = "pending" /\ closed = "pending" /\ lastError = FALSE /\ listed = TRUE
    /\ got = [s \in Readable |-> <<>>] /\ readable = [s \in Readable |-> "none"]
    /\ writer = [s \in Writable |-> "none"]
    /\ written = [s \in Writable |-> 0] /\ late = [s \in Writable |-> 0]

-----------------------------------------------------------------------------
(* Sending.                                                                *)

(* Mutant: the end is taken for sent with the first units that are.        *)
PumpResultsEndEarly(s, st) ==
    IF st.sendError \/ st.finSent \/ (st.out = <<>> /\ ~st.outFin)
    THEN {[state |-> st, units |-> <<>>]}
    ELSE {[state |-> [st EXCEPT !.sendError = TRUE], units |-> <<>>]} \cup
         (IF s \in shut THEN {} ELSE {[state |-> st, units |-> <<>>]} \cup
            {[state |-> [st EXCEPT !.out = SubSeq(@, n + 1, Len(@)), !.finSent = st.outFin],
              units |-> SubSeq(st.out, 1, n)] : n \in 0 .. Len(st.out)})

(* pumpStream: quiche takes the first n units and, with the last one, the  *)
(* end of the stream; or nothing for now; or it refuses, as it does after  *)
(* an abort.                                                               *)
PumpResults(s, st) ==
    IF st.sendError \/ st.finSent \/ (st.out = <<>> /\ ~st.outFin)
    THEN {[state |-> st, units |-> <<>>]}
    ELSE {[state |-> [st EXCEPT !.sendError = TRUE], units |-> <<>>]} \cup
         (IF s \in shut THEN {} ELSE {[state |-> st, units |-> <<>>]} \cup
            {[state |-> [st EXCEPT !.out = SubSeq(@, n + 1, Len(@)),
                                   !.finSent = st.outFin /\ n = Len(st.out)],
              units |-> SubSeq(st.out, 1, n)] : n \in 0 .. Len(st.out)})

PumpStream(s, st) ==
    \E r \in PumpResults(s, st) :
        /\ streams' = [streams EXCEPT ![s] = r.state]
        /\ wire' = [wire EXCEPT ![s] = @ \o r.units]

(* Callbacks run in the rest of the frame and while events are dispatched. *)
InScript == pc \in {"js", "dispatch"}
CanWrite(s) ==
    owned /\ streams[s].tracked /\ streams[s].outgoing /\ ~streams[s].sendError

(* createUnidirectionalStream, createBidirectionalStream: the header is    *)
(* the first to be sent.                                                   *)
CreateStream(s) ==
    /\ InScript /\ s \in Client /\ writer[s] = "none"
    /\ owned /\ wtReady
    /\ PumpStream(s, NewStream(TRUE))
    /\ writer' = [writer EXCEPT ![s] = "open"]
    /\ readable' = IF s \in ClientBidi THEN [readable EXCEPT ![s] = "open"] ELSE readable
    /\ UNCHANGED <<pc, connVars, ownVars, events, serverVars, shut, promiseVars, got, written, late>>

(* write() of a writer, even of one that was closed; a failure ends an     *)
(* open one.                                                               *)
Write(s) ==
    /\ InScript /\ writer[s] \in {"open", "closed"} /\ written[s] < MaxUnits
    /\ IF CanWrite(s)
       THEN /\ written' = [written EXCEPT ![s] = @ + 1]
            /\ late' = IF writer[s] = "closed" THEN [late EXCEPT ![s] = @ + 1] ELSE late
            /\ PumpStream(s, [streams[s] EXCEPT !.out = Append(@, written[s] + 1)])
            /\ UNCHANGED writer
       ELSE /\ writer' = [writer EXCEPT ![s] = IF @ = "open" THEN "errored" ELSE @]
            /\ UNCHANGED <<streams, wire, written, late>>
    /\ UNCHANGED <<pc, connVars, ownVars, events, serverVars, shut, promiseVars, readVars>>

(* close() passes to the sink in every state.                              *)
CloseWriter(s) ==
    /\ InScript /\ writer[s] # "none"
    /\ writer' = [writer EXCEPT ![s] = IF @ = "open" THEN "closed" ELSE @]
    /\ IF CanWrite(s) THEN PumpStream(s, [streams[s] EXCEPT !.outFin = TRUE])
       ELSE UNCHANGED <<streams, wire>>
    /\ UNCHANGED <<pc, connVars, ownVars, events, serverVars, shut, promiseVars, readVars, written, late>>

(* abort(), and streamShutdown: quiche ends both directions.               *)
AbortWriter(s) ==
    /\ InScript /\ writer[s] # "none"
    /\ writer' = [writer EXCEPT ![s] = "errored"]
    /\ shut' = IF owned THEN shut \cup {s} ELSE shut
    /\ arrived' = IF owned /\ s \in Readable THEN [arrived EXCEPT ![s] = Nothing] ELSE arrived
    /\ UNCHANGED <<pc, connVars, ownVars, events, sent, ended, early, lost, streams, wire,
                   promiseVars, readVars, written, late>>

(* close(), and closeSession.                                              *)
CloseSession ==
    /\ InScript /\ owned /\ conn = "open"
    /\ conn' = "closing"
    /\ UNCHANGED <<pc, established, h3, answer, wtReady, failed, ownVars, events,
                   serverVars, streamVars, promiseVars, readVars, writeVars>>

-----------------------------------------------------------------------------
(* Receiving.                                                              *)

Event(type, s, units, fin) == [type |-> type, stream |-> s, units |-> units, fin |-> fin]

(* Mutant: what follows the header in the same read is dropped with it.    *)
ReadStreamDropsRest(s, waiting) ==
    LET st      == IF streams[s].tracked THEN streams[s] ELSE NewStream(FALSE)
        n       == Len(waiting.units)
        missing == IF s \in Client THEN 0 ELSE Header - st.header
        payload == IF missing > 0 THEN <<>> ELSE waiting.units
        fin     == waiting.end = "fin"
        opened  == IF s \in Server /\ ~st.announced
                   THEN <<Event("incoming", s, <<>>, FALSE)>> ELSE <<>>
        data    == IF payload # <<>> \/ fin
                   THEN <<Event("streamData", s, payload, fin)>> ELSE <<>>
    IN  IF waiting.end = "reset"
        THEN [state |-> NoStream, events |-> <<Event("streamReset", s, <<>>, FALSE)>>]
        ELSE IF n < missing
        THEN [state |-> [st EXCEPT !.header = @ + n], events |-> <<>>]
        ELSE [state |-> IF fin /\ s \in Server THEN NoStream
                        ELSE [st EXCEPT !.header = Header, !.announced = s \in Server],
              events |-> opened \o data]

(* readStream, with what waits for it in quiche: the new StreamState, and  *)
(* the events.  The header that is missing comes first, the rest is        *)
(* payload; a header that is incomplete waits; a reset drops all.          *)
ReadStream(s, waiting) ==
    LET st      == IF streams[s].tracked THEN streams[s] ELSE NewStream(FALSE)
        n       == Len(waiting.units)
        missing == IF s \in Client THEN 0 ELSE Header - st.header
        payload == SubSeq(waiting.units, missing + 1, n)
        fin     == waiting.end = "fin"
        opened  == IF s \in Server /\ ~st.announced
                   THEN <<Event("incoming", s, <<>>, FALSE)>> ELSE <<>>
        data    == IF payload # <<>> \/ fin
                   THEN <<Event("streamData", s, payload, fin)>> ELSE <<>>
    IN  IF waiting.end = "reset"
        THEN [state |-> NoStream, events |-> <<Event("streamReset", s, <<>>, FALSE)>>]
        ELSE IF n < missing
        THEN [state |-> [st EXCEPT !.header = @ + n], events |-> <<>>]
        ELSE [state |-> IF fin /\ s \in Server THEN NoStream
                        ELSE [st EXCEPT !.header = Header, !.announced = s \in Server],
              events |-> opened \o data]

(* readStreams: all that are readable, in any order.                       *)
ReadStreams(waiting) ==
    LET Ids == {s \in Readable : waiting[s] # Nothing}
    IN  \E order \in SetToSeqs(Ids) :
            /\ events' = events \o FlattenSeq(
                   [i \in DOMAIN order |-> ReadStream(order[i], waiting[order[i]]).events])
            /\ streams' = [s \in Stream |->
                   IF s \in Ids THEN ReadStream(s, waiting[s]).state ELSE streams[s]]
            /\ arrived' = [s \in Readable |-> Nothing]

(* pumpSocket, after a packet: streams are read once the session is up.    *)
AfterPacket(waiting) ==
    IF wtReady THEN ReadStreams(waiting) ELSE arrived' = waiting /\ UNCHANGED <<events, streams>>

(* The server may have sent on its streams before its answer arrives.      *)
MaySend(s) ==
    /\ h3 \in {"open", "freed"} /\ ~failed /\ answer # "refused"
    /\ s \notin ended \cup shut
    /\ s \in Client => Len(wire[s]) >= Header

Unit(s, i) == IF s \in Client THEN i ELSE IF i <= Header THEN 0 ELSE i - Header

ReceiveData(s, n, end) ==
    LET total == sent[s] + n
        units == [i \in 1 .. n |-> Unit(s, sent[s] + i)]
    IN  /\ pc = "pump" /\ conn = "open"
        /\ MaySend(s) /\ (n > 0 \/ end # "none")
        /\ total <= MaxUnits + (IF s \in Server THEN Header ELSE 0)
        /\ end = "fin" /\ s \in Server => total >= Header
        /\ sent' = [sent EXCEPT ![s] = total]
        /\ ended' = IF end = "none" THEN ended ELSE ended \cup {s}
        /\ early' = IF wtReady THEN early ELSE early \cup {s}
        /\ AfterPacket(IF s \in lost THEN arrived
                       ELSE [arrived EXCEPT ![s] = [units |-> @.units \o units, end |-> end]])
        /\ UNCHANGED <<pc, connVars, ownVars, lost, shut, wire, promiseVars, readVars, writeVars>>

(* A packet without data for a WebTransport stream: the QUIC handshake,    *)
(* the answer to CONNECT, the end of the session by the server, that of    *)
(* the connection, or nothing that matters.  readStream drains the CONNECT *)
(* stream, and nothing else comes of its end.                              *)
ReceiveControl ==
    /\ pc = "pump" /\ conn # "closed"
    /\ \/ /\ conn = "open" /\ established' = TRUE
          /\ UNCHANGED <<conn, answer>>
       \/ /\ conn = "open" /\ h3 = "open" /\ ~failed /\ answer = "none"
          /\ answer' \in {"ok"} \cup IF \A s \in Readable : sent[s] = 0 THEN {"refused"} ELSE {}
          /\ UNCHANGED <<conn, established>>
       \/ /\ conn = "open" /\ answer = "ok" /\ answer' = "ended"
          /\ UNCHANGED <<conn, established>>
       \/ /\ conn' = "closing"
          /\ UNCHANGED <<established, answer>>
       \/ UNCHANGED <<conn, established, answer>>
    /\ AfterPacket(arrived)
    /\ UNCHANGED <<pc, h3, wtReady, failed, ownVars, sent, ended, early, lost, shut, wire,
                   promiseVars, readVars, writeVars>>

-----------------------------------------------------------------------------
(* processEvents.                                                          *)

BeginProcess ==
    /\ pc = "js"
    /\ pc' = IF owned THEN "pump" ELSE "dispatch"
    /\ UNCHANGED <<connVars, ownVars, events, serverVars, streamVars, promiseVars, readVars, writeVars>>

(* The socket is empty.  A timer of quiche may be due, one that ends the   *)
(* connection: for lack of an answer, or after the close.                  *)
EndPump(timeout) ==
    /\ pc = "pump"
    /\ pc' = "handshake"
    /\ conn' = IF timeout THEN "closed" ELSE conn
    /\ UNCHANGED <<established, h3, answer, wtReady, failed, ownVars, events, serverVars,
                   streamVars, promiseVars, readVars, writeVars>>

Fails == failed' = TRUE /\ events' = Append(events, Event("error", "none", <<>>, FALSE))

(* While it is attached, the HTTP/3 layer takes server streams for its own.*)
Http3Drains ==
    \E D \in SUBSET {s \in Server : sent[s] > 0} :
        /\ lost' = lost \cup D
        /\ arrived' = [s \in Readable |-> IF s \in D THEN Nothing ELSE arrived[s]]

(* h3 and CONNECT, then pollHandshake until the answer is there, when h3   *)
(* is detached.                                                            *)
Handshake ==
    \/ /\ established /\ h3 = "none"
       /\ \/ h3' = "open" /\ UNCHANGED <<failed, events>>
          \/ h3' \in {"open", "failed"} /\ Fails
       /\ UNCHANGED <<wtReady, arrived, lost>>
    \/ /\ h3 = "open" /\ ~failed /\ Http3Drains
       /\ \/ answer = "none" /\ UNCHANGED <<h3, wtReady, failed, events>>
          \/ /\ answer \in {"ok", "ended"} /\ wtReady' = TRUE /\ h3' = "freed"
             /\ events' = Append(events, Event("ready", "none", <<>>, FALSE))
             /\ UNCHANGED failed
          \/ answer = "refused" /\ Fails /\ UNCHANGED <<h3, wtReady>>
    \/ /\ ~(established /\ h3 = "none") /\ ~(h3 = "open" /\ ~failed)
       /\ UNCHANGED <<h3, wtReady, failed, events, arrived, lost>>

PollHandshake ==
    /\ pc = "handshake" /\ pc' = "writes"
    /\ Handshake
    /\ UNCHANGED <<conn, established, answer, ownVars, sent, ended, early, streamVars,
                   promiseVars, readVars, writeVars>>

(* pumpStreamSends.                                                        *)
Outgoing == {s \in Stream : streams[s].tracked /\ streams[s].outgoing}

RetryWrites ==
    /\ pc = "writes" /\ pc' = "closure"
    /\ IF wtReady
       THEN \E r \in [Outgoing -> UNION {PumpResults(s, streams[s]) : s \in Outgoing}] :
               /\ \A s \in Outgoing : r[s] \in PumpResults(s, streams[s])
               /\ streams' = [s \in Stream |->
                      IF s \in Outgoing THEN r[s].state ELSE streams[s]]
               /\ wire' = [s \in Writable |->
                      IF s \in Outgoing THEN wire[s] \o r[s].units ELSE wire[s]]
       ELSE UNCHANGED <<streams, wire>>
    /\ UNCHANGED <<connVars, ownVars, events, serverVars, shut, promiseVars, readVars, writeVars>>

(* Mutant: a failed handshake ends the session without a word.             *)
DetectClosureSilently ==
    /\ pc = "closure" /\ pc' = "dispatch"
    /\ teardown' = (conn = "closed" \/ failed)
    /\ events' = IF conn = "closed" THEN Append(events, Event("closed", "none", <<>>, FALSE)) ELSE events
    /\ conn' = IF teardown' /\ conn = "open" THEN "closing" ELSE conn
    /\ UNCHANGED <<established, h3, answer, wtReady, failed, owned, serverVars, streamVars,
                   promiseVars, readVars, writeVars>>

(* Mutant: the end of the connection is noticed only in sessions that are  *)
(* up.                                                                     *)
DetectClosureWhenReady ==
    /\ pc = "closure" /\ pc' = "dispatch"
    /\ teardown' = ((conn = "closed" /\ wtReady) \/ failed)
    /\ events' = IF teardown' THEN Append(events, Event("closed", "none", <<>>, FALSE)) ELSE events
    /\ conn' = IF teardown' /\ conn = "open" THEN "closing" ELSE conn
    /\ UNCHANGED <<established, h3, answer, wtReady, failed, owned, serverVars, streamVars,
                   promiseVars, readVars, writeVars>>

(* The connection is closed, or the handshake has failed: one last event.  *)
DetectClosure ==
    /\ pc = "closure" /\ pc' = "dispatch"
    /\ teardown' = (conn = "closed" \/ failed)
    /\ events' = IF teardown' THEN Append(events, Event("closed", "none", <<>>, FALSE)) ELSE events
    /\ conn' = IF teardown' /\ conn = "open" THEN "closing" ELSE conn
    /\ UNCHANGED <<established, h3, answer, wtReady, failed, owned, serverVars, streamVars,
                   promiseVars, readVars, writeVars>>

(* __wtDispatch.                                                           *)
Settle(e) ==
    CASE e.type = "ready"  -> ready' = "resolved" /\ UNCHANGED <<closed, lastError, listed>>
      [] e.type = "error"  -> /\ lastError' = TRUE
                              /\ ready' = IF ready = "pending" THEN "rejected" ELSE ready
                              /\ UNCHANGED <<closed, listed>>
      [] e.type = "closed" -> /\ closed' = IF lastError /\ ready # "resolved" THEN "rejected" ELSE "resolved"
                              /\ listed' = FALSE
                              /\ UNCHANGED <<ready, lastError>>
      [] OTHER -> UNCHANGED promiseVars

Deliver(e) ==
    LET s == e.stream
    IN  CASE e.type = "closed" ->
               /\ readable' = [r \in Readable |-> IF readable[r] = "open" THEN "closed" ELSE readable[r]]
               /\ UNCHANGED <<got, writer>>
          [] e.type = "incoming" ->
               /\ readable' = [readable EXCEPT ![s] = "open"]
               /\ writer' = IF s \in ServerBidi THEN [writer EXCEPT ![s] = "open"] ELSE writer
               /\ UNCHANGED got
          [] e.type = "streamData" ->
               /\ got' = IF readable[s] = "open" THEN [got EXCEPT ![s] = @ \o e.units] ELSE got
               /\ readable' = IF e.fin /\ readable[s] = "open"
                              THEN [readable EXCEPT ![s] = "closed"] ELSE readable
               /\ UNCHANGED writer
          [] e.type = "streamReset" ->
               /\ readable' = IF readable[s] = "open"
                              THEN [readable EXCEPT ![s] = "errored"] ELSE readable
               /\ UNCHANGED <<got, writer>>
          [] OTHER -> UNCHANGED <<readVars, writer>>

DispatchEvent ==
    /\ pc = "dispatch" /\ events # <<>>
    /\ events' = Tail(events)
    /\ IF listed THEN Settle(Head(events)) /\ Deliver(Head(events))
       ELSE UNCHANGED <<promiseVars, readVars, writer>>
    /\ UNCHANGED <<pc, connVars, ownVars, serverVars, streamVars, written, late>>

EndProcess ==
    /\ pc = "dispatch" /\ events = <<>>
    /\ pc' = "js"
    /\ owned' = (owned /\ ~teardown)
    /\ teardown' = FALSE
    /\ UNCHANGED <<connVars, events, serverVars, streamVars, promiseVars, readVars, writeVars>>

(* shutdown().                                                             *)
Shutdown ==
    /\ pc = "js"
    /\ pc' = "stopped" /\ owned' = FALSE
    /\ conn' = IF owned /\ conn = "open" THEN "closing" ELSE conn
    /\ UNCHANGED <<established, h3, answer, wtReady, failed, teardown, events, serverVars,
                   streamVars, promiseVars, readVars, writeVars>>

-----------------------------------------------------------------------------
Process ==
    \/ BeginProcess \/ EndPump(FALSE) \/ (conn # "closed" /\ EndPump(TRUE))
    \/ PollHandshake \/ RetryWrites \/ DetectClosure \/ DispatchEvent \/ EndProcess

Next ==
    \/ Process
    \/ \E s \in Readable, n \in 0 .. MaxUnits + Header, end \in {"none", "fin", "reset"} :
          ReceiveData(s, n, end)
    \/ ReceiveControl
    \/ \E s \in Writable : CreateStream(s) \/ Write(s) \/ CloseWriter(s) \/ AbortWriter(s)
    \/ CloseSession
    \/ Shutdown

Spec == Init /\ [][Next]_vars

(* The main loop calls processEvents in every frame, packets and calls of  *)
(* the script come to an end, and the timer that follows a close is due in *)
(* the end.                                                                *)
FairSpec == Spec /\ WF_vars(Process) /\ SF_vars(conn = "closing" /\ EndPump(TRUE))

-----------------------------------------------------------------------------
(* The types of the variables.                                             *)
StreamState ==
    {NoStream} \cup
    [tracked : {TRUE}, outgoing : BOOLEAN, announced : BOOLEAN, header : 0 .. Header,
     out : Seq(Nat), outFin : BOOLEAN, finSent : BOOLEAN, sendError : BOOLEAN]

EventType == {"ready", "error", "closed", "incoming", "streamData", "streamReset"}

TypeOK ==
    /\ pc \in {"js", "pump", "handshake", "writes", "closure", "dispatch", "stopped"}
    /\ conn \in {"open", "closing", "closed"} /\ h3 \in {"none", "failed", "open", "freed"}
    /\ answer \in {"none", "ok", "refused", "ended"}
    /\ established \in BOOLEAN /\ wtReady \in BOOLEAN /\ failed \in BOOLEAN
    /\ owned \in BOOLEAN /\ teardown \in BOOLEAN
    /\ ready \in {"pending", "resolved", "rejected"} /\ closed \in {"pending", "resolved", "rejected"}
    /\ lastError \in BOOLEAN /\ listed \in BOOLEAN
    /\ events \in Seq([type : EventType, stream : Stream \cup {"none"}, units : Seq(Nat), fin : BOOLEAN])
    /\ ended \subseteq Readable /\ early \subseteq Readable /\ lost \subseteq Server
    /\ shut \subseteq Writable
    /\ sent \in [Readable -> 0 .. MaxUnits + Header]
    /\ arrived \in [Readable -> [units : Seq(Nat), end : {"none", "fin", "reset"}]]
    /\ streams \in [Stream -> StreamState]
    /\ wire \in [Writable -> Seq(Nat)]
    /\ got \in [Readable -> Seq(Nat)]
    /\ readable \in [Readable -> {"none", "open", "closed", "errored"}]
    /\ writer \in [Writable -> {"none", "open", "closed", "errored"}]
    /\ written \in [Writable -> 0 .. MaxUnits] /\ late \in [Writable -> Nat]

(* The payload on a readable is what the server sent, from the first unit, *)
(* in order and once; a readable that ends while the session goes on has   *)
(* been given all of it, and after processEvents nothing is held back that *)
(* has arrived since the session is up.                                    *)
ReadInOrder ==
    /\ \A s \in Readable :
          /\ got[s] = Up(Len(got[s]))
          /\ readable[s] = "closed" /\ listed =>
                s \in ended /\ Len(got[s]) = sent[s] - (IF s \in Server THEN Header ELSE 0)
    /\ pc = "js" /\ listed =>
          \A s \in Readable \ (early \cup shut) :
              /\ arrived[s] = Nothing
              /\ s \notin ended /\ sent[s] >= Header /\ s \in Server
                    => Len(got[s]) = sent[s] - Header
              /\ s \notin ended /\ s \in Client => Len(got[s]) = sent[s]

(* quiche is given the header, then what write() accepted, in order and    *)
(* once, and the end of the stream after all that was written before       *)
(* close(), however it takes it.                                           *)
WrittenInOrder ==
    \A s \in Writable :
        streams[s].tracked /\ streams[s].outgoing =>
            /\ wire[s] \o streams[s].out = [i \in 1 .. Header |-> 0] \o Up(written[s])
            /\ streams[s].finSent => Len(wire[s]) >= Header + written[s] - late[s]

(* The two lists of sessions agree between frames: a headless program is   *)
(* kept alive by a session the script can use, and by no other.            *)
SessionsAgree == pc = "js" => owned = listed

(* A session whose connection ends, by close(), by the server, for lack of *)
(* packets or of an answer, settles `closed`.                              *)
ClosedIsSettled == conn # "open" ~> closed # "pending" \/ pc = "stopped"

(* "A FIN here means the server ended the session" (readStream, of the     *)
(* CONNECT stream): the end settles `closed` (not so, see README).         *)
ServerEndIsSeen == answer = "ended" ~> closed # "pending" \/ pc = "stopped"

(* A session that ends before it is up rejects `ready` (not so, see        *)
(* README).                                                                *)
ReadyIsSettled == closed # "pending" => ready # "pending"

(* "a WebTransport stream's readable/writable support the full surface     *)
(* ... getWriter().write()" (webtransport.mdx): the writer of a stream     *)
(* that is up does not fail.                                               *)
IncomingIsWritable ==
    \A s \in ServerBidi \ ended : writer[s] = "errored" => s \in shut \/ conn # "open"

(* What write() has accepted is not dropped while the session is up and    *)
(* nobody aborted the stream (not so, see README).                         *)
AcceptedIsKept ==
    \A s \in Writable \ shut :
        written[s] > 0 /\ conn = "open" /\ owned => streams[s].tracked /\ late[s] = 0
=============================================================================
