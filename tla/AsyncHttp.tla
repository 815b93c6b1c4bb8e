------------------------------ MODULE AsyncHttp -----------------------------
(***************************************************************************)
(* The asynchronous HTTP client, src/src/http/async_http_client.cpp, with  *)
(* the JavaScript callbacks runtime.cpp gives it: curl transfers driven by *)
(* libuv, the queue of completed requests that the main loop empties once  *)
(* a frame, and the shutdown that cancels what is in flight.               *)
(*                                                                         *)
(* curl is external: a transfer it works on has a time limit and finishes  *)
(* in the end; it may also finish inside a call of request(), the one that *)
(* starts it or another.  A finished transfer is a message, which the      *)
(* client reads when the next socket or timeout event makes it look.       *)
(***************************************************************************)
EXTENDS Integers, Sequences, SequencesExt

CONSTANTS
    Request,   \* the requests the scripts make, each once
    NoRequest  \* no callback is on the stack

ASSUME NoRequestAssumption == NoRequest \notin Request

VARIABLES
    pc,              \* where the main thread is, see Phase
    requests,        \* requests: the transfers the client waits for
    messages,        \* curl's messages of finished transfers, not yet read
    socket,          \* socket[r]: the SocketContext of r's transfer, one at a time
    completedQueue,  \* completedQueue
    current,         \* the request whose callback is on the stack
    refusals,        \* the calls of request() on the stack that have answered
                     \* on the spot, the innermost first
    protects,        \* protect() minus unprotect() calls on r's callback
    made,            \* history: requests made so far
    answered,        \* history: requests whose callback was called
    within,          \* history: transfers that ended inside a call of request()
    late,            \* history: transfers the last callbacks of shutdown started
    dangling         \* history: SocketContexts freed before their handle closed

vars == <<pc, requests, messages, socket, completedQueue, current, refusals, protects,
          made, answered, within, late, dangling>>
curlVars == <<requests, messages, socket, within, late, dangling>>
callVars == <<completedQueue, current, refusals, protects, made, answered>>

(* js        a script, timer or frame callback runs                        *)
(* loop      uv_run                                                        *)
(* process   processCompletedRequests      called    in one of its callbacks*)
(* cancel    shutdown calls what is queued last      in one of its callbacks*)
(* closed    shutdown has returned         down      the loop is closed    *)
Phase == {"js", "loop", "process", "called", "cancel", "last", "closed", "down"}
InJS  == pc \in {"js", "called", "last"}

InFlight == requests \ ToSet(messages)

(* Not there; in the table sockets and polled; with uv_close under way.    *)
SocketState == {"none", "open", "closing"}

-----------------------------------------------------------------------------
Init ==
    /\ pc = "js"
    /\ requests = {} /\ messages = <<>>
    /\ socket = [r \in Request |-> "none"]
    /\ completedQueue = <<>> /\ current = NoRequest /\ refusals = <<>>
    /\ protects = [r \in Request |-> 0]
    /\ made = {} /\ answered = {} /\ within = {} /\ late = {} /\ dangling = {}

(* socketCallback: in a call, curl has the sockets of transfers watched or *)
(* forgotten (CURL_POLL_REMOVE, uv_close), those of the transfers in gone  *)
(* at the latest with them.                                                *)
SocketCalls(gone) ==
    /\ socket' \in [Request -> SocketState]
    /\ \A r \in Request :
        \/ socket'[r] = socket[r]
        \/ /\ r \in requests \cup requests'
           /\ socket'[r] = "open" => socket[r] = "none"
           /\ socket'[r] # "none" /\ socket[r] # "closing"
    /\ \A r \in gone : socket'[r] # "open"

(* __httpRequestAsync and request(): the transfer is added, and curl goes  *)
(* on with it and with every other whose time has come.  Those in done are *)
(* over when it returns, and nothing has read their messages.              *)
StartRequest(r, done) ==
    /\ InJS
    /\ r \notin made
    /\ ToSet(done) \subseteq InFlight \cup {r}
    /\ made' = made \cup {r}
    /\ requests' = requests \cup {r}
    /\ messages' = messages \o done
    /\ within' = within \cup ToSet(done)
    /\ late' = IF pc = "last" THEN late \cup {r} ELSE late
    /\ protects' = [protects EXCEPT ![r] = @ + 1]
    /\ SocketCalls({})
    /\ UNCHANGED <<pc, completedQueue, current, refusals, answered, dangling>>

(* request() without an easy handle (or without libuv, always) calls the   *)
(* JavaScript callback, protected by then, before it returns; the callback *)
(* may make requests ...                                                   *)
RefuseRequest(r) ==
    /\ InJS
    /\ r \notin made
    /\ made' = made \cup {r}
    /\ answered' = answered \cup {r}
    /\ protects' = [protects EXCEPT ![r] = @ + 1]
    /\ refusals' = <<r>> \o refusals
    /\ UNCHANGED <<pc, curlVars, completedQueue, current>>

(* ... and is released inside the call of __httpRequestAsync it was an     *)
(* argument of (what that does to the engines' handles: V8Handles,         *)
(* QuickJsHandles).                                                        *)
RefusalReturns ==
    /\ refusals # <<>>
    /\ protects' = [protects EXCEPT ![Head(refusals)] = @ - 1]
    /\ refusals' = Tail(refusals)
    /\ UNCHANGED <<pc, curlVars, completedQueue, current, made, answered>>

-----------------------------------------------------------------------------
EnterLoop ==
    /\ pc = "js"
    /\ refusals = <<>>
    /\ pc' = "loop"
    /\ UNCHANGED <<curlVars, callVars>>

(* The loop finishes a closing handle and calls its close callback.        *)
CloseSocket(r) ==
    /\ pc \in {"loop", "closed"}
    /\ socket[r] = "closing"
    /\ socket' = [socket EXCEPT ![r] = "none"]
    /\ UNCHANGED <<pc, requests, messages, within, late, dangling, callVars>>

(* Mutant: one message is read per event.                                  *)
EventReadsOne(done) ==
    /\ pc = "loop"
    /\ InFlight # {}
    /\ ToSet(done) \subseteq InFlight
    /\ messages \o done # <<>>
    /\ completedQueue' = Append(completedQueue, Head(messages \o done))
    /\ messages' = Tail(messages \o done)
    /\ requests' = requests \ {Head(messages \o done)}
    /\ SocketCalls({Head(messages \o done)})
    /\ UNCHANGED <<pc, current, refusals, protects, made, answered, within, late, dangling>>

(* onPollCallback, onTimeoutCallback: curl goes on and may finish the      *)
(* transfers in done; checkCompletedTransfers reads all messages there are,*)
(* queues the callbacks and removes the transfers with their sockets.      *)
(* Events come from sockets and time limits of transfers in flight.        *)
CurlEvent(done) ==
    /\ pc = "loop"
    /\ InFlight # {}
    /\ ToSet(done) \subseteq InFlight
    /\ completedQueue' = completedQueue \o messages \o done
    /\ requests' = requests \ ToSet(messages \o done)
    /\ messages' = <<>>
    /\ SocketCalls(ToSet(messages \o done))
    /\ UNCHANGED <<pc, current, refusals, protects, made, answered, within, late, dangling>>

LeaveLoop ==
    /\ pc = "loop"
    /\ pc' = "process"
    /\ UNCHANGED <<curlVars, callVars>>

-----------------------------------------------------------------------------
(* processCompletedRequests, and the same loop in shutdown: pop a request, *)
(* call its JavaScript callback (shutdown pops it after the call, which    *)
(* nothing can see in between) ...                                         *)
CallNext ==
    /\ pc \in {"process", "cancel"}
    /\ completedQueue # <<>>
    /\ pc' = IF pc = "process" THEN "called" ELSE "last"
    /\ current' = Head(completedQueue)
    /\ completedQueue' = Tail(completedQueue)
    /\ answered' = answered \cup {current'}
    /\ UNCHANGED <<curlVars, refusals, protects, made>>

(* Mutant: requests queued meanwhile wait for the next frame, and are lost.*)
CallbackDropsQueue ==
    /\ pc \in {"called", "last"} /\ refusals = <<>>
    /\ pc' = IF pc = "called" THEN "process" ELSE "cancel"
    /\ protects' = [protects EXCEPT ![current] = @ - 1]
    /\ current' = NoRequest
    /\ completedQueue' = <<>>
    /\ UNCHANGED <<curlVars, refusals, made, answered>>

(* ... and release it.                                                     *)
CallbackReturns ==
    /\ pc \in {"called", "last"} /\ refusals = <<>>
    /\ pc' = IF pc = "called" THEN "process" ELSE "cancel"
    /\ protects' = [protects EXCEPT ![current] = @ - 1]
    /\ current' = NoRequest
    /\ UNCHANGED <<curlVars, completedQueue, refusals, made, answered>>

ProcessDone ==
    /\ pc = "process"
    /\ completedQueue = <<>>
    /\ pc' = "js"
    /\ UNCHANGED <<curlVars, callVars>>

(* The sockets of R are given up: closed by the next turns of the loop.    *)
GiveUp(R) == [r \in Request |-> IF r \in R /\ socket[r] = "open" THEN "closing" ELSE socket[r]]

(* Mutant: what curl has finished is left out, its message being on its way.*)
CancelSkipsFinished(order) ==
    /\ pc = "js" /\ refusals = <<>>
    /\ IsInjective(order) /\ ToSet(order) = InFlight
    /\ completedQueue' = completedQueue \o order
    /\ requests' = {}
    /\ messages' = <<>>
    /\ socket' = GiveUp(requests)
    /\ pc' = "cancel"
    /\ UNCHANGED <<current, refusals, protects, made, answered, within, late, dangling>>

(* shutdown: every transfer still in the table is answered with an error,  *)
(* in the table's order; curl gives up their sockets.                      *)
CancelRequests(order) ==
    /\ pc = "js" /\ refusals = <<>>
    /\ IsInjective(order) /\ ToSet(order) = requests
    /\ completedQueue' = completedQueue \o order
    /\ requests' = {}
    /\ messages' = <<>>
    /\ socket' = GiveUp(requests)
    /\ pc' = "cancel"
    /\ UNCHANGED <<current, refusals, protects, made, answered, within, late, dangling>>

(* The sockets still watched are closed and their contexts freed at once;  *)
(* curl is cleaned up, whatever the last callbacks have started.           *)
FinishShutdown ==
    /\ pc = "cancel"
    /\ completedQueue = <<>>
    /\ socket' = GiveUp(Request)
    /\ dangling' = dangling \cup {r \in Request : socket[r] = "open"}
    /\ pc' = "closed"
    /\ UNCHANGED <<requests, messages, within, late, callVars>>

(* EventLoop::shutdown has closed the handles that were left.              *)
LoopClosed ==
    /\ pc = "closed"
    /\ \A r \in Request : socket[r] = "none"
    /\ pc' = "down"
    /\ UNCHANGED <<curlVars, callVars>>

-----------------------------------------------------------------------------
(* What curl may finish in one event, and the orders of a table.           *)
Orders == UNION {SetToSeqs(R) : R \in {Q \in SUBSET Request : IsFiniteSet(Q)}}

CallFromJS == \E r \in Request : RefuseRequest(r) \/ \E done \in Orders : StartRequest(r, done)

LoopStep ==
    EnterLoop \/ LeaveLoop \/ CallNext \/ CallbackReturns \/ RefusalReturns \/ ProcessDone

Next ==
    \/ CallFromJS
    \/ LoopStep
    \/ \E r \in Request : CloseSocket(r)
    \/ \E done \in Orders : CurlEvent(done) \/ CancelRequests(done)
    \/ FinishShutdown
    \/ LoopClosed

Spec == Init /\ [][Next]_vars

(* The main thread goes round its loop, and curl finishes every transfer   *)
(* that it works on (each has a time limit).                               *)
FairSpec ==
    /\ Spec
    /\ WF_vars(LoopStep)
    /\ WF_vars(FinishShutdown)
    /\ \A r \in Request : SF_vars(\E done \in Orders : r \in ToSet(done) /\ CurlEvent(done))

-----------------------------------------------------------------------------
(* The types of the variables.                                             *)
TypeOK ==
    /\ pc \in Phase
    /\ requests \subseteq made /\ made \subseteq Request
    /\ messages \in Seq(requests)
    /\ socket \in [Request -> SocketState]
    /\ completedQueue \in Seq(Request)
    /\ current \in Request \cup {NoRequest}
    /\ refusals \in Seq(Request)
    /\ protects \in [Request -> Int]
    /\ answered \subseteq made
    /\ within \subseteq made /\ late \subseteq made
    /\ dangling \subseteq Request

(* A callback is protected exactly from the request to the end of its      *)
(* call, on every path: success, failure, refusal, cancelling at shutdown. *)
ProtectedUntilAnswered ==
    \A r \in Request :
        protects[r] =
            IF r \in requests \cup ToSet(completedQueue) \cup ToSet(refusals) \cup {current}
            THEN 1 ELSE 0

(* When shutdown returns, every request has been answered, those too whose *)
(* transfer is over and whose message nobody has read; only what its own   *)
(* last callbacks started has not.                                         *)
AnsweredByShutdown == pc \in {"closed", "down"} => made \ answered \subseteq late

(* "uv_close is async, so we must wait for this callback before freeing    *)
(* memory" (onPollCloseCallback).                                          *)
ShutdownFreesAfterClose == dangling = {}

(* "Callback is invoked when complete" (request), at the latest with       *)
(* "Request cancelled: shutdown".                                          *)
ShutdownAnswersAll == pc = "closed" => made = answered

(* A transfer that ended inside a call of request() has its message read   *)
(* by the next event, of which there is none when nothing is in flight.    *)
Stranded(r) == r \in within \cap ToSet(messages) /\ InFlight = {}

(* Every request is answered in the end, or stranded, or the client shuts  *)
(* down.                                                                   *)
AnsweredUnlessStranded ==
    \A r \in Request : r \in made ~> r \in answered \/ Stranded(r) \/ pc \in {"closed", "down"}

(* "Called on the main thread when the request completes (success or       *)
(* failure)": every request is answered in the end.                        *)
EveryRequestIsAnswered == \A r \in Request : r \in made ~> r \in answered \/ pc \in {"closed", "down"}
=============================================================================
