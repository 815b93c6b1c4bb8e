------------------------ MODULE OffMainThread_proofs ------------------------
(***************************************************************************)
(* Proofs about the three components whose work happens off the main       *)
(* thread and comes back to it: AsyncHttp (curl and its sockets),          *)
(* BackgroundWork (the thread pool) and AudioMixer (the audio thread).     *)
(* The first two keep their work in queues and share the lemmas about      *)
(* queues in which nothing is twice.                                       *)
(***************************************************************************)
EXTENDS AsyncHttp, BackgroundWork, AudioMixer,
        SequenceTheorems, FiniteSetTheorems, WellFoundedInduction, TLAPS

-----------------------------------------------------------------------------
(* Nothing is in the queue twice.                                          *)
NoneTwice(s) == \A i, j \in DOMAIN s : s[i] = s[j] => i = j

(* The first element is gone from the rest.                                *)
LEMMA TakeFirst ==
    ASSUME NEW S, NEW s \in Seq(S), s # <<>>, NoneTwice(s)
    PROVE  /\ Head(s) \in ToSet(s) /\ Tail(s) \in Seq(S) /\ NoneTwice(Tail(s))
           /\ ToSet(Tail(s)) = ToSet(s) \ {Head(s)}
<1>1. PICK t : t = Tail(s)
    OBVIOUS
<1>2. /\ t \in Seq(S) /\ Len(t) = Len(s) - 1 /\ Len(s) \in Nat \ {0} /\ Head(s) = s[1]
      /\ \A i \in 1 .. Len(s) - 1 : t[i] = s[i + 1]
      /\ DOMAIN s = 1 .. Len(s) /\ DOMAIN t = 1 .. Len(s) - 1
    BY <1>1, HeadTailProperties, EmptySeq
<1>3. NoneTwice(t)
    <2>1. SUFFICES ASSUME NEW i \in 1 .. Len(s) - 1, NEW j \in 1 .. Len(s) - 1, t[i] = t[j]
                   PROVE  i = j
        BY <1>2 DEF NoneTwice
    <2>2. i + 1 \in DOMAIN s /\ j + 1 \in DOMAIN s /\ s[i + 1] = s[j + 1]
        BY <1>2, <2>1
    <2>3. i + 1 = j + 1
        BY <2>2 DEF NoneTwice
    <2>4. QED BY <2>3, <1>2
<1>4. ASSUME NEW i \in DOMAIN s PROVE i = 1 \/ (i - 1 \in DOMAIN t /\ t[i - 1] = s[i])
    BY <1>2
<1>5. ASSUME NEW i \in DOMAIN t PROVE i + 1 \in DOMAIN s /\ i + 1 # 1 /\ t[i] = s[i + 1]
    BY <1>2
<1>6. 1 \in DOMAIN s
    BY <1>2
<1>7. ToSet(t) = ToSet(s) \ {Head(s)}
    <2>1. ToSet(s) \ {Head(s)} \subseteq ToSet(t)
        BY <1>2, <1>4 DEF ToSet
    <2>2. ToSet(t) \subseteq ToSet(s) \ {Head(s)}
        BY <1>2, <1>5, <1>6 DEF ToSet, NoneTwice
    <2>3. QED BY <2>1, <2>2
<1>8. QED BY <1>1, <1>2, <1>3, <1>6, <1>7 DEF ToSet

(* Two queues that share nothing are joined.                               *)
LEMMA JoinQueues ==
    ASSUME NEW S, NEW s \in Seq(S), NEW t \in Seq(S), NoneTwice(s), NoneTwice(t),
           ToSet(s) \cap ToSet(t) = {}
    PROVE  s \o t \in Seq(S) /\ NoneTwice(s \o t) /\ ToSet(s \o t) = ToSet(s) \cup ToSet(t)
<1>1. PICK u : u = s \o t
    OBVIOUS
<1>2. PICK m, n : m = Len(s) /\ n = Len(t)
    OBVIOUS
<1>3. /\ u \in Seq(S) /\ m \in Nat /\ n \in Nat /\ DOMAIN s = 1 .. m /\ DOMAIN t = 1 .. n
      /\ DOMAIN u = 1 .. m + n
      /\ \A i \in 1 .. m + n : u[i] = IF i <= m THEN s[i] ELSE t[i - m]
    BY <1>1, <1>2, ConcatProperties
<1>4. ASSUME NEW i \in DOMAIN u
      PROVE  \/ i \in DOMAIN s /\ u[i] = s[i]
             \/ i - m \in DOMAIN t /\ u[i] = t[i - m]
    BY <1>3
<1>5. ASSUME NEW i \in DOMAIN s PROVE i \in DOMAIN u /\ u[i] = s[i]
    BY <1>3
<1>6. ASSUME NEW i \in DOMAIN t PROVE i + m \in DOMAIN u /\ u[i + m] = t[i]
    <2>1. i + m \in 1 .. m + n /\ ~(i + m <= m) /\ (i + m) - m = i
        BY <1>3
    <2>2. QED BY <1>3, <2>1
<1>7. ToSet(u) = ToSet(s) \cup ToSet(t)
    BY <1>4, <1>5, <1>6 DEF ToSet
<1>8. NoneTwice(u)
    <2>1. SUFFICES ASSUME NEW i \in DOMAIN u, NEW j \in DOMAIN u, u[i] = u[j] PROVE i = j
        BY DEF NoneTwice
    <2>2. i \in Int /\ j \in Int /\ m \in Int
        BY <1>3
    <2>3. CASE i \in DOMAIN s /\ u[i] = s[i] /\ j \in DOMAIN s /\ u[j] = s[j]
        BY <2>1, <2>3 DEF NoneTwice
    <2>4. CASE i - m \in DOMAIN t /\ u[i] = t[i - m] /\ j - m \in DOMAIN t /\ u[j] = t[j - m]
        <3>1. i - m = j - m
            BY <2>1, <2>4 DEF NoneTwice
        <3>2. QED BY <2>2, <3>1
    <2>5. ASSUME NEW k \in DOMAIN s, NEW l \in DOMAIN t PROVE s[k] # t[l]
        BY DEF ToSet
    <2>6. QED BY <1>4, <2>1, <2>3, <2>4, <2>5
<1>9. QED BY <1>1, <1>3, <1>7, <1>8

(* An element is put at the end.                                           *)
LEMMA OneMore ==
    ASSUME NEW S, NEW s \in Seq(S), NEW e \in S
    PROVE  /\ Append(s, e) \in Seq(S)
           /\ ToSet(Append(s, e)) = ToSet(s) \cup {e}
           /\ NoneTwice(s) /\ e \notin ToSet(s) => NoneTwice(Append(s, e))
<1>1. /\ Append(s, e) \in Seq(S)
      /\ DOMAIN Append(s, e) = 1 .. Len(s) + 1
      /\ DOMAIN s = 1 .. Len(s)
      /\ Len(s) \in Nat
      /\ \A i \in 1 .. Len(s) : Append(s, e)[i] = s[i]
      /\ Append(s, e)[Len(s) + 1] = e
    OBVIOUS
<1>2. \A i \in 1 .. Len(s) + 1 : i \in 1 .. Len(s) \/ i = Len(s) + 1
    BY <1>1
<1>3. ToSet(Append(s, e)) = ToSet(s) \cup {e}
    BY <1>1, <1>2 DEF ToSet
<1>4. ASSUME NoneTwice(s), e \notin ToSet(s)
      PROVE  NoneTwice(Append(s, e))
    BY <1>1, <1>2, <1>4 DEF NoneTwice, ToSet
<1>5. QED BY <1>1, <1>3, <1>4

(* The elements of a queue decide what it is a queue of.                   *)
LEMMA Elements ==
    ASSUME NEW S, NEW s \in Seq(S)
    PROVE  ToSet(s) \subseteq S /\ (\A T : ToSet(s) \subseteq T => s \in Seq(T))
<1>1. Len(s) \in Nat /\ s \in [1 .. Len(s) -> S]
    BY LenProperties
<1>2. ASSUME NEW T, ToSet(s) \subseteq T PROVE s \in Seq(T)
    <2>1. s \in [1 .. Len(s) -> T]
        BY <1>1, <1>2 DEF ToSet
    <2>2. QED BY <1>1, <2>1, SeqDef
<1>3. QED BY <1>1, <1>2 DEF ToSet

(* Induction over the natural numbers, stated for a set.                   *)
LEMMA SetInduction ==
    ASSUME NEW T \in SUBSET Nat, 0 \in T, \A n \in T : n + 1 \in T
    PROVE  \A n \in Nat : n \in T
<1> SUFFICES ASSUME Nat \ T # {} PROVE FALSE
    OBVIOUS
<1>1. PICK R : R = OpToRel(<, Nat)
    OBVIOUS
<1>2. PICK x \in Nat \ T : \A y \in Nat \ T : <<y, x>> \notin R
    <2>1. IsWellFoundedOn(R, Nat)
        BY <1>1, NatLessThanWellFounded
    <2>2. QED BY <2>1, WFMin
<1>3. \A y \in Nat \ T : ~(y < x)
    BY <1>1, <1>2 DEF OpToRel
<1>4. x # 0 /\ x - 1 \in T
    BY <1>3
<1>5. QED BY <1>4

(* The empty queue.                                                        *)
LEMMA Unqueued == ASSUME NEW S PROVE ToSet(<<>>) = {} /\ NoneTwice(<<>>) /\ <<>> \in Seq(S)
BY DEF ToSet, NoneTwice

-----------------------------------------------------------------------------
(* The asynchronous HTTP client.                                           *)

(* Until the client is closed, what is not answered is in the table or in  *)
(* the queue; once shutdown has emptied the table, only what the last      *)
(* callbacks start gets there.                                             *)
AnswerInv ==
    /\ pc \notin {"closed", "down"} => made \ answered \subseteq requests \cup ToSet(completedQueue)
    /\ pc \in {"cancel", "last"} => requests \subseteq late
    /\ AnsweredByShutdown

(* A request is in the table, in the queue or on the stack, and nowhere    *)
(* twice.                                                                  *)
HttpInv ==
    /\ TypeOK /\ ProtectedUntilAnswered /\ AnswerInv
    /\ NoneTwice(messages) /\ NoneTwice(completedQueue) /\ NoneTwice(refusals)
    /\ requests \cap ToSet(completedQueue) = {}
    /\ ToSet(refusals) \cap (requests \cup ToSet(completedQueue)) = {}
    /\ ToSet(completedQueue) \subseteq made /\ ToSet(refusals) \subseteq made
    /\ current \notin requests \cup ToSet(completedQueue) \cup ToSet(refusals)
    /\ IF pc \in {"called", "last"} THEN current \in made ELSE current = NoRequest
    /\ refusals # <<>> => InJS

(* An order of a table has all its elements once.                          *)
LEMMA OrderIs ==
    ASSUME NEW R, IsFiniteSet(R), NEW s \in SetToSeqs(R)
    PROVE  s \in Seq(R) /\ NoneTwice(s)
<1>1. Cardinality(R) \in Nat
    BY FS_CardinalityType
<1>2. PICK n \in Nat : n = Cardinality(R)
    BY <1>1
<1>3. s \in [1 .. n -> R] /\ \A i, j \in 1 .. n : i # j => s[i] # s[j]
    BY <1>2 DEF SetToSeqs
<1>4. QED BY <1>3, SeqDef DEF NoneTwice

(* The first state.                                                        *)
LEMMA HttpInit == Init => HttpInv
<1> SUFFICES ASSUME Init PROVE HttpInv
    OBVIOUS
<1>1. /\ ToSet(<<>>) = {} /\ NoneTwice(<<>>) /\ <<>> \in Seq(requests) /\ <<>> \in Seq(Request)
    BY Unqueued
<1>2. TypeOK
    BY <1>1 DEF Init, TypeOK, Phase, SocketState
<1>3. ProtectedUntilAnswered /\ AnswerInv
    BY <1>1, NoRequestAssumption
    DEF Init, ProtectedUntilAnswered, AnswerInv, AnsweredByShutdown
<1>4. QED BY <1>1, <1>2, <1>3 DEF Init, HttpInv

(* Sockets that are given up are closing or were not open.                 *)
LEMMA GiveUpIs == ASSUME TypeOK, NEW R PROVE GiveUp(R) \in [Request -> SocketState]
BY DEF TypeOK, GiveUp, SocketState

(* A request enters the table, and the queue of messages what curl is done *)
(* with.                                                                   *)
LEMMA StartRequestStep ==
    ASSUME HttpInv, NEW r \in Request, NEW done \in Seq(Request), NoneTwice(done),
           StartRequest(r, done)
    PROVE  HttpInv'
<1>1. /\ InJS /\ r \notin made /\ made' = made \cup {r} /\ requests' = requests \cup {r}
      /\ ToSet(done) \subseteq InFlight \cup {r}
      /\ messages' = messages \o done /\ within' = within \cup ToSet(done)
      /\ late' = IF pc = "last" THEN late \cup {r} ELSE late
      /\ protects' = [protects EXCEPT ![r] = @ + 1]
      /\ socket' \in [Request -> SocketState]
      /\ UNCHANGED <<pc, completedQueue, current, refusals, answered, dangling>>
    BY DEF StartRequest, SocketCalls
<1>2. TypeOK /\ messages \in Seq(requests) /\ NoneTwice(messages) /\ requests \subseteq made
    BY DEF HttpInv, TypeOK
<1>3. /\ r \notin requests /\ r \notin ToSet(completedQueue) /\ r \notin ToSet(refusals)
      /\ r # current
    BY <1>1, NoRequestAssumption DEF HttpInv, TypeOK, InJS
<1>4. messages' \in Seq(requests') /\ NoneTwice(messages') /\ ToSet(done) \subseteq requests'
    <2>1. ToSet(messages) \subseteq requests
        BY <1>2, Elements
    <2>2. ToSet(done) \subseteq requests' /\ ToSet(messages) \cap ToSet(done) = {}
        BY <1>1, <1>2, <1>3, <2>1 DEF InFlight
    <2>3. messages \in Seq(requests') /\ done \in Seq(requests')
        BY <1>1, <1>2, <2>1, <2>2, Elements
    <2>4. QED BY <1>1, <1>2, <2>2, <2>3, JoinQueues
<1>5. TypeOK'
    <2>1. requests' \subseteq made' /\ made' \subseteq Request /\ answered' \subseteq made'
        BY <1>1, <1>2 DEF TypeOK
    <2>2. within' \subseteq made' /\ late' \subseteq made'
        BY <1>1, <1>2, <1>4, <2>1 DEF TypeOK
    <2>3. protects' \in [Request -> Int]
        BY <1>1, <1>2 DEF TypeOK
    <2>4. QED BY <1>1, <1>2, <1>4, <2>1, <2>2, <2>3 DEF TypeOK
<1>6. ProtectedUntilAnswered'
    BY <1>1, <1>2, <1>3 DEF HttpInv, ProtectedUntilAnswered, TypeOK
<1>7. AnswerInv'
    BY <1>1 DEF HttpInv, AnswerInv, AnsweredByShutdown, InJS
<1>8. QED BY <1>1, <1>3, <1>4, <1>5, <1>6, <1>7 DEF HttpInv, InJS

(* A refused request is answered; its callback is on the stack ...         *)
LEMMA RefuseRequestStep == ASSUME HttpInv, NEW r \in Request, RefuseRequest(r) PROVE HttpInv'
<1>1. /\ InJS /\ r \notin made /\ made' = made \cup {r} /\ answered' = answered \cup {r}
      /\ protects' = [protects EXCEPT ![r] = @ + 1]
      /\ refusals' = <<r>> \o refusals
      /\ UNCHANGED <<pc, requests, messages, socket, within, late, dangling, completedQueue,
                     current>>
    BY DEF RefuseRequest, curlVars
<1>2. /\ TypeOK /\ refusals \in Seq(Request) /\ NoneTwice(refusals)
      /\ r \notin requests /\ r \notin ToSet(completedQueue) /\ r \notin ToSet(refusals)
      /\ r # current
    BY <1>1, NoRequestAssumption DEF HttpInv, TypeOK, InJS
<1>3. refusals' \in Seq(Request) /\ NoneTwice(refusals') /\ ToSet(refusals') = ToSet(refusals) \cup {r}
    <2>1. PICK one : one = <<r>>
        OBVIOUS
    <2>2. one \in Seq(Request) /\ NoneTwice(one) /\ ToSet(one) = {r}
        BY <2>1 DEF NoneTwice, ToSet
    <2>3. ToSet(one) \cap ToSet(refusals) = {}
        BY <1>2, <2>2
    <2>4. /\ one \o refusals \in Seq(Request) /\ NoneTwice(one \o refusals)
          /\ ToSet(one \o refusals) = ToSet(one) \cup ToSet(refusals)
        BY <1>2, <2>2, <2>3, JoinQueues
    <2>5. QED BY <1>1, <2>1, <2>2, <2>4
<1>4. TypeOK'
    BY <1>1, <1>2, <1>3 DEF TypeOK
<1>5. ProtectedUntilAnswered'
    BY SMTT(20), <1>1, <1>2, <1>3 DEF HttpInv, ProtectedUntilAnswered, TypeOK
<1>6. AnswerInv'
    BY <1>1 DEF HttpInv, AnswerInv, AnsweredByShutdown, InJS
<1>7. QED BY <1>1, <1>2, <1>3, <1>4, <1>5, <1>6 DEF HttpInv, InJS

(* ... until it returns and is released.                                   *)
LEMMA RefusalReturnsStep == ASSUME HttpInv, RefusalReturns PROVE HttpInv'
<1>1. PICK r : r = Head(refusals)
    OBVIOUS
<1>2. /\ refusals # <<>> /\ protects' = [protects EXCEPT ![r] = @ - 1]
      /\ refusals' = Tail(refusals)
      /\ UNCHANGED <<pc, requests, messages, socket, within, late, dangling, completedQueue,
                     current, made, answered>>
    BY <1>1 DEF RefusalReturns, curlVars
<1>3. /\ r \in ToSet(refusals) /\ refusals' \in Seq(Request) /\ NoneTwice(refusals')
      /\ ToSet(refusals') = ToSet(refusals) \ {r}
    BY <1>1, <1>2, TakeFirst DEF HttpInv, TypeOK
<1>4. /\ TypeOK /\ r \in Request /\ r \notin requests /\ r \notin ToSet(completedQueue)
      /\ r # current
    BY <1>3 DEF HttpInv, TypeOK
<1>5. TypeOK'
    BY <1>2, <1>3, <1>4 DEF TypeOK
<1>6. ProtectedUntilAnswered'
    BY <1>2, <1>3, <1>4 DEF HttpInv, ProtectedUntilAnswered, TypeOK
<1>7. AnswerInv'
    BY <1>2 DEF HttpInv, AnswerInv, AnsweredByShutdown
<1>8. QED BY <1>2, <1>3, <1>4, <1>5, <1>6, <1>7 DEF HttpInv, InJS

(* libuv closes a handle.                                                  *)
LEMMA CloseSocketStep == ASSUME HttpInv, NEW r \in Request, CloseSocket(r) PROVE HttpInv'
<1>1. /\ UNCHANGED <<pc, requests, messages, within, late, dangling, completedQueue, current,
                     refusals, protects, made, answered>>
      /\ socket' \in [Request -> SocketState]
    BY DEF HttpInv, TypeOK, CloseSocket, callVars, SocketState
<1>2. TypeOK'
    BY <1>1 DEF HttpInv, TypeOK
<1>3. ProtectedUntilAnswered' /\ AnswerInv'
    BY <1>1 DEF HttpInv, ProtectedUntilAnswered, AnswerInv, AnsweredByShutdown
<1>4. QED BY <1>1, <1>2, <1>3 DEF HttpInv, InJS

(* Transfers that were in the table are queued, each once.                 *)
LEMMA CurlEventStep ==
    ASSUME HttpInv, NEW done \in Seq(Request), NoneTwice(done), CurlEvent(done) PROVE HttpInv'
<1>1. /\ pc = "loop" /\ ToSet(done) \subseteq InFlight
      /\ completedQueue' = completedQueue \o messages \o done
      /\ requests' = requests \ ToSet(messages \o done) /\ messages' = <<>>
      /\ socket' \in [Request -> SocketState]
      /\ UNCHANGED <<pc, current, refusals, protects, made, answered, within, late, dangling>>
    BY DEF CurlEvent, SocketCalls
<1>2. /\ TypeOK /\ requests \subseteq Request
      /\ messages \in Seq(Request) /\ ToSet(messages) \subseteq requests
      /\ completedQueue \in Seq(Request)
      /\ NoneTwice(messages) /\ NoneTwice(completedQueue)
      /\ requests \cap ToSet(completedQueue) = {}
      /\ refusals = <<>>
    <2>1. messages \in Seq(requests) /\ requests \subseteq Request
        BY DEF HttpInv, TypeOK
    <2>2. QED BY <1>1, <2>1, Elements DEF HttpInv, TypeOK, InJS
<1>3. PICK all : all = messages \o done
    OBVIOUS
<1>4. /\ all \in Seq(Request) /\ NoneTwice(all) /\ ToSet(all) = ToSet(messages) \cup ToSet(done)
    <2>1. ToSet(messages) \cap ToSet(done) = {}
        BY <1>1 DEF InFlight
    <2>2. QED BY <1>2, <1>3, <2>1, JoinQueues
<1>5. ToSet(all) \subseteq requests
    BY <1>1, <1>2, <1>4 DEF InFlight
<1>6. /\ completedQueue' \in Seq(Request) /\ NoneTwice(completedQueue')
      /\ ToSet(completedQueue') = ToSet(completedQueue) \cup ToSet(all)
    <2>1. completedQueue' = completedQueue \o all
        BY SMTT(20), <1>1, <1>2, <1>3, ConcatAssociative
    <2>2. ToSet(completedQueue) \cap ToSet(all) = {}
        BY <1>2, <1>5
    <2>3. QED BY <1>2, <1>4, <2>1, <2>2, JoinQueues
<1>7. requests' = requests \ ToSet(all) /\ messages' \in Seq(requests') /\ NoneTwice(messages')
    BY <1>1, <1>3 DEF NoneTwice
<1>8. TypeOK'
    BY <1>1, <1>2, <1>6, <1>7 DEF TypeOK
<1>9. ProtectedUntilAnswered'
    BY <1>1, <1>5, <1>6, <1>7 DEF HttpInv, ProtectedUntilAnswered
<1>10. AnswerInv'
    BY <1>1, <1>6, <1>7 DEF HttpInv, AnswerInv, AnsweredByShutdown
<1>11. /\ requests' \cap ToSet(completedQueue') = {} /\ ToSet(completedQueue') \subseteq made'
       /\ current' \notin requests' \cup ToSet(completedQueue') /\ current' = NoRequest
       /\ pc' = "loop" /\ refusals' = <<>> /\ ToSet(refusals') = {}
    BY <1>1, <1>2, <1>5, <1>6, <1>7, Unqueued DEF HttpInv, TypeOK
<1>12. QED BY <1>6, <1>7, <1>8, <1>9, <1>10, <1>11, Unqueued DEF HttpInv

(* Shutdown queues all that is in the table.                               *)
LEMMA CancelStep ==
    ASSUME HttpInv, NEW order \in Seq(Request), CancelRequests(order) PROVE HttpInv'
<1>1. /\ pc = "js" /\ refusals = <<>> /\ NoneTwice(order) /\ ToSet(order) = requests
      /\ completedQueue' = completedQueue \o order
      /\ requests' = {} /\ messages' = <<>> /\ socket' = GiveUp(requests) /\ pc' = "cancel"
      /\ UNCHANGED <<current, refusals, protects, made, answered, within, late, dangling>>
    BY DEF CancelRequests, IsInjective, NoneTwice
<1>2. /\ TypeOK /\ completedQueue \in Seq(Request) /\ NoneTwice(completedQueue)
      /\ requests \cap ToSet(completedQueue) = {}
    BY DEF HttpInv, TypeOK
<1>3. /\ completedQueue' \in Seq(Request) /\ NoneTwice(completedQueue')
      /\ ToSet(completedQueue') = ToSet(completedQueue) \cup requests
    BY <1>1, <1>2, JoinQueues
<1>4. messages' \in Seq(requests') /\ NoneTwice(messages')
    BY <1>1 DEF NoneTwice
<1>5. TypeOK'
    BY <1>1, <1>2, <1>3, <1>4, GiveUpIs DEF TypeOK, Phase
<1>6. ProtectedUntilAnswered'
    BY <1>1, <1>3 DEF HttpInv, ProtectedUntilAnswered
<1>7. AnswerInv'
    BY <1>1, <1>3 DEF HttpInv, AnswerInv, AnsweredByShutdown
<1>8. /\ requests' \cap ToSet(completedQueue') = {} /\ ToSet(completedQueue') \subseteq made'
      /\ current' \notin requests' \cup ToSet(completedQueue') /\ current' = NoRequest
      /\ ToSet(refusals') = {} /\ refusals' = <<>>
    BY <1>1, <1>2, <1>3, Unqueued DEF HttpInv, TypeOK
<1>9. QED BY <1>1, <1>3, <1>4, <1>5, <1>6, <1>7, <1>8, Unqueued DEF HttpInv

(* The first callback of the queue is taken off it and called.             *)
LEMMA CallNextStep == ASSUME HttpInv, CallNext PROVE HttpInv'
<1>1. PICK next : next = Head(completedQueue)
    OBVIOUS
<1>2. /\ pc \in {"process", "cancel"} /\ completedQueue # <<>>
      /\ pc' = IF pc = "process" THEN "called" ELSE "last"
      /\ current' = next /\ completedQueue' = Tail(completedQueue)
      /\ answered' = answered \cup {next}
      /\ UNCHANGED <<requests, messages, socket, within, late, dangling, refusals, protects, made>>
    BY <1>1 DEF CallNext, curlVars
<1>3. /\ next \in ToSet(completedQueue) /\ completedQueue' \in Seq(Request)
      /\ NoneTwice(completedQueue') /\ ToSet(completedQueue') = ToSet(completedQueue) \ {next}
    BY <1>1, <1>2, TakeFirst DEF HttpInv, TypeOK
<1>4. /\ next \in made /\ next \notin requests /\ current = NoRequest /\ made \subseteq Request
      /\ refusals = <<>> /\ ToSet(refusals) = {}
    BY <1>2, <1>3, Unqueued DEF HttpInv, TypeOK, InJS
<1>5. TypeOK'
    BY <1>2, <1>3, <1>4 DEF HttpInv, TypeOK, Phase
<1>6. ProtectedUntilAnswered'
    BY <1>2, <1>3, <1>4, NoRequestAssumption DEF HttpInv, ProtectedUntilAnswered
<1>7. AnswerInv'
    BY <1>2, <1>3 DEF HttpInv, AnswerInv, AnsweredByShutdown
<1>8. QED BY <1>2, <1>3, <1>4, <1>5, <1>6, <1>7 DEF HttpInv

(* The callback returns and is released.                                   *)
LEMMA AnswerReturnsStep == ASSUME HttpInv, CallbackReturns PROVE HttpInv'
<1>1. /\ pc \in {"called", "last"} /\ pc' = IF pc = "called" THEN "process" ELSE "cancel"
      /\ refusals = <<>>
      /\ protects' = [protects EXCEPT ![current] = @ - 1] /\ current' = NoRequest
      /\ UNCHANGED <<requests, messages, socket, within, late, dangling, completedQueue, refusals,
                     made, answered>>
    BY DEF CallbackReturns, curlVars
<1>2. /\ TypeOK /\ current \in Request /\ current \notin requests \cup ToSet(completedQueue)
      /\ requests \cup ToSet(completedQueue) \subseteq Request
      /\ refusals' = refusals /\ ToSet(refusals) = {}
    BY <1>1, Unqueued DEF HttpInv, TypeOK
<1>3. TypeOK'
    BY <1>1, <1>2 DEF TypeOK, Phase
<1>4. ProtectedUntilAnswered'
    BY <1>1, <1>2, NoRequestAssumption DEF HttpInv, TypeOK, ProtectedUntilAnswered
<1>5. AnswerInv'
    BY <1>1 DEF HttpInv, AnswerInv, AnsweredByShutdown
<1>6. QED BY <1>1, <1>2, <1>3, <1>4, <1>5, NoRequestAssumption DEF HttpInv

(* The client closes: the queue is empty, and the table has only what the  *)
(* last callbacks started.                                                 *)
LEMMA FinishStep == ASSUME HttpInv, FinishShutdown PROVE HttpInv'
<1>1. /\ pc = "cancel" /\ completedQueue = <<>> /\ pc' = "closed" /\ socket' = GiveUp(Request)
      /\ dangling' = dangling \cup {r \in Request : socket[r] = "open"}
      /\ UNCHANGED <<requests, messages, within, late, completedQueue, current, refusals, protects,
                     made, answered>>
    BY DEF FinishShutdown, callVars
<1>2. TypeOK /\ ToSet(completedQueue) = {} /\ refusals = <<>>
    BY <1>1, Unqueued DEF HttpInv, InJS
<1>3. TypeOK'
    BY <1>1, <1>2, GiveUpIs DEF TypeOK, Phase
<1>4. ProtectedUntilAnswered'
    BY <1>1 DEF HttpInv, ProtectedUntilAnswered
<1>5. AnswerInv'
    BY <1>1, <1>2 DEF HttpInv, AnswerInv, AnsweredByShutdown
<1>6. QED BY <1>1, <1>2, <1>3, <1>4, <1>5 DEF HttpInv

(* The steps that only move the main thread.                               *)
LEMMA MoveStep ==
    ASSUME HttpInv, EnterLoop \/ LeaveLoop \/ ProcessDone \/ LoopClosed \/ UNCHANGED vars
    PROVE  HttpInv'
<1>1. /\ UNCHANGED <<requests, messages, socket, within, late, dangling,
                     completedQueue, current, refusals, protects, made, answered>>
      /\ pc' \in Phase /\ (pc' \in {"called", "last"} <=> pc \in {"called", "last"})
      /\ pc' \in {"closed", "down"} <=> pc \in {"closed", "down"}
      /\ pc' \in {"cancel", "last"} <=> pc \in {"cancel", "last"}
      /\ refusals # <<>> => pc' = pc
    BY DEF HttpInv, TypeOK, Phase, EnterLoop, LeaveLoop, ProcessDone, LoopClosed, vars,
           curlVars, callVars, InJS
<1>2. TypeOK'
    BY <1>1 DEF HttpInv, TypeOK
<1>3. ProtectedUntilAnswered'
    BY <1>1 DEF HttpInv, ProtectedUntilAnswered
<1>4. AnswerInv'
    BY <1>1 DEF HttpInv, AnswerInv, AnsweredByShutdown
<1>5. QED BY <1>1, <1>2, <1>3, <1>4 DEF HttpInv, InJS

(* Every step keeps the invariant.                                         *)
LEMMA HttpStep == HttpInv /\ [Next]_vars => HttpInv'
<1> SUFFICES ASSUME HttpInv, [Next]_vars PROVE HttpInv'
    OBVIOUS
<1>1. ASSUME NEW done \in Orders PROVE done \in Seq(Request) /\ NoneTwice(done)
    <2>1. PICK R \in SUBSET Request : IsFiniteSet(R) /\ done \in SetToSeqs(R)
        BY DEF Orders
    <2>2. done \in Seq(R) /\ NoneTwice(done)
        BY <2>1, OrderIs
    <2>3. QED BY <2>2, Elements
<1>2. ASSUME NEW r \in Request, NEW done \in Orders, StartRequest(r, done) PROVE HttpInv'
    BY <1>1, <1>2, StartRequestStep
<1>3. ASSUME NEW r \in Request, RefuseRequest(r) PROVE HttpInv'
    BY <1>3, RefuseRequestStep
<1>4. ASSUME NEW r \in Request, CloseSocket(r) PROVE HttpInv'
    BY <1>4, CloseSocketStep
<1>5. ASSUME NEW done \in Orders, CurlEvent(done) \/ CancelRequests(done) PROVE HttpInv'
    BY <1>1, <1>5, CurlEventStep, CancelStep
<1>6. CASE CallNext
    BY <1>6, CallNextStep
<1>7. CASE CallbackReturns
    BY <1>7, AnswerReturnsStep
<1>8. CASE RefusalReturns
    BY <1>8, RefusalReturnsStep
<1>9. CASE FinishShutdown
    BY <1>9, FinishStep
<1>10. CASE EnterLoop \/ LeaveLoop \/ ProcessDone \/ LoopClosed \/ UNCHANGED vars
    BY <1>10, MoveStep
<1>11. QED BY <1>2, <1>3, <1>4, <1>5, <1>6, <1>7, <1>8, <1>9, <1>10 DEF Next, CallFromJS, LoopStep

(* In every reachable state the table of transfers, the queue of completed *)
(* requests and the stack share no request.                                *)
THEOREM HttpInvariance == Spec => []HttpInv
BY HttpInit, HttpStep, PTL DEF Spec

(* A callback is protected exactly from the request to the end of its      *)
(* call, whether the request is refused, the transfer ends in the call     *)
(* that starts it or in another, in a socket event, at its time limit or   *)
(* in shutdown.                                                            *)
THEOREM RequestProtection == Spec => []ProtectedUntilAnswered
<1>1. HttpInv => ProtectedUntilAnswered
    BY DEF HttpInv
<1>2. QED BY <1>1, HttpInvariance, PTL

(* When shutdown returns, all requests have been answered but those that   *)
(* the callbacks it called last have made.                                 *)
THEOREM ShutdownAnswers == Spec => []AnsweredByShutdown
<1>1. HttpInv => AnsweredByShutdown
    BY DEF HttpInv, AnswerInv
<1>2. QED BY <1>1, HttpInvariance, PTL

-----------------------------------------------------------------------------
(* Work on the thread pool.                                                *)

(* Where the callback of a job may be: nowhere, with a thread, in one of   *)
(* the queues or on the stack.                                             *)
Place == {"none", "pool", "finished", "completed", "file", "mesh", "batch", "stack"}

(* A job is where its place says and nowhere else, and its callback is     *)
(* protected while it is somewhere.                                        *)
WhereInv(place) ==
    \A j \in Job :
        /\ j \in pool <=> place[j] = "pool"
        /\ j \in finished <=> place[j] = "finished"
        /\ j \in ToSet(completedReads) <=> place[j] = "completed"
        /\ j \in ToSet(pendingFileCallbacks) <=> place[j] = "file"
        /\ j \in ToSet(pendingDracoCallbacks) <=> place[j] = "mesh"
        /\ j \in ToSet(toProcess) <=> place[j] = "batch"
        /\ j = currentJob <=> place[j] = "stack"
        /\ kind[j] = "none" => place[j] = "none" /\ owner[j] = 0 /\ jobProtects[j] = 0
        /\ owner[j] = runtime /\ phase # "down"
              => jobProtects[j] = IF place[j] = "none" THEN 0 ELSE 1

QueueInv ==
    /\ NoneTwice(completedReads) /\ NoneTwice(pendingFileCallbacks)
    /\ NoneTwice(pendingDracoCallbacks) /\ NoneTwice(toProcess)

(* A callback is on the stack in the phases that call one; the batch of    *)
(* meshes exists only while it is gone through.                            *)
StackInv ==
    /\ phase \in {"file", "mesh"} => currentJob \in Job
    /\ phase \notin {"file", "mesh", "aborted"} => currentJob = NoJob
    /\ phase \notin {"meshes", "mesh", "aborted"} => toProcess = <<>>

(* The inductive invariant.                                                *)
WorkInv ==
    /\ WorkTypeOK /\ NoWorkForDestroyedRuntime
    /\ \A j \in pool \cup finished : kind[j] \in {"file", "directory", "mesh"}
    /\ QueueInv /\ StackInv
    /\ \E place \in [Job -> Place] : WhereInv(place)

(* The loop over the completed reads is a function of the reads it has     *)
(* seen: the recursive function it is written with exists.                 *)
LEMMA OnlyIsDefined ==
    ASSUME NEW S, NEW s \in Seq(S), NEW P
    PROVE  \E f : /\ Only(s, P) = f[Len(s)] /\ f[0] = <<>>
                  /\ \A n \in 1 .. Len(s) :
                        f[n] = IF s[n] \in P THEN Append(f[n - 1], s[n]) ELSE f[n - 1]
<1> DEFINE Step(f, n) == IF n = 0 THEN <<>>
                         ELSE IF s[n] \in P THEN Append(f[n - 1], s[n]) ELSE f[n - 1]
<1> DEFINE Defined(n) == \E f : f = [k \in 0 .. n |-> Step(f, k)]
<1>1. Len(s) \in Nat
    OBVIOUS
<1>2. Defined(0)
    <2>1. [k \in 0 .. 0 |-> <<>>] = [k \in 0 .. 0 |-> Step([j \in 0 .. 0 |-> <<>>], k)]
        OBVIOUS
    <2>2. QED BY <2>1
<1>3. ASSUME NEW n \in Nat, Defined(n) PROVE Defined(n + 1)
    <2>1. PICK f : f = [k \in 0 .. n |-> Step(f, k)]
        BY <1>3
    <2>2. ASSUME NEW k \in 0 .. n PROVE f[k] = Step(f, k)
        BY <2>1
    <2>3. PICK g : g = [k \in 0 .. n + 1 |-> IF k = n + 1 THEN Step(f, k) ELSE f[k]]
        OBVIOUS
    <2>4. \A k \in 0 .. n : g[k] = f[k]
        BY <2>3
    <2>5. ASSUME NEW k \in 0 .. n + 1 PROVE g[k] = Step(f, k)
        <3> HIDE DEF Step
        <3>1. CASE k = n + 1
            BY <3>1, <2>3
        <3>2. CASE k # n + 1
            BY <3>2, <2>2, <2>4
        <3>3. QED BY <3>1, <3>2
    <2>6. ASSUME NEW k \in 0 .. n + 1 PROVE g[k] = Step(g, k)
        <3>1. CASE k = 0
            BY <3>1, <2>5
        <3>2. CASE k # 0
            <4>1. k - 1 \in 0 .. n /\ g[k - 1] = f[k - 1]
                BY <3>2, <2>4
            <4>2. QED BY <3>2, <4>1, <2>5
        <3>3. QED BY <3>1, <3>2
    <2>7. g = [k \in 0 .. n + 1 |-> Step(g, k)]
        BY <2>3, <2>6
    <2>8. QED BY <2>7
<1>4. Defined(Len(s))
    <2> HIDE DEF Defined
    <2>1. PICK T : T = {n \in Nat : Defined(n)}
        OBVIOUS
    <2>2. T \in SUBSET Nat /\ 0 \in T /\ \A n \in T : n + 1 \in T
        BY <1>2, <1>3, <2>1
    <2>3. Len(s) \in T
        BY <2>2, <1>1, SetInduction
    <2>4. QED BY <2>1, <2>3
<1> DEFINE only == CHOOSE f : f = [k \in 0 .. Len(s) |-> Step(f, k)]
<1>5. Only(s, P) = only[Len(s)]
    BY DEF Only
<1>6. only = [k \in 0 .. Len(s) |-> Step(only, k)]
    BY <1>4
<1>7. PICK f : f = only
    OBVIOUS
<1> HIDE DEF only
<1>8. f = [k \in 0 .. Len(s) |-> Step(f, k)]
    BY <1>6, <1>7
<1>9. ASSUME NEW n \in 0 .. Len(s) PROVE f[n] = Step(f, n)
    BY <1>8
<1>10. QED BY <1>1, <1>5, <1>7, <1>9

(* It keeps the selected reads, each once.                                 *)
LEMMA OnlyElements ==
    ASSUME NEW S, NEW s \in Seq(S), NEW P
    PROVE  /\ Only(s, P) \in Seq(S)
           /\ ToSet(Only(s, P)) = ToSet(s) \cap P
           /\ NoneTwice(s) => NoneTwice(Only(s, P))
<1>1. PICK f : /\ Only(s, P) = f[Len(s)] /\ f[0] = <<>>
               /\ \A n \in 1 .. Len(s) :
                     f[n] = IF s[n] \in P THEN Append(f[n - 1], s[n]) ELSE f[n - 1]
    BY OnlyIsDefined
<1> DEFINE Seen(n) == {s[i] : i \in 1 .. n}
<1> DEFINE Right(n) == /\ f[n] \in Seq(S)
                       /\ ToSet(f[n]) = Seen(n) \cap P
                       /\ NoneTwice(s) => NoneTwice(f[n])
<1>2. Len(s) \in Nat /\ \A i \in 1 .. Len(s) : s[i] \in S
    OBVIOUS
<1>3. Right(0)
    BY <1>1 DEF ToSet, NoneTwice
<1>4. ASSUME NEW n \in Nat, n + 1 <= Len(s), Right(n) PROVE Right(n + 1)
    <2>1. f[n + 1] = IF s[n + 1] \in P THEN Append(f[n], s[n + 1]) ELSE f[n]
        BY <1>1, <1>2, <1>4
    <2>2. Seen(n + 1) = Seen(n) \cup {s[n + 1]}
        OBVIOUS
    <2>3. ASSUME NoneTwice(s) PROVE s[n + 1] \notin Seen(n)
        BY <1>2, <1>4, <2>3 DEF NoneTwice
    <2>4. s[n + 1] \in S
        BY <1>2, <1>4
    <2> HIDE DEF Seen
    <2>5. QED BY <1>4, <2>1, <2>2, <2>3, <2>4, OneMore
<1>5. Right(Len(s))
    <2> HIDE DEF Right
    <2>1. PICK T : T = {n \in Nat : n <= Len(s) => Right(n)}
        OBVIOUS
    <2>2. T \in SUBSET Nat /\ 0 \in T /\ \A n \in T : n + 1 \in T
        BY <1>2, <1>3, <1>4, <2>1
    <2>3. Len(s) \in T
        BY <2>2, <1>2, SetInduction
    <2>4. QED BY <1>2, <2>1, <2>3
<1>6. Seen(Len(s)) = ToSet(s)
    BY <1>2 DEF ToSet
<1>7. QED BY <1>1, <1>5, <1>6

(* The first state.                                                        *)
LEMMA WorkStarts == WorkInit => WorkInv
<1> SUFFICES ASSUME WorkInit PROVE WorkInv
    OBVIOUS
<1>1. ToSet(<<>>) = {} /\ NoneTwice(<<>>) /\ <<>> \in Seq(Job)
      /\ <<>> \in Seq({j \in Job : kind[j] \in {"file", "directory"}})
    BY DEF ToSet, NoneTwice
<1>2. WorkTypeOK
    BY <1>1, NoJobAssumption, MaxRuntimesAssumption DEF WorkInit, WorkTypeOK, WorkPhase
<1>3. WhereInv([j \in Job |-> "none"])
    BY <1>1, NoJobAssumption, MaxRuntimesAssumption DEF WorkInit, WhereInv
<1>4. [j \in Job |-> "none"] \in [Job -> Place]
    BY DEF Place
<1>5. QED BY <1>1, <1>2, <1>3, <1>4 DEF WorkInit, WorkInv, NoWorkForDestroyedRuntime,
       QueueInv, StackInv

(* A call of a script: what becomes of the job, if it has any work to do.  *)
LEMMA BeginIs ==
    ASSUME WorkInv, NEW j \in Job, NEW k \in Kind, Begin(j, k)
    PROVE  /\ phase \in {"js", "io", "timers", "file", "mesh"} /\ kind[j] = "none"
           /\ kind' \in [Job -> Kind \cup {"none"}] /\ owner' \in [Job -> 0 .. runtime]
           /\ jobProtects' \in [Job -> Int]
           /\ kind' = [kind EXCEPT ![j] = k] /\ owner' = [owner EXCEPT ![j] = runtime]
           /\ jobProtects' = [jobProtects EXCEPT ![j] = IF k = "badMesh" THEN 0 ELSE 1]
           /\ j \notin pool /\ j \notin finished /\ j \notin ToSet(completedReads)
           /\ j \notin ToSet(pendingFileCallbacks) /\ j \notin ToSet(pendingDracoCallbacks)
           /\ j \notin ToSet(toProcess) /\ j # currentJob
           /\ completedReads \in Seq({i \in Job : kind'[i] \in {"file", "directory"}})
           /\ \A i \in pool \cup finished : kind'[i] \in {"file", "directory", "mesh"}
<1>1. /\ WorkTypeOK /\ runtime \in Nat \ {0} /\ runtime \in 0 .. runtime
    BY DEF WorkInv, WorkTypeOK
<1>2. PICK place \in [Job -> Place] : WhereInv(place)
    BY DEF WorkInv
<1>3. /\ phase \in {"js", "io", "timers", "file", "mesh"} /\ kind[j] = "none"
      /\ kind' = [kind EXCEPT ![j] = k] /\ owner' = [owner EXCEPT ![j] = runtime]
      /\ jobProtects' = IF k = "badMesh" THEN jobProtects ELSE [jobProtects EXCEPT ![j] = @ + 1]
    BY DEF Begin, ScriptRuns
<1>4. place[j] = "none" /\ jobProtects[j] = 0
    BY <1>2, <1>3 DEF WhereInv
<1>5. jobProtects' = [jobProtects EXCEPT ![j] = IF k = "badMesh" THEN 0 ELSE 1]
    <2>1. CASE k = "badMesh"
        <3>1. jobProtects = [jobProtects EXCEPT ![j] = 0]
            BY <1>1, <1>4 DEF WorkTypeOK
        <3>2. QED BY <1>3, <2>1, <3>1
    <2>2. CASE k # "badMesh"
        BY <1>3, <1>4, <2>2
    <2>3. QED BY <2>1, <2>2
<1>6. /\ kind' \in [Job -> Kind \cup {"none"}] /\ owner' \in [Job -> 0 .. runtime]
      /\ jobProtects' \in [Job -> Int]
    BY <1>1, <1>3, <1>5 DEF WorkTypeOK
<1>7. /\ j \notin pool /\ j \notin finished /\ j \notin ToSet(completedReads)
      /\ j \notin ToSet(pendingFileCallbacks) /\ j \notin ToSet(pendingDracoCallbacks)
      /\ j \notin ToSet(toProcess) /\ j # currentJob
    BY <1>2, <1>4 DEF WhereInv
<1>8. completedReads \in Seq({i \in Job : kind'[i] \in {"file", "directory"}})
    <2>1. completedReads \in Seq({i \in Job : kind[i] \in {"file", "directory"}})
        BY <1>1 DEF WorkTypeOK
    <2>2. ToSet(completedReads) \subseteq {i \in Job : kind[i] \in {"file", "directory"}}
        BY <2>1, Elements
    <2>3. ToSet(completedReads) \subseteq {i \in Job : kind'[i] \in {"file", "directory"}}
        BY <1>1, <1>3, <1>7, <2>2 DEF WorkTypeOK
    <2>4. QED BY <2>1, <2>3, Elements
<1>9. \A i \in pool \cup finished : kind'[i] \in {"file", "directory", "mesh"}
    BY <1>1, <1>3, <1>7 DEF WorkInv, WorkTypeOK
<1>10. QED BY <1>3, <1>5, <1>6, <1>7, <1>8, <1>9

(* A script calls: the job goes to the pool, to the queue of callbacks, or *)
(* nowhere.                                                                *)
LEMMA CallStep ==
    ASSUME WorkInv, NEW j \in Job, ReadFile(j) \/ ReadEmbedded(j)
           \/ DecodeMesh(j) \/ DecodeNothing(j)
    PROVE  WorkInv'
<1>1. /\ WorkTypeOK /\ QueueInv /\ StackInv /\ NoWorkForDestroyedRuntime
    BY DEF WorkInv
<1>2. PICK place \in [Job -> Place] : WhereInv(place)
    BY DEF WorkInv
<1>3. CASE ReadFile(j) \/ DecodeMesh(j)
    <2>1. PICK k \in {"file", "directory", "mesh"} : Begin(j, k)
        BY <1>3 DEF ReadFile, DecodeMesh
    <2>2. k \in Kind /\ k # "badMesh"
        BY DEF Kind
    <2>3. /\ phase \in {"js", "io", "timers", "file", "mesh"} /\ kind[j] = "none"
          /\ kind' \in [Job -> Kind \cup {"none"}] /\ owner' \in [Job -> 0 .. runtime]
          /\ jobProtects' \in [Job -> Int]
          /\ kind' = [kind EXCEPT ![j] = k] /\ owner' = [owner EXCEPT ![j] = runtime]
          /\ jobProtects' = [jobProtects EXCEPT ![j] = 1]
          /\ j \notin pool /\ j \notin finished /\ j \notin ToSet(completedReads)
          /\ j \notin ToSet(pendingFileCallbacks) /\ j \notin ToSet(pendingDracoCallbacks)
          /\ j \notin ToSet(toProcess) /\ j # currentJob
          /\ completedReads \in Seq({i \in Job : kind'[i] \in {"file", "directory"}})
          /\ \A i \in pool \cup finished : kind'[i] \in {"file", "directory", "mesh"}
        BY <2>1, <2>2, BeginIs
    <2>4. /\ pool' = pool \cup {j}
          /\ UNCHANGED <<phase, runtime, finished, completedReads, pendingFileCallbacks,
                         pendingDracoCallbacks, toProcess, currentJob, fresh, called, stale>>
        BY <1>3 DEF ReadFile, DecodeMesh, queueVars
    <2>5. PICK new : new = [place EXCEPT ![j] = "pool"]
        OBVIOUS
    <2>6. new \in [Job -> Place]
        BY <2>5 DEF Place
    <2>7. WhereInv(new)'
        BY <1>1, <1>2, <2>3, <2>4, <2>5 DEF WhereInv, WorkTypeOK
    <2>8. WorkTypeOK'
        BY <1>1, <2>3, <2>4 DEF WorkTypeOK
    <2>9. NoWorkForDestroyedRuntime'
        BY <1>1, <2>3, <2>4 DEF NoWorkForDestroyedRuntime, WorkTypeOK
    <2>10. \A i \in pool' \cup finished' : kind'[i] \in {"file", "directory", "mesh"}
        BY <1>1, <2>3, <2>4 DEF WorkTypeOK
    <2>11. QueueInv' /\ StackInv'
        BY <1>1, <2>4 DEF QueueInv, StackInv
    <2>12. QED BY <2>6, <2>7, <2>8, <2>9, <2>10, <2>11 DEF WorkInv
<1>4. CASE ReadEmbedded(j)
    <2>1. PICK k \in {"embedded"} : Begin(j, k)
        BY <1>4 DEF ReadEmbedded
    <2>2. k \in Kind /\ k # "badMesh" /\ k # "none"
        BY DEF Kind
    <2>3. /\ phase \in {"js", "io", "timers", "file", "mesh"} /\ kind[j] = "none"
          /\ kind' \in [Job -> Kind \cup {"none"}] /\ owner' \in [Job -> 0 .. runtime]
          /\ jobProtects' \in [Job -> Int]
          /\ kind' = [kind EXCEPT ![j] = k] /\ owner' = [owner EXCEPT ![j] = runtime]
          /\ jobProtects' = [jobProtects EXCEPT ![j] = 1]
          /\ j \notin pool /\ j \notin finished /\ j \notin ToSet(completedReads)
          /\ j \notin ToSet(pendingFileCallbacks) /\ j \notin ToSet(pendingDracoCallbacks)
          /\ j \notin ToSet(toProcess) /\ j # currentJob
          /\ completedReads \in Seq({i \in Job : kind'[i] \in {"file", "directory"}})
          /\ \A i \in pool \cup finished : kind'[i] \in {"file", "directory", "mesh"}
        BY <2>1, <2>2, BeginIs
    <2>4. /\ pendingFileCallbacks' = Append(pendingFileCallbacks, j)
          /\ fresh' = fresh \cup {j}
          /\ UNCHANGED <<phase, runtime, pool, finished, completedReads,
                         pendingDracoCallbacks, toProcess, currentJob, called, stale>>
        BY <1>4 DEF ReadEmbedded, poolVars
    <2>5. PICK new : new = [place EXCEPT ![j] = "file"]
        OBVIOUS
    <2>6. new \in [Job -> Place]
        BY <2>5 DEF Place
    <2>7. /\ pendingFileCallbacks' \in Seq(Job) /\ NoneTwice(pendingFileCallbacks')
          /\ ToSet(pendingFileCallbacks') = ToSet(pendingFileCallbacks) \cup {j}
        BY <1>1, <2>3, <2>4, OneMore DEF WorkTypeOK, QueueInv
    <2>8. WhereInv(new)'
        BY <1>1, <1>2, <2>7, <2>3, <2>4, <2>5 DEF WhereInv, WorkTypeOK
    <2>9. WorkTypeOK'
        BY <1>1, <2>7, <2>3, <2>4 DEF WorkTypeOK
    <2>10. NoWorkForDestroyedRuntime'
        BY <1>1, <2>3, <2>4 DEF NoWorkForDestroyedRuntime, WorkTypeOK
    <2>11. \A i \in pool' \cup finished' : kind'[i] \in {"file", "directory", "mesh"}
        BY <2>3, <2>4
    <2>12. QueueInv' /\ StackInv'
        BY <1>1, <2>7, <2>4 DEF QueueInv, StackInv
    <2>13. QED BY <2>6, <2>8, <2>9, <2>10, <2>11, <2>12 DEF WorkInv
<1>5. CASE DecodeNothing(j)
    <2>1. Begin(j, "badMesh")
        BY <1>5 DEF DecodeNothing
    <2>2. "badMesh" \in Kind
        BY DEF Kind
    <2>3. /\ phase \in {"js", "io", "timers", "file", "mesh"} /\ kind[j] = "none"
          /\ kind' \in [Job -> Kind \cup {"none"}] /\ owner' \in [Job -> 0 .. runtime]
          /\ jobProtects' \in [Job -> Int]
          /\ kind' = [kind EXCEPT ![j] = "badMesh"] /\ owner' = [owner EXCEPT ![j] = runtime]
          /\ jobProtects' = [jobProtects EXCEPT ![j] = 0]
          /\ j \notin pool /\ j \notin finished /\ j \notin ToSet(completedReads)
          /\ j \notin ToSet(pendingFileCallbacks) /\ j \notin ToSet(pendingDracoCallbacks)
          /\ j \notin ToSet(toProcess) /\ j # currentJob
          /\ completedReads \in Seq({i \in Job : kind'[i] \in {"file", "directory"}})
          /\ \A i \in pool \cup finished : kind'[i] \in {"file", "directory", "mesh"}
        BY <2>1, <2>2, BeginIs
    <2>4. UNCHANGED <<phase, runtime, pool, finished, completedReads, pendingFileCallbacks,
                      pendingDracoCallbacks, toProcess, currentJob, fresh, called, stale>>
        BY <1>5 DEF DecodeNothing, poolVars, queueVars
    <2>5. WhereInv(place)'
        BY <1>1, <1>2, <2>3, <2>4 DEF WhereInv, WorkTypeOK
    <2>6. WorkTypeOK'
        BY <1>1, <2>3, <2>4 DEF WorkTypeOK
    <2>7. NoWorkForDestroyedRuntime'
        BY <1>1, <2>3, <2>4 DEF NoWorkForDestroyedRuntime, WorkTypeOK
    <2>8. \A i \in pool' \cup finished' : kind'[i] \in {"file", "directory", "mesh"}
        BY <2>3, <2>4
    <2>9. QueueInv' /\ StackInv'
        BY <1>1, <2>4 DEF QueueInv, StackInv
    <2>10. QED BY <1>2, <2>5, <2>6, <2>7, <2>8, <2>9 DEF WorkInv
<1>6. QED BY <1>3, <1>4, <1>5

(* A worker thread returns, or brings the process down.                    *)
LEMMA WorkerStep ==
    ASSUME WorkInv, NEW j \in Job, WorkerReturns(j) \/ WorkerThrows(j)
    PROVE  WorkInv'
<1>1. /\ WorkTypeOK /\ QueueInv /\ StackInv /\ NoWorkForDestroyedRuntime
      /\ \A i \in pool \cup finished : kind[i] \in {"file", "directory", "mesh"}
    BY DEF WorkInv
<1>2. PICK place \in [Job -> Place] : WhereInv(place)
    BY DEF WorkInv
<1>3. CASE WorkerReturns(j)
    <2>1. /\ j \in pool /\ pool' = pool \ {j} /\ finished' = finished \cup {j}
          /\ UNCHANGED <<phase, runtime, kind, owner, completedReads, pendingFileCallbacks,
                         pendingDracoCallbacks, toProcess, currentJob, jobProtects, fresh,
                         called, stale>>
        BY <1>3 DEF WorkerReturns, jobVars, queueVars, callbackVars
    <2>2. PICK new : new = [place EXCEPT ![j] = "finished"]
        OBVIOUS
    <2>3. new \in [Job -> Place]
        BY <2>2 DEF Place
    <2>4. WhereInv(new)'
        BY <1>2, <2>1, <2>2 DEF WhereInv
    <2>5. WorkTypeOK' /\ NoWorkForDestroyedRuntime' /\ QueueInv' /\ StackInv'
        BY <1>1, <2>1 DEF WorkTypeOK, NoWorkForDestroyedRuntime, QueueInv, StackInv
    <2>6. \A i \in pool' \cup finished' : kind'[i] \in {"file", "directory", "mesh"}
        BY <1>1, <2>1
    <2>7. QED BY <2>3, <2>4, <2>5, <2>6 DEF WorkInv
<1>4. CASE WorkerThrows(j)
    <2>1. /\ j \in pool /\ phase' = "aborted"
          /\ UNCHANGED <<runtime, kind, owner, pool, finished, completedReads,
                         pendingFileCallbacks,
                         pendingDracoCallbacks, toProcess, currentJob, jobProtects, fresh,
                         called, stale>>
        BY <1>4 DEF WorkerThrows, jobVars, poolVars, queueVars,
               callbackVars
    <2>2. phase # "down"
        BY <1>1, <2>1 DEF NoWorkForDestroyedRuntime
    <2>3. WhereInv(place)'
        BY <1>2, <2>1, <2>2 DEF WhereInv
    <2>4. WorkTypeOK' /\ NoWorkForDestroyedRuntime' /\ QueueInv' /\ StackInv'
        BY <1>1, <2>1 DEF WorkTypeOK, WorkPhase, NoWorkForDestroyedRuntime, QueueInv,
               StackInv
    <2>5. QED BY <1>1, <1>2, <2>1, <2>3, <2>4 DEF WorkInv
<1>5. QED BY <1>3, <1>4

(* The loop delivers a finished job.                                       *)
LEMMA AfterWorkStep ==
    ASSUME WorkInv, NEW j \in Job, AfterWork(j)
    PROVE  WorkInv'
<1>1. /\ WorkTypeOK /\ QueueInv /\ StackInv /\ NoWorkForDestroyedRuntime
      /\ \A i \in pool \cup finished : kind[i] \in {"file", "directory", "mesh"}
    BY DEF WorkInv
<1>2. PICK place \in [Job -> Place] : WhereInv(place)
    BY DEF WorkInv
<1>3. /\ j \in finished /\ finished' = finished \ {j}
      /\ UNCHANGED <<phase, runtime, kind, owner, pool, pendingFileCallbacks, toProcess,
                     currentJob, jobProtects, fresh, called, stale>>
    BY DEF AfterWork, jobVars, callbackVars
<1>4. place[j] = "finished"
    BY <1>2, <1>3 DEF WhereInv
<1>5. \A i \in pool' \cup finished' : kind'[i] \in {"file", "directory", "mesh"}
    BY <1>1, <1>3
<1>6. NoWorkForDestroyedRuntime' /\ StackInv'
    BY <1>1, <1>3 DEF NoWorkForDestroyedRuntime, StackInv
<1>7. CASE kind[j] = "mesh"
    <2>1. pendingDracoCallbacks' = Append(pendingDracoCallbacks, j) /\ UNCHANGED completedReads
        BY <1>7 DEF AfterWork
    <2>2. j \notin ToSet(pendingDracoCallbacks)
        BY <1>2, <1>4 DEF WhereInv
    <2>3. /\ pendingDracoCallbacks' \in Seq(Job) /\ NoneTwice(pendingDracoCallbacks')
          /\ ToSet(pendingDracoCallbacks') = ToSet(pendingDracoCallbacks) \cup {j}
        BY <1>1, <2>1, <2>2, OneMore DEF WorkTypeOK, QueueInv
    <2>4. PICK new : new = [place EXCEPT ![j] = "mesh"]
        OBVIOUS
    <2>5. new \in [Job -> Place]
        BY <2>4 DEF Place
    <2>6. WhereInv(new)'
        BY <1>2, <1>3, <1>4, <1>7, <2>1, <2>3, <2>4 DEF WhereInv
    <2>7. WorkTypeOK' /\ QueueInv'
        BY <1>1, <1>3, <2>1, <2>3 DEF WorkTypeOK, QueueInv
    <2>8. QED BY <1>5, <1>6, <2>5, <2>6, <2>7 DEF WorkInv
<1>8. CASE kind[j] # "mesh"
    <2>1. completedReads' = Append(completedReads, j) /\ UNCHANGED pendingDracoCallbacks
        BY <1>8 DEF AfterWork
    <2>2. j \notin ToSet(completedReads) /\ j \in {i \in Job : kind[i] \in {"file",
    "directory"}}
        BY <1>1, <1>2, <1>3, <1>4, <1>8 DEF WhereInv
    <2>3. PICK S : S = {i \in Job : kind[i] \in {"file", "directory"}}
        OBVIOUS
    <2>4. /\ completedReads' \in Seq(S) /\ NoneTwice(completedReads')
          /\ ToSet(completedReads') = ToSet(completedReads) \cup {j}
        BY <1>1, <2>1, <2>2, <2>3, OneMore DEF WorkTypeOK, QueueInv
    <2>5. PICK new : new = [place EXCEPT ![j] = "completed"]
        OBVIOUS
    <2>6. new \in [Job -> Place]
        BY <2>5 DEF Place
    <2>7. WhereInv(new)'
        BY <1>1, <1>2, <1>3, <1>4, <1>8, <2>1, <2>4, <2>5 DEF WhereInv
    <2>8. WorkTypeOK' /\ QueueInv'
        BY <1>1, <1>3, <2>1, <2>3, <2>4 DEF WorkTypeOK, QueueInv
    <2>9. QED BY <1>5, <1>6, <2>6, <2>7, <2>8 DEF WorkInv
<1>9. QED BY <1>7, <1>8

(* The steps of the main thread that move no job.                          *)
LEMMA PhaseStep ==
    ASSUME WorkInv, EnterPoll \/ LeavePoll \/ TimersDone
           \/ MeshesDone \/ Shutdown
                        \/ CreateRuntime \/ UNCHANGED workVars
    PROVE  WorkInv'
<1>1. /\ WorkTypeOK /\ QueueInv /\ StackInv /\ NoWorkForDestroyedRuntime
      /\ \A i \in pool \cup finished : kind[i] \in {"file", "directory", "mesh"}
    BY DEF WorkInv
<1>2. PICK place \in [Job -> Place] : WhereInv(place)
    BY DEF WorkInv
<1>3. /\ UNCHANGED <<kind, owner, pool, finished, completedReads, pendingFileCallbacks,
                     pendingDracoCallbacks, toProcess, currentJob, jobProtects, called, stale>>
      /\ fresh' \subseteq fresh
    BY DEF EnterPoll, LeavePoll, TimersDone, MeshesDone, Shutdown,
           CreateRuntime, workVars, jobVars,
           poolVars, queueVars, callbackVars
<1>4. CASE CreateRuntime
    <2>1. /\ phase = "down" /\ phase' = "js"
          /\ runtime' = runtime + 1 /\ runtime' \in 1 .. MaxRuntimes
        BY <1>1, <1>4, NoJobAssumption, MaxRuntimesAssumption DEF CreateRuntime, WorkTypeOK
    <2>2. pool = {} /\ finished = {}
        BY <1>1, <2>1 DEF NoWorkForDestroyedRuntime
    <2>3. owner \in [Job -> 0 .. runtime'] /\ \A j \in Job : owner[j] # runtime'
        <3>1. runtime \in Nat
            BY <1>1 DEF WorkTypeOK
        <3>2. \A j \in Job : owner[j] \in 0 .. runtime
            BY <1>1 DEF WorkTypeOK
        <3>3. \A j \in Job : owner[j] \in 0 .. runtime' /\ owner[j] # runtime'
            BY <2>1, <3>1, <3>2
        <3>4. QED BY <1>1, <3>3 DEF WorkTypeOK
    <2>4. WorkTypeOK'
        BY <1>1, <1>3, <2>1, <2>3 DEF WorkTypeOK, WorkPhase
    <2>5. WhereInv(place)'
        BY <1>2, <1>3, <2>3 DEF WhereInv
    <2>6. QueueInv' /\ StackInv' /\ NoWorkForDestroyedRuntime'
        BY <1>1, <1>3, <2>1, <2>2 DEF QueueInv, StackInv, NoWorkForDestroyedRuntime
    <2>7. QED BY <1>1, <1>2, <1>3, <2>4, <2>5, <2>6 DEF WorkInv
<1>5. CASE ~CreateRuntime
    <2>1. /\ runtime' = runtime
          /\ \/ phase' = phase
             \/ phase = "meshes" /\ phase' = "js" /\ toProcess = <<>>
             \/ /\ phase \in {"js", "loop", "timers"}
                /\ phase' \in {"loop", "io", "files", "drain"}
        BY <1>5 DEF EnterPoll, LeavePoll, TimersDone, MeshesDone,
               Shutdown, workVars
    <2>2. WorkTypeOK'
        BY <1>1, <1>3, <2>1 DEF WorkTypeOK, WorkPhase
    <2>3. WhereInv(place)'
        BY <1>2, <1>3, <2>1 DEF WhereInv
    <2>4. QueueInv' /\ StackInv' /\ NoWorkForDestroyedRuntime'
        BY <1>1, <1>3, <2>1 DEF QueueInv, StackInv, NoWorkForDestroyedRuntime
    <2>5. QED BY <1>1, <1>2, <1>3, <2>2, <2>3, <2>4 DEF WorkInv
<1>6. QED BY <1>4, <1>5

(* processCompletedReads: a completed read becomes a callback to make, or  *)
(* is lost with the runtime that asked for it.                             *)
LEMMA TakeReadsStep ==
    ASSUME WorkInv, TakeReads
    PROVE  WorkInv'
<1>1. /\ WorkTypeOK /\ QueueInv /\ StackInv /\ NoWorkForDestroyedRuntime
      /\ \A i \in pool \cup finished : kind[i] \in {"file", "directory", "mesh"}
    BY DEF WorkInv
<1>2. PICK place \in [Job -> Place] : WhereInv(place)
    BY DEF WorkInv
<1>3. /\ phase = "io" /\ phase' = "timers" /\ completedReads' = <<>>
      /\ pendingFileCallbacks' = pendingFileCallbacks \o Only(completedReads, Mine)
      /\ fresh' = fresh \cup (ToSet(completedReads) \cap Mine)
      /\ stale' = stale \cup (ToSet(completedReads) \ Mine)
      /\ UNCHANGED <<runtime, kind, owner, pool, finished, pendingDracoCallbacks, toProcess,
                     currentJob, jobProtects, called>>
    BY DEF TakeReads, jobVars, poolVars
<1>4. /\ completedReads \in Seq(Job) /\ ToSet(completedReads) \subseteq Job
    <2>1. completedReads \in Seq({j \in Job : kind[j] \in {"file", "directory"}})
        BY <1>1 DEF WorkTypeOK
    <2>2. ToSet(completedReads) \subseteq {j \in Job : kind[j] \in {"file", "directory"}}
        BY <2>1, Elements
    <2>3. ToSet(completedReads) \subseteq Job
        BY <2>2
    <2>4. QED BY <2>1, <2>3, Elements
<1>5. PICK taken : taken = Only(completedReads, Mine)
    OBVIOUS
<1>6. taken \in Seq(Job) /\ NoneTwice(taken) /\ ToSet(taken) = ToSet(completedReads) \cap Mine
    BY <1>1, <1>4, <1>5, OnlyElements DEF QueueInv
<1>7. ToSet(pendingFileCallbacks) \cap ToSet(taken) = {}
    BY <1>2, <1>4, <1>6 DEF WhereInv
<1>8. /\ pendingFileCallbacks' \in Seq(Job) /\ NoneTwice(pendingFileCallbacks')
      /\ ToSet(pendingFileCallbacks') = ToSet(pendingFileCallbacks) \cup ToSet(taken)
    <2>1. pendingFileCallbacks \in Seq(Job) /\ NoneTwice(pendingFileCallbacks)
        BY <1>1 DEF WorkTypeOK, QueueInv
    <2>2. /\ pendingFileCallbacks \o taken \in Seq(Job)
          /\ NoneTwice(pendingFileCallbacks \o taken)
          /\ ToSet(pendingFileCallbacks \o taken)
                = ToSet(pendingFileCallbacks) \cup ToSet(taken)
        BY <1>6, <1>7, <2>1, JoinQueues
    <2>3. pendingFileCallbacks' = pendingFileCallbacks \o taken
        BY <1>3, <1>5
    <2>4. QED BY <2>2, <2>3
<1>9. /\ ToSet(completedReads') = {} /\ NoneTwice(completedReads')
      /\ completedReads' \in Seq({j \in Job : kind'[j] \in {"file", "directory"}})
    BY <1>3, Unqueued
<1>10. PICK new : new = [j \in Job |-> IF place[j] # "completed" THEN place[j]
                                       ELSE IF owner[j] = runtime THEN "file" ELSE "none"]
    OBVIOUS
<1>11. new \in [Job -> Place]
    BY <1>10 DEF Place
<1>12. \A j \in Job : j \in Mine <=> owner[j] = runtime
    BY DEF Mine
<1>13. WhereInv(new)'
    BY <1>2, <1>3, <1>6, <1>8, <1>9, <1>10, <1>12 DEF WhereInv
<1>14. WorkTypeOK'
    BY <1>1, <1>3, <1>4, <1>8, <1>9 DEF WorkTypeOK, WorkPhase
<1>15. QueueInv' /\ StackInv' /\ NoWorkForDestroyedRuntime'
    BY <1>1, <1>3, <1>8, <1>9 DEF QueueInv, StackInv, NoWorkForDestroyedRuntime
<1>16. QED BY <1>1, <1>3, <1>11, <1>13, <1>14, <1>15 DEF WorkInv

(* The first callback of the queue is taken off it and called.             *)
LEMMA CallFileStep ==
    ASSUME WorkInv, CallFile
    PROVE  WorkInv'
<1>1. /\ WorkTypeOK /\ QueueInv /\ StackInv /\ NoWorkForDestroyedRuntime
      /\ \A i \in pool \cup finished : kind[i] \in {"file", "directory", "mesh"}
    BY DEF WorkInv
<1>2. PICK place \in [Job -> Place] : WhereInv(place)
    BY DEF WorkInv
<1>3. PICK j : j = Head(pendingFileCallbacks)
    OBVIOUS
<1>4. /\ phase = "files" /\ phase' = "file" /\ pendingFileCallbacks # <<>> /\ currentJob' = j
      /\ pendingFileCallbacks' = Tail(pendingFileCallbacks) /\ called' = called \cup {j}
      /\ UNCHANGED <<runtime, kind, owner, pool, finished, completedReads,
                     pendingDracoCallbacks,
                     toProcess, jobProtects, fresh, stale>>
    BY <1>3 DEF CallFile, jobVars, poolVars
<1>5. /\ j \in ToSet(pendingFileCallbacks) /\ pendingFileCallbacks' \in Seq(Job)
      /\ NoneTwice(pendingFileCallbacks')
      /\ ToSet(pendingFileCallbacks') = ToSet(pendingFileCallbacks) \ {j}
    BY <1>1, <1>3, <1>4, TakeFirst DEF WorkTypeOK, QueueInv
<1>6. j \in Job /\ currentJob = NoJob
    BY <1>1, <1>4, <1>5, Elements DEF WorkTypeOK, StackInv
<1>7. PICK new : new = [place EXCEPT ![j] = "stack"]
    OBVIOUS
<1>8. new \in [Job -> Place]
    BY <1>6, <1>7 DEF Place
<1>9. WhereInv(new)'
    BY <1>2, <1>4, <1>5, <1>6, <1>7, NoJobAssumption, MaxRuntimesAssumption DEF WhereInv
<1>10. WorkTypeOK'
    BY <1>1, <1>4, <1>5, <1>6 DEF WorkTypeOK, WorkPhase
<1>11. QueueInv' /\ StackInv' /\ NoWorkForDestroyedRuntime'
    BY <1>1, <1>4, <1>5, <1>6 DEF QueueInv, StackInv, NoWorkForDestroyedRuntime
<1>12. QED BY <1>1, <1>4, <1>8, <1>9, <1>10, <1>11 DEF WorkInv

(* The same for the first callback of the batch.                           *)
LEMMA CallMeshStep ==
    ASSUME WorkInv, CallMesh
    PROVE  WorkInv'
<1>1. /\ WorkTypeOK /\ QueueInv /\ StackInv /\ NoWorkForDestroyedRuntime
      /\ \A i \in pool \cup finished : kind[i] \in {"file", "directory", "mesh"}
    BY DEF WorkInv
<1>2. PICK place \in [Job -> Place] : WhereInv(place)
    BY DEF WorkInv
<1>3. PICK j : j = Head(toProcess)
    OBVIOUS
<1>4. /\ phase = "meshes" /\ phase' = "mesh" /\ toProcess # <<>> /\ currentJob' = j
      /\ toProcess' = Tail(toProcess) /\ called' = called \cup {j}
      /\ UNCHANGED <<runtime, kind, owner, pool, finished, completedReads, pendingFileCallbacks,
                     pendingDracoCallbacks, jobProtects, fresh, stale>>
    BY <1>3 DEF CallMesh, jobVars, poolVars
<1>5. /\ j \in ToSet(toProcess) /\ toProcess' \in Seq(Job) /\ NoneTwice(toProcess')
      /\ ToSet(toProcess') = ToSet(toProcess) \ {j}
    BY <1>1, <1>3, <1>4, TakeFirst DEF WorkTypeOK, QueueInv
<1>6. j \in Job /\ currentJob = NoJob
    BY <1>1, <1>4, <1>5, Elements DEF WorkTypeOK, StackInv
<1>7. PICK new : new = [place EXCEPT ![j] = "stack"]
    OBVIOUS
<1>8. new \in [Job -> Place]
    BY <1>6, <1>7 DEF Place
<1>9. WhereInv(new)'
    BY <1>2, <1>4, <1>5, <1>6, <1>7, NoJobAssumption, MaxRuntimesAssumption DEF WhereInv
<1>10. WorkTypeOK'
    BY <1>1, <1>4, <1>5, <1>6 DEF WorkTypeOK, WorkPhase
<1>11. QueueInv' /\ StackInv' /\ NoWorkForDestroyedRuntime'
    BY <1>1, <1>4, <1>5, <1>6 DEF QueueInv, StackInv, NoWorkForDestroyedRuntime
<1>12. QED BY <1>1, <1>4, <1>8, <1>9, <1>10, <1>11 DEF WorkInv

(* The callback returns and is released.                                   *)
LEMMA JobReturnsStep ==
    ASSUME WorkInv, JobReturns
    PROVE  WorkInv'
<1>1. /\ WorkTypeOK /\ QueueInv /\ StackInv /\ NoWorkForDestroyedRuntime
      /\ \A i \in pool \cup finished : kind[i] \in {"file", "directory", "mesh"}
    BY DEF WorkInv
<1>2. PICK place \in [Job -> Place] : WhereInv(place)
    BY DEF WorkInv
<1>3. PICK j : j = currentJob
    OBVIOUS
<1>4. /\ phase \in {"file", "mesh"}
      /\ phase' = IF phase = "file" THEN "files" ELSE "meshes"
      /\ jobProtects' = [jobProtects EXCEPT ![j] = @ - 1] /\ currentJob' = NoJob
      /\ UNCHANGED <<runtime, kind, owner, pool, finished, completedReads, pendingFileCallbacks,
                     pendingDracoCallbacks, toProcess, fresh, called, stale>>
    BY <1>3 DEF JobReturns, jobVars, poolVars, queueVars
<1>5. j \in Job
    BY <1>1, <1>3, <1>4 DEF StackInv
<1>6. /\ place[j] = "stack" /\ kind[j] # "none"
      /\ owner[j] = runtime => jobProtects[j] = 1
    BY <1>2, <1>3, <1>4, <1>5 DEF WhereInv
<1>7. PICK new : new = [place EXCEPT ![j] = "none"]
    OBVIOUS
<1>8. new \in [Job -> Place]
    BY <1>5, <1>7 DEF Place
<1>9. jobProtects' \in [Job -> Int] /\ (owner[j] = runtime => jobProtects'[j] = 0)
      /\ \A i \in Job \ {j} : jobProtects'[i] = jobProtects[i]
    BY <1>1, <1>4, <1>5, <1>6 DEF WorkTypeOK
<1>10. \A i \in Job : i # NoJob
    BY NoJobAssumption, MaxRuntimesAssumption
<1>11. WhereInv(new)'
    <2>1. SUFFICES ASSUME NEW i \in Job PROVE
            /\ i \in pool' <=> new[i] = "pool"
            /\ i \in finished' <=> new[i] = "finished"
            /\ i \in ToSet(completedReads') <=> new[i] = "completed"
            /\ i \in ToSet(pendingFileCallbacks') <=> new[i] = "file"
            /\ i \in ToSet(pendingDracoCallbacks') <=> new[i] = "mesh"
            /\ i \in ToSet(toProcess') <=> new[i] = "batch"
            /\ i = currentJob' <=> new[i] = "stack"
            /\ kind'[i] = "none" => new[i] = "none" /\ owner'[i] = 0 /\ jobProtects'[i] = 0
            /\ owner'[i] = runtime' /\ phase' # "down"
                  => jobProtects'[i] = IF new[i] = "none" THEN 0 ELSE 1
        BY DEF WhereInv
    <2>2. CASE i = j
        BY <1>2, <1>4, <1>5, <1>6, <1>7, <1>9, <1>10, <2>2 DEF WhereInv
    <2>3. CASE i # j
        BY <1>2, <1>3, <1>4, <1>5, <1>7, <1>9, <1>10, <2>3 DEF WhereInv
    <2>4. QED BY <2>2, <2>3
<1>12. WorkTypeOK'
    BY <1>1, <1>4, <1>9 DEF WorkTypeOK, WorkPhase
<1>13. QueueInv' /\ StackInv' /\ NoWorkForDestroyedRuntime'
    BY <1>1, <1>4 DEF QueueInv, StackInv, NoWorkForDestroyedRuntime
<1>14. QED BY <1>1, <1>4, <1>8, <1>11, <1>12, <1>13 DEF WorkInv

(* processPendingDracoCallbacks swaps its queue out.                       *)
LEMMA TakeMeshesStep ==
    ASSUME WorkInv, TakeMeshes
    PROVE  WorkInv'
<1>1. /\ WorkTypeOK /\ QueueInv /\ StackInv /\ NoWorkForDestroyedRuntime
      /\ \A i \in pool \cup finished : kind[i] \in {"file", "directory", "mesh"}
    BY DEF WorkInv
<1>2. PICK place \in [Job -> Place] : WhereInv(place)
    BY DEF WorkInv
<1>3. /\ phase = "files" /\ phase' = "meshes" /\ toProcess' = pendingDracoCallbacks
      /\ pendingDracoCallbacks' = <<>>
      /\ UNCHANGED <<runtime, kind, owner, pool, finished, completedReads, pendingFileCallbacks,
                     currentJob, jobProtects, fresh, called, stale>>
    BY DEF TakeMeshes, jobVars, poolVars, callbackVars
<1>4. /\ ToSet(pendingDracoCallbacks') = {} /\ NoneTwice(pendingDracoCallbacks')
      /\ pendingDracoCallbacks' \in Seq(Job)
    BY <1>3, Unqueued
<1>5. ToSet(toProcess) = {}
    BY <1>1, <1>3, Unqueued DEF StackInv
<1>6. PICK new : new = [j \in Job |-> IF place[j] = "mesh" THEN "batch" ELSE place[j]]
    OBVIOUS
<1>7. new \in [Job -> Place]
    BY <1>6 DEF Place
<1>8. WhereInv(new)'
    BY <1>2, <1>3, <1>4, <1>5, <1>6 DEF WhereInv
<1>9. WorkTypeOK'
    BY <1>1, <1>3, <1>4 DEF WorkTypeOK, WorkPhase
<1>10. QueueInv' /\ StackInv' /\ NoWorkForDestroyedRuntime'
    BY <1>1, <1>3, <1>4 DEF QueueInv, StackInv, NoWorkForDestroyedRuntime
<1>11. QED BY <1>1, <1>3, <1>7, <1>8, <1>9, <1>10 DEF WorkInv

(* The engine and the runtime's queues go; the pool is idle by then.       *)
LEMMA DestroyStep ==
    ASSUME WorkInv, Destroy
    PROVE  WorkInv'
<1>1. /\ WorkTypeOK /\ QueueInv /\ StackInv /\ NoWorkForDestroyedRuntime
    BY DEF WorkInv
<1>2. PICK place \in [Job -> Place] : WhereInv(place)
    BY DEF WorkInv
<1>3. /\ phase = "drain" /\ phase' = "down" /\ pool = {} /\ finished = {}
      /\ pendingFileCallbacks' = <<>> /\ pendingDracoCallbacks' = <<>>
      /\ jobProtects' = [j \in Job |-> 0]
      /\ UNCHANGED <<runtime, kind, owner, pool, finished, completedReads, toProcess,
                     currentJob,
                     fresh, called, stale>>
    BY DEF Destroy, jobVars, poolVars
<1>4. /\ ToSet(pendingFileCallbacks') = {} /\ NoneTwice(pendingFileCallbacks')
      /\ ToSet(pendingDracoCallbacks') = {} /\ NoneTwice(pendingDracoCallbacks')
      /\ pendingFileCallbacks' \in Seq(Job) /\ pendingDracoCallbacks' \in Seq(Job)
    BY <1>3, Unqueued
<1>5. PICK new : new = [j \in Job |-> IF place[j] \in {"file", "mesh"} THEN "none"
                                      ELSE place[j]]
    OBVIOUS
<1>6. new \in [Job -> Place]
    BY <1>5 DEF Place
<1>7. WhereInv(new)'
    BY <1>2, <1>3, <1>4, <1>5 DEF WhereInv
<1>8. WorkTypeOK'
    BY <1>1, <1>3, <1>4 DEF WorkTypeOK, WorkPhase
<1>9. QueueInv' /\ StackInv' /\ NoWorkForDestroyedRuntime'
    BY <1>1, <1>3, <1>4 DEF QueueInv, StackInv, NoWorkForDestroyedRuntime
<1>10. QED BY <1>3, <1>6, <1>7, <1>8, <1>9 DEF WorkInv

(* Every job is in one place at most, and every queue holds it once.       *)
THEOREM WorkInvariance == WorkSpec => []WorkInv
<1>1. WorkInit => WorkInv
    BY WorkStarts
<1>2. WorkInv /\ [WorkNext]_workVars => WorkInv'
    <2>1. SUFFICES ASSUME WorkInv, [WorkNext]_workVars PROVE WorkInv'
        OBVIOUS
    <2>2. CASE AskFromJS
        BY <2>1, <2>2, CallStep DEF AskFromJS
    <2>3. CASE WorkStep
        BY <2>1, <2>3, PhaseStep, TakeReadsStep, CallFileStep, JobReturnsStep, TakeMeshesStep,
           CallMeshStep, DestroyStep DEF WorkStep
    <2>4. CASE \E j \in Job : WorkerReturns(j) \/ WorkerThrows(j) \/ AfterWork(j)
        BY <2>1, <2>4, WorkerStep, AfterWorkStep
    <2>5. CASE Shutdown \/ CreateRuntime \/ UNCHANGED workVars
        BY <2>1, <2>5, PhaseStep
    <2>6. QED BY <2>1, <2>2, <2>3, <2>4, <2>5 DEF WorkNext
<1>3. QED BY <1>1, <1>2, PTL DEF WorkSpec

(* A callback is protected for as long as a thread or a queue has its job. *)
THEOREM CallbackProtection == WorkSpec => []ProtectedUntilCalled
<1>1. WorkInv => ProtectedUntilCalled
    <2>1. SUFFICES ASSUME WorkInv, phase # "down", NEW j \in Job, owner[j] = runtime
                   PROVE  jobProtects[j] =
                              IF j \in pool \cup finished \cup Queued \cup {currentJob}
                              THEN 1 ELSE 0
        BY DEF ProtectedUntilCalled
    <2>2. PICK place \in [Job -> Place] : WhereInv(place)
        BY <2>1 DEF WorkInv
    <2>3. j \in pool \cup finished \cup Queued \cup {currentJob} <=> place[j] # "none"
        BY <2>2 DEF WhereInv, Queued, Place
    <2>4. QED BY <2>1, <2>2, <2>3 DEF WhereInv
<1>2. QED BY <1>1, WorkInvariance, PTL

(* When a runtime is destroyed no thread works for it any more.            *)
THEOREM IdleWhenDestroyed == WorkSpec => []NoWorkForDestroyedRuntime
<1>1. WorkInv => NoWorkForDestroyedRuntime
    BY DEF WorkInv, NoWorkForDestroyedRuntime
<1>2. QED BY <1>1, WorkInvariance, PTL

-----------------------------------------------------------------------------
(* The audio mixer.                                                        *)

(* No source is destroyed while the script runs.                           *)
AliveInv == main \notin {"cleanup", "exit"} => alive = Source

(* What the callback has still to look at is in the list, and it looks at  *)
(* nothing without the lock.                                               *)
TodoInv ==
    \A s \in Source : /\ todo[s] <= listed[s]
                      /\ ~ListLocked => todo[s] = 0

(* The inductive invariant.                                                *)
MixerInv == MixerTypeOK /\ AliveInv /\ TodoInv /\ PlayingIsListed /\ FreedIsUnlisted

USE LengthAssumption, MaxWhenAssumption, MaxCallsAssumption

-----------------------------------------------------------------------------
(* The first state.                                                        *)
LEMMA MixerStarts == MixerInit => MixerInv
<1> SUFFICES ASSUME MixerInit PROVE MixerInv
    OBVIOUS
<1>1. MixerTypeOK
    <2>1. /\ position \in [Source -> 0 .. Length] /\ startIn \in [Source -> 0 .. MaxWhen]
          /\ listed \in [Source -> Nat] /\ todo \in [Source -> Nat]
        BY DEF MixerInit
    <2>2. stopIn \in [Source -> {Never} \cup 0 .. MaxWhen]
        BY DEF MixerInit
    <2>3. /\ main \in MainPhase /\ audio \in AudioPhase
          /\ state \in {"suspended", "running", "closed"}
        BY DEF MixerInit, MainPhase, AudioPhase
    <2>4. target \in Source /\ calls \in 0 .. MaxCalls
        BY DEF MixerInit
    <2>5. /\ alive \subseteq Source /\ hasBuffer \subseteq Source
          /\ loop \subseteq Source /\ playing \subseteq Source
        BY DEF MixerInit
    <2>6. stream \in BOOLEAN /\ shuttingDown \in BOOLEAN
        BY Zenon DEF MixerInit
    <2>7. QED BY <2>1, <2>2, <2>3, <2>4, <2>5, <2>6 DEF MixerTypeOK
<1>2. AliveInv /\ TodoInv /\ PlayingIsListed /\ FreedIsUnlisted
    BY DEF MixerInit, AliveInv, TodoInv, PlayingIsListed, FreedIsUnlisted,
           ListLocked
<1>3. QED BY <1>1, <1>2 DEF MixerInv

(* Every step keeps the types; the list never loses an entry it lacks.     *)
LEMMA MixerTypeStep == ASSUME MixerInv, [MixerNext]_mixerVars
       PROVE MixerTypeOK'
<1> USE DEF MainPhase, AudioPhase, Never
<1>1. ASSUME NEW s \in Source, NEW when \in 0 .. MaxWhen, NEW offset \in 0 .. Length,
             Start(s, when, offset)
      PROVE  MixerTypeOK'
    BY <1>1 DEF Start, Call, MixerInv, MixerTypeOK, contextVars
<1>2. ASSUME NEW s \in Source, NEW when \in 0 .. MaxWhen, Stop(s, when)
      PROVE  MixerTypeOK'
    BY <1>2 DEF Stop, Call, MixerInv, MixerTypeOK, contextVars
<1>3. ASSUME NEW s \in Source, SetBuffer(s) \/ SetLoop(s)
      PROVE  MixerTypeOK'
    BY <1>3 DEF SetBuffer, SetLoop, Call, MixerInv, MixerTypeOK,
           contextVars
<1>4. CASE Resume \/ Suspend \/ Close \/ Cleanup
    <2> USE DEF MixerInv, MixerTypeOK, sourceVars, contextVars
    <2>1. CASE Resume  BY <2>1 DEF Resume, Call
    <2>2. CASE Suspend BY <2>2 DEF Suspend, Call
    <2>3. CASE Close   BY <2>3 DEF Close, Call
    <2>4. CASE Cleanup BY <2>4 DEF Cleanup
    <2>5. QED BY <1>4, <2>1, <2>2, <2>3, <2>4
<1>5. CASE Unlock \/ RegisterSource \/ CloseDone \/ CleanupDone
    <2> USE DEF MixerInv, MixerTypeOK, sourceVars, contextVars
    <2>1. CASE Unlock         BY <2>1 DEF Unlock
    <2>2. CASE RegisterSource BY <2>2 DEF RegisterSource
    <2>3. CASE CloseDone      BY <2>3 DEF CloseDone
    <2>4. CASE CleanupDone    BY <2>4 DEF CleanupDone
    <2>5. QED BY <1>5, <2>1, <2>2, <2>3, <2>4
<1>6. ASSUME NEW s \in Source, DestroySource(s)
      PROVE  MixerTypeOK'
    BY <1>6 DEF DestroySource, MixerInv, MixerTypeOK, sourceVars, contextVars
<1>7. CASE EnterCallback \/ LockList \/ AllMixed \/ AllCollected
    BY <1>7 DEF EnterCallback, LockList, AllMixed, AllCollected,
           MixerInv, MixerTypeOK, sourceVars, contextVars
<1>8. ASSUME NEW s \in Source, Process(s)
      PROVE  MixerTypeOK'
    <2>1. todo' \in [Source -> Nat]
        BY <1>8 DEF Process, MixerInv, MixerTypeOK
    <2>2. playing' \subseteq Source /\ position' \in [Source -> 0 .. Length]
        BY <1>8 DEF Process, MixerInv, MixerTypeOK
    <2>3. QED BY <1>8, <2>1, <2>2 DEF Process, MixerInv, MixerTypeOK, contextVars
<1>9. ASSUME NEW s \in Source, Collect(s)
      PROVE  MixerTypeOK'
    <2>1. todo' \in [Source -> Nat] /\ listed' \in [Source -> Nat]
        BY <1>9 DEF Collect, MixerInv, MixerTypeOK, TodoInv
    <2>2. QED BY <1>9, <2>1 DEF Collect, MixerInv, MixerTypeOK, sourceVars,
           contextVars
<1>10. CASE Advance
    BY <1>10 DEF Advance, MixerInv, MixerTypeOK, contextVars
<1>11. CASE UNCHANGED mixerVars
    BY <1>11 DEF mixerVars, MixerInv, MixerTypeOK, sourceVars, contextVars
<1>12. QED
    BY <1>1, <1>2, <1>3, <1>4, <1>5, <1>6, <1>7, <1>8, <1>9, <1>10, <1>11
    DEF MixerNext, Script, MainStep, AudioStep

(* Every step keeps the rest of the invariant.                             *)
LEMMA MixerSafetyStep ==
    ASSUME MixerInv, [MixerNext]_mixerVars
    PROVE  AliveInv' /\ TodoInv' /\ PlayingIsListed' /\ FreedIsUnlisted'
<1> USE DEF MixerInv, MixerTypeOK, AliveInv, TodoInv, PlayingIsListed,
       FreedIsUnlisted, ListLocked
<1>1. ASSUME NEW s \in Source, NEW when \in 0 .. MaxWhen, NEW offset \in 0 .. Length,
             Start(s, when, offset)
      PROVE  AliveInv' /\ TodoInv' /\ PlayingIsListed' /\ FreedIsUnlisted'
    BY <1>1 DEF Start, Call
<1>2. ASSUME NEW s \in Source, \/ \E when \in 0 .. MaxWhen : Stop(s, when)
                               \/ SetBuffer(s) \/ SetLoop(s)
      PROVE  AliveInv' /\ TodoInv' /\ PlayingIsListed' /\ FreedIsUnlisted'
    BY <1>2 DEF Stop, SetBuffer, SetLoop, Call
<1>3. CASE Resume \/ Suspend \/ Close \/ Cleanup
    BY <1>3 DEF Resume, Suspend, Close, Cleanup, Call,
           sourceVars
<1>4. CASE Unlock \/ CloseDone \/ CleanupDone
    BY <1>4 DEF Unlock, CloseDone, CleanupDone, sourceVars
<1>5. CASE RegisterSource
    BY <1>5 DEF RegisterSource, sourceVars
<1>6. ASSUME NEW s \in Source, DestroySource(s)
      PROVE  AliveInv' /\ TodoInv' /\ PlayingIsListed' /\ FreedIsUnlisted'
    BY <1>6 DEF DestroySource, sourceVars
<1>7. CASE EnterCallback \/ LockList \/ AllMixed \/ AllCollected
    BY <1>7 DEF EnterCallback, LockList, AllMixed, AllCollected,
           sourceVars
<1>8. ASSUME NEW s \in Source, Process(s)
      PROVE  AliveInv' /\ TodoInv' /\ PlayingIsListed' /\ FreedIsUnlisted'
    BY <1>8 DEF Process
<1>9. ASSUME NEW s \in Source, Collect(s)
      PROVE  AliveInv' /\ TodoInv' /\ PlayingIsListed' /\ FreedIsUnlisted'
    BY <1>9 DEF Collect, sourceVars
<1>10. CASE Advance
    BY <1>10 DEF Advance
<1>11. CASE UNCHANGED mixerVars
    BY <1>11 DEF mixerVars, sourceVars
<1>12. QED
    BY <1>1, <1>2, <1>3, <1>4, <1>5, <1>6, <1>7, <1>8, <1>9, <1>10, <1>11
    DEF MixerNext, Script, MainStep, AudioStep

-----------------------------------------------------------------------------
(* The inductive invariant holds in every reachable state.                 *)
THEOREM MixerInvariance == MixerSpec => []MixerInv
<1>1. MixerInv /\ [MixerNext]_mixerVars => MixerInv'
    BY MixerTypeStep, MixerSafetyStep DEF MixerInv
<1>2. QED BY <1>1, MixerStarts, PTL DEF MixerSpec

(* No source that plays is forgotten by the callback, whatever the order   *)
(* in which start() and the callback take the two locks.                   *)
THEOREM PlayingSourcesAreMixed == MixerSpec => []PlayingIsListed
<1>1. MixerInv => PlayingIsListed
    BY DEF MixerInv, PlayingIsListed
<1>2. QED BY <1>1, MixerInvariance, PTL

(* The callback never touches a source that is freed.                      *)
THEOREM FreedSourcesAreForgotten == MixerSpec => []FreedIsUnlisted
<1>1. MixerInv => FreedIsUnlisted
    BY DEF MixerInv, FreedIsUnlisted
<1>2. QED BY <1>1, MixerInvariance, PTL
=============================================================================
