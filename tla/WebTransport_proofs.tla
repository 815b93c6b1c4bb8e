------------------------ MODULE WebTransport_proofs ------------------------
(***************************************************************************)
(* Proofs about WebTransport, for any streams and any number of units on   *)
(* each of them.                                                           *)
(***************************************************************************)
EXTENDS WebTransport, SequenceTheorems, FiniteSetTheorems, WellFoundedInduction, TLAPS

Sending(st) == st.tracked /\ st.outgoing

(* The header and n units of payload.                                      *)
Sent(n) == [i \in 1 .. Header |-> 0] \o Up(n)

(* What quiche has taken (w) and what waits (st.out), of n units of which  *)
(* k were written after close().                                           *)
Flow(w, st, n, k) ==
    /\ w \o st.out = Sent(n)
    /\ st.finSent => st.outFin /\ Len(w) >= Header + n - k

(* A stream the client sends on is one it has created; nothing was sent on *)
(* one before; and its end is given to quiche by a writer that does not    *)
(* accept more as part of the stream.                                      *)
WriteInv ==
    /\ \A s \in Server : ~Sending(streams[s])
    /\ \A s \in Client :
          /\ writer[s] = "none" => wire[s] = <<>> /\ written[s] = 0 /\ late[s] = 0
          /\ Sending(streams[s]) =>
                /\ Flow(wire[s], streams[s], written[s], late[s])
                /\ writer[s] # "none" /\ (streams[s].outFin => writer[s] # "open")

IsClose(e) == e.type = "closed"

(* The event that ends the session is the last of a session that           *)
(* processEvents is about to give up, and of no other.                     *)
SessionInv ==
    /\ pc = "js" => events = <<>> /\ ~teardown /\ owned = listed
    /\ pc \in {"pump", "handshake", "writes", "closure"} =>
          /\ owned /\ listed /\ ~teardown
          /\ \A i \in 1 .. Len(events) : ~IsClose(events[i])
    /\ pc = "dispatch" =>
          IF owned
          THEN teardown <=> (~listed \/ \E i \in 1 .. Len(events) : IsClose(events[i]))
          ELSE events = <<>> /\ ~teardown /\ ~listed

IInv == TypeOK /\ WriteInv /\ SessionInv

-----------------------------------------------------------------------------
(* Sequences.                                                              *)
LEMMA Join ==
    ASSUME NEW w \in Seq(Nat), NEW first \in Seq(Nat), NEW rest \in Seq(Nat)
    PROVE  /\ w \o first \in Seq(Nat) /\ (w \o first) \o rest = w \o (first \o rest)
           /\ rest = <<>> => w \o first = w \o (first \o rest)
<1>1. w \o first \in Seq(Nat) /\ (w \o first) \o rest = w \o (first \o rest)
    BY SMTT(20), ConcatAssociative, ConcatProperties
<1>2. rest = <<>> => w \o first = w \o (first \o rest)
    BY <1>1, ConcatEmptySeq
<1>3. QED BY <1>1, <1>2

LEMMA JoinAppend ==
    ASSUME NEW w \in Seq(Nat), NEW out \in Seq(Nat), NEW e \in Nat
    PROVE  w \o Append(out, e) = Append(w \o out, e)
<1>1. /\ Append(out, e) = out \o <<e>> /\ <<e>> \in Seq(Nat)
      /\ w \o out \in Seq(Nat)
    BY AppendIsConcat, ConcatProperties
<1>2. Append(w \o out, e) = (w \o out) \o <<e>>
    BY <1>1, AppendIsConcat
<1>3. PICK x \in Seq(Nat) : x = <<e>>
    BY <1>1
<1>4. (w \o out) \o x = w \o (out \o x)
    BY ConcatAssociative, SMTT(30)
<1>5. QED BY <1>1, <1>2, <1>3, <1>4

LEMMA CutAnywhere ==
    ASSUME NEW all \in Seq(Nat), NEW i \in 0 .. Len(all)
    PROVE  /\ SubSeq(all, 1, i) \in Seq(Nat) /\ SubSeq(all, i + 1, Len(all)) \in Seq(Nat)
           /\ all = SubSeq(all, 1, i) \o SubSeq(all, i + 1, Len(all))
           /\ i = Len(all) => SubSeq(all, i + 1, Len(all)) = <<>>
<1>1. Len(all) \in Nat /\ \A j \in 1 .. Len(all) : all[j] \in Nat
    BY LenProperties, ElementOfSeq
<1>2. 1 \in Int /\ i \in Int /\ i + 1 \in Int /\ Len(all) \in Int
    BY <1>1
<1>3. (\A j \in 1 .. i : all[j] \in Nat) /\ (\A j \in i + 1 .. Len(all) : all[j] \in Nat)
    BY <1>1
<1>4. SubSeq(all, 1, i) \in Seq(Nat)
    BY <1>2, <1>3, SubSeqProperties
<1>5. SubSeq(all, i + 1, Len(all)) \in Seq(Nat)
    BY <1>2, <1>3, SubSeqProperties
<1>6. SubSeq(all, 1, i) \o SubSeq(all, i + 1, Len(all)) = all
    <2>1. 1 \in 1 .. Len(all) + 1 /\ i \in 1 - 1 .. Len(all) /\ Len(all) \in i .. Len(all)
        BY <1>1
    <2>2. SubSeq(all, 1, i) \o SubSeq(all, i + 1, Len(all)) = SubSeq(all, 1, Len(all))
        BY <2>1, ConcatAdjacentSubSeq
    <2>3. QED BY <2>2, SubSeqFull
<1>7. i = Len(all) => SubSeq(all, i + 1, Len(all)) = <<>>
    BY <1>2, SubSeqEmpty
<1>8. QED BY <1>4, <1>5, <1>6, <1>7

LEMMA SentIs ==
    ASSUME NEW n \in Nat
    PROVE  /\ Sent(n) \in Seq(Nat) /\ Len(Sent(n)) = Header + n
           /\ Sent(n + 1) = Append(Sent(n), n + 1)
           /\ Sent(0) = [i \in 1 .. Header |-> 0]
<1>1. PICK h : h = [i \in 1 .. Header |-> 0]
    OBVIOUS
<1>2. h \in Seq(Nat) /\ Len(h) = Header /\ Header \in Nat /\ \A i \in 1 .. Header : h[i] = 0
    BY <1>1 DEF Header
<1>3. ASSUME NEW k \in Nat
      PROVE  Up(k) \in Seq(Nat) /\ Len(Up(k)) = k /\ \A i \in 1 .. k : Up(k)[i] = i
    BY DEF Up
<1>4. ASSUME NEW k \in Nat
      PROVE  /\ Sent(k) \in Seq(Nat) /\ Len(Sent(k)) = Header + k
             /\ \A i \in 1 .. Header + k : Sent(k)[i] = IF i <= Header THEN 0 ELSE i - Header
    <2>1. PICK u : u = Up(k)
        OBVIOUS
    <2>2. Sent(k) = h \o u
        BY <1>1, <2>1 DEF Sent
    <2>3. u \in Seq(Nat) /\ Len(u) = k /\ \A i \in 1 .. k : u[i] = i
        BY <1>3, <2>1
    <2>4. /\ h \o u \in Seq(Nat) /\ Len(h \o u) = Header + k
          /\ \A i \in 1 .. Header + k : (h \o u)[i] = IF i <= Header THEN h[i] ELSE u[i - Header]
        BY <1>2, <2>3, ConcatProperties
    <2>5. \A i \in 1 .. Header + k : i > Header => i - Header \in 1 .. k
        BY <1>2
    <2>6. \A i \in 1 .. Header + k : i <= Header => i \in 1 .. Header
        BY <1>2
    <2>7. \A i \in 1 .. Header + k : (h \o u)[i] = IF i <= Header THEN 0 ELSE i - Header
        BY <1>2, <2>3, <2>4, <2>5, <2>6
    <2>8. QED BY <2>2, <2>4, <2>7
<1>5. Sent(n + 1) = Append(Sent(n), n + 1)
    <2>1. PICK s, t, r : s = Sent(n + 1) /\ r = Sent(n) /\ t = Append(r, n + 1)
        OBVIOUS
    <2>2. n + 1 \in Nat /\ Header + (n + 1) = Header + n + 1
        BY <1>2
    <2>3. /\ s \in Seq(Nat) /\ Len(s) = Header + n + 1
          /\ \A i \in 1 .. Header + n + 1 : s[i] = IF i <= Header THEN 0 ELSE i - Header
        BY <1>4, <2>1, <2>2
    <2>4. /\ r \in Seq(Nat) /\ Len(r) = Header + n
          /\ \A i \in 1 .. Header + n : r[i] = IF i <= Header THEN 0 ELSE i - Header
        BY <1>4, <2>1
    <2>5. /\ t \in Seq(Nat) /\ Len(t) = Header + n + 1
          /\ \A i \in 1 .. Header + n : t[i] = r[i]
          /\ t[Header + n + 1] = n + 1
        BY <2>1, <2>2, <2>4, AppendProperties
    <2>6. ASSUME NEW i \in 1 .. Header + n + 1 PROVE s[i] = t[i]
        <3>1. i \in 1 .. Header + n \/ i = Header + n + 1
            BY <1>2
        <3>2. CASE i \in 1 .. Header + n
            <4>1. s[i] = IF i <= Header THEN 0 ELSE i - Header
                BY <2>3
            <4>2. t[i] = r[i] /\ r[i] = IF i <= Header THEN 0 ELSE i - Header
                BY <2>4, <2>5, <3>2
            <4>3. QED BY <4>1, <4>2
        <3>3. CASE i = Header + n + 1
            <4>1. ~(i <= Header) /\ i - Header = n + 1
                BY <1>2, <3>3
            <4>2. s[i] = n + 1
                BY <2>3, <4>1
            <4>3. QED BY <2>5, <3>3, <4>2
        <3>4. QED BY <3>1, <3>2, <3>3
    <2>7. s = t
        BY <2>3, <2>5, <2>6, SeqEqual
    <2>8. QED BY <2>1, <2>7
<1>6. Sent(0) = h
    <2>1. Up(0) = <<>>
        BY DEF Up
    <2>2. QED BY <1>1, <1>2, <2>1, ConcatEmptySeq DEF Sent
<1>7. QED BY <1>1, <1>4, <1>5, <1>6

(* pumpStream gives quiche a first part of what waits, and the end of the  *)
(* stream only with the last of it.                                        *)
LEMMA PumpIs ==
    ASSUME NEW s, NEW st \in StreamState, st # NoStream, NEW r \in PumpResults(s, st),
           NEW w \in Seq(Nat), NEW n \in Nat, NEW k \in Nat, Flow(w, st, n, k)
    PROVE  /\ r.state \in StreamState /\ r.state # NoStream
           /\ r.state.outgoing = st.outgoing /\ r.state.outFin = st.outFin
           /\ w \o r.units \in Seq(Nat)
           /\ Flow(w \o r.units, r.state, n, k)
<1>1. /\ st.tracked = TRUE /\ st.outgoing \in BOOLEAN /\ st.announced \in BOOLEAN
      /\ st.header \in 0 .. Header /\ st.out \in Seq(Nat) /\ st.outFin \in BOOLEAN
      /\ st.finSent \in BOOLEAN /\ st.sendError \in BOOLEAN
    BY DEF StreamState
<1>2. CASE r = [state |-> st, units |-> <<>>]
    BY <1>2, ConcatEmptySeq
<1>3. CASE r = [state |-> [st EXCEPT !.sendError = TRUE], units |-> <<>>]
    <2>1. PICK t : t = [st EXCEPT !.sendError = TRUE]
        OBVIOUS
    <2>2. /\ t \in StreamState /\ t # NoStream
          /\ t.outgoing = st.outgoing /\ t.outFin = st.outFin /\ t.finSent = st.finSent
          /\ t.out = st.out
        BY <2>1 DEF StreamState, NoStream
    <2>3. w \o <<>> = w
        BY ConcatEmptySeq
    <2>4. r.state = t /\ r.units = <<>>
        BY <1>3, <2>1
    <2>5. QED BY <2>2, <2>3, <2>4 DEF Flow
<1>4. CASE \E i \in 0 .. Len(st.out) :
              r = [state |-> [st EXCEPT !.out = SubSeq(st.out, i + 1, Len(st.out)),
                                        !.finSent = st.outFin /\ i = Len(st.out)],
                   units |-> SubSeq(st.out, 1, i)]
    <2>1. \E all, first, rest, fin :
              /\ all = st.out /\ first \in Seq(Nat) /\ rest \in Seq(Nat)
              /\ all = first \o rest
              /\ fin \in BOOLEAN /\ (fin => st.outFin /\ rest = <<>>)
              /\ r = [state |-> [st EXCEPT !.out = rest, !.finSent = fin], units |-> first]
        <3>1. PICK i \in 0 .. Len(st.out) :
                  r = [state |-> [st EXCEPT !.out = SubSeq(st.out, i + 1, Len(st.out)),
                                            !.finSent = st.outFin /\ i = Len(st.out)],
                       units |-> SubSeq(st.out, 1, i)]
            BY <1>4
        <3>2. PICK all, first, rest, fin :
                  /\ all = st.out /\ first = SubSeq(all, 1, i) /\ rest = SubSeq(all, i + 1, Len(all))
                  /\ fin = (st.outFin /\ i = Len(all))
            OBVIOUS
        <3>3. all \in Seq(Nat) /\ i \in 0 .. Len(all)
            BY <1>1, <3>2
        <3>4. /\ SubSeq(all, 1, i) \in Seq(Nat) /\ SubSeq(all, i + 1, Len(all)) \in Seq(Nat)
              /\ all = SubSeq(all, 1, i) \o SubSeq(all, i + 1, Len(all))
              /\ i = Len(all) => SubSeq(all, i + 1, Len(all)) = <<>>
            BY <3>3, CutAnywhere
        <3>5. fin \in BOOLEAN
            BY <1>1, <3>2
        <3>6. r = [state |-> [st EXCEPT !.out = rest, !.finSent = fin], units |-> first]
            BY <3>1, <3>2
        <3>7. QED BY <3>2, <3>4, <3>5, <3>6
    <2>2. PICK all, first, rest, fin :
              /\ all = st.out /\ first \in Seq(Nat) /\ rest \in Seq(Nat)
              /\ all = first \o rest
              /\ fin \in BOOLEAN /\ (fin => st.outFin /\ rest = <<>>)
              /\ r = [state |-> [st EXCEPT !.out = rest, !.finSent = fin], units |-> first]
        BY <2>1
    <2>3. PICK t : t = [st EXCEPT !.out = rest, !.finSent = fin]
        OBVIOUS
    <2>4. r.state = t /\ r.units = first
        BY <2>2, <2>3
    <2>5. /\ t \in StreamState /\ t # NoStream /\ t.outgoing = st.outgoing
          /\ t.outFin = st.outFin /\ t.finSent = fin /\ t.out = rest
        BY <2>2, <2>3 DEF StreamState, NoStream
    <2>6. /\ first \in Seq(Nat) /\ rest \in Seq(Nat) /\ st.out = first \o rest
          /\ t.finSent => st.outFin /\ rest = <<>>
        BY <2>2, <2>5
    <2>7. /\ w \o first \in Seq(Nat) /\ (w \o first) \o rest = w \o (first \o rest)
          /\ rest = <<>> => w \o first = w \o (first \o rest)
        <3>1. first \in Seq(Nat) /\ rest \in Seq(Nat)
            BY <2>2
        <3>2. QED BY <3>1, Join
    <2>8. w \o (first \o rest) = Sent(n)
        BY <2>6 DEF Flow
    <2>9. ASSUME fin PROVE st.outFin /\ Len(w \o first) >= Header + n - k
        <3>1. st.outFin /\ w \o first = Sent(n)
            BY <2>2, <2>7, <2>8, <2>9
        <3>2. Len(w \o first) = Header + n /\ Header \in Nat
            BY <3>1, SentIs DEF Header
        <3>3. QED BY <3>1, <3>2
    <2>10. Flow(w \o first, t, n, k)
        BY <2>5, <2>7, <2>8, <2>9 DEF Flow
    <2>11. QED BY <2>4, <2>5, <2>7, <2>10
<1>5. QED BY <1>2, <1>3, <1>4 DEF PumpResults

(* The recursion of FlattenSeq.                                            *)
LEMMA SetInduction ==
    ASSUME NEW T \in SUBSET Nat, 0 \in T, \A n \in T : n + 1 \in T
    PROVE  \A n \in Nat : n \in T
<1> SUFFICES ASSUME Nat \ T # {} PROVE FALSE
    OBVIOUS
<1>1. PICK R : R = OpToRel(<, Nat)
    OBVIOUS
<1>2. PICK x \in Nat \ T : \A y \in Nat \ T : <<y, x>> \notin R
    <2>1. IsWellFoundedOn(R, Nat)
        BY <1>1, NatLessThanWellFounded
    <2>2. QED BY <2>1, WFMin
<1>3. \A y \in Nat \ T : ~(y < x)
    BY <1>1, <1>2 DEF OpToRel
<1>4. x # 0 /\ x - 1 \in T
    BY <1>3
<1>5. QED BY <1>4

LEMMA FlattenIsDefined ==
    ASSUME NEW S, NEW ss \in Seq(S), ss # <<>>
    PROVE  \E f : /\ FlattenSeq(ss) = f[Len(ss)] /\ f[1] = ss[1]
                  /\ \A n \in 2 .. Len(ss) : f[n] = f[n - 1] \o ss[n]
<1> DEFINE Step(f, n) == IF n = 1 THEN ss[n] ELSE f[n - 1] \o ss[n]
<1> DEFINE Defined(n) == \E f : f = [k \in 1 .. n |-> Step(f, k)]
<1>1. Len(ss) \in Nat \ {0}
    BY EmptySeq
<1>2. Defined(0)
    <2>1. PICK f : f = [k \in 1 .. 0 |-> 0]
        OBVIOUS
    <2>2. f = [k \in 1 .. 0 |-> Step(f, k)]
        BY <2>1
    <2>3. QED BY <2>2
<1>3. ASSUME NEW n \in Nat, Defined(n) PROVE Defined(n + 1)
    <2>1. PICK f : f = [k \in 1 .. n |-> Step(f, k)]
        BY <1>3
    <2>2. ASSUME NEW k \in 1 .. n PROVE f[k] = Step(f, k)
        BY <2>1
    <2>3. PICK g : g = [k \in 1 .. n + 1 |-> IF k = n + 1 THEN Step(f, k) ELSE f[k]]
        OBVIOUS
    <2>4. \A k \in 1 .. n : g[k] = f[k]
        BY <2>3
    <2>5. ASSUME NEW k \in 1 .. n + 1 PROVE g[k] = Step(f, k)
        <3> HIDE DEF Step
        <3>1. CASE k = n + 1
            BY <3>1, <2>3
        <3>2. CASE k # n + 1
            BY <3>2, <2>2, <2>4
        <3>3. QED BY <3>1, <3>2
    <2>6. ASSUME NEW k \in 1 .. n + 1 PROVE g[k] = Step(g, k)
        <3>1. CASE k = 1
            BY <3>1, <2>5
        <3>2. CASE k # 1
            <4>1. k - 1 \in 1 .. n /\ g[k - 1] = f[k - 1]
                BY <3>2, <2>4
            <4>2. QED BY <3>2, <4>1, <2>5
        <3>3. QED BY <3>1, <3>2
    <2>7. g = [k \in 1 .. n + 1 |-> Step(g, k)]
        BY <2>3, <2>6
    <2>8. QED BY <2>7
<1>4. Defined(Len(ss))
    <2> HIDE DEF Defined
    <2>1. PICK T : T = {n \in Nat : Defined(n)}
        OBVIOUS
    <2>2. T \in SUBSET Nat /\ 0 \in T /\ \A n \in T : n + 1 \in T
        BY <1>2, <1>3, <2>1
    <2>3. Len(ss) \in T
        BY <2>2, <1>1, SetInduction
    <2>4. QED BY <2>1, <2>3
<1> DEFINE flatten == CHOOSE f : f = [k \in 1 .. Len(ss) |-> Step(f, k)]
<1>5. FlattenSeq(ss) = flatten[Len(ss)]
    BY <1>1 DEF FlattenSeq
<1>6. flatten = [k \in 1 .. Len(ss) |-> Step(flatten, k)]
    BY <1>4
<1>7. PICK f : f = flatten
    OBVIOUS
<1> HIDE DEF flatten
<1>8. f = [k \in 1 .. Len(ss) |-> Step(f, k)]
    BY <1>6, <1>7
<1>9. ASSUME NEW n \in 1 .. Len(ss) PROVE f[n] = Step(f, n)
    BY <1>8
<1>10. f[1] = ss[1]
    <2>1. 1 \in 1 .. Len(ss)
        BY <1>1
    <2>2. QED BY <1>9, <2>1
<1>11. ASSUME NEW n \in 2 .. Len(ss) PROVE f[n] = f[n - 1] \o ss[n]
    <2>1. n \in 1 .. Len(ss) /\ n # 1
        BY <1>1
    <2>2. QED BY <1>9, <2>1
<1>12. FlattenSeq(ss) = f[Len(ss)]
    BY <1>5, <1>7
<1>13. QED BY <1>10, <1>11, <1>12

(* What holds of all entries of all sequences holds of those of the        *)
(* flattened one.                                                          *)
LEMMA FlattenElements ==
    ASSUME NEW S, NEW ss \in Seq(Seq(S))
    PROVE  FlattenSeq(ss) \in Seq(S)
<1>1. CASE ss = <<>>
    <2>1. FlattenSeq(ss) = ss
        BY <1>1 DEF FlattenSeq
    <2>2. QED BY <1>1, <2>1, EmptySeq
<1>2. CASE ss # <<>>
    <2>1. PICK f : /\ FlattenSeq(ss) = f[Len(ss)] /\ f[1] = ss[1]
                   /\ \A n \in 2 .. Len(ss) : f[n] = f[n - 1] \o ss[n]
        BY <1>2, FlattenIsDefined
    <2>2. Len(ss) \in Nat \ {0} /\ \A i \in 1 .. Len(ss) : ss[i] \in Seq(S)
        BY <1>2, EmptySeq, ElementOfSeq
    <2>3. PICK T : T = {n \in Nat : n + 1 <= Len(ss) => f[n + 1] \in Seq(S)}
        OBVIOUS
    <2>4. 0 \in T
        BY <2>1, <2>2, <2>3
    <2>5. ASSUME NEW n \in T PROVE n + 1 \in T
        <3>1. CASE n + 2 <= Len(ss)
            <4>1. PICK m : m = n + 2
                OBVIOUS
            <4>2. m - 1 = n + 1 /\ m \in 2 .. Len(ss) /\ m \in 1 .. Len(ss) /\ n \in Nat
                BY <2>2, <2>3, <3>1, <4>1
            <4>3. f[m] = f[m - 1] \o ss[m] /\ ss[m] \in Seq(S)
                BY <2>1, <2>2, <4>2
            <4>4. f[m - 1] \in Seq(S)
                BY <2>2, <2>3, <4>2
            <4>5. f[m] \in Seq(S)
                BY <4>3, <4>4, ConcatProperties
            <4>6. n + 1 \in Nat /\ n + 1 + 1 = m
                BY <4>1, <4>2
            <4>7. QED BY <2>3, <4>5, <4>6
        <3>2. CASE ~(n + 2 <= Len(ss))
            BY <2>2, <2>3, <3>2
        <3>3. QED BY <3>1, <3>2
    <2>6. Len(ss) - 1 \in T
        <3>1. T \in SUBSET Nat
            BY <2>3
        <3>2. \A n \in Nat : n \in T
            BY <2>4, <2>5, <3>1, SetInduction
        <3>3. QED BY <2>2, <3>2
    <2>7. QED BY <2>1, <2>2, <2>3, <2>6
<1>3. QED BY <1>1, <1>2

(* write() appends a unit; one that is written after the end was sent is   *)
(* among those written after close().                                      *)
LEMMA WriteIs ==
    ASSUME NEW st \in StreamState, st # NoStream, NEW w \in Seq(Nat),
           NEW n \in Nat, NEW k \in Nat, NEW j \in Nat, Flow(w, st, n, k),
           j = k + 1 \/ (j = k /\ ~st.outFin),
           NEW t, t.out = Append(st.out, n + 1), t.outFin = st.outFin, t.finSent = st.finSent
    PROVE  Flow(w, t, n + 1, j)
<1>1. PICK out, more : out = st.out /\ more = Append(out, n + 1)
    OBVIOUS
<1>2. out \in Seq(Nat) /\ st.outFin \in BOOLEAN /\ st.finSent \in BOOLEAN
    BY <1>1 DEF StreamState
<1>3. w \o more = Sent(n + 1)
    <2>1. n + 1 \in Nat
        OBVIOUS
    <2>2. w \o Append(out, n + 1) = Append(w \o out, n + 1)
        BY <1>2, <2>1, JoinAppend
    <2>3. w \o out = Sent(n)
        BY <1>1 DEF Flow
    <2>4. QED BY <1>1, <2>2, <2>3, SentIs
<1>4. ASSUME t.finSent PROVE t.outFin /\ Len(w) >= Header + (n + 1) - j
    <2>1. st.finSent /\ st.outFin /\ Len(w) >= Header + n - k
        BY <1>4 DEF Flow
    <2>2. Len(w) \in Nat /\ Header \in Nat
        BY LenProperties DEF Header
    <2>3. QED BY <2>1, <2>2
<1>5. QED BY <1>1, <1>3, <1>4 DEF Flow

-----------------------------------------------------------------------------
(* Reading a stream.                                                       *)
SomeEvent == [type : EventType, stream : Stream \cup {"none"}, units : Seq(Nat), fin : BOOLEAN]
ReadEvent == {e \in SomeEvent : ~IsClose(e)}
Waiting   == [units : Seq(Nat), end : {"none", "fin", "reset"}]

(* The side of a stream on which the client sends is left alone, or given  *)
(* up together with the other one.                                         *)
Alike(st, t) ==
    Sending(t) => /\ Sending(st)
                  /\ t.out = st.out /\ t.outFin = st.outFin /\ t.finSent = st.finSent

LEMMA NewStreamIs ==
    ASSUME NEW outgoing \in BOOLEAN, NEW st, st = NewStream(outgoing)
    PROVE  /\ st \in StreamState /\ st # NoStream /\ st.outgoing = outgoing
           /\ ~st.outFin /\ ~st.finSent
           /\ outgoing => st.out = Sent(0)
<1>1. [i \in 1 .. Header |-> 0] \in Seq(Nat) /\ Header \in 0 .. Header
    BY DEF Header
<1>2. (IF outgoing THEN [i \in 1 .. Header |-> 0] ELSE <<>>) \in Seq(Nat)
    BY <1>1
<1>3. (IF outgoing THEN Header ELSE 0) \in 0 .. Header
    BY DEF Header
<1>4. st \in StreamState /\ st # NoStream /\ st.outgoing = outgoing /\ ~st.outFin /\ ~st.finSent
    BY <1>2, <1>3 DEF NewStream, StreamState, NoStream
<1>5. outgoing => st.out = Sent(0)
    BY SentIs DEF NewStream
<1>6. QED BY <1>4, <1>5

LEMMA ReadIs ==
    ASSUME NEW s \in Readable, NEW w \in Waiting, streams[s] \in StreamState,
           NEW r, r = ReadStream(s, w)
    PROVE  r.state \in StreamState /\ Alike(streams[s], r.state) /\ r.events \in Seq(ReadEvent)
<1>1. PICK st : st = IF streams[s].tracked THEN streams[s] ELSE NewStream(FALSE)
    OBVIOUS
<1>2. st \in StreamState /\ st # NoStream /\ Alike(streams[s], st)
    <2>1. CASE streams[s].tracked
        <3>1. streams[s] # NoStream
            BY <2>1 DEF NoStream
        <3>2. QED BY <1>1, <2>1, <3>1 DEF Alike
    <2>2. CASE ~streams[s].tracked
        <3>1. st = NewStream(FALSE)
            BY <1>1, <2>2
        <3>2. QED BY <3>1, NewStreamIs DEF Alike, Sending
    <2>3. QED BY <2>1, <2>2
<1>3. /\ st.tracked = TRUE /\ st.outgoing \in BOOLEAN /\ st.announced \in BOOLEAN
      /\ st.header \in 0 .. Header /\ st.out \in Seq(Nat) /\ st.outFin \in BOOLEAN
      /\ st.finSent \in BOOLEAN /\ st.sendError \in BOOLEAN
    BY <1>2 DEF StreamState
<1>4. PICK n, missing : /\ n = Len(w.units)
                        /\ missing = IF s \in Client THEN 0 ELSE Header - st.header
    OBVIOUS
<1>5. PICK payload, fin : payload = SubSeq(w.units, missing + 1, n) /\ fin = (w.end = "fin")
    OBVIOUS
<1>6. PICK opened, data :
          /\ opened = IF s \in Server /\ ~st.announced
                      THEN <<Event("incoming", s, <<>>, FALSE)>> ELSE <<>>
          /\ data = IF payload # <<>> \/ fin
                    THEN <<Event("streamData", s, payload, fin)>> ELSE <<>>
    OBVIOUS
<1>7. r = IF w.end = "reset"
          THEN [state |-> NoStream, events |-> <<Event("streamReset", s, <<>>, FALSE)>>]
          ELSE IF n < missing
          THEN [state |-> [st EXCEPT !.header = @ + n], events |-> <<>>]
          ELSE [state |-> IF fin /\ s \in Server THEN NoStream
                          ELSE [st EXCEPT !.header = Header, !.announced = s \in Server],
                events |-> opened \o data]
    BY <1>1, <1>4, <1>5, <1>6 DEF ReadStream
<1>8. n \in Nat /\ missing \in Nat /\ Header \in Nat /\ w.units \in Seq(Nat)
    BY <1>3, <1>4, LenProperties DEF Waiting, Header
<1>9. payload \in Seq(Nat)
    <2>1. PICK u : u = w.units
        OBVIOUS
    <2>2. u \in Seq(Nat) /\ n = Len(u) /\ payload = SubSeq(u, missing + 1, n)
        BY <1>4, <1>5, <1>8, <2>1
    <2>3. \A i \in missing + 1 .. n : u[i] \in Nat
        BY <1>8, <2>2, ElementOfSeq
    <2>4. missing + 1 \in Int /\ n \in Int
        BY <1>8
    <2>5. SubSeq(u, missing + 1, n) \in Seq(Nat)
        BY <2>3, <2>4, SubSeqProperties
    <2>6. QED BY <2>2, <2>5
<1>10. ASSUME NEW units \in Seq(Nat), NEW end \in BOOLEAN,
              NEW type \in {"incoming", "streamData", "streamReset"}
       PROVE  Event(type, s, units, end) \in ReadEvent
    <2>1. s \in Stream
        BY DEF Readable
    <2>2. QED BY <2>1 DEF Event, ReadEvent, SomeEvent, EventType, IsClose
<1>11. opened \in Seq(ReadEvent) /\ data \in Seq(ReadEvent)
    <2>1. fin \in BOOLEAN /\ <<>> \in Seq(Nat) /\ FALSE \in BOOLEAN
        BY <1>5
    <2>2. Event("incoming", s, <<>>, FALSE) \in ReadEvent
        BY <1>10, <2>1
    <2>3. Event("streamData", s, payload, fin) \in ReadEvent
        BY <1>9, <1>10, <2>1
    <2>4. ASSUME NEW e \in ReadEvent PROVE <<e>> \in Seq(ReadEvent)
        OBVIOUS
    <2>5. <<>> \in Seq(ReadEvent)
        BY EmptySeq
    <2>6. PICK e, f : e = Event("incoming", s, <<>>, FALSE) /\ f = Event("streamData", s, payload, fin)
        OBVIOUS
    <2>7. /\ opened = IF s \in Server /\ ~st.announced THEN <<e>> ELSE <<>>
          /\ data = IF payload # <<>> \/ fin THEN <<f>> ELSE <<>>
        BY <1>6, <2>6
    <2>8. <<e>> \in Seq(ReadEvent) /\ <<f>> \in Seq(ReadEvent)
        BY <2>2, <2>3, <2>4, <2>6
    <2>9. opened \in Seq(ReadEvent)
        BY <2>5, <2>7, <2>8
    <2>10. data \in Seq(ReadEvent)
        BY <2>5, <2>7, <2>8
    <2>11. QED BY <2>9, <2>10
<1>12. CASE w.end = "reset"
    <2>1. <<>> \in Seq(Nat) /\ FALSE \in BOOLEAN
        OBVIOUS
    <2>2. PICK e : e = Event("streamReset", s, <<>>, FALSE)
        OBVIOUS
    <2>3. e \in ReadEvent
        BY <1>10, <2>1, <2>2
    <2>4. r = [state |-> NoStream, events |-> <<e>>]
        BY <1>7, <1>12, <2>2
    <2>5. <<e>> \in Seq(ReadEvent)
        BY <2>3
    <2>6. r.state = NoStream /\ r.events = <<e>>
        BY <2>4
    <2>7. NoStream \in StreamState /\ Alike(streams[s], NoStream)
        BY DEF StreamState, Alike, Sending, NoStream
    <2>8. QED BY <2>5, <2>6, <2>7
<1>13. CASE w.end # "reset" /\ n < missing
    <2>1. PICK t, h : t = [st EXCEPT !.header = h] /\ h = st.header + n
        OBVIOUS
    <2>2. h \in 0 .. Header
        BY <1>3, <1>4, <1>8, <1>13, <2>1
    <2>3. t \in StreamState /\ Alike(st, t)
        BY <1>2, <2>1, <2>2 DEF StreamState, Alike, Sending, NoStream
    <2>4. r.state = t /\ r.events = <<>>
        BY <1>7, <1>13, <2>1
    <2>5. QED BY <1>2, <2>3, <2>4 DEF Alike
<1>14. CASE w.end # "reset" /\ ~(n < missing)
    <2>1. PICK t, a : t = [st EXCEPT !.header = Header, !.announced = a] /\ a = (s \in Server)
        OBVIOUS
    <2>2. a \in BOOLEAN /\ Header \in 0 .. Header
        BY <1>8, <2>1
    <2>3. t \in StreamState /\ Alike(st, t)
        BY <1>2, <2>1, <2>2 DEF StreamState, Alike, Sending, NoStream
    <2>4. /\ r.state = NoStream \/ r.state = t
          /\ r.events = opened \o data
        BY <1>7, <1>14, <2>1
    <2>5. r.events \in Seq(ReadEvent)
        BY <1>11, <2>4, ConcatProperties
    <2>6. NoStream \in StreamState /\ Alike(streams[s], NoStream)
        BY DEF StreamState, Alike, Sending, NoStream
    <2>7. QED BY <1>2, <2>3, <2>4, <2>5, <2>6 DEF Alike
<1>15. QED BY <1>12, <1>13, <1>14

(* readStreams.                                                            *)
LEMMA ReadsAre ==
    ASSUME NEW waiting \in [Readable -> Waiting], streams \in [Stream -> StreamState],
           NEW S, events \in Seq(S), ReadEvent \subseteq S, ReadStreams(waiting)
    PROVE  /\ events' \in Seq(S) /\ arrived' \in [Readable -> Waiting]
           /\ streams' \in [Stream -> StreamState]
           /\ \A s \in Stream : Alike(streams[s], streams'[s])
<1>1. PICK Ids : Ids = {s \in Readable : waiting[s] # Nothing}
    OBVIOUS
<1>2. PICK order \in SetToSeqs(Ids) :
          /\ events' = events \o FlattenSeq(
                 [i \in DOMAIN order |-> ReadStream(order[i], waiting[order[i]]).events])
          /\ streams' = [s \in Stream |->
                 IF s \in Ids THEN ReadStream(s, waiting[s]).state ELSE streams[s]]
          /\ arrived' = [s \in Readable |-> Nothing]
    BY <1>1 DEF ReadStreams
<1>3. Readable \subseteq Stream /\ Nothing \in Waiting
    BY DEF Readable, Nothing, Waiting
<1>4. ASSUME NEW s \in Ids
      PROVE  /\ ReadStream(s, waiting[s]).state \in StreamState
             /\ Alike(streams[s], ReadStream(s, waiting[s]).state)
             /\ ReadStream(s, waiting[s]).events \in Seq(ReadEvent)
    <2>1. s \in Readable /\ waiting[s] \in Waiting /\ streams[s] \in StreamState
        BY <1>1, <1>3
    <2>2. QED BY <2>1, ReadIs
<1>5. PICK n : n = Cardinality(Ids)
    OBVIOUS
<1>6. n \in Nat /\ order \in [1 .. n -> Ids]
    <2>1. IsFiniteSet(Ids)
        BY <1>1, <1>3, StreamAssumption, FS_Subset
    <2>2. QED BY <1>2, <1>5, <2>1, FS_CardinalityType DEF SetToSeqs
<1>7. PICK ss : ss = [i \in DOMAIN order |-> ReadStream(order[i], waiting[order[i]]).events]
    OBVIOUS
<1>8. ss \in Seq(Seq(ReadEvent))
    <2>1. ss \in [1 .. n -> Seq(ReadEvent)]
        BY <1>4, <1>6, <1>7
    <2>2. QED BY <1>6, <2>1
<1>9. FlattenSeq(ss) \in Seq(S)
    <2>1. FlattenSeq(ss) \in Seq(ReadEvent)
        BY <1>8, FlattenElements
    <2>2. QED BY <2>1, SeqMonotonic
<1>10. events' \in Seq(S)
    BY <1>2, <1>7, <1>9, ConcatProperties
<1>11. streams' \in [Stream -> StreamState] /\ \A s \in Stream : Alike(streams[s], streams'[s])
    <2>1. ASSUME NEW s \in Stream
          PROVE  streams'[s] \in StreamState /\ Alike(streams[s], streams'[s])
        <3>1. CASE s \in Ids
            BY <1>2, <1>4, <3>1
        <3>2. CASE s \notin Ids
            BY <1>2, <3>2 DEF Alike
        <3>3. QED BY <3>1, <3>2
    <2>2. QED BY <1>2, <2>1
<1>12. arrived' \in [Readable -> Waiting]
    BY <1>2, <1>3
<1>13. QED BY <1>10, <1>11, <1>12

-----------------------------------------------------------------------------
(* Steps that send nothing keep WriteInv ...                               *)
LEMMA NothingSent ==
    ASSUME WriteInv, UNCHANGED <<wire, written, late>>,
           \A s \in Stream : Alike(streams[s], streams'[s]),
           \A s \in Client : \/ writer'[s] = writer[s]
                             \/ writer[s] # "none" /\ writer'[s] \notin {"none", "open"}
    PROVE  WriteInv'
<1>1. \A s \in Server : ~Sending(streams'[s])
    BY DEF WriteInv, Alike, Stream
<1>2. ASSUME NEW s \in Client
      PROVE  /\ writer'[s] = "none" => wire'[s] = <<>> /\ written'[s] = 0 /\ late'[s] = 0
             /\ Sending(streams'[s]) =>
                   /\ Flow(wire'[s], streams'[s], written'[s], late'[s])
                   /\ writer'[s] # "none" /\ (streams'[s].outFin => writer'[s] # "open")
    <2>1. Alike(streams[s], streams'[s])
        BY DEF Stream
    <2>2. writer'[s] = "none" => writer[s] = "none"
        OBVIOUS
    <2>3. writer'[s] = "open" => writer[s] = "open"
        OBVIOUS
    <2>4. QED BY <2>1, <2>2, <2>3 DEF WriteInv, Alike, Flow
<1>3. QED BY <1>1, <1>2 DEF WriteInv, Sending, Flow

(* ... and so does the sending of one stream that the client has created.  *)
LEMMA OneSent ==
    ASSUME TypeOK, WriteInv, NEW s \in Client, NEW st \in StreamState, st # NoStream,
           PumpStream(s, st),
           written' \in [Writable -> 0 .. MaxUnits], late' \in [Writable -> Nat],
           Flow(wire[s], st, written'[s], late'[s]),
           writer'[s] # "none", st.outFin => writer'[s] # "open",
           \A t \in Client \ {s} : /\ writer'[t] = writer[t]
                                   /\ written'[t] = written[t] /\ late'[t] = late[t]
    PROVE  /\ WriteInv'
           /\ streams' \in [Stream -> StreamState] /\ wire' \in [Writable -> Seq(Nat)]
<1>1. s \in Stream /\ s \in Writable /\ s \notin Server /\ Client \subseteq Stream
      /\ Client \subseteq Writable /\ Server \subseteq Stream
    BY StreamAssumption DEF Stream, Writable, Client, Server
<1>2. PICK r \in PumpResults(s, st) :
          /\ streams' = [streams EXCEPT ![s] = r.state]
          /\ wire' = [wire EXCEPT ![s] = @ \o r.units]
    BY DEF PumpStream
<1>3. PICK w, n, k : w = wire[s] /\ n = written'[s] /\ k = late'[s]
    OBVIOUS
<1>4. w \in Seq(Nat) /\ n \in Nat /\ k \in Nat /\ Flow(w, st, n, k)
    BY <1>1, <1>3, UnitsAssumption DEF TypeOK
<1>5. /\ r.state \in StreamState /\ r.state.outFin = st.outFin
      /\ w \o r.units \in Seq(Nat) /\ Flow(w \o r.units, r.state, n, k)
    BY <1>4, PumpIs
<1>6. /\ streams'[s] = r.state /\ wire'[s] = w \o r.units
      /\ \A t \in Stream \ {s} : streams'[t] = streams[t]
      /\ \A t \in Writable \ {s} : wire'[t] = wire[t]
      /\ streams' \in [Stream -> StreamState] /\ wire' \in [Writable -> Seq(Nat)]
    BY <1>1, <1>2, <1>3, <1>5 DEF TypeOK
<1>7. \A t \in Server : ~Sending(streams'[t])
    BY <1>1, <1>6 DEF WriteInv
<1>8. ASSUME NEW t \in Client
      PROVE  /\ writer'[t] = "none" => wire'[t] = <<>> /\ written'[t] = 0 /\ late'[t] = 0
             /\ Sending(streams'[t]) =>
                   /\ Flow(wire'[t], streams'[t], written'[t], late'[t])
                   /\ writer'[t] # "none" /\ (streams'[t].outFin => writer'[t] # "open")
    <2>1. CASE t = s
        BY <1>3, <1>5, <1>6, <2>1
    <2>2. CASE t # s
        <3>1. /\ wire'[t] = wire[t] /\ streams'[t] = streams[t] /\ writer'[t] = writer[t]
              /\ written'[t] = written[t] /\ late'[t] = late[t]
            BY <1>1, <1>6, <2>2
        <3>2. QED BY <3>1 DEF WriteInv
    <2>3. QED BY <2>1, <2>2
<1>9. WriteInv'
    BY <1>7, <1>8 DEF WriteInv, Sending, Flow
<1>10. QED BY <1>6, <1>9

-----------------------------------------------------------------------------
(* The steps of the script.                                                *)
LEMMA CreateStep == ASSUME IInv, NEW s, CreateStream(s) PROVE IInv'
<1>1. /\ s \in Client /\ s \in Writable /\ writer[s] = "none" /\ TypeOK /\ WriteInv
      /\ PumpStream(s, NewStream(TRUE))
      /\ writer' = [writer EXCEPT ![s] = "open"]
      /\ written' = written /\ late' = late
    BY StreamAssumption DEF CreateStream, IInv, Writable, Stream, Client, Server
<1>2. PICK st : st = NewStream(TRUE)
    OBVIOUS
<1>3. /\ st \in StreamState /\ st # NoStream /\ ~st.outFin /\ ~st.finSent /\ st.out = Sent(0)
    BY <1>2, NewStreamIs
<1>4. wire[s] = <<>> /\ written[s] = 0 /\ late[s] = 0
    BY <1>1 DEF WriteInv
<1>5. Flow(wire[s], st, written[s], late[s])
    <2>1. Sent(0) \in Seq(Nat) /\ <<>> \o Sent(0) = Sent(0)
        BY SentIs, ConcatEmptySeq
    <2>2. QED BY <1>3, <1>4, <2>1 DEF Flow
<1>6. writer'[s] = "open" /\ \A t \in Client \ {s} : writer'[t] = writer[t]
    BY <1>1 DEF TypeOK
<1>7. /\ WriteInv'
      /\ streams' \in [Stream -> StreamState] /\ wire' \in [Writable -> Seq(Nat)]
    <2>1. written' \in [Writable -> 0 .. MaxUnits] /\ late' \in [Writable -> Nat]
        BY <1>1 DEF TypeOK
    <2>2. PumpStream(s, st)
        BY <1>1, <1>2
    <2>3. QED BY <1>1, <1>3, <1>5, <1>6, <2>1, <2>2, OneSent
<1>8. TypeOK'
    <2>1. /\ writer' \in [Writable -> {"none", "open", "closed", "errored"}]
          /\ readable' \in [Readable -> {"none", "open", "closed", "errored"}]
        BY <1>1 DEF TypeOK, CreateStream
    <2>2. QED BY <1>1, <1>7, <2>1
          DEF TypeOK, CreateStream, connVars, ownVars, serverVars, promiseVars
<1>9. SessionInv'
    BY DEF IInv, SessionInv, CreateStream, ownVars, promiseVars
<1>10. QED BY <1>7, <1>8, <1>9 DEF IInv

LEMMA WriteStep == ASSUME IInv, NEW s \in Writable, Write(s) PROVE IInv'
<1>1. TypeOK /\ WriteInv /\ writer[s] \in {"open", "closed"} /\ written[s] < MaxUnits
    BY DEF Write, IInv
<1>2. SessionInv'
    BY DEF IInv, SessionInv, Write, ownVars, promiseVars
<1>3. CASE CanWrite(s)
    <2>1. PICK n, k : n = written[s] /\ k = late[s]
        OBVIOUS
    <2>2. n \in Nat /\ k \in Nat /\ n + 1 \in 0 .. MaxUnits /\ k + 1 \in Nat
        BY <1>1, <2>1, UnitsAssumption DEF TypeOK
    <2>3. PICK j : j = IF writer[s] = "closed" THEN k + 1 ELSE k
        OBVIOUS
    <2>4. /\ written' = [written EXCEPT ![s] = n + 1]
          /\ late' = [late EXCEPT ![s] = j]
          /\ writer' = writer
          /\ PumpStream(s, [streams[s] EXCEPT !.out = Append(@, n + 1)])
        <3>1. late = [late EXCEPT ![s] = late[s]]
            BY <1>1 DEF TypeOK
        <3>2. QED BY <1>3, <2>1, <2>3, <3>1 DEF Write
    <2>5. /\ written' \in [Writable -> 0 .. MaxUnits] /\ late' \in [Writable -> Nat]
          /\ written'[s] = n + 1 /\ late'[s] = j
          /\ \A t \in Client \ {s} : written'[t] = written[t] /\ late'[t] = late[t]
        BY <1>1, <2>2, <2>3, <2>4 DEF TypeOK, Client, Writable, Stream
    <2>6. Sending(streams[s]) /\ s \in Stream
        BY <1>3 DEF CanWrite, Sending, Writable
    <2>7. s \in Client
        BY <1>1, <2>6 DEF WriteInv, Stream
    <2>8. PICK st : st = streams[s]
        OBVIOUS
    <2>9. /\ st \in StreamState /\ st # NoStream /\ Flow(wire[s], st, n, k)
          /\ st.outFin => writer[s] # "open"
        BY <1>1, <2>1, <2>6, <2>7, <2>8 DEF TypeOK, WriteInv, Sending, NoStream
    <2>10. PICK t : t = [st EXCEPT !.out = Append(@, n + 1)]
        OBVIOUS
    <2>11. wire[s] \in Seq(Nat) /\ j \in Nat /\ (j = k + 1 \/ (j = k /\ ~st.outFin))
        BY <1>1, <2>2, <2>3, <2>9 DEF TypeOK
    <2>12. t \in StreamState /\ t # NoStream /\ t.outFin = st.outFin /\ Flow(wire[s], t, n + 1, j)
        <3>1. PICK w : w = wire[s]
            OBVIOUS
        <3>2. w \in Seq(Nat) /\ n \in Nat /\ k \in Nat /\ j \in Nat
            BY <2>2, <2>11, <3>1
        <3>3. st \in StreamState /\ st # NoStream /\ Flow(w, st, n, k)
            BY <2>9, <3>1
        <3>4. j = k + 1 \/ (j = k /\ ~st.outFin)
            BY <2>11
        <3>5. PICK more : more = Append(st.out, n + 1)
            OBVIOUS
        <3>6. more \in Seq(Nat) /\ t = [st EXCEPT !.out = more]
            <4>1. st.out \in Seq(Nat)
                BY <3>3 DEF StreamState, NoStream
            <4>2. QED BY <2>2, <2>10, <3>5, <4>1, AppendProperties
        <3>7. /\ t \in StreamState /\ t # NoStream /\ t.out = more
              /\ t.outFin = st.outFin /\ t.finSent = st.finSent
            BY <3>3, <3>6 DEF StreamState, NoStream
        <3>8. Flow(w, t, n + 1, j)
            BY <3>2, <3>3, <3>4, <3>5, <3>7, WriteIs
        <3>9. QED BY <3>1, <3>7, <3>8
    <2>13. PumpStream(s, t) /\ Flow(wire[s], t, written'[s], late'[s])
        BY <2>4, <2>5, <2>8, <2>10, <2>12
    <2>14. writer'[s] # "none" /\ (t.outFin => writer'[s] # "open")
        BY <1>1, <2>4, <2>9, <2>12
    <2>15. /\ WriteInv'
           /\ streams' \in [Stream -> StreamState] /\ wire' \in [Writable -> Seq(Nat)]
        BY <1>1, <2>4, <2>5, <2>7, <2>12, <2>13, <2>14, OneSent
    <2>16. TypeOK'
        BY SMTT(20), <2>4, <2>5, <2>15 DEF IInv, TypeOK, Write, connVars, ownVars, serverVars, promiseVars, readVars
    <2>17. QED BY <1>2, <2>15, <2>16 DEF IInv
<1>4. CASE ~CanWrite(s)
    <2>1. /\ writer' = [writer EXCEPT ![s] = IF @ = "open" THEN "errored" ELSE @]
          /\ UNCHANGED <<streams, wire, written, late>>
        BY <1>4 DEF Write
    <2>2. writer' \in [Writable -> {"none", "open", "closed", "errored"}]
        BY <1>1, <2>1 DEF TypeOK
    <2>3. \A t \in Client : \/ writer'[t] = writer[t]
                            \/ writer[t] # "none" /\ writer'[t] \notin {"none", "open"}
        BY <1>1, <2>1 DEF TypeOK, Client, Writable, Stream
    <2>4. WriteInv'
        BY <1>1, <2>1, <2>3, NothingSent DEF Alike
    <2>5. TypeOK'
        BY <2>1, <2>2 DEF IInv, TypeOK, Write, connVars, ownVars, serverVars, promiseVars, readVars
    <2>6. QED BY <1>2, <2>4, <2>5 DEF IInv
<1>5. QED BY <1>3, <1>4

LEMMA CloseWriterStep == ASSUME IInv, NEW s \in Writable, CloseWriter(s) PROVE IInv'
<1>1. /\ TypeOK /\ WriteInv /\ writer[s] # "none"
      /\ writer' = [writer EXCEPT ![s] = IF @ = "open" THEN "closed" ELSE @]
      /\ written' = written /\ late' = late
    BY DEF CloseWriter, IInv
<1>2. SessionInv'
    BY DEF IInv, SessionInv, CloseWriter, ownVars, promiseVars
<1>3. /\ writer' \in [Writable -> {"none", "open", "closed", "errored"}]
      /\ writer'[s] \notin {"none", "open"}
      /\ \A t \in Client \ {s} : writer'[t] = writer[t]
    BY <1>1 DEF TypeOK, Client, Writable, Stream
<1>4. CASE CanWrite(s)
    <2>1. Sending(streams[s]) /\ s \in Stream
        BY <1>4 DEF CanWrite, Sending, Writable
    <2>2. s \in Client
        BY <1>1, <2>1 DEF WriteInv, Stream
    <2>3. PICK st, t : st = streams[s] /\ t = [st EXCEPT !.outFin = TRUE]
        OBVIOUS
    <2>4. /\ st \in StreamState /\ st # NoStream /\ Flow(wire[s], st, written[s], late[s])
        BY <1>1, <2>1, <2>2, <2>3 DEF TypeOK, WriteInv, Sending, NoStream
    <2>5. /\ t \in StreamState /\ t # NoStream /\ t.out = st.out /\ t.outFin
          /\ t.finSent = st.finSent
        BY <2>3, <2>4 DEF StreamState, NoStream
    <2>6. Flow(wire[s], t, written'[s], late'[s]) /\ PumpStream(s, t)
        BY <1>1, <1>4, <2>3, <2>4, <2>5 DEF Flow, CloseWriter
    <2>7. written' \in [Writable -> 0 .. MaxUnits] /\ late' \in [Writable -> Nat]
        BY <1>1 DEF TypeOK
    <2>8. /\ WriteInv'
          /\ streams' \in [Stream -> StreamState] /\ wire' \in [Writable -> Seq(Nat)]
        BY <1>1, <1>3, <2>2, <2>5, <2>6, <2>7, OneSent
    <2>9. TypeOK'
        BY <1>1, <1>3, <2>8
        DEF IInv, TypeOK, CloseWriter, connVars, ownVars, serverVars, promiseVars, readVars
    <2>10. QED BY <1>2, <2>8, <2>9 DEF IInv
<1>5. CASE ~CanWrite(s)
    <2>1. UNCHANGED <<streams, wire>>
        BY <1>5 DEF CloseWriter
    <2>2. WriteInv'
        BY <1>1, <1>3, <2>1, NothingSent DEF Alike
    <2>3. TypeOK'
        BY <1>1, <1>3, <2>1
        DEF IInv, TypeOK, CloseWriter, connVars, ownVars, serverVars, promiseVars, readVars
    <2>4. QED BY <1>2, <2>2, <2>3 DEF IInv
<1>6. QED BY <1>4, <1>5

LEMMA AbortStep == ASSUME IInv, NEW s \in Writable, AbortWriter(s) PROVE IInv'
<1>1. /\ TypeOK /\ WriteInv /\ writer[s] # "none"
      /\ writer' = [writer EXCEPT ![s] = "errored"]
      /\ UNCHANGED <<streams, wire, written, late>>
    BY DEF AbortWriter, IInv
<1>2. SessionInv'
    BY DEF IInv, SessionInv, AbortWriter, ownVars, promiseVars
<1>3. /\ writer' \in [Writable -> {"none", "open", "closed", "errored"}]
      /\ \A t \in Client : \/ writer'[t] = writer[t]
                           \/ writer[t] # "none" /\ writer'[t] \notin {"none", "open"}
    BY <1>1 DEF TypeOK, Client, Writable, Stream
<1>4. WriteInv'
    BY <1>1, <1>3, NothingSent DEF Alike
<1>5. /\ shut' \subseteq Writable
      /\ arrived' \in [Readable -> [units : Seq(Nat), end : {"none", "fin", "reset"}]]
    <2>1. Nothing \in [units : Seq(Nat), end : {"none", "fin", "reset"}]
        BY DEF Nothing
    <2>2. QED BY <1>1, <2>1 DEF TypeOK, AbortWriter
<1>6. TypeOK'
    BY <1>1, <1>3, <1>5 DEF TypeOK, AbortWriter, connVars, ownVars, promiseVars, readVars
<1>7. QED BY <1>2, <1>4, <1>6 DEF IInv

LEMMA CloseSessionStep == ASSUME IInv, CloseSession PROVE IInv'
<1>1. WriteInv'
    BY NothingSent DEF IInv, CloseSession, streamVars, writeVars, Alike
<1>2. SessionInv'
    BY DEF IInv, SessionInv, CloseSession, ownVars, promiseVars
<1>3. TypeOK'
    BY DEF IInv, TypeOK, CloseSession, ownVars, serverVars, streamVars, promiseVars, readVars,
           writeVars
<1>4. QED BY <1>1, <1>2, <1>3 DEF IInv

-----------------------------------------------------------------------------
(* The steps that read.                                                    *)
LEMMA ReadStep ==
    ASSUME IInv, pc = "pump", pc' = pc, UNCHANGED <<wire, promiseVars, ownVars, writeVars>>,
           NEW waiting \in [Readable -> Waiting], AfterPacket(waiting)
    PROVE  /\ WriteInv' /\ SessionInv'
           /\ events' \in Seq(SomeEvent) /\ arrived' \in [Readable -> Waiting]
           /\ streams' \in [Stream -> StreamState]
<1>1. /\ events \in Seq(SomeEvent) /\ streams \in [Stream -> StreamState]
      /\ owned /\ listed /\ ~teardown
      /\ \A i \in 1 .. Len(events) : ~IsClose(events[i])
    BY DEF IInv, TypeOK, SomeEvent, SessionInv
<1>2. events \in Seq(ReadEvent)
    <2>1. PICK n : n = Len(events)
        OBVIOUS
    <2>2. n \in Nat /\ events \in [1 .. n -> SomeEvent] /\ \A i \in 1 .. n : ~IsClose(events[i])
        BY <1>1, <2>1, LenProperties
    <2>3. events \in [1 .. n -> ReadEvent]
        BY <2>2 DEF ReadEvent
    <2>4. QED BY <2>2, <2>3, SeqDef
<1>3. /\ events' \in Seq(ReadEvent) /\ arrived' \in [Readable -> Waiting]
      /\ streams' \in [Stream -> StreamState]
      /\ \A s \in Stream : Alike(streams[s], streams'[s])
    <2>1. CASE wtReady
        <3>1. ReadStreams(waiting)
            BY <2>1 DEF AfterPacket
        <3>2. ReadEvent \subseteq ReadEvent
            OBVIOUS
        <3>3. QED BY <1>1, <1>2, <3>1, <3>2, ReadsAre
    <2>2. CASE ~wtReady
        BY <1>1, <1>2, <2>2 DEF AfterPacket, Alike
    <2>3. QED BY <2>1, <2>2
<1>4. WriteInv'
    BY <1>3, NothingSent DEF IInv, writeVars
<1>5. events' \in Seq(SomeEvent) /\ \A i \in 1 .. Len(events') : ~IsClose(events'[i])
    <2>1. \A i \in 1 .. Len(events') : events'[i] \in ReadEvent
        BY <1>3, ElementOfSeq
    <2>2. ReadEvent \subseteq SomeEvent
        BY DEF ReadEvent
    <2>3. QED BY <1>3, <2>1, <2>2, SeqMonotonic DEF ReadEvent
<1>6. SessionInv'
    BY <1>1, <1>5 DEF SessionInv, ownVars, promiseVars
<1>7. QED BY <1>3, <1>4, <1>5, <1>6

LEMMA ReceiveDataStep ==
    ASSUME IInv, NEW s \in Readable, NEW n \in 0 .. MaxUnits + Header,
           NEW end \in {"none", "fin", "reset"}, ReceiveData(s, n, end)
    PROVE  IInv'
<1>1. PICK units : units = [i \in 1 .. n |-> Unit(s, sent[s] + i)]
    OBVIOUS
<1>2. PICK waiting : waiting = IF s \in lost THEN arrived
                               ELSE [arrived EXCEPT ![s] = [units |-> @.units \o units, end |-> end]]
    OBVIOUS
<1>3. /\ pc = "pump" /\ AfterPacket(waiting)
      /\ sent[s] + n <= MaxUnits + (IF s \in Server THEN Header ELSE 0)
      /\ sent' = [sent EXCEPT ![s] = sent[s] + n]
      /\ ended' = IF end = "none" THEN ended ELSE ended \cup {s}
      /\ early' = IF wtReady THEN early ELSE early \cup {s}
      /\ UNCHANGED <<pc, connVars, ownVars, lost, shut, wire, promiseVars, readVars, writeVars>>
    BY <1>1, <1>2 DEF ReceiveData
<1>4. TypeOK /\ sent[s] \in Nat /\ n \in Nat /\ Header \in Nat /\ MaxUnits \in Nat
    BY UnitsAssumption DEF IInv, TypeOK, Header
<1>5. waiting \in [Readable -> Waiting]
    <2>1. arrived \in [Readable -> Waiting] /\ arrived[s].units \in Seq(Nat)
        BY <1>4 DEF TypeOK, Waiting
    <2>2. units \in Seq(Nat)
        <3>1. \A i \in 1 .. n : Unit(s, sent[s] + i) \in Nat
            BY <1>4 DEF Unit
        <3>2. QED BY <1>1, <1>4, <3>1
    <2>3. PICK more : more = arrived[s].units \o units
        OBVIOUS
    <2>4. more \in Seq(Nat)
        BY <2>1, <2>2, <2>3, ConcatProperties
    <2>5. [units |-> more, end |-> end] \in Waiting
        BY <2>4 DEF Waiting
    <2>6. QED BY <1>2, <2>1, <2>3, <2>5
<1>6. /\ WriteInv' /\ SessionInv'
      /\ events' \in Seq(SomeEvent) /\ arrived' \in [Readable -> Waiting]
      /\ streams' \in [Stream -> StreamState]
    BY <1>3, <1>5, ReadStep
<1>7. sent' \in [Readable -> 0 .. MaxUnits + Header]
    <2>1. sent[s] + n \in 0 .. MaxUnits + Header
        BY <1>3, <1>4
    <2>2. QED BY <1>3, <1>4, <2>1 DEF TypeOK
<1>8. TypeOK'
    <2>1. ended' \subseteq Readable /\ early' \subseteq Readable
        BY <1>3, <1>4 DEF TypeOK
    <2>2. UNCHANGED <<pc, connVars, ownVars, lost, shut, wire, promiseVars, readVars, writeVars>>
        BY <1>3
    <2>3. /\ events' \in Seq([type : EventType, stream : Stream \cup {"none"}, units : Seq(Nat), fin : BOOLEAN])
          /\ arrived' \in [Readable -> [units : Seq(Nat), end : {"none", "fin", "reset"}]]
          /\ sent' \in [Readable -> 0 .. MaxUnits + Header]
          /\ streams' \in [Stream -> StreamState]
        BY <1>6, <1>7 DEF SomeEvent, Waiting
    <2>4. QED
        BY SMTT(20), <1>4, <2>1, <2>2, <2>3
        DEF TypeOK, connVars, ownVars, promiseVars, readVars, writeVars
<1>9. QED BY <1>6, <1>8 DEF IInv

LEMMA ReceiveControlStep == ASSUME IInv, ReceiveControl PROVE IInv'
<1>1. /\ pc = "pump" /\ AfterPacket(arrived)
      /\ UNCHANGED <<pc, h3, wtReady, failed, ownVars, sent, ended, early, lost, shut, wire,
                     promiseVars, readVars, writeVars>>
    BY DEF ReceiveControl
<1>2. /\ conn' \in {"open", "closing", "closed"} /\ answer' \in {"none", "ok", "refused", "ended"}
      /\ established' \in BOOLEAN
    BY DEF IInv, TypeOK, ReceiveControl
<1>3. arrived \in [Readable -> Waiting]
    BY DEF IInv, TypeOK, Waiting
<1>4. /\ WriteInv' /\ SessionInv'
      /\ events' \in Seq(SomeEvent) /\ arrived' \in [Readable -> Waiting]
      /\ streams' \in [Stream -> StreamState]
    BY <1>1, <1>3, ReadStep
<1>5. TypeOK'
    BY <1>1, <1>2, <1>4
    DEF IInv, TypeOK, SomeEvent, Waiting, ownVars, promiseVars, readVars, writeVars
<1>6. QED BY <1>4, <1>5 DEF IInv

-----------------------------------------------------------------------------
(* The steps of processEvents.                                             *)
LEMMA BeginStep == ASSUME IInv, BeginProcess PROVE IInv'
<1>1. WriteInv'
    BY NothingSent DEF IInv, BeginProcess, streamVars, writeVars, Alike
<1>2. SessionInv'
    BY DEF IInv, SessionInv, BeginProcess, ownVars, promiseVars
<1>3. TypeOK'
    BY DEF IInv, TypeOK, BeginProcess, connVars, ownVars, serverVars, streamVars, promiseVars,
           readVars, writeVars
<1>4. QED BY <1>1, <1>2, <1>3 DEF IInv

LEMMA EndPumpStep == ASSUME IInv, NEW timeout, EndPump(timeout) PROVE IInv'
<1>1. WriteInv'
    BY NothingSent DEF IInv, EndPump, streamVars, writeVars, Alike
<1>2. SessionInv'
    BY DEF IInv, SessionInv, EndPump, ownVars, promiseVars
<1>3. TypeOK'
    BY DEF IInv, TypeOK, EndPump, ownVars, serverVars, streamVars, promiseVars,
           readVars, writeVars
<1>4. QED BY <1>1, <1>2, <1>3 DEF IInv

(* An event is appended.                                                   *)
LEMMA AppendEvent ==
    ASSUME events \in Seq(SomeEvent), NEW type \in EventType,
           events' = Append(events, Event(type, "none", <<>>, FALSE))
    PROVE  /\ events' \in Seq(SomeEvent) /\ Len(events') = Len(events) + 1
           /\ Len(events) \in Nat
           /\ \A i \in 1 .. Len(events) : events'[i] = events[i]
           /\ events'[Len(events) + 1].type = type
<1>1. PICK e : e = Event(type, "none", <<>>, FALSE)
    OBVIOUS
<1>2. e \in SomeEvent /\ e.type = type
    BY <1>1 DEF Event, SomeEvent
<1>3. PICK more : more = Append(events, e)
    OBVIOUS
<1>4. events' = more
    BY <1>1, <1>3
<1>5. /\ more \in Seq(SomeEvent) /\ Len(more) = Len(events) + 1
      /\ \A i \in 1 .. Len(events) : more[i] = events[i]
      /\ more[Len(events) + 1] = e
    BY <1>2, <1>3, AppendProperties
<1>6. Len(events) \in Nat
    BY LenProperties
<1>7. QED BY <1>2, <1>4, <1>5, <1>6

LEMMA HandshakeIs ==
    ASSUME IInv, Handshake
    PROVE  /\ h3' \in {"none", "failed", "open", "freed"}
           /\ wtReady' \in BOOLEAN /\ failed' \in BOOLEAN
           /\ arrived' \in [Readable -> Waiting] /\ lost' \subseteq Server
           /\ \/ events' = events
              \/ \E type \in {"error", "ready"} :
                    events' = Append(events, Event(type, "none", <<>>, FALSE))
<1>1. TypeOK /\ arrived \in [Readable -> Waiting] /\ Nothing \in Waiting
    BY DEF IInv, TypeOK, Waiting, Nothing
<1>2. CASE established /\ h3 = "none" /\ UNCHANGED <<wtReady, arrived, lost>>
           /\ \/ h3' = "open" /\ UNCHANGED <<failed, events>>
              \/ h3' \in {"open", "failed"} /\ Fails
    BY <1>1, <1>2 DEF TypeOK, Fails
<1>3. CASE Http3Drains /\ \/ answer = "none" /\ UNCHANGED <<h3, wtReady, failed, events>>
                          \/ /\ answer \in {"ok", "ended"} /\ wtReady' = TRUE /\ h3' = "freed"
                             /\ events' = Append(events, Event("ready", "none", <<>>, FALSE))
                             /\ UNCHANGED failed
                          \/ answer = "refused" /\ Fails /\ UNCHANGED <<h3, wtReady>>
    <2>1. arrived' \in [Readable -> Waiting] /\ lost' \subseteq Server
        BY <1>1, <1>3 DEF Http3Drains, TypeOK
    <2>2. QED BY <1>1, <1>3, <2>1 DEF TypeOK, Fails
<1>4. CASE UNCHANGED <<h3, wtReady, failed, events, arrived, lost>>
    BY <1>1, <1>4 DEF TypeOK
<1>5. QED BY <1>2, <1>3, <1>4 DEF Handshake

LEMMA PollHandshakeStep == ASSUME IInv, PollHandshake PROVE IInv'
<1>1. /\ pc = "handshake" /\ pc' = "writes"
      /\ UNCHANGED <<conn, established, answer, ownVars, sent, ended, early, streamVars,
                     promiseVars, readVars, writeVars>>
    BY DEF PollHandshake
<1>2. /\ h3' \in {"none", "failed", "open", "freed"}
      /\ wtReady' \in BOOLEAN /\ failed' \in BOOLEAN
      /\ arrived' \in [Readable -> Waiting] /\ lost' \subseteq Server
      /\ \/ events' = events
         \/ \E type \in {"error", "ready"} :
               events' = Append(events, Event(type, "none", <<>>, FALSE))
    BY HandshakeIs DEF PollHandshake
<1>3. events \in Seq(SomeEvent) /\ \A i \in 1 .. Len(events) : ~IsClose(events[i])
    BY <1>1 DEF IInv, TypeOK, SomeEvent, SessionInv
<1>4. events' \in Seq(SomeEvent) /\ \A i \in 1 .. Len(events') : ~IsClose(events'[i])
    <2>1. CASE events' = events
        BY <1>3, <2>1
    <2>2. CASE events' # events
        <3>1. PICK type \in {"error", "ready"} :
                  events' = Append(events, Event(type, "none", <<>>, FALSE))
            BY <1>2, <2>2
        <3>2. type \in EventType /\ type # "closed"
            BY DEF EventType
        <3>3. /\ events' \in Seq(SomeEvent) /\ Len(events') = Len(events) + 1
              /\ Len(events) \in Nat
              /\ \A i \in 1 .. Len(events) : events'[i] = events[i]
              /\ events'[Len(events) + 1].type = type
            BY <1>3, <3>1, <3>2, AppendEvent
        <3>4. \A i \in 1 .. Len(events') : i \in 1 .. Len(events) \/ i = Len(events) + 1
            BY <3>3
        <3>5. QED BY <1>3, <3>2, <3>3, <3>4 DEF IsClose
    <2>3. QED BY <2>1, <2>2
<1>5. WriteInv'
    BY <1>1, NothingSent DEF IInv, streamVars, writeVars, Alike
<1>6. SessionInv'
    BY <1>1, <1>4 DEF IInv, SessionInv, ownVars, promiseVars
<1>7. TypeOK'
    BY <1>1, <1>2, <1>4
    DEF IInv, TypeOK, SomeEvent, Waiting, ownVars, streamVars, promiseVars, readVars, writeVars
<1>8. QED BY <1>5, <1>6, <1>7 DEF IInv

LEMMA DetectClosureStep == ASSUME IInv, DetectClosure PROVE IInv'
<1>1. /\ pc = "closure" /\ pc' = "dispatch"
      /\ teardown' = (conn = "closed" \/ failed)
      /\ events' = IF teardown' THEN Append(events, Event("closed", "none", <<>>, FALSE)) ELSE events
      /\ conn' = IF teardown' /\ conn = "open" THEN "closing" ELSE conn
      /\ UNCHANGED <<established, h3, answer, wtReady, failed, owned, serverVars, streamVars,
                     promiseVars, readVars, writeVars>>
    BY DEF DetectClosure
<1>2. /\ events \in Seq(SomeEvent) /\ owned /\ listed
      /\ \A i \in 1 .. Len(events) : ~IsClose(events[i])
    BY <1>1 DEF IInv, TypeOK, SomeEvent, SessionInv
<1>3. teardown' \in BOOLEAN /\ conn' \in {"open", "closing", "closed"} /\ owned' \in BOOLEAN
    BY <1>1 DEF IInv, TypeOK
<1>4. /\ events' \in Seq(SomeEvent)
      /\ teardown' <=> \E i \in 1 .. Len(events') : IsClose(events'[i])
    <2>1. CASE teardown'
        <3>1. events' = Append(events, Event("closed", "none", <<>>, FALSE))
            BY <1>1, <2>1
        <3>2. "closed" \in EventType
            BY DEF EventType
        <3>3. /\ events' \in Seq(SomeEvent) /\ Len(events') = Len(events) + 1
              /\ Len(events) \in Nat
              /\ events'[Len(events) + 1].type = "closed"
            BY <1>2, <3>1, <3>2, AppendEvent
        <3>4. Len(events) + 1 \in 1 .. Len(events')
            BY <3>3
        <3>5. QED BY <2>1, <3>3, <3>4 DEF IsClose
    <2>2. CASE ~teardown'
        BY <1>1, <1>2, <2>2
    <2>3. QED BY <2>1, <2>2
<1>5. WriteInv'
    BY <1>1, NothingSent DEF IInv, streamVars, writeVars, Alike
<1>6. SessionInv'
    BY <1>1, <1>2, <1>4 DEF SessionInv, promiseVars
<1>7. TypeOK'
    <2>1. /\ established' \in BOOLEAN /\ wtReady' \in BOOLEAN /\ failed' \in BOOLEAN
          /\ owned' \in BOOLEAN /\ teardown' \in BOOLEAN
          /\ lastError' \in BOOLEAN /\ listed' \in BOOLEAN
        BY <1>1, <1>3 DEF IInv, TypeOK, promiseVars
    <2>2. /\ pc' = "dispatch" /\ conn' \in {"open", "closing", "closed"}
          /\ events' \in Seq(SomeEvent)
          /\ UNCHANGED <<h3, answer, serverVars, streamVars, ready, closed, readVars, writeVars>>
        BY <1>1, <1>3, <1>4 DEF promiseVars
    <2>3. QED BY <2>1, <2>2 DEF IInv, TypeOK, SomeEvent, serverVars, streamVars, readVars, writeVars
<1>8. QED BY <1>5, <1>6, <1>7 DEF IInv

LEMMA EndProcessStep == ASSUME IInv, EndProcess PROVE IInv'
<1>1. WriteInv'
    BY NothingSent DEF IInv, EndProcess, streamVars, writeVars, Alike
<1>2. SessionInv'
    <2>1. \A i \in 1 .. Len(<<>>) : FALSE
        OBVIOUS
    <2>2. QED BY <2>1 DEF IInv, SessionInv, TypeOK, EndProcess, promiseVars
<1>3. TypeOK'
    <2>1. owned' \in BOOLEAN /\ teardown' \in BOOLEAN /\ pc' = "js"
        BY DEF IInv, TypeOK, EndProcess
    <2>2. QED BY <2>1 DEF IInv, TypeOK, EndProcess, connVars, serverVars, streamVars, promiseVars,
           readVars, writeVars
<1>4. QED BY <1>1, <1>2, <1>3 DEF IInv

LEMMA ShutdownStep == ASSUME IInv, Shutdown PROVE IInv'
<1>1. WriteInv'
    BY NothingSent DEF IInv, Shutdown, streamVars, writeVars, Alike
<1>2. SessionInv'
    BY DEF IInv, SessionInv, Shutdown, promiseVars
<1>3. TypeOK'
    <2>1. owned' \in BOOLEAN /\ pc' = "stopped" /\ conn' \in {"open", "closing", "closed"}
        BY DEF IInv, TypeOK, Shutdown
    <2>2. QED BY <2>1 DEF IInv, TypeOK, Shutdown, serverVars, streamVars, promiseVars, readVars, writeVars
<1>4. QED BY <1>1, <1>2, <1>3 DEF IInv

(* pumpStreamSends: every stream the client sends on.                      *)
LEMMA RetryStep == ASSUME IInv, RetryWrites PROVE IInv'
<1>1. \A s \in Stream : s \in Outgoing <=> Sending(streams[s])
    BY DEF Outgoing, Sending
<1>2. /\ pc = "writes" /\ pc' = "closure" /\ TypeOK /\ WriteInv
      /\ UNCHANGED <<connVars, ownVars, events, serverVars, shut, promiseVars, readVars, writeVars>>
    BY DEF RetryWrites, IInv
<1>3. SessionInv'
    BY <1>2 DEF IInv, SessionInv, ownVars, promiseVars
<1>4. WriteInv' /\ streams' \in [Stream -> StreamState] /\ wire' \in [Writable -> Seq(Nat)]
    <2>1. CASE ~wtReady
        <3>1. UNCHANGED <<streams, wire>>
            BY <2>1 DEF RetryWrites
        <3>2. QED BY <1>2, <3>1, NothingSent DEF TypeOK, Alike, writeVars
    <2>2. CASE wtReady
        <3>1. PICK r : /\ \A s \in Outgoing : r[s] \in PumpResults(s, streams[s])
                       /\ streams' = [s \in Stream |->
                              IF s \in Outgoing THEN r[s].state ELSE streams[s]]
                       /\ wire' = [s \in Writable |->
                              IF s \in Outgoing THEN wire[s] \o r[s].units ELSE wire[s]]
            BY <2>2 DEF RetryWrites
        <3>2. Outgoing \subseteq Client /\ Client \subseteq Stream /\ Client \subseteq Writable
            BY <1>1, <1>2, StreamAssumption
            DEF Outgoing, WriteInv, Sending, Stream, Writable, Client, Server
        <3>3. ASSUME NEW s \in Outgoing
              PROVE  /\ streams'[s] \in StreamState /\ wire'[s] \in Seq(Nat)
                     /\ Flow(wire'[s], streams'[s], written'[s], late'[s])
                     /\ writer'[s] # "none" /\ (streams'[s].outFin => writer'[s] # "open")
            <4>1. PICK st, q, w, n, k :
                      st = streams[s] /\ q = r[s] /\ w = wire[s] /\ n = written[s] /\ k = late[s]
                OBVIOUS
            <4>2. /\ st \in StreamState /\ st # NoStream /\ Sending(st)
                  /\ w \in Seq(Nat) /\ n \in Nat /\ k \in Nat /\ q \in PumpResults(s, st)
                BY <1>1, <1>2, <3>1, <3>2, <4>1, UnitsAssumption DEF TypeOK, Sending, NoStream
            <4>3. Flow(w, st, n, k) /\ writer[s] # "none" /\ (st.outFin => writer[s] # "open")
                BY <1>2, <3>2, <4>1, <4>2 DEF WriteInv
            <4>4. /\ q.state \in StreamState /\ q.state.outFin = st.outFin
                  /\ w \o q.units \in Seq(Nat) /\ Flow(w \o q.units, q.state, n, k)
                BY <4>2, <4>3, PumpIs
            <4>5. /\ streams'[s] = q.state /\ wire'[s] = w \o q.units
                  /\ written'[s] = n /\ late'[s] = k /\ writer'[s] = writer[s]
                BY <1>2, <3>1, <3>2, <4>1 DEF writeVars
            <4>6. QED BY <4>3, <4>4, <4>5
        <3>4. ASSUME NEW s \in Stream \ Outgoing
              PROVE  /\ streams'[s] = streams[s]
                     /\ s \in Writable => wire'[s] = wire[s]
            BY <3>1
        <3>5. streams' \in [Stream -> StreamState]
            BY <1>2, <3>1, <3>3, <3>4 DEF TypeOK
        <3>6. wire' \in [Writable -> Seq(Nat)]
            <4>1. Writable \subseteq Stream
                BY DEF Writable
            <4>2. \A s \in Writable : wire'[s] \in Seq(Nat)
                BY <1>2, <3>3, <3>4, <4>1 DEF TypeOK
            <4>3. QED BY <3>1, <4>2
        <3>7. \A s \in Server : ~Sending(streams'[s])
            BY <1>1, <1>2, <3>4 DEF WriteInv, Sending, Stream
        <3>8. ASSUME NEW s \in Client
              PROVE  /\ writer'[s] = "none" => wire'[s] = <<>> /\ written'[s] = 0 /\ late'[s] = 0
                     /\ Sending(streams'[s]) =>
                           /\ Flow(wire'[s], streams'[s], written'[s], late'[s])
                           /\ writer'[s] # "none" /\ (streams'[s].outFin => writer'[s] # "open")
            <4>1. CASE s \in Outgoing
                BY <3>3, <4>1
            <4>2. CASE s \notin Outgoing
                <5>1. /\ streams'[s] = streams[s] /\ wire'[s] = wire[s] /\ writer'[s] = writer[s]
                      /\ written'[s] = written[s] /\ late'[s] = late[s]
                    BY <1>2, <3>2, <3>4, <4>2 DEF writeVars
                <5>2. QED BY <1>2, <5>1 DEF WriteInv
            <4>3. QED BY <4>1, <4>2
        <3>9. QED BY <3>5, <3>6, <3>7, <3>8 DEF WriteInv, Sending, Flow
    <2>3. QED BY <2>1, <2>2
<1>5. TypeOK'
    BY <1>2, <1>4 DEF TypeOK, connVars, ownVars, serverVars, promiseVars, readVars, writeVars
<1>6. QED BY <1>3, <1>4, <1>5 DEF IInv

(* Giving an event to the script changes the state of a promise or of a    *)
(* readable or writer, never of a writer of the client.                    *)
LEMMA SettleIs ==
    ASSUME TypeOK, NEW e \in SomeEvent, Settle(e)
    PROVE  /\ ready' \in {"pending", "resolved", "rejected"}
           /\ closed' \in {"pending", "resolved", "rejected"}
           /\ lastError' \in BOOLEAN /\ listed' \in BOOLEAN
           /\ listed' = (listed /\ ~IsClose(e))
<1>1. /\ ready \in {"pending", "resolved", "rejected"}
      /\ closed \in {"pending", "resolved", "rejected"}
      /\ lastError \in BOOLEAN /\ listed \in BOOLEAN
    BY DEF TypeOK
<1>2. CASE e.type = "ready"
    BY <1>1, <1>2 DEF Settle, IsClose
<1>3. CASE e.type = "error"
    BY <1>1, <1>3 DEF Settle, IsClose
<1>4. CASE e.type = "closed"
    BY <1>1, <1>4 DEF Settle, IsClose
<1>5. CASE e.type \notin {"ready", "error", "closed"}
    BY <1>1, <1>5 DEF Settle, IsClose, promiseVars
<1>6. QED BY <1>2, <1>3, <1>4, <1>5

LEMMA DeliverIs ==
    ASSUME TypeOK, NEW e \in SomeEvent, Deliver(e)
    PROVE  /\ got' \in [Readable -> Seq(Nat)]
           /\ readable' \in [Readable -> {"none", "open", "closed", "errored"}]
           /\ writer' \in [Writable -> {"none", "open", "closed", "errored"}]
           /\ \A s \in Client : writer'[s] = writer[s]
<1>1. /\ got \in [Readable -> Seq(Nat)]
      /\ readable \in [Readable -> {"none", "open", "closed", "errored"}]
      /\ writer \in [Writable -> {"none", "open", "closed", "errored"}]
      /\ e.units \in Seq(Nat)
    BY DEF TypeOK, SomeEvent
<1>2. PICK s : s = e.stream
    OBVIOUS
<1>3. CASE e.type = "closed"
    BY <1>1, <1>3 DEF Deliver
<1>4. CASE e.type = "incoming"
    <2>1. /\ readable' = [readable EXCEPT ![s] = "open"]
          /\ writer' = IF s \in ServerBidi THEN [writer EXCEPT ![s] = "open"] ELSE writer
          /\ UNCHANGED got
        BY <1>2, <1>4 DEF Deliver
    <2>2. \A c \in Client : s \in ServerBidi => c # s
        BY StreamAssumption DEF Client, Server
    <2>3. Client \subseteq Writable
        BY StreamAssumption DEF Writable, Stream, Client, Server
    <2>4. QED BY <1>1, <2>1, <2>2, <2>3
<1>5. CASE e.type = "streamData"
    <2>1. /\ got' = IF readable[s] = "open" THEN [got EXCEPT ![s] = @ \o e.units] ELSE got
          /\ readable' = IF e.fin /\ readable[s] = "open"
                         THEN [readable EXCEPT ![s] = "closed"] ELSE readable
          /\ UNCHANGED writer
        BY <1>2, <1>5 DEF Deliver
    <2>2. got' \in [Readable -> Seq(Nat)]
        <3>1. s \in Readable => got[s] \o e.units \in Seq(Nat)
            BY <1>1, ConcatProperties
        <3>2. QED BY <1>1, <2>1, <3>1
    <2>3. QED BY <1>1, <2>1, <2>2
<1>6. CASE e.type = "streamReset"
    <2>1. /\ readable' = IF readable[s] = "open"
                         THEN [readable EXCEPT ![s] = "errored"] ELSE readable
          /\ UNCHANGED <<got, writer>>
        BY <1>2, <1>6 DEF Deliver
    <2>2. QED BY <1>1, <2>1
<1>7. CASE e.type \notin {"closed", "incoming", "streamData", "streamReset"}
    BY <1>1, <1>7 DEF Deliver, readVars
<1>8. QED BY <1>3, <1>4, <1>5, <1>6, <1>7

LEMMA DispatchStep == ASSUME IInv, DispatchEvent PROVE IInv'
<1>1. /\ pc = "dispatch" /\ events # <<>> /\ events' = Tail(events)
      /\ UNCHANGED <<pc, connVars, ownVars, serverVars, streamVars, written, late>>
    BY DEF DispatchEvent
<1>2. TypeOK /\ events \in Seq(SomeEvent) /\ listed \in BOOLEAN
    BY DEF IInv, TypeOK, SomeEvent
<1>3. PICK e, n : e = Head(events) /\ n = Len(events)
    OBVIOUS
<1>4. /\ e \in SomeEvent /\ e = events[1] /\ n \in Nat \ {0}
      /\ Tail(events) \in Seq(SomeEvent) /\ Len(Tail(events)) = n - 1
      /\ \A i \in 1 .. n - 1 : Tail(events)[i] = events[i + 1]
    BY <1>1, <1>2, <1>3, EmptySeq, HeadTailProperties, ElementOfSeq
<1>5. /\ ready' \in {"pending", "resolved", "rejected"}
      /\ closed' \in {"pending", "resolved", "rejected"}
      /\ lastError' \in BOOLEAN /\ listed' \in BOOLEAN
      /\ listed' = (listed /\ ~IsClose(e))
      /\ got' \in [Readable -> Seq(Nat)]
      /\ readable' \in [Readable -> {"none", "open", "closed", "errored"}]
      /\ writer' \in [Writable -> {"none", "open", "closed", "errored"}]
      /\ \A s \in Client : writer'[s] = writer[s]
    <2>1. CASE listed
        <3>1. Settle(e) /\ Deliver(e)
            BY <1>3, <2>1 DEF DispatchEvent
        <3>2. QED BY <1>2, <1>4, <3>1, SettleIs, DeliverIs
    <2>2. CASE ~listed
        <3>1. UNCHANGED <<promiseVars, readVars, writer>>
            BY <2>2 DEF DispatchEvent
        <3>2. QED BY <1>2, <2>2, <3>1 DEF TypeOK, promiseVars, readVars
    <2>3. QED BY <1>2, <2>1, <2>2
<1>6. WriteInv'
    BY <1>1, <1>5, NothingSent DEF IInv, streamVars, Alike
<1>7. SessionInv'
    <2>1. /\ owned /\ owned' /\ pc' = "dispatch"
          /\ teardown <=> (~listed \/ \E i \in 1 .. n : IsClose(events[i]))
        BY <1>1, <1>3 DEF IInv, SessionInv, ownVars
    <2>2. events' \in Seq(SomeEvent) /\ Len(events') = n - 1
          /\ \A i \in 1 .. n - 1 : events'[i] = events[i + 1]
        BY <1>1, <1>4
    <2>3. (\E i \in 1 .. n : IsClose(events[i]))
              <=> (IsClose(e) \/ \E i \in 1 .. n - 1 : IsClose(events'[i]))
        <3>1. ASSUME NEW i \in 1 .. n, IsClose(events[i])
              PROVE  IsClose(e) \/ \E j \in 1 .. n - 1 : IsClose(events'[j])
            <4>1. CASE i = 1
                BY <1>4, <3>1, <4>1
            <4>2. CASE i # 1
                <5>1. i - 1 \in 1 .. n - 1 /\ (i - 1) + 1 = i
                    BY <1>4, <4>2
                <5>2. events'[i - 1] = events[i]
                    BY <2>2, <5>1
                <5>3. QED BY <3>1, <5>1, <5>2
            <4>3. QED BY <4>1, <4>2
        <3>2. ASSUME NEW i \in 1 .. n - 1, IsClose(events'[i])
              PROVE  \E j \in 1 .. n : IsClose(events[j])
            <4>1. i + 1 \in 1 .. n /\ events'[i] = events[i + 1]
                BY <1>4, <2>2
            <4>2. QED BY <3>2, <4>1
        <3>3. IsClose(e) => \E j \in 1 .. n : IsClose(events[j])
            BY <1>4
        <3>4. QED BY <3>1, <3>2, <3>3
    <2>4. teardown' <=> (~listed' \/ \E i \in 1 .. n - 1 : IsClose(events'[i]))
        BY <1>1, <1>5, <2>1, <2>3 DEF ownVars
    <2>5. QED BY <2>1, <2>2, <2>4 DEF SessionInv
<1>8. TypeOK'
    <2>1. events' \in Seq(SomeEvent)
        BY <1>1, <1>4
    <2>2. QED BY <1>1, <1>2, <1>5, <2>1
          DEF TypeOK, SomeEvent, connVars, ownVars, serverVars, streamVars
<1>9. QED BY <1>6, <1>7, <1>8 DEF IInv

-----------------------------------------------------------------------------
LEMMA InitEstablishes == Init => IInv
<1> SUFFICES ASSUME Init PROVE IInv
    OBVIOUS
<1>1. NoStream \in StreamState /\ ~Sending(NoStream)
    BY DEF StreamState, Sending, NoStream
<1>2. <<>> \in Seq(Nat) /\ <<>> \in Seq(SomeEvent) /\ Nothing \in Waiting
      /\ Header \in Nat /\ MaxUnits \in Nat
    BY UnitsAssumption DEF Nothing, Waiting, Header
<1>3. \A s \in Client : s \in Stream /\ s \in Writable
    BY StreamAssumption DEF Writable, Stream, Client, Server
<1>4. WriteInv
    <2>1. \A s \in Stream : ~Sending(streams[s])
        BY <1>1 DEF Init
    <2>2. QED BY <1>3, <2>1 DEF Init, WriteInv, Sending, Stream
<1>5. SessionInv
    BY DEF Init, SessionInv
<1>6. TypeOK
    <2>1. /\ streams \in [Stream -> StreamState] /\ wire \in [Writable -> Seq(Nat)]
          /\ got \in [Readable -> Seq(Nat)] /\ arrived \in [Readable -> Waiting]
          /\ sent \in [Readable -> 0 .. MaxUnits + Header]
          /\ written \in [Writable -> 0 .. MaxUnits] /\ late \in [Writable -> Nat]
          /\ events \in Seq(SomeEvent)
        BY <1>1, <1>2 DEF Init
    <2>2. QED BY <2>1 DEF Init, TypeOK, SomeEvent, Waiting
<1>7. QED BY <1>4, <1>5, <1>6 DEF IInv

LEMMA NextStep == IInv /\ [Next]_vars => IInv'
<1> SUFFICES ASSUME IInv, [Next]_vars PROVE IInv'
    OBVIOUS
<1>1. CASE Process
    <2>1. CASE BeginProcess
        BY <2>1, BeginStep
    <2>2. CASE EndPump(FALSE) \/ EndPump(TRUE)
        BY <2>2, EndPumpStep
    <2>3. CASE PollHandshake
        BY <2>3, PollHandshakeStep
    <2>4. CASE RetryWrites
        BY <2>4, RetryStep
    <2>5. CASE DetectClosure
        BY <2>5, DetectClosureStep
    <2>6. CASE DispatchEvent
        BY <2>6, DispatchStep
    <2>7. CASE EndProcess
        BY <2>7, EndProcessStep
    <2>8. QED BY <1>1, <2>1, <2>2, <2>3, <2>4, <2>5, <2>6, <2>7 DEF Process
<1>2. CASE \E s \in Readable, n \in 0 .. MaxUnits + Header, end \in {"none", "fin", "reset"} :
              ReceiveData(s, n, end)
    BY <1>2, ReceiveDataStep
<1>3. CASE ReceiveControl
    BY <1>3, ReceiveControlStep
<1>4. CASE \E s \in Writable : CreateStream(s) \/ Write(s) \/ CloseWriter(s) \/ AbortWriter(s)
    BY <1>4, CreateStep, WriteStep, CloseWriterStep, AbortStep
<1>5. CASE CloseSession
    BY <1>5, CloseSessionStep
<1>6. CASE Shutdown
    BY <1>6, ShutdownStep
<1>7. CASE UNCHANGED vars
    <2>1. WriteInv'
        BY <1>7, NothingSent DEF IInv, vars, streamVars, writeVars, Alike
    <2>2. SessionInv'
        BY <1>7 DEF IInv, SessionInv, vars, ownVars, promiseVars
    <2>3. TypeOK'
        BY <1>7 DEF IInv, TypeOK, vars, connVars, ownVars, serverVars, streamVars, promiseVars,
               readVars, writeVars
    <2>4. QED BY <2>1, <2>2, <2>3 DEF IInv
<1>8. QED BY <1>1, <1>2, <1>3, <1>4, <1>5, <1>6, <1>7 DEF Next

(* The inductive invariant: the types, what is written to each stream, and *)
(* the event that ends the session.                                        *)
THEOREM Invariance == Spec => []IInv
<1>1. Init => IInv
    BY InitEstablishes
<1>2. IInv /\ [Next]_vars => IInv'
    BY NextStep
<1>3. QED BY <1>1, <1>2, PTL DEF Spec

(* Every variable keeps its type: no event, no piece of a stream and no    *)
(* StreamState of another shape is ever made.                              *)
THEOREM Typing == Spec => []TypeOK
<1>1. IInv => TypeOK
    BY DEF IInv
<1>2. QED BY <1>1, Invariance, PTL

(* However quiche takes what it is given by pumpStream, a stream carries   *)
(* its header and then what write() accepted, in order and once, and does  *)
(* not end before all that was written before close() was taken.           *)
THEOREM WritesInOrder == Spec => []WrittenInOrder
<1>1. IInv => WrittenInOrder
    <2> SUFFICES ASSUME IInv, NEW s \in Writable, Sending(streams[s])
                 PROVE  /\ wire[s] \o streams[s].out = Sent(written[s])
                        /\ streams[s].finSent => Len(wire[s]) >= Header + written[s] - late[s]
        BY DEF WrittenInOrder, Sending, Sent
    <2>1. s \in Client
        BY DEF IInv, WriteInv, Writable, Stream
    <2>2. Flow(wire[s], streams[s], written[s], late[s])
        BY <2>1 DEF IInv, WriteInv
    <2>3. QED BY <2>2 DEF Flow
<1>2. QED BY <1>1, Invariance, PTL

(* Between frames the session is in g_sessions exactly while it is in the  *)
(* polyfill's map: neither end forgets a session that the other one keeps. *)
THEOREM SessionLists == Spec => []SessionsAgree
<1>1. IInv => SessionsAgree
    BY DEF IInv, SessionInv, SessionsAgree
<1>2. QED BY <1>1, Invariance, PTL

-----------------------------------------------------------------------------

(* Reading in order.                                                       *)
HeadOf(s)      == IF s \in Server THEN Header ELSE 0
Concerns(s, e) == e.type \in {"incoming", "streamData", "streamReset"} /\ e.stream = s

(* What the rest of the session knows of the server's side of a stream:    *)
(* whether all that arrives can be read, whether the stream exists, how    *)
(* much has arrived, and whether its end has.                              *)
Channel == [live : BOOLEAN, begun : BOOLEAN, total : Nat, over : BOOLEAN]
ChannelOf(s) ==
    [live  |-> s \notin lost \cup shut, begun |-> (s \in Client => writer[s] # "none"),
     total |-> sent[s],                 over  |-> s \in ended]

(* The readable of a stream: how much it was given, and its state.  One    *)
(* that does not exist yet is open from the moment on when it does.        *)
Reader == [pos : Nat, side : {"none", "open", "closed", "errored"}]
ReaderOf(s) ==
    [pos  |-> Len(got[s]),
     side |-> IF ChannelOf(s).begun THEN readable[s] ELSE "open"]

(* What an event makes of it ...                                           *)
After(s, a, e) ==
    IF ~Concerns(s, e) THEN a
    ELSE [pos  |-> a.pos + Len(e.units),
          side |-> IF e.type = "streamReset"
                   THEN IF a.side = "open" THEN "errored" ELSE a.side
                   ELSE IF e.fin THEN "closed" ELSE "open"]

(* ... and the events that may come next: a server stream is announced     *)
(* before its payload, which goes on where it stopped and ends with the    *)
(* last unit.                                                              *)
Follows(s, c, a, e) ==
    Concerns(s, e) =>
        /\ c.begun
        /\ e.type # "streamData" => e.units = <<>> /\ ~e.fin
        /\ e.type = "incoming" => s \in Server /\ a.side = "none"
        /\ e.type = "streamData" =>
              /\ a.side = "open"
              /\ \A i \in 1 .. Len(e.units) : e.units[i] = a.pos + i
              /\ e.fin => c.over /\ a.pos + Len(e.units) = c.total - HeadOf(s)

(* f[i] is the readable after the first i events.                          *)
Run(s, c, ev, a, f) ==
    /\ f \in [0 .. Len(ev) -> Reader] /\ f[0] = a
    /\ \A i \in 1 .. Len(ev) : Follows(s, c, f[i - 1], ev[i]) /\ f[i] = After(s, f[i - 1], ev[i])

HeaderRead(s, st) == IF s \in Server /\ st.tracked THEN st.header ELSE 0

(* What the readable has been given when all events are dispatched, what   *)
(* was read of the header, and what waits in quiche, are together all that *)
(* has arrived.                                                            *)
Account(s, c, a, st, w) ==
    LET h == HeaderRead(s, st)
        k == a.pos + h
    IN  c.live /\ (~c.over \/ w # Nothing) =>
           /\ k <= c.total
           /\ Len(w.units) = c.total - k
           /\ \A i \in 1 .. Len(w.units) : w.units[i] = Unit(s, k + i)
           /\ w.end = "none" <=> ~c.over
           /\ w.end = "fin" => c.total >= HeadOf(s)
           /\ w # Nothing => c.begun
           /\ h < HeadOf(s) => a.pos = 0
           /\ a.side = IF h < HeadOf(s) THEN "none" ELSE "open"
           /\ s \in Server /\ st.tracked => (st.announced <=> h = Header)

Accounted(s, c, ev, a, st, w) ==
    \E f : Run(s, c, ev, a, f) /\ Account(s, c, f[Len(ev)], st, w)

AllAccounted(s) == Accounted(s, ChannelOf(s), events, ReaderOf(s), streams[s], arrived[s])

-----------------------------------------------------------------------------
LEMMA AfterIs ==
    ASSUME NEW s, NEW a \in Reader, NEW e \in SomeEvent
    PROVE  /\ After(s, a, e) \in Reader
           /\ ~Concerns(s, e) => After(s, a, e) = a /\ \A c : Follows(s, c, a, e)
<1>1. e.units \in Seq(Nat) /\ e.fin \in BOOLEAN /\ Len(e.units) \in Nat
    BY LenProperties DEF SomeEvent
<1>2. a.pos \in Nat /\ a.side \in {"none", "open", "closed", "errored"}
    BY DEF Reader
<1>3. After(s, a, e) \in Reader
    <2>1. CASE ~Concerns(s, e)
        BY <2>1 DEF After
    <2>2. CASE Concerns(s, e)
        <3>1. PICK p, d : /\ p = a.pos + Len(e.units)
                          /\ d = IF e.type = "streamReset"
                                 THEN IF a.side = "open" THEN "errored" ELSE a.side
                                 ELSE IF e.fin THEN "closed" ELSE "open"
            OBVIOUS
        <3>2. p \in Nat /\ d \in {"none", "open", "closed", "errored"}
            BY <1>1, <1>2, <3>1
        <3>3. After(s, a, e) = [pos |-> p, side |-> d]
            BY <2>2, <3>1 DEF After
        <3>4. QED BY <3>2, <3>3 DEF Reader
    <2>3. QED BY <2>1, <2>2
<1>4. QED BY <1>3 DEF After, Follows

(* One more event that may come next ...                                   *)
LEMMA RunOn ==
    ASSUME NEW s, NEW c, NEW ev \in Seq(SomeEvent), NEW a, NEW f, Run(s, c, ev, a, f),
           NEW e \in SomeEvent, Follows(s, c, f[Len(ev)], e)
    PROVE  /\ f[Len(ev)] \in Reader
           /\ \E g : /\ Run(s, c, Append(ev, e), a, g)
                     /\ g[Len(ev) + 1] = After(s, f[Len(ev)], e)
<1>1. PICK n, b, more : n = Len(ev) /\ b = After(s, f[n], e) /\ more = Append(ev, e)
    OBVIOUS
<1>2. /\ n \in Nat /\ Len(more) = n + 1 /\ more[n + 1] = e
      /\ \A i \in 1 .. n : more[i] = ev[i]
    BY <1>1, LenProperties, AppendProperties
<1>3. f \in [0 .. n -> Reader] /\ f[n] \in Reader /\ f[0] = a
    BY <1>1, <1>2 DEF Run
<1>4. b \in Reader
    BY <1>1, <1>3, AfterIs
<1>5. PICK g : g = [i \in 0 .. n + 1 |-> IF i = n + 1 THEN b ELSE f[i]]
    OBVIOUS
<1>6. /\ g \in [0 .. n + 1 -> Reader] /\ g[n + 1] = b
      /\ \A i \in 0 .. n : g[i] = f[i]
    BY <1>2, <1>3, <1>4, <1>5
<1>7. ASSUME NEW i \in 1 .. n + 1
      PROVE  Follows(s, c, g[i - 1], more[i]) /\ g[i] = After(s, g[i - 1], more[i])
    <2>1. CASE i = n + 1
        <3>1. i - 1 = n /\ g[n] = f[n]
            BY <1>2, <1>6, <2>1
        <3>2. QED BY <1>1, <1>2, <1>6, <2>1, <3>1
    <2>2. CASE i # n + 1
        <3>1. i \in 1 .. n /\ i - 1 \in 0 .. n /\ i \in 0 .. n
            BY <1>2, <2>2
        <3>2. Follows(s, c, f[i - 1], ev[i]) /\ f[i] = After(s, f[i - 1], ev[i])
            BY <1>1, <3>1 DEF Run
        <3>3. QED BY <1>2, <1>6, <3>1, <3>2
    <2>3. QED BY <2>1, <2>2
<1>8. Run(s, c, more, a, g)
    <2>1. g[0] = a
        BY <1>2, <1>3, <1>6
    <2>2. QED BY <1>2, <1>6, <1>7, <2>1 DEF Run
<1>9. QED BY <1>1, <1>3, <1>6, <1>8

(* ... or any number of events of other streams.                           *)
LEMMA RunAside ==
    ASSUME NEW s, NEW c, NEW ev \in Seq(SomeEvent), NEW a, NEW st, NEW w,
           Accounted(s, c, ev, a, st, w),
           NEW others \in Seq({e \in SomeEvent : ~Concerns(s, e)})
    PROVE  Accounted(s, c, ev \o others, a, st, w)
<1>1. PICK f : Run(s, c, ev, a, f) /\ Account(s, c, f[Len(ev)], st, w)
    BY DEF Accounted
<1>2. PICK n, k, more : n = Len(ev) /\ k = Len(others) /\ more = ev \o others
    OBVIOUS
<1>3. others \in Seq(SomeEvent) /\ \A i \in 1 .. k : others[i] \in SomeEvent /\ ~Concerns(s, others[i])
    <2>1. {e \in SomeEvent : ~Concerns(s, e)} \subseteq SomeEvent
        OBVIOUS
    <2>2. others \in Seq(SomeEvent)
        BY <2>1, SeqMonotonic
    <2>3. ASSUME NEW i \in 1 .. k PROVE others[i] \in {e \in SomeEvent : ~Concerns(s, e)}
        BY <1>2, ElementOfSeq
    <2>4. QED BY <2>2, <2>3
<1>4. /\ n \in Nat /\ k \in Nat /\ Len(more) = n + k
      /\ \A i \in 1 .. n + k : more[i] = IF i <= n THEN ev[i] ELSE others[i - n]
    BY <1>2, <1>3, LenProperties, ConcatProperties
<1>5. f \in [0 .. n -> Reader] /\ f[n] \in Reader /\ f[0] = a
    BY <1>1, <1>2, <1>4 DEF Run
<1>6. PICK g : g = [i \in 0 .. n + k |-> IF i <= n THEN f[i] ELSE f[n]]
    OBVIOUS
<1>7. /\ g \in [0 .. n + k -> Reader]
      /\ \A i \in 0 .. n : g[i] = f[i]
      /\ \A i \in n .. n + k : g[i] = f[n]
    BY <1>4, <1>5, <1>6
<1>8. ASSUME NEW i \in 1 .. n + k
      PROVE  Follows(s, c, g[i - 1], more[i]) /\ g[i] = After(s, g[i - 1], more[i])
    <2>1. CASE i <= n
        <3>1. i \in 1 .. n /\ i - 1 \in 0 .. n /\ i \in 0 .. n
            BY <1>4, <2>1
        <3>2. Follows(s, c, f[i - 1], ev[i]) /\ f[i] = After(s, f[i - 1], ev[i])
            BY <1>1, <1>2, <3>1 DEF Run
        <3>3. QED BY <1>4, <1>7, <2>1, <3>1, <3>2
    <2>2. CASE ~(i <= n)
        <3>1. i - 1 \in n .. n + k /\ i \in n .. n + k /\ i - n \in 1 .. k
            BY <1>4, <2>2
        <3>2. more[i] \in SomeEvent /\ ~Concerns(s, more[i])
            BY <1>3, <1>4, <2>2, <3>1
        <3>3. g[i - 1] = f[n] /\ g[i] = f[n]
            BY <1>7, <3>1
        <3>4. QED BY <1>5, <3>2, <3>3, AfterIs
    <2>3. QED BY <2>1, <2>2
<1>9. Run(s, c, more, a, g)
    <2>1. g[0] = a
        BY <1>4, <1>5, <1>7
    <2>2. QED BY <1>4, <1>7, <1>8, <2>1 DEF Run
<1>10. g[n + k] = f[n]
    BY <1>4, <1>7
<1>11. QED BY <1>1, <1>2, <1>4, <1>9, <1>10 DEF Accounted

LEMMA SubSeqIs ==
    ASSUME NEW u \in Seq(Nat), NEW m \in Nat
    PROVE  /\ SubSeq(u, m + 1, Len(u)) \in Seq(Nat)
           /\ m <= Len(u) =>
                 /\ Len(SubSeq(u, m + 1, Len(u))) = Len(u) - m
                 /\ \A i \in 1 .. Len(u) - m : SubSeq(u, m + 1, Len(u))[i] = u[m + i]
<1>1. PICK n, k : n = Len(u) /\ k = m + 1
    OBVIOUS
<1>2. n \in Nat /\ \A i \in 1 .. n : u[i] \in Nat
    BY <1>1, LenProperties, ElementOfSeq
<1>3. k \in Int /\ n \in Int /\ \A i \in k .. n : u[i] \in Nat
    BY <1>1, <1>2
<1>4. PICK v : v = SubSeq(u, k, n)
    OBVIOUS
<1>5. /\ v \in Seq(Nat) /\ Len(v) = IF k <= n THEN n - k + 1 ELSE 0
      /\ \A i \in 1 .. n - k + 1 : v[i] = u[k + i - 1]
    BY <1>3, <1>4, SubSeqProperties
<1>6. m <= n => Len(v) = n - m /\ \A i \in 1 .. n - m : v[i] = u[m + i]
    <2>1. n - k + 1 = n - m /\ \A i \in Int : k + i - 1 = m + i
        BY <1>1, <1>2
    <2>2. m <= n => Len(v) = n - m
        BY <1>1, <1>2, <1>5, <2>1
    <2>3. \A i \in 1 .. n - m : v[i] = u[m + i]
        BY <1>5, <2>1
    <2>4. QED BY <2>2, <2>3
<1>7. QED BY <1>1, <1>4, <1>5, <1>6

LEMMA EventIs ==
    ASSUME NEW s \in Stream, NEW type \in {"incoming", "streamData", "streamReset"},
           NEW units \in Seq(Nat), NEW end \in BOOLEAN, NEW e, e = Event(type, s, units, end)
    PROVE  /\ e \in SomeEvent /\ Concerns(s, e)
           /\ e.type = type /\ e.units = units /\ e.fin = end
BY DEF Event, SomeEvent, EventType, Concerns

LEMMA BareEventIs ==
    ASSUME NEW s \in Stream, NEW type \in {"incoming", "streamReset"},
           NEW e, e = Event(type, s, <<>>, FALSE)
    PROVE  /\ e \in SomeEvent /\ Concerns(s, e)
           /\ e.type = type /\ e.units = <<>> /\ e.fin = FALSE
<1>1. <<>> \in Seq(Nat)
    BY EmptySeq
<1>2. FALSE \in BOOLEAN
    OBVIOUS
<1>3. ASSUME NEW units \in Seq(Nat), NEW end \in BOOLEAN
      PROVE  /\ Event(type, s, units, end) \in SomeEvent
             /\ Concerns(s, Event(type, s, units, end))
             /\ Event(type, s, units, end).type = type
             /\ Event(type, s, units, end).units = units
             /\ Event(type, s, units, end).fin = end
    <2>1. type \in {"incoming", "streamData", "streamReset"}
        OBVIOUS
    <2>2. PICK x : x = Event(type, s, units, end)
        OBVIOUS
    <2>3. QED BY <2>1, <2>2, EventIs
<1>4. QED BY <1>1, <1>2, <1>3, Zenon

(* What waits in quiche, once read, is accounted for by the events.        *)
LEMMA ReadKeeps ==
    ASSUME NEW s \in Readable, streams[s] \in StreamState, NEW w \in Waiting, w # Nothing,
           NEW c \in Channel, c.live, NEW a, NEW ev \in Seq(SomeEvent),
           Accounted(s, c, ev, a, streams[s], w),
           NEW r, r = ReadStream(s, w)
    PROVE  Accounted(s, c, ev \o r.events, a, r.state, Nothing)
<1>1. PICK f : Run(s, c, ev, a, f) /\ Account(s, c, f[Len(ev)], streams[s], w)
    BY DEF Accounted
<1>2. PICK b : b = f[Len(ev)]
    OBVIOUS
<1>3. /\ b \in Reader /\ b.pos \in Nat /\ Len(ev) \in Nat
      /\ c.total \in Nat /\ c.over \in BOOLEAN /\ c.begun \in BOOLEAN
      /\ Header \in Nat /\ Header = 2
    <2>1. Len(ev) \in Nat
        BY LenProperties
    <2>2. f \in [0 .. Len(ev) -> Reader]
        BY <1>1 DEF Run
    <2>3. b \in Reader
        BY <1>2, <2>1, <2>2
    <2>4. QED BY <2>1, <2>3 DEF Reader, Channel, Header
<1>4. PICK st : st = IF streams[s].tracked THEN streams[s] ELSE NewStream(FALSE)
    OBVIOUS
<1>5. PICK h : h = HeaderRead(s, streams[s])
    OBVIOUS
<1>6. /\ st \in StreamState /\ st.tracked = TRUE /\ st.announced \in BOOLEAN
      /\ st.header \in 0 .. Header
      /\ s \in Server => h = st.header /\ (st.announced <=> h = Header)
      /\ s \notin Server => h = 0
    <2>1. CASE streams[s].tracked
        <3>1. st = streams[s] /\ st # NoStream
            BY <1>4, <2>1 DEF NoStream
        <3>2. /\ st \in StreamState /\ st.tracked = TRUE /\ st.announced \in BOOLEAN
              /\ st.header \in 0 .. Header
            BY <3>1 DEF StreamState
        <3>3. s \in Server => (st.announced <=> h = Header)
            BY <1>1, <1>2, <1>5, <2>1, <3>1 DEF Account
        <3>4. h = IF s \in Server THEN st.header ELSE 0
            BY <1>5, <2>1, <3>1 DEF HeaderRead
        <3>5. s \in Server => h = st.header
            BY <3>4
        <3>6. s \notin Server => h = 0
            BY <3>4
        <3>7. s \in Server => h = st.header /\ (st.announced <=> h = Header)
            BY <3>3, <3>5
        <3>8. QED BY <3>2, <3>6, <3>7
    <2>2. CASE ~streams[s].tracked
        <3>1. st = NewStream(FALSE)
            BY <1>4, <2>2
        <3>2. st.tracked = TRUE /\ st.announced = FALSE /\ st.header = 0
            BY <3>1 DEF NewStream
        <3>3. st \in StreamState
            BY <3>1, NewStreamIs
        <3>4. h = 0 /\ h # Header /\ 0 \in 0 .. Header
            BY <1>3, <1>5, <2>2 DEF HeaderRead
        <3>5. st.announced <=> h = Header
            BY <3>2, <3>4
        <3>6. st.announced \in BOOLEAN /\ st.header \in 0 .. Header /\ h = st.header
            BY <3>2, <3>4
        <3>7. QED BY <3>2, <3>3, <3>4, <3>5, <3>6
    <2>3. QED BY <2>1, <2>2
<1>7. PICK n, missing : n = Len(w.units) /\ missing = HeadOf(s) - h
    OBVIOUS
<1>8. /\ b.pos + h <= c.total /\ n = c.total - (b.pos + h)
      /\ \A i \in 1 .. n : w.units[i] = Unit(s, b.pos + h + i)
      /\ w.end = "none" <=> ~c.over
      /\ w.end = "fin" => c.total >= HeadOf(s)
      /\ c.begun
      /\ h < HeadOf(s) => b.pos = 0
      /\ b.side = IF h < HeadOf(s) THEN "none" ELSE "open"
    BY <1>1, <1>2, <1>5, <1>7 DEF Account
<1>9. /\ w.units \in Seq(Nat) /\ n \in Nat /\ h \in 0 .. HeadOf(s) /\ HeadOf(s) \in {0, 2}
      /\ missing \in 0 .. HeadOf(s) /\ missing \in Nat
      /\ missing = IF s \in Client THEN 0 ELSE Header - st.header
      /\ w.end \in {"none", "fin", "reset"} /\ (s \in Client <=> s \notin Server)
    <2>1. w.units \in Seq(Nat) /\ n \in Nat /\ w.end \in {"none", "fin", "reset"}
        BY <1>7, LenProperties DEF Waiting
    <2>2. s \in Client <=> s \notin Server
        BY StreamAssumption DEF Readable, Stream
    <2>3. CASE s \in Server
        BY <1>3, <1>6, <1>7, <2>1, <2>2, <2>3 DEF HeadOf
    <2>4. CASE s \notin Server
        BY <1>3, <1>6, <1>7, <2>1, <2>2, <2>4 DEF HeadOf
    <2>5. QED BY <2>3, <2>4
<1>10. PICK payload, fin : payload = SubSeq(w.units, missing + 1, n) /\ fin = (w.end = "fin")
    OBVIOUS
<1>11. PICK incoming, more :
           /\ incoming = Event("incoming", s, <<>>, FALSE)
           /\ more = Event("streamData", s, payload, fin)
    OBVIOUS
<1>12. r = IF w.end = "reset"
           THEN [state |-> NoStream, events |-> <<Event("streamReset", s, <<>>, FALSE)>>]
           ELSE IF n < missing
           THEN [state |-> [st EXCEPT !.header = @ + n], events |-> <<>>]
           ELSE [state |-> IF fin /\ s \in Server THEN NoStream
                           ELSE [st EXCEPT !.header = Header, !.announced = s \in Server],
                 events |-> (IF s \in Server /\ ~st.announced THEN <<incoming>> ELSE <<>>)
                            \o (IF payload # <<>> \/ fin THEN <<more>> ELSE <<>>)]
    BY <1>4, <1>7, <1>9, <1>10, <1>11 DEF ReadStream
<1>13. payload \in Seq(Nat) /\ fin \in BOOLEAN
    <2>1. PICK u : u = w.units
        OBVIOUS
    <2>2. u \in Seq(Nat) /\ missing \in Nat /\ payload = SubSeq(u, missing + 1, Len(u))
        BY <1>7, <1>9, <1>10, <2>1
    <2>3. QED BY <1>10, <2>2, SubSeqIs
<1>14. s \in Stream
    BY DEF Readable
<1>15. CASE w.end = "reset"
    <2>1. PICK e : e = Event("streamReset", s, <<>>, FALSE)
        OBVIOUS
    <2>2. /\ e \in SomeEvent /\ Concerns(s, e)
          /\ e.type = "streamReset" /\ e.units = <<>> /\ e.fin = FALSE
        BY <1>14, <2>1, BareEventIs
    <2>3. r.state = NoStream /\ r.events = <<e>>
        <3>1. r = [state |-> NoStream, events |-> <<e>>]
            BY <1>12, <1>15, <2>1
        <3>2. QED BY <3>1
    <2>4. Follows(s, c, b, e)
        BY <1>8, <2>2 DEF Follows
    <2>5. PICK g : Run(s, c, Append(ev, e), a, g)
        BY <1>1, <1>2, <2>2, <2>4, RunOn
    <2>6. Append(ev, e) = ev \o r.events
        BY <2>2, <2>3, AppendIsConcat
    <2>7. \A d : Account(s, c, d, r.state, Nothing)
        BY <1>8, <1>15 DEF Account
    <2>8. QED BY <2>5, <2>6, <2>7 DEF Accounted
<1>16. CASE w.end # "reset" /\ n < missing
    <2>1. PICK t : t = [st EXCEPT !.header = st.header + n]
        OBVIOUS
    <2>2. r.state = t /\ r.events = <<>>
        BY <1>12, <1>16, <2>1
    <2>3. /\ t.tracked = TRUE /\ t.header = st.header + n /\ t.announced = st.announced
        BY <1>6, <2>1 DEF StreamState, NoStream
    <2>4. s \in Server /\ h < HeadOf(s) /\ b.pos = 0 /\ ~c.over /\ b.side = "none"
        <3>1. PICK x, y, z : x = b.pos /\ y = HeadOf(s) /\ z = c.total
            OBVIOUS
        <3>2. /\ x \in Nat /\ y \in Nat /\ z \in Nat /\ h \in Nat /\ n \in Nat
              /\ n = z - (x + h) /\ missing = y - h /\ n < missing
            BY <1>3, <1>7, <1>8, <1>9, <1>16, <3>1
        <3>3. h < y /\ y # 0
            BY <3>2
        <3>4. s \in Server /\ x = 0 /\ b.side = "none"
            BY <1>8, <3>1, <3>3 DEF HeadOf
        <3>5. ~(z >= y)
            BY <3>2, <3>4
        <3>6. w.end = "none"
            BY <1>8, <1>9, <1>16, <3>1, <3>5
        <3>7. QED BY <1>8, <3>1, <3>3, <3>4, <3>6
    <2>5. HeaderRead(s, t) = h + n /\ h + n < HeadOf(s) /\ HeadOf(s) = Header
        BY <1>6, <1>7, <1>16, <2>3, <2>4, <1>9 DEF HeaderRead, HeadOf
    <2>6. Nothing.units = <<>> /\ Nothing.end = "none" /\ Len(<<>>) = 0
        BY EmptySeq DEF Nothing
    <2>7. ~t.announced /\ HeaderRead(s, t) # Header
        BY <1>6, <1>9, <2>3, <2>4, <2>5
    <2>8. Account(s, c, b, t, Nothing)
        BY <1>3, <1>8, <1>9, <2>4, <2>5, <2>6, <2>7 DEF Account
    <2>9. ev \o r.events = ev
        BY <2>2, ConcatEmptySeq
    <2>10. QED BY <1>1, <1>2, <2>2, <2>8, <2>9 DEF Accounted
<1>17. CASE w.end # "reset" /\ ~(n < missing)
    <2>1. PICK isServer, t, opened, data :
              /\ isServer = (s \in Server) /\ t = [st EXCEPT !.header = Header, !.announced = isServer]
              /\ opened = IF s \in Server /\ ~st.announced THEN <<incoming>> ELSE <<>>
              /\ data = IF payload # <<>> \/ fin THEN <<more>> ELSE <<>>
        OBVIOUS
    <2>2. r = [state |-> IF fin /\ s \in Server THEN NoStream ELSE t, events |-> opened \o data]
        BY <1>12, <1>17, <2>1
    <2>3. r.state = (IF fin /\ s \in Server THEN NoStream ELSE t) /\ r.events = opened \o data
        BY <2>2
    <2>4. t.tracked = TRUE /\ t.header = Header /\ t.announced = isServer
        BY <1>6, <2>1 DEF StreamState, NoStream
    <2>5. PICK p : p = n - missing
        OBVIOUS
    <2>6. /\ p \in Nat /\ Len(payload) = p /\ b.pos + p = c.total - HeadOf(s)
          /\ \A i \in 1 .. p : payload[i] = b.pos + i
        <3>1. PICK u : u = w.units
            OBVIOUS
        <3>2. u \in Seq(Nat) /\ missing \in Nat /\ n = Len(u) /\ missing <= n
            BY <1>7, <1>9, <1>17, <3>1
        <3>3. payload = SubSeq(u, missing + 1, Len(u))
            BY <1>10, <3>1, <3>2
        <3>4. Len(payload) = n - missing /\ \A i \in 1 .. n - missing : payload[i] = u[missing + i]
            BY <3>2, <3>3, SubSeqIs
        <3>5. p \in Nat /\ b.pos + p = c.total - HeadOf(s)
            <4>1. PICK x, y, z : x = b.pos /\ y = HeadOf(s) /\ z = c.total
                OBVIOUS
            <4>2. /\ x \in Nat /\ y \in Nat /\ z \in Nat /\ h \in Int /\ n \in Nat
                  /\ n = z - (x + h) /\ missing = y - h /\ ~(n < missing)
                BY <1>3, <1>7, <1>8, <1>9, <1>17, <4>1
            <4>3. p \in Nat /\ x + p = z - y
                BY <2>5, <4>2
            <4>4. QED BY <4>1, <4>3
        <3>6. ASSUME NEW i \in 1 .. p PROVE payload[i] = b.pos + i
            <4>1. missing + i \in 1 .. n /\ b.pos + h + (missing + i) = b.pos + HeadOf(s) + i
                <5>1. PICK x, y : x = b.pos /\ y = HeadOf(s)
                    OBVIOUS
                <5>2. /\ x \in Nat /\ y \in Nat /\ h \in Int /\ n \in Nat /\ missing \in Nat
                      /\ missing = y - h /\ p = n - missing /\ p \in Nat
                    BY <1>3, <1>7, <1>9, <2>5, <3>5, <5>1
                <5>3. missing + i \in 1 .. n /\ x + h + (missing + i) = x + y + i
                    BY <5>2
                <5>4. QED BY <5>1, <5>3
            <4>2. payload[i] = Unit(s, b.pos + HeadOf(s) + i)
                BY <1>8, <2>5, <3>1, <3>4, <4>1
            <4>3. Unit(s, b.pos + HeadOf(s) + i) = b.pos + i
                BY <1>3, <1>9, <3>5 DEF Unit, HeadOf
            <4>4. QED BY <4>2, <4>3
        <3>7. QED BY <2>5, <3>4, <3>5, <3>6
    <2>7. \E ev2, g : /\ ev2 = ev \o opened /\ ev2 \in Seq(SomeEvent) /\ Run(s, c, ev2, a, g)
                      /\ g[Len(ev2)] = [pos |-> b.pos, side |-> "open"]
        <3>1. CASE s \in Server /\ ~st.announced
            <4>1. opened = <<incoming>>
                BY <2>1, <3>1
            <4>2. /\ incoming \in SomeEvent /\ Concerns(s, incoming) /\ incoming.type = "incoming"
                  /\ incoming.units = <<>> /\ incoming.fin = FALSE
                BY <1>11, <1>14, BareEventIs
            <4>3. b.side = "none"
                BY <1>3, <1>6, <1>8, <1>9, <3>1 DEF HeadOf
            <4>4. Follows(s, c, b, incoming)
                BY <1>8, <3>1, <4>2, <4>3 DEF Follows
            <4>5. PICK g : /\ Run(s, c, Append(ev, incoming), a, g)
                           /\ g[Len(ev) + 1] = After(s, b, incoming)
                BY <1>1, <1>2, <4>2, <4>4, RunOn
            <4>6. After(s, b, incoming) = [pos |-> b.pos, side |-> "open"]
                <5>1. Len(incoming.units) = 0 /\ b.pos + 0 = b.pos
                    BY <1>3, <4>2, EmptySeq
                <5>2. QED BY <4>2, <5>1 DEF After
            <4>7. PICK ev2 : ev2 = Append(ev, incoming)
                OBVIOUS
            <4>8. ev2 = ev \o opened /\ ev2 \in Seq(SomeEvent) /\ Len(ev2) = Len(ev) + 1
                BY <4>1, <4>2, <4>7, AppendIsConcat, AppendProperties
            <4>9. QED BY <4>5, <4>6, <4>7, <4>8
        <3>2. CASE ~(s \in Server /\ ~st.announced)
            <4>1. opened = <<>> /\ ev \o opened = ev
                BY <2>1, <3>2, ConcatEmptySeq
            <4>2. b.side = "open" /\ b = [pos |-> b.pos, side |-> "open"]
                BY <1>3, <1>6, <1>8, <1>9, <3>2 DEF HeadOf, Reader
            <4>3. QED BY <1>1, <1>2, <4>1, <4>2
        <3>3. QED BY <3>1, <3>2
    <2>8. PICK ev2, g : /\ ev2 = ev \o opened /\ ev2 \in Seq(SomeEvent) /\ Run(s, c, ev2, a, g)
                        /\ g[Len(ev2)] = [pos |-> b.pos, side |-> "open"]
        BY <2>7
    <2>9. PICK d : d = [pos |-> b.pos, side |-> "open"]
        OBVIOUS
    <2>10. d = g[Len(ev2)] /\ d.pos = b.pos /\ d.side = "open"
        BY <2>8, <2>9
    <2>11. opened \in Seq(SomeEvent) /\ data \in Seq(SomeEvent)
        <3>3. incoming \in SomeEvent
            BY <1>11, <1>14, BareEventIs
        <3>4. more \in SomeEvent
            BY <1>11, <1>13, <1>14, EventIs
        <3>5. \A e \in SomeEvent : <<e>> \in Seq(SomeEvent)
            OBVIOUS
        <3>6. QED BY <2>1, <3>3, <3>4, <3>5, EmptySeq
    <2>12. ev \o r.events = ev2 \o data
        BY SMTT(20), <2>3, <2>8, <2>11, ConcatAssociative
    <2>13. ASSUME ~fin, NEW q, q = [pos |-> b.pos + p, side |-> "open"]
           PROVE  Account(s, c, q, t, Nothing)
        <3>1. PICK x, y, z : x = b.pos + p /\ y = HeadOf(s) /\ z = c.total
            OBVIOUS
        <3>2. /\ x \in Nat /\ y \in Nat /\ z \in Nat /\ x = z - y
            BY <1>3, <1>9, <2>6, <3>1
        <3>3. HeadOf(s) = HeaderRead(s, t)
            BY <2>4 DEF HeadOf, HeaderRead
        <3>4. q.pos = x /\ q.side = "open"
            BY <2>13, <3>1
        <3>5. Nothing.units = <<>> /\ Nothing.end = "none" /\ Len(<<>>) = 0
            BY EmptySeq DEF Nothing
        <3>6. ~c.over
            BY <1>8, <1>9, <1>10, <1>17, <2>13
        <3>7. s \in Server => t.announced /\ HeaderRead(s, t) = Header
            BY <2>1, <2>4, <3>3 DEF HeadOf
        <3>8. x + y <= z /\ z - (x + y) = 0 /\ ~(y < y)
            BY <3>2
        <3>9. QED BY <3>1, <3>3, <3>4, <3>5, <3>6, <3>7, <3>8 DEF Account
    <2>14. CASE payload # <<>> \/ fin
        <3>1. data = <<more>>
            BY <2>1, <2>14
        <3>2. /\ more \in SomeEvent /\ Concerns(s, more) /\ more.type = "streamData"
              /\ more.units = payload /\ more.fin = fin
            BY <1>11, <1>13, <1>14, EventIs
        <3>3. fin => c.over
            BY <1>8, <1>10
        <3>4. Follows(s, c, d, more)
            BY <1>8, <2>6, <2>10, <3>2, <3>3 DEF Follows
        <3>5. PICK k : /\ Run(s, c, Append(ev2, more), a, k)
                       /\ k[Len(ev2) + 1] = After(s, d, more)
            <4>1. Follows(s, c, g[Len(ev2)], more)
                BY <2>10, <3>4
            <4>2. PICK k : /\ Run(s, c, Append(ev2, more), a, k)
                           /\ k[Len(ev2) + 1] = After(s, g[Len(ev2)], more)
                <5>1. ev2 \in Seq(SomeEvent) /\ Run(s, c, ev2, a, g) /\ more \in SomeEvent
                    BY <2>8, <3>2
                <5>2. QED BY <4>1, <5>1, RunOn
            <4>3. QED BY <2>10, <4>2
        <3>6. After(s, d, more) = [pos |-> b.pos + p, side |-> IF fin THEN "closed" ELSE "open"]
            BY <2>6, <2>10, <3>2 DEF After
        <3>7. PICK ev3 : ev3 = Append(ev2, more)
            OBVIOUS
        <3>8. ev3 = ev \o r.events /\ Len(ev3) = Len(ev2) + 1
            BY <2>8, <2>12, <3>1, <3>2, <3>7, AppendIsConcat, AppendProperties
        <3>9. Account(s, c, k[Len(ev3)], r.state, Nothing)
            <4>1. CASE fin
                <5>1. c.over
                    BY <3>3, <4>1
                <5>2. QED BY <5>1 DEF Account
            <4>2. CASE ~fin
                <5>1. r.state = t /\ k[Len(ev3)] = [pos |-> b.pos + p, side |-> "open"]
                    BY <2>3, <3>5, <3>6, <3>8, <4>2
                <5>2. QED BY <5>1, <2>13, <4>2
            <4>3. QED BY <4>1, <4>2
        <3>10. QED BY <3>5, <3>7, <3>8, <3>9 DEF Accounted
    <2>15. CASE ~(payload # <<>> \/ fin)
        <3>1. data = <<>> /\ p = 0 /\ ~fin /\ r.state = t
            BY <2>1, <2>3, <2>6, <2>15, EmptySeq
        <3>2. ev2 \o data = ev2
            BY <2>8, <3>1, ConcatEmptySeq
        <3>3. b.pos = b.pos + p
            BY <1>3, <3>1
        <3>4. Account(s, c, d, t, Nothing)
            BY <2>9, <2>13, <3>1, <3>3
        <3>5. QED BY <2>8, <2>10, <2>12, <3>1, <3>2, <3>4 DEF Accounted
    <2>16. QED BY <2>14, <2>15
<1>18. QED BY <1>15, <1>16, <1>17

(* What one stream is told does not concern another one.                   *)
LEMMA ReadConcerns ==
    ASSUME NEW s \in Readable, NEW t \in Readable, s # t, streams[t] \in StreamState,
           NEW w \in Waiting
    PROVE  ReadStream(t, w).events \in Seq({e \in SomeEvent : ~Concerns(s, e)})
<1>1. PICK r, evs : r = ReadStream(t, w) /\ evs = r.events
    OBVIOUS
<1>2. evs \in Seq(ReadEvent)
    BY <1>1, ReadIs
<1>3. \E reset, incoming, more, opened, data :
          /\ reset.stream = t /\ incoming.stream = t /\ more.stream = t
          /\ opened = <<incoming>> \/ opened = <<>>
          /\ data = <<more>> \/ data = <<>>
          /\ evs = <<reset>> \/ evs = <<>> \/ evs = opened \o data
    <2>1. PICK x, n, missing :
              /\ x = IF streams[t].tracked THEN streams[t] ELSE NewStream(FALSE)
              /\ n = Len(w.units)
              /\ missing = IF t \in Client THEN 0 ELSE Header - x.header
        OBVIOUS
    <2>2. PICK payload, fin : payload = SubSeq(w.units, missing + 1, n) /\ fin = (w.end = "fin")
        OBVIOUS
    <2>3. PICK reset, incoming, more :
              /\ reset = Event("streamReset", t, <<>>, FALSE)
              /\ incoming = Event("incoming", t, <<>>, FALSE)
              /\ more = Event("streamData", t, payload, fin)
        OBVIOUS
    <2>4. PICK opened, data :
              /\ opened = IF t \in Server /\ ~x.announced THEN <<incoming>> ELSE <<>>
              /\ data = IF payload # <<>> \/ fin THEN <<more>> ELSE <<>>
        OBVIOUS
    <2>5. r = IF w.end = "reset"
              THEN [state |-> NoStream, events |-> <<reset>>]
              ELSE IF n < missing
              THEN [state |-> [x EXCEPT !.header = @ + n], events |-> <<>>]
              ELSE [state |-> IF fin /\ t \in Server THEN NoStream
                              ELSE [x EXCEPT !.header = Header, !.announced = t \in Server],
                    events |-> opened \o data]
        BY <1>1, <2>1, <2>2, <2>3, <2>4 DEF ReadStream
    <2>6. evs = <<reset>> \/ evs = <<>> \/ evs = opened \o data
        BY <1>1, <2>5
    <2>7. ASSUME NEW type, NEW units, NEW end PROVE Event(type, t, units, end).stream = t
        BY DEF Event
    <2>8. reset.stream = t /\ incoming.stream = t /\ more.stream = t
        BY <2>3, <2>7
    <2>9. QED BY <2>4, <2>6, <2>8
<1>4. PICK reset, incoming, more, opened, data :
          /\ reset.stream = t /\ incoming.stream = t /\ more.stream = t
          /\ opened = <<incoming>> \/ opened = <<>>
          /\ data = <<more>> \/ data = <<>>
          /\ evs = <<reset>> \/ evs = <<>> \/ evs = opened \o data
    BY <1>3
<1>5. PICK S : S = {reset, incoming, more}
    OBVIOUS
<1>6. <<reset>> \in Seq(S) /\ opened \in Seq(S) /\ data \in Seq(S) /\ <<>> \in Seq(S)
    <2>1. \A e \in S : <<e>> \in Seq(S)
        OBVIOUS
    <2>2. <<>> \in Seq(S)
        BY EmptySeq
    <2>3. QED BY <1>4, <1>5, <2>1, <2>2
<1>7. evs \in Seq(S)
    BY <1>4, <1>6, ConcatProperties
<1>8. ASSUME NEW i \in 1 .. Len(evs)
      PROVE  evs[i] \in {e \in SomeEvent : ~Concerns(s, e)}
    <2>1. evs[i] \in S /\ evs[i] \in ReadEvent
        BY <1>2, <1>7, ElementOfSeq
    <2>2. evs[i].stream = t
        BY <1>4, <1>5, <2>1
    <2>3. QED BY <2>1, <2>2 DEF ReadEvent, Concerns
<1>9. PICK n : n = Len(evs)
    OBVIOUS
<1>10. n \in Nat /\ evs \in [1 .. n -> {e \in SomeEvent : ~Concerns(s, e)}]
    <2>1. n \in Nat /\ evs \in [1 .. n -> ReadEvent]
        BY <1>2, <1>9, LenProperties
    <2>2. QED BY <1>8, <1>9, <2>1
<1>11. QED BY <1>1, <1>10, SeqDef

(* Reading all streams one after the other: the events of stream s are     *)
(* among those of the jth.                                                 *)
LEMMA FlattenKeeps ==
    ASSUME NEW s, NEW c, NEW a, NEW ev \in Seq(SomeEvent), NEW ss \in Seq(Seq(SomeEvent)),
           NEW j \in Nat \ {0},
           \A i \in 1 .. Len(ss) : i # j => ss[i] \in Seq({e \in SomeEvent : ~Concerns(s, e)}),
           NEW st, NEW w, NEW st2, NEW w2,
           Accounted(s, c, ev, a, st, w),
           j <= Len(ss) =>
               \A e \in Seq(SomeEvent) :
                   Accounted(s, c, e, a, st, w) => Accounted(s, c, e \o ss[j], a, st2, w2)
    PROVE  IF j <= Len(ss) THEN Accounted(s, c, ev \o FlattenSeq(ss), a, st2, w2)
           ELSE Accounted(s, c, ev \o FlattenSeq(ss), a, st, w)
<1> DEFINE Upto(e, i) == IF j <= i THEN Accounted(s, c, e, a, st2, w2) ELSE Accounted(s, c, e, a, st, w)
<1>1. PICK m : m = Len(ss)
    OBVIOUS
<1>2. m \in Nat /\ \A i \in 1 .. m : ss[i] \in Seq(SomeEvent)
    BY <1>1, LenProperties, ElementOfSeq
<1>3. ASSUME NEW e \in Seq(SomeEvent), NEW i \in 1 .. m, Upto(e, i - 1)
      PROVE  e \o ss[i] \in Seq(SomeEvent) /\ Upto(e \o ss[i], i)
    <2>1. e \o ss[i] \in Seq(SomeEvent)
        BY <1>2, ConcatProperties
    <2>2. CASE i = j
        <3>1. Accounted(s, c, e, a, st, w) /\ j <= Len(ss)
            BY <1>1, <1>2, <1>3, <2>2
        <3>2. Accounted(s, c, e \o ss[j], a, st2, w2)
            BY <3>1
        <3>3. QED BY <1>2, <2>1, <2>2, <3>2
    <2>3. CASE i # j
        <3>1. ss[i] \in Seq({x \in SomeEvent : ~Concerns(s, x)})
            BY <1>1, <2>3
        <3>2. j <= i <=> j <= i - 1
            BY <1>2, <2>3
        <3>3. CASE j <= i
            <4>1. Accounted(s, c, e \o ss[i], a, st2, w2)
                BY <1>3, <3>1, <3>2, <3>3, RunAside
            <4>2. QED BY <2>1, <3>3, <4>1
        <3>4. CASE ~(j <= i)
            <4>1. Accounted(s, c, e \o ss[i], a, st, w)
                BY <1>3, <3>1, <3>2, <3>4, RunAside
            <4>2. QED BY <2>1, <3>4, <4>1
        <3>5. QED BY <3>3, <3>4
    <2>4. QED BY <2>2, <2>3
<1>4. Upto(ev, 0)
    OBVIOUS
<1> HIDE DEF Upto
<1>5. Upto(ev \o FlattenSeq(ss), m)
    <2>1. CASE ss = <<>>
        <3>1. FlattenSeq(ss) = <<>> /\ m = 0
            BY <1>1, <2>1, EmptySeq DEF FlattenSeq
        <3>2. ev \o <<>> = ev
            BY ConcatEmptySeq
        <3>3. QED BY <1>4, <3>1, <3>2
    <2>2. CASE ss # <<>>
        <3>1. PICK f : /\ FlattenSeq(ss) = f[m] /\ f[1] = ss[1]
                       /\ \A n \in 2 .. m : f[n] = f[n - 1] \o ss[n]
            BY <1>1, <2>2, FlattenIsDefined
        <3>2. PICK T : T = {n \in Nat : n + 1 <= m => /\ f[n + 1] \in Seq(SomeEvent)
                                                       /\ ev \o f[n + 1] \in Seq(SomeEvent)
                                                       /\ Upto(ev \o f[n + 1], n + 1)}
            OBVIOUS
        <3>3. m \in Nat \ {0} /\ 1 \in 1 .. m
            BY <1>1, <2>2, EmptySeq
        <3>4. 0 \in T
            <4>1. Upto(ev, 1 - 1)
                BY <1>4
            <4>2. ev \o ss[1] \in Seq(SomeEvent) /\ Upto(ev \o ss[1], 1)
                BY <1>3, <3>3, <4>1
            <4>3. ss[1] \in Seq(SomeEvent)
                BY <1>2, <3>3
            <4>4. 0 + 1 = 1
                OBVIOUS
            <4>5. QED BY <3>1, <3>2, <4>2, <4>3, <4>4
        <3>5. ASSUME NEW n \in T PROVE n + 1 \in T
            <4>1. CASE n + 2 <= m
                <5>1. PICK k : k = n + 2
                    OBVIOUS
                <5>2. k - 1 = n + 1 /\ k \in 2 .. m /\ k \in 1 .. m /\ n \in Nat
                    BY <3>2, <3>3, <4>1, <5>1
                <5>3. /\ f[k - 1] \in Seq(SomeEvent) /\ ev \o f[k - 1] \in Seq(SomeEvent)
                      /\ Upto(ev \o f[k - 1], k - 1)
                    BY <3>2, <3>3, <5>2
                <5>4. f[k] = f[k - 1] \o ss[k] /\ ss[k] \in Seq(SomeEvent)
                    BY <1>2, <3>1, <5>2
                <5>5. PICK e : e = ev \o f[k - 1]
                    OBVIOUS
                <5>6. e \o ss[k] \in Seq(SomeEvent) /\ Upto(e \o ss[k], k)
                    BY <1>3, <5>2, <5>3, <5>5
                <5>7. e \o ss[k] = ev \o f[k] /\ f[k] \in Seq(SomeEvent)
                    <6>1. PICK g, x : g = f[k - 1] /\ x = ss[k]
                        OBVIOUS
                    <6>2. g \in Seq(SomeEvent) /\ x \in Seq(SomeEvent) /\ f[k] = g \o x /\ e = ev \o g
                        BY <5>3, <5>4, <5>5, <6>1
                    <6>3. (ev \o g) \o x = ev \o (g \o x)
                        BY SMTT(20), <6>2, ConcatAssociative
                    <6>4. g \o x \in Seq(SomeEvent)
                        BY <6>2, ConcatProperties
                    <6>5. QED BY <6>1, <6>2, <6>3, <6>4
                <5>8. n + 1 \in Nat /\ n + 1 + 1 = k
                    BY <5>1, <5>2
                <5>9. QED BY <3>2, <5>6, <5>7, <5>8
            <4>2. CASE ~(n + 2 <= m)
                BY <3>2, <3>3, <4>2
            <4>3. QED BY <4>1, <4>2
        <3>6. m - 1 \in T
            <4>1. T \in SUBSET Nat
                BY <3>2
            <4>2. \A n \in Nat : n \in T
                BY <3>4, <3>5, <4>1, SetInduction
            <4>3. QED BY <3>3, <4>2
        <3>7. Upto(ev \o f[m], m)
            BY <3>2, <3>3, <3>6
        <3>8. QED BY <3>1, <3>7
    <2>3. QED BY <2>1, <2>2
<1>6. QED BY <1>1, <1>5 DEF Upto

(* readStreams leaves nothing in quiche and nothing out.                   *)
LEMMA ReadStreamsKeeps ==
    ASSUME NEW waiting \in [Readable -> Waiting], streams \in [Stream -> StreamState],
           events \in Seq(SomeEvent), ReadStreams(waiting),
           NEW s \in Readable, NEW c \in Channel, waiting[s] # Nothing => c.live,
           NEW a, Accounted(s, c, events, a, streams[s], waiting[s])
    PROVE  Accounted(s, c, events', a, streams'[s], arrived'[s])
<1>1. PICK Ids : Ids = {t \in Readable : waiting[t] # Nothing}
    OBVIOUS
<1>2. PICK order \in SetToSeqs(Ids) :
          /\ events' = events \o FlattenSeq(
                 [i \in DOMAIN order |-> ReadStream(order[i], waiting[order[i]]).events])
          /\ streams' = [t \in Stream |->
                 IF t \in Ids THEN ReadStream(t, waiting[t]).state ELSE streams[t]]
          /\ arrived' = [t \in Readable |-> Nothing]
    BY <1>1 DEF ReadStreams
<1>3. Readable \subseteq Stream
    BY DEF Readable
<1>4. PICK n : n = Cardinality(Ids)
    OBVIOUS
<1>5. IsFiniteSet(Ids)
    BY <1>1, <1>3, StreamAssumption, FS_Subset
<1>6. /\ n \in Nat /\ order \in [1 .. n -> Ids]
      /\ \A i, k \in 1 .. n : i # k => order[i] # order[k]
    BY <1>2, <1>4, <1>5, FS_CardinalityType DEF SetToSeqs
<1>7. \A t \in Ids : \E i \in 1 .. n : order[i] = t
    <2>1. order \in Injection(1 .. n, Ids)
        BY <1>6 DEF Injection, IsInjective
    <2>2. Cardinality(1 .. n) = Cardinality(Ids)
        BY <1>4, <1>6, FS_Interval
    <2>3. order \in Surjection(1 .. n, Ids)
        BY <1>5, <2>1, <2>2, FS_Injection
    <2>4. QED BY <2>3 DEF Surjection
<1>8. PICK ss : ss = [i \in DOMAIN order |-> ReadStream(order[i], waiting[order[i]]).events]
    OBVIOUS
<1>9. ASSUME NEW i \in 1 .. n
      PROVE  /\ ss[i] \in Seq(SomeEvent)
             /\ order[i] # s => ss[i] \in Seq({e \in SomeEvent : ~Concerns(s, e)})
    <2>1. PICK t : t = order[i]
        OBVIOUS
    <2>2. t \in Readable /\ waiting[t] \in Waiting /\ streams[t] \in StreamState
        BY <1>1, <1>3, <1>6, <2>1
    <2>3. ss[i] = ReadStream(t, waiting[t]).events
        BY <1>6, <1>8, <2>1
    <2>4. ss[i] \in Seq(ReadEvent)
        BY <2>2, <2>3, ReadIs
    <2>5. ss[i] \in Seq(SomeEvent)
        <3>1. ReadEvent \subseteq SomeEvent
            BY DEF ReadEvent
        <3>2. QED BY <2>4, <3>1, SeqMonotonic
    <2>6. QED BY <2>1, <2>2, <2>3, <2>5, ReadConcerns
<1>10. ss \in Seq(Seq(SomeEvent)) /\ Len(ss) = n
    <2>1. ss \in [1 .. n -> Seq(SomeEvent)]
        BY <1>6, <1>8, <1>9
    <2>2. QED BY <1>6, <2>1
<1>11. events' = events \o FlattenSeq(ss)
    BY <1>2, <1>8
<1>12. CASE s \in Ids
    <2>1. PICK j \in 1 .. n : order[j] = s
        BY <1>7, <1>12
    <2>2. PICK r : r = ReadStream(s, waiting[s])
        OBVIOUS
    <2>3. ss[j] = r.events /\ streams'[s] = r.state /\ arrived'[s] = Nothing
        BY <1>2, <1>3, <1>6, <1>8, <1>12, <2>1, <2>2
    <2>4. /\ waiting[s] \in Waiting /\ waiting[s] # Nothing /\ c.live
          /\ streams[s] \in StreamState
        BY <1>1, <1>3, <1>12
    <2>5. ASSUME NEW e \in Seq(SomeEvent), Accounted(s, c, e, a, streams[s], waiting[s])
          PROVE  Accounted(s, c, e \o ss[j], a, r.state, Nothing)
        BY <2>2, <2>3, <2>4, <2>5, ReadKeeps
    <2>6. \A i \in 1 .. Len(ss) : i # j => ss[i] \in Seq({e \in SomeEvent : ~Concerns(s, e)})
        BY <1>6, <1>9, <1>10, <2>1
    <2>7. j \in Nat \ {0} /\ j <= Len(ss)
        BY <1>6, <1>10, <2>1
    <2>8. Accounted(s, c, events \o FlattenSeq(ss), a, r.state, Nothing)
        BY <1>10, <2>5, <2>6, <2>7, FlattenKeeps
    <2>9. QED BY <1>11, <2>3, <2>8
<1>13. CASE s \notin Ids
    <2>1. waiting[s] = Nothing /\ streams'[s] = streams[s] /\ arrived'[s] = Nothing
        BY <1>1, <1>2, <1>3, <1>13
    <2>2. PICK j : j = n + 1
        OBVIOUS
    <2>3. j \in Nat \ {0} /\ ~(j <= Len(ss))
        BY <1>6, <1>10, <2>2
    <2>4. \A i \in 1 .. Len(ss) : i # j => ss[i] \in Seq({e \in SomeEvent : ~Concerns(s, e)})
        BY <1>6, <1>9, <1>10, <1>13
    <2>5. PICK x, y : x = streams[s] /\ y = waiting[s]
        OBVIOUS
    <2>6. Accounted(s, c, events, a, x, y)
        BY <2>5
    <2>7. Accounted(s, c, events \o FlattenSeq(ss), a, x, y)
        BY <1>10, <2>3, <2>4, <2>6, FlattenKeeps
    <2>8. QED BY <1>11, <2>1, <2>5, <2>7
<1>14. QED BY <1>12, <1>13

-----------------------------------------------------------------------------
(* For each stream with something to read: it was given a first part of    *)
(* what the server sent, all of it if it has ended, and what it was not    *)
(* given is in the events or in quiche.  Nothing is held back in quiche    *)
(* for what began after the session was up.                                *)
InOrder(s) ==
    /\ got[s] = Up(Len(got[s]))
    /\ readable[s] = "closed" /\ listed => s \in ended /\ Len(got[s]) = sent[s] - HeadOf(s)
    /\ s \in lost \cup shut => arrived[s] = Nothing
    /\ s \notin early => arrived[s] = Nothing /\ (~wtReady => sent[s] = 0)
    /\ listed => AllAccounted(s)

ReadInv ==
    /\ \A s \in Readable : InOrder(s)
    /\ wtReady => h3 = "freed"
    /\ lost \subseteq early

-----------------------------------------------------------------------------
LEMMA NextChannel ==
    ASSUME NEW s
    PROVE  /\ ChannelOf(s) = [live  |-> s \notin lost \cup shut,
                              begun |-> (s \in Client => writer[s] # "none"),
                              total |-> sent[s], over |-> s \in ended]
           /\ ChannelOf(s)' = [live  |-> s \notin lost' \cup shut',
                               begun |-> (s \in Client => writer'[s] # "none"),
                               total |-> sent'[s], over |-> s \in ended']
           /\ ReaderOf(s)' = [pos  |-> Len(got'[s]),
                              side |-> IF s \in Client => writer'[s] # "none"
                                       THEN readable'[s] ELSE "open"]
BY DEF ChannelOf, ReaderOf

LEMMA NextAccounted ==
    ASSUME NEW s, Accounted(s, ChannelOf(s)', events', ReaderOf(s)', streams'[s], arrived'[s])
    PROVE  AllAccounted(s)'
BY DEF AllAccounted, Accounted, Run, Account, Follows, After, HeaderRead, Concerns

(* Less may be read of a stream, and it may come into being.               *)
LEMMA AccountedStill ==
    ASSUME NEW s \in Readable, NEW c \in Channel, NEW d \in Channel, NEW ev, NEW a,
           NEW st, NEW w, NEW t, NEW u,
           Accounted(s, c, ev, a, st, w),
           c.begun => d.begun, d.total = c.total, d.over = c.over,
           d.live => c.live /\ u = w,
           s \in Server => t = st
    PROVE  Accounted(s, d, ev, a, t, u)
<1>1. PICK f : Run(s, c, ev, a, f) /\ Account(s, c, f[Len(ev)], st, w)
    BY DEF Accounted
<1>2. ASSUME NEW x, NEW e, Follows(s, c, x, e) PROVE Follows(s, d, x, e)
    BY <1>2 DEF Follows
<1>3. Run(s, d, ev, a, f)
    BY <1>1, <1>2 DEF Run
<1>4. HeaderRead(s, t) = HeaderRead(s, st)
    BY DEF HeaderRead
<1>5. s \in Server /\ t.tracked => st.tracked /\ t.announced = st.announced
    OBVIOUS
<1>6. Account(s, d, f[Len(ev)], t, u)
    BY <1>1, <1>4, <1>5 DEF Account
<1>7. QED BY <1>3, <1>6 DEF Accounted

(* More arrives on a stream that has not ended.                            *)
LEMMA ArriveKeeps ==
    ASSUME NEW s \in Readable, NEW c \in Channel, NEW d \in Channel, NEW n \in Nat,
           NEW end \in {"none", "fin", "reset"}, ~c.over, d.live = c.live, d.begun = c.begun,
           d.total = c.total + n, d.over <=> end # "none",
           c.live => c.begun, end = "fin" => d.total >= HeadOf(s),
           NEW ev \in Seq(SomeEvent), NEW a, NEW st \in StreamState, NEW w \in Waiting,
           Accounted(s, c, ev, a, st, w),
           NEW more, more = [i \in 1 .. n |-> Unit(s, c.total + i)],
           NEW v \in Waiting, c.live => v.units = w.units \o more /\ v.end = end
    PROVE  Accounted(s, d, ev, a, st, v)
<1>1. PICK f : Run(s, c, ev, a, f) /\ Account(s, c, f[Len(ev)], st, w)
    BY DEF Accounted
<1>2. ASSUME NEW x, NEW e, Follows(s, c, x, e) PROVE Follows(s, d, x, e)
    BY <1>2 DEF Follows
<1>3. Run(s, d, ev, a, f)
    BY <1>1, <1>2 DEF Run
<1>4. ASSUME c.live PROVE Account(s, d, f[Len(ev)], st, v)
    <2>1. PICK b, h : b = f[Len(ev)] /\ h = HeaderRead(s, st)
        OBVIOUS
    <2>2. PICK k : k = b.pos + h
        OBVIOUS
    <2>3. /\ k <= c.total /\ Len(w.units) = c.total - k
          /\ \A i \in 1 .. Len(w.units) : w.units[i] = Unit(s, k + i)
          /\ h < HeadOf(s) => b.pos = 0
          /\ b.side = IF h < HeadOf(s) THEN "none" ELSE "open"
          /\ s \in Server /\ st.tracked => (st.announced <=> h = Header)
        BY <1>1, <1>4, <2>1, <2>2 DEF Account
    <2>4. PICK u, l, z : u = w.units /\ l = Len(u) /\ z = c.total
        OBVIOUS
    <2>5. u \in Seq(Nat) /\ l \in Nat /\ z \in Nat /\ l = z - k /\ k \in Int
        <3>1. u \in Seq(Nat) /\ l \in Nat /\ z \in Nat
            BY <2>4, LenProperties DEF Waiting, Channel
        <3>2. l = z - k
            BY <2>3, <2>4
        <3>3. k \in Int
            <4>1. f \in [0 .. Len(ev) -> Reader] /\ Len(ev) \in Nat
                BY <1>1, LenProperties DEF Run
            <4>2. b \in Reader
                BY <2>1, <4>1
            <4>3. st.tracked => st.header \in 0 .. Header
                <5>1. CASE st = NoStream
                    BY <5>1 DEF NoStream
                <5>2. CASE st # NoStream
                    BY <5>2 DEF StreamState
                <5>3. QED BY <5>1, <5>2
            <4>4. h \in Int
                BY <2>1, <4>3 DEF HeaderRead, Header
            <4>5. QED BY <2>2, <4>2, <4>4 DEF Reader
        <3>4. QED BY <3>1, <3>2, <3>3
    <2>6. more \in Seq(Nat) /\ Len(more) = n /\ \A i \in 1 .. n : more[i] = Unit(s, z + i)
        <3>1. \A i \in 1 .. n : Unit(s, z + i) \in Nat
            BY <2>5 DEF Unit, Header
        <3>2. QED BY <2>4, <3>1
    <2>7. PICK q : q = u \o more
        OBVIOUS
    <2>8. Len(q) = l + n /\ \A i \in 1 .. l + n : q[i] = IF i <= l THEN u[i] ELSE more[i - l]
        <3>1. /\ Len(q) = Len(u) + Len(more)
              /\ \A i \in 1 .. Len(u) + Len(more) :
                    q[i] = IF i <= Len(u) THEN u[i] ELSE more[i - Len(u)]
            BY <2>5, <2>6, <2>7, ConcatProperties
        <3>2. QED BY <2>4, <2>6, <3>1
    <2>9. ASSUME NEW i \in 1 .. l + n PROVE q[i] = Unit(s, k + i)
        <3>1. CASE i <= l
            <4>1. i \in 1 .. l
                BY <2>5, <3>1
            <4>2. QED BY <2>3, <2>4, <2>8, <3>1, <4>1
        <3>2. CASE ~(i <= l)
            <4>1. i - l \in 1 .. n /\ z + (i - l) = k + i
                BY <2>5, <3>2
            <4>2. QED BY <2>6, <2>8, <3>2, <4>1
        <3>3. QED BY <3>1, <3>2
    <2>10. l + n = d.total - k /\ k <= d.total
        BY <2>3, <2>4, <2>5
    <2>11. v.units = q /\ v.end = end
        BY <1>4, <2>4, <2>7
    <2>12. /\ Len(v.units) = d.total - k
           /\ \A i \in 1 .. Len(v.units) : v.units[i] = Unit(s, k + i)
        BY <2>8, <2>9, <2>10, <2>11
    <2>13. /\ v.end = "none" <=> ~d.over
           /\ v.end = "fin" => d.total >= HeadOf(s)
           /\ d.begun
        BY <1>4, <2>11
    <2>14. QED BY <2>1, <2>2, <2>3, <2>10, <2>12, <2>13 DEF Account
<1>5. ~c.live => Account(s, d, f[Len(ev)], st, v)
    BY DEF Account
<1>6. QED BY <1>3, <1>4, <1>5 DEF Accounted

(* The first of the events is dispatched.                                  *)
LEMMA RunTail ==
    ASSUME NEW s, NEW c, NEW ev \in Seq(SomeEvent), ev # <<>>, NEW a, NEW st, NEW w,
           Accounted(s, c, ev, a, st, w)
    PROVE  /\ a \in Reader /\ Follows(s, c, a, Head(ev))
           /\ Accounted(s, c, Tail(ev), After(s, a, Head(ev)), st, w)
<1>1. PICK f : Run(s, c, ev, a, f) /\ Account(s, c, f[Len(ev)], st, w)
    BY DEF Accounted
<1>2. PICK n, rest : n = Len(ev) /\ rest = Tail(ev)
    OBVIOUS
<1>3. /\ n \in Nat \ {0} /\ Head(ev) = ev[1] /\ Len(rest) = n - 1
      /\ \A i \in 1 .. n - 1 : rest[i] = ev[i + 1]
    BY <1>2, EmptySeq, HeadTailProperties
<1>4. /\ f \in [0 .. n -> Reader] /\ f[0] = a
      /\ \A i \in 1 .. n : Follows(s, c, f[i - 1], ev[i]) /\ f[i] = After(s, f[i - 1], ev[i])
    BY <1>1, <1>2 DEF Run
<1>5. a \in Reader /\ Follows(s, c, a, ev[1]) /\ f[1] = After(s, a, ev[1])
    <2>1. 1 \in 1 .. n /\ 0 \in 0 .. n /\ 1 - 1 = 0
        BY <1>3
    <2>2. QED BY <1>4, <2>1
<1>6. PICK g : g = [i \in 0 .. n - 1 |-> f[i + 1]]
    OBVIOUS
<1>7. g \in [0 .. n - 1 -> Reader] /\ \A i \in 0 .. n - 1 : g[i] = f[i + 1]
    <2>1. \A i \in 0 .. n - 1 : i + 1 \in 0 .. n
        BY <1>3
    <2>2. QED BY <1>4, <1>6, <2>1
<1>8. ASSUME NEW i \in 1 .. n - 1
      PROVE  Follows(s, c, g[i - 1], rest[i]) /\ g[i] = After(s, g[i - 1], rest[i])
    <2>1. /\ i + 1 \in 1 .. n /\ i - 1 \in 0 .. n - 1 /\ i \in 0 .. n - 1
          /\ (i + 1) - 1 = i /\ (i - 1) + 1 = i
        BY <1>3
    <2>2. Follows(s, c, f[i], ev[i + 1]) /\ f[i + 1] = After(s, f[i], ev[i + 1])
        BY <1>4, <2>1
    <2>3. g[i - 1] = f[i] /\ g[i] = f[i + 1] /\ rest[i] = ev[i + 1]
        BY <1>3, <1>7, <2>1
    <2>4. QED BY <2>2, <2>3
<1>9. g[0] = f[1] /\ g[n - 1] = f[n]
    <2>1. 0 \in 0 .. n - 1 /\ n - 1 \in 0 .. n - 1 /\ 0 + 1 = 1 /\ (n - 1) + 1 = n
        BY <1>3
    <2>2. QED BY <1>7, <2>1
<1>10. Run(s, c, rest, f[1], g)
    BY <1>3, <1>7, <1>8, <1>9 DEF Run
<1>11. Accounted(s, c, rest, f[1], st, w)
    BY <1>1, <1>2, <1>3, <1>9, <1>10 DEF Accounted
<1>12. QED BY <1>2, <1>3, <1>5, <1>11

LEMMA ChannelIs ==
    ASSUME TypeOK, NEW s \in Readable
    PROVE  ChannelOf(s) \in Channel /\ ReaderOf(s) \in Reader /\ Len(got[s]) \in Nat
<1>1. sent[s] \in Nat /\ got[s] \in Seq(Nat) /\ readable[s] \in {"none", "open", "closed", "errored"}
    BY UnitsAssumption DEF TypeOK, Header
<1>2. Len(got[s]) \in Nat
    BY <1>1, LenProperties
<1>3. QED BY <1>1, <1>2 DEF ChannelOf, ReaderOf, Channel, Reader

LEMMA NextChannelIs ==
    ASSUME TypeOK', NEW s \in Readable
    PROVE  ChannelOf(s)' \in Channel /\ ReaderOf(s)' \in Reader
<1>1. sent'[s] \in Nat /\ got'[s] \in Seq(Nat) /\ readable'[s] \in {"none", "open", "closed", "errored"}
    BY UnitsAssumption DEF TypeOK, Header
<1>2. Len(got'[s]) \in Nat
    BY <1>1, LenProperties
<1>3. QED BY <1>1, <1>2 DEF ChannelOf, ReaderOf, Channel, Reader

(* Steps by which the server sends nothing and the readables get nothing.  *)
LEMMA Quiet ==
    ASSUME TypeOK, TypeOK', ReadInv,
           UNCHANGED <<events, got, sent, ended, early, lost, h3, wtReady>>,
           listed' => listed, shut \subseteq shut',
           \A s \in Server : streams'[s] = streams[s],
           \A s \in Readable :
               \/ /\ readable'[s] = readable[s]
                  /\ s \in Client => (writer'[s] = "none" <=> writer[s] = "none")
               \/ s \in Client /\ writer[s] = "none" /\ writer'[s] # "none" /\ readable'[s] = "open",
           \A s \in Readable :
               arrived'[s] = IF s \in shut' \ shut THEN Nothing ELSE arrived[s]
    PROVE  ReadInv'
<1>1. ASSUME NEW s \in Readable PROVE InOrder(s)'
    <2>1. InOrder(s)
        BY DEF ReadInv
    <2>2. ASSUME listed' PROVE AllAccounted(s)'
        <3>1. Accounted(s, ChannelOf(s), events, ReaderOf(s), streams[s], arrived[s])
            BY <2>1, <2>2 DEF InOrder, AllAccounted
        <3>2. PICK c, d, a : c = ChannelOf(s) /\ d = ChannelOf(s)' /\ a = ReaderOf(s)
            OBVIOUS
        <3>3. c \in Channel /\ d \in Channel
            BY <3>2, ChannelIs, NextChannelIs
        <3>4. a = ReaderOf(s)'
            BY <3>2, NextChannel DEF ReaderOf, ChannelOf
        <3>5. /\ c.begun => d.begun
              /\ d.total = c.total /\ d.over = c.over
              /\ d.live => c.live /\ arrived'[s] = arrived[s]
            <4>1. /\ c = [live  |-> s \notin lost \cup shut,
                          begun |-> (s \in Client => writer[s] # "none"),
                          total |-> sent[s], over |-> s \in ended]
                  /\ d = [live  |-> s \notin lost' \cup shut',
                          begun |-> (s \in Client => writer'[s] # "none"),
                          total |-> sent'[s], over |-> s \in ended']
                BY <3>2, NextChannel
            <4>2. d.total = c.total /\ d.over = c.over
                BY <4>1
            <4>3. c.begun => d.begun
                BY <4>1
            <4>4. d.live => c.live /\ arrived'[s] = arrived[s]
                BY <4>1
            <4>5. QED BY <4>2, <4>3, <4>4
        <3>6. Accounted(s, d, events, a, streams'[s], arrived'[s])
            <4>1. PICK st, t, w, u :
                      st = streams[s] /\ t = streams'[s] /\ w = arrived[s] /\ u = arrived'[s]
                OBVIOUS
            <4>2. /\ Accounted(s, c, events, a, st, w)
                  /\ (d.live => c.live /\ u = w) /\ (s \in Server => t = st)
                BY <3>1, <3>2, <3>5, <4>1
            <4>3. PICK ev : ev = events
                OBVIOUS
            <4>4. Accounted(s, c, ev, a, st, w)
                BY <4>2, <4>3
            <4>5. Accounted(s, d, ev, a, t, u)
                <5>1. (c.begun => d.begun) /\ d.total = c.total /\ d.over = c.over
                    BY <3>5
                <5>2. d.live => c.live /\ u = w
                    BY <4>2
                <5>3. s \in Server => t = st
                    BY <4>2
                <5>4. c \in Channel /\ d \in Channel
                    BY <3>3
                <5>5. QED BY <4>4, <5>1, <5>2, <5>3, <5>4, AccountedStill
            <4>6. QED BY <4>1, <4>3, <4>5
        <3>7. QED BY <3>2, <3>4, <3>6, NextAccounted
    <2>3. QED BY <2>1, <2>2 DEF InOrder
<1>2. QED BY <1>1 DEF ReadInv

-----------------------------------------------------------------------------
(* The steps of the script, and the others that are quiet.                 *)
LEMMA CreateQuiet == ASSUME IInv, IInv', ReadInv, NEW s, CreateStream(s) PROVE ReadInv'
<1>1. /\ s \in Client /\ writer[s] = "none"
      /\ PumpStream(s, NewStream(TRUE))
      /\ writer' = [writer EXCEPT ![s] = "open"]
      /\ readable' = IF s \in ClientBidi THEN [readable EXCEPT ![s] = "open"] ELSE readable
      /\ UNCHANGED <<pc, connVars, ownVars, events, serverVars, shut, promiseVars, got>>
    BY DEF CreateStream
<1>2. TypeOK /\ TypeOK' /\ s \notin Server /\ s \in Writable
    BY <1>1, StreamAssumption DEF IInv, Writable, Stream, Client, Server
<1>3. \A t \in Server : streams'[t] = streams[t]
    BY <1>1, <1>2 DEF PumpStream, TypeOK
<1>4. writer'[s] = "open" /\ \A t \in Client : t # s => writer'[t] = writer[t]
    <2>1. \A t \in Client : t \in Writable
        BY StreamAssumption DEF Writable, Stream, Client, Server
    <2>2. QED BY <1>1, <1>2, <2>1 DEF TypeOK
<1>5. ASSUME NEW t \in Readable
      PROVE  \/ /\ readable'[t] = readable[t]
                /\ t \in Client => (writer'[t] = "none" <=> writer[t] = "none")
             \/ t \in Client /\ writer[t] = "none" /\ writer'[t] # "none" /\ readable'[t] = "open"
    <2>1. CASE t = s
        <3>1. s \in ClientBidi
            BY <1>1, <2>1 DEF Readable, Client
        <3>2. QED BY <1>1, <1>2, <1>4, <2>1, <3>1 DEF TypeOK
    <2>2. CASE t # s
        BY <1>1, <1>2, <1>4, <2>2 DEF TypeOK
    <2>3. QED BY <2>1, <2>2
<1>6. /\ UNCHANGED <<events, got, sent, ended, early, lost, h3, wtReady>>
      /\ listed' = listed /\ shut' = shut /\ arrived' = arrived
    BY <1>1 DEF connVars, serverVars, promiseVars
<1>7. QED BY <1>2, <1>3, <1>5, <1>6, Quiet

LEMMA WriteQuiet ==
    ASSUME IInv, IInv', ReadInv, NEW s \in Writable, Write(s) \/ CloseWriter(s)
    PROVE  ReadInv'
<1>1. /\ writer[s] # "none"
      /\ \E x : x # "none" /\ writer' = [writer EXCEPT ![s] = x]
      /\ streams' = streams \/ (CanWrite(s) /\ \E st : PumpStream(s, st))
      /\ UNCHANGED <<pc, connVars, ownVars, events, serverVars, shut, promiseVars, readVars>>
    <2>1. writer \in [Writable -> {"none", "open", "closed", "errored"}]
        BY DEF IInv, TypeOK
    <2>2. CASE Write(s)
        <3>1. writer[s] \in {"open", "closed"}
            BY <2>2 DEF Write
        <3>2. CASE CanWrite(s)
            <4>1. writer' = writer /\ PumpStream(s, [streams[s] EXCEPT !.out = Append(@, written[s] + 1)])
                BY <2>2, <3>2 DEF Write
            <4>2. writer' = [writer EXCEPT ![s] = writer[s]]
                BY <2>1, <4>1
            <4>3. QED BY <2>2, <3>1, <3>2, <4>1, <4>2 DEF Write
        <3>3. CASE ~CanWrite(s)
            <4>1. /\ writer' = [writer EXCEPT ![s] = IF @ = "open" THEN "errored" ELSE @]
                  /\ streams' = streams
                BY <2>2, <3>3 DEF Write
            <4>2. PICK x : x = IF writer[s] = "open" THEN "errored" ELSE writer[s]
                OBVIOUS
            <4>3. x # "none" /\ writer' = [writer EXCEPT ![s] = x]
                BY <3>1, <4>1, <4>2
            <4>4. QED BY <2>2, <3>1, <4>1, <4>3 DEF Write
        <3>4. QED BY <3>2, <3>3
    <2>3. CASE CloseWriter(s)
        <3>1. /\ writer[s] # "none"
              /\ writer' = [writer EXCEPT ![s] = IF @ = "open" THEN "closed" ELSE @]
              /\ IF CanWrite(s) THEN PumpStream(s, [streams[s] EXCEPT !.outFin = TRUE])
                 ELSE UNCHANGED <<streams, wire>>
            BY <2>3 DEF CloseWriter
        <3>2. PICK x : x = IF writer[s] = "open" THEN "closed" ELSE writer[s]
            OBVIOUS
        <3>3. x # "none" /\ writer' = [writer EXCEPT ![s] = x]
            BY <3>1, <3>2
        <3>4. QED BY <2>3, <3>1, <3>3 DEF CloseWriter
    <2>4. QED BY <2>2, <2>3
<1>2. TypeOK /\ TypeOK' /\ WriteInv
    BY DEF IInv
<1>3. \A t \in Server : streams'[t] = streams[t]
    <2>1. CASE streams' = streams
        BY <2>1
    <2>2. CASE CanWrite(s) /\ \E st : PumpStream(s, st)
        <3>1. s \notin Server
            BY <1>2, <2>2 DEF CanWrite, WriteInv, Sending
        <3>2. QED BY <1>2, <2>2, <3>1 DEF PumpStream, TypeOK
    <2>3. QED BY <1>1, <2>1, <2>2
<1>4. \A t \in Client : writer'[t] = "none" <=> writer[t] = "none"
    <2>1. \A t \in Client : t \in Writable
        BY StreamAssumption DEF Writable, Stream, Client, Server
    <2>2. QED BY <1>1, <1>2, <2>1 DEF TypeOK
<1>5. /\ UNCHANGED <<events, got, sent, ended, early, lost, h3, wtReady>>
      /\ listed' = listed /\ shut' = shut /\ arrived' = arrived /\ readable' = readable
    BY <1>1 DEF connVars, serverVars, promiseVars, readVars
<1>6. QED BY <1>2, <1>3, <1>4, <1>5, Quiet

LEMMA AbortQuiet ==
    ASSUME IInv, IInv', ReadInv, NEW s \in Writable, AbortWriter(s) PROVE ReadInv'
<1>1. /\ writer[s] # "none" /\ writer' = [writer EXCEPT ![s] = "errored"]
      /\ shut' = IF owned THEN shut \cup {s} ELSE shut
      /\ arrived' = IF owned /\ s \in Readable THEN [arrived EXCEPT ![s] = Nothing] ELSE arrived
      /\ streams' = streams
      /\ UNCHANGED <<connVars, events, sent, ended, early, lost, promiseVars, readVars>>
    BY DEF AbortWriter
<1>2. TypeOK /\ TypeOK'
    BY DEF IInv
<1>3. \A t \in Client : writer'[t] = "none" <=> writer[t] = "none"
    <2>1. \A t \in Client : t \in Writable
        BY StreamAssumption DEF Writable, Stream, Client, Server
    <2>2. QED BY <1>1, <1>2, <2>1 DEF TypeOK
<1>4. ASSUME NEW t \in Readable
      PROVE  arrived'[t] = IF t \in shut' \ shut THEN Nothing ELSE arrived[t]
    <2>1. s \in shut /\ s \in Readable => arrived[s] = Nothing
        BY DEF ReadInv, InOrder
    <2>2. QED BY <1>1, <1>2, <2>1 DEF TypeOK
<1>5. /\ UNCHANGED <<events, got, sent, ended, early, lost, h3, wtReady>>
      /\ listed' = listed /\ shut \subseteq shut' /\ readable' = readable
    BY <1>1 DEF connVars, promiseVars, readVars
<1>6. QED BY <1>1, <1>2, <1>3, <1>4, <1>5, Quiet

LEMMA RetryQuiet == ASSUME IInv, IInv', ReadInv, RetryWrites PROVE ReadInv'
<1>1. UNCHANGED <<connVars, events, serverVars, shut, promiseVars, readVars, writeVars>>
    BY DEF RetryWrites
<1>2. TypeOK /\ TypeOK' /\ WriteInv
    BY DEF IInv
<1>3. ASSUME NEW t \in Server PROVE streams'[t] = streams[t]
    <2>1. t \in Stream /\ t \notin Outgoing
        BY <1>2 DEF WriteInv, Sending, Outgoing, Stream
    <2>2. QED BY <2>1 DEF RetryWrites
<1>4. /\ UNCHANGED <<events, got, sent, ended, early, lost, h3, wtReady>>
      /\ listed' = listed /\ shut' = shut /\ arrived' = arrived
      /\ readable' = readable /\ writer' = writer
    BY <1>1 DEF connVars, serverVars, promiseVars, readVars, writeVars
<1>5. QED BY <1>2, <1>3, <1>4, Quiet

LEMMA OthersQuiet ==
    ASSUME IInv, IInv', ReadInv,
           UNCHANGED <<h3, wtReady, events, serverVars, streamVars, listed, readVars, writeVars>>
    PROVE  ReadInv'
<1>1. TypeOK /\ TypeOK'
    BY DEF IInv
<1>2. /\ UNCHANGED <<events, got, sent, ended, early, lost, h3, wtReady>>
      /\ listed' = listed /\ shut' = shut /\ arrived' = arrived /\ streams' = streams
      /\ readable' = readable /\ writer' = writer
    BY DEF serverVars, streamVars, readVars, writeVars
<1>3. QED BY <1>1, <1>2, Quiet

(* Steps that tell the script about the session, and the HTTP/3 layer when *)
(* it drains streams on which something arrived before the session was up. *)
LEMMA Aside ==
    ASSUME TypeOK, TypeOK', ReadInv, NEW D \in SUBSET early, lost' = lost \cup D,
           \A s \in Readable : arrived'[s] = IF s \in D THEN Nothing ELSE arrived[s],
           UNCHANGED <<sent, ended, early, streams, shut, listed, got, readable, writer>>,
           wtReady' => h3' = "freed", wtReady => wtReady',
           \/ events' = events
           \/ \E type \in {"ready", "error", "closed"} :
                 events' = Append(events, Event(type, "none", <<>>, FALSE))
    PROVE  ReadInv'
<1>1. events \in Seq(SomeEvent)
    BY DEF TypeOK, SomeEvent
<1>2. ASSUME NEW s \in Readable, NEW c, NEW a, NEW st, NEW w,
             Accounted(s, c, events, a, st, w)
      PROVE  Accounted(s, c, events', a, st, w)
    <2>1. CASE events' = events
        BY <1>2, <2>1
    <2>2. CASE events' # events
        <3>1. PICK type \in {"ready", "error", "closed"} :
                  events' = Append(events, Event(type, "none", <<>>, FALSE))
            BY <2>2
        <3>2. PICK e : e = Event(type, "none", <<>>, FALSE)
            OBVIOUS
        <3>3. e \in SomeEvent /\ e.type = type
            BY <3>2, EmptySeq DEF Event, SomeEvent, EventType
        <3>4. e \in {x \in SomeEvent : ~Concerns(s, x)}
            BY <3>3 DEF Concerns
        <3>5. <<e>> \in Seq({x \in SomeEvent : ~Concerns(s, x)})
            BY <3>4
        <3>6. Accounted(s, c, events \o <<e>>, a, st, w)
            BY <1>1, <1>2, <3>5, RunAside
        <3>7. events' = events \o <<e>>
            BY <1>1, <3>1, <3>2, <3>3, AppendIsConcat
        <3>8. QED BY <3>6, <3>7
    <2>3. QED BY <2>1, <2>2
<1>3. ASSUME NEW s \in Readable PROVE InOrder(s)'
    <2>1. InOrder(s) /\ (wtReady => h3 = "freed") /\ lost \subseteq early
        BY DEF ReadInv
    <2>2. ASSUME listed' PROVE AllAccounted(s)'
        <3>1. Accounted(s, ChannelOf(s), events, ReaderOf(s), streams[s], arrived[s])
            BY <2>1, <2>2 DEF InOrder, AllAccounted
        <3>2. PICK c, d, a, w, u, st : /\ c = ChannelOf(s) /\ d = ChannelOf(s)' /\ a = ReaderOf(s)
                                       /\ w = arrived[s] /\ u = arrived'[s] /\ st = streams[s]
            OBVIOUS
        <3>3. c \in Channel /\ d \in Channel
            BY <3>2, ChannelIs, NextChannelIs
        <3>4. a = ReaderOf(s)' /\ streams'[s] = st
            BY <3>2, NextChannel DEF ReaderOf, ChannelOf
        <3>5. /\ c = [live  |-> s \notin lost \cup shut,
                      begun |-> (s \in Client => writer[s] # "none"),
                      total |-> sent[s], over |-> s \in ended]
              /\ d = [live  |-> s \notin lost' \cup shut',
                      begun |-> (s \in Client => writer'[s] # "none"),
                      total |-> sent'[s], over |-> s \in ended']
            BY <3>2, NextChannel
        <3>6. d.total = c.total /\ d.over = c.over
            BY <3>5
        <3>7. c.begun => d.begun
            BY <3>5
        <3>8. d.live => c.live /\ u = w
            <4>1. d.live <=> s \notin lost' \cup shut'
                BY <3>5
            <4>2. c.live <=> s \notin lost \cup shut
                BY <3>5
            <4>3. s \notin lost' \cup shut' => s \notin lost \cup shut /\ s \notin D
                OBVIOUS
            <4>4. s \notin D => u = w
                BY <3>2
            <4>5. QED BY <4>1, <4>2, <4>3, <4>4
        <3>9. Accounted(s, c, events', a, st, w)
            BY <1>2, <3>1, <3>2
        <3>10. PICK ev : ev = events'
            OBVIOUS
        <3>11. Accounted(s, d, ev, a, st, u)
            <4>1. Accounted(s, c, ev, a, st, w)
                BY <3>9, <3>10
            <4>2. QED BY <3>3, <3>6, <3>7, <3>8, <4>1, AccountedStill
        <3>12. QED BY <3>2, <3>4, <3>10, <3>11, NextAccounted
    <2>3. QED BY <2>1, <2>2 DEF InOrder
<1>4. lost' \subseteq early'
    BY DEF ReadInv
<1>5. QED BY <1>3, <1>4 DEF ReadInv

LEMMA PollHandshakeAside == ASSUME IInv, IInv', ReadInv, PollHandshake PROVE ReadInv'
<1>1. /\ Handshake
      /\ UNCHANGED <<conn, established, answer, ownVars, sent, ended, early, streamVars,
                     promiseVars, readVars, writeVars>>
    BY DEF PollHandshake
<1>2. /\ TypeOK /\ TypeOK' /\ (wtReady => h3 = "freed")
      /\ \A s \in Server : s \in Readable
      /\ arrived \in [Readable -> Waiting]
    BY StreamAssumption DEF IInv, ReadInv, Readable, Stream, Server, Client, TypeOK, Waiting
<1>3. UNCHANGED <<sent, ended, early, streams, shut, listed, got, readable, writer>>
    BY <1>1 DEF streamVars, promiseVars, readVars, writeVars
<1>4. \E D \in SUBSET early :
          /\ lost' = lost \cup D
          /\ \A s \in Readable : arrived'[s] = IF s \in D THEN Nothing ELSE arrived[s]
          /\ wtReady' => h3' = "freed"
          /\ wtReady => wtReady'
          /\ \/ events' = events
             \/ \E type \in {"ready", "error", "closed"} :
                   events' = Append(events, Event(type, "none", <<>>, FALSE))
    <2>1. CASE established /\ h3 = "none" /\ UNCHANGED <<wtReady, arrived, lost>>
               /\ \/ h3' = "open" /\ UNCHANGED <<failed, events>>
                  \/ h3' \in {"open", "failed"} /\ Fails
        <3>1. ~wtReady /\ wtReady' = wtReady
            BY <1>2, <2>1
        <3>2. \/ events' = events
              \/ \E type \in {"ready", "error", "closed"} :
                    events' = Append(events, Event(type, "none", <<>>, FALSE))
            BY <2>1 DEF Fails
        <3>3. {} \in SUBSET early /\ lost' = lost \cup {}
            BY <2>1
        <3>4. \A s \in Readable : arrived'[s] = IF s \in {} THEN Nothing ELSE arrived[s]
            BY <2>1
        <3>5. QED BY <3>1, <3>2, <3>3, <3>4
    <2>2. CASE h3 = "open" /\ Http3Drains
               /\ \/ answer = "none" /\ UNCHANGED <<h3, wtReady, failed, events>>
                  \/ /\ answer \in {"ok", "ended"} /\ wtReady' = TRUE /\ h3' = "freed"
                     /\ events' = Append(events, Event("ready", "none", <<>>, FALSE))
                     /\ UNCHANGED failed
                  \/ answer = "refused" /\ Fails /\ UNCHANGED <<h3, wtReady>>
        <3>1. ~wtReady
            BY <1>2, <2>2
        <3>2. PICK D \in SUBSET {s \in Server : sent[s] > 0} :
                  /\ lost' = lost \cup D
                  /\ arrived' = [s \in Readable |-> IF s \in D THEN Nothing ELSE arrived[s]]
            BY <2>2 DEF Http3Drains
        <3>3. D \in SUBSET early
            <4>1. ASSUME NEW s \in D, s \notin early PROVE FALSE
                <5>1. s \in Readable /\ sent[s] > 0
                    BY <1>2
                <5>2. sent[s] = 0
                    BY <3>1, <4>1, <5>1 DEF ReadInv, InOrder
                <5>3. QED BY <5>1, <5>2
            <4>2. QED BY <4>1
        <3>4. /\ \/ events' = events
                 \/ \E type \in {"ready", "error", "closed"} :
                       events' = Append(events, Event(type, "none", <<>>, FALSE))
              /\ wtReady' => h3' = "freed"
            <4>1. CASE answer = "none" /\ UNCHANGED <<h3, wtReady, failed, events>>
                BY <3>1, <4>1
            <4>2. CASE /\ answer \in {"ok", "ended"} /\ wtReady' = TRUE /\ h3' = "freed"
                       /\ events' = Append(events, Event("ready", "none", <<>>, FALSE))
                       /\ UNCHANGED failed
                BY <4>2
            <4>3. CASE answer = "refused" /\ Fails /\ UNCHANGED <<h3, wtReady>>
                BY <3>1, <4>3 DEF Fails
            <4>4. QED BY <2>2, <4>1, <4>2, <4>3
        <3>5. QED BY <3>1, <3>2, <3>3, <3>4
    <2>3. CASE UNCHANGED <<h3, wtReady, failed, events, arrived, lost>>
        <3>1. {} \in SUBSET early /\ lost' = lost \cup {}
            BY <2>3
        <3>2. \A s \in Readable : arrived'[s] = IF s \in {} THEN Nothing ELSE arrived[s]
            BY <2>3
        <3>3. (wtReady' => h3' = "freed") /\ (wtReady => wtReady') /\ events' = events
            BY <1>2, <2>3
        <3>4. QED BY <3>1, <3>2, <3>3
    <2>4. QED BY <1>1, <2>1, <2>2, <2>3 DEF Handshake
<1>5. QED BY <1>2, <1>3, <1>4, Aside

LEMMA DetectClosureAside == ASSUME IInv, IInv', ReadInv, DetectClosure PROVE ReadInv'
<1>1. /\ UNCHANGED <<established, h3, answer, wtReady, failed, owned, serverVars, streamVars,
                     promiseVars, readVars, writeVars>>
      /\ \/ events' = events
         \/ events' = Append(events, Event("closed", "none", <<>>, FALSE))
    BY DEF DetectClosure
<1>2. TypeOK /\ TypeOK' /\ (wtReady => h3 = "freed")
    BY DEF IInv, ReadInv
<1>3. /\ UNCHANGED <<sent, ended, early, streams, shut, listed, got, readable, writer>>
      /\ lost' = lost /\ arrived' = arrived /\ h3' = h3 /\ wtReady' = wtReady
    BY <1>1 DEF serverVars, streamVars, promiseVars, readVars, writeVars
<1>4. {} \in SUBSET early /\ lost' = lost \cup {}
    BY <1>3
<1>5. \A s \in Readable : arrived'[s] = IF s \in {} THEN Nothing ELSE arrived[s]
    BY <1>3
<1>6. \/ events' = events
      \/ \E type \in {"ready", "error", "closed"} :
            events' = Append(events, Event(type, "none", <<>>, FALSE))
    BY <1>1
<1>7. QED BY <1>2, <1>3, <1>4, <1>5, <1>6, Aside

-----------------------------------------------------------------------------
(* After a packet: all is read once the session is up, nothing before.     *)
LEMMA PacketKeeps ==
    ASSUME TypeOK, NEW waiting \in [Readable -> Waiting], AfterPacket(waiting), NEW s \in Readable
    PROVE  /\ arrived'[s] = IF wtReady THEN Nothing ELSE waiting[s]
           /\ \A c \in Channel : \A a :
                  /\ waiting[s] # Nothing => c.live
                  /\ Accounted(s, c, events, a, streams[s], waiting[s])
                  => Accounted(s, c, events', a, streams'[s], arrived'[s])
<1>1. events \in Seq(SomeEvent) /\ streams \in [Stream -> StreamState]
    BY DEF TypeOK, SomeEvent
<1>2. CASE wtReady
    <2>1. ReadStreams(waiting)
        BY <1>2 DEF AfterPacket
    <2>2. arrived'[s] = Nothing
        BY <2>1 DEF ReadStreams
    <2>3. QED BY <1>1, <1>2, <2>1, <2>2, ReadStreamsKeeps
<1>3. CASE ~wtReady
    BY <1>3 DEF AfterPacket
<1>4. QED BY <1>2, <1>3

LEMMA ReceiveControlReads == ASSUME IInv, IInv', ReadInv, ReceiveControl PROVE ReadInv'
<1>1. /\ AfterPacket(arrived)
      /\ UNCHANGED <<h3, wtReady, sent, ended, early, lost, shut, promiseVars, readVars, writeVars>>
    BY DEF ReceiveControl
<1>2. TypeOK /\ TypeOK' /\ arrived \in [Readable -> Waiting]
    BY DEF IInv, TypeOK, Waiting
<1>3. UNCHANGED <<listed, got, readable, writer>>
    BY <1>1 DEF promiseVars, readVars, writeVars
<1>4. ASSUME NEW s \in Readable PROVE InOrder(s)'
    <2>1. InOrder(s)
        BY DEF ReadInv
    <2>2. arrived'[s] = IF wtReady THEN Nothing ELSE arrived[s]
        BY <1>1, <1>2, PacketKeeps
    <2>3. ASSUME listed' PROVE AllAccounted(s)'
        <3>1. Accounted(s, ChannelOf(s), events, ReaderOf(s), streams[s], arrived[s])
            BY <1>3, <2>1, <2>3 DEF InOrder, AllAccounted
        <3>2. PICK c, a : c = ChannelOf(s) /\ a = ReaderOf(s)
            OBVIOUS
        <3>3. c = ChannelOf(s)' /\ a = ReaderOf(s)'
            BY <1>1, <1>3, <3>2, NextChannel DEF ReaderOf, ChannelOf
        <3>4. arrived[s] # Nothing => c.live
            BY <2>1, <3>2 DEF InOrder, ChannelOf
        <3>5. c \in Channel
            BY <1>2, <3>2, ChannelIs
        <3>6. Accounted(s, c, events', a, streams'[s], arrived'[s])
            BY <1>1, <1>2, <3>1, <3>2, <3>4, <3>5, PacketKeeps
        <3>7. QED BY <3>3, <3>6, NextAccounted
    <2>4. QED BY <1>1, <1>3, <2>1, <2>2, <2>3 DEF InOrder
<1>5. QED BY <1>1, <1>4 DEF ReadInv

LEMMA ReceiveDataReads ==
    ASSUME IInv, IInv', ReadInv, NEW s \in Readable, NEW n \in 0 .. MaxUnits + Header,
           NEW end \in {"none", "fin", "reset"}, ReceiveData(s, n, end)
    PROVE  ReadInv'
<1>1. PICK more : more = [i \in 1 .. n |-> Unit(s, sent[s] + i)]
    OBVIOUS
<1>2. PICK v, waiting : /\ v = [units |-> arrived[s].units \o more, end |-> end]
                        /\ waiting = IF s \in lost THEN arrived ELSE [arrived EXCEPT ![s] = v]
    OBVIOUS
<1>3. /\ AfterPacket(waiting) /\ MaySend(s)
      /\ end = "fin" /\ s \in Server => sent[s] + n >= Header
      /\ sent' = [sent EXCEPT ![s] = sent[s] + n]
      /\ ended' = IF end = "none" THEN ended ELSE ended \cup {s}
      /\ early' = IF wtReady THEN early ELSE early \cup {s}
      /\ UNCHANGED <<connVars, lost, shut, wire, promiseVars, readVars, writeVars>>
      /\ pc = "pump"
    BY <1>1, <1>2 DEF ReceiveData
<1>4. /\ TypeOK /\ TypeOK' /\ sent[s] \in Nat /\ n \in Nat /\ Header = 2
      /\ arrived \in [Readable -> Waiting]
    <2>1. Header = 2 /\ MaxUnits \in Nat
        BY UnitsAssumption DEF Header
    <2>2. TypeOK /\ TypeOK'
        BY DEF IInv
    <2>3. sent[s] \in 0 .. MaxUnits + Header
        BY <2>2 DEF TypeOK
    <2>4. arrived \in [Readable -> Waiting]
        BY <2>2 DEF TypeOK, Waiting
    <2>5. sent[s] \in Nat /\ n \in Nat
        BY <2>1, <2>3
    <2>6. QED BY <2>1, <2>2, <2>4, <2>5
<1>5. UNCHANGED <<listed, got, readable, writer, h3, wtReady>>
    BY <1>3 DEF promiseVars, readVars, writeVars, connVars
<1>6. s \notin ended /\ s \notin shut /\ (s \in Client => writer[s] # "none")
    <2>1. s \notin ended \cup shut /\ (s \in Client => Len(wire[s]) >= Header)
        BY <1>3 DEF MaySend
    <2>2. s \in Client /\ writer[s] = "none" => Len(wire[s]) = 0
        BY EmptySeq DEF IInv, WriteInv
    <2>3. QED BY <1>4, <2>1, <2>2
<1>7. v \in Waiting /\ waiting \in [Readable -> Waiting]
    <2>1. arrived[s].units \in Seq(Nat)
        BY <1>4 DEF Waiting
    <2>2. more \in Seq(Nat)
        <3>1. \A i \in 1 .. n : Unit(s, sent[s] + i) \in Nat
            BY <1>4 DEF Unit
        <3>2. QED BY <1>1, <1>4, <3>1
    <2>3. PICK u : u = arrived[s].units \o more
        OBVIOUS
    <2>4. u \in Seq(Nat)
        BY <2>1, <2>2, <2>3, ConcatProperties
    <2>5. v = [units |-> u, end |-> end]
        BY <1>2, <2>3
    <2>6. v \in Waiting
        BY <2>4, <2>5 DEF Waiting
    <2>7. QED BY <1>2, <1>4, <2>6
<1>8. ASSUME NEW t \in Readable PROVE InOrder(t)'
    <2>1. InOrder(t) /\ InOrder(s) /\ lost \subseteq early
        BY DEF ReadInv
    <2>2. arrived'[t] = IF wtReady THEN Nothing ELSE waiting[t]
        BY <1>3, <1>7, <1>4, PacketKeeps
    <2>3. t \in lost \cup shut => waiting[t] = Nothing
        BY <1>2, <1>4, <1>6, <2>1 DEF InOrder
    <2>4. t # s => waiting[t] = arrived[t] /\ sent'[t] = sent[t] /\ (t \in ended' <=> t \in ended)
        BY <1>2, <1>3, <1>4 DEF TypeOK
    <2>5. sent'[s] = sent[s] + n /\ (s \in ended' <=> end # "none")
        BY <1>3, <1>4, <1>6 DEF TypeOK
    <2>6. got'[t] = Up(Len(got'[t]))
        BY <1>5, <2>1 DEF InOrder
    <2>7. readable'[t] = "closed" /\ listed' => t \in ended' /\ Len(got'[t]) = sent'[t] - HeadOf(t)
        BY <1>5, <1>6, <2>1, <2>4 DEF InOrder
    <2>8. t \in lost' \cup shut' => arrived'[t] = Nothing
        BY <1>3, <2>2, <2>3
    <2>9. t \notin early' => arrived'[t] = Nothing /\ (~wtReady' => sent'[t] = 0)
        BY <1>3, <1>5, <2>1, <2>2, <2>4 DEF InOrder
    <2>10. ASSUME listed' PROVE AllAccounted(t)'
        <3>1. Accounted(t, ChannelOf(t), events, ReaderOf(t), streams[t], arrived[t])
            BY <1>5, <2>1, <2>10 DEF InOrder, AllAccounted
        <3>2. PICK c, d, a, ev, st, w, u :
                  /\ c = ChannelOf(t) /\ d = ChannelOf(t)' /\ a = ReaderOf(t)
                  /\ ev = events /\ st = streams[t] /\ w = arrived[t] /\ u = waiting[t]
            OBVIOUS
        <3>3. c \in Channel /\ d \in Channel /\ a = ReaderOf(t)'
            BY <1>4, <1>5, <3>2, ChannelIs, NextChannelIs, NextChannel DEF ReaderOf, ChannelOf
        <3>4. /\ c = [live  |-> t \notin lost \cup shut,
                      begun |-> (t \in Client => writer[t] # "none"),
                      total |-> sent[t], over |-> t \in ended]
              /\ d = [live  |-> t \notin lost' \cup shut',
                      begun |-> (t \in Client => writer'[t] # "none"),
                      total |-> sent'[t], over |-> t \in ended']
            BY <3>2, NextChannel
        <3>5. Accounted(t, c, ev, a, st, w)
            BY <3>1, <3>2
        <3>6. d.live = c.live /\ d.begun = c.begun
            BY <1>3, <1>5, <3>4
        <3>7. Accounted(t, d, ev, a, st, u)
            <4>1. CASE t = s
                <5>1. ~c.over /\ d.total = c.total + n
                    BY <1>6, <2>5, <3>4, <4>1
                <5>2. d.over <=> end # "none"
                    BY <2>5, <3>4, <4>1
                <5>3. c.live => c.begun
                    BY <1>6, <3>4, <4>1
                <5>4. end = "fin" => d.total >= HeadOf(t)
                    <6>1. d.total = sent[s] + n /\ d.total \in Nat
                        BY <1>4, <2>5, <3>4, <4>1
                    <6>2. QED BY <1>3, <1>4, <4>1, <6>1 DEF HeadOf
                <5>5. more = [i \in 1 .. n |-> Unit(t, c.total + i)]
                    BY <1>1, <3>4, <4>1
                <5>6. c.live => u.units = w.units \o more /\ u.end = end
                    <6>1. c.live => s \notin lost
                        BY <3>4, <4>1
                    <6>2. s \notin lost => u = v
                        BY <1>2, <1>4, <3>2, <4>1
                    <6>3. v.units = w.units \o more /\ v.end = end
                        BY <1>2, <3>2, <4>1
                    <6>4. QED BY <6>1, <6>2, <6>3
                <5>7. /\ ev \in Seq(SomeEvent) /\ st \in StreamState /\ w \in Waiting /\ u \in Waiting
                    BY <1>4, <1>7, <3>2 DEF TypeOK, SomeEvent, Readable
                <5>8. /\ c \in Channel /\ d \in Channel /\ n \in Nat /\ end \in {"none", "fin", "reset"}
                      /\ d.live = c.live /\ d.begun = c.begun
                    BY <1>4, <3>3, <3>6
                <5>9. QED BY <3>5, <5>1, <5>2, <5>3, <5>4, <5>5, <5>6, <5>7, <5>8, ArriveKeeps, ZenonT(60)
            <4>2. CASE t # s
                <5>1. d = c /\ u = w
                    BY <1>3, <1>5, <2>4, <3>2, <3>4, <4>2
                <5>2. QED BY <3>5, <5>1
            <4>3. QED BY <4>1, <4>2
        <3>8. waiting[t] # Nothing => d.live
            BY <1>3, <2>3, <3>4
        <3>9. Accounted(t, d, events, a, streams[t], waiting[t])
            BY <3>2, <3>7
        <3>10. Accounted(t, d, events', a, streams'[t], arrived'[t])
            BY <1>3, <1>4, <1>7, <3>3, <3>8, <3>9, PacketKeeps
        <3>11. QED BY <3>2, <3>3, <3>10, NextAccounted
    <2>11. QED BY <2>6, <2>7, <2>8, <2>9, <2>10 DEF InOrder
<1>9. (wtReady' => h3' = "freed") /\ lost' \subseteq early'
    BY <1>3, <1>5 DEF ReadInv
<1>10. QED BY <1>8, <1>9 DEF ReadInv

-----------------------------------------------------------------------------
(* An event does to the readable of a stream what After says, and one that *)
(* ends it comes with the last of the payload.                             *)
LEMMA UpOn ==
    ASSUME NEW n \in Nat, NEW units \in Seq(Nat),
           \A i \in 1 .. Len(units) : units[i] = n + i
    PROVE  Up(n) \o units = Up(n + Len(units)) /\ Len(Up(n + Len(units))) = n + Len(units)
<1>1. PICK k, g, h : k = Len(units) /\ g = Up(n) /\ h = Up(n + k)
    OBVIOUS
<1>2. k \in Nat /\ n + k \in Nat
    BY <1>1, LenProperties
<1>3. ASSUME NEW m \in Nat
      PROVE  Up(m) \in Seq(Nat) /\ Len(Up(m)) = m /\ \A i \in 1 .. m : Up(m)[i] = i
    BY DEF Up
<1>4. g \in Seq(Nat) /\ Len(g) = n /\ \A i \in 1 .. n : g[i] = i
    BY <1>1, <1>3
<1>5. h \in Seq(Nat) /\ Len(h) = n + k /\ \A i \in 1 .. n + k : h[i] = i
    BY <1>1, <1>2, <1>3
<1>6. PICK q : q = g \o units
    OBVIOUS
<1>7. /\ q \in Seq(Nat) /\ Len(q) = n + k
      /\ \A i \in 1 .. n + k : q[i] = IF i <= n THEN g[i] ELSE units[i - n]
    <2>1. /\ g \o units \in Seq(Nat) /\ Len(g \o units) = Len(g) + Len(units)
          /\ \A i \in 1 .. Len(g) + Len(units) :
                (g \o units)[i] = IF i <= Len(g) THEN g[i] ELSE units[i - Len(g)]
        BY <1>4, ConcatProperties
    <2>2. QED BY <1>1, <1>4, <1>6, <2>1
<1>8. ASSUME NEW i \in 1 .. n + k PROVE q[i] = h[i]
    <2>1. CASE i <= n
        BY <1>2, <1>4, <1>5, <1>7, <2>1
    <2>2. CASE ~(i <= n)
        <3>1. i - n \in 1 .. k /\ n + (i - n) = i
            BY <1>2, <2>2
        <3>2. units[i - n] = i
            BY <1>1, <3>1
        <3>3. QED BY <1>5, <1>7, <2>2, <3>2
    <2>3. QED BY <2>1, <2>2
<1>9. q = h
    BY <1>5, <1>7, <1>8, SeqEqual
<1>10. QED BY <1>1, <1>5, <1>6, <1>9

LEMMA DeliverReads ==
    ASSUME TypeOK, NEW e \in SomeEvent, Deliver(e), e.type # "closed", NEW s \in Readable,
           Follows(s, ChannelOf(s), ReaderOf(s), e), got[s] = Up(Len(got[s]))
    PROVE  /\ ReaderOf(s)' = After(s, ReaderOf(s), e)
           /\ got'[s] = Up(Len(got'[s]))
           /\ readable'[s] = "closed" =>
                  \/ readable[s] = "closed" /\ got'[s] = got[s]
                  \/ s \in ended /\ Len(got'[s]) = sent[s] - HeadOf(s)
<1>1. /\ got \in [Readable -> Seq(Nat)]
      /\ readable \in [Readable -> {"none", "open", "closed", "errored"}]
      /\ e.units \in Seq(Nat) /\ e.fin \in BOOLEAN
    BY DEF TypeOK, SomeEvent
<1>2. \A t \in Client : writer'[t] = writer[t]
    BY DeliverIs
<1>3. PICK c, a, n : c = ChannelOf(s) /\ a = ReaderOf(s) /\ n = Len(got[s])
    OBVIOUS
<1>4. /\ c.begun <=> (s \in Client => writer[s] # "none")
      /\ c.total = sent[s] /\ (c.over <=> s \in ended)
      /\ a = [pos |-> n, side |-> IF c.begun THEN readable[s] ELSE "open"]
      /\ n \in Nat
    BY <1>3, ChannelIs DEF ChannelOf, ReaderOf
<1>5. ReaderOf(s)' = [pos |-> Len(got'[s]), side |-> IF c.begun THEN readable'[s] ELSE "open"]
    <2>1. (s \in Client => writer'[s] # "none") <=> c.begun
        BY <1>2, <1>4
    <2>2. QED BY <2>1, NextChannel
<1>6. CASE ~Concerns(s, e)
    <2>1. got'[s] = got[s] /\ readable'[s] = readable[s]
        <3>1. CASE e.type = "incoming"
            BY <1>1, <1>6, <3>1 DEF Deliver, Concerns
        <3>2. CASE e.type = "streamData"
            BY <1>1, <1>6, <3>2 DEF Deliver, Concerns
        <3>3. CASE e.type = "streamReset"
            BY <1>1, <1>6, <3>3 DEF Deliver, Concerns
        <3>4. CASE e.type \notin {"closed", "incoming", "streamData", "streamReset"}
            BY <3>4 DEF Deliver, readVars
        <3>5. QED BY <3>1, <3>2, <3>3, <3>4
    <2>2. After(s, ReaderOf(s), e) = ReaderOf(s)
        BY <1>6 DEF After
    <2>3. QED BY <1>3, <1>4, <1>5, <2>1, <2>2
<1>7. CASE Concerns(s, e)
    <2>1. /\ c.begun /\ e.stream = s
          /\ e.type # "streamData" => e.units = <<>> /\ ~e.fin
          /\ e.type = "streamData" =>
                /\ a.side = "open"
                /\ \A i \in 1 .. Len(e.units) : e.units[i] = a.pos + i
                /\ e.fin => c.over /\ a.pos + Len(e.units) = c.total - HeadOf(s)
          /\ e.type \in {"incoming", "streamData", "streamReset"}
        BY <1>3, <1>7 DEF Follows, Concerns
    <2>2. a.pos = n /\ a.side = readable[s]
        BY <1>4, <2>1
    <2>3. ReaderOf(s)' = [pos |-> Len(got'[s]), side |-> readable'[s]]
        BY <1>5, <2>1
    <2>4. After(s, a, e) = [pos  |-> n + Len(e.units),
                            side |-> IF e.type = "streamReset"
                                     THEN IF readable[s] = "open" THEN "errored" ELSE readable[s]
                                     ELSE IF e.fin THEN "closed" ELSE "open"]
        BY <1>7, <2>2 DEF After
    <2>5. e.units = <<>> => n + Len(e.units) = n
        BY <1>4, EmptySeq
    <2>6. CASE e.type = "incoming"
        <3>1. readable'[s] = "open" /\ got' = got
            BY <1>1, <2>1, <2>6 DEF Deliver
        <3>2. QED BY <1>3, <2>1, <2>3, <2>4, <2>5, <2>6, <3>1
    <2>7. CASE e.type = "streamReset"
        <3>1. /\ readable'[s] = IF readable[s] = "open" THEN "errored" ELSE readable[s]
              /\ got' = got
            BY <1>1, <2>1, <2>7 DEF Deliver
        <3>2. QED BY <1>3, <2>1, <2>3, <2>4, <2>5, <2>7, <3>1
    <2>8. CASE e.type = "streamData"
        <3>1. readable[s] = "open"
            BY <2>1, <2>2, <2>8
        <3>2. /\ got'[s] = got[s] \o e.units
              /\ readable'[s] = IF e.fin THEN "closed" ELSE "open"
            BY <1>1, <2>1, <2>8, <3>1 DEF Deliver
        <3>3. PICK units : units = e.units
            OBVIOUS
        <3>4. /\ units \in Seq(Nat) /\ \A i \in 1 .. Len(units) : units[i] = n + i
            BY <1>1, <2>1, <2>2, <2>8, <3>3
        <3>5. Up(n) \o units = Up(n + Len(units)) /\ Len(Up(n + Len(units))) = n + Len(units)
            BY <1>4, <3>4, UpOn
        <3>6. got'[s] = Up(n + Len(units)) /\ Len(got'[s]) = n + Len(units)
            BY <1>3, <3>2, <3>3, <3>5
        <3>7. e.fin => s \in ended /\ Len(got'[s]) = sent[s] - HeadOf(s)
            BY <1>4, <2>1, <2>2, <2>8, <3>3, <3>6
        <3>8. ReaderOf(s)' = After(s, ReaderOf(s), e)
            BY <1>3, <2>3, <2>4, <2>8, <3>2, <3>3, <3>6
        <3>9. QED BY <3>2, <3>6, <3>7, <3>8
    <2>9. QED BY <2>1, <2>6, <2>7, <2>8
<1>8. QED BY <1>6, <1>7

LEMMA DispatchReads == ASSUME IInv, IInv', ReadInv, DispatchEvent PROVE ReadInv'
<1>1. /\ events # <<>> /\ events' = Tail(events)
      /\ UNCHANGED <<connVars, serverVars, streamVars>>
    BY DEF DispatchEvent
<1>2. TypeOK /\ TypeOK' /\ events \in Seq(SomeEvent)
    BY DEF IInv, TypeOK, SomeEvent
<1>3. UNCHANGED <<h3, wtReady, sent, ended, early, lost, arrived, streams, shut>>
    BY <1>1 DEF connVars, serverVars, streamVars
<1>4. PICK e : e = Head(events)
    OBVIOUS
<1>5. e \in SomeEvent
    BY <1>1, <1>2, <1>4, HeadTailProperties
<1>6. ASSUME NEW s \in Readable PROVE InOrder(s)'
    <2>1. InOrder(s)
        BY DEF ReadInv
    <2>2. CASE ~listed
        <3>1. UNCHANGED <<listed, got, readable>>
            BY <2>2 DEF DispatchEvent, promiseVars, readVars
        <3>2. QED BY <1>3, <2>1, <2>2, <3>1 DEF InOrder
    <2>3. CASE listed
        <3>1. Settle(e) /\ Deliver(e)
            BY <1>4, <2>3 DEF DispatchEvent
        <3>2. listed' = (listed /\ ~IsClose(e)) /\ \A t \in Client : writer'[t] = writer[t]
            BY <1>2, <1>5, <3>1, SettleIs, DeliverIs
        <3>3. CASE IsClose(e)
            <4>1. got' = got /\ ~listed'
                BY <3>1, <3>2, <3>3 DEF Deliver, IsClose
            <4>2. QED BY <1>3, <2>1, <4>1 DEF InOrder
        <3>4. CASE ~IsClose(e)
            <4>1. PICK c, a, ev, st, w : /\ c = ChannelOf(s) /\ a = ReaderOf(s) /\ ev = events
                                         /\ st = streams[s] /\ w = arrived[s]
                OBVIOUS
            <4>2. Accounted(s, c, ev, a, st, w)
                BY <2>1, <2>3, <4>1 DEF InOrder, AllAccounted
            <4>3. Follows(s, c, a, e) /\ Accounted(s, c, Tail(ev), After(s, a, e), st, w)
                <5>1. ev \in Seq(SomeEvent) /\ ev # <<>> /\ e = Head(ev)
                    BY <1>1, <1>2, <1>4, <4>1
                <5>2. QED BY <4>2, <5>1, RunTail
            <4>4. /\ ReaderOf(s)' = After(s, ReaderOf(s), e)
                  /\ got'[s] = Up(Len(got'[s]))
                  /\ readable'[s] = "closed" =>
                         \/ readable[s] = "closed" /\ got'[s] = got[s]
                         \/ s \in ended /\ Len(got'[s]) = sent[s] - HeadOf(s)
                <5>1. got[s] = Up(Len(got[s])) /\ e.type # "closed"
                    BY <2>1, <3>4 DEF InOrder, IsClose
                <5>2. Follows(s, ChannelOf(s), ReaderOf(s), e)
                    BY <4>1, <4>3
                <5>3. QED BY <1>2, <1>5, <3>1, <5>1, <5>2, DeliverReads
            <4>5. ChannelOf(s)' = c
                BY <1>3, <3>2, <4>1, NextChannel
            <4>6. events' = Tail(ev) /\ streams'[s] = st /\ arrived'[s] = w
                BY <1>1, <1>3, <4>1
            <4>7. Accounted(s, ChannelOf(s)', events', ReaderOf(s)', streams'[s], arrived'[s])
                BY <4>1, <4>3, <4>4, <4>5, <4>6
            <4>8. AllAccounted(s)'
                BY <4>7, NextAccounted
            <4>9. readable'[s] = "closed" /\ listed' => s \in ended' /\ Len(got'[s]) = sent'[s] - HeadOf(s)
                BY <1>3, <2>1, <2>3, <4>4 DEF InOrder
            <4>10. QED BY <1>3, <2>1, <4>4, <4>8, <4>9 DEF InOrder
        <3>5. QED BY <3>3, <3>4
    <2>4. QED BY <2>2, <2>3
<1>7. (wtReady' => h3' = "freed") /\ lost' \subseteq early'
    BY <1>3 DEF ReadInv
<1>8. QED BY <1>6, <1>7 DEF ReadInv

-----------------------------------------------------------------------------
LEMMA InitReads == Init => ReadInv
<1> SUFFICES ASSUME Init PROVE ReadInv
    OBVIOUS
<1>1. TypeOK /\ Header = 2
    BY InitEstablishes DEF IInv, Header
<1>2. /\ got = [s \in Readable |-> <<>>] /\ readable = [s \in Readable |-> "none"]
      /\ arrived = [s \in Readable |-> Nothing] /\ sent = [s \in Readable |-> 0]
      /\ ended = {} /\ lost = {} /\ shut = {} /\ events = <<>> /\ wtReady = FALSE
      /\ streams = [s \in Stream |-> NoStream] /\ writer = [s \in Writable |-> "none"]
    BY DEF Init
<1>3. ASSUME NEW s \in Readable PROVE InOrder(s)
    <2>1. /\ got[s] = <<>> /\ readable[s] = "none" /\ arrived[s] = Nothing /\ sent[s] = 0
          /\ s \notin ended /\ s \notin lost \cup shut /\ streams[s] = NoStream
          /\ s \in Client => writer[s] = "none"
        BY <1>2, StreamAssumption DEF Readable, Writable, Stream, Client, Server
    <2>2. Len(got[s]) = 0 /\ Up(0) = <<>>
        BY <2>1, EmptySeq DEF Up
    <2>3. PICK c, a, w, st : c = ChannelOf(s) /\ a = ReaderOf(s) /\ w = arrived[s] /\ st = streams[s]
        OBVIOUS
    <2>4. /\ c.total = 0 /\ ~c.over /\ (c.begun <=> s \notin Client)
          /\ a = [pos |-> 0, side |-> IF s \in Client THEN "open" ELSE "none"]
          /\ a \in Reader
        <3>1. c.total = 0 /\ ~c.over /\ (c.begun <=> s \notin Client)
            BY <2>1, <2>3 DEF ChannelOf
        <3>2. a = [pos |-> 0, side |-> IF s \in Client THEN "open" ELSE "none"]
            BY <2>1, <2>2, <2>3, <3>1 DEF ReaderOf
        <3>3. QED BY <1>1, <2>3, <3>1, <3>2, ChannelIs
    <2>5. HeaderRead(s, st) = 0 /\ ~st.tracked
        BY <2>1, <2>3 DEF HeaderRead, NoStream
    <2>6. w.units = <<>> /\ w.end = "none" /\ Len(<<>>) = 0 /\ w = Nothing
        BY <2>1, <2>3, EmptySeq DEF Nothing
    <2>7. a.pos = 0 /\ a.side = IF 0 < HeadOf(s) THEN "none" ELSE "open"
        <3>1. s \in Client <=> s \notin Server
            BY StreamAssumption DEF Readable, Stream
        <3>2. QED BY <1>1, <2>4, <3>1 DEF HeadOf
    <2>8. Account(s, c, a, st, w)
        BY <2>4, <2>5, <2>6, <2>7 DEF Account
    <2>9. PICK f : f = [i \in 0 .. 0 |-> a]
        OBVIOUS
    <2>10. Run(s, c, <<>>, a, f) /\ f[Len(<<>>)] = a
        <3>1. f \in [0 .. 0 -> Reader] /\ f[0] = a
            BY <2>4, <2>9
        <3>2. QED BY <3>1, EmptySeq DEF Run
    <2>11. AllAccounted(s)
        BY <1>2, <2>3, <2>8, <2>10 DEF AllAccounted, Accounted
    <2>12. QED BY <2>1, <2>2, <2>11 DEF InOrder
<1>4. QED BY <1>2, <1>3 DEF ReadInv

LEMMA NextReads == IInv /\ IInv' /\ ReadInv /\ [Next]_vars => ReadInv'
<1> SUFFICES ASSUME IInv, IInv', ReadInv, [Next]_vars PROVE ReadInv'
    OBVIOUS
<1>1. CASE Process
    <2>1. CASE BeginProcess
        BY <2>1, OthersQuiet DEF BeginProcess, connVars, promiseVars
    <2>2. CASE EndPump(FALSE) \/ EndPump(TRUE)
        BY <2>2, OthersQuiet DEF EndPump, promiseVars
    <2>3. CASE PollHandshake
        BY <2>3, PollHandshakeAside
    <2>4. CASE RetryWrites
        BY <2>4, RetryQuiet
    <2>5. CASE DetectClosure
        BY <2>5, DetectClosureAside
    <2>6. CASE DispatchEvent
        BY <2>6, DispatchReads
    <2>7. CASE EndProcess
        BY <2>7, OthersQuiet DEF EndProcess, connVars, promiseVars
    <2>8. QED BY <1>1, <2>1, <2>2, <2>3, <2>4, <2>5, <2>6, <2>7 DEF Process
<1>2. CASE \E s \in Readable, n \in 0 .. MaxUnits + Header, end \in {"none", "fin", "reset"} :
              ReceiveData(s, n, end)
    BY <1>2, ReceiveDataReads
<1>3. CASE ReceiveControl
    BY <1>3, ReceiveControlReads
<1>4. CASE \E s \in Writable : CreateStream(s) \/ Write(s) \/ CloseWriter(s) \/ AbortWriter(s)
    BY <1>4, CreateQuiet, WriteQuiet, AbortQuiet
<1>5. CASE CloseSession
    BY <1>5, OthersQuiet DEF CloseSession, promiseVars
<1>6. CASE Shutdown
    BY <1>6, OthersQuiet DEF Shutdown, promiseVars
<1>7. CASE UNCHANGED vars
    BY <1>7, OthersQuiet DEF vars, connVars, promiseVars
<1>8. QED BY <1>1, <1>2, <1>3, <1>4, <1>5, <1>6, <1>7 DEF Next

(* Nothing of what the server sends is lost, repeated or out of place      *)
(* between a packet and the script: what has arrived is what the readable  *)
(* was given, then what the events in g_events carry, then what waits in   *)
(* quiche.                                                                 *)
THEOREM ReadInvariance == Spec => []ReadInv
<1>1. Init => ReadInv
    BY InitReads
<1>2. IInv /\ IInv' /\ ReadInv /\ [Next]_vars => ReadInv'
    BY NextReads
<1>3. QED BY <1>1, <1>2, Invariance, PTL DEF Spec

(* The script reads what the server sent, in order and once; a readable    *)
(* that ends while the session goes on has been given all of it; and after *)
(* processEvents nothing is held back that arrived since the session was   *)
(* up.                                                                     *)
THEOREM ReadsInOrder == Spec => []ReadInOrder
<1>1. ASSUME IInv, ReadInv PROVE ReadInOrder
    <2>1. ASSUME NEW s \in Readable
          PROVE  /\ got[s] = Up(Len(got[s]))
                 /\ readable[s] = "closed" /\ listed =>
                       s \in ended /\ Len(got[s]) = sent[s] - (IF s \in Server THEN Header ELSE 0)
        BY <1>1 DEF ReadInv, InOrder, HeadOf
    <2>2. ASSUME pc = "js", listed, NEW s \in Readable \ (early \cup shut)
          PROVE  /\ arrived[s] = Nothing
                 /\ s \notin ended /\ sent[s] >= Header /\ s \in Server
                       => Len(got[s]) = sent[s] - Header
                 /\ s \notin ended /\ s \in Client => Len(got[s]) = sent[s]
        <3>1. InOrder(s) /\ TypeOK /\ events = <<>> /\ s \notin lost \cup shut
            BY <1>1, <2>2 DEF IInv, SessionInv, ReadInv
        <3>2. arrived[s] = Nothing
            BY <2>2, <3>1 DEF InOrder
        <3>3. PICK c, a, st : c = ChannelOf(s) /\ a = ReaderOf(s) /\ st = streams[s]
            OBVIOUS
        <3>4. Accounted(s, c, <<>>, a, st, Nothing)
            BY <2>2, <3>1, <3>2, <3>3 DEF InOrder, AllAccounted
        <3>5. Account(s, c, a, st, Nothing)
            BY <3>4, EmptySeq DEF Accounted, Run
        <3>6. /\ c.live /\ c.total = sent[s] /\ (c.over <=> s \in ended)
              /\ a.pos = Len(got[s])
            BY <3>1, <3>3 DEF ChannelOf, ReaderOf
        <3>7. Len(got[s]) \in Nat /\ sent[s] \in Nat
            BY <3>1, UnitsAssumption, ChannelIs DEF TypeOK, Header
        <3>8. ASSUME s \notin ended
              PROVE  \E h : /\ h = HeaderRead(s, st) /\ Len(got[s]) + h <= sent[s]
                            /\ 0 = sent[s] - (Len(got[s]) + h)
                            /\ h < HeadOf(s) => Len(got[s]) = 0
            <4>1. Len(Nothing.units) = 0
                BY EmptySeq DEF Nothing
            <4>2. QED BY <3>5, <3>6, <3>8, <4>1 DEF Account
        <3>9. PICK h : h = HeaderRead(s, st)
            OBVIOUS
        <3>10. h \in 0 .. Header /\ (s \in Client => h = 0)
            <4>1. st \in StreamState
                BY <3>1, <3>3 DEF TypeOK, Readable
            <4>2. st.tracked => st.header \in 0 .. Header
                <5>1. CASE st = NoStream
                    BY <5>1 DEF NoStream
                <5>2. CASE st # NoStream
                    BY <4>1, <5>2 DEF StreamState
                <5>3. QED BY <5>1, <5>2
            <4>3. s \in Client => s \notin Server
                BY StreamAssumption
            <4>4. QED BY <3>9, <4>2, <4>3 DEF HeaderRead, Header
        <3>11. CASE s \in ended
            BY <3>2, <3>11
        <3>12. CASE s \notin ended
            <4>1. PICK l, z : l = Len(got[s]) /\ z = sent[s]
                OBVIOUS
            <4>2. l \in Nat /\ z \in Nat /\ 0 = z - (l + h) /\ (h < HeadOf(s) => l = 0)
                BY <3>7, <3>8, <3>9, <3>12, <4>1
            <4>3. s \in Client => l = z
                BY <3>10, <4>2
            <4>4. ASSUME s \in Server, z >= Header PROVE l = z - Header
                <5>1. HeadOf(s) = Header /\ Header \in Nat
                    BY <4>4 DEF HeadOf, Header
                <5>2. h = Header
                    BY <3>10, <4>2, <4>4, <5>1
                <5>3. QED BY <4>2, <5>1, <5>2
            <4>5. QED BY <3>2, <4>1, <4>3, <4>4
        <3>13. QED BY <3>11, <3>12
    <2>3. QED BY <2>1, <2>2 DEF ReadInOrder
<1>2. QED BY <1>1, Invariance, ReadInvariance, PTL
=============================================================================
